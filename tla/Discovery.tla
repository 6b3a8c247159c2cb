------------------------------ MODULE Discovery ------------------------------
(***************************************************************************)
(* The network sweep: routes::discover, BackendRegistry::discover_all and  *)
(* the two backends' discover (src-tauri/src/brother/discovery.rs and      *)
(* emberconnect/discovery.rs).                                             *)
(*                                                                         *)
(* A sweep first spawns one task per address of the /24, of which          *)
(* CONCURRENCY hold a permit of the sweep's own semaphore, then listens    *)
(* for dongles and asks those it heard one after the other.  The tasks are *)
(* detached: when the browser goes away and the handler is dropped, they   *)
(* run on, while the guard frees the flag for the next sweep.              *)
(*                                                                         *)
(* A dongle in the /24 is dialled by the sweep and asked again when it is  *)
(* heard: a probe is known by its backend and its address.                 *)
(***************************************************************************)
EXTENDS Naturals, FiniteSets

CONSTANTS
    Calls,         \* requests that may ask for a sweep
    Addresses,     \* the addresses of the local /24 networks
    Dongles,       \* the addresses that may announce themselves over mDNS, most of
                   \* them in the /24 too
    CONCURRENCY    \* parallel probes of a sweep (48 in the code)

ASSUME SweepAssumption ==
    /\ CONCURRENCY \in Nat \ {0}
    /\ IsFiniteSet(Calls) /\ IsFiniteSet(Addresses) /\ IsFiniteSet(Dongles)

Swept    == {"brother"} \X Addresses
Heard    == {"emberconnect"} \X Dongles
Target   == Swept \cup Heard
NoCache  == [by |-> "nobody", machines |-> {}]

VARIABLES
    discovery_running,   \* AppState.discovery_running
    sweep,               \* where each call's handler is
    probe,               \* each call's probes
    discovered           \* AppState.discovered and the call it came from

sweepVars == <<discovery_running, sweep, probe, discovered>>

Stage    == {"none", "sweeping", "browsing", "asking", "caching", "published",
             "done", "refused", "dropped"}
Sweeping == {"sweeping", "browsing", "asking", "caching", "published"}
Status   == {"none", "queued", "probing", "found", "nothing"}

Probing(c) == {t \in Target : probe[c][t] = "probing"}
Found(c)   == {t \in Target : probe[c][t] = "found"}
Undone(c)  == {t \in Target : probe[c][t] \in {"queued", "probing"}}

DiscoveryInit ==
    /\ discovery_running = FALSE
    /\ sweep = [c \in Calls |-> "none"]
    /\ probe = [c \in Calls |-> [t \in Target |-> "none"]]
    /\ discovered = NoCache

-----------------------------------------------------------------------------
(* routes::discover                                                        *)

\* The handler takes the flag and spawns a task for every address; a host
\* without a private IPv4 interface has none to sweep.
Start(c) ==
    /\ sweep[c] = "none" /\ ~discovery_running
    /\ discovery_running' = TRUE
    /\ sweep' = [sweep EXCEPT ![c] = "sweeping"]
    /\ \E swept \in {{}, Swept} :
          probe' = [probe EXCEPT ![c] =
                       [t \in Target |-> IF t \in swept THEN "queued" ELSE "none"]]
    /\ UNCHANGED discovered

RefuseFreeing(c) ==   \* mutant: the guard is made before the flag is tested
    /\ sweep[c] = "none" /\ discovery_running
    /\ sweep' = [sweep EXCEPT ![c] = "refused"]
    /\ discovery_running' = FALSE
    /\ UNCHANGED <<probe, discovered>>

Refuse(c) ==
    /\ sweep[c] = "none" /\ discovery_running
    /\ sweep' = [sweep EXCEPT ![c] = "refused"]
    /\ UNCHANGED <<discovery_running, probe, discovered>>

\* The cache is written under its lock, which is let go before the guard.
Publish(c) ==
    /\ sweep[c] = "caching"
    /\ discovered' = [by |-> c, machines |-> Found(c)]
    /\ sweep' = [sweep EXCEPT ![c] = "published"]
    /\ UNCHANGED <<discovery_running, probe>>

Finish(c) ==
    /\ sweep[c] = "published"
    /\ discovery_running' = FALSE
    /\ sweep' = [sweep EXCEPT ![c] = "done"]
    /\ UNCHANGED <<probe, discovered>>

\* ScanGuard: the handler is dropped at an await.  The spawned tasks stay, a
\* probe of the handler's own does not.
Drop(c) ==
    /\ sweep[c] \in Sweeping \ {"published"}
    /\ discovery_running' = FALSE
    /\ sweep' = [sweep EXCEPT ![c] = "dropped"]
    /\ probe' = [probe EXCEPT ![c] =
                    [t \in Target |-> IF t \in Heard THEN "none" ELSE @[t]]]
    /\ UNCHANGED discovered

-----------------------------------------------------------------------------
(* brother::discovery::discover                                            *)

Set(c, t, status) == probe' = [probe EXCEPT ![c][t] = status]

AcquireAtOnce(c, t) ==   \* mutant: `let _ = acquire()` lets go of the permit
    /\ t \in Swept /\ probe[c][t] = "queued"
    /\ Set(c, t, "probing")
    /\ UNCHANGED <<discovery_running, sweep, discovered>>

Acquire(c, t) ==
    /\ t \in Swept /\ probe[c][t] = "queued"
    /\ Cardinality(Probing(c)) < CONCURRENCY
    /\ Set(c, t, "probing")
    /\ UNCHANGED <<discovery_running, sweep, discovered>>

\* The dial and the probe have timeouts; ending the task returns its permit.
ProbeEndsIfFound(c, t) ==   \* mutant: a dial that times out is dialled again
    /\ t \in Swept /\ probe[c][t] = "probing"
    /\ Set(c, t, "found") \/ Set(c, t, "queued")
    /\ UNCHANGED <<discovery_running, sweep, discovered>>

ProbeEnds(c, t) ==
    /\ t \in Swept /\ probe[c][t] = "probing"
    /\ Set(c, t, "found") \/ Set(c, t, "nothing")
    /\ UNCHANGED <<discovery_running, sweep, discovered>>

\* The handler has joined every task.
JoinOnFirst(c) ==   \* mutant: goes on with the first machine
    /\ sweep[c] = "sweeping"
    /\ Undone(c) = {} \/ Found(c) # {}
    /\ sweep' = [sweep EXCEPT ![c] = "browsing"]
    /\ UNCHANGED <<discovery_running, probe, discovered>>

Join(c) ==
    /\ sweep[c] = "sweeping"
    /\ Undone(c) = {}
    /\ sweep' = [sweep EXCEPT ![c] = "browsing"]
    /\ UNCHANGED <<discovery_running, probe, discovered>>

-----------------------------------------------------------------------------
(* emberconnect::discovery::discover                                       *)

Browse(c) ==
    /\ sweep[c] = "browsing"
    /\ \E heard \in SUBSET Heard :
          /\ probe' = [probe EXCEPT ![c] =
                          [t \in Target |-> IF t \in heard THEN "queued" ELSE @[t]]]
          /\ sweep' = [sweep EXCEPT ![c] = IF heard = {} THEN "caching" ELSE "asking"]
    /\ UNCHANGED <<discovery_running, discovered>>

Ask(c, t) ==
    /\ sweep[c] = "asking" /\ t \in Heard
    /\ probe[c][t] = "queued" /\ Probing(c) = {}
    /\ Set(c, t, "probing")
    /\ UNCHANGED <<discovery_running, sweep, discovered>>

Answered(c, t) ==
    /\ sweep[c] = "asking" /\ t \in Heard
    /\ probe[c][t] = "probing"
    /\ Set(c, t, "found") \/ Set(c, t, "nothing")
    /\ sweep' = IF Undone(c) = {t} THEN [sweep EXCEPT ![c] = "caching"] ELSE sweep
    /\ UNCHANGED <<discovery_running, discovered>>

\* What a sweep and its tasks do by themselves, apart from Finish.
SweepStep(c) ==
    \/ Join(c) \/ Browse(c) \/ Publish(c)
    \/ \E t \in Target : Acquire(c, t) \/ ProbeEnds(c, t) \/ Ask(c, t) \/ Answered(c, t)

-----------------------------------------------------------------------------
DiscoveryTypeOK ==
    /\ discovery_running \in BOOLEAN
    /\ sweep \in [Calls -> Stage]
    /\ probe \in [Calls -> [Target -> Status]]
    /\ discovered \in {NoCache} \cup [by : Calls, machines : SUBSET Target]

\* The flag is up exactly while one call sweeps, so that a finished, refused or
\* dropped call neither blocks discovery for good nor lets two sweeps publish.
FlagIsTheSweep ==
    /\ \A c, d \in Calls : sweep[c] \in Sweeping /\ sweep[d] \in Sweeping => c = d
    /\ discovery_running <=> \E c \in Calls : sweep[c] \in Sweeping

\* Probes in flight: CONCURRENCY for the sweep, and for every dropped one whose
\* tasks are still at it, CONCURRENCY more.
Dropped == {c \in Calls : sweep[c] = "dropped"}
TrafficBounded ==
    Cardinality({ct \in Calls \X Target : probe[ct[1]][ct[2]] = "probing"})
        <= CONCURRENCY * (1 + Cardinality(Dropped))

\* The cache holds everything one completed sweep found, and nothing of a
\* dropped one: no probe of the sweep that filled it is still to report.
WholeSweepCached ==
    discovered # NoCache =>
        /\ sweep[discovered.by] \in {"published", "done"}
        /\ Undone(discovered.by) = {}
        /\ discovered.machines = Found(discovered.by)

-----------------------------------------------------------------------------
(* Discovery implements SweepService.                                      *)

\* The sweep that may still publish.
Active == {c \in Calls : sweep[c] \in Sweeping \ {"published"}}

Sweeps == INSTANCE SweepService WITH
    Call     <- Calls,
    sweeping <- Active,
    open     <- UNION {Undone(c) : c \in Active},
    found    <- UNION {Found(c) : c \in Active},
    listed   <- discovered.machines

\* Dropped sweeps, with tasks that run on, and refused ones come between, but the
\* list of machines is always that of one whole sweep.
ImplementsSweeps == Sweeps!Spec
=============================================================================
