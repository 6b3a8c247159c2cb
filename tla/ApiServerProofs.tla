--------------------------- MODULE ApiServerProofs ---------------------------
(***************************************************************************)
(* Any number of requests, interleaved and dropped at any await: one sweep *)
(* at a time holds the flag, the cache comes from a whole sweep, the       *)
(* traffic is bounded, and nothing gets past the gate that should not.     *)
(***************************************************************************)
EXTENDS ApiServer, FiniteSetTheorems, WellFoundedInduction, TLAPS

-----------------------------------------------------------------------------
(* The sweeps.                                                             *)

\* What is left to do at each stage of a sweep.
StageInv ==
    \A c \in Calls :
        /\ sweep[c] \in {"browsing", "caching", "published", "done"} => Undone(c) = {}
        /\ sweep[c] = "asking" => Undone(c) \subseteq Heard

\* The inductive invariant of the sweeps.
SInv == DiscoveryTypeOK /\ FlagIsTheSweep /\ StageInv /\ WholeSweepCached

\* What one call does to a sweep's state, split by what changes.
LEMMA OneSweep ==
    ASSUME SInv, NEW c \in Calls, NEW s \in Stage, NEW p \in [Target -> Status],
           sweep' = [sweep EXCEPT ![c] = s], probe' = [probe EXCEPT ![c] = p]
    PROVE  /\ sweep' \in [Calls -> Stage] /\ probe' \in [Calls -> [Target -> Status]]
           /\ sweep'[c] = s /\ \A d \in Calls : d # c => sweep'[d] = sweep[d]
           /\ Undone(c)' = {t \in Target : p[t] \in {"queued", "probing"}}
           /\ Found(c)' = {t \in Target : p[t] = "found"}
           /\ \A d \in Calls : d # c => Undone(d)' = Undone(d) /\ Found(d)' = Found(d)
<1>1. probe'[c] = p /\ \A d \in Calls : d # c => probe'[d] = probe[d]
  BY DEF SInv, DiscoveryTypeOK
<1>2. /\ sweep' \in [Calls -> Stage] /\ probe' \in [Calls -> [Target -> Status]]
      /\ sweep'[c] = s /\ \A d \in Calls : d # c => sweep'[d] = sweep[d]
  BY DEF SInv, DiscoveryTypeOK
<1>3. Undone(c)' = {t \in Target : p[t] \in {"queued", "probing"}}
  BY <1>1 DEF Undone
<1>4. Found(c)' = {t \in Target : p[t] = "found"}
  BY <1>1 DEF Found
<1>5. \A d \in Calls : d # c => Undone(d)' = Undone(d) /\ Found(d)' = Found(d)
  BY <1>1 DEF Undone, Found
<1> QED
  BY <1>2, <1>3, <1>4, <1>5

\* A step that neither publishes nor ends or begins a sweep keeps the invariant
\* if it leaves the stages in order.
LEMMA WithinSweep ==
    ASSUME SInv, NEW c \in Calls, NEW s \in Stage, NEW p \in [Target -> Status],
           sweep' = [sweep EXCEPT ![c] = s], probe' = [probe EXCEPT ![c] = p],
           UNCHANGED <<discovery_running, discovered>>,
           s \in Sweeping <=> sweep[c] \in Sweeping,
           sweep[c] \in {"published", "done"} => s = sweep[c] /\ p = probe[c],
           s \in {"browsing", "caching", "published", "done"} =>
               {t \in Target : p[t] \in {"queued", "probing"}} = {},
           s = "asking" => {t \in Target : p[t] \in {"queued", "probing"}} \subseteq Heard
    PROVE  SInv'
<1> USE DEF SInv
<1>1. /\ sweep' \in [Calls -> Stage] /\ probe' \in [Calls -> [Target -> Status]]
      /\ sweep'[c] = s /\ \A d \in Calls : d # c => sweep'[d] = sweep[d]
      /\ Undone(c)' = {t \in Target : p[t] \in {"queued", "probing"}}
      /\ Found(c)' = {t \in Target : p[t] = "found"}
      /\ \A d \in Calls : d # c => Undone(d)' = Undone(d) /\ Found(d)' = Found(d)
  BY OneSweep
<1>2. DiscoveryTypeOK'
  BY <1>1 DEF DiscoveryTypeOK
<1>3. \A d \in Calls : sweep'[d] \in Sweeping <=> sweep[d] \in Sweeping
  BY <1>1
<1>4. FlagIsTheSweep'
  BY <1>3 DEF FlagIsTheSweep
<1>5. StageInv'
  BY <1>1 DEF StageInv
<1>6. WholeSweepCached'
  <2>1. CASE discovered = NoCache
    BY <2>1 DEF WholeSweepCached
  <2>2. CASE discovered # NoCache /\ discovered.by = c
    <3>1. sweep[c] \in {"published", "done"} /\ Undone(c) = {}
          /\ discovered.machines = Found(c)
      BY <2>2 DEF WholeSweepCached
    <3>2. p = probe[c] /\ s = sweep[c]
      BY <3>1
    <3>3. Undone(c)' = Undone(c) /\ Found(c)' = Found(c)
      BY <1>1, <3>2 DEF Undone, Found
    <3> QED
      BY <1>1, <2>2, <3>1, <3>2, <3>3 DEF WholeSweepCached
  <2>3. CASE discovered # NoCache /\ discovered.by # c
    <3>1. discovered.by \in Calls
      BY <2>3 DEF DiscoveryTypeOK
    <3> QED
      BY <1>1, <2>3, <3>1 DEF WholeSweepCached
  <2> QED
    BY <2>1, <2>2, <2>3
<1> QED
  BY <1>2, <1>4, <1>5, <1>6

\* A call that takes or frees the flag keeps the invariant.
LEMMA FlagStep ==
    ASSUME SInv, NEW c \in Calls, NEW s \in Stage, NEW p \in [Target -> Status],
           sweep' = [sweep EXCEPT ![c] = s], probe' = [probe EXCEPT ![c] = p],
           UNCHANGED discovered,
           \/ s \in Sweeping /\ ~discovery_running /\ discovery_running' = TRUE
           \/ s \notin Sweeping /\ sweep[c] \in Sweeping /\ discovery_running' = FALSE,
           sweep[c] # "done", s \notin {"browsing", "asking", "caching", "published"},
           sweep[c] = "published" => s = "done" /\ p = probe[c],
           s = "done" => sweep[c] = "published" /\ p = probe[c]
    PROVE  SInv'
<1> USE DEF SInv
<1>1. /\ sweep' \in [Calls -> Stage] /\ probe' \in [Calls -> [Target -> Status]]
      /\ sweep'[c] = s /\ \A d \in Calls : d # c => sweep'[d] = sweep[d]
      /\ Undone(c)' = {t \in Target : p[t] \in {"queued", "probing"}}
      /\ Found(c)' = {t \in Target : p[t] = "found"}
      /\ \A d \in Calls : d # c => Undone(d)' = Undone(d) /\ Found(d)' = Found(d)
  BY OneSweep
<1>2. DiscoveryTypeOK'
  BY <1>1 DEF DiscoveryTypeOK
<1>3. \A d \in Calls : d # c => sweep'[d] \notin Sweeping
  BY <1>1 DEF FlagIsTheSweep
<1>4. FlagIsTheSweep'
  BY <1>1, <1>3 DEF FlagIsTheSweep
<1>5. p = probe[c] => Undone(c)' = Undone(c) /\ Found(c)' = Found(c)
  BY <1>1 DEF Undone, Found
<1>6. StageInv'
  BY <1>1, <1>5 DEF StageInv
<1>7. WholeSweepCached'
  <2>1. CASE discovered = NoCache
    BY <2>1 DEF WholeSweepCached
  <2>2. CASE discovered # NoCache
    <3>1. discovered.by \in Calls
      BY <2>2 DEF DiscoveryTypeOK
    <3>2. /\ sweep[discovered.by] \in {"published", "done"} /\ Undone(discovered.by) = {}
          /\ discovered.machines = Found(discovered.by)
      BY <2>2 DEF WholeSweepCached
    <3> QED
      BY <1>1, <1>5, <3>1, <3>2 DEF WholeSweepCached
  <2> QED
    BY <2>1, <2>2
<1> QED
  BY <1>2, <1>4, <1>6, <1>7

\* Start, Refuse, Finish and Drop keep the invariant of the sweeps.
LEMMA HandlerSweeps ==
    ASSUME SInv, NEW c \in Calls, Start(c) \/ Refuse(c) \/ Finish(c) \/ Drop(c)
    PROVE  SInv'
<1>t. /\ sweep \in [Calls -> Stage] /\ probe \in [Calls -> [Target -> Status]]
      /\ probe = [probe EXCEPT ![c] = probe[c]] /\ probe[c] \in [Target -> Status]
  BY DEF SInv, DiscoveryTypeOK
<1>1. CASE Start(c)
  <2>1. PICK swept \in {{}, Swept} :
            probe' = [probe EXCEPT ![c] =
                         [t \in Target |-> IF t \in swept THEN "queued" ELSE "none"]]
    BY <1>1 DEF Start
  <2> DEFINE p == [t \in Target |-> IF t \in swept THEN "queued" ELSE "none"]
  <2>2. p \in [Target -> Status]
    BY DEF Status
  <2>3. /\ sweep' = [sweep EXCEPT ![c] = "sweeping"] /\ probe' = [probe EXCEPT ![c] = p]
        /\ sweep[c] = "none" /\ ~discovery_running /\ discovery_running' = TRUE
        /\ UNCHANGED discovered
    BY <1>1, <2>1 DEF Start
  <2>4. "sweeping" \in Stage /\ "sweeping" \in Sweeping
    BY DEF Stage, Sweeping
  <2> HIDE DEF p
  <2> QED
    BY <2>2, <2>3, <2>4, FlagStep
<1>2. CASE Refuse(c)
  <2>1. /\ sweep' = [sweep EXCEPT ![c] = "refused"] /\ probe' = [probe EXCEPT ![c] = probe[c]]
        /\ sweep[c] = "none" /\ UNCHANGED <<discovery_running, discovered>>
    BY <1>t, <1>2 DEF Refuse
  <2>2. "refused" \in Stage /\ "refused" \notin Sweeping /\ "none" \notin Sweeping
    BY DEF Stage, Sweeping
  <2> QED
    BY <1>t, <2>1, <2>2, WithinSweep
<1>3. CASE Finish(c)
  <2>1. /\ sweep' = [sweep EXCEPT ![c] = "done"] /\ probe' = [probe EXCEPT ![c] = probe[c]]
        /\ sweep[c] = "published" /\ discovery_running' = FALSE /\ UNCHANGED discovered
    BY <1>t, <1>3 DEF Finish
  <2>2. "done" \in Stage /\ "done" \notin Sweeping /\ "published" \in Sweeping
    BY DEF Stage, Sweeping
  <2> QED
    BY <1>t, <2>1, <2>2, FlagStep
<1>4. CASE Drop(c)
  <2> DEFINE p == [t \in Target |-> IF t \in Heard THEN "none" ELSE probe[c][t]]
  <2>1. /\ sweep' = [sweep EXCEPT ![c] = "dropped"] /\ probe' = [probe EXCEPT ![c] = p]
        /\ sweep[c] \in Sweeping /\ sweep[c] # "published"
        /\ discovery_running' = FALSE /\ UNCHANGED discovered
    BY <1>t, <1>4 DEF Drop
  <2>2. p \in [Target -> Status]
    BY <1>t DEF Status
  <2> HIDE DEF p
  <2>3. "dropped" \in Stage /\ "dropped" \notin Sweeping /\ "done" \notin Sweeping
    BY DEF Stage, Sweeping
  <2> QED
    BY <2>1, <2>2, <2>3, FlagStep
<1> QED
  BY <1>1, <1>2, <1>3, <1>4

\* A sweep's probes keep the invariant: none is still at it once it was cached.
LEMMA ProbeStep ==
    ASSUME SInv, NEW c \in Calls, NEW t \in Target,
           Acquire(c, t) \/ ProbeEnds(c, t) \/ Ask(c, t) \/ Answered(c, t)
    PROVE  SInv'
<1>t. /\ sweep \in [Calls -> Stage] /\ probe \in [Calls -> [Target -> Status]]
      /\ sweep = [sweep EXCEPT ![c] = sweep[c]] /\ sweep[c] \in Stage
  BY DEF SInv, DiscoveryTypeOK
<1>1. PICK status \in {"probing", "found", "nothing"} :
          /\ probe[c][t] \in {"queued", "probing"}
          /\ Set(c, t, status)
          /\ UNCHANGED <<discovery_running, discovered>>
  BY DEF Acquire, ProbeEnds, Ask, Answered
<1> DEFINE p == [probe[c] EXCEPT ![t] = status]
<1>2. probe' = [probe EXCEPT ![c] = p] /\ p \in [Target -> Status]
  BY <1>t, <1>1 DEF Set, Status
<1>3. {u \in Target : p[u] \in {"queued", "probing"}} \subseteq Undone(c)
  BY <1>t, <1>1 DEF Undone
<1>4. t \in Undone(c)
  BY <1>1 DEF Undone
<1>5. sweep[c] \notin {"browsing", "caching", "published", "done"}
  BY <1>4 DEF SInv, StageInv
<1>6. status # "probing" =>
          {u \in Target : p[u] \in {"queued", "probing"}} = Undone(c) \ {t}
  BY <1>t, <1>1 DEF Undone
<1> HIDE DEF p
<1>7. CASE sweep' = sweep
  <2>1. sweep' = [sweep EXCEPT ![c] = sweep[c]]
    BY <1>t, <1>7
  <2>2. sweep[c] = "asking" => Undone(c) \subseteq Heard
    BY DEF SInv, StageInv
  <2>3. sweep[c] = "asking" => {u \in Target : p[u] \in {"queued", "probing"}} \subseteq Heard
    BY <1>3, <2>2
  <2> QED
    BY <1>t, <1>1, <1>2, <1>5, <2>1, <2>3, WithinSweep
<1>8. CASE sweep' # sweep
  <2>1. /\ sweep' = [sweep EXCEPT ![c] = "caching"] /\ sweep[c] = "asking"
        /\ Undone(c) = {t} /\ probe[c][t] = "probing"
        /\ Set(c, t, "found") \/ Set(c, t, "nothing")
    BY <1>8 DEF Acquire, ProbeEnds, Ask, Answered
  <2>2. status # "probing"
    <3>1. probe'[c][t] # "probing"
      BY <1>t, <2>1 DEF Set
    <3> QED
      BY <1>t, <1>1, <3>1 DEF Set
  <2>3. {u \in Target : p[u] \in {"queued", "probing"}} = {}
    BY <1>6, <2>1, <2>2
  <2>4. "caching" \in Stage /\ "caching" \in Sweeping /\ "asking" \in Sweeping
    BY DEF Stage, Sweeping
  <2> QED
    BY <1>1, <1>2, <2>1, <2>3, <2>4, WithinSweep
<1> QED
  BY <1>7, <1>8

\* The handler's own steps keep the invariant of the sweeps.
LEMMA SweepStepKeeps ==
    ASSUME SInv, NEW c \in Calls, SweepStep(c)
    PROVE  SInv'
<1>t. /\ sweep \in [Calls -> Stage] /\ probe \in [Calls -> [Target -> Status]]
      /\ probe = [probe EXCEPT ![c] = probe[c]] /\ probe[c] \in [Target -> Status]
  BY DEF SInv, DiscoveryTypeOK
<1>s. /\ Stage \ Sweeping = {"none", "done", "refused", "dropped"}
      /\ {"sweeping", "browsing", "asking", "caching", "published"} \subseteq Sweeping
      /\ Sweeping \subseteq Stage
  BY DEF Stage, Sweeping
<1>1. CASE Join(c)
  <2>1. /\ sweep' = [sweep EXCEPT ![c] = "browsing"] /\ probe' = [probe EXCEPT ![c] = probe[c]]
        /\ sweep[c] = "sweeping" /\ UNCHANGED <<discovery_running, discovered>>
        /\ {t \in Target : probe[c][t] \in {"queued", "probing"}} = {}
    BY <1>t, <1>1 DEF Join, Undone
  <2> QED
    BY <1>t, <1>s, <2>1, WithinSweep
<1>2. CASE Browse(c)
  <2>1. PICK heard \in SUBSET Heard :
            /\ probe' = [probe EXCEPT ![c] =
                            [t \in Target |-> IF t \in heard THEN "queued" ELSE probe[c][t]]]
            /\ sweep' = [sweep EXCEPT ![c] = IF heard = {} THEN "caching" ELSE "asking"]
    BY <1>2 DEF Browse
  <2> DEFINE p == [t \in Target |-> IF t \in heard THEN "queued" ELSE probe[c][t]]
             s == IF heard = {} THEN "caching" ELSE "asking"
  <2>2. p \in [Target -> Status]
    BY <1>t DEF Status
  <2>3. sweep[c] = "browsing" /\ UNCHANGED <<discovery_running, discovered>>
    BY <1>2 DEF Browse
  <2>4. Undone(c) = {}
    BY <2>3 DEF SInv, StageInv
  <2>5. {t \in Target : p[t] \in {"queued", "probing"}} \subseteq heard
    BY <1>t, <2>4 DEF Undone
  <2>6. /\ s \in {"caching", "asking"}
        /\ s = "caching" => {t \in Target : p[t] \in {"queued", "probing"}} = {}
    BY <2>5
  <2>7. sweep' = [sweep EXCEPT ![c] = s] /\ probe' = [probe EXCEPT ![c] = p]
    BY <2>1
  <2> HIDE DEF p, s
  <2> QED
    BY <1>s, <2>2, <2>3, <2>5, <2>6, <2>7, WithinSweep
<1>3. CASE Publish(c)
  <2>1. sweep' = [sweep EXCEPT ![c] = "published"] /\ probe' = [probe EXCEPT ![c] = probe[c]]
    BY <1>t, <1>3 DEF Publish
  <2>2. /\ sweep' \in [Calls -> Stage] /\ probe' \in [Calls -> [Target -> Status]]
        /\ sweep'[c] = "published" /\ \A d \in Calls : d # c => sweep'[d] = sweep[d]
        /\ \A d \in Calls : d # c => Undone(d)' = Undone(d) /\ Found(d)' = Found(d)
    BY <1>t, <1>s, <2>1, OneSweep
  <2>3. Undone(c)' = Undone(c) /\ Found(c)' = Found(c)
    BY <1>3 DEF Publish, Undone, Found
  <2>4. Undone(c) = {} /\ sweep[c] = "caching"
    BY <1>3 DEF Publish, SInv, StageInv
  <2>5. /\ discovered' = [by |-> c, machines |-> Found(c)] /\ Found(c) \in SUBSET Target
        /\ UNCHANGED discovery_running
    BY <1>3 DEF Publish, Found
  <2>6. DiscoveryTypeOK'
    BY <2>2, <2>5 DEF SInv, DiscoveryTypeOK
  <2>7. FlagIsTheSweep'
    <3>1. \A d \in Calls : sweep'[d] \in Sweeping <=> sweep[d] \in Sweeping
      BY <1>s, <2>2, <2>4
    <3> QED
      BY <2>5, <3>1 DEF SInv, FlagIsTheSweep
  <2>8. StageInv'
    BY <2>2, <2>3, <2>4 DEF SInv, StageInv
  <2>9. WholeSweepCached'
    BY <2>2, <2>3, <2>4, <2>5 DEF WholeSweepCached
  <2> QED
    BY <2>6, <2>7, <2>8, <2>9 DEF SInv
<1>4. CASE \E t \in Target : Acquire(c, t) \/ ProbeEnds(c, t) \/ Ask(c, t) \/ Answered(c, t)
  BY <1>4, ProbeStep
<1> QED
  BY <1>1, <1>2, <1>3, <1>4 DEF SweepStep

-----------------------------------------------------------------------------
(* The requests.                                                           *)

\* What the middlewares have made sure of when a handler runs.
Cleared(r) == LocalHost(r) /\ ~r.preflight /\ Admitted(r)

AtCors(c, k) == k \in [at : {"cors"}, request : Kinds[c]]

AtToken(c, k) ==
    /\ k \in [at : {"token"}, request : Kinds[c], readable : BOOLEAN]
    /\ LocalHost(k.request) /\ ~k.request.preflight

Inside(c, k) ==
    /\ k \in [at : {"handler"}, request : Kinds[c], readable : BOOLEAN]
    /\ Cleared(k.request)

Identifying(c, k) ==
    /\ k \in [at : {"identify"}, request : Kinds[c], readable : BOOLEAN,
              outcome : [DOMAIN Backends -> Outcome], asked : 0 .. Len(Backends)]
    /\ Cleared(k.request) /\ k.request.path = "info"

Vetted(c, k) ==
    /\ k \in [at : {"vetted"}, request : Kinds[c], readable : BOOLEAN]
    /\ Cleared(k.request) /\ k.request.path \in PairingPath

Codes == {200, 202, 204, 400, 401, 403, 404, 409, 500}
Replied(c, k) ==
    /\ k \in [at : {"answered"}, request : Kinds[c], status : Codes, readable : BOOLEAN]
    /\ k.status \notin Refusals => Cleared(k.request)

AllOutcomes(k) == {k.outcome[b] : b \in DOMAIN Backends}
Rightly(k) ==
    k.status = IF "ours" \in AllOutcomes(k) THEN "machine"
               ELSE IF "other" \in AllOutcomes(k) THEN "not_a_machine"
               ELSE "unreachable"

Told(c, k) ==
    /\ k \in [at : {"answered"}, request : Kinds[c], status : Verdict, readable : BOOLEAN,
              outcome : [DOMAIN Backends -> Outcome]]
    /\ k.request.path = "info" /\ Cleared(k.request)
    /\ Rightly(k)

\* A request that is on its way, with s as its sweep.
Live(k) == k \notin {Unsent, Gone}
CallOK(c, k, s) ==
    /\ \/ k \in {Unsent, Gone} \/ AtCors(c, k) \/ AtToken(c, k) \/ Inside(c, k)
       \/ Vetted(c, k) \/ Identifying(c, k) \/ Replied(c, k) \/ Told(c, k)
    /\ s \in Sweeping => Inside(c, k) /\ k.request.path = "discover"
    /\ s = "done" => Replied(c, k) /\ k.request.path = "discover" /\ Cleared(k.request)

CallInv ==
    /\ call = [c \in Calls |-> call[c]]
    /\ \A c \in Calls : CallOK(c, call[c], sweep[c])

\* A page that pairs was allowed by one of the lists.
VetOK(k, lists) ==
    k.at = "vetted" \/ (k.at = "answered" /\ k.status \notin Refusals
                          /\ k.request.path \in {"pair", "pairId"}) =>
        /\ k.request.origin # Absent
        /\ \E list \in lists : origin_allowed(k.request.origin, list)

\* What a page may read was allowed by one of the lists.
ReadOK(k, lists) ==
    k.at \in {"token", "handler", "vetted", "identify", "answered"} /\ k.readable =>
        \E list \in lists : Readable(k.request, list)

MetOK(k, lists) == ReadOK(k, lists) /\ VetOK(k, lists)

\* The lists a request has met: the one in force, and the one cors looked at.
ListInv ==
    /\ everAllowed = [c \in Calls |-> everAllowed[c]]
    /\ \A c \in Calls : Live(call[c]) =>
          allowed_origins \in everAllowed[c] /\ MetOK(call[c], everAllowed[c])

HealthInv ==
    /\ server_health \in [running : BOOLEAN, error : BOOLEAN]
    /\ ~(server_health.running /\ server_health.error)
    /\ serving => server_health.running
    /\ \A c \in Calls : Live(call[c]) => serving

\* The inductive invariant.
IInv == SInv /\ CallInv /\ ListInv /\ HealthInv

\* A step of one request, by what it leaves behind.
LEMMA OneRequest ==
    ASSUME IInv, NEW c \in Calls, NEW k, call' = [call EXCEPT ![c] = k],
           SInv', CallOK(c, k, sweep'[c]),
           \A d \in Calls : d # c => sweep'[d] = sweep[d],
           everAllowed' = [d \in Calls |-> everAllowed'[d]],
           Live(k) => allowed_origins' \in everAllowed'[c] /\ MetOK(k, everAllowed'[c]),
           \A d \in Calls : d # c /\ Live(call[d]) =>
               everAllowed[d] \subseteq everAllowed'[d] /\ allowed_origins' \in everAllowed'[d],
           Live(k) => serving, UNCHANGED <<server_health, serving>>
    PROVE  IInv'
<1> USE DEF IInv
<1>1. call'[c] = k /\ \A d \in Calls : d # c => call'[d] = call[d]
  BY DEF CallInv
<1>2. CallInv'
  <2>1. call' = [d \in Calls |-> call'[d]]
    BY DEF CallInv
  <2>2. \A d \in Calls : CallOK(d, call'[d], sweep'[d])
    BY <1>1 DEF CallInv
  <2>3. \A d \in Calls : CallOK(d, call[d], sweep[d])'
    BY <2>2 DEF CallOK, AtCors, AtToken, Inside, Vetted, Identifying, Replied, Told,
                Rightly, AllOutcomes
  <2> QED
    BY <2>1, <2>3 DEF CallInv
<1>3. ListInv'
  <2>1. \A d \in Calls : Live(call'[d]) => allowed_origins' \in everAllowed'[d]
    BY <1>1 DEF ListInv
  <2>2. \A d \in Calls : Live(call'[d]) => MetOK(call'[d], everAllowed'[d])
    <3>1. ASSUME NEW d \in Calls, d # c, Live(call[d]) PROVE MetOK(call[d], everAllowed'[d])
      <4>1. MetOK(call[d], everAllowed[d]) /\ everAllowed[d] \subseteq everAllowed'[d]
        BY <3>1 DEF ListInv
      <4> QED
        BY <4>1 DEF MetOK, ReadOK, VetOK
    <3> QED
      BY <1>1, <3>1
  <2>3. \A d \in Calls : Live(call[d])' => MetOK(call[d], everAllowed[d])'
    BY <2>2 DEF MetOK, ReadOK, VetOK, Live
  <2>4. \A d \in Calls : Live(call[d])' => (allowed_origins \in everAllowed[d])'
    BY <2>1 DEF Live
  <2> QED
    BY <2>3, <2>4 DEF ListInv
<1>4. HealthInv'
  BY <1>1 DEF HealthInv, Live
<1> QED
  BY <1>2, <1>3, <1>4

\* The sweeps are left alone.
LEMMA NoSweepStep == ASSUME SInv, UNCHANGED sweepVars PROVE SInv'
BY DEF SInv, DiscoveryTypeOK, FlagIsTheSweep, StageInv, WholeSweepCached, Undone, Found, sweepVars

\* Where a request is says what it is.
LEMMA WhereItIs ==
    ASSUME IInv, NEW c \in Calls
    PROVE  /\ at(c) = "cors" => AtCors(c, call[c]) /\ sweep[c] \notin Sweeping \cup {"done"}
           /\ at(c) = "token" => AtToken(c, call[c]) /\ sweep[c] \notin Sweeping \cup {"done"}
           /\ at(c) = "handler" => Inside(c, call[c]) /\ sweep[c] # "done"
           /\ at(c) = "identify" =>
                 Identifying(c, call[c]) /\ sweep[c] \notin Sweeping \cup {"done"}
           /\ at(c) = "vetted" =>
                 Vetted(c, call[c]) /\ sweep[c] \notin Sweeping \cup {"done"}
           /\ at(c) = "answered" => Replied(c, call[c]) \/ Told(c, call[c])
           /\ at(c) \in {"cors", "token", "handler", "vetted", "identify", "answered"} => Live(call[c])
           /\ at(c) \notin {"unsent", "gone"} => Live(call[c])
           /\ Live(call[c]) =>
                 at(c) \in {"cors", "token", "handler", "vetted", "identify", "answered"}
           /\ sweep[c] \in Sweeping => at(c) = "handler"
<1>1. CallOK(c, call[c], sweep[c])
  BY DEF IInv, CallInv
<1>2. Unsent.at = "unsent" /\ Gone.at = "gone"
  BY DEF Unsent, Gone
<1>3. /\ AtCors(c, call[c]) => at(c) = "cors"
      /\ AtToken(c, call[c]) => at(c) = "token"
      /\ Inside(c, call[c]) => at(c) = "handler"
      /\ Vetted(c, call[c]) => at(c) = "vetted"
      /\ Identifying(c, call[c]) => at(c) = "identify"
      /\ Replied(c, call[c]) => at(c) = "answered"
      /\ Told(c, call[c]) => at(c) = "answered"
  BY DEF AtCors, AtToken, Inside, Vetted, Identifying, Replied, Told, at
<1>4. call[c] \in {Unsent, Gone} => at(c) \in {"unsent", "gone"}
  BY <1>2 DEF at
<1> QED
  BY <1>1, <1>2, <1>3, <1>4 DEF CallOK, Live, at

\* Only who pairs was vetted.
LEMMA NotPairing ==
    ASSUME NEW k, NEW lists,
           \/ k.at \in {"cors", "token", "handler", "identify"}
           \/ k.at = "answered" /\ (k.status \in Refusals \/ k.request.path \notin PairingPath)
    PROVE  VetOK(k, lists)
BY DEF VetOK, PairingPath

\* A step of one request that leaves everything else alone.
LEMMA Onward ==
    ASSUME IInv, NEW c \in Calls, NEW k, call' = [call EXCEPT ![c] = k],
           UNCHANGED <<server_health, serving, allowed_origins, everAllowed, sweepVars>>,
           CallOK(c, k, sweep[c]), Live(call[c]), MetOK(k, everAllowed[c])
    PROVE  IInv'
<1>1. SInv' /\ sweep' = sweep
  BY NoSweepStep DEF IInv, sweepVars
<1>2. /\ everAllowed' = [d \in Calls |-> everAllowed'[d]]
      /\ \A d \in Calls : Live(call[d]) => allowed_origins' \in everAllowed'[d]
  BY DEF IInv, ListInv
<1>3. serving
  BY DEF IInv, HealthInv
<1> QED
  BY <1>1, <1>2, <1>3, OneRequest

\* serve keeps the invariant.
LEMMA ServeStep == ASSUME IInv, BindFails \/ Bind \/ Serve PROVE IInv'
<1>1. SInv'
  BY NoSweepStep DEF IInv, BindFails, Bind, Serve
<1>2. HealthInv'
  <2>1. \A c \in Calls : Live(call[c])' <=> Live(call[c])
    BY DEF BindFails, Bind, Serve, Live
  <2>2. CASE BindFails
    <3>1. /\ server_health = [running |-> FALSE, error |-> FALSE]
          /\ server_health' = [running |-> FALSE, error |-> TRUE] /\ serving' = serving
      BY <2>2 DEF BindFails, Health
    <3> QED
      BY <2>1, <3>1 DEF IInv, HealthInv
  <2>3. CASE Bind
    <3>1. server_health' = [running |-> TRUE, error |-> FALSE] /\ serving' = serving
      BY <2>3 DEF Bind
    <3> QED
      BY <2>1, <3>1 DEF IInv, HealthInv
  <2>4. CASE Serve
    BY <2>1, <2>4 DEF IInv, HealthInv, Serve
  <2> QED
    BY <2>2, <2>3, <2>4
<1>3. UNCHANGED <<call, sweep, everAllowed, allowed_origins>>
  BY DEF BindFails, Bind, Serve, sweepVars
<1>4. CallInv'
  BY <1>3 DEF IInv, CallInv, CallOK, AtCors, AtToken, Inside, Vetted, Identifying,
              Replied, Told, Rightly, AllOutcomes
<1>5. ListInv'
  BY <1>3 DEF IInv, ListInv, Live, MetOK, ReadOK, VetOK
<1> QED
  BY <1>1, <1>2, <1>4, <1>5 DEF IInv

\* A request that arrives meets the list in force.
LEMMA SendStep == ASSUME IInv, NEW c \in Calls, Send(c) PROVE IInv'
<1>1. PICK r \in Kinds[c] : call' = [call EXCEPT ![c] = [at |-> "cors", request |-> r]]
  BY DEF Send
<1> DEFINE k == [at |-> "cors", request |-> r]
<1>2. /\ call' = [call EXCEPT ![c] = k] /\ k.at = "cors" /\ AtCors(c, k)
  BY <1>1 DEF AtCors
<1> HIDE DEF k
<1>3. SInv' /\ sweep' = sweep /\ serving /\ UNCHANGED <<server_health, serving, allowed_origins>>
  BY NoSweepStep DEF IInv, Send, sweepVars
<1>4. sweep[c] \notin Sweeping \cup {"done"}
  <2>1. call[c] = Unsent /\ Unsent.at = "unsent"
    BY DEF Send, Unsent
  <2>2. CallOK(c, call[c], sweep[c])
    BY DEF IInv, CallInv
  <2> QED
    BY <2>1, <2>2 DEF CallOK, Inside, Replied
<1>5. CallOK(c, k, sweep'[c]) /\ MetOK(k, everAllowed'[c])
  BY <1>2, <1>3, <1>4 DEF CallOK, MetOK, ReadOK, VetOK
<1>6. /\ everAllowed' = [d \in Calls |-> everAllowed'[d]]
      /\ everAllowed'[c] = {allowed_origins}
      /\ \A d \in Calls : d # c => everAllowed'[d] = everAllowed[d]
  BY DEF Send, IInv, ListInv
<1>7. \A d \in Calls : Live(call[d]) => allowed_origins \in everAllowed[d]
  BY DEF IInv, ListInv
<1> QED
  BY <1>2, <1>3, <1>5, <1>6, <1>7, OneRequest

\* cors lets on only what is addressed to this machine, and remembers what the
\* page may read by the list in force.
LEMMA CorsStep == ASSUME IInv, NEW c \in Calls, Cors(c) PROVE IInv'
<1> DEFINE r == call[c].request
           readable == Readable(r, allowed_origins)
<1>1. /\ AtCors(c, call[c]) /\ Live(call[c]) /\ sweep[c] \notin Sweeping \cup {"done"}
      /\ r \in Kinds[c] /\ r \in Request
  BY WhereItIs, ApiAssumption DEF Cors, AtCors
<1>2. readable \in BOOLEAN
  BY DEF Readable, origin_allowed
<1>3. allowed_origins \in everAllowed[c]
  BY <1>1 DEF IInv, ListInv
<1>4. r.preflight \in BOOLEAN
  BY <1>1 DEF Request
<1>u. UNCHANGED <<server_health, serving, allowed_origins, everAllowed, sweepVars>>
  BY DEF Cors
<1>5. CASE ~LocalHost(r)
  <2> DEFINE k == [at |-> "answered", request |-> r, status |-> 403, readable |-> FALSE]
  <2>1. call' = [call EXCEPT ![c] = k]
    BY <1>5 DEF Cors, Reply
  <2>2. Replied(c, k) /\ ~k.readable /\ k.at = "answered" /\ k.status \in Refusals
    BY <1>1 DEF Replied, Codes, Refusals
  <2> HIDE DEF k
  <2> QED
    BY <1>1, <1>u, <2>1, <2>2, NotPairing, Onward DEF CallOK, MetOK, ReadOK
<1>6. CASE LocalHost(r) /\ r.preflight
  <2> DEFINE k == [at |-> "answered", request |-> r, status |-> 204, readable |-> readable]
  <2>1. call' = [call EXCEPT ![c] = k]
    BY <1>6 DEF Cors, Reply
  <2> HIDE DEF readable
  <2>2. /\ Replied(c, k) /\ k.readable = readable /\ k.request = r
        /\ k.at = "answered" /\ k.status \in Refusals
    BY <1>1, <1>2 DEF Replied, Codes, Refusals
  <2> HIDE DEF k
  <2>3. MetOK(k, everAllowed[c])
    BY <1>3, <2>2, NotPairing DEF MetOK, ReadOK, readable
  <2> QED
    BY <1>1, <1>u, <2>1, <2>2, <2>3, Onward DEF CallOK
<1>7. CASE LocalHost(r) /\ ~r.preflight
  <2> DEFINE k == [at |-> "token", request |-> r, readable |-> readable]
  <2>1. call' = [call EXCEPT ![c] = k]
    BY <1>7 DEF Cors, Reply
  <2> HIDE DEF readable
  <2>2. AtToken(c, k) /\ k.readable = readable /\ k.request = r /\ k.at = "token"
    BY <1>1, <1>2, <1>7 DEF AtToken
  <2> HIDE DEF k
  <2>3. MetOK(k, everAllowed[c])
    BY <1>3, <2>2, NotPairing DEF MetOK, ReadOK, readable
  <2> QED
    BY <1>1, <1>u, <2>1, <2>2, <2>3, Onward DEF CallOK
<1> QED
  BY <1>4, <1>5, <1>6, <1>7

\* require_token lets on only what may pass.
LEMMA RequireTokenStep == ASSUME IInv, NEW c \in Calls, RequireToken(c) PROVE IInv'
<1>1. /\ AtToken(c, call[c]) /\ Live(call[c]) /\ sweep[c] \notin Sweeping \cup {"done"}
      /\ MetOK(call[c], everAllowed[c])
  BY WhereItIs DEF RequireToken, IInv, ListInv
<1>u. UNCHANGED <<server_health, serving, allowed_origins, everAllowed, sweepVars>>
  BY DEF RequireToken
<1>2. CASE Admitted(call[c].request)
  <2> DEFINE k == [call[c] EXCEPT !.at = "handler"]
  <2>1. call' = [call EXCEPT ![c] = k]
    BY <1>2 DEF RequireToken, IInv, CallInv
  <2>2. /\ Inside(c, k) /\ k.readable = call[c].readable /\ k.request = call[c].request
        /\ k.at = "handler"
    BY <1>1, <1>2 DEF AtToken, Inside, Cleared
  <2>3. call[c].at = "token"
    BY DEF RequireToken, at
  <2> HIDE DEF k
  <2>4. MetOK(k, everAllowed[c])
    BY <1>1, <2>2, <2>3, NotPairing DEF MetOK, ReadOK
  <2> QED
    BY <1>1, <1>u, <2>1, <2>2, <2>4, Onward DEF CallOK
<1>3. CASE ~Admitted(call[c].request)
  <2> DEFINE k == [at |-> "answered", request |-> call[c].request, status |-> 401,
                   readable |-> call[c].readable]
  <2>1. call' = [call EXCEPT ![c] = k]
    BY <1>3 DEF RequireToken, Reply
  <2>2. /\ Replied(c, k) /\ k.readable = call[c].readable /\ k.request = call[c].request
        /\ k.at = "answered" /\ k.status \in Refusals
    BY <1>1 DEF AtToken, Replied, Codes, Refusals
  <2>3. call[c].at = "token"
    BY DEF RequireToken, at
  <2> HIDE DEF k
  <2>4. MetOK(k, everAllowed[c])
    BY <1>1, <2>2, <2>3, NotPairing DEF MetOK, ReadOK
  <2> QED
    BY <1>1, <1>u, <2>1, <2>2, <2>4, Onward DEF CallOK
<1> QED
  BY <1>2, <1>3

\* Who leaves takes its sweep along.
LEMMA GoAwayStep == ASSUME IInv, NEW c \in Calls, GoAway(c) PROVE IInv'
<1>1. call' = [call EXCEPT ![c] = Gone] /\ everAllowed' = [everAllowed EXCEPT ![c] = {}]
      /\ UNCHANGED <<server_health, serving, allowed_origins>>
  BY DEF GoAway
<1>2. SInv' /\ sweep'[c] \notin Sweeping \cup {"done"}
      /\ \A d \in Calls : d # c => sweep'[d] = sweep[d]
  <2>1. CASE sweep[c] = "none"
    <3>1. UNCHANGED sweepVars
      BY <2>1 DEF GoAway
    <3> QED
      BY <2>1, <3>1, NoSweepStep DEF IInv, sweepVars, Sweeping
  <2>2. CASE sweep[c] # "none"
    <3>1. Drop(c)
      BY <2>2 DEF GoAway
    <3>2. sweep' = [sweep EXCEPT ![c] = "dropped"] /\ sweep \in [Calls -> Stage]
      BY <3>1 DEF Drop, IInv, SInv, DiscoveryTypeOK
    <3> QED
      BY <3>1, <3>2, HandlerSweeps DEF IInv, Sweeping
  <2> QED
    BY <2>1, <2>2
<1>3. CallOK(c, Gone, sweep'[c]) /\ ~Live(Gone)
  BY <1>2 DEF CallOK, Live
<1>4. /\ everAllowed' = [d \in Calls |-> everAllowed'[d]]
      /\ \A d \in Calls : d # c => everAllowed'[d] = everAllowed[d]
      /\ \A d \in Calls : Live(call[d]) => allowed_origins \in everAllowed[d]
  BY <1>1 DEF IInv, ListInv
<1> QED
  BY <1>1, <1>2, <1>3, <1>4, OneRequest

\* A handler's answer.
Answer(k, code) ==
    [at |-> "answered", request |-> k.request, status |-> code, readable |-> k.readable]

LEMMA AnswerIsReply ==
    ASSUME IInv, NEW c \in Calls, NEW code \in Codes,
           \/ at(c) = "vetted"
           \/ at(c) = "handler" /\ (call[c].request.path \notin PairingPath \/ code \in Refusals)
    PROVE  /\ Reply(c, code, call[c].readable) => call' = [call EXCEPT ![c] = Answer(call[c], code)]
           /\ Replied(c, Answer(call[c], code)) /\ Cleared(Answer(call[c], code).request)
           /\ Answer(call[c], code).request = call[c].request
           /\ MetOK(Answer(call[c], code), everAllowed[c])
           /\ Live(call[c]) /\ allowed_origins \in everAllowed[c] /\ serving
<1>0. /\ call[c].request \in Kinds[c] /\ call[c].readable \in BOOLEAN
      /\ Cleared(call[c].request) /\ Live(call[c])
  BY WhereItIs DEF Inside, Vetted
<1>1. allowed_origins \in everAllowed[c] /\ MetOK(call[c], everAllowed[c]) /\ serving
  BY <1>0 DEF IInv, ListInv, HealthInv
<1>2. Replied(c, Answer(call[c], code))
  BY <1>0 DEF Answer, Replied
<1>3. /\ Answer(call[c], code).at = "answered" /\ Answer(call[c], code).status = code
      /\ Answer(call[c], code).request = call[c].request
      /\ Answer(call[c], code).readable = call[c].readable
  BY DEF Answer
<1>4. ReadOK(Answer(call[c], code), everAllowed[c])
  BY <1>1, <1>3 DEF MetOK, ReadOK, at
<1>5. VetOK(Answer(call[c], code), everAllowed[c])
  <2>1. CASE at(c) = "vetted"
    BY <1>1, <1>3, <2>1 DEF MetOK, VetOK, at
  <2>2. CASE call[c].request.path \notin PairingPath \/ code \in Refusals
    BY <1>3, <2>2, NotPairing
  <2> QED
    BY <2>1, <2>2
<1> QED
  BY <1>0, <1>1, <1>2, <1>3, <1>4, <1>5 DEF Reply, Answer, MetOK

\* discover keeps the invariant.
LEMMA DiscoverStep == ASSUME IInv, NEW c \in Calls, Discover(c) PROVE IInv'
<1>1. /\ at(c) = "handler" /\ call[c].request.path = "discover"
      /\ call[c].request.path \notin PairingPath /\ {200, 400} \subseteq Codes
      /\ UNCHANGED <<server_health, serving, allowed_origins, everAllowed>>
  BY DEF Discover, InHandler, PairingPath, Codes
<1>2. Inside(c, call[c]) /\ Live(call[c])
  BY <1>1, WhereItIs
<1>3. /\ everAllowed' = [d \in Calls |-> everAllowed'[d]]
      /\ \A d \in Calls : Live(call[d]) =>
            allowed_origins \in everAllowed[d] /\ MetOK(call[d], everAllowed[d])
  BY <1>1 DEF IInv, ListInv
<1>4. sweep \in [Calls -> Stage]
  BY DEF IInv, SInv, DiscoveryTypeOK
<1>5. CASE Start(c) /\ UNCHANGED call
  <2>1. sweep' = [sweep EXCEPT ![c] = "sweeping"] /\ SInv'
    BY <1>5, HandlerSweeps DEF Start, IInv
  <2>2. call' = [call EXCEPT ![c] = call[c]]
    BY <1>5 DEF IInv, CallInv
  <2>3. CallOK(c, call[c], sweep'[c])
    BY <1>1, <1>2, <1>4, <2>1 DEF CallOK
  <2>4. serving
    BY <1>2 DEF IInv, HealthInv
  <2> QED
    BY <1>1, <1>2, <1>3, <1>4, <2>1, <2>2, <2>3, <2>4, OneRequest
<1>6. CASE Refuse(c) /\ Reply(c, 400, call[c].readable)
  <2>1. sweep' = [sweep EXCEPT ![c] = "refused"] /\ SInv'
    BY <1>6, HandlerSweeps DEF Refuse, IInv
  <2>2. CallOK(c, Answer(call[c], 400), sweep'[c])
    BY <1>1, <1>4, <2>1, AnswerIsReply DEF CallOK, Sweeping
  <2> QED
    BY <1>1, <1>3, <1>4, <1>6, <2>1, <2>2, AnswerIsReply, OneRequest
<1>7. CASE Finish(c) /\ Reply(c, 200, call[c].readable)
  <2>1. sweep' = [sweep EXCEPT ![c] = "done"] /\ SInv'
    BY <1>7, HandlerSweeps DEF Finish, IInv
  <2>2. CallOK(c, Answer(call[c], 200), sweep'[c])
    BY <1>1, <1>4, <2>1, AnswerIsReply DEF CallOK, Sweeping
  <2> QED
    BY <1>1, <1>3, <1>4, <1>7, <2>1, <2>2, AnswerIsReply, OneRequest
<1> QED
  BY <1>5, <1>6, <1>7 DEF Discover

\* A new list joins the lists each request has met.
LEMMA NewList ==
    ASSUME IInv, NEW c \in Calls, NEW k, call' = [call EXCEPT ![c] = k],
           CallOK(c, k, sweep[c]), MetOK(k, everAllowed[c]), Live(call[c]),
           everAllowed' = [d \in Calls |->
               IF call[d] \in {Unsent, Gone} THEN {} ELSE everAllowed[d] \cup {allowed_origins'}],
           UNCHANGED <<server_health, serving, sweepVars>>
    PROVE  IInv'
<1>1. SInv' /\ sweep' = sweep /\ UNCHANGED <<server_health, serving>>
  BY NoSweepStep DEF IInv, sweepVars
<1>2. /\ everAllowed' = [d \in Calls |-> everAllowed'[d]]
      /\ \A d \in Calls : Live(call[d]) =>
            everAllowed[d] \subseteq everAllowed'[d] /\ allowed_origins' \in everAllowed'[d]
  BY DEF Live
<1>3. MetOK(k, everAllowed'[c]) /\ allowed_origins' \in everAllowed'[c] /\ serving
  BY <1>2 DEF MetOK, ReadOK, VetOK, IInv, HealthInv
<1> QED
  BY <1>1, <1>2, <1>3, OneRequest

\* update_settings keeps the invariant.
LEMMA UpdateSettingsStep == ASSUME IInv, NEW c \in Calls, UpdateSettings(c) PROVE IInv'
<1>1. /\ at(c) = "handler" /\ call[c].request.path = "settings"
      /\ call[c].request.path \notin PairingPath /\ {200, 400, 500} \subseteq Codes
      /\ UNCHANGED <<server_health, serving, sweepVars>>
  BY DEF UpdateSettings, InHandler, PairingPath, Codes
<1>2. SInv' /\ sweep' = sweep
  BY <1>1, NoSweepStep DEF IInv, sweepVars
<1>3. \A code \in {200, 400, 500} : CallOK(c, Answer(call[c], code), sweep[c])
  <2>1. CallOK(c, call[c], sweep[c]) /\ sweep[c] # "done"
    BY <1>1, WhereItIs DEF IInv, CallInv
  <2>2. sweep[c] \notin Sweeping
    BY <1>1, <2>1 DEF CallOK
  <2> QED
    BY <1>1, <2>1, <2>2, AnswerIsReply DEF CallOK
<1>4. PICK origins \in Allowlists :
          IF ValidOrigins(origins)
          THEN /\ allowed_origins' = origins
               /\ everAllowed' = [d \in Calls |->
                     IF call[d] \in {Unsent, Gone} THEN {} ELSE everAllowed[d] \cup {origins}]
               /\ \E status \in {200, 500} : Reply(c, status, call[c].readable)
          ELSE /\ UNCHANGED <<allowed_origins, everAllowed>>
               /\ Reply(c, 400, call[c].readable)
  BY DEF UpdateSettings
<1>5. CASE ValidOrigins(origins)
  <2>1. PICK status \in Codes : status \in {200, 500} /\ Reply(c, status, call[c].readable)
    BY <1>1, <1>4, <1>5
  <2>2. /\ Live(call[c]) /\ MetOK(Answer(call[c], status), everAllowed[c])
        /\ call' = [call EXCEPT ![c] = Answer(call[c], status)]
    BY <1>1, <2>1, AnswerIsReply
  <2>3. CallOK(c, Answer(call[c], status), sweep[c])
    BY <1>3, <2>1
  <2>4. everAllowed' = [d \in Calls |->
            IF call[d] \in {Unsent, Gone} THEN {} ELSE everAllowed[d] \cup {allowed_origins'}]
    BY <1>4, <1>5
  <2> QED
    BY <1>1, <2>2, <2>3, <2>4, NewList
<1>6. CASE ~ValidOrigins(origins)
  <2>1. /\ call' = [call EXCEPT ![c] = Answer(call[c], 400)] /\ Live(call[c])
        /\ MetOK(Answer(call[c], 400), everAllowed[c])
        /\ UNCHANGED <<allowed_origins, everAllowed>>
    BY <1>1, <1>4, <1>6, AnswerIsReply
  <2> QED
    BY <1>1, <1>3, <2>1, Onward
<1> QED
  BY <1>5, <1>6

\* The origin of a page that pairs is on the list in force.
LEMMA VetStep == ASSUME IInv, NEW c \in Calls, Vet(c) PROVE IInv'
<1> DEFINE origin == call[c].request.origin
<1>1. /\ at(c) = "handler" /\ call[c].request.path \in PairingPath
      /\ UNCHANGED <<server_health, serving, allowed_origins, everAllowed, sweepVars>>
  BY DEF Vet, InHandler
<1>2. /\ Inside(c, call[c]) /\ Live(call[c]) /\ CallOK(c, call[c], sweep[c])
      /\ sweep[c] # "done" /\ allowed_origins \in everAllowed[c]
      /\ MetOK(call[c], everAllowed[c])
  BY <1>1, WhereItIs DEF IInv, CallInv, ListInv
<1>3. sweep[c] \notin Sweeping
  BY <1>1, <1>2 DEF CallOK, PairingPath
<1>4. CASE \E code \in {400, 403} : Reply(c, code, call[c].readable)
  <2>1. PICK code \in {400, 403} : Reply(c, code, call[c].readable)
    BY <1>4
  <2>2. code \in Codes /\ code \in Refusals
    BY DEF Codes, Refusals
  <2>3. CallOK(c, Answer(call[c], code), sweep[c])
    BY <1>1, <1>2, <1>3, <2>2, AnswerIsReply DEF CallOK
  <2> QED
    BY <1>1, <2>1, <2>2, <2>3, AnswerIsReply, Onward
<1>5. CASE /\ origin # Absent /\ origin_allowed(origin, allowed_origins)
           /\ call' = [call EXCEPT ![c].at = "vetted"]
  <2> DEFINE k == [call[c] EXCEPT !.at = "vetted"]
  <2>1. call' = [call EXCEPT ![c] = k]
    BY <1>5 DEF IInv, CallInv
  <2>2. /\ Vetted(c, k) /\ k.readable = call[c].readable /\ k.request = call[c].request
        /\ k.at = "vetted"
    BY <1>1, <1>2 DEF Inside, Vetted
  <2> HIDE DEF k
  <2>3. MetOK(k, everAllowed[c])
    BY <1>1, <1>2, <1>5, <2>2 DEF MetOK, ReadOK, VetOK, at
  <2> QED
    BY <1>1, <1>2, <1>3, <2>1, <2>2, <2>3, Onward DEF CallOK
<1> QED
  BY <1>4, <1>5 DEF Vet

\* An answer changes nothing here, and is no refusal only to who was let in.
LEMMA RespondStep == ASSUME IInv, NEW c \in Calls, Respond(c) PROVE IInv'
<1>1. /\ \/ at(c) = "vetted"
         \/ at(c) = "handler" /\ call[c].request.path \notin PairingPath \cup {"discover"}
      /\ UNCHANGED <<server_health, serving, allowed_origins, everAllowed, sweepVars>>
  BY DEF Respond, InHandler, StatusOf
<1>2. PICK status \in StatusOf[call[c].request.path] : Reply(c, status, call[c].readable)
  BY DEF Respond
<1>3. call[c].request.path \in DOMAIN StatusOf
  BY <1>1, WhereItIs DEF Respond, InHandler, Vetted, PairingPath, StatusOf
<1>4. status \in Codes
  BY <1>2, <1>3 DEF StatusOf, Codes
<1>5. CallOK(c, call[c], sweep[c]) /\ sweep[c] # "done"
  BY <1>1, WhereItIs DEF IInv, CallInv
<1>6. sweep[c] \notin Sweeping
  BY <1>1, <1>5, WhereItIs DEF CallOK
<1>7. CallOK(c, Answer(call[c], status), sweep[c])
  BY <1>1, <1>4, <1>5, <1>6, AnswerIsReply DEF CallOK
<1> QED
  BY <1>1, <1>2, <1>4, <1>7, AnswerIsReply, Onward

\* Identify keeps the invariant.
LEMMA IdentifyStep == ASSUME IInv, NEW c \in Calls, Identify(c) PROVE IInv'
<1>1. /\ at(c) = "handler" /\ call[c].request.path = "info"
      /\ UNCHANGED <<server_health, serving, allowed_origins, everAllowed, sweepVars>>
  BY DEF Identify, InHandler
<1>2. /\ Inside(c, call[c]) /\ Live(call[c]) /\ MetOK(call[c], everAllowed[c])
      /\ CallOK(c, call[c], sweep[c]) /\ sweep[c] # "done"
  BY <1>1, WhereItIs DEF IInv, CallInv, ListInv
<1>3. sweep[c] \notin Sweeping
  BY <1>1, <1>2 DEF CallOK
<1>r. CASE Reply(c, 400, call[c].readable)
  <2>1. 400 \in Codes /\ 400 \in Refusals
    BY DEF Codes, Refusals
  <2>2. CallOK(c, Answer(call[c], 400), sweep[c])
    BY <1>1, <1>2, <1>3, <2>1, AnswerIsReply DEF CallOK
  <2> QED
    BY <1>1, <1>r, <2>1, <2>2, AnswerIsReply, Onward
<1>s. SUFFICES ASSUME ~Reply(c, 400, call[c].readable) PROVE IInv'
  BY <1>r
<1>4. PICK outcome \in [DOMAIN Backends -> Outcome] :
          call' = [call EXCEPT ![c] = [at |-> "identify", request |-> call[c].request,
                       readable |-> call[c].readable, outcome |-> outcome, asked |-> 0]]
  BY <1>s DEF Identify
<1> DEFINE k == [at |-> "identify", request |-> call[c].request,
                 readable |-> call[c].readable, outcome |-> outcome, asked |-> 0]
<1>5. 0 \in 0 .. Len(Backends)
  <2>1. Len(Backends) \in Nat
    BY ApiAssumption
  <2> QED
    BY <2>1
<1>6. /\ Identifying(c, k) /\ k.readable = call[c].readable /\ k.request = call[c].request
      /\ k.at = "identify"
  BY <1>1, <1>2, <1>5 DEF Inside, Identifying
<1>7. call' = [call EXCEPT ![c] = k]
  BY <1>4
<1> HIDE DEF k
<1>8. CallOK(c, k, sweep[c]) /\ MetOK(k, everAllowed[c])
  BY <1>1, <1>2, <1>3, <1>6, NotPairing DEF CallOK, MetOK, ReadOK, at
<1> QED
  BY <1>1, <1>2, <1>7, <1>8, Onward

\* AskBackend keeps the invariant.
LEMMA AskBackendStep == ASSUME IInv, NEW c \in Calls, AskBackend(c) PROVE IInv'
<1>1. /\ at(c) = "identify" /\ call[c].asked # Len(Backends)
      /\ call' = [call EXCEPT ![c].asked = @ + 1]
      /\ UNCHANGED <<server_health, serving, allowed_origins, everAllowed, sweepVars>>
  BY DEF AskBackend, Settled
<1>2. /\ Identifying(c, call[c]) /\ Live(call[c]) /\ MetOK(call[c], everAllowed[c])
      /\ sweep[c] \notin Sweeping \cup {"done"}
  BY <1>1, WhereItIs DEF IInv, ListInv
<1> DEFINE k == [call[c] EXCEPT !.asked = @ + 1]
<1>3. Len(Backends) \in Nat /\ call[c].asked \in 0 .. Len(Backends)
  BY <1>2, ApiAssumption DEF Identifying
<1>4. call[c].asked + 1 \in 0 .. Len(Backends)
  BY <1>1, <1>3
<1>5. /\ Identifying(c, k) /\ k.readable = call[c].readable /\ k.request = call[c].request
      /\ k.at = "identify"
  BY <1>2, <1>4 DEF Identifying
<1>6. call' = [call EXCEPT ![c] = k]
  BY <1>1 DEF IInv, CallInv
<1> HIDE DEF k
<1>7. CallOK(c, k, sweep[c]) /\ MetOK(k, everAllowed[c])
  BY <1>1, <1>2, <1>5, NotPairing DEF CallOK, MetOK, ReadOK, at
<1> QED
  BY <1>1, <1>2, <1>6, <1>7, Onward

\* The verdict is the one all backends together would give.
LEMMA ResolvedStep == ASSUME IInv, NEW c \in Calls, Resolved(c) PROVE IInv'
<1>1. /\ at(c) = "identify" /\ Settled(call[c])
      /\ UNCHANGED <<server_health, serving, allowed_origins, everAllowed, sweepVars>>
  BY DEF Resolved
<1>2. /\ Identifying(c, call[c]) /\ Live(call[c]) /\ MetOK(call[c], everAllowed[c])
      /\ sweep[c] \notin Sweeping \cup {"done"}
  BY <1>1, WhereItIs DEF IInv, ListInv
<1> DEFINE k == [at |-> "answered", request |-> call[c].request,
                 status |-> VerdictOf(call[c]), readable |-> call[c].readable,
                 outcome |-> call[c].outcome]
<1>3. call' = [call EXCEPT ![c] = k]
  BY DEF Resolved
<1>4. Len(Backends) \in Nat /\ DOMAIN Backends = 1 .. Len(Backends)
  BY ApiAssumption
<1>5. /\ AskedOutcomes(call[c]) \subseteq AllOutcomes(call[c])
      /\ call[c].asked = Len(Backends) => AskedOutcomes(call[c]) = AllOutcomes(call[c])
  BY <1>2, <1>4 DEF Identifying, AskedOutcomes, AllOutcomes
<1>6. VerdictOf(call[c]) = IF "ours" \in AllOutcomes(call[c]) THEN "machine"
                           ELSE IF "other" \in AllOutcomes(call[c]) THEN "not_a_machine"
                           ELSE "unreachable"
  BY <1>1, <1>5 DEF VerdictOf, Settled
<1>7. AllOutcomes(k) = AllOutcomes(call[c])
  BY DEF AllOutcomes
<1>8. Rightly(k)
  BY <1>6, <1>7 DEF Rightly
<1>9. k \in [at : {"answered"}, request : Kinds[c], status : Verdict, readable : BOOLEAN,
             outcome : [DOMAIN Backends -> Outcome]]
  BY <1>2, <1>6 DEF Identifying, Verdict
<1>10. call[c].request.path = "info" /\ Cleared(call[c].request)
  BY <1>2 DEF Identifying
<1>11. /\ Told(c, k) /\ k.readable = call[c].readable /\ k.request = call[c].request
       /\ k.at = "answered" /\ k.request.path \notin PairingPath
  BY <1>8, <1>9, <1>10 DEF Told, PairingPath
<1> HIDE DEF k
<1>12. CallOK(c, k, sweep[c]) /\ MetOK(k, everAllowed[c])
  BY <1>1, <1>2, <1>11, NotPairing DEF CallOK, MetOK, ReadOK, at
<1> QED
  BY <1>1, <1>2, <1>3, <1>12, Onward

\* A sweep's tasks keep the invariant.
LEMMA BackgroundStep == ASSUME IInv, NEW c \in Calls, Background(c) PROVE IInv'
<1>1. SweepStep(c) /\ UNCHANGED <<server_health, serving, allowed_origins, call, everAllowed>>
  BY DEF Background
<1>2. SInv'
  BY <1>1, SweepStepKeeps DEF IInv
<1>3. /\ \A d \in Calls : d # c => sweep'[d] = sweep[d]
      /\ sweep'[c] # sweep[c] => {sweep[c], sweep'[c]} \subseteq Sweeping
  <2>1. sweep \in [Calls -> Stage]
    BY DEF IInv, SInv, DiscoveryTypeOK
  <2>2. ASSUME NEW s \in Stage, sweep' = [sweep EXCEPT ![c] = s]
        PROVE  sweep'[c] = s /\ \A d \in Calls : d # c => sweep'[d] = sweep[d]
    BY <2>1, <2>2
  <2>3. CASE Join(c)
    BY <2>2, <2>3 DEF Join, Stage, Sweeping
  <2>4. CASE Browse(c)
    BY <2>2, <2>4 DEF Browse, Stage, Sweeping
  <2>5. CASE Publish(c)
    BY <2>2, <2>5 DEF Publish, Stage, Sweeping
  <2>6. ASSUME NEW t \in Target, Acquire(c, t) \/ ProbeEnds(c, t) \/ Ask(c, t)
        PROVE  sweep' = sweep
    BY <2>6 DEF Acquire, ProbeEnds, Ask
  <2>7. ASSUME NEW t \in Target, Answered(c, t)
        PROVE  /\ sweep[c] \in Sweeping
               /\ sweep' = sweep \/ sweep' = [sweep EXCEPT ![c] = "caching"]
    BY <2>7 DEF Answered, Sweeping
  <2>8. "caching" \in Stage /\ "caching" \in Sweeping
    BY DEF Stage, Sweeping
  <2>9. ASSUME NEW t \in Target, Answered(c, t)
        PROVE  /\ \A d \in Calls : d # c => sweep'[d] = sweep[d]
               /\ sweep'[c] # sweep[c] => {sweep[c], sweep'[c]} \subseteq Sweeping
    BY <2>2, <2>7, <2>8, <2>9
  <2>10. CASE \E t \in Target : Acquire(c, t) \/ ProbeEnds(c, t) \/ Ask(c, t)
    BY <2>6, <2>10
  <2>11. CASE \E t \in Target : Answered(c, t)
    BY <2>9, <2>11
  <2>12. \/ Join(c) \/ Browse(c) \/ Publish(c)
         \/ \E t \in Target : Acquire(c, t) \/ ProbeEnds(c, t) \/ Ask(c, t)
         \/ \E t \in Target : Answered(c, t)
    BY <1>1 DEF SweepStep
  <2> QED
    BY <2>3, <2>4, <2>5, <2>10, <2>11, <2>12
<1>4. call' = [call EXCEPT ![c] = call[c]]
  BY <1>1 DEF IInv, CallInv
<1>5. "done" \notin Sweeping
  BY DEF Sweeping
<1>6. CallOK(c, call[c], sweep[c])
  BY DEF IInv, CallInv
<1>7. CallOK(c, call[c], sweep'[c])
  BY <1>3, <1>5, <1>6 DEF CallOK
<1>8. /\ everAllowed' = [d \in Calls |-> everAllowed'[d]]
      /\ \A d \in Calls : Live(call[d]) =>
            allowed_origins \in everAllowed[d] /\ MetOK(call[d], everAllowed[d]) /\ serving
  BY <1>1 DEF IInv, ListInv, HealthInv
<1> QED
  BY <1>1, <1>2, <1>3, <1>4, <1>7, <1>8, OneRequest

-----------------------------------------------------------------------------
(* The theorems.                                                           *)

\* The inductive invariant holds initially.
LEMMA Initially == ApiInit => IInv
<1> SUFFICES ASSUME ApiInit PROVE IInv
  OBVIOUS
<1> USE DEF ApiInit, DiscoveryInit
<1>1. SInv
  <2>1. DiscoveryTypeOK
    BY DEF DiscoveryTypeOK, Stage, Status
  <2>2. FlagIsTheSweep
    BY DEF FlagIsTheSweep, Sweeping
  <2>3. StageInv /\ WholeSweepCached
    BY DEF StageInv, WholeSweepCached
  <2> QED
    BY <2>1, <2>2, <2>3 DEF SInv
<1>2. CallInv
  BY DEF CallInv, CallOK, Sweeping
<1>3. ListInv
  BY DEF ListInv, Live
<1>4. HealthInv
  BY DEF HealthInv, Live, Health
<1> QED
  BY <1>1, <1>2, <1>3, <1>4 DEF IInv

\* A stuttering step keeps the invariant.
LEMMA StutterStep == ASSUME IInv, UNCHANGED apiVars PROVE IInv'
<1>1. SInv'
  BY NoSweepStep DEF IInv, apiVars
<1>2. UNCHANGED <<call, sweep>>
  BY DEF apiVars, sweepVars
<1>3. CallInv'
  BY <1>2 DEF IInv, CallInv, CallOK, AtCors, AtToken, Inside, Vetted, Identifying,
              Replied, Told, Rightly, AllOutcomes
<1>4. ListInv'
  BY DEF IInv, ListInv, Live, MetOK, ReadOK, VetOK, apiVars
<1>5. HealthInv'
  BY DEF IInv, HealthInv, Live, apiVars
<1> QED
  BY <1>1, <1>3, <1>4, <1>5 DEF IInv

\* Every step keeps the inductive invariant.
LEMMA EveryStep == IInv /\ [ApiNext]_apiVars => IInv'
<1> SUFFICES ASSUME IInv, [ApiNext]_apiVars PROVE IInv'
  OBVIOUS
<1>1. CASE BindFails \/ Bind \/ Serve
  BY <1>1, ServeStep
<1>2. ASSUME NEW c \in Calls, Send(c) \/ Background(c) \/ GoAway(c) PROVE IInv'
  BY <1>2, SendStep, BackgroundStep, GoAwayStep
<1>3. ASSUME NEW c \in Calls, Progress(c) PROVE IInv'
  BY <1>3, CorsStep, RequireTokenStep, DiscoverStep, UpdateSettingsStep, IdentifyStep,
     AskBackendStep, ResolvedStep, VetStep, RespondStep DEF Progress
<1>4. CASE UNCHANGED apiVars
  BY <1>4, StutterStep
<1> QED
  BY <1>1, <1>2, <1>3, <1>4 DEF ApiNext

\* The inductive invariant holds throughout.
THEOREM Inductive == ApiSpec => []IInv
BY Initially, EveryStep, PTL DEF ApiSpec

\* The state keeps its types: health is never both running and failed, and only
\* the handler of POST /api/discover sweeps.
THEOREM TypeCorrect == ApiSpec => []TypeOK
<1>1. IInv => TypeOK
  <2> SUFFICES ASSUME IInv PROVE TypeOK
    OBVIOUS
  <2>1. ASSUME NEW c \in Calls, Live(call[c]) PROVE serving /\ call[c].request \in Kinds[c]
    <3>1. CallOK(c, call[c], sweep[c]) /\ serving
      BY <2>1 DEF IInv, CallInv, HealthInv
    <3> QED
      BY <2>1, <3>1 DEF CallOK, Live, AtCors, AtToken, Inside, Vetted, Identifying,
                       Replied, Told
  <2>2. ASSUME NEW c \in Calls, sweep[c] \in Sweeping PROVE InHandler(c, "discover")
    <3>1. CallOK(c, call[c], sweep[c])
      BY DEF IInv, CallInv
    <3> QED
      BY <2>2, <3>1 DEF CallOK, Inside, InHandler, at
  <2> QED
    BY <2>1, <2>2 DEF IInv, SInv, HealthInv, TypeOK, Live
<1> QED
  BY <1>1, Inductive, PTL

\* One sweep at a time, and the flag says whether there is one: no request that
\* is refused, done or dropped blocks discovery or lets two sweeps run.
THEOREM OneSweepAtATime == ApiSpec => []FlagIsTheSweep
<1>1. IInv => FlagIsTheSweep
  BY DEF IInv, SInv
<1> QED
  BY <1>1, Inductive, PTL

\* The cache is what one completed sweep found, whatever detached probes of
\* dropped ones are still at.
THEOREM CacheIsWhole == ApiSpec => []WholeSweepCached
<1>1. IInv => WholeSweepCached
  BY DEF IInv, SInv
<1> QED
  BY <1>1, Inductive, PTL

\* Whatever is done or told, but for the health check, came with the token, or from
\* a page that pairs and whose origin was allowed, to this machine, no preflight.
THEOREM TokenGuards == ApiSpec => []OnlyTokenHoldersAct
<1>1. IInv => OnlyTokenHoldersAct
  <2> SUFFICES ASSUME IInv, NEW c \in Calls, Served(c), call[c].request.path # "health"
               PROVE  LET r == call[c].request IN
                      /\ r.host = Absent \/ r.host.name \in {"127.0.0.1", "localhost", "::1"}
                      /\ ~r.preflight
                      /\ IF r.path \in {"pair", "pairId"}
                         THEN /\ r.origin # Absent
                              /\ \E list \in everAllowed[c] : origin_allowed(r.origin, list)
                         ELSE ApiToken \in {r.authorization, r.x_ember_token}
    BY DEF OnlyTokenHoldersAct
  <2>1. CallOK(c, call[c], sweep[c])
    BY DEF IInv, CallInv
  <2>2. /\ Cleared(call[c].request) /\ Live(call[c])
        /\ call[c].request.path \in {"pair", "pairId"} =>
              \/ at(c) = "vetted"
              \/ at(c) = "answered" /\ call[c].status \notin Refusals
    <3>1. CASE sweep[c] \in Sweeping
      BY <2>1, <3>1, WhereItIs DEF CallOK, Inside
    <3>2. CASE sweep[c] = "done"
      <4>1. Replied(c, call[c]) /\ call[c].request.path = "discover" /\ Cleared(call[c].request)
        BY <2>1, <3>2 DEF CallOK
      <4> QED
        BY <4>1, WhereItIs DEF Replied, at
    <3>3. CASE at(c) = "identify"
      BY <3>3, WhereItIs DEF Identifying
    <3>4. CASE at(c) = "vetted"
      <4>1. Vetted(c, call[c]) /\ Live(call[c])
        BY <3>4, WhereItIs
      <4>2. Cleared(call[c].request)
        BY <4>1 DEF Vetted
      <4> QED
        BY <3>4, <4>1, <4>2
    <3>5. CASE at(c) = "answered" /\ "outcome" \in DOMAIN call[c]
      <4>1. Told(c, call[c])
        BY <3>5, WhereItIs DEF Replied
      <4> QED
        BY <3>5, <4>1, WhereItIs DEF Told
    <3>6. CASE at(c) = "answered" /\ call[c].status \notin Refusals
      BY <3>6, WhereItIs DEF Replied, Told
    <3> QED
      BY <3>1, <3>2, <3>3, <3>4, <3>5, <3>6 DEF Served
  <2>3. VetOK(call[c], everAllowed[c])
    BY <2>2 DEF IInv, ListInv, MetOK
  <2>4. CASE call[c].request.path \in {"pair", "pairId"}
    BY <2>2, <2>3, <2>4 DEF VetOK, at, Cleared, LocalHost, host_is_loopback
  <2>5. CASE call[c].request.path \notin {"pair", "pairId"}
    BY <2>2, <2>5 DEF Cleared, LocalHost, host_is_loopback, Admitted, token_exempt,
                      Presented, PUBLIC_PATHS
  <2> QED
    BY <2>4, <2>5
<1> QED
  BY <1>1, Inductive, PTL

\* A page reads no answer its origin was not allowed to while it waited for it.
THEOREM PagesReadTheirs == ApiSpec => []ReadableWasAllowed
<1>1. IInv => ReadableWasAllowed
  <2> SUFFICES ASSUME IInv, NEW c \in Calls, at(c) = "answered", call[c].readable
               PROVE  \/ call[c].request.path = "health"
                      \/ \E list \in everAllowed[c] : origin_allowed(call[c].request.origin, list)
    BY DEF ReadableWasAllowed
  <2>1. MetOK(call[c], everAllowed[c])
    BY WhereItIs DEF IInv, ListInv
  <2>2. PICK list \in everAllowed[c] : Readable(call[c].request, list)
    BY <2>1 DEF MetOK, ReadOK, VetOK, at
  <2> QED
    BY <2>2 DEF Readable, PUBLIC_PATHS
<1> QED
  BY <1>1, Inductive, PTL

\* The verdict on an address does not depend on the order of the backends.
THEOREM OrderDoesNotMatter == ApiSpec => []VerdictIsOrderless
<1>1. IInv => VerdictIsOrderless
  <2> SUFFICES ASSUME IInv, NEW c \in Calls, at(c) = "answered", "outcome" \in DOMAIN call[c]
               PROVE  Rightly(call[c])
    BY DEF VerdictIsOrderless, Rightly, AllOutcomes
  <2>1. Replied(c, call[c]) => "outcome" \notin DOMAIN call[c]
    BY DEF Replied
  <2> QED
    BY <2>1, WhereItIs DEF Told
<1> QED
  BY <1>1, Inductive, PTL

-----------------------------------------------------------------------------
(* Traffic.                                                                *)

\* A non-empty set of naturals has a least element.
LEMMA Least ==
    ASSUME NEW T, T \subseteq Nat, T # {}
    PROVE  \E m \in T : \A k \in T : m <= k
<1>1. PICK m \in T : \A k \in T : <<k, m>> \notin OpToRel(<, Nat)
  BY WFMin, NatLessThanWellFounded, Zenon
<1>2. ASSUME NEW k \in T PROVE m <= k
  <2>1. k \in Nat /\ m \in Nat
    OBVIOUS
  <2>2. ~(k < m)
    BY <1>1, <2>1, Zenon DEF OpToRel
  <2> QED
    BY <2>1, <2>2
<1> QED
  BY <1>2

\* Pairs that begin with one of n elements, at most K with each, are n times K.
LEMMA FibresBound ==
    ASSUME NEW A, NEW P, IsFiniteSet(A), IsFiniteSet(P), NEW K \in Nat,
           \A a \in A : Cardinality({p \in P : p[1] = a}) <= K
    PROVE  \A S \in SUBSET A : Cardinality({p \in P : p[1] \in S}) <= K * Cardinality(S)
<1> DEFINE Of(S) == {p \in P : p[1] \in S}
           T == {n \in Nat : \E S \in SUBSET A :
                                Cardinality(S) = n /\ ~(Cardinality(Of(S)) <= K * n)}
<1>f. \A S \in SUBSET A : /\ IsFiniteSet(S) /\ IsFiniteSet(Of(S))
                          /\ Cardinality(S) \in Nat /\ Cardinality(Of(S)) \in Nat
  BY FS_Subset, FS_CardinalityType
<1>1. SUFFICES ASSUME T # {} PROVE FALSE
  BY <1>f
<1>2. PICK m \in T : \A k \in T : m <= k
  BY <1>1, Least
<1>n. m \in Nat
  OBVIOUS
<1>3. PICK S \in SUBSET A : Cardinality(S) = m /\ ~(Cardinality(Of(S)) <= K * m)
  BY <1>2
<1>4. m # 0
  <2>1. SUFFICES ASSUME m = 0 PROVE FALSE
    OBVIOUS
  <2>2. S = {}
    BY <1>3, <1>f, <2>1, FS_EmptySet
  <2>3. Of(S) = {}
    BY <2>2
  <2>4. Cardinality(Of(S)) = 0
    BY <2>3, FS_EmptySet
  <2>5. 0 <= K * 0
    OBVIOUS
  <2> QED
    BY <1>3, <2>1, <2>4, <2>5
<1>5. PICK x \in S : TRUE
  BY <1>3, <1>4, FS_EmptySet
<1> DEFINE R == S \ {x}
<1>6. R \in SUBSET A /\ Cardinality(R) = m - 1 /\ m - 1 \in Nat
  <2>1. IsFiniteSet(S) /\ x \in S
    BY <1>3, <1>5, <1>f
  <2>2. Cardinality(R) = m - 1
    BY <1>3, <2>1, FS_RemoveElement
  <2> HIDE DEF T
  <2> QED
    BY <1>n, <1>3, <1>4, <2>2
<1>7. Cardinality(Of(R)) <= K * (m - 1)
  <2>1. SUFFICES ASSUME m - 1 \in T PROVE FALSE
    BY <1>6
  <2>2. m <= m - 1
    BY <1>2, <2>1
  <2> QED
    BY <1>n, <2>2
<1>8. Of(S) = Of(R) \cup {p \in P : p[1] = x}
  BY <1>5
<1>9. /\ IsFiniteSet({p \in P : p[1] = x})
      /\ Cardinality({p \in P : p[1] = x}) \in Nat /\ Cardinality({p \in P : p[1] = x}) <= K
  BY <1>5, FS_Subset, FS_CardinalityType
<1>10. IsFiniteSet(Of(R)) /\ Cardinality(Of(R)) \in Nat
  BY <1>6, <1>f
<1> HIDE DEF Of, R, T
<1>11. Cardinality(Of(S)) <= Cardinality(Of(R)) + K
  <2> DEFINE F == {p \in P : p[1] = x}
  <2>1. /\ Cardinality(Of(R) \cup F) = Cardinality(Of(R)) + Cardinality(F) - Cardinality(Of(R) \cap F)
        /\ Cardinality(Of(R) \cap F) \in Nat
    BY <1>9, <1>10, FS_Union, FS_Intersection, FS_CardinalityType
  <2> HIDE DEF F
  <2> QED
    BY <1>8, <1>9, <1>10, <2>1 DEF F
<1>12. m \in Nat /\ K * (m - 1) + K = K * m /\ K * (m - 1) \in Nat
  BY <1>2, <1>4, <1>6 DEF T
<1>13. Cardinality(Of(S)) \in Nat
  BY <1>3, <1>f
<1> QED
  BY <1>3, <1>7, <1>10, <1>11, <1>12, <1>13

\* No sweep has more probes under way than its permits, and a call that never
\* swept has none.
TrafficInv ==
    /\ \A c \in Calls : Cardinality(Probing(c)) <= CONCURRENCY
    /\ \A c \in Calls : sweep[c] \in {"none", "refused"} => Undone(c) = {}

\* A step of one call touches no other's probes, and starts one probe at most,
\* with a permit.
LEMMA OneProbe ==
    ASSUME SInv, TrafficInv, NEW c \in Calls,
           Start(c) \/ Refuse(c) \/ Finish(c) \/ Drop(c) \/ SweepStep(c)
    PROVE  /\ \A d \in Calls : d # c => sweep'[d] = sweep[d] /\ probe'[d] = probe[d]
           /\ \/ Probing(c)' \subseteq Probing(c)
              \/ \E t \in Target : /\ Probing(c)' = Probing(c) \cup {t}
                                   /\ Cardinality(Probing(c)) < CONCURRENCY
           /\ sweep'[c] \in {"none", "refused"} =>
                 Undone(c) = {} /\ probe'[c] = probe[c]
<1>t. sweep \in [Calls -> Stage] /\ probe \in [Calls -> [Target -> Status]]
  BY DEF SInv, DiscoveryTypeOK
<1>i. sweep[c] \in {"none", "refused"} => Undone(c) = {}
  BY DEF TrafficInv
<1>1. CASE Start(c)
  BY <1>t, <1>1 DEF Start, Probing
<1>2. CASE Refuse(c) \/ Finish(c) \/ Join(c) \/ Publish(c)
  BY <1>t, <1>i, <1>2 DEF Refuse, Finish, Join, Publish, Probing
<1>3. CASE Drop(c)
  BY <1>t, <1>3 DEF Drop, Probing
<1>4. CASE Browse(c)
  BY <1>t, <1>4 DEF Browse, Probing
<1>5. ASSUME NEW t \in Target, NEW status, probe' = [probe EXCEPT ![c][t] = status]
      PROVE  /\ \A d \in Calls : d # c => probe'[d] = probe[d]
             /\ status = "probing" => Probing(c)' = Probing(c) \cup {t}
             /\ status # "probing" => Probing(c)' \subseteq Probing(c)
  <2>1. /\ \A d \in Calls : d # c => probe'[d] = probe[d]
        /\ probe'[c][t] = status /\ \A u \in Target : u # t => probe'[c][u] = probe[c][u]
    BY <1>t, <1>5
  <2> QED
    BY <2>1 DEF Probing
<1>6. ASSUME NEW t \in Target, probe[c][t] \in {"queued", "probing"}
      PROVE  sweep[c] \notin {"none", "refused"}
  BY <1>i, <1>6 DEF Undone
<1>7. ASSUME NEW t \in Target, Acquire(c, t)
      PROVE  /\ sweep' = sweep /\ probe' = [probe EXCEPT ![c][t] = "probing"]
             /\ Cardinality(Probing(c)) < CONCURRENCY
             /\ probe[c][t] \in {"queued", "probing"}
  BY <1>7 DEF Acquire, Set
<1>8. ASSUME NEW t \in Target, Ask(c, t)
      PROVE  /\ sweep' = sweep /\ probe' = [probe EXCEPT ![c][t] = "probing"]
             /\ Cardinality(Probing(c)) < CONCURRENCY
             /\ probe[c][t] \in {"queued", "probing"}
  <2>1. Cardinality(Probing(c)) = 0
    BY <1>8, FS_EmptySet DEF Ask
  <2> QED
    BY <1>8, <2>1, SweepAssumption DEF Ask, Set
<1>9. ASSUME NEW t \in Target, ProbeEnds(c, t) \/ Answered(c, t)
      PROVE  /\ sweep' = sweep \/ sweep' = [sweep EXCEPT ![c] = "caching"]
             /\ \E status \in {"found", "nothing"} : probe' = [probe EXCEPT ![c][t] = status]
             /\ probe[c][t] \in {"queued", "probing"}
  BY <1>9 DEF ProbeEnds, Answered, Set
<1>10. ASSUME NEW t \in Target, Acquire(c, t) \/ Ask(c, t)
       PROVE  /\ \A d \in Calls : d # c => sweep'[d] = sweep[d] /\ probe'[d] = probe[d]
              /\ Probing(c)' = Probing(c) \cup {t} /\ Cardinality(Probing(c)) < CONCURRENCY
              /\ sweep'[c] \notin {"none", "refused"}
  BY <1>5, <1>6, <1>7, <1>8, <1>10
<1>11. ASSUME NEW t \in Target, ProbeEnds(c, t) \/ Answered(c, t)
       PROVE  /\ \A d \in Calls : d # c => sweep'[d] = sweep[d] /\ probe'[d] = probe[d]
              /\ Probing(c)' \subseteq Probing(c)
              /\ sweep'[c] \notin {"none", "refused"}
  <2>1. \A d \in Calls : d # c => sweep'[d] = sweep[d]
    BY <1>t, <1>9, <1>11
  <2>2. sweep'[c] = sweep[c] \/ sweep'[c] = "caching"
    BY <1>t, <1>9, <1>11
  <2> QED
    BY <1>5, <1>6, <1>9, <1>11, <2>1, <2>2
<1> QED
  BY <1>1, <1>2, <1>3, <1>4, <1>10, <1>11 DEF SweepStep

\* There are finitely many probes to make.
LEMMA TargetFinite == IsFiniteSet(Target)
<1>1. IsFiniteSet({"brother"}) /\ IsFiniteSet({"emberconnect"})
  BY FS_Singleton
<1>2. IsFiniteSet(Swept) /\ IsFiniteSet(Heard)
  BY <1>1, SweepAssumption, FS_Product DEF Swept, Heard
<1> QED
  BY <1>2, FS_Union DEF Target

\* Probes of a call are finitely many.
LEMMA ProbingFinite ==
    ASSUME NEW c PROVE IsFiniteSet(Probing(c)) /\ Cardinality(Probing(c)) \in Nat
<1>1. IsFiniteSet(Target)
  BY TargetFinite
<1>2. Probing(c) \in SUBSET Target
  BY DEF Probing
<1> QED
  BY <1>1, <1>2, FS_Subset, FS_CardinalityType

\* The permits hold through every step of a sweep.
LEMMA TrafficStep ==
    ASSUME SInv, TrafficInv, NEW c \in Calls,
           Start(c) \/ Refuse(c) \/ Finish(c) \/ Drop(c) \/ SweepStep(c)
    PROVE  TrafficInv'
<1>1. /\ \A d \in Calls : d # c => sweep'[d] = sweep[d] /\ probe'[d] = probe[d]
      /\ \/ Probing(c)' \subseteq Probing(c)
         \/ \E t \in Target : /\ Probing(c)' = Probing(c) \cup {t}
                              /\ Cardinality(Probing(c)) < CONCURRENCY
      /\ sweep'[c] \in {"none", "refused"} => Undone(c) = {} /\ probe'[c] = probe[c]
  BY OneProbe
<1>2. ASSUME NEW d \in Calls PROVE probe'[d] = probe[d] => Probing(d)' = Probing(d) /\ Undone(d)' = Undone(d)
  BY DEF Probing, Undone
<1>3. Cardinality(Probing(c)') <= CONCURRENCY
  <2>1. CASE Probing(c)' \subseteq Probing(c)
    <3>1. Probing(c)' \in SUBSET Probing(c)
      BY <2>1
    <3>2. Cardinality(Probing(c)') <= Cardinality(Probing(c)) /\ Cardinality(Probing(c)') \in Nat
      BY <3>1, ProbingFinite, FS_Subset, FS_CardinalityType
    <3> QED
      BY <3>2, ProbingFinite, SweepAssumption DEF TrafficInv
  <2>2. ASSUME NEW t \in Target, Probing(c)' = Probing(c) \cup {t},
               Cardinality(Probing(c)) < CONCURRENCY
        PROVE  Cardinality(Probing(c)') <= CONCURRENCY
    <3>1. Cardinality(Probing(c) \cup {t})
             = IF t \in Probing(c) THEN Cardinality(Probing(c)) ELSE Cardinality(Probing(c)) + 1
      BY ProbingFinite, FS_AddElement
    <3> QED
      BY <2>2, <3>1, ProbingFinite, SweepAssumption
  <2> QED
    BY <1>1, <2>1, <2>2
<1>4. \A d \in Calls : Cardinality(Probing(d)') <= CONCURRENCY
  BY <1>1, <1>2, <1>3 DEF TrafficInv
<1>5. \A d \in Calls : sweep'[d] \in {"none", "refused"} => Undone(d)' = {}
  BY <1>1, <1>2 DEF TrafficInv
<1> QED
  BY <1>4, <1>5 DEF TrafficInv

\* Whatever a request does to a sweep is one of the sweep's own steps.
LEMMA SweepsOnly ==
    ASSUME [ApiNext]_apiVars
    PROVE  \/ UNCHANGED sweepVars
           \/ \E c \in Calls : Start(c) \/ Refuse(c) \/ Finish(c) \/ Drop(c) \/ SweepStep(c)
<1>1. CASE BindFails \/ Bind \/ Serve
  BY <1>1 DEF BindFails, Bind, Serve
<1>2. ASSUME NEW c \in Calls, Send(c) \/ Cors(c) \/ RequireToken(c) PROVE UNCHANGED sweepVars
  BY <1>2 DEF Send, Cors, RequireToken
<1>3. ASSUME NEW c \in Calls, UpdateSettings(c) \/ Identify(c) \/ AskBackend(c) \/ Resolved(c)
                              \/ Vet(c) \/ Respond(c)
      PROVE  UNCHANGED sweepVars
  BY <1>3 DEF UpdateSettings, Identify, AskBackend, Resolved, Vet, Respond
<1>4. ASSUME NEW c \in Calls, Discover(c) PROVE Start(c) \/ Refuse(c) \/ Finish(c)
  BY <1>4 DEF Discover
<1>5. ASSUME NEW c \in Calls, GoAway(c) PROVE UNCHANGED sweepVars \/ Drop(c)
  BY <1>5 DEF GoAway
<1>6. ASSUME NEW c \in Calls, Background(c) PROVE SweepStep(c)
  BY <1>6 DEF Background
<1>7. CASE UNCHANGED apiVars
  BY <1>7 DEF apiVars
<1> QED
  BY <1>1, <1>2, <1>3, <1>4, <1>5, <1>6, <1>7 DEF ApiNext, Progress

\* The counts of one state: a sweep under way and the dropped ones.
LEMMA CountedTraffic == IInv /\ TrafficInv => TrafficBounded
<1> SUFFICES ASSUME IInv, TrafficInv PROVE TrafficBounded
  OBVIOUS
<1> DEFINE P == {ct \in Calls \X Target : probe[ct[1]][ct[2]] = "probing"}
           W == {c \in Calls : sweep[c] \in Sweeping}
           S == Dropped \cup W
<1>1. IsFiniteSet(Calls) /\ IsFiniteSet(P)
  <2>1. IsFiniteSet(Calls) /\ IsFiniteSet(Target)
    BY SweepAssumption, TargetFinite
  <2>2. IsFiniteSet(Calls \X Target)
    BY <2>1, FS_Product
  <2> QED
    BY <2>1, <2>2, FS_Subset
<1>2. ASSUME NEW a \in Calls PROVE Cardinality({p \in P : p[1] = a}) <= CONCURRENCY
  <2> DEFINE F == {p \in P : p[1] = a}
             f == [p \in F |-> p[2]]
  <2>1. f \in [F -> Probing(a)]
    BY DEF Probing
  <2>2. \A p, q \in F : f[p] = f[q] => p = q
    OBVIOUS
  <2>3. f \in Injection(F, Probing(a))
    BY <2>1, <2>2 DEF Injection, IsInjective
  <2>4. IsFiniteSet(F) /\ Cardinality(F) <= Cardinality(Probing(a))
    <3> HIDE DEF f, F
    <3> QED
      BY <2>3, ProbingFinite, FS_Injection
  <2>5. Cardinality(Probing(a)) <= CONCURRENCY
    BY DEF TrafficInv
  <2> QED
    BY <2>4, <2>5, ProbingFinite, FS_CardinalityType, SweepAssumption
<1>3. \A p \in P : p[1] \in S
  <2> SUFFICES ASSUME NEW p \in P PROVE p[1] \in S
    OBVIOUS
  <2>1. p[1] \in Calls /\ p[2] \in Undone(p[1])
    BY DEF Undone
  <2>2. sweep[p[1]] \in Stage
    BY <2>1 DEF IInv, SInv, DiscoveryTypeOK
  <2>3. sweep[p[1]] \notin {"browsing", "caching", "published", "done", "none", "refused"}
    BY <2>1 DEF IInv, SInv, StageInv, TrafficInv
  <2> HIDE DEF P
  <2> QED
    BY <2>1, <2>2, <2>3 DEF Stage, Sweeping, Dropped
<1> HIDE DEF P
<1>4. Cardinality({p \in P : p[1] \in S}) <= CONCURRENCY * Cardinality(S)
  <2>1. S \in SUBSET Calls
    BY DEF Dropped
  <2> QED
    BY <1>1, <1>2, <2>1, SweepAssumption, FibresBound
<1>5. {p \in P : p[1] \in S} = P
  BY <1>3
<1>6. /\ Cardinality(S) <= 1 + Cardinality(Dropped)
      /\ Cardinality(S) \in Nat /\ Cardinality(Dropped) \in Nat
  <2>1. Dropped \in SUBSET Calls /\ IsFiniteSet(Dropped) /\ Cardinality(Dropped) \in Nat
    BY <1>1, FS_Subset, FS_CardinalityType DEF Dropped
  <2>2. \A c, d \in W : c = d
    BY DEF IInv, SInv, FlagIsTheSweep
  <2>3. CASE W = {}
    BY <2>1, <2>3
  <2>4. CASE W # {}
    <3>1. PICK w \in W : W = {w}
      BY <2>2, <2>4
    <3>2. S = Dropped \cup {w}
      BY <3>1
    <3> HIDE DEF S, W
    <3>3. Cardinality(S) = IF w \in Dropped THEN Cardinality(Dropped) ELSE Cardinality(Dropped) + 1
      BY <2>1, <3>2, FS_AddElement
    <3> QED
      BY <2>1, <3>3
  <2> QED
    BY <2>3, <2>4
<1> HIDE DEF S
<1>7. \A m, n \in Nat : m <= n => CONCURRENCY * m <= CONCURRENCY * n
  BY SweepAssumption
<1>8. Cardinality(P) <= CONCURRENCY * (1 + Cardinality(Dropped))
  <2>1. CONCURRENCY * Cardinality(S) <= CONCURRENCY * (1 + Cardinality(Dropped))
    BY <1>6, <1>7
  <2>2. Cardinality(P) \in Nat
    BY <1>1, FS_CardinalityType
  <2>3. /\ CONCURRENCY * Cardinality(S) \in Nat
        /\ CONCURRENCY * (1 + Cardinality(Dropped)) \in Nat
    BY <1>6, SweepAssumption
  <2>4. Cardinality(P) <= CONCURRENCY * Cardinality(S)
    BY <1>4, <1>5
  <2> QED
    BY <2>1, <2>2, <2>3, <2>4
<1> QED
  BY <1>8 DEF P, TrafficBounded

\* The traffic of all sweeps together is bounded by the permits of the one under
\* way and of those that were dropped, whatever their number.
THEOREM TrafficIsBounded == ApiSpec => []TrafficBounded
<1>1. ApiInit => TrafficInv
  <2> SUFFICES ASSUME ApiInit PROVE TrafficInv
    OBVIOUS
  <2>1. \A c \in Calls : Probing(c) = {} /\ Undone(c) = {}
    BY DEF ApiInit, DiscoveryInit, Probing, Undone
  <2>2. \A c \in Calls : Cardinality(Probing(c)) = 0
    BY <2>1, FS_EmptySet
  <2> QED
    BY <2>1, <2>2, SweepAssumption DEF TrafficInv
<1>2. IInv /\ TrafficInv /\ [ApiNext]_apiVars => TrafficInv'
  <2> SUFFICES ASSUME IInv, TrafficInv, [ApiNext]_apiVars PROVE TrafficInv'
    OBVIOUS
  <2>1. CASE UNCHANGED sweepVars
    BY <2>1 DEF sweepVars, TrafficInv, Probing, Undone
  <2>2. CASE \E c \in Calls : Start(c) \/ Refuse(c) \/ Finish(c) \/ Drop(c) \/ SweepStep(c)
    BY <2>2, TrafficStep DEF IInv
  <2> QED
    BY <2>1, <2>2, SweepsOnly
<1> QED
  BY <1>1, <1>2, Inductive, CountedTraffic, PTL DEF ApiSpec

-----------------------------------------------------------------------------
(* Discovery implements SweepService.                                      *)

SOpen  == UNION {Undone(c) : c \in Active}
SFound == UNION {Found(c) : c \in Active}
SwStep == [Sweeps!Next]_(Sweeps!vars)

\* A sweep under way is the only one, and its probes are what is open and found.
Seen ==
    /\ \A c \in Active : Active = {c} /\ SOpen = Undone(c) /\ SFound = Found(c)
    /\ Active = {} => SOpen = {} /\ SFound = {}

LEMMA SweepIsSeen == SInv => Seen
<1> SUFFICES ASSUME SInv PROVE Seen
  OBVIOUS
<1>1. ASSUME NEW c \in Active PROVE Active = {c}
  BY DEF SInv, FlagIsTheSweep, Active
<1> QED
  BY <1>1 DEF Seen, SOpen, SFound

\* What has been heard is asked once the sweep of the /24 is over.
DonglesLast ==
    \A c \in Calls : sweep[c] \in {"sweeping", "browsing"} =>
        \A t \in Heard : probe[c][t] = "none"

LEMMA DonglesWait ==
    ASSUME SInv, DonglesLast, NEW c \in Calls,
           Start(c) \/ Refuse(c) \/ Finish(c) \/ Drop(c) \/ SweepStep(c)
    PROVE  DonglesLast'
<1>t. sweep \in [Calls -> Stage] /\ probe \in [Calls -> [Target -> Status]]
  BY DEF SInv, DiscoveryTypeOK
<1>a. Swept \cap Heard = {} /\ Heard \subseteq Target
  BY DEF Target, Swept, Heard
<1>1. CASE Start(c)
  BY <1>t, <1>a, <1>1 DEF Start, DonglesLast
<1>2. CASE Refuse(c) \/ Finish(c) \/ Join(c) \/ Publish(c)
  BY <1>t, <1>2 DEF Refuse, Finish, Join, Publish, DonglesLast
<1>3. CASE Drop(c)
  BY <1>t, <1>3 DEF Drop, DonglesLast
<1>4. CASE Browse(c)
  BY <1>t, <1>4 DEF Browse, DonglesLast
<1>5. ASSUME NEW t \in Target, Acquire(c, t) \/ ProbeEnds(c, t) PROVE DonglesLast'
  <2>1. PICK status \in Status : /\ probe' = [probe EXCEPT ![c][t] = status]
                                 /\ sweep' = sweep /\ t \in Swept
    BY <1>5 DEF Acquire, ProbeEnds, Set, Status
  <2> QED
    BY <1>t, <1>a, <2>1 DEF DonglesLast
<1>6. ASSUME NEW t \in Target, Ask(c, t) \/ Answered(c, t) PROVE DonglesLast'
  <2>1. PICK status \in Status : probe' = [probe EXCEPT ![c][t] = status]
    BY <1>6 DEF Ask, Answered, Set, Status
  <2>2. sweep[c] = "asking" /\ (sweep' = sweep \/ sweep' = [sweep EXCEPT ![c] = "caching"])
    BY <1>6 DEF Ask, Answered
  <2> QED
    BY <1>t, <2>1, <2>2 DEF DonglesLast
<1> QED
  BY <1>1, <1>2, <1>3, <1>4, <1>5, <1>6 DEF SweepStep

-----------------------------------------------------------------------------
(* Each step of a sweep, as SweepService sees it.                          *)

\* What changes no active sweep is not seen.
LEMMA NotSeen ==
    ASSUME Active' = Active, discovered' = discovered,
           \A d \in Active : Undone(d)' = Undone(d) /\ Found(d)' = Found(d)
    PROVE  SwStep
<1>1. SOpen' = SOpen /\ SFound' = SFound
  BY DEF SOpen, SFound
<1> QED
  BY <1>1 DEF SwStep, Sweeps!vars, SOpen, SFound

\* Taking and giving back the flag, and one that asks while it is taken.
LEMMA HandlerSeen ==
    ASSUME SInv, SInv', NEW c \in Calls, Start(c) \/ Refuse(c) \/ Finish(c) \/ Drop(c)
    PROVE  SwStep
<1>t. sweep \in [Calls -> Stage] /\ probe \in [Calls -> [Target -> Status]]
  BY DEF SInv, DiscoveryTypeOK
<1>s. Seen
  BY SweepIsSeen
<1>s1. Seen'
  BY SweepIsSeen, PTL
<1>w. /\ "sweeping" \in Sweeping \ {"published"}
      /\ {"none", "refused", "done", "dropped"} \cap Sweeping = {}
  BY DEF Sweeping
<1>1. CASE Start(c)
  <2>1. PICK swept \in {{}, Swept} :
            probe' = [probe EXCEPT ![c] =
                         [t \in Target |-> IF t \in swept THEN "queued" ELSE "none"]]
    BY <1>1 DEF Start
  <2>2. Active = {} /\ c \in Active'
    BY <1>t, <1>w, <1>1 DEF Start, Active, SInv, FlagIsTheSweep
  <2>3. Undone(c)' = swept /\ Found(c)' = {} /\ swept \in SUBSET Target
    BY <1>t, <2>1 DEF Undone, Found, Target
  <2>4. Active' = {c} /\ SOpen' = swept /\ SFound' = {}
    BY <1>s1, <2>2, <2>3 DEF Seen
  <2>5. Sweeps!Begin(c, swept)
    BY <1>1, <2>2, <2>4 DEF Start, Sweeps!Begin, SOpen, SFound
  <2> QED
    BY <2>3, <2>5 DEF SwStep, Sweeps!Next
<1>2. CASE Refuse(c) \/ Finish(c)
  <2>1. Active' = Active /\ discovered' = discovered /\ probe' = probe
    BY <1>t, <1>w, <1>2 DEF Refuse, Finish, Active
  <2>2. \A d \in Active : Undone(d)' = Undone(d) /\ Found(d)' = Found(d)
    BY <2>1 DEF Undone, Found
  <2> QED
    BY <2>1, <2>2, NotSeen
<1>3. CASE Drop(c)
  <2>1. c \in Active /\ discovered' = discovered
    BY <1>3 DEF Drop, Active
  <2>2. Active = {c}
    BY <1>s, <2>1 DEF Seen
  <2>3. Active' = {}
    BY <1>t, <1>w, <1>3, <2>2 DEF Drop, Active
  <2>4. SOpen' = {} /\ SFound' = {}
    BY <1>s1, <2>3 DEF Seen
  <2>5. Sweeps!Leave
    BY <2>1, <2>2, <2>3, <2>4 DEF Sweeps!Leave, Sweeps!Stop, SOpen, SFound
  <2> QED
    BY <2>5 DEF SwStep, Sweeps!Next
<1> QED
  BY <1>1, <1>2, <1>3

\* The whole list is replaced when nobody is left to answer.
LEMMA PublishSeen ==
    ASSUME SInv, SInv', NEW c \in Calls, Publish(c)
    PROVE  SwStep
<1>1. sweep \in [Calls -> Stage] /\ sweep' = [sweep EXCEPT ![c] = "published"]
  BY DEF SInv, DiscoveryTypeOK, Publish
<1>2. c \in Active /\ Undone(c) = {} /\ discovered'.machines = Found(c)
  BY DEF Publish, Active, Sweeping, SInv, StageInv
<1>3. Active = {c} /\ SOpen = {} /\ SFound = Found(c)
  BY <1>2, SweepIsSeen DEF Seen
<1>4. Active' = {}
  BY <1>1, <1>3 DEF Active
<1>5. SOpen' = {} /\ SFound' = {}
  BY <1>4 DEF SOpen, SFound
<1>6. Sweeps!Publish
  BY <1>2, <1>3, <1>4, <1>5 DEF Sweeps!Publish, Sweeps!Stop, SOpen, SFound
<1> QED
  BY <1>6 DEF SwStep, Sweeps!Next

\* What has been heard is asked next.
LEMMA BrowseSeen ==
    ASSUME SInv, SInv', DonglesLast, NEW c \in Calls, Browse(c)
    PROVE  SwStep
<1>t. sweep \in [Calls -> Stage] /\ probe \in [Calls -> [Target -> Status]]
  BY DEF SInv, DiscoveryTypeOK
<1>1. PICK heard \in SUBSET Heard :
          /\ probe' = [probe EXCEPT ![c] =
                          [t \in Target |-> IF t \in heard THEN "queued" ELSE probe[c][t]]]
          /\ sweep' = [sweep EXCEPT ![c] = IF heard = {} THEN "caching" ELSE "asking"]
  BY DEF Browse
<1>2. sweep[c] = "browsing" /\ discovered' = discovered
  BY DEF Browse
<1>3. c \in Active /\ Undone(c) = {}
  BY <1>2 DEF Active, Sweeping, SInv, StageInv
<1>4. Active = {c} /\ SOpen = {} /\ SFound = Found(c)
  BY <1>3, SweepIsSeen DEF Seen
<1>5. c \in Active' /\ sweep'[c] \in {"caching", "asking"}
  BY <1>t, <1>1 DEF Active, Sweeping
<1>6. Seen'
  BY SweepIsSeen, PTL
<1>7. heard \subseteq Target /\ \A t \in heard : probe[c][t] = "none"
  BY <1>2 DEF DonglesLast, Target
<1>8. probe'[c] = [t \in Target |-> IF t \in heard THEN "queued" ELSE probe[c][t]]
  BY <1>t, <1>1
<1>9. Undone(c)' = heard /\ Found(c)' = Found(c) /\ heard \cap Found(c) = {}
  BY <1>3, <1>7, <1>8 DEF Undone, Found
<1>10. Active' = {c} /\ SOpen' = heard /\ SFound' = Found(c)
  BY <1>5, <1>6, <1>9 DEF Seen
<1>11. Sweeps!Hear(heard)
  BY <1>2, <1>4, <1>9, <1>10 DEF Sweeps!Hear, SOpen, SFound
<1> QED
  BY <1>7, <1>11 DEF SwStep, Sweeps!Next

\* A probe is seen when it ends, unless its sweep was dropped.
LEMMA ProbeSeen ==
    ASSUME SInv, SInv', NEW c \in Calls, NEW t \in Target,
           Acquire(c, t) \/ ProbeEnds(c, t) \/ Ask(c, t) \/ Answered(c, t)
    PROVE  SwStep
<1>t. sweep \in [Calls -> Stage] /\ probe \in [Calls -> [Target -> Status]]
  BY DEF SInv, DiscoveryTypeOK
<1>w. "asking" \in Sweeping \ {"published"} /\ "caching" \in Sweeping \ {"published"}
  BY DEF Sweeping
<1>1. Active' = Active /\ discovered' = discovered
  <2>1. \/ sweep' = sweep
        \/ sweep[c] = "asking" /\ sweep' = [sweep EXCEPT ![c] = "caching"]
    BY DEF Acquire, ProbeEnds, Ask, Answered
  <2>2. discovered' = discovered
    BY DEF Acquire, ProbeEnds, Ask, Answered
  <2> QED
    BY <1>t, <1>w, <2>1, <2>2 DEF Active
<1>2. PICK status \in Status :
          /\ probe' = [probe EXCEPT ![c][t] = status]
          /\ \/ probe[c][t] = "queued" /\ status = "probing"
             \/ probe[c][t] = "probing" /\ status \in {"found", "nothing"}
  BY DEF Acquire, ProbeEnds, Ask, Answered, Set, Status
<1>3. /\ probe'[c][t] = status /\ \A u \in Target : u # t => probe'[c][u] = probe[c][u]
      /\ \A d \in Calls : d # c => probe'[d] = probe[d]
  BY <1>t, <1>2
<1>4. \A d \in Calls : d # c => Undone(d)' = Undone(d) /\ Found(d)' = Found(d)
  BY <1>3 DEF Undone, Found
<1>5. CASE status = "probing"
  <2>1. Undone(c)' = Undone(c) /\ Found(c)' = Found(c)
    BY <1>2, <1>3, <1>5 DEF Undone, Found
  <2> QED
    BY <1>1, <1>4, <2>1, NotSeen DEF Active
<1>6. CASE c \notin Active
  BY <1>1, <1>4, <1>6, NotSeen DEF Active
<1>7. CASE c \in Active /\ status # "probing"
  <2>1. /\ t \in Undone(c) /\ Undone(c)' = Undone(c) \ {t}
        /\ Found(c)' \in {Found(c), Found(c) \cup {t}}
    BY <1>2, <1>3, <1>7 DEF Undone, Found
  <2>2. Active = {c} /\ SOpen = Undone(c) /\ SFound = Found(c)
    BY <1>7, SweepIsSeen DEF Seen
  <2>3. Seen'
    BY SweepIsSeen, PTL
  <2>4. SOpen' = Undone(c)' /\ SFound' = Found(c)'
    BY <1>1, <2>2, <2>3 DEF Seen
  <2>5. Sweeps!Answer(t)
    BY <1>1, <2>1, <2>2, <2>4 DEF Sweeps!Answer, SOpen, SFound
  <2> QED
    BY <2>5 DEF SwStep, Sweeps!Next
<1> QED
  BY <1>2, <1>5, <1>6, <1>7

\* Every step of the server is a step of SweepService, or none.
LEMMA EveryStepSeen ==
    ASSUME SInv, SInv', DonglesLast, [ApiNext]_apiVars
    PROVE  SwStep /\ DonglesLast'
<1>1. CASE UNCHANGED sweepVars
  <2>1. Active' = Active /\ discovered' = discovered /\ probe' = probe /\ sweep' = sweep
    BY <1>1 DEF sweepVars, Active
  <2>2. \A d \in Active : Undone(d)' = Undone(d) /\ Found(d)' = Found(d)
    BY <2>1 DEF Undone, Found
  <2> QED
    BY <2>1, <2>2, NotSeen DEF DonglesLast
<1>2. ASSUME NEW c \in Calls, Start(c) \/ Refuse(c) \/ Finish(c) \/ Drop(c)
      PROVE  SwStep /\ DonglesLast'
  BY <1>2, HandlerSeen, DonglesWait
<1>3. ASSUME NEW c \in Calls, SweepStep(c) PROVE SwStep /\ DonglesLast'
  <2>1. CASE Join(c)
    <3>1. Active' = Active /\ discovered' = discovered /\ probe' = probe
      BY <2>1 DEF Join, Active, Sweeping, SInv, DiscoveryTypeOK
    <3>2. \A d \in Active : Undone(d)' = Undone(d) /\ Found(d)' = Found(d)
      BY <3>1 DEF Undone, Found
    <3> QED
      BY <1>3, <3>1, <3>2, NotSeen, DonglesWait
  <2>2. CASE Browse(c) \/ Publish(c)
    BY <1>3, <2>2, BrowseSeen, PublishSeen, DonglesWait
  <2>3. ASSUME NEW t \in Target,
               Acquire(c, t) \/ ProbeEnds(c, t) \/ Ask(c, t) \/ Answered(c, t)
        PROVE  SwStep /\ DonglesLast'
    BY <1>3, <2>3, ProbeSeen, DonglesWait
  <2> QED
    BY <1>3, <2>1, <2>2, <2>3 DEF SweepStep
<1> QED
  BY <1>1, <1>2, <1>3, SweepsOnly

\* The list of machines is always all that one whole sweep found, for any number
\* of calls, addresses and permits, whichever calls are refused or dropped.
THEOREM ListIsAWholeSweep == ApiSpec => ImplementsSweeps
<1>1. ApiInit => Sweeps!Init /\ DonglesLast
  <2> SUFFICES ASSUME ApiInit PROVE Sweeps!Init /\ DonglesLast
    OBVIOUS
  <2>1. Active = {} /\ discovered.machines = {}
    BY DEF ApiInit, DiscoveryInit, Active, Sweeping, NoCache
  <2>2. SOpen = {} /\ SFound = {}
    BY <2>1 DEF SOpen, SFound
  <2>3. DonglesLast
    BY DEF ApiInit, DiscoveryInit, DonglesLast
  <2> QED
    BY <2>1, <2>2, <2>3 DEF Sweeps!Init, SOpen, SFound
<1>2. SInv /\ SInv' /\ DonglesLast /\ [ApiNext]_apiVars =>
         [Sweeps!Next]_(Sweeps!vars) /\ DonglesLast'
  BY EveryStepSeen DEF SwStep
<1>3. IInv => SInv
  BY DEF IInv
<1> QED
  BY <1>1, <1>2, <1>3, Inductive, PTL DEF ApiSpec, ImplementsSweeps, Sweeps!Spec
=============================================================================
