----------------------------- MODULE ConfigStore -----------------------------
(***************************************************************************)
(* config.json and its in-memory copy: src-tauri/src/config.rs and the     *)
(* handlers of routes.rs that update it.                                   *)
(*                                                                         *)
(* An update holds the write lock from the mutation to the rename and has  *)
(* no await in between, so nobody reads in the middle of one; but each     *)
(* file operation may fail, and the process may die between any two.       *)
(***************************************************************************)
EXTENDS Naturals, FiniteSets

CONSTANTS
    Ips,         \* addresses that may be saved as machines
    Origins,     \* origins that may be listed
    MaxTokens,   \* bound: tokens ever generated
    MaxCrashes   \* bound: crashes

ASSUME BoundsAssumption == MaxTokens \in Nat /\ MaxCrashes \in Nat

Token  == 1 .. MaxTokens
Config == [token : Token, origins : SUBSET Origins, machines : SUBSET Ips]

\* What may stand in a file, or in memory: a config, nothing, or half a write.
Missing == [token |-> 0]
Torn    == [token |-> MaxTokens + 1]

Update == [kind : {"save", "delete"}, ip : Ips] \cup [kind : {"settings"}, origins : SUBSET Origins]
Create == [kind |-> "create"]
NoUpdate == [kind |-> "none"]

VARIABLES
    memory,    \* the RwLock'd config, Missing while the app is not running
    disk,      \* config.json
    tmp,       \* config.json.tmp
    writer,    \* the update holding the lock, and its next step
    minted,    \* tokens generated so far
    crashes,
    shown,     \* history: tokens a client has been given
    answered   \* history: the updates a caller was told succeeded, unless a
               \* later update of the same thing was tried

vars == <<memory, disk, tmp, writer, minted, crashes, shown, answered>>

Unlocked == [update |-> NoUpdate, at |-> "none"]
Running  == memory # Missing /\ writer.update # Create

Init ==
    /\ memory = Missing /\ disk = Missing /\ tmp = Missing
    /\ writer = Unlocked
    /\ minted = 0 /\ crashes = 0
    /\ shown = {} /\ answered = {}

-----------------------------------------------------------------------------
LoadLeftover ==   \* mutant: falls back on the temp file when there is no config
    /\ memory = Missing /\ (disk \in Config \/ tmp # Missing)
    /\ memory' = IF disk \in Config THEN disk ELSE tmp
    /\ UNCHANGED <<disk, tmp, writer, minted, crashes, shown, answered>>

\* load_or_create with a file to read; one that is not a config stops the
\* launch.
Load ==
    /\ memory = Missing /\ disk \in Config
    /\ memory' = disk
    /\ UNCHANGED <<disk, tmp, writer, minted, crashes, shown, answered>>

\* First launch: a fresh token, written before anyone is served.
CreateUnwritten ==   \* mutant: serves the fresh config without writing it
    /\ memory = Missing /\ disk = Missing /\ minted < MaxTokens
    /\ minted' = minted + 1
    /\ memory' = [token |-> minted + 1, origins |-> {}, machines |-> {}]
    /\ UNCHANGED <<disk, tmp, writer, crashes, shown, answered>>

CreateConfig ==
    /\ memory = Missing /\ disk = Missing /\ minted < MaxTokens
    /\ minted' = minted + 1
    /\ memory' = [token |-> minted + 1, origins |-> {}, machines |-> {}]
    /\ writer' = [update |-> Create, at |-> "write"]
    /\ UNCHANGED <<disk, tmp, crashes, shown, answered>>

Apply(u) ==
    CASE u.kind = "save"     -> [memory EXCEPT !.machines = @ \cup {u.ip}]
      [] u.kind = "delete"   -> [memory EXCEPT !.machines = @ \ {u.ip}]
      [] u.kind = "settings" -> [memory EXCEPT !.origins = u.origins]

\* The entry an update changes: of two updates of one entry the later one replaces
\* the earlier.
KeyOf(u) == IF u.kind = "settings" THEN [field |-> "origins"]
            ELSE [field |-> "machine", ip |-> u.ip]

\* update: the mutation is made in memory before anything is written.  Deleting
\* a machine that is not saved is an update like the others.
Mutate(u) ==
    /\ Running /\ writer = Unlocked
    /\ memory' = Apply(u)
    /\ writer' = [update |-> u, at |-> "write"]
    /\ answered' = {v \in answered : KeyOf(v) # KeyOf(u)}
    /\ UNCHANGED <<disk, tmp, minted, crashes, shown>>

\* A failed file operation ends the update with an error; memory stays as the
\* mutation left it.  A failed first launch aborts the program.
GiveUp ==
    /\ writer' = Unlocked
    /\ memory' = IF writer.update = Create THEN Missing ELSE memory
    /\ UNCHANGED <<disk, minted, crashes, shown, answered>>

\* write_config, first half: the temp file and its permissions.
WriteInPlace ==   \* mutant: writes config.json itself, piece by piece
    /\ writer.at = "write"
    /\ disk' \in {Torn, memory}
    /\ writer' = [writer EXCEPT !.at = IF disk' = Torn THEN "write" ELSE "rename"]
    /\ tmp' = memory
    /\ UNCHANGED <<memory, minted, crashes, shown, answered>>

WriteTemp ==
    /\ writer.at = "write"
    /\ \/ /\ tmp' = memory
          /\ writer' = [writer EXCEPT !.at = "rename"]
          /\ UNCHANGED <<memory, disk, minted, crashes, shown, answered>>
       \/ /\ tmp' \in {tmp, Torn, memory}
          /\ GiveUp

\* write_config, second half, and the answer to the caller.
Renamed ==
    /\ disk' = tmp /\ tmp' = Missing
    /\ writer' = Unlocked
    /\ answered' = answered \cup ({writer.update} \ {Create})
    /\ UNCHANGED <<memory, minted, crashes, shown>>

RenameUnchecked ==   \* mutant: a failed rename is answered as a success
    /\ writer.at = "rename"
    /\ \/ Renamed
       \/ /\ answered' = answered \cup ({writer.update} \ {Create})
          /\ writer' = Unlocked
          /\ UNCHANGED <<memory, disk, tmp, minted, crashes, shown>>

Rename ==
    /\ writer.at = "rename"
    /\ \/ Renamed
       \/ GiveUp /\ UNCHANGED tmp

\* A read (get): the settings page, local_api_info and a released pairing show
\* the token.
Show ==
    /\ Running /\ writer = Unlocked
    /\ shown' = shown \cup {memory.token}
    /\ UNCHANGED <<memory, disk, tmp, writer, minted, crashes, answered>>

\* The process dies; a temp file being written stays as far as it got.
Crash ==
    /\ memory # Missing /\ crashes < MaxCrashes
    /\ crashes' = crashes + 1
    /\ memory' = Missing /\ writer' = Unlocked
    /\ tmp' \in IF writer.at = "write" THEN {tmp, Torn} ELSE {tmp}
    /\ UNCHANGED <<disk, minted, shown, answered>>

Next ==
    \/ Load \/ CreateConfig \/ WriteTemp \/ Rename \/ Show \/ Crash
    \/ \E u \in Update : Mutate(u)

Spec == Init /\ [][Next]_vars

-----------------------------------------------------------------------------
\* Types: what the app runs on is a whole config, never half a write.
TypeOK ==
    /\ memory \in Config \cup {Missing}
    /\ disk \in Config \cup {Missing, Torn} /\ tmp \in Config \cup {Missing, Torn}
    /\ writer \in [update : Update \cup {Create}, at : {"write", "rename"}] \cup {Unlocked}
    /\ minted \in 0 .. MaxTokens /\ crashes \in 0 .. MaxCrashes
    /\ shown \subseteq Token /\ answered \subseteq Update

\* "so a crash can't truncate the config": whenever the process dies,
\* config.json is a whole config, or was never there.
ConfigNeverTorn == disk # Torn

\* The token a client was given is the token of every later launch: neither a
\* crash nor a failed write nor an update ever invalidates it.
TokenIsForever ==
    \A t \in shown : disk \in Config /\ disk.token = t
                     /\ (Running => memory.token = t)

\* An update that was answered with success is in the file, and so survives
\* a crash, whatever later updates of other things fail.
Holds(u, c) ==
    CASE u.kind = "save"     -> u.ip \in c.machines
      [] u.kind = "delete"   -> u.ip \notin c.machines
      [] u.kind = "settings" -> c.origins = u.origins
AnsweredSurvives ==
    \A u \in answered : disk \in Config /\ Holds(u, disk) /\ (Running => Holds(u, memory))

-----------------------------------------------------------------------------
(* The store implements DurableConfig.                                     *)

\* A config as entries: the token, the list of origins, and of each address
\* whether it is saved as a machine.
Key == {[field |-> "token"], [field |-> "origins"]} \cup [field : {"machine"}, ip : Ips]

Entry(c, k) ==
    CASE k.field = "token"   -> c.token
      [] k.field = "origins" -> c.origins
      [] k.field = "machine" -> k.ip \in c.machines
Content(c) == [k \in Key |-> Entry(c, k)]

\* An update as the change of an entry.
Made(u) == [by    |-> "caller",
            key   |-> KeyOf(u),
            value |-> IF u.kind = "settings" THEN u.origins ELSE u.kind = "save"]

Durable == INSTANCE DurableConfig WITH
    Fresh   <- {Content([token |-> t, origins |-> {}, machines |-> {}]) : t \in Token},
    Changes <- {Made(u) : u \in Update},
    saved   <- IF disk \in Config THEN Content(disk) ELSE <<>>,
    working <- IF memory = Missing THEN <<>> ELSE Content(memory),
    change  <- IF writer.update \in Update THEN Made(writer.update)
               ELSE [by |-> IF writer.update = Create THEN "first launch" ELSE "nobody"],
    done    <- {Made(u) : u \in answered}

\* Seen from the callers and from the next launch, the temp file, the rename and
\* the failures of either are one atomic save or none, wherever the process dies.
ImplementsDurable == Durable!Spec
=============================================================================
