-------------------------- MODULE ConfigStoreProofs --------------------------
(***************************************************************************)
(* The configuration survives every failed write and every crash, for any  *)
(* number of machines, origins, updates and crashes.                       *)
(***************************************************************************)
EXTENDS ConfigStore, TLAPS

\* Who holds the write lock works on a config in memory, has written all of it
\* before it renames, and has made its own update in it.
WriterInv ==
    /\ writer # Unlocked => memory # Missing
    /\ writer.at = "rename" => tmp = memory
    /\ writer.update \in Update => Holds(writer.update, memory)

\* Only the first launch runs on a config that is not in the file, and nobody
\* is served before it is; from then on memory and file have the same token.
FirstLaunchInv ==
    /\ disk = Missing => shown = {} /\ answered = {}
                         /\ (memory = Missing \/ writer.update = Create)
    /\ writer.update = Create => disk = Missing
    /\ disk # Missing /\ memory # Missing => memory.token = disk.token

\* The inductive invariant: the parts above and the properties they support.
IInv == TypeOK /\ ConfigNeverTorn /\ WriterInv /\ FirstLaunchInv
        /\ TokenIsForever /\ AnsweredSurvives

-----------------------------------------------------------------------------
(* What an update does to a config.                                        *)

\* An update makes a config of a config, keeps the token and takes effect.
LEMMA ApplyTakesEffect ==
    ASSUME memory \in Config, NEW u \in Update
    PROVE  Apply(u) \in Config /\ Apply(u).token = memory.token /\ Holds(u, Apply(u))
<1>1. CASE u.kind = "save"
  <2>1. u.ip \in Ips
    BY <1>1 DEF Update
  <2> QED
    BY <1>1, <2>1 DEF Apply, Holds, Config
<1>2. CASE u.kind = "delete"
  BY <1>2 DEF Apply, Holds, Config
<1>3. CASE u.kind = "settings"
  <2>1. u.origins \in SUBSET Origins
    BY <1>3 DEF Update
  <2> QED
    BY <1>3, <2>1 DEF Apply, Holds, Config
<1> QED
  BY <1>1, <1>2, <1>3 DEF Update

\* An update leaves alone what updates of other things have put there.
LEMMA ApplyLeavesOthers ==
    ASSUME memory \in Config, NEW u \in Update, NEW v \in Update,
           KeyOf(v) # KeyOf(u), Holds(v, memory)
    PROVE  Holds(v, Apply(u))
<1>1. u.kind \in {"save", "delete", "settings"} /\ v.kind \in {"save", "delete", "settings"}
  BY DEF Update
<1>2. CASE u.kind = "settings"
  BY <1>1, <1>2 DEF Apply, Holds, KeyOf, Config
<1>3. CASE u.kind = "save"
  BY <1>1, <1>3 DEF Apply, Holds, KeyOf, Config
<1>4. CASE u.kind = "delete"
  BY <1>1, <1>4 DEF Apply, Holds, KeyOf, Config
<1> QED
  BY <1>1, <1>2, <1>3, <1>4

-----------------------------------------------------------------------------
(* One lemma per action.                                                   *)

\* Load keeps the inductive invariant.
LEMMA LoadStep ==
    ASSUME IInv, Load
    PROVE  IInv'
<1> USE BoundsAssumption DEF IInv, Load, TypeOK, Running, Token, Config, Missing, Torn,
        Create, NoUpdate, Unlocked
<1>1. TypeOK'
  OBVIOUS
<1>2. ConfigNeverTorn'
  BY DEF ConfigNeverTorn, WriterInv
<1>3. WriterInv'
  <2>1. NoUpdate \notin Update /\ Create \notin Update
    BY DEF Update
  <2> QED
    BY <2>1 DEF WriterInv
<1>4. FirstLaunchInv'
  BY DEF FirstLaunchInv, WriterInv, ConfigNeverTorn
<1>5. TokenIsForever'
  BY DEF TokenIsForever, FirstLaunchInv, WriterInv, ConfigNeverTorn
<1>6. AnsweredSurvives'
  BY DEF AnsweredSurvives, FirstLaunchInv, WriterInv, ConfigNeverTorn
<1> QED
  BY <1>1, <1>2, <1>3, <1>4, <1>5, <1>6

\* CreateConfig keeps the inductive invariant.
LEMMA CreateConfigStep ==
    ASSUME IInv, CreateConfig
    PROVE  IInv'
<1> USE BoundsAssumption DEF IInv, CreateConfig, TypeOK, Running, Token, Config, Missing, Torn,
        Create, NoUpdate, Unlocked
<1>1. TypeOK'
  OBVIOUS
<1>2. ConfigNeverTorn'
  BY DEF ConfigNeverTorn, WriterInv
<1>3. WriterInv'
  <2>1. NoUpdate \notin Update /\ Create \notin Update
    BY DEF Update
  <2> QED
    BY <2>1 DEF WriterInv
<1>4. FirstLaunchInv'
  BY DEF FirstLaunchInv, WriterInv, ConfigNeverTorn
<1>5. TokenIsForever'
  BY DEF TokenIsForever, FirstLaunchInv, WriterInv, ConfigNeverTorn
<1>6. AnsweredSurvives'
  BY DEF AnsweredSurvives, FirstLaunchInv, WriterInv, ConfigNeverTorn
<1> QED
  BY <1>1, <1>2, <1>3, <1>4, <1>5, <1>6

\* WriteTemp keeps the inductive invariant.
LEMMA WriteTempStep ==
    ASSUME IInv, WriteTemp
    PROVE  IInv'
<1> USE BoundsAssumption DEF IInv, WriteTemp, GiveUp, TypeOK, Running, Token, Config, Missing, Torn,
        Create, NoUpdate, Unlocked
<1>1. TypeOK'
  OBVIOUS
<1>2. ConfigNeverTorn'
  BY DEF ConfigNeverTorn, WriterInv
<1>3. WriterInv'
  <2>1. NoUpdate \notin Update /\ Create \notin Update
    BY DEF Update
  <2>2. CASE writer' = Unlocked
    BY <2>1, <2>2 DEF WriterInv
  <2>3. CASE writer' # Unlocked
    BY <2>1, <2>3 DEF WriterInv
  <2> QED
    BY <2>2, <2>3
<1>4. FirstLaunchInv'
  BY DEF FirstLaunchInv, WriterInv, ConfigNeverTorn
<1>5. TokenIsForever'
  BY DEF TokenIsForever, FirstLaunchInv, WriterInv, ConfigNeverTorn
<1>6. AnsweredSurvives'
  BY DEF AnsweredSurvives, FirstLaunchInv, WriterInv, ConfigNeverTorn
<1> QED
  BY <1>1, <1>2, <1>3, <1>4, <1>5, <1>6

\* Rename keeps the inductive invariant.
LEMMA RenameStep ==
    ASSUME IInv, Rename
    PROVE  IInv'
<1> USE BoundsAssumption DEF IInv, Rename, Renamed, GiveUp, TypeOK, Running, Token, Config, Missing, Torn,
        Create, NoUpdate, Unlocked
<1>1. TypeOK'
  OBVIOUS
<1>2. ConfigNeverTorn'
  BY DEF ConfigNeverTorn, WriterInv
<1>3. WriterInv'
  <2>1. NoUpdate \notin Update /\ Create \notin Update
    BY DEF Update
  <2>2. CASE writer' = Unlocked
    BY <2>1, <2>2 DEF WriterInv
  <2>3. CASE writer' # Unlocked
    BY <2>1, <2>3 DEF WriterInv
  <2> QED
    BY <2>2, <2>3
<1>w. writer \in [update : Update \cup {Create}, at : {"write", "rename"}] /\ memory \in Config
  BY DEF WriterInv
<1>4. FirstLaunchInv'
  <2>1. CASE Renamed
    <3>1. disk' = memory /\ memory' = memory /\ writer' = Unlocked
      BY <2>1 DEF WriterInv
    <3> QED
      BY <1>w, <3>1 DEF FirstLaunchInv
  <2>2. CASE GiveUp /\ UNCHANGED tmp
    BY <1>w, <2>2 DEF FirstLaunchInv
  <2> QED
    BY <2>1, <2>2
<1>5. TokenIsForever'
  <2>1. CASE Renamed
    <3>1. disk' = memory /\ memory' = memory /\ shown' = shown
      BY <2>1 DEF WriterInv
    <3>2. \A t \in shown : disk \in Config /\ disk.token = t /\ disk # Missing
      BY DEF TokenIsForever
    <3>3. \A t \in shown : memory.token = t
      BY <1>w, <3>2 DEF FirstLaunchInv
    <3> QED
      BY <1>w, <3>1, <3>3 DEF TokenIsForever
  <2>2. CASE GiveUp /\ UNCHANGED tmp
    BY <1>w, <2>2 DEF TokenIsForever, FirstLaunchInv
  <2> QED
    BY <2>1, <2>2
<1>6. AnsweredSurvives'
  BY DEF AnsweredSurvives, FirstLaunchInv, WriterInv, ConfigNeverTorn
<1> QED
  BY <1>1, <1>2, <1>3, <1>4, <1>5, <1>6

\* Show keeps the inductive invariant.
LEMMA ShowStep ==
    ASSUME IInv, Show
    PROVE  IInv'
<1> USE BoundsAssumption DEF IInv, Show, TypeOK, Running, Token, Config, Missing, Torn,
        Create, NoUpdate, Unlocked
<1>1. TypeOK'
  OBVIOUS
<1>2. ConfigNeverTorn'
  BY DEF ConfigNeverTorn, WriterInv
<1>3. WriterInv'
  BY DEF WriterInv
<1>4. FirstLaunchInv'
  BY DEF FirstLaunchInv, WriterInv, ConfigNeverTorn
<1>5. TokenIsForever'
  BY DEF TokenIsForever, FirstLaunchInv, WriterInv, ConfigNeverTorn
<1>6. AnsweredSurvives'
  BY DEF AnsweredSurvives, FirstLaunchInv, WriterInv, ConfigNeverTorn
<1> QED
  BY <1>1, <1>2, <1>3, <1>4, <1>5, <1>6

\* Crash keeps the inductive invariant.
LEMMA CrashStep ==
    ASSUME IInv, Crash
    PROVE  IInv'
<1> USE BoundsAssumption DEF IInv, Crash, TypeOK, Running, Token, Config, Missing, Torn,
        Create, NoUpdate, Unlocked
<1>1. TypeOK'
  OBVIOUS
<1>2. ConfigNeverTorn'
  BY DEF ConfigNeverTorn, WriterInv
<1>3. WriterInv'
  <2>1. NoUpdate \notin Update /\ Create \notin Update
    BY DEF Update
  <2> QED
    BY <2>1 DEF WriterInv
<1>4. FirstLaunchInv'
  BY DEF FirstLaunchInv, WriterInv, ConfigNeverTorn
<1>5. TokenIsForever'
  BY DEF TokenIsForever, FirstLaunchInv, WriterInv, ConfigNeverTorn
<1>6. AnsweredSurvives'
  BY DEF AnsweredSurvives, FirstLaunchInv, WriterInv, ConfigNeverTorn
<1> QED
  BY <1>1, <1>2, <1>3, <1>4, <1>5, <1>6

\* Mutate keeps the inductive invariant.
LEMMA MutateStep ==
    ASSUME IInv, NEW u \in Update, Mutate(u)
    PROVE  IInv'
<1> USE BoundsAssumption DEF IInv, Running, Missing, Torn, Create, NoUpdate, Unlocked
<1>m. memory \in Config
  BY DEF Mutate, TypeOK
<1>a. memory' \in Config /\ memory'.token = memory.token /\ Holds(u, memory')
  BY <1>m, ApplyTakesEffect DEF Mutate
<1>u. u # Create /\ u # NoUpdate
  BY DEF Update
<1>1. TypeOK'
  BY <1>a DEF Mutate, TypeOK
<1>2. ConfigNeverTorn'
  BY DEF Mutate, ConfigNeverTorn
<1>3. WriterInv'
  <2>1. memory' # Missing
    BY <1>a DEF Config, Token
  <2>2. writer' = [update |-> u, at |-> "write"]
    BY DEF Mutate
  <2> QED
    BY <1>a, <2>1, <2>2 DEF WriterInv
<1>4. FirstLaunchInv'
  BY <1>a, <1>u DEF Mutate, FirstLaunchInv
<1>5. TokenIsForever'
  BY <1>a DEF Mutate, TokenIsForever, FirstLaunchInv
<1>6. AnsweredSurvives'
  <2> SUFFICES ASSUME NEW v \in answered'
               PROVE  disk' \in Config /\ Holds(v, disk') /\ Holds(v, memory')
    BY DEF AnsweredSurvives
  <2>1. v \in answered /\ v \in Update /\ KeyOf(v) # KeyOf(u)
    BY DEF Mutate, TypeOK
  <2>2. disk \in Config /\ Holds(v, disk) /\ Holds(v, memory)
    BY <2>1 DEF Mutate, AnsweredSurvives
  <2>3. Holds(v, memory')
    BY <1>m, <2>1, <2>2, ApplyLeavesOthers DEF Mutate
  <2>4. disk' = disk
    BY DEF Mutate
  <2> QED
    BY <2>2, <2>3, <2>4
<1> QED
  BY <1>1, <1>2, <1>3, <1>4, <1>5, <1>6

-----------------------------------------------------------------------------
(* The theorems.                                                           *)

\* Before the first launch there is nothing.
LEMMA Initially == Init => IInv
BY BoundsAssumption DEF Init, IInv, TypeOK, ConfigNeverTorn, WriterInv, FirstLaunchInv,
   TokenIsForever, AnsweredSurvives, Running, Unlocked, Missing, Torn, NoUpdate, Create,
   Update, Token, Config

\* Every step keeps the inductive invariant.
LEMMA EveryStep == IInv /\ [Next]_vars => IInv'
<1> SUFFICES ASSUME IInv, [Next]_vars
             PROVE  IInv'
  OBVIOUS
<1>1. CASE Load \/ CreateConfig \/ WriteTemp \/ Rename \/ Show \/ Crash
  BY <1>1, LoadStep, CreateConfigStep, WriteTempStep, RenameStep, ShowStep, CrashStep
<1>2. ASSUME NEW u \in Update, Mutate(u)
      PROVE  IInv'
  BY <1>2, MutateStep
<1>3. CASE UNCHANGED vars
  BY <1>3 DEF vars, IInv, TypeOK, ConfigNeverTorn, WriterInv, FirstLaunchInv,
     TokenIsForever, AnsweredSurvives, Running
<1> QED
  BY <1>1, <1>2, <1>3 DEF Next

\* The inductive invariant holds of every behaviour.
THEOREM Inductive == Spec => []IInv
BY Initially, EveryStep, PTL DEF Spec

\* Every state is of its type; the app runs on whole configs only.
THEOREM TypeCorrect == Spec => []TypeOK
<1>1. IInv => TypeOK
  BY DEF IInv
<1> QED
  BY <1>1, Inductive, PTL

\* "A crash can't truncate the config", nor can a failed write.
THEOREM NeverTorn == Spec => []ConfigNeverTorn
<1>1. IInv => ConfigNeverTorn
  BY DEF IInv
<1> QED
  BY <1>1, Inductive, PTL

\* A token a client was given is the token for good.
THEOREM TokenStays == Spec => []TokenIsForever
<1>1. IInv => TokenIsForever
  BY DEF IInv
<1> QED
  BY <1>1, Inductive, PTL

\* What was answered with success survives crashes and later failures.
THEOREM AnsweredStays == Spec => []AnsweredSurvives
<1>1. IInv => AnsweredSurvives
  BY DEF IInv
<1> QED
  BY <1>1, Inductive, PTL

-----------------------------------------------------------------------------
(* The store implements DurableConfig.                                     *)

DSaved   == IF disk \in Config THEN Content(disk) ELSE <<>>
DWorking == IF memory = Missing THEN <<>> ELSE Content(memory)
DChange  == IF writer.update \in Update THEN Made(writer.update)
            ELSE [by |-> IF writer.update = Create THEN "first launch" ELSE "nobody"]
DDone    == {Made(u) : u \in answered}
DStep    == [Durable!Next]_(Durable!vars)

\* A config has entries, whatever they hold.
LEMMA ContentIsSome == ASSUME NEW c PROVE Content(c) # <<>>
<1>1. DOMAIN Content(c) = Key
  BY DEF Content
<1>2. [field |-> "token"] \in Key
  BY DEF Key
<1>3. DOMAIN <<>> = {}
  OBVIOUS
<1> QED
  BY <1>1, <1>2, <1>3

\* The contents of a config are a function on the keys.
LEMMA ContentIsMap == ASSUME NEW c PROVE Content(c) = [k \in Key |-> Content(c)[k]]
BY DEF Content

\* The entries of equal token, origins and machines are equal.
LEMMA EntriesOf ==
    ASSUME NEW c, NEW k \in Key
    PROVE  \/ k = [field |-> "token"] /\ Content(c)[k] = c.token
           \/ k = [field |-> "origins"] /\ Content(c)[k] = c.origins
           \/ /\ k.field = "machine" /\ k.ip \in Ips /\ k = [field |-> "machine", ip |-> k.ip]
              /\ Content(c)[k] = (k.ip \in c.machines)
<1>1. CASE k = [field |-> "token"]
  BY <1>1 DEF Content, Entry
<1>2. CASE k = [field |-> "origins"]
  BY <1>2 DEF Content, Entry
<1>3. CASE k \in [field : {"machine"}, ip : Ips]
  BY <1>3 DEF Content, Entry
<1> QED
  BY <1>1, <1>2, <1>3 DEF Key

\* An update changes the entry it names and no other.
LEMMA ApplyIsOneChange ==
    ASSUME memory \in Config, NEW u \in Update
    PROVE  /\ Content(Apply(u)) = [Content(memory) EXCEPT ![Made(u).key] = Made(u).value]
           /\ Made(u) # [by |-> "nobody"] /\ Made(u) # [by |-> "first launch"]
<1>1. KeyOf(u) \in Key /\ Made(u).key = KeyOf(u)
  BY DEF Made, KeyOf, Key, Update
<1>2. Made(u).value = IF u.kind = "settings" THEN u.origins ELSE u.kind = "save"
  BY DEF Made
<1>3. ASSUME NEW k \in Key
      PROVE  Content(Apply(u))[k] = IF k = KeyOf(u) THEN Made(u).value ELSE Content(memory)[k]
  <2>1. CASE u.kind = "settings"
    <3>1. /\ Apply(u).origins = u.origins /\ Apply(u).token = memory.token
          /\ Apply(u).machines = memory.machines
      BY <2>1 DEF Apply, Config
    <3>2. KeyOf(u) = [field |-> "origins"] /\ Made(u).value = u.origins
      BY <1>2, <2>1 DEF KeyOf
    <3>3. CASE k = [field |-> "origins"]
      BY <3>1, <3>2, <3>3, EntriesOf
    <3>4. CASE k # [field |-> "origins"]
      BY <3>1, <3>2, <3>4, EntriesOf
    <3> QED
      BY <3>3, <3>4
  <2>2. CASE u.kind # "settings"
    <3>1. /\ Apply(u).origins = memory.origins /\ Apply(u).token = memory.token
          /\ \A ip \in Ips : (ip \in Apply(u).machines) =
                IF ip = u.ip THEN u.kind = "save" ELSE ip \in memory.machines
      BY <2>2 DEF Apply, Config, Update
    <3>2. KeyOf(u) = [field |-> "machine", ip |-> u.ip] /\ Made(u).value = (u.kind = "save")
      BY <1>2, <2>2 DEF KeyOf
    <3>3. CASE k.field = "machine"
      BY <3>1, <3>2, <3>3, EntriesOf
    <3>4. CASE k.field # "machine"
      BY <3>1, <3>2, <3>4, EntriesOf
    <3> QED
      BY <3>3, <3>4
  <2> QED
    BY <2>1, <2>2
<1>4. /\ Content(Apply(u)) = [k \in Key |-> Content(Apply(u))[k]]
      /\ Content(memory) = [k \in Key |-> Content(memory)[k]]
  BY ContentIsMap
<1>5. Content(Apply(u)) = [Content(memory) EXCEPT ![KeyOf(u)] = Made(u).value]
  BY <1>1, <1>3, <1>4
<1>6. Made(u) # [by |-> "nobody"] /\ Made(u) # [by |-> "first launch"]
  BY DEF Made
<1> QED
  BY <1>1, <1>5, <1>6

\* The first launch and no update at all are not updates of a caller.
LEMMA OtherUpdates == NoUpdate \notin Update /\ Create \notin Update /\ NoUpdate # Create
BY DEF NoUpdate, Create, Update

\* How the update in progress looks.
LEMMA ChangeSeen ==
    /\ writer.update = NoUpdate => DChange = [by |-> "nobody"]
    /\ writer.update = Create => DChange = [by |-> "first launch"]
    /\ writer.update \in Update => DChange = Made(writer.update)
BY OtherUpdates DEF DChange

\* What the store looks like to its callers while someone holds the lock.
LEMMA WriterSeen ==
    ASSUME IInv, writer # Unlocked
    PROVE  /\ memory \in Config /\ DWorking = Content(memory)
           /\ DChange # [by |-> "nobody"]
           /\ (writer.update = Create <=> disk \notin Config)
           /\ writer.update = Create => DChange = [by |-> "first launch"]
           /\ writer.update # Create =>
                 /\ writer.update \in Update /\ DChange = Made(writer.update)
                 /\ DChange # [by |-> "first launch"]
<1>1. memory \in Config /\ memory # Missing
  BY DEF IInv, WriterInv, TypeOK
<1>2. writer.update \in Update \cup {Create} /\ NoUpdate \notin Update \cup {Create}
  BY DEF IInv, TypeOK, Update, Create, NoUpdate
<1>3. (writer.update = Create <=> disk \notin Config)
  <2>1. disk \in Config => disk # Missing
    BY BoundsAssumption DEF Config, Token, Missing
  <2>2. disk \notin Config => disk = Missing
    BY DEF IInv, TypeOK, ConfigNeverTorn
  <2> QED
    BY <1>1, <2>1, <2>2 DEF IInv, FirstLaunchInv
<1>4. writer.update # Create => DChange = Made(writer.update)
  BY <1>2 DEF DChange
<1>5. writer.update = Create => DChange = [by |-> "first launch"]
  BY ChangeSeen
<1>6. writer.update # Create =>
         DChange # [by |-> "nobody"] /\ DChange # [by |-> "first launch"]
  BY <1>1, <1>2, <1>4, ApplyIsOneChange
<1>7. DChange # [by |-> "nobody"]
  <2>1. [by |-> "first launch"] # [by |-> "nobody"]
    OBVIOUS
  <2> QED
    BY <1>5, <1>6, <2>1
<1> QED
  BY <1>1, <1>2, <1>3, <1>4, <1>5, <1>6, <1>7 DEF DWorking

\* Nothing is saved, used or promised at first.
LEMMA DurableInit == Init => Durable!Init
<1> SUFFICES ASSUME Init PROVE Durable!Init
  OBVIOUS
<1>1. disk \notin Config /\ memory = Missing /\ writer.update = NoUpdate /\ answered = {}
  BY BoundsAssumption DEF Init, Config, Token, Missing, Unlocked
<1>2. DSaved = <<>> /\ DWorking = <<>> /\ DDone = {}
  BY <1>1 DEF DSaved, DWorking, DDone
<1>3. DChange = [by |-> "nobody"]
  BY <1>1, ChangeSeen
<1> QED
  BY <1>2, <1>3 DEF Durable!Init, Durable!Nothing, Durable!NoChange, DSaved, DWorking, DChange, DDone

\* A step that fails to write, in either half, fails the change.
LEMMA GiveUpFails ==
    ASSUME IInv, writer # Unlocked, GiveUp
    PROVE  DStep
<1>1. DSaved' = DSaved /\ DDone' = DDone
  BY DEF GiveUp, DSaved, DDone
<1>2. DChange' = [by |-> "nobody"] /\ DChange # [by |-> "nobody"]
  BY WriterSeen DEF GiveUp, DChange, Unlocked, NoUpdate, Create, Update
<1>3. DWorking' = IF DSaved = <<>> THEN <<>> ELSE DWorking
  <2>1. CASE writer.update = Create
    BY <2>1, WriterSeen DEF GiveUp, DWorking, DSaved
  <2>2. CASE writer.update # Create
    <3>1. DSaved # <<>> /\ memory' = memory
      BY <2>2, WriterSeen, ContentIsSome DEF GiveUp, DSaved
    <3> QED
      BY <3>1 DEF DWorking
  <2> QED
    BY <2>1, <2>2
<1>4. Durable!Fail
  BY <1>1, <1>2, <1>3 DEF Durable!Fail, Durable!NoChange, Durable!Nothing, DSaved, DWorking,
     DChange, DDone
<1> QED
  BY <1>4 DEF DStep, Durable!Next

\* The rename saves the change, whole.
LEMMA RenamedSaves ==
    ASSUME IInv, writer.at = "rename", Renamed
    PROVE  DStep
<1>1. writer # Unlocked
  BY DEF Unlocked
<1>2. disk' = memory /\ memory' = memory /\ memory \in Config /\ memory # Missing
  BY <1>1, WriterSeen DEF Renamed, IInv, WriterInv
<1>3. DSaved' = DWorking /\ DWorking' = DWorking
  BY <1>2 DEF DSaved, DWorking
<1>4. DChange' = [by |-> "nobody"] /\ DChange # [by |-> "nobody"]
  BY <1>1, WriterSeen DEF Renamed, DChange, Unlocked, NoUpdate, Create, Update
<1>5. DDone' = DDone \cup ({DChange} \ {[by |-> "first launch"]})
  <2>1. answered' = answered \cup ({writer.update} \ {Create})
    BY DEF Renamed
  <2>2. CASE writer.update = Create
    BY <1>1, <2>1, <2>2, WriterSeen DEF DDone
  <2>3. CASE writer.update # Create
    <3>1. answered' = answered \cup {writer.update}
      BY <2>1, <2>3
    <3>2. DChange = Made(writer.update) /\ DChange # [by |-> "first launch"]
      BY <1>1, <2>3, WriterSeen
    <3> QED
      BY <3>1, <3>2 DEF DDone
  <2> QED
    BY <2>2, <2>3
<1>6. Durable!Save
  BY <1>3, <1>4, <1>5 DEF Durable!Save, Durable!NoChange, Durable!First, DSaved, DWorking,
     DChange, DDone
<1> QED
  BY <1>6 DEF DStep, Durable!Next

\* Writing the temp file is nobody's business.
LEMMA TempUnseen ==
    ASSUME UNCHANGED <<memory, disk, answered, writer.update>>
    PROVE  DStep
<1>1. DSaved' = DSaved /\ DWorking' = DWorking /\ DChange' = DChange /\ DDone' = DDone
  BY DEF DSaved, DWorking, DChange, DDone
<1> QED
  BY <1>1 DEF DStep, Durable!vars, DSaved, DWorking, DChange, DDone

\* A launch works on what was saved, or starts afresh and saves that first.
LEMMA LaunchSeen ==
    ASSUME IInv, Load \/ CreateConfig
    PROVE  DStep
<1>1. memory = Missing /\ DWorking = <<>>
  BY DEF Load, CreateConfig, DWorking
<1>2. DChange = [by |-> "nobody"] /\ DDone' = DDone /\ DSaved' = DSaved
  <2>1. writer = Unlocked
    BY <1>1 DEF IInv, WriterInv
  <2> QED
    BY <2>1 DEF Load, CreateConfig, DChange, DDone, DSaved, Unlocked, NoUpdate, Create, Update
<1>3. CASE Load
  <2>1. disk \in Config /\ disk # Missing /\ memory' = disk /\ writer' = writer
    BY <1>3, BoundsAssumption DEF Load, Config, Token, Missing
  <2>2. DSaved # <<>> /\ DWorking' = DSaved /\ DChange' = DChange
    BY <2>1, ContentIsSome DEF DSaved, DWorking, DChange
  <2>3. Durable!Launch
    BY <1>1, <1>2, <2>2 DEF Durable!Launch, Durable!Nothing, DSaved, DWorking, DChange, DDone
  <2> QED
    BY <2>3 DEF DStep, Durable!Next
<1>4. CASE CreateConfig
  <2>0. PICK t \in Token : t = minted + 1
    BY <1>4, BoundsAssumption DEF CreateConfig, IInv, TypeOK, Token
  <2> DEFINE fresh == [token |-> t, origins |-> {}, machines |-> {}]
  <2>1. /\ memory' = fresh /\ writer'.update = Create /\ disk \notin Config
        /\ memory' # Missing
    BY <1>4, <2>0, BoundsAssumption DEF CreateConfig, Config, Token, Missing
  <2>2. DSaved = <<>> /\ DWorking' = Content(fresh) /\ DChange' = [by |-> "first launch"]
    <3>1. (writer.update = Create => DChange = [by |-> "first launch"])'
      BY ChangeSeen, PTL
    <3> QED
      BY <2>1, <3>1 DEF DSaved, DWorking
  <2>3. Durable!Create(Content(fresh))
    BY <1>1, <1>2, <2>2 DEF Durable!Create, Durable!Nothing, Durable!First, DSaved, DWorking,
       DChange, DDone
  <2> QED
    BY <2>3 DEF DStep, Durable!Next
<1> QED
  BY <1>3, <1>4

\* An update changes one entry of what is in use.
LEMMA MutateChanges ==
    ASSUME IInv, NEW u \in Update, Mutate(u)
    PROVE  DStep
<1>1. /\ memory \in Config /\ memory # Missing /\ writer = Unlocked /\ writer'.update = u
      /\ memory' = Apply(u) /\ disk' = disk
      /\ answered' = {v \in answered : KeyOf(v) # KeyOf(u)}
  BY DEF Mutate, Running, IInv, TypeOK
<1>2. Apply(u) # Missing
  BY <1>1, ApplyTakesEffect, BoundsAssumption DEF Config, Token, Missing
<1>3. /\ DWorking # <<>> /\ DWorking = Content(memory)
      /\ DWorking' = [DWorking EXCEPT ![Made(u).key] = Made(u).value]
  BY <1>1, <1>2, ContentIsSome, ApplyIsOneChange DEF DWorking
<1>4. DSaved' = DSaved /\ DSaved # <<>>
  <2>1. disk \in Config
    BY <1>1 DEF IInv, FirstLaunchInv, TypeOK, ConfigNeverTorn, Unlocked, NoUpdate, Create, Update
  <2> QED
    BY <1>1, <2>1, ContentIsSome DEF DSaved
<1>5. DChange = [by |-> "nobody"] /\ DChange' = Made(u)
  <2>1. u # NoUpdate /\ u # Create
    BY DEF Update, NoUpdate, Create
  <2> QED
    BY <1>1, <2>1 DEF DChange, Unlocked, NoUpdate, Create, Update
<1>6. DDone' = {d \in DDone : d.key # Made(u).key}
  BY <1>1 DEF DDone, Made
<1>7. Durable!Change(Made(u))
  BY <1>3, <1>4, <1>5, <1>6 DEF Durable!Change, Durable!Nothing, Durable!NoChange, DSaved,
     DWorking, DChange, DDone
<1> QED
  BY <1>7 DEF DStep, Durable!Next

\* A crash loses what was not saved, and nothing else.
LEMMA CrashSeen ==
    ASSUME IInv, Crash
    PROVE  DStep
<1>1. DSaved' = DSaved /\ DDone' = DDone /\ DWorking # <<>> /\ DWorking' = <<>>
  BY ContentIsSome DEF Crash, DSaved, DDone, DWorking
<1>2. DChange' = [by |-> "nobody"]
  BY DEF Crash, DChange, Unlocked, NoUpdate, Create, Update
<1>3. Durable!Crash
  BY <1>1, <1>2 DEF Durable!Crash, Durable!Nothing, Durable!NoChange, DSaved, DWorking,
     DChange, DDone
<1> QED
  BY <1>3 DEF DStep, Durable!Next

\* Every step of the store is a step of DurableConfig, or none.
LEMMA DurableStep == IInv /\ [Next]_vars => DStep
<1> SUFFICES ASSUME IInv, [Next]_vars PROVE DStep
  OBVIOUS
<1>1. CASE Load \/ CreateConfig
  BY <1>1, LaunchSeen
<1>2. CASE WriteTemp
  <2>1. writer # Unlocked
    BY <1>2 DEF WriteTemp, Unlocked
  <2>2. CASE GiveUp
    BY <2>1, <2>2, GiveUpFails
  <2>3. CASE ~GiveUp
    <3>1. UNCHANGED <<memory, disk, answered>> /\ writer' = [writer EXCEPT !.at = "rename"]
      BY <1>2, <2>3 DEF WriteTemp
    <3>2. writer'.update = writer.update
      BY <2>1, <3>1 DEF IInv, TypeOK
    <3> QED
      BY <3>1, <3>2, TempUnseen
  <2> QED
    BY <2>2, <2>3
<1>3. CASE Rename
  <2>1. writer.at = "rename" /\ writer # Unlocked
    BY <1>3 DEF Rename, Unlocked
  <2> QED
    BY <1>3, <2>1, RenamedSaves, GiveUpFails DEF Rename
<1>4. CASE Show \/ UNCHANGED vars
  <2>1. UNCHANGED <<memory, disk, answered, writer.update>>
    BY <1>4 DEF Show, vars
  <2> QED
    BY <2>1, TempUnseen
<1>5. CASE Crash
  BY <1>5, CrashSeen
<1>6. ASSUME NEW u \in Update, Mutate(u) PROVE DStep
  BY <1>6, MutateChanges
<1> QED
  BY <1>1, <1>2, <1>3, <1>4, <1>5, <1>6 DEF Next

\* The temp file, the rename and their failures amount to one atomic save or
\* none, for any machines, origins, updates and crashes.
THEOREM StoreIsDurable == Spec => ImplementsDurable
<1>1. IInv /\ [Next]_vars => [Durable!Next]_(Durable!vars)
  BY DurableStep DEF DStep
<1> QED
  BY <1>1, DurableInit, Inductive, PTL DEF Spec, ImplementsDurable, Durable!Spec
=============================================================================
