-------------------------- MODULE BrotherUploadProofs --------------------------
(***************************************************************************)
(* What a sequence of uploads leaves on a Brother machine, for any number  *)
(* of uploads, attempts and names: an upload that ends well was stored, at *)
(* most once per attempt, and a refused one not at all.                    *)
(***************************************************************************)
EXTENDS BrotherUpload, FiniteSetTheorems, TLAPS

\* The transmissions of upload u the machine has yet to handle.
OnWire(u) == {r \in wire : r[1] = u}

\* Where the client stands and how often it has transmitted.
PhaseInv ==
    /\ at # "idle" => cur \in Upload
    /\ at \in {"format", "info", "session"} => attempt = 0
    /\ at = "send" => attempt < UPLOAD_RETRIES

\* Every copy, stored or on the wire, is one of the transmissions begun: those
\* counted by `attempt` for the upload being run, none for the ones to come.
CountInv ==
    /\ \A u \in Upload : u = cur => copies[u] + Cardinality(OnWire(u)) <= attempt
    /\ \A u \in Upload : u > cur => copies[u] = 0 /\ OnWire(u) = {}

\* The machine says "stored" only of what it stored.
ReplyInv ==
    /\ \A r \in reply : r[3] = "stored" => copies[r[1]] > 0
    /\ at = "after" => copies[cur] > 0

\* Only uploads before the current one have returned.
ResultInv == \A u \in Upload : result[u] # "none" => u < cur

\* The inductive invariant: the parts above and the properties they support.
IInv == TypeOK /\ PhaseInv /\ CountInv /\ ReplyInv /\ ResultInv
        /\ CopiesBounded /\ OkMeansStored /\ RefusedLeavesNothing

-----------------------------------------------------------------------------
(* Counting transmissions.                                                 *)

\* What is on the wire of an upload can be counted.
LEMMA WireIsFinite ==
    ASSUME TypeOK, NEW u
    PROVE  /\ IsFiniteSet(OnWire(u)) /\ Cardinality(OnWire(u)) \in Nat
           /\ Cardinality(OnWire(u)) = 0 => OnWire(u) = {}
<1>1. IsFiniteSet(1 .. Uploads) /\ IsFiniteSet(1 .. UPLOAD_RETRIES)
  BY RetriesAssumption, FS_Interval
<1>2. IsFiniteSet(Upload \X Attempt)
  BY <1>1, FS_Product DEF Upload, Attempt
<1>3. OnWire(u) \subseteq Upload \X Attempt
  BY DEF OnWire, TypeOK
<1>4. IsFiniteSet(OnWire(u))
  BY <1>2, <1>3, FS_Subset
<1> QED
  BY <1>4, FS_CardinalityType, FS_EmptySet

\* One transmission more on the wire, or one less.
LEMMA WireByOne ==
    ASSUME TypeOK, NEW u, NEW r
    PROVE  /\ Cardinality(OnWire(u) \cup {r}) <= Cardinality(OnWire(u)) + 1
           /\ r \in OnWire(u) =>
                 Cardinality(OnWire(u) \ {r}) = Cardinality(OnWire(u)) - 1
<1>1. IsFiniteSet(OnWire(u)) /\ Cardinality(OnWire(u)) \in Nat
  BY WireIsFinite
<1>2. CASE r \in OnWire(u)
  <2>1. OnWire(u) \cup {r} = OnWire(u)
    BY <1>2
  <2>2. Cardinality(OnWire(u) \ {r}) = Cardinality(OnWire(u)) - 1
    BY <1>1, <1>2, FS_RemoveElement
  <2>3. Cardinality(OnWire(u) \cup {r}) = Cardinality(OnWire(u))
    BY <2>1
  <2> QED
    BY <1>1, <2>2, <2>3
<1>3. CASE r \notin OnWire(u)
  <2>1. Cardinality(OnWire(u) \cup {r}) = Cardinality(OnWire(u)) + 1
    BY <1>1, <1>3, FS_AddElement
  <2> QED
    BY <1>1, <1>3, <2>1
<1> QED
  BY <1>2, <1>3

-----------------------------------------------------------------------------
(* The two ways a step of the client ends.                                 *)

\* Returning keeps the invariant when the result is true to what was sent.
LEMMA ReturnKeeps ==
    ASSUME IInv, at # "idle",
           NEW res \in Error \cup {"ok"}, NEW name \in SUBSET Names, Return(res, name),
           UNCHANGED <<files, wire, copies>>, reply' \subseteq reply,
           seen' \in [Upload -> Seq(Error \cup {"ok"})],
           res = "ok" => copies[cur] > 0,
           res \in NotRetried => attempt = 0
    PROVE  IInv'
<1> USE RetriesAssumption DEF IInv, Upload, Attempt
<1>p. cur \in Upload
  BY DEF PhaseInv
<1>c. /\ cur \in Upload /\ cur' = cur + 1 /\ attempt' = 0
      /\ copies[cur] \in Nat /\ attempt \in Nat
  BY <1>p DEF Return, TypeOK
<1>w. \A u \in Upload : OnWire(u)' = OnWire(u)
  BY DEF OnWire
<1>r. \A u \in Upload : result'[u] = IF u = cur THEN res ELSE result[u]
  BY <1>c DEF Return, TypeOK
<1>1. TypeOK'
  BY <1>c DEF Return, TypeOK, Used
<1>2. PhaseInv'
  BY <1>c DEF Return, PhaseInv
<1>3. CountInv'
  <2>1. \A u \in Upload : u > cur' => copies'[u] = 0 /\ OnWire(u)' = {}
    BY <1>c, <1>w DEF CountInv
  <2>2. ASSUME NEW u \in Upload, u = cur'
        PROVE  copies'[u] + Cardinality(OnWire(u)') <= attempt'
    <3>1. copies'[u] = 0 /\ OnWire(u)' = {}
      BY <1>c, <1>w, <2>2 DEF CountInv
    <3>2. Cardinality(OnWire(u)') = 0
      BY <3>1, FS_EmptySet
    <3> QED
      BY <1>c, <3>1, <3>2
  <2> QED
    BY <2>1, <2>2 DEF CountInv
<1>4. ReplyInv'
  BY DEF Return, ReplyInv
<1>5. ResultInv'
  BY <1>c, <1>r DEF ResultInv
<1>6. CopiesBounded'
  BY DEF CopiesBounded
<1>7. OkMeansStored'
  BY <1>r DEF OkMeansStored
<1>8. RefusedLeavesNothing'
  <2>1. res \in NotRetried => copies[cur] = 0 /\ OnWire(cur) = {}
    <3>1. Cardinality(OnWire(cur)) \in Nat /\ (Cardinality(OnWire(cur)) = 0 => OnWire(cur) = {})
      BY WireIsFinite
    <3>2. copies[cur] + Cardinality(OnWire(cur)) <= attempt
      BY <1>c DEF CountInv
    <3> QED
      BY <1>c, <3>1, <3>2
  <2> QED
    BY <1>r, <2>1 DEF RefusedLeavesNothing, OnWire
<1> QED
  BY <1>1, <1>2, <1>3, <1>4, <1>5, <1>6, <1>7, <1>8

\* So does going on to the next step, when it may be taken.
LEMMA GoOnKeeps ==
    ASSUME IInv, at # "idle",
           NEW where \in {"info", "session", "send", "after"}, GoOn(where),
           UNCHANGED <<files, wire, copies>>, reply' \subseteq reply,
           before' \subseteq Names,
           seen' \in [Upload -> Seq(Error \cup {"ok"})],
           where \in {"info", "session"} => attempt = 0,
           where = "send" => attempt < UPLOAD_RETRIES,
           where = "after" => copies[cur] > 0
    PROVE  IInv'
<1> USE DEF IInv, GoOn
<1>1. TypeOK'
  BY DEF TypeOK, Used
<1>2. PhaseInv' /\ CountInv' /\ ReplyInv' /\ ResultInv'
  BY DEF PhaseInv, CountInv, ReplyInv, ResultInv, OnWire
<1>3. CopiesBounded' /\ OkMeansStored' /\ RefusedLeavesNothing'
  BY DEF CopiesBounded, OkMeansStored, RefusedLeavesNothing
<1> QED
  BY <1>1, <1>2, <1>3

\* A failed attempt ends in one of these ways.
LEMMA AttemptFailedKeeps ==
    ASSUME IInv, at = "answer", NEW e \in {"UploadFailed", "Unreachable"}, AttemptFailed(e),
           UNCHANGED <<files, wire, copies>>, reply' \subseteq reply
    PROVE  IInv'
<1>1. e \in Error /\ e \notin NotRetried
  BY DEF Error, NotRetried
<1>2. seen' \in [Upload -> Seq(Error \cup {"ok"})]
  <2>1. seen \in [Upload -> Seq(Error \cup {"ok"})] /\ cur \in Upload
    BY DEF IInv, TypeOK, PhaseInv
  <2>2. Append(seen[cur], e) \in Seq(Error \cup {"ok"})
    BY <1>1, <2>1
  <2> QED
    BY <2>1, <2>2 DEF AttemptFailed
<1>3. CASE MoreAttempts
  <2>1. GoOn("send") /\ before' = before
    BY <1>1, <1>3 DEF AttemptFailed
  <2>2. before' \subseteq Names /\ attempt < UPLOAD_RETRIES
    BY <1>3, <2>1 DEF IInv, TypeOK, MoreAttempts
  <2> QED
    BY <1>2, <2>1, <2>2, GoOnKeeps
<1>4. CASE ~MoreAttempts
  <2>1. Return(e, {})
    BY <1>4 DEF AttemptFailed
  <2>2. e # "ok" /\ e \in Error \cup {"ok"} /\ {} \in SUBSET Names
    BY <1>1 DEF Error
  <2> QED
    BY <1>1, <1>2, <2>1, <2>2, ReturnKeeps
<1> QED
  BY <1>3, <1>4

-----------------------------------------------------------------------------
(* One lemma per action.                                                   *)

\* CheckFormat keeps the inductive invariant.
LEMMA CheckFormatStep ==
    ASSUME IInv, CheckFormat
    PROVE  IInv'
<1>1. at = "format" /\ attempt = 0 /\ before \subseteq Names /\ {} \in SUBSET Names
      /\ "UnsupportedFormat" \in Error
  BY DEF CheckFormat, IInv, PhaseInv, TypeOK, Error
<1>2. /\ UNCHANGED <<files, wire, copies>> /\ reply' \subseteq reply
      /\ seen' \in [Upload -> Seq(Error \cup {"ok"})]
  BY DEF CheckFormat, machine, IInv, TypeOK
<1>3. CASE Return("UnsupportedFormat", {})
  BY <1>1, <1>2, <1>3, ReturnKeeps
<1>4. CASE GoOn("info") /\ UNCHANGED before
  BY <1>1, <1>2, <1>4, GoOnKeeps
<1> QED
  BY <1>3, <1>4 DEF CheckFormat

\* CheckSize keeps the inductive invariant.
LEMMA CheckSizeStep ==
    ASSUME IInv, CheckSize
    PROVE  IInv'
<1>1. at = "info" /\ attempt = 0 /\ before \subseteq Names /\ {} \in SUBSET Names
  BY DEF CheckSize, IInv, PhaseInv, TypeOK, Error
<1>2. /\ UNCHANGED <<files, wire, copies>> /\ reply' \subseteq reply
      /\ seen' \in [Upload -> Seq(Error \cup {"ok"})]
  BY DEF CheckSize, machine, IInv, TypeOK
<1>3. ASSUME NEW e \in {"Unreachable", "FileTooLarge"}, Return(e, {})
      PROVE  IInv'
  <2>1. e \in Error \cup {"ok"} /\ e # "ok"
    BY DEF Error
  <2> QED
    BY <1>1, <1>2, <1>3, <2>1, ReturnKeeps
<1>4. CASE GoOn("session") /\ UNCHANGED before
  BY <1>1, <1>2, <1>4, GoOnKeeps
<1> QED
  BY <1>3, <1>4 DEF CheckSize

\* CheckFree keeps the inductive invariant.
LEMMA CheckFreeStep ==
    ASSUME IInv, CheckFree
    PROVE  IInv'
<1>1. at = "session" /\ attempt = 0 /\ before \subseteq Names /\ {} \in SUBSET Names
  BY DEF CheckFree, IInv, PhaseInv, TypeOK, Error
<1>2. /\ UNCHANGED <<files, wire, copies>> /\ reply' \subseteq reply
      /\ seen' \in [Upload -> Seq(Error \cup {"ok"})]
  BY DEF CheckFree, machine, IInv, TypeOK
<1>3. ASSUME NEW e \in {"Unreachable", "Rejected"}, Return(e, {})
      PROVE  IInv'
  <2>1. e \in Error \cup {"ok"} /\ e # "ok"
    BY DEF Error
  <2> QED
    BY <1>1, <1>2, <1>3, <2>1, ReturnKeeps
<1>4. CASE Return("InsufficientStorage", {})
  <2>1. "InsufficientStorage" \in Error \cup {"ok"}
    BY DEF Error
  <2> QED
    BY <1>1, <1>2, <1>4, <2>1, ReturnKeeps
<1>5. CASE GoOn("send") /\ before' = Used
  <2>1. before' \subseteq Names /\ attempt < UPLOAD_RETRIES
    BY <1>1, <1>5, RetriesAssumption DEF IInv, TypeOK
  <2> QED
    BY <1>1, <1>2, <1>5, <2>1, GoOnKeeps
<1> QED
  BY <1>3, <1>4, <1>5 DEF CheckFree

\* Send keeps the inductive invariant: the attempt counts whatever gets onto
\* the wire.
LEMMA SendStep ==
    ASSUME IInv, Send
    PROVE  IInv'
<1> USE RetriesAssumption DEF IInv, Upload, Attempt
<1>c. /\ cur \in Upload /\ attempt \in Nat /\ attempt < UPLOAD_RETRIES
      /\ attempt' = attempt + 1 /\ cur' = cur
  BY DEF Send, PhaseInv, TypeOK
<1>w. \A u \in Upload : OnWire(u)' = OnWire(u)
          \/ (u = cur /\ OnWire(u)' = OnWire(u) \cup {<<cur, attempt + 1>>})
  BY <1>c DEF Send, OnWire
<1>n. ASSUME NEW u \in Upload
      PROVE  /\ Cardinality(OnWire(u)) \in Nat /\ Cardinality(OnWire(u)') \in Nat
             /\ u = cur => Cardinality(OnWire(u)') <= Cardinality(OnWire(u)) + 1
             /\ u # cur => Cardinality(OnWire(u)') = Cardinality(OnWire(u))
  <2>1. Cardinality(OnWire(u) \cup {<<cur, attempt + 1>>}) <= Cardinality(OnWire(u)) + 1
    BY WireByOne
  <2>2. Cardinality(OnWire(u)) \in Nat
    BY WireIsFinite
  <2>3. IsFiniteSet(OnWire(u)) /\ IsFiniteSet(OnWire(u) \cup {<<cur, attempt + 1>>})
    BY WireIsFinite, FS_AddElement
  <2>4. Cardinality(OnWire(u) \cup {<<cur, attempt + 1>>}) \in Nat
    BY <2>3, FS_CardinalityType
  <2>5. CASE OnWire(u)' = OnWire(u)
    BY <2>2, <2>5
  <2>6. CASE u = cur /\ OnWire(u)' = OnWire(u) \cup {<<cur, attempt + 1>>}
    <3>1. Cardinality(OnWire(u)') = Cardinality(OnWire(u) \cup {<<cur, attempt + 1>>})
      BY <2>6
    <3> QED
      BY <2>1, <2>2, <2>4, <2>6, <3>1
  <2> QED
    BY <1>w, <2>5, <2>6
<1>k. copies' = copies /\ \A u \in Upload : copies[u] \in Nat
  BY DEF Send, TypeOK
<1>b. \A u \in Upload : u = cur => copies[u] + Cardinality(OnWire(u)') <= attempt'
  <2>1. \A u \in Upload : u = cur => copies[u] + Cardinality(OnWire(u)) <= attempt
    BY DEF CountInv
  <2> QED
    BY <1>c, <1>k, <1>n, <2>1
<1>1. TypeOK'
  BY <1>c DEF Send, TypeOK, Used
<1>2. PhaseInv'
  BY DEF Send, PhaseInv
<1>3. CountInv'
  <2>1. \A u \in Upload : u > cur => copies'[u] = 0 /\ OnWire(u)' = {}
    BY <1>c, <1>w, <1>k DEF CountInv
  <2> QED
    BY <1>c, <1>k, <1>b, <2>1 DEF CountInv
<1>4. ReplyInv'
  BY DEF Send, ReplyInv
<1>5. ResultInv'
  BY DEF Send, ResultInv
<1>6. CopiesBounded'
  <2>1. ASSUME NEW u \in Upload
        PROVE  copies'[u] + Cardinality(OnWire(u)') <= UPLOAD_RETRIES
    <3>1. CASE u = cur
      BY <1>c, <1>k, <1>b, <1>n, <3>1
    <3>2. CASE u # cur
      BY <1>k, <1>w, <3>2 DEF CopiesBounded, OnWire
    <3> QED
      BY <3>1, <3>2
  <2> QED
    BY <2>1 DEF CopiesBounded, OnWire
<1>7. OkMeansStored'
  BY DEF Send, OkMeansStored
<1>8. RefusedLeavesNothing'
  <2>1. result' = result /\ copies' = copies
    BY DEF Send
  <2>2. \A u \in Upload : result[u] \in NotRetried => u # cur
    BY <1>c DEF ResultInv, NotRetried
  <2> QED
    BY <1>w, <2>1, <2>2 DEF RefusedLeavesNothing, OnWire
<1> QED
  BY <1>1, <1>2, <1>3, <1>4, <1>5, <1>6, <1>7, <1>8

\* Answer keeps the inductive invariant.
LEMMA AnswerStep ==
    ASSUME IInv, Answer
    PROVE  IInv'
<1>1. PICK status \in {"stored", "refused"} :
         /\ <<cur, attempt, status>> \in reply
         /\ reply' = reply \ {<<cur, attempt, status>>}
         /\ IF status = "stored"
            THEN GoOn("after") /\ seen' = [seen EXCEPT ![cur] = Append(@, "ok")]
                               /\ UNCHANGED before
            ELSE AttemptFailed("UploadFailed")
  BY DEF Answer
<1>2. at = "answer" /\ UNCHANGED <<files, wire, copies>> /\ reply' \subseteq reply
  BY <1>1 DEF Answer
<1>3. CASE status = "stored"
  <2>1. copies[cur] > 0
    BY <1>1, <1>3 DEF IInv, ReplyInv
  <2>2. seen' \in [Upload -> Seq(Error \cup {"ok"})]
    <3>1. seen \in [Upload -> Seq(Error \cup {"ok"})] /\ cur \in Upload
      BY <1>2 DEF IInv, TypeOK, PhaseInv
    <3>2. Append(seen[cur], "ok") \in Seq(Error \cup {"ok"})
      BY <3>1
    <3> QED
      BY <1>1, <1>3, <3>1, <3>2
  <2>3. before' \subseteq Names
    BY <1>1, <1>3 DEF IInv, TypeOK
  <2> QED
    BY <1>1, <1>2, <1>3, <2>1, <2>2, <2>3, GoOnKeeps
<1>4. CASE status # "stored"
  BY <1>1, <1>2, <1>4, AttemptFailedKeeps
<1> QED
  BY <1>3, <1>4

\* GiveUp keeps the inductive invariant.
LEMMA GiveUpStep ==
    ASSUME IInv, GiveUp
    PROVE  IInv'
<1>1. at = "answer" /\ UNCHANGED <<files, wire, copies>> /\ reply' \subseteq reply
  BY DEF GiveUp
<1> QED
  BY <1>1, AttemptFailedKeeps DEF GiveUp

\* After keeps the inductive invariant.
LEMMA AfterStep ==
    ASSUME IInv, After
    PROVE  IInv'
<1>1. at = "after" /\ copies[cur] > 0
  BY DEF After, IInv, ReplyInv
<1>2. /\ UNCHANGED <<files, wire, copies>> /\ reply' \subseteq reply
      /\ seen' \in [Upload -> Seq(Error \cup {"ok"})]
  BY DEF After, machine, IInv, TypeOK
<1>3. PICK name \in SUBSET Names : Return("ok", name)
  <2>1. \A n \in Used \ before : n \in Names
    BY DEF IInv, TypeOK
  <2> QED
    BY <2>1 DEF After
<1>4. "ok" \notin NotRetried
  BY DEF NotRetried
<1> QED
  BY <1>1, <1>2, <1>3, <1>4, ReturnKeeps

\* Store keeps the inductive invariant: a copy on the wire becomes a stored one.
LEMMA StoreStep ==
    ASSUME IInv, NEW r \in Upload \X Attempt, Store(r)
    PROVE  IInv'
<1> USE RetriesAssumption DEF IInv, Upload, Attempt
<1>r. r \in wire /\ r[1] \in Upload /\ r[2] \in Attempt
  BY DEF Store
<1>k. /\ \A u \in Upload : copies[u] \in Nat
      /\ \A u \in Upload : copies'[u] = IF u = r[1] THEN copies[u] + 1 ELSE copies[u]
  BY <1>r DEF Store, TypeOK
<1>w. \A u \in Upload : OnWire(u)' = IF u = r[1] THEN OnWire(u) \ {r} ELSE OnWire(u)
  BY DEF Store, OnWire
<1>s. ASSUME NEW u \in Upload
      PROVE  copies'[u] + Cardinality(OnWire(u)') = copies[u] + Cardinality(OnWire(u))
  <2>1. Cardinality(OnWire(u)) \in Nat
    BY WireIsFinite
  <2>2. CASE u = r[1]
    <3>1. r \in OnWire(u)
      BY <1>r, <2>2 DEF OnWire
    <3>2. Cardinality(OnWire(u) \ {r}) = Cardinality(OnWire(u)) - 1
      BY <3>1, WireByOne
    <3>3. Cardinality(OnWire(u)') = Cardinality(OnWire(u) \ {r})
      BY <1>w, <2>2
    <3> QED
      BY <1>k, <2>1, <2>2, <3>2, <3>3
  <2>3. CASE u # r[1]
    <3>1. Cardinality(OnWire(u)') = Cardinality(OnWire(u))
      BY <1>w, <2>3
    <3> QED
      BY <1>k, <2>3, <3>1
  <2> QED
    BY <2>2, <2>3
<1>c. cur' = cur /\ attempt' = attempt /\ result' = result /\ at' = at
  BY DEF Store
<1>1. TypeOK'
  <2>1. files' \in [Used' -> Upload] /\ Used' \subseteq Names
    BY <1>r DEF Store, TypeOK, Used
  <2>2. reply' \subseteq Upload \X Attempt \X {"stored", "refused"}
    BY <1>r DEF Store, TypeOK
  <2>3. copies' \in [Upload -> Nat] /\ wire' \subseteq Upload \X Attempt
    BY <1>r DEF Store, TypeOK
  <2> QED
    BY <2>1, <2>2, <2>3 DEF Store, TypeOK
<1>2. PhaseInv'
  BY <1>c DEF PhaseInv
<1>3. CountInv'
  <2>1. ASSUME NEW u \in Upload, u > cur
        PROVE  copies'[u] = 0 /\ OnWire(u)' = {}
    <3>1. copies[u] = 0 /\ OnWire(u) = {}
      BY <2>1 DEF CountInv
    <3>2. u # r[1]
      BY <1>r, <3>1 DEF OnWire
    <3> QED
      BY <1>k, <1>w, <3>1, <3>2
  <2>2. \A u \in Upload : u = cur => copies'[u] + Cardinality(OnWire(u)') <= attempt'
    BY <1>c, <1>s DEF CountInv
  <2> QED
    BY <1>c, <2>1, <2>2 DEF CountInv
<1>4. ReplyInv'
  <2>1. \A q \in reply' : q \in reply \/ q = <<r[1], r[2], "stored">>
    BY DEF Store
  <2>2. \A u \in Upload : copies[u] > 0 => copies'[u] > 0
    BY <1>k
  <2>3. copies'[r[1]] > 0
    BY <1>k, <1>r
  <2>4. \A q \in reply : q[1] \in Upload
    BY DEF TypeOK
  <2>5. at = "after" => cur \in Upload
    BY DEF PhaseInv
  <2> QED
    BY <1>c, <2>1, <2>2, <2>3, <2>4, <2>5 DEF ReplyInv
<1>5. ResultInv'
  BY <1>c DEF ResultInv
<1>6. CopiesBounded'
  BY <1>s DEF CopiesBounded, OnWire
<1>7. OkMeansStored'
  BY <1>c, <1>k DEF OkMeansStored
<1>8. RefusedLeavesNothing'
  <2>1. \A u \in Upload : result[u] \in NotRetried => u # r[1]
    BY <1>r DEF RefusedLeavesNothing
  <2> QED
    BY <1>c, <1>k, <2>1 DEF Store, RefusedLeavesNothing
<1> QED
  BY <1>1, <1>2, <1>3, <1>4, <1>5, <1>6, <1>7, <1>8

\* Refuse keeps the inductive invariant.
LEMMA RefuseStep ==
    ASSUME IInv, NEW r \in Upload \X Attempt, Refuse(r)
    PROVE  IInv'
<1> USE RetriesAssumption DEF IInv, Upload, Attempt
<1>c. UNCHANGED <<cur, at, attempt, before, files, seen, copies, result, storedAs>>
  BY DEF Refuse
<1>w. \A u \in Upload : OnWire(u)' \subseteq OnWire(u)
  BY DEF Refuse, OnWire
<1>s. ASSUME NEW u \in Upload
      PROVE  Cardinality(OnWire(u)') \in Nat /\ Cardinality(OnWire(u)') <= Cardinality(OnWire(u))
             /\ Cardinality(OnWire(u)) \in Nat
  <2>1. IsFiniteSet(OnWire(u)) /\ Cardinality(OnWire(u)) \in Nat
    BY WireIsFinite
  <2>2. IsFiniteSet(OnWire(u)') /\ Cardinality(OnWire(u)') <= Cardinality(OnWire(u))
    BY <1>w, <2>1, FS_Subset
  <2> QED
    BY <2>1, <2>2, FS_CardinalityType
<1>1. TypeOK'
  <2>1. reply' \subseteq Upload \X Attempt \X {"stored", "refused"}
    BY DEF Refuse, TypeOK
  <2>2. wire' \subseteq Upload \X Attempt
    BY DEF Refuse, TypeOK
  <2> QED
    BY <1>c, <2>1, <2>2 DEF TypeOK, Used
<1>2. PhaseInv' /\ ResultInv' /\ OkMeansStored'
  BY <1>c DEF PhaseInv, ResultInv, OkMeansStored
<1>3. CountInv'
  <2>1. \A u \in Upload : u > cur => OnWire(u)' = {}
    BY <1>w DEF CountInv
  <2>2. copies \in [Upload -> Nat] /\ attempt \in Nat
    BY DEF TypeOK
  <2>3. ASSUME NEW u \in Upload, u = cur
        PROVE  copies[u] + Cardinality(OnWire(u)') <= attempt
    <3>1. copies[u] + Cardinality(OnWire(u)) <= attempt /\ copies[u] \in Nat
      BY <2>2, <2>3 DEF CountInv
    <3> QED
      BY <1>s, <2>2, <3>1
  <2> QED
    BY <1>c, <2>1, <2>3 DEF CountInv
<1>4. ReplyInv'
  BY <1>c DEF Refuse, ReplyInv
<1>5. CopiesBounded'
  <2>1. copies \in [Upload -> Nat]
    BY DEF TypeOK
  <2>2. \A u \in Upload : copies[u] + Cardinality(OnWire(u)) <= UPLOAD_RETRIES
    BY DEF CopiesBounded, OnWire
  <2>3. ASSUME NEW u \in Upload
        PROVE  copies[u] + Cardinality(OnWire(u)') <= UPLOAD_RETRIES
    <3>1. copies[u] + Cardinality(OnWire(u)) <= UPLOAD_RETRIES /\ copies[u] \in Nat
      BY <2>1, <2>2
    <3> QED
      BY <1>s, <3>1
  <2> QED
    BY <1>c, <2>3 DEF CopiesBounded, OnWire
<1>6. RefusedLeavesNothing'
  BY <1>c DEF Refuse, RefusedLeavesNothing
<1> QED
  BY <1>1, <1>2, <1>3, <1>4, <1>5, <1>6

\* The owner deletes a file: that changes what the machine lists and no count.
LEMMA DeleteStep ==
    ASSUME IInv, NEW n \in Names, Delete(n)
    PROVE  IInv'
<1> USE DEF IInv, Delete
<1>1. TypeOK'
  BY DEF TypeOK, Used
<1>2. PhaseInv' /\ CountInv' /\ ReplyInv' /\ ResultInv'
  BY DEF PhaseInv, CountInv, ReplyInv, ResultInv, OnWire
<1>3. CopiesBounded' /\ OkMeansStored' /\ RefusedLeavesNothing'
  BY DEF CopiesBounded, OkMeansStored, RefusedLeavesNothing
<1> QED
  BY <1>1, <1>2, <1>3

-----------------------------------------------------------------------------
(* The theorems.                                                           *)

\* Initially nothing was sent.
LEMMA Initially == Init => IInv
<1> SUFFICES ASSUME Init
             PROVE  IInv
  OBVIOUS
<1> USE RetriesAssumption DEF Init, Upload, Attempt
<1>1. TypeOK
  BY DEF TypeOK, Used
<1>2. \A u \in Upload : OnWire(u) = {} /\ Cardinality(OnWire(u)) = 0
  BY FS_EmptySet DEF OnWire
<1>3. PhaseInv /\ ReplyInv /\ ResultInv
  BY DEF PhaseInv, ReplyInv, ResultInv
<1>4. CountInv
  BY <1>2 DEF CountInv
<1>5. CopiesBounded
  BY <1>2 DEF CopiesBounded, OnWire
<1>6. OkMeansStored /\ RefusedLeavesNothing
  BY DEF OkMeansStored, RefusedLeavesNothing, NotRetried
<1> QED
  BY <1>1, <1>3, <1>4, <1>5, <1>6 DEF IInv

\* Every step keeps the inductive invariant.
LEMMA EveryStep == IInv /\ [Next]_vars => IInv'
<1> SUFFICES ASSUME IInv, [Next]_vars
             PROVE  IInv'
  OBVIOUS
<1>1. CASE Client
  BY <1>1, CheckFormatStep, CheckSizeStep, CheckFreeStep, SendStep, AnswerStep,
     GiveUpStep, AfterStep DEF Client
<1>2. ASSUME NEW r \in Upload \X Attempt, Store(r) \/ Refuse(r)
      PROVE  IInv'
  BY <1>2, StoreStep, RefuseStep
<1>3. ASSUME NEW n \in Names, Delete(n)
      PROVE  IInv'
  BY <1>3, DeleteStep
<1>4. CASE UNCHANGED vars
  BY <1>4 DEF vars, IInv, TypeOK, Used, PhaseInv, CountInv, OnWire, ReplyInv, ResultInv,
     CopiesBounded, OkMeansStored, RefusedLeavesNothing
<1> QED
  BY <1>1, <1>2, <1>3, <1>4 DEF Next

\* The inductive invariant holds of every behaviour.
THEOREM Inductive == Spec => []IInv
BY Initially, EveryStep, PTL DEF Spec

\* Every state is of its type: no upload is transmitted more often than allowed.
THEOREM TypeCorrect == Spec => []TypeOK
<1>1. IInv => TypeOK
  BY DEF IInv
<1> QED
  BY <1>1, Inductive, PTL

\* An upload that ends well was stored by the machine.
THEOREM StoredIfOk == Spec => []OkMeansStored
<1>1. IInv => OkMeansStored
  BY DEF IInv
<1> QED
  BY <1>1, Inductive, PTL

\* No upload is ever stored more often than it may be transmitted.
THEOREM AtMostOncePerAttempt == Spec => []CopiesBounded
<1>1. IInv => CopiesBounded
  BY DEF IInv
<1> QED
  BY <1>1, Inductive, PTL

\* A refused upload leaves no copy, then or later.
THEOREM RefusedIsNotStored == Spec => []RefusedLeavesNothing
<1>1. IInv => RefusedLeavesNothing
  BY DEF IInv
<1> QED
  BY <1>1, Inductive, PTL
================================================================================
