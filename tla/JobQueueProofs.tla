---------------------------- MODULE JobQueueProofs ----------------------------
(***************************************************************************)
(* The upload queue's safety for every number of jobs, calls and workers   *)
(* and every retention cap; that pruning forgets exactly what it should,   *)
(* and so that every step of the queue is a step of the abstract           *)
(* UploadService or none.                                                  *)
(***************************************************************************)
EXTENDS JobQueue, FiniteSetTheorems, WellFoundedInduction, TLAPS

\* Ids above the counter are nowhere; an id still being registered is neither
\* known nor sent.
IdInv ==
    /\ Known \cup allocated \cup unsent \cup InChannel \subseteq {j \in JobId : j < counter}
    /\ allocated \cap Known = {} /\ allocated \cap unsent = {}
    /\ allocated \cap InChannel = {}

\* At most one task owns the receiver, and none while it is in its Option; a
\* task holds a job exactly while it works on it.
WorkerInv ==
    /\ rx => Active = {}
    /\ \A v, w \in Active : v = w
    /\ \A w \in Workers : task[w] = NoJob <=> step[w] \in {"idle", "recv"}

\* What the record of a job says, by where the job is.
StateInv ==
    /\ \A j \in unsent \cup InChannel : j \in Known /\ records[j].state = "queued"
    /\ \A w \in Workers : step[w] = "begin" =>
          task[w] \in Known /\ records[task[w]].state = "queued"
    /\ \A w \in Workers : step[w] \in {"identify", "upload"} =>
          task[w] \in Known /\ records[task[w]].state = "uploading"

\* What may report after its attempt was left over by it.
StreamInv == streams \subseteq left

\* The inductive invariant: the four parts above and the properties that need
\* them.
IInv == /\ TypeOK /\ IdInv /\ WorkerInv /\ StateInv /\ StreamInv
        /\ HeldExactlyOnce /\ OrderMatchesRecords /\ DoneIsComplete

-----------------------------------------------------------------------------
(* How appending to and taking from the channel changes what is in it.     *)

\* Append adds the new element to the set of elements.
LEMMA AppendElements ==
    ASSUME NEW S, NEW s \in Seq(S), NEW e \in S
    PROVE  {Append(s, e)[i] : i \in DOMAIN Append(s, e)} = {s[i] : i \in DOMAIN s} \cup {e}
<1>1. /\ DOMAIN s = 1 .. Len(s) /\ Len(s) \in Nat
      /\ DOMAIN Append(s, e) = 1 .. (Len(s) + 1)
      /\ \A i \in 1 .. Len(s) : Append(s, e)[i] = s[i]
      /\ Append(s, e)[Len(s) + 1] = e
  OBVIOUS
<1>2. \A i \in 1 .. (Len(s) + 1) : i \in 1 .. Len(s) \/ i = Len(s) + 1
  BY <1>1
<1>3. {s[i] : i \in DOMAIN s} \cup {e} \subseteq {Append(s, e)[i] : i \in DOMAIN Append(s, e)}
  BY <1>1
<1>4. {Append(s, e)[i] : i \in DOMAIN Append(s, e)} \subseteq {s[i] : i \in DOMAIN s} \cup {e}
  BY <1>1, <1>2
<1> QED
  BY <1>3, <1>4

\* Taking the head of a sequence without repetition removes just that element.
LEMMA TailElements ==
    ASSUME NEW S, NEW s \in Seq(S), s # <<>>,
           \A a, b \in DOMAIN s : s[a] = s[b] => a = b
    PROVE  /\ Head(s) \in {s[i] : i \in DOMAIN s}
           /\ {Tail(s)[i] : i \in DOMAIN Tail(s)} = {s[i] : i \in DOMAIN s} \ {Head(s)}
           /\ \A a, b \in DOMAIN Tail(s) : Tail(s)[a] = Tail(s)[b] => a = b
<1>1. /\ DOMAIN s = 1 .. Len(s) /\ Len(s) \in Nat \ {0} /\ Head(s) = s[1]
      /\ DOMAIN Tail(s) = 1 .. (Len(s) - 1)
      /\ \A i \in 1 .. (Len(s) - 1) : Tail(s)[i] = s[i + 1]
  OBVIOUS
<1>2. \A i \in 1 .. Len(s) : i = 1 \/ (i - 1 \in 1 .. (Len(s) - 1) /\ Tail(s)[i - 1] = s[i])
  BY <1>1
<1>3. {s[i] : i \in DOMAIN s} \ {Head(s)} \subseteq {Tail(s)[i] : i \in DOMAIN Tail(s)}
  <2> SUFFICES ASSUME NEW k \in 1 .. Len(s), s[k] # Head(s)
               PROVE  \E i \in DOMAIN Tail(s) : Tail(s)[i] = s[k]
    BY <1>1
  <2>1. k - 1 \in 1 .. (Len(s) - 1) /\ Tail(s)[k - 1] = s[k]
    BY <1>1, <1>2
  <2> QED
    BY <1>1, <2>1
<1>4. \A i \in 1 .. (Len(s) - 1) : i + 1 \in DOMAIN s /\ 1 \in DOMAIN s /\ i + 1 # 1
  BY <1>1
<1>5. {Tail(s)[i] : i \in DOMAIN Tail(s)} \subseteq {s[i] : i \in DOMAIN s} \ {Head(s)}
  BY <1>1, <1>4
<1>6. \A a, b \in DOMAIN Tail(s) : Tail(s)[a] = Tail(s)[b] => a = b
  BY <1>1, <1>4
<1> QED
  BY <1>1, <1>3, <1>5, <1>6

-----------------------------------------------------------------------------
(* Pruning.                                                                *)

\* Registering keeps `order` a sequence of ids without repetition, listing
\* exactly the jobs that are known afterwards.
LEMMA RegisterOrder ==
    ASSUME TypeOK, IdInv, OrderMatchesRecords, NEW j \in JobId, Register(j)
    PROVE  order' \in Seq(JobId) /\ OrderMatchesRecords'
<1> DEFINE n == Cardinality(Retained)
<1>1. Retained \subseteq 1 .. Len(order) /\ Len(order) \in Nat /\ DOMAIN order = 1 .. Len(order)
  BY DEF Retained, TypeOK
<1>2. n \in Nat
  <2>1. IsFiniteSet(1 .. Len(order))
    BY <1>1, FS_Interval
  <2>2. IsFiniteSet(Retained)
    BY <1>1, <2>1, FS_Subset
  <2> QED
    BY <2>2, FS_CardinalityType DEF n
<1> HIDE DEF n
<1>3. PICK pos \in [1 .. n -> Retained] :
         /\ \A a, b \in 1 .. n : a < b => pos[a] < pos[b]
         /\ \A i \in Retained : \E a \in 1 .. n : pos[a] = i
         /\ order' = Append([a \in 1 .. n |-> order[pos[a]]], j)
  BY DEF Register, RetainThenPush, n
<1> DEFINE t == [a \in 1 .. n |-> order[pos[a]]]
<1>4. t \in Seq(JobId) /\ Len(t) = n /\ DOMAIN t = 1 .. n /\ \A a \in 1 .. n : t[a] = order[pos[a]]
  <2>1. \A i \in 1 .. Len(order) : order[i] \in JobId
    BY DEF TypeOK
  <2>2. \A a \in 1 .. n : pos[a] \in 1 .. Len(order)
    BY <1>1, <1>3
  <2>3. \A a \in 1 .. n : order[pos[a]] \in JobId
    BY <2>1, <2>2
  <2> QED
    BY <1>2, <2>3
<1>5. order' = Append(t, j)
  BY <1>3
<1>6. \A a, b \in 1 .. n : t[a] = t[b] => a = b
  <2> SUFFICES ASSUME NEW a \in 1 .. n, NEW b \in 1 .. n, t[a] = t[b]
               PROVE  a = b
    OBVIOUS
  <2>1. pos[a] \in Retained /\ pos[b] \in Retained
    BY <1>3
  <2>2. pos[a] = pos[b]
    BY <1>1, <1>4, <2>1 DEF OrderMatchesRecords
  <2>3. pos[a] \in Nat /\ pos[b] \in Nat
    <3>1. pos[a] \in 1 .. Len(order) /\ pos[b] \in 1 .. Len(order)
      BY <1>1, <2>1
    <3> QED
      BY <1>1, <3>1
  <2>4. ~(pos[a] < pos[b]) /\ ~(pos[b] < pos[a])
    BY <2>2, <2>3
  <2>5. ~(a < b) /\ ~(b < a)
    BY <1>3, <2>4
  <2> QED
    BY <1>2, <2>5
<1>7. {t[a] : a \in DOMAIN t} = {order[i] : i \in Retained}
  BY <1>3, <1>4
<1>8. {order[i] : i \in Retained} = Known \ {order[k] : k \in Dropped}
  BY <1>1 DEF OrderMatchesRecords, Retained, Dropped, FinishedUpTo
<1>9. Known' = (Known \ {order[k] : k \in Dropped}) \cup {j}
  BY DEF Register, Known
<1>10. j \notin Known
  BY DEF Register, IdInv
<1> HIDE DEF t
<1>11. order' \in Seq(JobId)
  BY <1>4, <1>5
<1>12. {order'[i] : i \in DOMAIN order'} = Known'
  BY <1>4, <1>5, <1>7, <1>8, <1>9, AppendElements
<1>13. \A a \in 1 .. n : t[a] # j
  BY <1>4, <1>7, <1>8, <1>10
<1>14. \A a, b \in DOMAIN order' : order'[a] = order'[b] => a = b
  BY <1>2, <1>4, <1>5, <1>6, <1>13
<1> QED
  BY <1>11, <1>12, <1>14 DEF OrderMatchesRecords

-----------------------------------------------------------------------------
(* One lemma per action.                                                   *)

\* The worker takes the head, and only the head, out of the channel.
LEMMA ReceiveTakesHead ==
    ASSUME TypeOK, HeldExactlyOnce, channel # <<>>, channel' = Tail(channel)
    PROVE  /\ Head(channel) \in InChannel
           /\ InChannel' = InChannel \ {Head(channel)}
           /\ \A a, b \in DOMAIN channel' : channel'[a] = channel'[b] => a = b
<1> DEFINE s == channel
<1>1. s \in Seq(JobId) /\ s # <<>> /\ channel' = Tail(s)
  BY DEF TypeOK
<1>2. \A a, b \in DOMAIN s : s[a] = s[b] => a = b
  BY DEF HeldExactlyOnce
<1>3. InChannel = {s[i] : i \in DOMAIN s} /\ InChannel' = {Tail(s)[i] : i \in DOMAIN Tail(s)}
  BY <1>1 DEF InChannel
<1> HIDE DEF s
<1>4. /\ Head(s) \in {s[i] : i \in DOMAIN s}
      /\ {Tail(s)[i] : i \in DOMAIN Tail(s)} = {s[i] : i \in DOMAIN s} \ {Head(s)}
      /\ \A a, b \in DOMAIN Tail(s) : Tail(s)[a] = Tail(s)[b] => a = b
  BY <1>1, <1>2, TailElements
<1> QED
  BY <1>1, <1>3, <1>4 DEF s

\* StartWorker keeps the inductive invariant.
LEMMA StartWorkerStep ==
    ASSUME IInv, NEW w \in Workers, StartWorker(w)
    PROVE  IInv'
<1> USE ConstantsAssumption DEF IInv, JobId, NoJob, JobState, JobRecord, Known
<1>1. TypeOK'
  BY DEF StartWorker, TypeOK
<1>2. IdInv'
  BY DEF StartWorker, TypeOK, IdInv, InChannel
<1>3. WorkerInv'
  BY DEF StartWorker, TypeOK, WorkerInv, Active
<1>4. StateInv'
  BY DEF StartWorker, TypeOK, IdInv, WorkerInv, StateInv, HeldExactlyOnce, InChannel, Running, Pending, Finished
<1>5. StreamInv'
  BY DEF StartWorker, TypeOK, IdInv, WorkerInv, StateInv, StreamInv, InChannel
<1>6. HeldExactlyOnce'
  <2>1. Pending' = Pending
    BY DEF StartWorker, TypeOK, StateInv, Pending, Finished
  <2>2. InChannel' = InChannel
    BY DEF StartWorker, InChannel
  <2>3. Running' = Running
    BY DEF StartWorker, TypeOK, WorkerInv, Running
  <2>4. \A a, b \in DOMAIN channel' : channel'[a] = channel'[b] => a = b
    BY DEF StartWorker, HeldExactlyOnce
  <2>5. \A v, u \in Workers : task'[v] = task'[u] => v = u \/ task'[v] = NoJob
    BY DEF StartWorker, TypeOK, HeldExactlyOnce
  <2> QED
    BY <2>1, <2>2, <2>3, <2>4, <2>5 DEF StartWorker, HeldExactlyOnce
<1>7. OrderMatchesRecords'
  BY DEF StartWorker, TypeOK, IdInv, OrderMatchesRecords
<1>8. DoneIsComplete'
  BY DEF StartWorker, TypeOK, IdInv, StateInv, StreamInv, WorkerInv, DoneIsComplete
<1> QED
  BY <1>1, <1>2, <1>3, <1>4, <1>5, <1>6, <1>7, <1>8 DEF IInv

\* Serve keeps the inductive invariant.
LEMMA ServeStep ==
    ASSUME IInv, Serve
    PROVE  IInv'
<1> USE ConstantsAssumption DEF IInv, JobId, NoJob, JobState, JobRecord, Known
<1>1. TypeOK'
  BY DEF Serve, TypeOK
<1>2. IdInv'
  BY DEF Serve, TypeOK, IdInv, InChannel
<1>3. WorkerInv'
  BY DEF Serve, TypeOK, WorkerInv, Active
<1>4. StateInv'
  BY DEF Serve, TypeOK, IdInv, WorkerInv, StateInv, HeldExactlyOnce, InChannel, Running, Pending, Finished
<1>5. StreamInv'
  BY DEF Serve, TypeOK, IdInv, WorkerInv, StateInv, StreamInv, InChannel
<1>6. HeldExactlyOnce'
  <2>1. Pending' = Pending
    BY DEF Serve, TypeOK, StateInv, Pending, Finished
  <2>2. InChannel' = InChannel
    BY DEF Serve, InChannel
  <2>3. Running' = Running
    BY DEF Serve, TypeOK, WorkerInv, Running
  <2>4. \A a, b \in DOMAIN channel' : channel'[a] = channel'[b] => a = b
    BY DEF Serve, HeldExactlyOnce
  <2>5. \A v, u \in Workers : task'[v] = task'[u] => v = u \/ task'[v] = NoJob
    BY DEF Serve, TypeOK, HeldExactlyOnce
  <2> QED
    BY <2>1, <2>2, <2>3, <2>4, <2>5 DEF Serve, HeldExactlyOnce
<1>7. OrderMatchesRecords'
  BY DEF Serve, TypeOK, IdInv, OrderMatchesRecords
<1>8. DoneIsComplete'
  BY DEF Serve, TypeOK, IdInv, StateInv, StreamInv, WorkerInv, DoneIsComplete
<1> QED
  BY <1>1, <1>2, <1>3, <1>4, <1>5, <1>6, <1>7, <1>8 DEF IInv

\* AllocateId keeps the inductive invariant.
LEMMA AllocateIdStep ==
    ASSUME IInv, AllocateId
    PROVE  IInv'
<1> USE ConstantsAssumption DEF IInv, JobId, NoJob, JobState, JobRecord, Known
<1>1. TypeOK'
  <2>1. counter \in JobId /\ counter + 1 \in 0 .. MaxJobs
    BY DEF AllocateId, TypeOK
  <2>2. earlier' \in [JobId -> SUBSET JobId]
    BY <2>1 DEF AllocateId, TypeOK, Sent
  <2> QED
    BY <2>1, <2>2 DEF AllocateId, TypeOK
<1>2. IdInv'
  BY DEF AllocateId, TypeOK, IdInv, InChannel
<1>3. WorkerInv'
  BY DEF AllocateId, TypeOK, WorkerInv, Active
<1>4. StateInv'
  BY DEF AllocateId, TypeOK, IdInv, WorkerInv, StateInv, HeldExactlyOnce, InChannel, Running, Pending, Finished
<1>5. StreamInv'
  BY DEF AllocateId, TypeOK, IdInv, WorkerInv, StateInv, StreamInv, InChannel
<1>6. HeldExactlyOnce'
  <2>1. Pending' = Pending
    BY DEF AllocateId, TypeOK, StateInv, Pending, Finished
  <2>2. InChannel' = InChannel
    BY DEF AllocateId, InChannel
  <2>3. Running' = Running
    BY DEF AllocateId, TypeOK, WorkerInv, Running
  <2>4. \A a, b \in DOMAIN channel' : channel'[a] = channel'[b] => a = b
    BY DEF AllocateId, HeldExactlyOnce
  <2>5. \A v, u \in Workers : task'[v] = task'[u] => v = u \/ task'[v] = NoJob
    BY DEF AllocateId, TypeOK, HeldExactlyOnce
  <2> QED
    BY <2>1, <2>2, <2>3, <2>4, <2>5 DEF AllocateId, HeldExactlyOnce
<1>7. OrderMatchesRecords'
  BY DEF AllocateId, TypeOK, IdInv, OrderMatchesRecords
<1>8. DoneIsComplete'
  BY DEF AllocateId, TypeOK, IdInv, StateInv, StreamInv, WorkerInv, DoneIsComplete
<1> QED
  BY <1>1, <1>2, <1>3, <1>4, <1>5, <1>6, <1>7, <1>8 DEF IInv

\* Register keeps the inductive invariant.
LEMMA RegisterStep ==
    ASSUME IInv, NEW j \in JobId, Register(j)
    PROVE  IInv'
<1> USE ConstantsAssumption DEF IInv, JobId, NoJob, JobState, JobRecord, Known
<1>d. {order[k] : k \in Dropped} \subseteq Finished
  BY DEF Dropped, FinishedUpTo
<1>1. TypeOK'
  <2>1. order' \in Seq(JobId)
    BY RegisterOrder
  <2>2. Known' \subseteq JobId /\ records' \in [Known' -> JobRecord]
    BY DEF Register, TypeOK
  <2> QED
    BY <2>1, <2>2 DEF Register, TypeOK
<1>2. IdInv'
  BY DEF Register, TypeOK, IdInv, InChannel
<1>3. WorkerInv'
  BY DEF Register, TypeOK, WorkerInv, Active
<1>4. StateInv'
  <2>1. \A i \in Known : records[i].state \in {"queued", "uploading"} =>
            i \in Known' /\ i # j /\ records'[i] = records[i]
    BY <1>d DEF Register, IdInv, Finished
  <2>2. j \in Known' /\ records'[j].state = "queued"
    BY DEF Register
  <2>3. unsent' = unsent \cup {j} /\ InChannel' = InChannel
    BY DEF Register, InChannel
  <2>4. step' = step /\ task' = task
    BY DEF Register
  <2>5. \A i \in (unsent \cup InChannel)' : i \in Known' /\ records'[i].state = "queued"
    BY <2>1, <2>2, <2>3 DEF StateInv
  <2>6. \A w \in Workers : step'[w] = "begin" =>
            task'[w] \in Known' /\ records'[task'[w]].state = "queued"
    BY <2>1, <2>4 DEF StateInv
  <2>7. \A w \in Workers : step'[w] \in {"identify", "upload"} =>
            task'[w] \in Known' /\ records'[task'[w]].state = "uploading"
    BY <2>1, <2>4 DEF StateInv
  <2> QED
    BY <2>5, <2>6, <2>7 DEF StateInv
<1>5. StreamInv'
  BY DEF Register, TypeOK, IdInv, WorkerInv, StateInv, StreamInv, InChannel
<1>6. HeldExactlyOnce'
  <2>1. Pending' = Pending \cup {j}
    BY <1>d DEF Register, TypeOK, IdInv, Pending, Finished
  <2>2. InChannel' = InChannel
    BY DEF Register, InChannel
  <2>3. Running' = Running
    BY DEF Register, TypeOK, WorkerInv, Running
  <2>4. \A a, b \in DOMAIN channel' : channel'[a] = channel'[b] => a = b
    BY DEF Register, HeldExactlyOnce
  <2>5. \A v, u \in Workers : task'[v] = task'[u] => v = u \/ task'[v] = NoJob
    BY DEF Register, TypeOK, HeldExactlyOnce
  <2> QED
    <3>1. j \notin Pending /\ unsent' = unsent \cup {j}
      BY DEF Register, IdInv, Pending
    <3>2. j \notin InChannel /\ j \notin Running
      BY <3>1 DEF HeldExactlyOnce
    <3> QED
      BY <2>1, <2>2, <2>3, <2>4, <2>5, <3>1, <3>2 DEF HeldExactlyOnce
<1>7. OrderMatchesRecords'
  BY RegisterOrder DEF OrderMatchesRecords
<1>8. DoneIsComplete'
  BY DEF Register, TypeOK, IdInv, StateInv, StreamInv, WorkerInv, DoneIsComplete
<1> QED
  BY <1>1, <1>2, <1>3, <1>4, <1>5, <1>6, <1>7, <1>8 DEF IInv

\* Send keeps the inductive invariant.
LEMMA SendStep ==
    ASSUME IInv, NEW j \in JobId, Send(j)
    PROVE  IInv'
<1> USE ConstantsAssumption DEF IInv, JobId, NoJob, JobState, JobRecord, Known
<1>1. TypeOK'
  BY DEF Send, TypeOK
<1>2. IdInv'
  BY DEF Send, TypeOK, IdInv, InChannel
<1>3. WorkerInv'
  BY DEF Send, TypeOK, WorkerInv, Active
<1>4. StateInv'
  BY DEF Send, TypeOK, IdInv, WorkerInv, StateInv, HeldExactlyOnce, InChannel, Running, Pending, Finished
<1>5. StreamInv'
  BY DEF Send, TypeOK, IdInv, WorkerInv, StateInv, StreamInv, InChannel
<1>6. HeldExactlyOnce'
  <2>1. Pending' = Pending
    BY DEF Send, TypeOK, StateInv, Pending, Finished
  <2>2. InChannel' = InChannel \cup {j}
    <3>1. channel \in Seq(JobId) /\ channel' = Append(channel, j)
      BY DEF Send, TypeOK
    <3>2. {Append(channel, j)[i] : i \in DOMAIN Append(channel, j)}
              = {channel[i] : i \in DOMAIN channel} \cup {j}
      BY <3>1, AppendElements
    <3> QED
      BY <3>1, <3>2 DEF InChannel
  <2>3. Running' = Running
    BY DEF Send, TypeOK, WorkerInv, Running
  <2>4. \A a, b \in DOMAIN channel' : channel'[a] = channel'[b] => a = b
    <3>1. \A a \in DOMAIN channel : channel[a] # j
      BY DEF Send, InChannel, HeldExactlyOnce
    <3> QED
      BY <3>1 DEF Send, TypeOK, HeldExactlyOnce
  <2>5. \A v, u \in Workers : task'[v] = task'[u] => v = u \/ task'[v] = NoJob
    BY DEF Send, TypeOK, HeldExactlyOnce
  <2> QED
    BY <2>1, <2>2, <2>3, <2>4, <2>5 DEF Send, HeldExactlyOnce
<1>7. OrderMatchesRecords'
  BY DEF Send, TypeOK, IdInv, OrderMatchesRecords
<1>8. DoneIsComplete'
  BY DEF Send, TypeOK, IdInv, StateInv, StreamInv, WorkerInv, DoneIsComplete
<1> QED
  BY <1>1, <1>2, <1>3, <1>4, <1>5, <1>6, <1>7, <1>8 DEF IInv

\* Receive keeps the inductive invariant.
LEMMA ReceiveStep ==
    ASSUME IInv, NEW w \in Workers, Receive(w)
    PROVE  IInv'
<1> USE ConstantsAssumption DEF IInv, JobId, NoJob, JobState, JobRecord, Known
<1>t. /\ Head(channel) \in InChannel
      /\ InChannel' = InChannel \ {Head(channel)}
      /\ \A a, b \in DOMAIN channel' : channel'[a] = channel'[b] => a = b
  BY ReceiveTakesHead DEF Receive
<1>1. TypeOK'
  BY DEF Receive, TypeOK
<1>2. IdInv'
  BY <1>t DEF Receive, TypeOK, IdInv
<1>3. WorkerInv'
  BY DEF Receive, TypeOK, WorkerInv, Active
<1>4. StateInv'
  <2>1. /\ records' = records /\ Known' = Known /\ unsent' = unsent
        /\ task' = [task EXCEPT ![w] = Head(channel)]
        /\ step' = [step EXCEPT ![w] = "begin"]
    BY DEF Receive
  <2>2. Head(channel) \in Known /\ records[Head(channel)].state = "queued"
    BY <1>t DEF StateInv
  <2>3. \A v \in Workers : v # w => task'[v] = task[v] /\ step'[v] = step[v]
    BY <2>1 DEF TypeOK
  <2>4. task'[w] = Head(channel) /\ step'[w] = "begin"
    BY <2>1 DEF TypeOK
  <2> QED
    BY <1>t, <2>1, <2>2, <2>3, <2>4 DEF StateInv
<1>5. StreamInv'
  BY DEF Receive, TypeOK, IdInv, WorkerInv, StateInv, StreamInv, InChannel
<1>6. HeldExactlyOnce'
  <2>1. Pending' = Pending
    BY DEF Receive, TypeOK, StateInv, Pending, Finished
  <2>2. InChannel' = InChannel \ {Head(channel)}
    BY <1>t
  <2>3. Running' = Running \cup {Head(channel)}
    BY <1>t DEF Receive, TypeOK, WorkerInv, Running
  <2>4. \A a, b \in DOMAIN channel' : channel'[a] = channel'[b] => a = b
    BY <1>t
  <2>5. \A v, u \in Workers : task'[v] = task'[u] => v = u \/ task'[v] = NoJob
    BY <1>t DEF Receive, TypeOK, WorkerInv, HeldExactlyOnce, Running
  <2> QED
    BY <1>t, <2>1, <2>2, <2>3, <2>4, <2>5 DEF Receive, HeldExactlyOnce
<1>7. OrderMatchesRecords'
  BY DEF Receive, TypeOK, IdInv, OrderMatchesRecords
<1>8. DoneIsComplete'
  BY DEF Receive, TypeOK, IdInv, StateInv, StreamInv, WorkerInv, DoneIsComplete
<1> QED
  BY <1>1, <1>2, <1>3, <1>4, <1>5, <1>6, <1>7, <1>8 DEF IInv

\* Begin keeps the inductive invariant.
LEMMA BeginStep ==
    ASSUME IInv, NEW w \in Workers, Begin(w)
    PROVE  IInv'
<1> USE ConstantsAssumption DEF IInv, JobId, NoJob, JobState, JobRecord, Known
<1>1. TypeOK'
  BY DEF Begin, TypeOK, Update
<1>2. IdInv'
  BY DEF Begin, TypeOK, IdInv, InChannel, Update
<1>3. WorkerInv'
  BY DEF Begin, TypeOK, WorkerInv, Active, Update
<1>4. StateInv'
  <2>1. \A i \in unsent \cup InChannel : i # task[w]
    BY DEF Begin, TypeOK, WorkerInv, HeldExactlyOnce, Running
  <2>2. \A v \in Workers : step[v] \in {"begin", "identify", "upload"} => v = w
    BY DEF Begin, WorkerInv, Active
  <2>3. (unsent \cup InChannel)' = unsent \cup InChannel
    BY DEF Begin, InChannel
  <2> QED
    BY <2>1, <2>2, <2>3 DEF Begin, Update, TypeOK, StateInv
<1>5. StreamInv'
  BY DEF Begin, TypeOK, IdInv, WorkerInv, StateInv, StreamInv, InChannel, Update
<1>6. HeldExactlyOnce'
  <2>1. Pending' = Pending
    BY DEF Begin, TypeOK, StateInv, Pending, Finished, Update
  <2>2. InChannel' = InChannel
    BY DEF Begin, InChannel
  <2>3. Running' = Running
    BY DEF Begin, TypeOK, WorkerInv, Running
  <2>4. \A a, b \in DOMAIN channel' : channel'[a] = channel'[b] => a = b
    BY DEF Begin, HeldExactlyOnce
  <2>5. \A v, u \in Workers : task'[v] = task'[u] => v = u \/ task'[v] = NoJob
    BY DEF Begin, TypeOK, HeldExactlyOnce
  <2> QED
    BY <2>1, <2>2, <2>3, <2>4, <2>5 DEF Begin, HeldExactlyOnce
<1>7. OrderMatchesRecords'
  BY DEF Begin, TypeOK, IdInv, OrderMatchesRecords, Update
<1>8. DoneIsComplete'
  BY DEF Begin, TypeOK, IdInv, StateInv, StreamInv, WorkerInv, DoneIsComplete, Update
<1> QED
  BY <1>1, <1>2, <1>3, <1>4, <1>5, <1>6, <1>7, <1>8 DEF IInv

\* Identified keeps the inductive invariant.
LEMMA IdentifiedStep ==
    ASSUME IInv, NEW w \in Workers, Identified(w)
    PROVE  IInv'
<1> USE ConstantsAssumption DEF IInv, JobId, NoJob, JobState, JobRecord, Known
<1>1. TypeOK'
  BY DEF Identified, TypeOK, WorkerInv
<1>2. IdInv'
  BY DEF Identified, TypeOK, IdInv, InChannel
<1>3. WorkerInv'
  BY DEF Identified, TypeOK, WorkerInv, Active
<1>4. StateInv'
  BY DEF Identified, TypeOK, IdInv, WorkerInv, StateInv, HeldExactlyOnce, InChannel, Running, Pending, Finished
<1>5. StreamInv'
  BY DEF Identified, TypeOK, IdInv, WorkerInv, StateInv, StreamInv, InChannel
<1>6. HeldExactlyOnce'
  <2>1. Pending' = Pending
    BY DEF Identified, TypeOK, StateInv, Pending, Finished
  <2>2. InChannel' = InChannel
    BY DEF Identified, InChannel
  <2>3. Running' = Running
    BY DEF Identified, TypeOK, WorkerInv, Running
  <2>4. \A a, b \in DOMAIN channel' : channel'[a] = channel'[b] => a = b
    BY DEF Identified, HeldExactlyOnce
  <2>5. \A v, u \in Workers : task'[v] = task'[u] => v = u \/ task'[v] = NoJob
    BY DEF Identified, TypeOK, HeldExactlyOnce
  <2> QED
    BY <2>1, <2>2, <2>3, <2>4, <2>5 DEF Identified, HeldExactlyOnce
<1>7. OrderMatchesRecords'
  BY DEF Identified, TypeOK, IdInv, OrderMatchesRecords
<1>8. DoneIsComplete'
  BY DEF Identified, TypeOK, IdInv, StateInv, StreamInv, WorkerInv, DoneIsComplete
<1> QED
  BY <1>1, <1>2, <1>3, <1>4, <1>5, <1>6, <1>7, <1>8 DEF IInv

\* Progress keeps the inductive invariant.
LEMMA ProgressStep ==
    ASSUME IInv, NEW j \in JobId, NEW n \in 0 .. Size, Progress(j, n)
    PROVE  IInv'
<1> USE ConstantsAssumption DEF IInv, JobId, NoJob, JobState, JobRecord, Known
<1>1. TypeOK'
  BY DEF Progress, Attempted, TypeOK, Update
<1>2. IdInv'
  BY DEF Progress, Attempted, TypeOK, IdInv, InChannel, Update
<1>3. WorkerInv'
  BY DEF Progress, Attempted, TypeOK, WorkerInv, Active, Update
<1>4. StateInv'
  BY DEF Progress, Attempted, TypeOK, IdInv, WorkerInv, StateInv, HeldExactlyOnce, InChannel, Running, Pending, Finished, Update
<1>5. StreamInv'
  BY DEF Progress, Attempted, TypeOK, IdInv, WorkerInv, StateInv, StreamInv, InChannel, Update
<1>6. HeldExactlyOnce'
  <2>1. Pending' = Pending
    BY DEF Progress, Attempted, TypeOK, StateInv, Pending, Finished, Update
  <2>2. InChannel' = InChannel
    BY DEF Progress, Attempted, InChannel
  <2>3. Running' = Running
    BY DEF Progress, Attempted, TypeOK, WorkerInv, Running
  <2>4. \A a, b \in DOMAIN channel' : channel'[a] = channel'[b] => a = b
    BY DEF Progress, Attempted, HeldExactlyOnce
  <2>5. \A v, u \in Workers : task'[v] = task'[u] => v = u \/ task'[v] = NoJob
    BY DEF Progress, Attempted, TypeOK, HeldExactlyOnce
  <2> QED
    BY <2>1, <2>2, <2>3, <2>4, <2>5 DEF Progress, HeldExactlyOnce
<1>7. OrderMatchesRecords'
  BY DEF Progress, Attempted, TypeOK, IdInv, OrderMatchesRecords, Update
<1>8. DoneIsComplete'
  BY DEF Progress, Attempted, TypeOK, IdInv, StateInv, StreamInv, WorkerInv, DoneIsComplete, Update
<1> QED
  BY <1>1, <1>2, <1>3, <1>4, <1>5, <1>6, <1>7, <1>8 DEF IInv

\* Retry keeps the inductive invariant.
LEMMA RetryStep ==
    ASSUME IInv, NEW w \in Workers, Retry(w)
    PROVE  IInv'
<1> USE ConstantsAssumption DEF IInv, JobId, NoJob, JobState, JobRecord, Known
<1>1. TypeOK'
  <2>1. task[w] \in JobId
    BY DEF Retry, TypeOK, WorkerInv
  <2>2. streams' \subseteq JobId /\ left' \subseteq JobId
    BY <2>1 DEF Retry, AttemptFailed, TypeOK
  <2>3. Known' = Known /\ records' \in [Known -> JobRecord]
    BY <2>1 DEF Retry, TypeOK, Update
  <2> QED
    BY <2>2, <2>3 DEF Retry, TypeOK
<1>2. IdInv'
  BY DEF Retry, AttemptFailed, TypeOK, IdInv, InChannel, Update
<1>3. WorkerInv'
  BY DEF Retry, AttemptFailed, TypeOK, WorkerInv, Active, Update
<1>4. StateInv'
  BY DEF Retry, AttemptFailed, TypeOK, IdInv, WorkerInv, StateInv, HeldExactlyOnce, InChannel, Running, Pending, Finished, Update
<1>5. StreamInv'
  BY DEF Retry, AttemptFailed, TypeOK, IdInv, WorkerInv, StateInv, StreamInv, InChannel, Update
<1>6. HeldExactlyOnce'
  <2>1. Pending' = Pending
    BY DEF Retry, AttemptFailed, TypeOK, StateInv, Pending, Finished, Update
  <2>2. InChannel' = InChannel
    BY DEF Retry, AttemptFailed, InChannel
  <2>3. Running' = Running
    BY DEF Retry, AttemptFailed, TypeOK, WorkerInv, Running
  <2>4. \A a, b \in DOMAIN channel' : channel'[a] = channel'[b] => a = b
    BY DEF Retry, AttemptFailed, HeldExactlyOnce
  <2>5. \A v, u \in Workers : task'[v] = task'[u] => v = u \/ task'[v] = NoJob
    BY DEF Retry, AttemptFailed, TypeOK, HeldExactlyOnce
  <2> QED
    BY <2>1, <2>2, <2>3, <2>4, <2>5 DEF Retry, HeldExactlyOnce
<1>7. OrderMatchesRecords'
  BY DEF Retry, AttemptFailed, TypeOK, IdInv, OrderMatchesRecords, Update
<1>8. DoneIsComplete'
  BY DEF Retry, AttemptFailed, TypeOK, IdInv, StateInv, StreamInv, WorkerInv, DoneIsComplete, Update
<1> QED
  BY <1>1, <1>2, <1>3, <1>4, <1>5, <1>6, <1>7, <1>8 DEF IInv

\* Finish keeps the inductive invariant.
LEMMA FinishStep ==
    ASSUME IInv, NEW w \in Workers, Finish(w)
    PROVE  IInv'
<1> USE ConstantsAssumption DEF IInv, JobId, NoJob, JobState, JobRecord, Known
<1>1. TypeOK'
  BY DEF Finish, Ending, TypeOK, Update
<1>2. IdInv'
  BY DEF Finish, Ending, TypeOK, IdInv, InChannel, Update
<1>3. WorkerInv'
  BY DEF Finish, Ending, TypeOK, WorkerInv, Active, Update
<1>4. StateInv'
  BY DEF Finish, Ending, TypeOK, IdInv, WorkerInv, StateInv, HeldExactlyOnce, InChannel, Running, Pending, Finished, Update
<1>5. StreamInv'
  BY DEF Finish, Ending, TypeOK, IdInv, WorkerInv, StateInv, StreamInv, InChannel, Update
<1>6. HeldExactlyOnce'
  <2>1. Pending' = Pending \ {task[w]}
    BY DEF Finish, Ending, TypeOK, StateInv, Pending, Finished, Update
  <2>2. InChannel' = InChannel
    BY DEF Finish, Ending, InChannel
  <2>3. Running' = Running \ {task[w]}
    BY DEF Finish, Ending, TypeOK, WorkerInv, HeldExactlyOnce, Running
  <2>4. \A a, b \in DOMAIN channel' : channel'[a] = channel'[b] => a = b
    BY DEF Finish, Ending, HeldExactlyOnce
  <2>5. \A v, u \in Workers : task'[v] = task'[u] => v = u \/ task'[v] = NoJob
    BY DEF Finish, Ending, TypeOK, HeldExactlyOnce
  <2> QED
    <3>1. task[w] \in Running
      BY DEF Finish, Ending, TypeOK, WorkerInv, Running
    <3>2. unsent' = unsent /\ task[w] \notin unsent /\ task[w] \notin InChannel
      BY <3>1 DEF Finish, Ending, HeldExactlyOnce
    <3> QED
      BY <2>1, <2>2, <2>3, <2>4, <2>5, <3>2 DEF HeldExactlyOnce
<1>7. OrderMatchesRecords'
  BY DEF Finish, Ending, TypeOK, IdInv, OrderMatchesRecords, Update
<1>8. DoneIsComplete'
  BY DEF Finish, Ending, TypeOK, IdInv, StateInv, StreamInv, WorkerInv, DoneIsComplete, Update
<1> QED
  BY <1>1, <1>2, <1>3, <1>4, <1>5, <1>6, <1>7, <1>8 DEF IInv

\* Fail keeps the inductive invariant.
LEMMA FailStep ==
    ASSUME IInv, NEW w \in Workers, Fail(w)
    PROVE  IInv'
<1> USE ConstantsAssumption DEF IInv, JobId, NoJob, JobState, JobRecord, Known
<1>1. TypeOK'
  <2>1. task[w] \in JobId
    BY DEF Fail, Ending, TypeOK, WorkerInv
  <2>2. streams' \subseteq JobId /\ left' \subseteq JobId
    BY <2>1 DEF Fail, Ending, AttemptFailed, TypeOK
  <2>3. Known' = Known /\ records' \in [Known -> JobRecord]
    BY <2>1 DEF Fail, Ending, TypeOK, Update
  <2> QED
    BY <2>2, <2>3 DEF Fail, Ending, TypeOK
<1>2. IdInv'
  BY DEF Fail, Ending, AttemptFailed, TypeOK, IdInv, InChannel, Update
<1>3. WorkerInv'
  BY DEF Fail, Ending, AttemptFailed, TypeOK, WorkerInv, Active, Update
<1>4. StateInv'
  BY DEF Fail, Ending, AttemptFailed, TypeOK, IdInv, WorkerInv, StateInv, HeldExactlyOnce, InChannel, Running, Pending, Finished, Update
<1>5. StreamInv'
  BY DEF Fail, Ending, AttemptFailed, TypeOK, IdInv, WorkerInv, StateInv, StreamInv, InChannel, Update
<1>6. HeldExactlyOnce'
  <2>1. Pending' = Pending \ {task[w]}
    BY DEF Fail, Ending, AttemptFailed, TypeOK, StateInv, Pending, Finished, Update
  <2>2. InChannel' = InChannel
    BY DEF Fail, Ending, AttemptFailed, InChannel
  <2>3. Running' = Running \ {task[w]}
    BY DEF Fail, Ending, AttemptFailed, TypeOK, WorkerInv, HeldExactlyOnce, Running
  <2>4. \A a, b \in DOMAIN channel' : channel'[a] = channel'[b] => a = b
    BY DEF Fail, Ending, AttemptFailed, HeldExactlyOnce
  <2>5. \A v, u \in Workers : task'[v] = task'[u] => v = u \/ task'[v] = NoJob
    BY DEF Fail, Ending, AttemptFailed, TypeOK, HeldExactlyOnce
  <2> QED
    <3>1. task[w] \in Running
      BY DEF Fail, Ending, AttemptFailed, TypeOK, WorkerInv, Running
    <3>2. unsent' = unsent /\ task[w] \notin unsent /\ task[w] \notin InChannel
      BY <3>1 DEF Fail, Ending, AttemptFailed, HeldExactlyOnce
    <3> QED
      BY <2>1, <2>2, <2>3, <2>4, <2>5, <3>2 DEF HeldExactlyOnce
<1>7. OrderMatchesRecords'
  BY DEF Fail, Ending, AttemptFailed, TypeOK, IdInv, OrderMatchesRecords, Update
<1>8. DoneIsComplete'
  BY DEF Fail, Ending, AttemptFailed, TypeOK, IdInv, StateInv, StreamInv, WorkerInv, DoneIsComplete, Update
<1> QED
  BY <1>1, <1>2, <1>3, <1>4, <1>5, <1>6, <1>7, <1>8 DEF IInv

\* DropStream keeps the inductive invariant.
LEMMA DropStreamStep ==
    ASSUME IInv, NEW j \in JobId, DropStream(j)
    PROVE  IInv'
<1> USE ConstantsAssumption DEF IInv, JobId, NoJob, JobState, JobRecord, Known
<1>1. TypeOK'
  BY DEF DropStream, TypeOK
<1>2. IdInv'
  BY DEF DropStream, TypeOK, IdInv, InChannel
<1>3. WorkerInv'
  BY DEF DropStream, TypeOK, WorkerInv, Active
<1>4. StateInv'
  BY DEF DropStream, TypeOK, IdInv, WorkerInv, StateInv, HeldExactlyOnce, InChannel, Running, Pending, Finished
<1>5. StreamInv'
  BY DEF DropStream, TypeOK, IdInv, WorkerInv, StateInv, StreamInv, InChannel
<1>6. HeldExactlyOnce'
  <2>1. Pending' = Pending
    BY DEF DropStream, TypeOK, StateInv, Pending, Finished
  <2>2. InChannel' = InChannel
    BY DEF DropStream, InChannel
  <2>3. Running' = Running
    BY DEF DropStream, TypeOK, WorkerInv, Running
  <2>4. \A a, b \in DOMAIN channel' : channel'[a] = channel'[b] => a = b
    BY DEF DropStream, HeldExactlyOnce
  <2>5. \A v, u \in Workers : task'[v] = task'[u] => v = u \/ task'[v] = NoJob
    BY DEF DropStream, TypeOK, HeldExactlyOnce
  <2> QED
    BY <2>1, <2>2, <2>3, <2>4, <2>5 DEF DropStream, HeldExactlyOnce
<1>7. OrderMatchesRecords'
  BY DEF DropStream, TypeOK, IdInv, OrderMatchesRecords
<1>8. DoneIsComplete'
  BY DEF DropStream, TypeOK, IdInv, StateInv, StreamInv, WorkerInv, DoneIsComplete
<1> QED
  BY <1>1, <1>2, <1>3, <1>4, <1>5, <1>6, <1>7, <1>8 DEF IInv

-----------------------------------------------------------------------------
(* First in, first out, between sends that do not overlap.                 *)

\* What was sent before an id was taken stays sent, and stands before that job
\* wherever the two are.
FifoInv ==
    /\ \A k \in JobId : k < counter => earlier[k] \subseteq Sent
    /\ \A i \in DOMAIN channel : \A e \in earlier[channel[i]] :
          e \in Received \/ \E h \in DOMAIN channel : h < i /\ channel[h] = e
    /\ RealTimeFIFO

\* Send: the new job goes behind everything that was sent before.
LEMMA FifoSend ==
    ASSUME IInv, FifoInv, NEW j \in JobId, Send(j)
    PROVE  FifoInv'
<1> USE ConstantsAssumption DEF JobId, NoJob
<1>1. /\ j < counter /\ j \notin Sent
      /\ Sent' = Sent \cup {j} /\ counter' = counter /\ earlier' = earlier
  BY DEF IInv, TypeOK, IdInv, Send, Sent
<1>2. /\ channel \in Seq(JobId) /\ channel' = Append(channel, j) /\ Len(channel) \in Nat
      /\ DOMAIN channel = 1 .. Len(channel) /\ DOMAIN channel' = 1 .. (Len(channel) + 1)
      /\ \A i \in DOMAIN channel : channel'[i] = channel[i]
      /\ channel'[Len(channel) + 1] = j
  BY DEF IInv, TypeOK, Send
<1>3. InChannel' = InChannel \cup {j}
  <2>1. {Append(channel, j)[i] : i \in DOMAIN Append(channel, j)}
            = {channel[i] : i \in DOMAIN channel} \cup {j}
    BY <1>2, AppendElements
  <2> QED
    BY <1>2, <2>1 DEF InChannel
<1>4. Received' = Received
  BY <1>1, <1>3 DEF Received
<1>5. \A k \in JobId : k < counter' => earlier'[k] \subseteq Sent'
  BY <1>1 DEF FifoInv
<1>6. \A i \in DOMAIN channel' : \A e \in earlier'[channel'[i]] :
         e \in Received' \/ \E h \in DOMAIN channel' : h < i /\ channel'[h] = e
  <2> SUFFICES ASSUME NEW i \in DOMAIN channel', NEW e \in earlier[channel'[i]], e \notin Received
               PROVE  \E h \in DOMAIN channel' : h < i /\ channel'[h] = e
    BY <1>1, <1>4
  <2>1. CASE i \in DOMAIN channel
    BY <1>2, <2>1 DEF FifoInv
  <2>2. CASE i = Len(channel) + 1
    <3>1. e \in Sent
      BY <1>1, <1>2, <2>2 DEF FifoInv
    <3>2. e \in InChannel
      BY <3>1 DEF Received
    <3>3. PICK h \in DOMAIN channel : channel[h] = e
      BY <3>2 DEF InChannel
    <3> QED
      BY <1>2, <2>2, <3>3
  <2> QED
    BY <1>2, <2>1, <2>2
<1>7. RealTimeFIFO'
  BY <1>1, <1>4 DEF FifoInv, RealTimeFIFO
<1> QED
  BY <1>5, <1>6, <1>7 DEF FifoInv

\* Receive: what stood before the head of the channel has been received.
LEMMA FifoReceive ==
    ASSUME IInv, FifoInv, NEW w \in Workers, Receive(w)
    PROVE  FifoInv'
<1> USE ConstantsAssumption DEF JobId, NoJob
<1> DEFINE j == Head(channel)
<1>1. /\ channel \in Seq(JobId) /\ channel # <<>> /\ channel' = Tail(channel)
      /\ Len(channel) \in Nat \ {0} /\ j = channel[1] /\ j \in JobId
      /\ DOMAIN channel = 1 .. Len(channel) /\ DOMAIN channel' = 1 .. (Len(channel) - 1)
      /\ \A i \in DOMAIN channel' : i + 1 \in DOMAIN channel /\ channel'[i] = channel[i + 1]
  BY DEF IInv, TypeOK, Receive
<1>2. Sent' = Sent /\ counter' = counter /\ earlier' = earlier
  BY DEF Receive, Sent
<1>3. InChannel' = InChannel \ {j} /\ j \in InChannel
  BY <1>1, ReceiveTakesHead DEF IInv
<1>4. j \in Sent
  BY <1>1, <1>3 DEF IInv, IdInv, TypeOK, Sent, HeldExactlyOnce
<1> HIDE DEF j
<1>5. Received' = Received \cup {j}
  BY <1>2, <1>3, <1>4 DEF Received
<1>6. \A i \in DOMAIN channel' : \A e \in earlier'[channel'[i]] :
         e \in Received' \/ \E h \in DOMAIN channel' : h < i /\ channel'[h] = e
  <2> SUFFICES ASSUME NEW i \in DOMAIN channel', NEW e \in earlier[channel[i + 1]], e \notin Received'
               PROVE  \E h \in DOMAIN channel' : h < i /\ channel'[h] = e
    BY <1>1, <1>2
  <2>1. PICK h \in DOMAIN channel : h < i + 1 /\ channel[h] = e
    BY <1>1, <1>5 DEF FifoInv
  <2>2. h # 1
    BY <1>1, <1>5, <2>1
  <2>3. h - 1 \in DOMAIN channel' /\ h - 1 < i /\ (h - 1) + 1 = h
    BY <1>1, <2>1, <2>2
  <2>4. channel'[h - 1] = e
    BY <1>1, <2>1, <2>3
  <2> QED
    BY <2>3, <2>4
<1>7. earlier[j] \subseteq Received
  <2>1. 1 \in DOMAIN channel /\ ~ \E h \in DOMAIN channel : h < 1
    BY <1>1
  <2> QED
    BY <1>1, <2>1 DEF FifoInv
<1>8. RealTimeFIFO'
  BY <1>2, <1>5, <1>7 DEF FifoInv, RealTimeFIFO
<1> QED
  BY <1>2, <1>6, <1>8 DEF FifoInv

\* The other steps leave the set of sent jobs and the channel as they are.
LEMMA FifoOther ==
    ASSUME IInv, FifoInv, Sent' = Sent, channel' = channel,
           \/ counter' = counter /\ earlier' = earlier
           \/ AllocateId
    PROVE  FifoInv'
<1> USE ConstantsAssumption DEF JobId, NoJob
<1>1. Received' = Received /\ InChannel' = InChannel
  BY DEF Received, InChannel
<1>2. \A k \in JobId : (k < counter \/ k \in Received \cup InChannel) => earlier'[k] = earlier[k]
  BY DEF IInv, TypeOK, AllocateId, Received, Sent, IdInv
<1>3. \A k \in JobId : k < counter' => earlier'[k] \subseteq Sent'
  BY <1>2 DEF IInv, TypeOK, FifoInv, AllocateId
<1>4. \A i \in DOMAIN channel : channel[i] \in InChannel /\ channel[i] \in JobId
  BY DEF IInv, TypeOK, InChannel
<1>5. \A i \in DOMAIN channel' : \A e \in earlier'[channel'[i]] :
         e \in Received' \/ \E h \in DOMAIN channel' : h < i /\ channel'[h] = e
  BY <1>1, <1>2, <1>4 DEF FifoInv
<1>6. RealTimeFIFO'
  BY <1>1, <1>2 DEF FifoInv, RealTimeFIFO, Received, Sent
<1> QED
  BY <1>3, <1>5, <1>6 DEF FifoInv

-----------------------------------------------------------------------------
(* The theorems.                                                           *)

\* The invariant holds initially.
LEMMA InitEstablishes == Init => IInv /\ FifoInv
<1> SUFFICES ASSUME Init PROVE IInv /\ FifoInv
  OBVIOUS
<1> USE ConstantsAssumption DEF Init, JobId, NoJob, Known
<1>1. TypeOK
  <2>1. Known = {} /\ records \in [Known -> JobRecord]
    OBVIOUS
  <2>2. order \in Seq(JobId) /\ channel \in Seq(JobId)
    OBVIOUS
  <2>3. /\ step \in [Workers -> {"idle", "recv", "begin", "identify", "upload"}]
        /\ task \in [Workers -> JobId \cup {NoJob}]
        /\ earlier \in [JobId -> SUBSET JobId]
    OBVIOUS
  <2>4. counter \in 0 .. MaxJobs /\ Known \subseteq JobId
    BY <2>1
  <2>5. rx \in BOOLEAN /\ serving \in BOOLEAN
    OBVIOUS
  <2>6. allocated \subseteq JobId /\ unsent \subseteq JobId /\ streams \subseteq JobId /\ left \subseteq JobId
    OBVIOUS
  <2> HIDE DEF Init
  <2> QED
    BY <2>1, <2>2, <2>3, <2>4, <2>5, <2>6 DEF TypeOK
<1>2. IdInv /\ WorkerInv /\ StateInv /\ StreamInv
  BY DEF IdInv, WorkerInv, Active, StateInv, StreamInv, InChannel
<1>3. HeldExactlyOnce
  BY DEF HeldExactlyOnce, Pending, Finished, InChannel, Running
<1>4. OrderMatchesRecords /\ DoneIsComplete
  BY DEF OrderMatchesRecords, DoneIsComplete
<1>5. FifoInv
  BY DEF FifoInv, RealTimeFIFO, Received, Sent
<1> QED
  BY <1>1, <1>2, <1>3, <1>4, <1>5 DEF IInv

\* Every step, of every action, keeps the invariant.
LEMMA NextPreserves == IInv /\ FifoInv /\ [Next]_vars => IInv' /\ FifoInv'
<1> SUFFICES ASSUME IInv, FifoInv, [Next]_vars PROVE IInv' /\ FifoInv'
  OBVIOUS
<1> USE DEF Sent
<1>1. CASE UNCHANGED vars
  <2>1. Known' = Known /\ InChannel' = InChannel /\ Pending' = Pending
    BY <1>1 DEF vars, Known, InChannel, Pending, Finished
  <2>2. Running' = Running /\ Active' = Active
    BY <1>1 DEF vars, Running, Active
  <2>3. TypeOK' /\ IdInv'
    BY <1>1, <2>1 DEF vars, IInv, TypeOK, IdInv
  <2>4. WorkerInv' /\ StateInv' /\ StreamInv'
    BY <1>1, <2>1, <2>2 DEF vars, IInv, WorkerInv, StateInv, StreamInv
  <2>5. HeldExactlyOnce' /\ OrderMatchesRecords' /\ DoneIsComplete'
    BY <1>1, <2>1, <2>2 DEF vars, IInv, HeldExactlyOnce, OrderMatchesRecords, DoneIsComplete
  <2> QED
    BY <1>1, <2>3, <2>4, <2>5, FifoOther DEF vars, IInv
<1>2. ASSUME NEW w \in Workers, StartWorker(w) PROVE IInv' /\ FifoInv'
  BY <1>2, StartWorkerStep, FifoOther DEF StartWorker
<1>3. CASE Serve
  BY <1>3, ServeStep, FifoOther DEF Serve
<1>4. CASE AllocateId
  <2>1. Sent' = Sent
    BY <1>4, ConstantsAssumption DEF AllocateId, IInv, TypeOK, IdInv, JobId
  <2> QED
    BY <1>4, <2>1, AllocateIdStep, FifoOther DEF AllocateId
<1>5. ASSUME NEW j \in JobId, Register(j) PROVE IInv' /\ FifoInv'
  <2>1. Sent' = Sent
    BY <1>5 DEF Register
  <2> QED
    BY <1>5, <2>1, RegisterStep, FifoOther DEF Register
<1>6. ASSUME NEW j \in JobId, Send(j) PROVE IInv' /\ FifoInv'
  BY <1>6, SendStep, FifoSend
<1>7. ASSUME NEW j \in JobId, DropStream(j) PROVE IInv' /\ FifoInv'
  BY <1>7, DropStreamStep, FifoOther DEF DropStream
<1>8. ASSUME NEW j \in JobId, NEW n \in 0 .. Size, Progress(j, n) PROVE IInv' /\ FifoInv'
  BY <1>8, ProgressStep, FifoOther DEF Progress
<1>9. ASSUME NEW w \in Workers, Retry(w) PROVE IInv' /\ FifoInv'
  BY <1>9, RetryStep, FifoOther DEF Retry
<1>10. ASSUME NEW w \in Workers, WorkerStep(w) PROVE IInv' /\ FifoInv'
  <2>1. CASE Receive(w)
    BY <2>1, ReceiveStep, FifoReceive
  <2>2. CASE Begin(w)
    BY <2>2, BeginStep, FifoOther DEF Begin
  <2>3. CASE Identified(w)
    BY <2>3, IdentifiedStep, FifoOther DEF Identified
  <2>4. CASE Finish(w)
    BY <2>4, FinishStep, FifoOther DEF Finish, Ending
  <2>5. CASE Fail(w)
    BY <2>5, FailStep, FifoOther DEF Fail, Ending
  <2> QED
    BY <1>10, <2>1, <2>2, <2>3, <2>4, <2>5 DEF WorkerStep
<1> QED
  BY <1>1, <1>2, <1>3, <1>4, <1>5, <1>6, <1>7, <1>8, <1>9, <1>10 DEF Next

\* The inductive invariant holds in every reachable state.
LEMMA Inductive == Spec => [](IInv /\ FifoInv)
  BY InitEstablishes, NextPreserves, PTL DEF Spec

\* The state keeps its type, for every cap, number of jobs, calls and workers.
THEOREM TypeCorrect == Spec => []TypeOK
  BY Inductive, PTL DEF IInv

\* No job is lost between its registration, the channel and the worker, and
\* none is held twice.
THEOREM NoJobLost == Spec => []HeldExactlyOnce
  BY Inductive, PTL DEF IInv

\* The records map and the order vector always list the same jobs.
THEOREM OrderConsistent == Spec => []OrderMatchesRecords
  BY Inductive, PTL DEF IInv

\* A done job shows the whole design as sent unless an earlier attempt of it
\* left its stream over, however often uploads are retried.
THEOREM DoneComplete == Spec => []DoneIsComplete
  BY Inductive, PTL DEF IInv

\* Two jobs whose sends did not overlap are taken up in the order they were sent.
THEOREM SendsInOrder == Spec => []RealTimeFIFO
  BY Inductive, PTL DEF FifoInv

\* There is never more than one upload in progress.
THEOREM UploadsAreSerial == Spec => []OneUploadAtATime
<1>1. IInv => OneUploadAtATime
  <2> SUFFICES ASSUME IInv PROVE OneUploadAtATime
    OBVIOUS
  <2>1. \A j \in Uploading : \E w \in Active : task[w] = j
    <3> SUFFICES ASSUME NEW j \in Uploading PROVE \E w \in Active : task[w] = j
      OBVIOUS
    <3>1. j \in Pending /\ j \notin unsent \cup InChannel
      BY DEF IInv, Uploading, Pending, Finished, StateInv
    <3>2. PICK w \in Workers : task[w] = j /\ task[w] # NoJob
      BY <3>1 DEF IInv, HeldExactlyOnce, Running
    <3> QED
      BY <3>2 DEF IInv, WorkerInv, Active
  <2> QED
    BY <2>1 DEF IInv, WorkerInv, Active, OneUploadAtATime
<1> QED
  BY <1>1, Inductive, PTL

-----------------------------------------------------------------------------
(* Counting.                                                               *)

\* A non-empty set of naturals has a least element.
LEMMA Least ==
    ASSUME NEW T, T \subseteq Nat, T # {}
    PROVE  \E m \in T : \A k \in T : m <= k
<1>1. PICK m \in T : \A k \in T : <<k, m>> \notin OpToRel(<, Nat)
  BY WFMin, NatLessThanWellFounded, Zenon
<1>2. ASSUME NEW k \in T PROVE m <= k
  <2>1. k \in Nat /\ m \in Nat
    OBVIOUS
  <2>2. ~(k < m)
    BY <1>1, <2>1, Zenon DEF OpToRel
  <2> QED
    BY <2>1, <2>2
<1> QED
  BY <1>2

\* A count that starts at zero and rises by one at most meets every number on its way.
LEMMA Meets ==
    ASSUME NEW L \in Nat, NEW c \in [0 .. L -> Nat], c[0] = 0,
           \A i \in 1 .. L : c[i] <= c[i - 1] + 1, NEW n \in 1 .. c[L]
    PROVE  \E i \in 1 .. L : c[i] = n /\ c[i - 1] < n
<1> DEFINE T == {i \in 0 .. L : n <= c[i]}
<1>1. L \in T /\ T \subseteq Nat
  OBVIOUS
<1>2. PICK i \in T : \A k \in T : i <= k
  BY <1>1, Least
<1>3. i \in 1 .. L
  BY <1>2
<1>4. i - 1 \in 0 .. L /\ i - 1 \notin T
  BY <1>2, <1>3
<1>5. c[i - 1] < n /\ c[i] \in Nat /\ c[i - 1] \in Nat
  BY <1>3, <1>4
<1>6. c[i] <= c[i - 1] + 1 /\ n <= c[i]
  BY <1>2, <1>3
<1> QED
  BY <1>3, <1>5, <1>6

-----------------------------------------------------------------------------
(* Pruning.                                                                *)

\* FinishedUpTo counts one position at a time.
LEMMA FinishedCount ==
    ASSUME TypeOK, NEW i \in 0 .. Len(order)
    PROVE  /\ FinishedUpTo(i) \subseteq 1 .. i /\ IsFiniteSet(FinishedUpTo(i))
           /\ Cardinality(FinishedUpTo(i)) \in Nat
           /\ i = 0 => Cardinality(FinishedUpTo(i)) = 0
           /\ i # 0 => FinishedUpTo(i) = IF order[i] \in Finished
                                         THEN FinishedUpTo(i - 1) \cup {i}
                                         ELSE FinishedUpTo(i - 1)
           /\ i # 0 => IsFiniteSet(FinishedUpTo(i - 1)) /\ i \notin FinishedUpTo(i - 1)
<1>1. Len(order) \in Nat
  BY DEF TypeOK
<1>2. ASSUME NEW k \in 0 .. Len(order)
      PROVE  FinishedUpTo(k) \subseteq 1 .. k /\ IsFiniteSet(FinishedUpTo(k))
  <2>1. FinishedUpTo(k) \subseteq 1 .. k
    BY DEF FinishedUpTo
  <2>2. IsFiniteSet(1 .. k)
    BY <1>1, FS_Interval
  <2> QED
    BY <2>1, <2>2, FS_Subset
<1>3. i = 0 => FinishedUpTo(i) = {}
  BY DEF FinishedUpTo
<1>4. i # 0 => FinishedUpTo(i) = IF order[i] \in Finished THEN FinishedUpTo(i - 1) \cup {i}
                                 ELSE FinishedUpTo(i - 1)
  <2>1. i # 0 => \A k : k \in 1 .. i <=> k \in 1 .. (i - 1) \/ k = i
    BY <1>1
  <2> QED
    BY <2>1 DEF FinishedUpTo
<1>5. i # 0 => i - 1 \in 0 .. Len(order) /\ i \notin 1 .. (i - 1)
  BY <1>1
<1> QED
  BY <1>2, <1>3, <1>4, <1>5, FS_CardinalityType, FS_EmptySet

\* What pruning drops: the finished jobs up to some position, Excess of them.
LEMMA DroppedIsExcess ==
    ASSUME TypeOK, Excess # 0
    PROVE  \E i \in 1 .. Len(order) :
               Dropped = FinishedUpTo(i) /\ Cardinality(FinishedUpTo(i)) = Excess
<1> DEFINE L == Len(order)
           c == [i \in 0 .. L |-> Cardinality(FinishedUpTo(i))]
<1>1. L \in Nat
  BY DEF TypeOK
<1>2. c \in [0 .. L -> Nat] /\ c[0] = 0
  BY <1>1, FinishedCount
<1>3. \A i \in 1 .. L : c[i] = IF order[i] \in Finished THEN c[i - 1] + 1 ELSE c[i - 1]
  <2> SUFFICES ASSUME NEW i \in 1 .. L
               PROVE  c[i] = IF order[i] \in Finished THEN c[i - 1] + 1 ELSE c[i - 1]
    OBVIOUS
  <2>1. i \in 0 .. L /\ i - 1 \in 0 .. L /\ i # 0
    BY <1>1
  <2>2. /\ FinishedUpTo(i) = IF order[i] \in Finished THEN FinishedUpTo(i - 1) \cup {i}
                             ELSE FinishedUpTo(i - 1)
        /\ IsFiniteSet(FinishedUpTo(i - 1)) /\ i \notin FinishedUpTo(i - 1)
    BY <2>1, FinishedCount
  <2>3. Cardinality(FinishedUpTo(i - 1) \cup {i}) = Cardinality(FinishedUpTo(i - 1)) + 1
    BY <2>2, FS_AddElement
  <2> QED
    BY <2>1, <2>2, <2>3
<1>4. Excess \in 1 .. c[L]
  BY <1>1, <1>2, ConstantsAssumption DEF Excess
<1>5. \A i \in 1 .. L : c[i] <= c[i - 1] + 1
  <2>1. \A i \in 1 .. L : i - 1 \in 0 .. L
    BY <1>1
  <2>2. \A i \in 1 .. L : c[i - 1] \in Nat
    BY <1>2, <2>1
  <2>3. \A m \in Nat : m <= m + 1 /\ m + 1 <= m + 1
    OBVIOUS
  <2> HIDE DEF c
  <2> QED
    BY <1>3, <2>2, <2>3
<1> HIDE DEF c
<1>6. PICK i \in 1 .. L : c[i] = Excess /\ c[i - 1] < Excess
  BY <1>1, <1>2, <1>4, <1>5, Meets
<1>7. Cardinality(FinishedUpTo(i)) = Excess
  BY <1>1, <1>6 DEF c
<1>8. ASSUME NEW k \in Dropped PROVE k \in FinishedUpTo(i)
  <2>1. /\ k \in FinishedUpTo(L) /\ k \in 1 .. L /\ order[k] \in Finished
        /\ Cardinality(FinishedUpTo(k)) <= Excess
    BY <1>8 DEF Dropped, FinishedUpTo
  <2>2. ASSUME i < k PROVE FALSE
    <3>1. FinishedUpTo(i) \cup {k} \in SUBSET FinishedUpTo(k) /\ k \notin FinishedUpTo(i)
      BY <1>1, <2>1, <2>2 DEF FinishedUpTo
    <3>2. IsFiniteSet(FinishedUpTo(k)) /\ IsFiniteSet(FinishedUpTo(i))
          /\ Cardinality(FinishedUpTo(k)) \in Nat
      <4>1. k \in 0 .. L /\ i \in 0 .. L
        BY <1>1, <2>1
      <4> QED
        BY <4>1, FinishedCount
    <3>3. Cardinality(FinishedUpTo(i) \cup {k}) = Excess + 1
      BY <1>7, <3>1, <3>2, FS_AddElement
    <3>4. Cardinality(FinishedUpTo(i) \cup {k}) <= Cardinality(FinishedUpTo(k))
      BY <3>1, <3>2, FS_Subset
    <3> QED
      BY <1>4, <1>2, <2>1, <3>2, <3>3, <3>4
  <2>3. k \in 1 .. i
    BY <1>1, <2>1, <2>2
  <2> QED
    BY <2>1, <2>3 DEF FinishedUpTo
<1>9. ASSUME NEW k \in FinishedUpTo(i) PROVE k \in Dropped
  <2>1. k \in 1 .. i /\ k \in 1 .. L /\ order[k] \in Finished
    BY <1>1, <1>9 DEF FinishedUpTo
  <2>2. FinishedUpTo(k) \in SUBSET FinishedUpTo(i)
    BY <1>1, <2>1 DEF FinishedUpTo
  <2>3. i \in 0 .. L
    BY <1>1
  <2>4. IsFiniteSet(FinishedUpTo(i))
    BY <2>3, FinishedCount
  <2>5. Cardinality(FinishedUpTo(k)) <= Excess
    BY <1>7, <2>2, <2>4, FS_Subset
  <2>6. Excess > 0
    BY <1>2, <1>4
  <2> QED
    BY <2>1, <2>5, <2>6 DEF Dropped, FinishedUpTo
<1>10. Dropped \subseteq FinishedUpTo(i) /\ FinishedUpTo(i) \subseteq Dropped
  <2>1. \A k : k \in Dropped => k \in FinishedUpTo(i)
    BY <1>8
  <2>2. \A k : k \in FinishedUpTo(i) => k \in Dropped
    BY <1>9
  <2> HIDE DEF c
  <2> QED
    BY <2>1, <2>2
<1>11. Dropped = FinishedUpTo(i)
  BY <1>10
<1> QED
  BY <1>7, <1>11

\* How many finished jobs there are, and which are forgotten when one is registered.
LEMMA PruningIsExact ==
    ASSUME IInv, NEW j \in JobId, Register(j)
    PROVE  LET gone == Known \ Known' IN
           /\ gone = {order[k] : k \in Dropped} /\ gone \subseteq Finished
           /\ j \notin Known /\ Known' = (Known \ gone) \cup {j}
           /\ Finished' = Finished \ gone
           /\ gone # {} => Cardinality(Finished \ gone) = MAX_FINISHED_JOBS
           /\ Cardinality(Finished \ gone) <= MAX_FINISHED_JOBS
           /\ \A d \in gone, k \in Finished \ gone : Position(d) < Position(k)
<1> DEFINE L == Len(order)
           gone == Known \ Known'
<1>1. TypeOK /\ IdInv /\ OrderMatchesRecords /\ L \in Nat /\ DOMAIN order = 1 .. L
  BY DEF IInv, TypeOK
<1>2. j \notin Known /\ j \in allocated
  BY <1>1 DEF Register, IdInv
<1>3. {order[k] : k \in Dropped} \subseteq Finished /\ Finished \subseteq Known
  BY DEF Dropped, FinishedUpTo, Finished
<1>4. /\ Known' = (Known \ {order[k] : k \in Dropped}) \cup {j}
      /\ \A i \in Known \ {order[k] : k \in Dropped} : records'[i] = records[i]
      /\ records'[j] = [state |-> "queued", sent |-> 0]
  BY <1>2 DEF Register, Known
<1>5. gone = {order[k] : k \in Dropped}
  BY <1>2, <1>3, <1>4
<1> HIDE DEF gone
<1>6. Finished' = Finished \ gone
  <2>1. records'[j].state = "queued" /\ j \in Known'
    BY <1>4
  <2> QED
    BY <1>2, <1>3, <1>4, <1>5, <2>1 DEF Finished
<1>7. Dropped \subseteq FinishedUpTo(L) /\ FinishedUpTo(L) \subseteq 1 .. L
      /\ IsFiniteSet(FinishedUpTo(L)) /\ Cardinality(FinishedUpTo(L)) \in Nat
  <2>1. L \in 0 .. L
    BY <1>1
  <2> QED
    BY <1>1, <2>1, FinishedCount DEF Dropped
<1>8. Finished \ gone = {order[k] : k \in FinishedUpTo(L) \ Dropped}
  <2>1. \A x \in Finished : \E k \in 1 .. L : order[k] = x
    BY <1>1, <1>3 DEF OrderMatchesRecords
  <2>2. \A k \in FinishedUpTo(L) : order[k] \in Finished /\ k \in 1 .. L
    BY DEF FinishedUpTo
  <2>3. \A k, i \in 1 .. L : order[k] = order[i] => k = i
    BY <1>1 DEF OrderMatchesRecords
  <2>4. \A k \in 1 .. L : order[k] \in Finished => k \in FinishedUpTo(L)
    BY DEF FinishedUpTo
  <2> QED
    BY <1>5, <1>7, <2>1, <2>2, <2>3, <2>4
\* One position for each job.
<1>9. Cardinality(Finished \ gone) = Cardinality(FinishedUpTo(L) \ Dropped)
  <2> DEFINE S == FinishedUpTo(L) \ Dropped
             f == [k \in S |-> order[k]]
  <2>1. IsFiniteSet(S)
    BY <1>7, FS_Difference
  <2>2. f \in Bijection(S, Finished \ gone)
    <3>1. f \in [S -> Finished \ gone]
      BY <1>8
    <3>2. \A a, b \in S : f[a] = f[b] => a = b
      BY <1>1, <1>7 DEF OrderMatchesRecords
    <3>3. \A y \in Finished \ gone : \E x \in S : f[x] = y
      BY <1>8
    <3> QED
      BY <3>1, <3>2, <3>3 DEF Bijection, Injection, Surjection, IsInjective
  <2> QED
    BY <2>1, <2>2, FS_Bijection DEF ExistsBijection
<1>10. Cardinality(FinishedUpTo(L) \ Dropped)
          = IF Excess = 0 THEN Cardinality(FinishedUpTo(L)) ELSE MAX_FINISHED_JOBS
  <2>1. CASE Excess = 0
    <3>1. ~(Excess > 0)
      BY <2>1
    <3>2. Dropped = {}
      BY <3>1 DEF Dropped
    <3>3. FinishedUpTo(L) \ Dropped = FinishedUpTo(L)
      BY <3>2
    <3> QED
      BY <2>1, <3>3
  <2>2. CASE Excess # 0
    <3>1. Cardinality(Dropped) = Excess
      BY <1>1, <2>2, DroppedIsExcess
    <3>2. FinishedUpTo(L) \cap Dropped = Dropped
      BY <1>7
    <3>3. Cardinality(FinishedUpTo(L) \ Dropped) = Cardinality(FinishedUpTo(L)) - Excess
      BY <1>7, <3>1, <3>2, FS_Difference
    <3> QED
      BY <1>7, <2>2, <3>3, ConstantsAssumption DEF Excess
  <2> QED
    BY <2>1, <2>2
<1>11. /\ gone # {} => Excess # 0
       /\ Excess = 0 => Cardinality(FinishedUpTo(L)) <= MAX_FINISHED_JOBS
  <2>1. gone # {} => Dropped # {}
    BY <1>5
  <2> QED
    BY <1>7, <2>1, ConstantsAssumption DEF Dropped, Excess
<1>12. /\ gone # {} => Cardinality(Finished \ gone) = MAX_FINISHED_JOBS
       /\ Cardinality(Finished \ gone) <= MAX_FINISHED_JOBS
  BY <1>9, <1>10, <1>11, ConstantsAssumption
<1>13. ASSUME NEW d \in gone, NEW k \in Finished \ gone PROVE Position(d) < Position(k)
  <2>1. PICK a \in Dropped : d = order[a]
    BY <1>5, <1>13
  <2>2. PICK b \in FinishedUpTo(L) \ Dropped : k = order[b]
    BY <1>8, <1>13
  <2>3. a \in 1 .. L /\ b \in 1 .. L
    BY <1>7, <2>1, <2>2
  <2>4. Position(d) = a /\ Position(k) = b
    BY <1>1, <2>1, <2>2, <2>3 DEF Position, OrderMatchesRecords
  <2>5. Excess # 0
    BY <1>11, <1>13
  <2>6. PICK i \in 1 .. L : Dropped = FinishedUpTo(i)
    BY <1>1, <2>5, DroppedIsExcess
  <2>7. a <= i /\ ~(b <= i)
    BY <1>1, <2>1, <2>2, <2>3, <2>6 DEF FinishedUpTo
  <2> QED
    BY <1>1, <2>3, <2>4, <2>6, <2>7
<1> QED
  BY <1>2, <1>3, <1>4, <1>5, <1>6, <1>12, <1>13 DEF gone

-----------------------------------------------------------------------------
(* Retention.                                                              *)

\* What one step of the queue forgets: the body of RetentionIsExact.
Retains ==
    LET gone == Known \ Known' IN
    /\ gone \subseteq Finished
    /\ gone # {} => Cardinality(Finished') = MAX_FINISHED_JOBS
    /\ Known' # Known => Cardinality(Finished') <= MAX_FINISHED_JOBS
    /\ \A d \in gone, k \in Finished \ gone : Position(d) < Position(k)

\* Only registering a job changes which jobs are known.
LEMMA OthersKeepKnown ==
    ASSUME Next, \A j \in JobId : ~Register(j)
    PROVE  Known' = Known
<1> USE DEF Known
<1>1. CASE \E w \in Workers : StartWorker(w)
  BY <1>1 DEF StartWorker
<1>2. CASE Serve \/ AllocateId
  BY <1>2 DEF Serve, AllocateId
<1>3. CASE \E j \in JobId : Send(j) \/ DropStream(j)
  BY <1>3 DEF Send, DropStream
<1>4. CASE \E j \in JobId, n \in 0 .. Size : Progress(j, n)
  BY <1>4 DEF Progress, Update
<1>5. CASE \E w \in Workers : WorkerStep(w) \/ Retry(w)
  BY <1>5 DEF WorkerStep, Retry, Receive, Begin, Identified, Finish, Fail, Ending, Update
<1> QED
  BY <1>1, <1>2, <1>3, <1>4, <1>5 DEF Next

\* Every step retains what it should.
LEMMA NextRetains == IInv /\ [Next]_vars => [Retains]_vars
<1> SUFFICES ASSUME IInv, Next PROVE Retains
  OBVIOUS
<1>1. ASSUME NEW j \in JobId, Register(j) PROVE Retains
  BY <1>1, PruningIsExact DEF Retains
<1>2. CASE Known' = Known
  BY <1>2 DEF Retains
<1> QED
  BY <1>1, <1>2, OthersKeepKnown

\* Pruning keeps the newest MAX_FINISHED_JOBS finished jobs and every pending
\* one, whatever the cap and however many calls register at once.
THEOREM RetentionExact == Spec => RetentionIsExact
<1>1. Spec => [][Retains]_vars
  BY Inductive, NextRetains, PTL DEF Spec
<1> QED
  BY <1>1 DEF Retains, RetentionIsExact

-----------------------------------------------------------------------------
(* The safety half of the refinement.                                      *)

AbstractStatus == [j \in JobId |-> Status(j)]

\* A step that changes no state, forgets nothing and hands out no known id
\* changes nothing the service promises.
LEMMA Stutters ==
    ASSUME Known' = Known, \A i \in Known : records'[i].state = records[i].state,
           \A i \in JobId \ Known :
               i < counter' /\ i \notin allocated' <=> i < counter /\ i \notin allocated
    PROVE  AbstractStatus' = AbstractStatus
  BY DEF AbstractStatus, Status

\* A step that changes one record's state changes just that job's status.
LEMMA ChangesOne ==
    ASSUME NEW j \in JobId, j \in Known, Known' = Known,
           \A i \in Known \ {j} : records'[i] = records[i],
           counter' = counter, allocated' = allocated
    PROVE  /\ AbstractStatus' = [AbstractStatus EXCEPT ![j] = records'[j].state]
           /\ AbstractStatus[j] = records[j].state
  BY DEF AbstractStatus, Status

\* Registering a job submits it, and forgets what pruning drops.
LEMMA RegisterSubmits ==
    ASSUME IInv, NEW j \in JobId, Register(j)
    PROVE  \E old \in SUBSET JobId : Service!Submit(j, old)
<1> DEFINE old == Known \ Known'
<1>1. /\ old \subseteq Finished /\ j \notin Known /\ Known' = (Known \ old) \cup {j}
      /\ Finished' = Finished \ old /\ Finished \subseteq Known
      /\ old # {} => Cardinality(Finished \ old) = MAX_FINISHED_JOBS
  BY PruningIsExact DEF Finished
<1>2. Known \subseteq JobId /\ j \in allocated
  BY DEF IInv, TypeOK, Register
<1>3. Service!Ended = Finished
  BY <1>2 DEF Service!Ended, Service!With, Finished, Status, Known
<1>4. AbstractStatus[j] = "unknown"
  BY <1>1, <1>2 DEF AbstractStatus, Status
<1>5. AbstractStatus' = [i \in JobId |-> IF i = j THEN "queued"
                                         ELSE IF i \in old THEN "forgotten"
                                         ELSE AbstractStatus[i]]
  <2>1. /\ counter' = counter /\ allocated' = allocated \ {j}
        /\ \A i \in Known' : records'[i] = IF i = j THEN [state |-> "queued", sent |-> 0]
                                           ELSE records[i]
    BY DEF Register, Known
  <2>2. \A i \in old : i \in Known /\ i \notin Known' /\ i < counter /\ i \notin allocated
    BY DEF IInv, IdInv
  <2> HIDE DEF old
  <2> QED
    BY <1>1, <2>1, <2>2 DEF AbstractStatus, Status
<1>6. old \in SUBSET JobId
  BY <1>2
<1> HIDE DEF old
\* The instance has the module's own copy of the operator.
<1>7. Service!Cardinality(Finished \ old) = Cardinality(Finished \ old)
  BY DEF Service!Cardinality, Cardinality
<1>8. Service!Submit(j, old)
  BY <1>1, <1>3, <1>4, <1>5, <1>7 DEF Service!Submit, AbstractStatus
<1> QED
  BY <1>6, <1>8

\* The worker starts a job when no other is being uploaded.
LEMMA BeginStarts ==
    ASSUME IInv, NEW w \in Workers, Begin(w)
    PROVE  \E j \in JobId : Service!Start(j)
<1> DEFINE j == task[w]
<1>1. j \in Known /\ j \in JobId /\ records[j].state = "queued"
  BY DEF IInv, TypeOK, StateInv, Begin
<1>2. /\ Known' = Known /\ counter' = counter /\ allocated' = allocated
      /\ records' = [records EXCEPT ![j] = [state |-> "uploading", sent |-> records[j].sent]]
  BY <1>1 DEF Begin, Update, Known
<1>3. records'[j].state = "uploading" /\ \A i \in Known \ {j} : records'[i] = records[i]
  BY <1>1, <1>2 DEF Known
<1>4. Uploading = {}
  <2>1. SUFFICES ASSUME NEW i \in Uploading PROVE FALSE
    OBVIOUS
  <2>2. i \in Pending /\ i \notin unsent \cup InChannel
    BY DEF IInv, Uploading, Pending, Finished, StateInv
  <2>3. PICK v \in Workers : task[v] = i /\ task[v] # NoJob
    BY <2>2 DEF IInv, HeldExactlyOnce, Running
  <2>4. v = w
    BY <2>3 DEF IInv, WorkerInv, Active, Begin
  <2> QED
    BY <1>1, <2>3, <2>4 DEF Uploading
<1>5. Service!With("uploading") = {}
  <2>1. \A i \in JobId : AbstractStatus[i] = "uploading" => i \in Uploading
    BY DEF AbstractStatus, Status, Uploading
  <2> QED
    BY <1>4, <2>1 DEF Service!With, AbstractStatus
<1> HIDE DEF j
<1>6. /\ AbstractStatus' = [AbstractStatus EXCEPT ![j] = "uploading"]
      /\ AbstractStatus[j] = "queued"
  BY <1>1, <1>2, <1>3, ChangesOne
<1> QED
  BY <1>1, <1>5, <1>6 DEF Service!Start, AbstractStatus

\* A finished or failed upload ends the job that was being uploaded.
LEMMA EndingEnds ==
    ASSUME IInv, NEW w \in Workers, Finish(w) \/ Fail(w)
    PROVE  \E j \in JobId : Service!End(j)
<1> DEFINE j == task[w]
<1>1. j \in Known /\ j \in JobId /\ records[j].state = "uploading"
  BY DEF IInv, TypeOK, StateInv, Finish, Fail
<1>2. /\ Known' = Known /\ counter' = counter /\ allocated' = allocated
      /\ \A i \in Known \ {j} : records'[i] = records[i]
      /\ records'[j].state \in {"done", "failed"}
  BY <1>1 DEF Finish, Fail, Ending, Update, Known
<1> HIDE DEF j
<1>3. /\ AbstractStatus' = [AbstractStatus EXCEPT ![j] = records'[j].state]
      /\ AbstractStatus[j] = "uploading"
  BY <1>1, <1>2, ChangesOne
<1> QED
  BY <1>1, <1>2, <1>3 DEF Service!End, AbstractStatus

\* Every step of the queue is a step of the service or leaves it as it is.
LEMMA NextRefines == IInv /\ [Next]_vars => [Service!Next]_AbstractStatus
<1> SUFFICES ASSUME IInv, [Next]_vars
             PROVE  Service!Next \/ AbstractStatus' = AbstractStatus
  OBVIOUS
<1>1. CASE UNCHANGED vars
  BY <1>1, Stutters DEF vars, Known
<1>2. CASE (\E w \in Workers : StartWorker(w)) \/ Serve
  BY <1>2, Stutters DEF StartWorker, Serve, Known
<1>3. CASE AllocateId
  <2>1. \A i \in JobId \ Known :
            i < counter' /\ i \notin allocated' <=> i < counter /\ i \notin allocated
    BY <1>3, ConstantsAssumption DEF AllocateId, IInv, TypeOK, JobId
  <2> QED
    BY <1>3, <2>1, Stutters DEF AllocateId, Known
<1>4. ASSUME NEW j \in JobId, Register(j) PROVE Service!Next
  BY <1>4, RegisterSubmits DEF Service!Next
<1>5. CASE \E j \in JobId : Send(j) \/ DropStream(j)
  BY <1>5, Stutters DEF Send, DropStream, Known
<1>6. ASSUME NEW j \in JobId, NEW n \in 0 .. Size, Progress(j, n)
      PROVE  AbstractStatus' = AbstractStatus
  <2>1. Known' = Known /\ \A i \in Known : records'[i].state = records[i].state
    BY <1>6 DEF Progress, Update, Known, IInv, TypeOK
  <2> QED
    BY <1>6, <2>1, Stutters DEF Progress
<1>7. ASSUME NEW w \in Workers, Retry(w)
      PROVE  AbstractStatus' = AbstractStatus
  <2>1. Known' = Known /\ \A i \in Known : records'[i].state = records[i].state
    BY <1>7 DEF Retry, Update, Known, IInv, TypeOK
  <2> QED
    BY <1>7, <2>1, Stutters DEF Retry
<1>8. ASSUME NEW w \in Workers, Receive(w) \/ Identified(w)
      PROVE  AbstractStatus' = AbstractStatus
  BY <1>8, Stutters DEF Receive, Identified, Known
<1>9. ASSUME NEW w \in Workers, Begin(w) PROVE Service!Next
  BY <1>9, BeginStarts DEF Service!Next
<1>10. ASSUME NEW w \in Workers, Finish(w) \/ Fail(w) PROVE Service!Next
  BY <1>10, EndingEnds DEF Service!Next
<1> QED
  BY <1>1, <1>2, <1>3, <1>4, <1>5, <1>6, <1>7, <1>8, <1>9, <1>10 DEF Next, WorkerStep

\* Whatever the queue does, the abstract upload service may do.
THEOREM QueueIsService == Spec => Service!Init /\ [][Service!Next]_AbstractStatus
<1>1. Init => Service!Init
  BY DEF Init, Service!Init, Status, Known, JobId
<1> QED
  BY <1>1, Inductive, NextRefines, PTL DEF Spec
=============================================================================
