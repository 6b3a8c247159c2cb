------------------------------- MODULE JobQueue -------------------------------
(***************************************************************************)
(* The upload queue of src-tauri/src/server/jobs.rs.                       *)
(*                                                                         *)
(* Many HTTP handlers call JobQueue::enqueue at once.  The call is three   *)
(* separate steps: take an id from the atomic counter, insert the record   *)
(* (and prune) under the two locks, and, with the locks released, send the *)
(* upload down an unbounded channel.  One background task owns the         *)
(* channel's receiver and runs one upload after the other.  An upload is   *)
(* one or more attempts within the backend's call, each with a body stream *)
(* and a clone of the progress callback of its own.  A failed attempt's    *)
(* stream may outlive the attempt, the whole upload even: the HTTP stack   *)
(* lets go of it when it gets to it.                                       *)
(*                                                                         *)
(* An enqueue call is named by the id it took, so `allocated` and `unsent` *)
(* are the calls standing between two of its steps.                        *)
(***************************************************************************)
EXTENDS Naturals, Sequences, FiniteSets

CONSTANTS
    MAX_FINISHED_JOBS,   \* retention cap (100 in the code)
    Size,                \* units of progress in one design
    Workers,             \* tasks that may call start_worker
    MaxJobs,             \* bound: ids ever handed out
    MaxCalls,            \* bound: enqueue calls in progress at once
    MaxLeft              \* bound: jobs that leave a stream over

ASSUME ConstantsAssumption ==
    /\ MAX_FINISHED_JOBS \in Nat /\ Size \in Nat \ {0}
    /\ MaxJobs \in Nat /\ MaxCalls \in Nat /\ MaxLeft \in Nat

JobId     == 0 .. (MaxJobs - 1)
NoJob     == MaxJobs
JobState  == {"queued", "uploading", "done", "failed"}
JobRecord == [state : JobState, sent : 0 .. Size]

VARIABLES
    counter,     \* the next job id (AtomicU64)
    records,     \* the records map: a function on the known ids
    order,       \* insertion order of the known ids
    channel,     \* the mpsc channel of queued uploads
    rx,          \* is the receiver still in its Option?
    serving,     \* has the HTTP server been started?
    allocated,   \* calls that took an id and have not registered it
    unsent,      \* calls that registered a job and have not sent it
    step,        \* where each worker task stands
    task,        \* the upload each worker task holds
    streams,     \* jobs with a failed attempt's body stream still around
    left,        \* history: jobs that ever left one over
    earlier      \* history: jobs already sent when this id was taken

vars == <<counter, records, order, channel, rx, serving, allocated, unsent,
          step, task, streams, left, earlier>>

Known       == DOMAIN records
Finished    == {j \in Known : records[j].state \in {"done", "failed"}}
Pending     == Known \ Finished                      \* pending_count
Uploading   == {j \in Known : records[j].state = "uploading"}
Sent        == {j \in JobId : j < counter} \ (allocated \cup unsent)
InChannel   == {channel[i] : i \in DOMAIN channel}
Received    == Sent \ InChannel
Active      == {w \in Workers : step[w] # "idle"}
Attempted   == {task[w] : w \in {v \in Workers : step[v] = "upload"}}

Init ==
    /\ counter = 0
    /\ records = [j \in {} |-> [state |-> "queued", sent |-> 0]]
    /\ order = <<>> /\ channel = <<>>
    /\ rx = TRUE /\ serving = FALSE
    /\ allocated = {} /\ unsent = {}
    /\ step = [w \in Workers |-> "idle"]
    /\ task = [w \in Workers |-> NoJob]
    /\ streams = {} /\ left = {}
    /\ earlier = [j \in JobId |-> {}]

-----------------------------------------------------------------------------
(* Startup: lib.rs starts the worker, which takes the receiver out of its  *)
(* Option, and then the server.                                            *)

StartWorkerAgain(w) ==   \* mutant: a second worker can take the receiver too
    /\ rx /\ step[w] = "idle"
    /\ step' = [step EXCEPT ![w] = "recv"]
    /\ UNCHANGED <<counter, records, order, channel, rx, serving, allocated,
                   unsent, task, streams, left, earlier>>

StartWorker(w) ==
    /\ rx /\ step[w] = "idle"
    /\ rx' = FALSE
    /\ step' = [step EXCEPT ![w] = "recv"]
    /\ UNCHANGED <<counter, records, order, channel, serving, allocated,
                   unsent, task, streams, left, earlier>>

Serve ==
    /\ Active # {} /\ ~serving
    /\ serving' = TRUE
    /\ UNCHANGED <<counter, records, order, channel, rx, allocated, unsent,
                   step, task, streams, left, earlier>>

-----------------------------------------------------------------------------
(* JobQueue::enqueue, called by the POST /api/send handler.                *)

AllocateId ==
    /\ serving
    /\ counter < MaxJobs
    /\ Cardinality(allocated \cup unsent) < MaxCalls
    /\ counter' = counter + 1
    /\ allocated' = allocated \cup {counter}
    /\ earlier' = [earlier EXCEPT ![counter] = Sent]
    /\ UNCHANGED <<records, order, channel, rx, serving, unsent, step, task,
                   streams, left>>

\* prune: the positions of `order` that are dropped are those of the first
\* `excess` finished jobs; records and order lose the same jobs.
AnyUpTo(i)      == {k \in 1 .. i : order[k] \in Known}   \* mutant: drops old jobs, finished or not
FinishedUpTo(i) == {k \in 1 .. i : order[k] \in Finished}
Excess          == IF Cardinality(FinishedUpTo(Len(order))) > MAX_FINISHED_JOBS
                   THEN Cardinality(FinishedUpTo(Len(order))) - MAX_FINISHED_JOBS
                   ELSE 0
DroppedFront    == 1 .. Excess   \* mutant: drains the front, finished or not
DroppedNewest   == {i \in FinishedUpTo(Len(order)) :   \* mutant: counts from the wrong end
                        Cardinality(FinishedUpTo(Len(order)) \ FinishedUpTo(i)) < Excess}
Dropped         == {i \in FinishedUpTo(Len(order)) :
                        Excess > 0 /\ Cardinality(FinishedUpTo(i)) <= Excess}
Retained        == DOMAIN order \ Dropped

\* Vec::retain: what is left of `order`, in order, with the new id at the end.
RetainThenPush(j) ==
    LET n == Cardinality(Retained) IN
    \E pos \in [1 .. n -> Retained] :
        /\ \A a, b \in 1 .. n : a < b => pos[a] < pos[b]
        /\ \A i \in Retained : \E a \in 1 .. n : pos[a] = i
        /\ order' = Append([a \in 1 .. n |-> order[pos[a]]], j)

Register(j) ==
    /\ j \in allocated
    /\ RetainThenPush(j)
    /\ records' = [i \in (Known \ {order[k] : k \in Dropped}) \cup {j} |->
                      IF i = j THEN [state |-> "queued", sent |-> 0]
                               ELSE records[i]]
    /\ allocated' = allocated \ {j}
    /\ unsent' = unsent \cup {j}
    /\ UNCHANGED <<counter, channel, rx, serving, step, task, streams, left,
                   earlier>>

SendLost(j) ==   \* mutant: the upload never reaches the channel
    /\ j \in unsent
    /\ unsent' = unsent \ {j}
    /\ UNCHANGED <<counter, records, order, channel, rx, serving, allocated,
                   step, task, streams, left, earlier>>

Send(j) ==
    /\ j \in unsent
    /\ channel' = Append(channel, j)
    /\ unsent' = unsent \ {j}
    /\ UNCHANGED <<counter, records, order, rx, serving, allocated, step, task,
                   streams, left, earlier>>

-----------------------------------------------------------------------------
(* The worker task.  `update` changes a record only when it still exists.  *)

UpdateOrInsert(j, f) ==   \* mutant: brings a pruned job back
    [i \in Known \cup {j} |-> IF i # j THEN records[i]
                              ELSE IF j \in Known THEN f ELSE [state |-> "failed", sent |-> 0]]

Update(j, f) == IF j \in Known THEN [records EXCEPT ![j] = f] ELSE records

ReceiveNewest(w) ==   \* mutant: takes the last upload sent
    /\ step[w] = "recv" /\ channel # <<>>
    /\ task' = [task EXCEPT ![w] = channel[Len(channel)]]
    /\ channel' = SubSeq(channel, 1, Len(channel) - 1)
    /\ step' = [step EXCEPT ![w] = "begin"]
    /\ UNCHANGED <<counter, records, order, rx, serving, allocated, unsent,
                   streams, left, earlier>>

Receive(w) ==
    /\ step[w] = "recv" /\ channel # <<>>
    /\ task' = [task EXCEPT ![w] = Head(channel)]
    /\ channel' = Tail(channel)
    /\ step' = [step EXCEPT ![w] = "begin"]
    /\ UNCHANGED <<counter, records, order, rx, serving, allocated, unsent,
                   streams, left, earlier>>

Begin(w) ==
    /\ step[w] = "begin"
    /\ records' = Update(task[w], [state |-> "uploading",
                                   sent |-> records[task[w]].sent])
    /\ step' = [step EXCEPT ![w] = "identify"]
    /\ UNCHANGED <<counter, order, channel, rx, serving, allocated, unsent,
                   task, streams, left, earlier>>

\* A backend claimed the address: its upload call makes its first attempt.
Identified(w) ==
    /\ step[w] = "identify"
    /\ step' = [step EXCEPT ![w] = "upload"]
    /\ UNCHANGED <<counter, records, order, channel, rx, serving, allocated,
                   unsent, task, streams, left, earlier>>

\* A failed attempt's stream is gone with it, or left over.
AttemptFailed(j) ==
    \/ UNCHANGED <<streams, left>>
    \/ /\ Cardinality(left \cup {j}) <= MaxLeft
       /\ streams' = streams \cup {j}
       /\ left' = left \cup {j}

\* with_retries: the next attempt reports zero and streams the design again.
\* How many there may be does not matter here.
Retry(w) ==
    /\ step[w] = "upload"
    /\ records' = Update(task[w], [state |-> records[task[w]].state, sent |-> 0])
    /\ AttemptFailed(task[w])
    /\ UNCHANGED <<counter, order, channel, rx, serving, allocated, unsent,
                   step, task, earlier>>

\* The progress callback, run by whoever polls a body stream, the current
\* attempt's or one left over: it looks at no state.
Progress(j, n) ==
    /\ j \in streams \cup Attempted
    /\ records' = Update(j, [state |-> records[j].state, sent |-> n])
    /\ UNCHANGED <<counter, order, channel, rx, serving, allocated, unsent,
                   step, task, streams, left, earlier>>

Ending(w) ==
    /\ step' = [step EXCEPT ![w] = "recv"]
    /\ task' = [task EXCEPT ![w] = NoJob]
    /\ UNCHANGED <<counter, order, channel, rx, serving, allocated, unsent,
                   earlier>>

FinishAsShown(w) ==   \* mutant: takes the last figure reported for the whole
    /\ step[w] = "upload"
    /\ records' = Update(task[w], [state |-> "done", sent |-> records[task[w]].sent])
    /\ Ending(w) /\ UNCHANGED <<streams, left>>

FinishCountingHeaders(w) ==   \* mutant: counts the bytes around the design too
    /\ step[w] = "upload"
    /\ records' = Update(task[w], [state |-> "done", sent |-> Size + 1])
    /\ Ending(w) /\ UNCHANGED <<streams, left>>

\* The last attempt was answered, so its own stream was read to the end.  An
\* earlier one's may still be around.
Finish(w) ==
    /\ step[w] = "upload"
    /\ records' = Update(task[w], [state |-> "done", sent |-> Size])
    /\ Ending(w) /\ UNCHANGED <<streams, left>>

\* No machine answered, an identify error, or the upload's error, after which
\* the last attempt's stream may be left over as well.
Fail(w) ==
    /\ step[w] \in {"identify", "upload"}
    /\ records' = Update(task[w], [state |-> "failed",
                                   sent |-> records[task[w]].sent])
    /\ IF step[w] = "upload" THEN AttemptFailed(task[w]) ELSE UNCHANGED <<streams, left>>
    /\ Ending(w)

DropStream(j) ==
    /\ j \in streams
    /\ streams' = streams \ {j}
    /\ UNCHANGED <<counter, records, order, channel, rx, serving, allocated,
                   unsent, step, task, left, earlier>>

WorkerStep(w) == Receive(w) \/ Begin(w) \/ Identified(w) \/ Finish(w) \/ Fail(w)

Next ==
    \/ \E w \in Workers : StartWorker(w)
    \/ Serve
    \/ AllocateId
    \/ \E j \in JobId : Register(j) \/ Send(j) \/ DropStream(j)
    \/ \E j \in JobId, n \in 0 .. Size : Progress(j, n)
    \/ \E w \in Workers : WorkerStep(w) \/ Retry(w)

\* Fairness: enqueue has no await, so a call that began runs to its end; every
\* network call of an upload has a timeout and a bounded number of attempts,
\* so the task it belongs to always takes its next step.
Fairness ==
    /\ \A j \in JobId : WF_vars(Register(j)) /\ WF_vars(Send(j))
    /\ \A w \in Workers : WF_vars(WorkerStep(w))

Spec == Init /\ [][Next]_vars /\ Fairness

-----------------------------------------------------------------------------
\* Types: no record shows more sent than its design holds.
TypeOK ==
    /\ counter \in 0 .. MaxJobs
    /\ Known \subseteq JobId /\ records \in [Known -> JobRecord]
    /\ order \in Seq(JobId) /\ channel \in Seq(JobId)
    /\ rx \in BOOLEAN /\ serving \in BOOLEAN
    /\ allocated \subseteq JobId /\ unsent \subseteq JobId
    /\ step \in [Workers -> {"idle", "recv", "begin", "identify", "upload"}]
    /\ task \in [Workers -> JobId \cup {NoJob}]
    /\ streams \subseteq JobId /\ left \subseteq JobId
    /\ earlier \in [JobId -> SUBSET JobId]

\* The records map and the insertion-order vector, two locks and two data
\* structures, never disagree on which jobs are known, and no job is listed
\* twice (enqueue, prune).
OrderMatchesRecords ==
    /\ {order[i] : i \in DOMAIN order} = Known
    /\ \A a, b \in DOMAIN order : order[a] = order[b] => a = b

\* No job is lost or run twice: the jobs whose record says queued or uploading
\* are those in the hands of an enqueue call that has yet to send them, of the
\* channel or of a worker, and each is in one place, once (the record is
\* inserted before the send, and other calls prune in between).
Running == {task[w] : w \in Workers} \ {NoJob}
HeldExactlyOnce ==
    /\ Pending = unsent \cup InChannel \cup Running
    /\ unsent \cap InChannel = {} /\ unsent \cap Running = {}
    /\ InChannel \cap Running = {}
    /\ \A a, b \in DOMAIN channel : channel[a] = channel[b] => a = b
    /\ \A v, w \in Workers : task[v] = task[w] => v = w \/ task[v] = NoJob

\* "a single background worker performs uploads one at a time": at most one
\* record says uploading, and at most one task is between identify and the end.
OneUploadAtATime ==
    /\ \A i, j \in Uploading : i = j
    /\ \A v, w \in Workers :
          {step[v], step[w]} \subseteq {"begin", "identify", "upload"} => v = w

\* A client that got its 202 for one design before it sent the next sees them
\* uploaded in that order, whatever other clients do.
RealTimeFIFO == \A j \in Received : earlier[j] \subseteq Received

\* A done job shows the whole design as sent, unless an earlier attempt
\* of it failed and left its stream over: `update` looks at no state, and that
\* stream may write its older figure over the last one.
DoneIsComplete ==
    \A j \in Known : records[j].state = "done" /\ records[j].sent # Size => j \in left

\* Registering a job leaves min(cap, finished) finished jobs, the newest ones
\* by insertion order, and every pending job; no other step forgets a job.
Position(j) == CHOOSE i \in DOMAIN order : order[i] = j
RetentionIsExact ==
    [][ LET gone == Known \ Known' IN
        /\ gone \subseteq Finished
        /\ gone # {} => Cardinality(Finished') = MAX_FINISHED_JOBS
        /\ Known' # Known => Cardinality(Finished') <= MAX_FINISHED_JOBS
        /\ \A d \in gone, k \in Finished \ gone : Position(d) < Position(k)
      ]_vars

-----------------------------------------------------------------------------
(* The queue implements the abstract upload service.                       *)

Status(j) == IF j \in Known THEN records[j].state
             ELSE IF j < counter /\ j \notin allocated THEN "forgotten"
             ELSE "unknown"

Service == INSTANCE UploadService
             WITH Job <- JobId, Keep <- MAX_FINISHED_JOBS,
                  status <- [j \in JobId |-> Status(j)]

\* Every behaviour of the queue, retention and fairness included, is one the
\* abstract service allows.
ImplementsService == Service!Spec
=============================================================================
