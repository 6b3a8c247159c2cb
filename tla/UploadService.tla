---------------------------- MODULE UploadService ----------------------------
(***************************************************************************)
(* What the upload queue promises the callers of POST /api/send, GET       *)
(* /api/jobs and GET /api/jobs/{id}, without saying how: a job is          *)
(* accepted, waits, is uploaded while no other job is, ends exactly once,  *)
(* and may be forgotten only after it ended and only while enough other    *)
(* finished jobs are remembered.                                           *)
(***************************************************************************)
EXTENDS Naturals, FiniteSets

CONSTANTS Job,     \* the jobs that may ever be submitted
          Keep     \* how many finished jobs stay listed

VARIABLE status    \* what the service knows of each job

Status == {"unknown", "queued", "uploading", "done", "failed", "forgotten"}

With(st) == {j \in Job : status[j] = st}
Ended    == With("done") \cup With("failed")

Init == status = [j \in Job |-> "unknown"]

\* Accepting a job is also the moment old finished jobs are forgotten.
Submit(j, old) ==
    /\ status[j] = "unknown"
    /\ old \subseteq Ended
    /\ old # {} => Cardinality(Ended \ old) = Keep
    /\ status' = [i \in Job |-> IF i = j THEN "queued"
                                ELSE IF i \in old THEN "forgotten"
                                ELSE status[i]]

Start(j) ==
    /\ status[j] = "queued"
    /\ With("uploading") = {}
    /\ status' = [status EXCEPT ![j] = "uploading"]

End(j) ==
    /\ status[j] = "uploading"
    /\ \E st \in {"done", "failed"} : status' = [status EXCEPT ![j] = st]

Next ==
    \/ \E j \in Job, old \in SUBSET Job : Submit(j, old)
    \/ \E j \in Job : Start(j) \/ End(j)

\* A queued job is not starved by the others, and an upload ends.
Spec ==
    /\ Init /\ [][Next]_status
    /\ \A j \in Job : SF_status(Start(j)) /\ WF_status(End(j))
=============================================================================
