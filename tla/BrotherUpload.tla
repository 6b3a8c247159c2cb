---------------------------- MODULE BrotherUpload ----------------------------
(***************************************************************************)
(* Sending designs to a Brother machine: BrotherClient::upload, its calls  *)
(* and with_retries (src-tauri/src/brother/client.rs), as the queue's one  *)
(* worker runs them, upload after upload.                                  *)
(*                                                                         *)
(* The machine is external.  It answers one request at a time, gives every *)
(* stored design a name of its own, and may be slow: a request the client  *)
(* gave up on can still be stored afterwards.  Its owner deletes files at  *)
(* its panel.  Reads change nothing, so their READ_RETRIES attempts are    *)
(* one step that succeeds or fails.                                        *)
(***************************************************************************)
EXTENDS Naturals, Sequences, FiniteSets

CONSTANTS
    UPLOAD_RETRIES,   \* attempts of one transmission (2 in the code)
    Uploads,          \* bound: designs sent, one after the other
    Names,            \* file names of the machine; one design fills one
    FreeReported      \* may a session answer carry the free memory? may it not?

ASSUME RetriesAssumption ==
    {UPLOAD_RETRIES, Uploads} \subseteq Nat \ {0} /\ FreeReported \subseteq BOOLEAN

Upload  == 1 .. Uploads
Attempt == 1 .. UPLOAD_RETRIES
Error   == {"UnsupportedFormat", "FileTooLarge", "InsufficientStorage", "Rejected",
            "Unreachable", "UploadFailed"}
\* with_retries returns these at once; everything else is tried again.
NotRetried == {"Rejected", "FileTooLarge", "InsufficientStorage", "UnsupportedFormat"}

VARIABLES
    cur,       \* the upload being run
    at,        \* where it stands
    attempt,   \* transmissions begun for it
    before,    \* file names listed by the session read before sending
    files,     \* the machine's memory: the upload each used name holds
    wire,      \* transmissions that reached the machine, still to be handled
    reply,     \* its answers on their way back
    seen,      \* history: how each transmission of an upload looked to the client
    copies,    \* history: copies of each upload the machine stored
    result,    \* what each upload returned: "none", "ok" or an error
    storedAs   \* the receipt's name, as a set of at most one

vars == <<cur, at, attempt, before, files, wire, reply, seen, copies, result, storedAs>>
machine == <<files, wire, reply, copies>>

Used == DOMAIN files
Free == Cardinality(Names \ Used)

Init ==
    /\ cur = 1 /\ at = "format" /\ attempt = 0 /\ before = {}
    /\ files = [n \in {} |-> 1]
    /\ wire = {} /\ reply = {}
    /\ seen = [u \in Upload |-> <<>>]
    /\ copies = [u \in Upload |-> 0]
    /\ result = [u \in Upload |-> "none"]
    /\ storedAs = [u \in Upload |-> {}]

-----------------------------------------------------------------------------
(* The client.                                                             *)

\* upload returns; the worker turns to the next design.
Return(res, name) ==
    /\ result' = [result EXCEPT ![cur] = res]
    /\ storedAs' = [storedAs EXCEPT ![cur] = name]
    /\ cur' = cur + 1
    /\ at' = IF cur < Uploads THEN "format" ELSE "idle"
    /\ attempt' = 0 /\ before' = {}

GoOn(where) ==
    /\ at' = where
    /\ UNCHANGED <<cur, attempt, result, storedAs>>

\* 1. The format gate.
CheckFormat ==
    /\ at = "format"
    /\ \/ Return("UnsupportedFormat", {})
       \/ GoOn("info") /\ UNCHANGED before
    /\ UNCHANGED <<machine, seen>>

\* 2. fetch_info and the size limit.
CheckSize ==
    /\ at = "info"
    /\ \/ \E e \in {"Unreachable", "FileTooLarge"} : Return(e, {})
       \/ GoOn("session") /\ UNCHANGED before
    /\ UNCHANGED <<machine, seen>>

\* 3. fetch_session: the file list, and the free memory unless the answer
\* leaves it out.
CheckFree ==
    /\ at = "session"
    /\ \/ \E e \in {"Unreachable", "Rejected"} : Return(e, {})
       \/ \E reported \in FreeReported :
             IF reported /\ Free = 0
             THEN Return("InsufficientStorage", {})
             ELSE GoOn("send") /\ before' = Used
    /\ UNCHANGED <<machine, seen>>

\* 4. One transmission; it may be lost on the way.
Send ==
    /\ at = "send"
    /\ at' = "answer"
    /\ attempt' = attempt + 1
    /\ wire' \in {wire, wire \cup {<<cur, attempt + 1>>}}
    /\ UNCHANGED <<cur, before, files, reply, seen, copies, result, storedAs>>

\* The end of an attempt: the next one, or the upload's error.
MoreAttemptsByOne == attempt <= UPLOAD_RETRIES   \* mutant: off by one

MoreAttempts == attempt < UPLOAD_RETRIES

AttemptFailedAsksAgain(e) ==   \* mutant: the checks are inside the retried block
    /\ seen' = [seen EXCEPT ![cur] = Append(@, e)]
    /\ IF e \notin NotRetried /\ MoreAttempts
       THEN GoOn("session") /\ UNCHANGED before
       ELSE Return(e, {})

AttemptFailed(e) ==
    /\ seen' = [seen EXCEPT ![cur] = Append(@, e)]
    /\ IF e \notin NotRetried /\ MoreAttempts
       THEN GoOn("send") /\ UNCHANGED before
       ELSE Return(e, {})

AnswerAnything ==   \* mutant: takes every status for a success
    /\ at = "answer"
    /\ \E status \in {"stored", "refused"} :
          /\ <<cur, attempt, status>> \in reply
          /\ reply' = reply \ {<<cur, attempt, status>>}
    /\ seen' = [seen EXCEPT ![cur] = Append(@, "ok")]
    /\ GoOn("after") /\ UNCHANGED <<before, files, wire, copies>>

Answer ==
    /\ at = "answer"
    /\ \E status \in {"stored", "refused"} :
          /\ <<cur, attempt, status>> \in reply
          /\ reply' = reply \ {<<cur, attempt, status>>}
          /\ IF status = "stored"
             THEN GoOn("after") /\ seen' = [seen EXCEPT ![cur] = Append(@, "ok")]
                                /\ UNCHANGED before
             ELSE AttemptFailed("UploadFailed")
    /\ UNCHANGED <<files, wire, copies>>

\* A transport error or the upload timeout; an answer still to come is dropped.
NoTimeout == at = "answer" /\ FALSE /\ UNCHANGED vars   \* mutant: waits for ever

GiveUp ==
    /\ at = "answer"
    /\ AttemptFailed("Unreachable")
    /\ reply' = {r \in reply : r[1] # cur}
    /\ UNCHANGED <<files, wire, copies>>

\* 5. The new file's name, when the machine can still be asked.
After ==
    /\ at = "after"
    /\ \/ Return("ok", {})
       \/ IF Used \subseteq before THEN Return("ok", {})
          ELSE \E n \in Used \ before : Return("ok", {n})
    /\ UNCHANGED <<machine, seen>>

-----------------------------------------------------------------------------
(* The machine.                                                            *)

Waiting(r) == r[1] = cur /\ r[2] = attempt /\ at = "answer"

Store(r) ==
    /\ r \in wire
    /\ wire' = wire \ {r}
    /\ \E n \in Names \ Used :
          files' = [m \in Used \cup {n} |-> IF m = n THEN r[1] ELSE files[m]]
    /\ copies' = [copies EXCEPT ![r[1]] = @ + 1]
    /\ reply' = IF Waiting(r) THEN reply \cup {<<r[1], r[2], "stored">>} ELSE reply
    /\ UNCHANGED <<cur, at, attempt, before, seen, result, storedAs>>

Refuse(r) ==
    /\ r \in wire
    /\ wire' = wire \ {r}
    /\ reply' = IF Waiting(r) THEN reply \cup {<<r[1], r[2], "refused">>} ELSE reply
    /\ UNCHANGED <<cur, at, attempt, before, files, seen, copies, result, storedAs>>

Delete(n) ==
    /\ n \in Used
    /\ files' = [m \in Used \ {n} |-> files[m]]
    /\ UNCHANGED <<cur, at, attempt, before, wire, reply, seen, copies, result, storedAs>>

Client == CheckFormat \/ CheckSize \/ CheckFree \/ Send \/ Answer \/ GiveUp \/ After

Next ==
    \/ Client
    \/ \E r \in Upload \X Attempt : Store(r) \/ Refuse(r)
    \/ \E n \in Names : Delete(n)

\* Every call of the client has a timeout; nothing is asked of the machine.
Spec == Init /\ [][Next]_vars /\ WF_vars(Client)

-----------------------------------------------------------------------------
\* Types: no upload is transmitted more than UPLOAD_RETRIES times.
TypeOK ==
    /\ cur \in 1 .. (Uploads + 1)
    /\ at \in {"format", "info", "session", "send", "answer", "after", "idle"}
    /\ attempt \in 0 .. UPLOAD_RETRIES
    /\ before \subseteq Names
    /\ Used \subseteq Names /\ files \in [Used -> Upload]
    /\ wire \subseteq Upload \X Attempt
    /\ reply \subseteq Upload \X Attempt \X {"stored", "refused"}
    /\ seen \in [Upload -> Seq(Error \cup {"ok"})]
    /\ copies \in [Upload -> Nat]
    /\ result \in [Upload -> Error \cup {"ok", "none"}]
    /\ storedAs \in [Upload -> SUBSET Names]

\* A job that ends well was stored: no retry, refusal or lost answer turns
\* into a success.
OkMeansStored == \A u \in Upload : result[u] = "ok" => copies[u] > 0

\* "Uploads are retried at most once more": whatever is lost or late, even
\* after the upload returned, the machine stores a design at most
\* UPLOAD_RETRIES times.
CopiesBounded ==
    \A u \in Upload :
        copies[u] + Cardinality({r \in wire : r[1] = u}) <= UPLOAD_RETRIES

\* A design refused before it was sent leaves nothing behind: no copy of it is
\* stored, then or later.
RefusedLeavesNothing ==
    \A u \in Upload : result[u] \in NotRetried =>
        copies[u] = 0 /\ \A r \in wire : r[1] # u

\* The worker gets free: every upload ends, however the machine behaves.
EveryUploadEnds == \A u \in Upload : (cur = u) ~> (result[u] # "none")

-----------------------------------------------------------------------------
(* What the comments say and the code does not do.                         *)

\* jobs.rs: stored_as is the "machine-assigned filename after a successful
\* upload": the name on the receipt holds this upload's design.
StoredAsIsThisDesign ==
    [][\A u \in Upload : storedAs'[u] # storedAs[u] =>
          \A n \in storedAs'[u] : files[n] = u]_vars
=============================================================================
