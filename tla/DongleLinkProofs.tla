-------------------------- MODULE DongleLinkProofs --------------------------
(***************************************************************************)
(* However many commands time out, and whatever the dongle still has to    *)
(* say about their requests, a command takes only the answer to its own.   *)
(***************************************************************************)
EXTENDS DongleLink, TLAPS

\* Who talks holds the lock.  The port is open to whom talks on it, and for a
\* while to whom did.
Talking == {"send", "answer", "stream", "collect"}
Holding == Talking \cup {"closing"}
LockInv ==
    /\ \A c \in Callers : at(c) \in Talking \cup {"open"} => SESSION = c
    /\ \A c \in Callers : at(c) \in Holding <=> port = c

\* What a command has asked last.
AskedInv ==
    \A c \in Callers :
        /\ at(c) \in {"answer", "stream", "collect"} =>
              caller[c].req \in Request /\ caller[c].req.cmd = caller[c].cmd
        /\ at(c) \in {"stream", "collect"} => caller[c].cmd = "update"
        /\ at(c) = "stream" => caller[c].left # 0
        /\ at(c) \in {"lock", "open"} => caller[c].cmd # "pair"

\* The dongle says yes to what it did, or that it is ready for an image.
YesInv ==
    /\ \A i \in DOMAIN toHost : toHost[i].kind = "answer" /\ toHost[i].ok =>
          toHost[i].to \in effected \/ toHost[i].to.cmd = "update"
    /\ tokens # NoRequest => tokens.cmd = "pair" /\ tokens \in effected

AtWork == dongle.at \in {"busy", "updating"}

\* The requests under way have numbers of this run of the app.
NumberInv ==
    ~straddled =>
        /\ \A i \in DOMAIN toDongle : toDongle[i] # Chunk => toDongle[i].id < NEXT_ID
        /\ AtWork => dongle.req.id < NEXT_ID
        /\ \A i \in DOMAIN toHost : toHost[i].kind = "answer" => toHost[i].to.id < NEXT_ID
        /\ \A c \in Callers : at(c) = "answer" => caller[c].req.id < NEXT_ID

\* Where the request r of a command waiting for its answer can be: the last on
\* its way, with the dongle, or answered; the answers to it are the last ones,
\* and only the first of them can be a yes.
WaitingInv(r) ==
    /\ \A i \in DOMAIN toDongle : toDongle[i].id = r.id => i = Len(toDongle) /\ toDongle[i] = r
    /\ AtWork /\ dongle.req.id = r.id => dongle.req = r /\ toDongle = <<>>
    /\ dongle.at = "updating" /\ dongle.req = r => dongle.missing = ImageSize
    /\ \A i \in DOMAIN toHost : toHost[i].kind = "answer" /\ toHost[i].to.id = r.id =>
          /\ toHost[i].to = r /\ toDongle = <<>> /\ dongle.at # "busy"
          /\ dongle.at = "updating" => dongle.req = r
          /\ \A j \in DOMAIN toHost : i < j /\ toHost[j].kind = "answer" =>
                toHost[j].to = r /\ ~toHost[j].ok

\* Once the dongle is ready for the image of r, it speaks of r only.
StreamingInv(r) ==
    /\ \A i \in DOMAIN toDongle : toDongle[i] = Chunk
    /\ dongle.at # "busy" /\ (dongle.at = "updating" => dongle.req = r)
    /\ \A i \in DOMAIN toHost : toHost[i].kind = "answer" =>
          toHost[i].to = r /\ (toHost[i].ok => r \in effected)

LinkInv ==
    ~straddled => \A c \in Callers :
        /\ at(c) = "answer" => WaitingInv(caller[c].req)
        /\ at(c) \in {"stream", "collect"} => StreamingInv(caller[c].req)

\* The inductive invariant.
IInv ==
    /\ TypeOK /\ LockInv /\ AskedInv /\ YesInv /\ NumberInv /\ LinkInv
    /\ AnswersOwnRequest /\ OkMeansDone

Line   == [kind : {"answer"}, to : Request, ok : BOOLEAN] \cup {Noise, Event}
Result == {"none", "ok", "failed", "gone", "taken", "paired", "unpaired"}
Caller == [at : {"idle", "lock", "open", "send", "answer", "stream", "collect", "closing",
                 "returned"},
           cmd : Command, req : Request \cup {NoRequest}, by : Request \cup {NoRequest},
           left : 0 .. ImageSize, result : Result]
Doing  == {Idle, [at |-> "reboot"]} \cup [at : {"busy"}, req : Request]
          \cup [at : {"updating"}, req : Request, missing : 0 .. ImageSize, spoilt : BOOLEAN]

-----------------------------------------------------------------------------
(* Pipes and records.                                                      *)

\* What Append puts where.
LEMMA AppendAt ==
    ASSUME NEW S, NEW s \in Seq(S), NEW x \in S
    PROVE  /\ Append(s, x) \in Seq(S) /\ Len(Append(s, x)) = Len(s) + 1
           /\ Append(s, x) # <<>>
           /\ \A i \in DOMAIN Append(s, x) :
                 \/ i \in DOMAIN s /\ Append(s, x)[i] = s[i]
                 \/ i = Len(s) + 1 /\ Append(s, x)[i] = x
OBVIOUS

\* What Tail leaves where.
LEMMA TailAt ==
    ASSUME NEW S, NEW s \in Seq(S), s # <<>>
    PROVE  /\ Tail(s) \in Seq(S) /\ Len(Tail(s)) = Len(s) - 1
           /\ 1 \in DOMAIN s /\ Head(s) = s[1] /\ Head(s) \in S
           /\ \A i \in DOMAIN Tail(s) : i + 1 \in DOMAIN s /\ 1 < i + 1 /\ Tail(s)[i] = s[i + 1]
OBVIOUS

\* What a line said comes to.
LEMMA SaidAt ==
    ASSUME toHost \in Seq(Line), Len(toHost) <= PipeSize, NEW x \in Line, Say(x)
    PROVE  /\ toHost' \in Seq(Line) /\ Len(toHost') <= PipeSize
           /\ \A j \in DOMAIN toHost' :
                 \/ j \in DOMAIN toHost /\ toHost'[j] = toHost[j]
                 \/ j = Len(toHost) + 1 /\ toHost'[j] \in {x, Noise}
<1>1. CASE UNCHANGED toHost
  BY <1>1
<1>2. CASE Len(toHost) < PipeSize /\ \E said \in {x, Noise} : toHost' = Append(toHost, said)
  <2>1. PICK said \in {x, Noise} : toHost' = Append(toHost, said)
    BY <1>2
  <2>2. said \in Line
    BY DEF Line
  <2>3. /\ toHost' \in Seq(Line) /\ Len(toHost') = Len(toHost) + 1
        /\ \A j \in DOMAIN toHost' :
              \/ j \in DOMAIN toHost /\ toHost'[j] = toHost[j]
              \/ j = Len(toHost) + 1 /\ toHost'[j] = said
    BY <2>1, <2>2, AppendAt
  <2>4. Len(toHost') <= PipeSize
    BY <1>2, <2>3, LinkAssumption
  <2> QED
    BY <2>3, <2>4
<1> QED
  BY <1>1, <1>2 DEF Say

\* A line is an answer or noise.
LEMMA LineKinds ==
    /\ Noise.kind # "answer" /\ Event.kind # "answer"
    /\ \A x \in Line : x.kind = "answer" => x.to \in Request /\ x.ok \in BOOLEAN
    /\ \A r \in Request : \A ok \in BOOLEAN :
          /\ Answer(r, ok) \in Line /\ Answer(r, ok).kind = "answer"
          /\ Answer(r, ok).to = r /\ Answer(r, ok).ok = ok
    /\ \A r \in Request : r # Chunk /\ r # NoRequest /\ r.cmd \in Command /\ r.id \in Nat \ {0}
<1>1. Noise.kind # "answer" /\ Event.kind # "answer"
  BY DEF Noise, Event
<1>2. \A x \in Line : x.kind = "answer" => x.to \in Request /\ x.ok \in BOOLEAN
  BY <1>1 DEF Line
<1>3. \A r \in Request : \A ok \in BOOLEAN :
          /\ Answer(r, ok) \in Line /\ Answer(r, ok).kind = "answer"
          /\ Answer(r, ok).to = r /\ Answer(r, ok).ok = ok
  BY DEF Line, Answer
<1>4. \A r \in Request : r.cmd \in Command /\ r.id \in Nat \ {0}
  BY DEF Request
<1>5. \A r \in Request : r # Chunk /\ r # NoRequest
  BY <1>4 DEF Chunk, NoRequest
<1> QED
  BY <1>1, <1>2, <1>3, <1>4, <1>5

\* Where the dongle stands.
LEMMA DoingKinds ==
    \A d \in Doing :
        /\ d.at \in {"idle", "reboot", "busy", "updating"}
        /\ d.at = "busy" => d \in [at : {"busy"}, req : Request]
        /\ d.at = "updating" => d \in [at : {"updating"}, req : Request,
                                       missing : 0 .. ImageSize, spoilt : BOOLEAN]
        /\ d.at \in {"busy", "updating"} => d.req \in Request
BY DEF Doing, Idle

-----------------------------------------------------------------------------
(* Types.                                                                  *)

\* A command that returns, at once or with its port still to be closed.
Back(k, stage, res, by) == [k EXCEPT !.at = stage, !.result = res, !.by = by]
Stage(c) == IF Lingers(c) THEN "closing" ELSE "returned"

LEMMA ReturnTypes ==
    ASSUME TypeOK, LockInv, NEW c \in Callers, at(c) \in Talking \cup {"open"},
           NEW res \in Result, NEW by \in Request \cup {NoRequest}, Return(c, res, by)
    PROVE  \E k \in Caller :
              /\ caller' = [caller EXCEPT ![c] = k]
              /\ k.at \in {"closing", "returned"} /\ k.result = res /\ k.by = by
              /\ k.req = caller[c].req
              /\ SESSION' = Nobody /\ port' \in {port, Nobody}
              /\ port' # port => port = c
              /\ k.at \in Holding <=> port' = c
              /\ at(c) \in Talking => port = c
<1> DEFINE k == Back(caller[c], Stage(c), res, by)
<1>1. caller \in [Callers -> Caller]
  BY DEF TypeOK, Caller, Result
<1>2. Stage(c) \in {"closing", "returned"}
  BY DEF Stage
<1>3. /\ k \in Caller /\ k.at = Stage(c) /\ k.result = res /\ k.by = by
      /\ k.req = caller[c].req
  BY <1>1, <1>2 DEF Caller, Back
<1>4. caller' = [caller EXCEPT ![c] = k]
  BY <1>1 DEF Return, Back, Stage
<1>5. SESSION' = Nobody
  BY DEF Return, LockInv
<1>6. /\ port' \in {port, Nobody} /\ (port' # port => port = c)
      /\ Stage(c) = "closing" <=> port' = c
  BY NobodyAssumption DEF Return, Stage, Lingers
<1>7. Stage(c) \in Holding <=> Stage(c) = "closing"
  BY <1>2 DEF Holding, Talking
<1>8. at(c) \in Talking => port = c
  BY DEF LockInv, Holding
<1> HIDE DEF k
<1> QED
  BY <1>2, <1>3, <1>4, <1>5, <1>6, <1>7, <1>8

-----------------------------------------------------------------------------
(* The dongle and its cable.                                               *)

\* What the dongle or its cable does keeps the invariant if it keeps the parts
\* about the wire.
LEMMA FarSide ==
    ASSUME IInv, UNCHANGED <<lock, numbers, caller, tokens>>,
           toDongle' \in Seq(Request \cup {Chunk}), Len(toDongle') <= PipeSize,
           toHost' \in Seq(Line), Len(toHost') <= PipeSize,
           plugged' \in BOOLEAN, pulls' \in 0 .. MaxPulls,
           dongle' \in Doing, effected' \subseteq Request, effected \subseteq effected',
           \A i \in DOMAIN toHost' : toHost'[i].kind = "answer" /\ toHost'[i].ok =>
               toHost'[i].to \in effected' \/ toHost'[i].to.cmd = "update",
           ~straddled =>
               /\ \A i \in DOMAIN toDongle' : toDongle'[i] # Chunk => toDongle'[i].id < NEXT_ID
               /\ AtWork' => dongle'.req.id < NEXT_ID
               /\ \A i \in DOMAIN toHost' :
                     toHost'[i].kind = "answer" => toHost'[i].to.id < NEXT_ID,
           ~straddled => \A c \in Callers :
               /\ at(c) = "answer" => WaitingInv(caller[c].req)'
               /\ at(c) \in {"stream", "collect"} => StreamingInv(caller[c].req)'
    PROVE  IInv'
<1> USE DEF lock, numbers
<1>1. TypeOK'
  BY DEF IInv, TypeOK, Line, Doing, at
<1>2. LockInv' /\ AskedInv'
  BY DEF IInv, LockInv, AskedInv, at
<1>3. YesInv'
  BY DEF IInv, YesInv
<1>4. NumberInv'
  BY DEF IInv, NumberInv, at
<1>5. LinkInv'
  BY DEF LinkInv, at
<1>6. AnswersOwnRequest'
  BY DEF IInv, AnswersOwnRequest
<1>7. OkMeansDone'
  BY DEF IInv, OkMeansDone, at
<1> QED
  BY <1>1, <1>2, <1>3, <1>4, <1>5, <1>6, <1>7 DEF IInv

\* What is known of the wire.
LEMMA WireTypes ==
    ASSUME IInv
    PROVE  /\ toDongle \in Seq(Request \cup {Chunk}) /\ Len(toDongle) <= PipeSize
           /\ toHost \in Seq(Line) /\ Len(toHost) <= PipeSize
           /\ plugged \in BOOLEAN /\ pulls \in 0 .. MaxPulls
           /\ dongle \in Doing /\ effected \subseteq Request
           /\ straddled \in BOOLEAN /\ NEXT_ID \in Nat \ {0}
           /\ \A c \in Callers : at(c) \in {"answer", "stream", "collect"} =>
                 caller[c].req \in Request
           /\ \A i \in DOMAIN toHost : toHost[i].kind = "answer" /\ toHost[i].ok =>
                 toHost[i].to \in effected \/ toHost[i].to.cmd = "update"
BY DEF IInv, TypeOK, Line, Doing, AskedInv, YesInv

\* TakeUp keeps the invariant.
LEMMA TakeUpStep == ASSUME IInv, TakeUp PROVE IInv'
<1>1. /\ toDongle # <<>> /\ toDongle' = Tail(toDongle) /\ dongle.at = "idle"
      /\ dongle' = IF Head(toDongle) = Chunk THEN Idle
                   ELSE [at |-> "busy", req |-> Head(toDongle)]
      /\ UNCHANGED <<lock, numbers, caller, toHost, usb, effected, tokens>>
  BY DEF TakeUp
<1>2. /\ toDongle' \in Seq(Request \cup {Chunk}) /\ Len(toDongle') = Len(toDongle) - 1
      /\ 1 \in DOMAIN toDongle /\ Head(toDongle) = toDongle[1]
      /\ Head(toDongle) \in Request \cup {Chunk}
      /\ \A i \in DOMAIN toDongle' : i + 1 \in DOMAIN toDongle /\ toDongle'[i] = toDongle[i + 1]
  BY <1>1, WireTypes, TailAt
<1>3. Len(toDongle') <= PipeSize
  BY <1>2, WireTypes, LinkAssumption
<1>4. dongle' \in Doing
  BY <1>1, <1>2 DEF Doing
<1>5. /\ AtWork' => dongle' = [at |-> "busy", req |-> Head(toDongle)] /\ Head(toDongle) # Chunk
      /\ Idle.at = "idle"
  BY <1>1 DEF AtWork, Idle
<1>6. ~straddled =>
          /\ \A i \in DOMAIN toDongle' : toDongle'[i] # Chunk => toDongle'[i].id < NEXT_ID
          /\ AtWork' => dongle'.req.id < NEXT_ID
          /\ \A i \in DOMAIN toHost' :
                toHost'[i].kind = "answer" => toHost'[i].to.id < NEXT_ID
  BY <1>1, <1>2, <1>5 DEF IInv, NumberInv
<1>7. ASSUME ~straddled, NEW c \in Callers, at(c) = "answer"
      PROVE  WaitingInv(caller[c].req)'
  <2> DEFINE r == caller[c].req
  <2>1. WaitingInv(r) /\ r \in Request /\ r # Chunk
    BY <1>7, WireTypes, LineKinds DEF IInv, LinkInv
  <2>2. /\ r' = r
        /\ \A i \in DOMAIN toHost : toHost[i].kind = "answer" => toHost[i].to.id # r.id
    BY <1>1, <2>1 DEF WaitingInv
  <2>3. \A i \in DOMAIN toDongle' :
            toDongle'[i].id = r.id => i = Len(toDongle') /\ toDongle'[i] = r
    BY <1>2, <2>1, WireTypes DEF WaitingInv
  <2>4. Head(toDongle).id = r.id => Head(toDongle) = r /\ toDongle' = <<>>
    BY <1>2, <2>1, WireTypes DEF WaitingInv
  <2>5. AtWork' => dongle'.at = "busy" /\ dongle'.req = Head(toDongle)
    BY <1>5
  <2>6. AtWork' /\ dongle'.req.id = r.id => dongle'.req = r /\ toDongle' = <<>>
    BY <2>4, <2>5
  <2>7. dongle'.at # "updating"
    BY <2>5 DEF AtWork
  <2> QED
    BY <1>1, <2>2, <2>3, <2>6, <2>7 DEF WaitingInv
<1>8. ASSUME ~straddled, NEW c \in Callers, at(c) \in {"stream", "collect"}
      PROVE  StreamingInv(caller[c].req)'
  <2>1. StreamingInv(caller[c].req)
    BY <1>8 DEF IInv, LinkInv
  <2>2. Head(toDongle) = Chunk
    BY <1>2, <2>1 DEF StreamingInv
  <2>3. dongle' = Idle
    BY <1>1, <2>2
  <2> QED
    BY <1>1, <1>2, <2>1, <2>3 DEF StreamingInv, Idle
<1> QED
  BY <1>1, <1>2, <1>3, <1>4, <1>6, <1>7, <1>8, WireTypes, FarSide DEF usb

\* Answers keeps the invariant.
LEMMA AnswersStep == ASSUME IInv, Answers PROVE IInv'
<1> DEFINE q == dongle.req
<1>1. PICK ok \in BOOLEAN :
          /\ Say(Answer(q, ok))
          /\ effected' = IF ok /\ q.cmd # "update" THEN effected \cup {q} ELSE effected
          /\ dongle' = IF ok /\ q.cmd = "update"
                       THEN [at |-> "updating", req |-> q, missing |-> ImageSize,
                             spoilt |-> FALSE]
                       ELSE Idle
  BY DEF Answers
<1>2. /\ dongle.at = "busy"
      /\ UNCHANGED <<lock, numbers, caller, toDongle, usb, tokens>>
  BY DEF Answers
<1>3. /\ q \in Request /\ Answer(q, ok) \in Line /\ Answer(q, ok).kind = "answer"
      /\ Answer(q, ok).to = q /\ Answer(q, ok).ok = ok /\ Noise.kind # "answer"
  BY <1>2, WireTypes, DoingKinds, LineKinds
<1>4. /\ toHost' \in Seq(Line) /\ Len(toHost') <= PipeSize
      /\ \A j \in DOMAIN toHost' :
            \/ j \in DOMAIN toHost /\ toHost'[j] = toHost[j]
            \/ j = Len(toHost) + 1 /\ toHost'[j] \in {Answer(q, ok), Noise}
  BY <1>1, <1>3, WireTypes, SaidAt
<1>5. dongle' \in Doing /\ effected' \subseteq Request /\ effected \subseteq effected'
  <2>1. ImageSize \in 0 .. ImageSize
    BY LinkAssumption
  <2> QED
    BY <1>1, <1>3, <2>1, WireTypes DEF Doing
<1>6. /\ dongle' = Idle \/ dongle' = [at |-> "updating", req |-> q, missing |-> ImageSize,
                                      spoilt |-> FALSE]
      /\ Idle.at = "idle"
  BY <1>1 DEF Idle
<1>7. \A i \in DOMAIN toHost' : toHost'[i].kind = "answer" /\ toHost'[i].ok =>
          toHost'[i].to \in effected' \/ toHost'[i].to.cmd = "update"
  BY <1>1, <1>3, <1>4, <1>5, WireTypes
<1>8. ~straddled =>
          /\ \A i \in DOMAIN toDongle' : toDongle'[i] # Chunk => toDongle'[i].id < NEXT_ID
          /\ AtWork' => dongle'.req.id < NEXT_ID
          /\ \A i \in DOMAIN toHost' :
                toHost'[i].kind = "answer" => toHost'[i].to.id < NEXT_ID
  BY <1>2, <1>3, <1>4, <1>6 DEF IInv, NumberInv, AtWork
<1>9. ASSUME ~straddled, NEW c \in Callers, at(c) = "answer"
      PROVE  WaitingInv(caller[c].req)'
  <2> DEFINE r == caller[c].req
  <2>1. WaitingInv(r) /\ r' = r
    BY <1>2, <1>9 DEF IInv, LinkInv
  <2>2. \A i \in DOMAIN toHost : toHost[i].kind = "answer" => toHost[i].to.id # r.id
    BY <1>2, <2>1 DEF WaitingInv
  <2>3. q.id = r.id => q = r /\ toDongle = <<>>
    BY <1>2, <2>1 DEF WaitingInv, AtWork
  <2>4. \A i \in DOMAIN toHost' : toHost'[i].kind = "answer" /\ toHost'[i].to.id = r.id =>
            i = Len(toHost) + 1 /\ toHost'[i] = Answer(q, ok) /\ q.id = r.id
    BY <1>3, <1>4, <2>2
  <2>5. \A i, j \in DOMAIN toHost' : i = Len(toHost) + 1 => ~(i < j)
    BY <1>4, WireTypes
  <2>a. /\ toDongle' = toDongle
        /\ \A i \in DOMAIN toDongle : toDongle[i].id = r.id => i = Len(toDongle) /\ toDongle[i] = r
    BY <1>2, <2>1 DEF WaitingInv
  <2>6. AtWork' /\ dongle'.req.id = r.id => dongle'.req = r /\ toDongle' = <<>>
    BY <1>6, <2>3, <2>a DEF AtWork
  <2>7. dongle'.at = "updating" /\ dongle'.req = r => dongle'.missing = ImageSize
    BY <1>6
  <2>8. \A i \in DOMAIN toHost' : toHost'[i].kind = "answer" /\ toHost'[i].to.id = r.id =>
          /\ toHost'[i].to = r /\ toDongle' = <<>> /\ dongle'.at # "busy"
          /\ dongle'.at = "updating" => dongle'.req = r
          /\ \A j \in DOMAIN toHost' : i < j /\ toHost'[j].kind = "answer" =>
                toHost'[j].to = r /\ ~toHost'[j].ok
    BY <1>3, <1>6, <2>3, <2>4, <2>5, <2>a
  <2> QED
    BY <2>1, <2>a, <2>6, <2>7, <2>8 DEF WaitingInv
<1>10. ASSUME ~straddled, NEW c \in Callers PROVE at(c) \notin {"stream", "collect"}
  BY <1>2, <1>10 DEF IInv, LinkInv, StreamingInv
<1>12. plugged' \in BOOLEAN /\ pulls' \in 0 .. MaxPulls
       /\ toDongle' \in Seq(Request \cup {Chunk}) /\ Len(toDongle') <= PipeSize
  BY <1>2, WireTypes DEF usb
<1> QED
  BY <1>2, <1>4, <1>5, <1>7, <1>8, <1>9, <1>10, <1>12, FarSide

\* Flash keeps the invariant: a request eaten by an older update gets no answer.
LEMMA FlashStep == ASSUME IInv, Flash PROVE IInv'
<1>1. /\ dongle.at = "updating" /\ dongle.missing > 0 /\ toDongle # <<>>
      /\ dongle' = [dongle EXCEPT !.missing = @ - 1, !.spoilt = @ \/ Head(toDongle) # Chunk]
      /\ toDongle' = Tail(toDongle)
      /\ UNCHANGED <<lock, numbers, caller, toHost, usb, effected, tokens>>
  BY DEF Flash
<1>2. /\ toDongle' \in Seq(Request \cup {Chunk}) /\ Len(toDongle') = Len(toDongle) - 1
      /\ \A i \in DOMAIN toDongle' : i + 1 \in DOMAIN toDongle /\ toDongle'[i] = toDongle[i + 1]
  BY <1>1, WireTypes, TailAt
<1>3. Len(toDongle') <= PipeSize
  BY <1>2, WireTypes, LinkAssumption
<1>4. dongle \in [at : {"updating"}, req : Request, missing : 0 .. ImageSize, spoilt : BOOLEAN]
  BY <1>1, WireTypes, DoingKinds
<1>5. /\ dongle' \in [at : {"updating"}, req : Request, missing : 0 .. ImageSize,
                      spoilt : BOOLEAN]
      /\ dongle'.req = dongle.req /\ dongle'.at = "updating"
  <2>1. dongle.missing - 1 \in 0 .. ImageSize
    BY <1>1, <1>4, LinkAssumption
  <2>2. (dongle.spoilt \/ Head(toDongle) # Chunk) \in BOOLEAN
    BY <1>4
  <2> QED
    BY <1>1, <1>4, <2>1, <2>2
<1>6. dongle' \in Doing
  BY <1>5 DEF Doing
<1>7. ~straddled =>
          /\ \A i \in DOMAIN toDongle' : toDongle'[i] # Chunk => toDongle'[i].id < NEXT_ID
          /\ AtWork' => dongle'.req.id < NEXT_ID
          /\ \A i \in DOMAIN toHost' :
                toHost'[i].kind = "answer" => toHost'[i].to.id < NEXT_ID
  BY <1>1, <1>2, <1>5 DEF IInv, NumberInv, AtWork
<1>8. ASSUME ~straddled, NEW c \in Callers, at(c) = "answer"
      PROVE  WaitingInv(caller[c].req)'
  <2> DEFINE r == caller[c].req
  <2>1. WaitingInv(r) /\ r' = r
    BY <1>1, <1>8 DEF IInv, LinkInv
  <2>2. dongle.req.id # r.id
    BY <1>1, <2>1 DEF WaitingInv, AtWork
  <2>3. \A i \in DOMAIN toDongle' :
            toDongle'[i].id = r.id => i = Len(toDongle') /\ toDongle'[i] = r
    BY <1>2, <2>1, WireTypes DEF WaitingInv
  <2>4. \A i \in DOMAIN toHost : toHost[i].kind = "answer" => toHost[i].to.id # r.id
    BY <1>1, <2>1 DEF WaitingInv
  <2>5. dongle'.req.id # r.id /\ dongle'.req # r
    BY <1>5, <2>2
  <2> QED
    BY <1>1, <2>1, <2>3, <2>4, <2>5 DEF WaitingInv, AtWork
<1>9. ASSUME ~straddled, NEW c \in Callers, at(c) \in {"stream", "collect"}
      PROVE  StreamingInv(caller[c].req)'
  <2>1. StreamingInv(caller[c].req)
    BY <1>9 DEF IInv, LinkInv
  <2> QED
    BY <1>1, <1>2, <1>5, <2>1 DEF StreamingInv
<1> QED
  BY <1>1, <1>2, <1>3, <1>6, <1>7, <1>8, <1>9, WireTypes, FarSide DEF usb

\* The end of an update keeps the invariant: only the update's own request is
\* answered, and with a yes only when its image is in place.
LEMMA UpdateEnds ==
    ASSUME IInv, NEW ok \in BOOLEAN, dongle.at = "updating",
           ok => dongle.missing = 0 /\ effected' = effected \cup {dongle.req},
           ~ok => effected' = effected,
           Say(Answer(dongle.req, ok)), dongle' \in {Idle, [at |-> "reboot"]},
           UNCHANGED <<lock, numbers, caller, toDongle, usb, tokens>>
    PROVE  IInv'
<1> DEFINE q == dongle.req
<1>3. /\ q \in Request /\ Answer(q, ok) \in Line /\ Answer(q, ok).kind = "answer"
      /\ Answer(q, ok).to = q /\ Answer(q, ok).ok = ok /\ Noise.kind # "answer"
  BY WireTypes, DoingKinds, LineKinds
<1>4. /\ toHost' \in Seq(Line) /\ Len(toHost') <= PipeSize
      /\ \A j \in DOMAIN toHost' :
            \/ j \in DOMAIN toHost /\ toHost'[j] = toHost[j]
            \/ j = Len(toHost) + 1 /\ toHost'[j] \in {Answer(q, ok), Noise}
  BY <1>3, WireTypes, SaidAt
<1>5. dongle' \in Doing /\ effected' \subseteq Request /\ effected \subseteq effected'
  BY <1>3, WireTypes DEF Doing
<1>6. dongle'.at \in {"idle", "reboot"}
  BY DEF Idle
<1>7. \A i \in DOMAIN toHost' : toHost'[i].kind = "answer" /\ toHost'[i].ok =>
          toHost'[i].to \in effected' \/ toHost'[i].to.cmd = "update"
  BY <1>3, <1>4, <1>5, WireTypes
<1>8. ~straddled =>
          /\ \A i \in DOMAIN toDongle' : toDongle'[i] # Chunk => toDongle'[i].id < NEXT_ID
          /\ AtWork' => dongle'.req.id < NEXT_ID
          /\ \A i \in DOMAIN toHost' :
                toHost'[i].kind = "answer" => toHost'[i].to.id < NEXT_ID
  BY <1>3, <1>4, <1>6 DEF IInv, NumberInv, AtWork
<1>9. ASSUME ~straddled, NEW c \in Callers, at(c) = "answer"
      PROVE  WaitingInv(caller[c].req)'
  <2> DEFINE r == caller[c].req
  <2>1. WaitingInv(r) /\ r' = r
    BY <1>9 DEF IInv, LinkInv
  <2>2. /\ toDongle' = toDongle
        /\ \A i \in DOMAIN toDongle : toDongle[i].id = r.id => i = Len(toDongle) /\ toDongle[i] = r
    BY <2>1 DEF WaitingInv
  <2>3. q.id = r.id => q = r /\ toDongle = <<>> /\ ~ok
    <3>1. q.id = r.id => q = r /\ toDongle = <<>> /\ dongle.missing = ImageSize
      BY <2>1 DEF WaitingInv, AtWork
    <3> QED
      BY <3>1, LinkAssumption
  <2>4. \A i \in DOMAIN toHost : toHost[i].kind = "answer" /\ toHost[i].to.id = r.id =>
            /\ toHost[i].to = r /\ q = r /\ toDongle = <<>>
            /\ \A j \in DOMAIN toHost : i < j /\ toHost[j].kind = "answer" =>
                  toHost[j].to = r /\ ~toHost[j].ok
    BY <2>1 DEF WaitingInv
  <2>5. \A i, j \in DOMAIN toHost' : i < j => i \in DOMAIN toHost /\ toHost'[i] = toHost[i]
    BY <1>4, WireTypes
  <2>6. ASSUME NEW i \in DOMAIN toHost', toHost'[i].kind = "answer", toHost'[i].to.id = r.id
        PROVE  /\ toHost'[i].to = r /\ toDongle' = <<>> /\ q = r /\ ~ok
    BY <1>3, <1>4, <2>2, <2>3, <2>4, <2>6
  <2>7. ASSUME NEW i \in DOMAIN toHost', toHost'[i].kind = "answer", toHost'[i].to.id = r.id,
               NEW j \in DOMAIN toHost', i < j, toHost'[j].kind = "answer"
        PROVE  toHost'[j].to = r /\ ~toHost'[j].ok
    <3>1. i \in DOMAIN toHost /\ toHost'[i] = toHost[i] /\ q = r /\ ~ok
      BY <2>5, <2>6, <2>7
    <3>2. CASE j \in DOMAIN toHost /\ toHost'[j] = toHost[j]
      BY <2>4, <2>7, <3>1, <3>2
    <3>3. CASE toHost'[j] \in {Answer(q, ok), Noise}
      BY <1>3, <2>7, <3>1, <3>3
    <3> QED
      BY <1>4, <3>2, <3>3
  <2>8. \A i \in DOMAIN toHost' : toHost'[i].kind = "answer" /\ toHost'[i].to.id = r.id =>
          /\ toHost'[i].to = r /\ toDongle' = <<>> /\ dongle'.at # "busy"
          /\ dongle'.at = "updating" => dongle'.req = r
          /\ \A j \in DOMAIN toHost' : i < j /\ toHost'[j].kind = "answer" =>
                toHost'[j].to = r /\ ~toHost'[j].ok
    BY <1>6, <2>6, <2>7
  <2> QED
    BY <1>6, <2>1, <2>2, <2>8 DEF WaitingInv, AtWork
<1>10. ASSUME ~straddled, NEW c \in Callers, at(c) \in {"stream", "collect"}
       PROVE  StreamingInv(caller[c].req)'
  <2> DEFINE r == caller[c].req
  <2>1. StreamingInv(r) /\ r' = r /\ q = r
    BY <1>10 DEF IInv, LinkInv, StreamingInv
  <2>2. \A i \in DOMAIN toHost' : toHost'[i].kind = "answer" =>
            toHost'[i].to = r /\ (toHost'[i].ok => r \in effected')
    BY <1>3, <1>4, <1>5, <2>1 DEF StreamingInv
  <2> QED
    BY <1>6, <2>1, <2>2 DEF StreamingInv
<1>12. plugged' \in BOOLEAN /\ pulls' \in 0 .. MaxPulls
       /\ toDongle' \in Seq(Request \cup {Chunk}) /\ Len(toDongle') <= PipeSize
  BY WireTypes DEF usb
<1> QED
  BY <1>4, <1>5, <1>7, <1>8, <1>9, <1>10, <1>12, FarSide

\* Verify and GiveUp keep the invariant.
LEMMA VerifyStep == ASSUME IInv, Verify PROVE IInv'
BY UpdateEnds DEF Verify

LEMMA GiveUpStep == ASSUME IInv, GiveUp PROVE IInv'
BY UpdateEnds DEF GiveUp

\* Noise changes nothing.
LEMMA ChatterStep == ASSUME IInv, Chatter PROVE IInv'
<1>1. PICK line \in {Noise, Event} : toHost' = Append(toHost, line)
  BY DEF Chatter
<1>a. /\ Len(toHost) < PipeSize
      /\ UNCHANGED <<lock, numbers, caller, toDongle, plugged, pulls, firmware, tokens>>
  BY DEF Chatter, usb
<1>2. /\ toHost' \in Seq(Line) /\ Len(toHost') = Len(toHost) + 1
      /\ \A j \in DOMAIN toHost' :
            \/ j \in DOMAIN toHost /\ toHost'[j] = toHost[j]
            \/ j = Len(toHost) + 1 /\ toHost'[j] = line
  <2>1. line \in Line
    BY DEF Line
  <2> QED
    BY <1>1, <2>1, WireTypes, AppendAt
<1>3. Len(toHost') <= PipeSize
  BY <1>1, <1>a, <1>2, WireTypes, LinkAssumption
<1>4. \A j \in DOMAIN toHost' : toHost'[j].kind = "answer" =>
          j \in DOMAIN toHost /\ toHost'[j] = toHost[j]
  BY <1>2, LineKinds
<1>5. \A i \in DOMAIN toHost' : toHost'[i].kind = "answer" /\ toHost'[i].ok =>
          toHost'[i].to \in effected' \/ toHost'[i].to.cmd = "update"
  BY <1>1, <1>a, <1>4, WireTypes DEF firmware
<1>6. ~straddled =>
          /\ \A i \in DOMAIN toDongle' : toDongle'[i] # Chunk => toDongle'[i].id < NEXT_ID
          /\ AtWork' => dongle'.req.id < NEXT_ID
          /\ \A i \in DOMAIN toHost' :
                toHost'[i].kind = "answer" => toHost'[i].to.id < NEXT_ID
  BY <1>1, <1>a, <1>4 DEF IInv, NumberInv, AtWork, firmware
<1>7. ASSUME ~straddled, NEW c \in Callers, at(c) = "answer"
      PROVE  WaitingInv(caller[c].req)'
  <2>1. WaitingInv(caller[c].req)
    BY <1>7 DEF IInv, LinkInv
  <2> QED
    BY <1>1, <1>a, <1>4, <2>1 DEF WaitingInv, AtWork, firmware
<1>8. ASSUME ~straddled, NEW c \in Callers, at(c) \in {"stream", "collect"}
      PROVE  StreamingInv(caller[c].req)'
  <2>1. StreamingInv(caller[c].req)
    BY <1>8 DEF IInv, LinkInv
  <2> QED
    BY <1>1, <1>a, <1>4, <2>1 DEF StreamingInv, firmware
<1>10. /\ plugged' \in BOOLEAN /\ pulls' \in 0 .. MaxPulls /\ dongle' \in Doing
       /\ effected' \subseteq Request /\ effected \subseteq effected'
       /\ toDongle' \in Seq(Request \cup {Chunk}) /\ Len(toDongle') <= PipeSize
  BY <1>1, <1>a, WireTypes DEF firmware
<1> QED
  BY <1>1, <1>a, <1>2, <1>3, <1>5, <1>6, <1>7, <1>8, <1>10, FarSide

\* A dongle that vanishes takes everything on the wire with it.
LEMMA VanishStep == ASSUME IInv, Vanish PROVE IInv'
<1>1. /\ plugged' = FALSE /\ pulls' = IF dongle.at = "reboot" THEN pulls ELSE pulls + 1
      /\ pulls < MaxPulls \/ dongle.at = "reboot"
      /\ toDongle' = <<>> /\ toHost' = <<>> /\ dongle' = Idle
      /\ UNCHANGED <<lock, numbers, caller, effected, tokens>>
  BY DEF Vanish
<1>2. pulls' \in 0 .. MaxPulls
  BY <1>1, WireTypes, LinkAssumption
<1>3. Idle.at = "idle" /\ Idle \in Doing
  BY DEF Idle, Doing
<1>4. /\ toDongle' \in Seq(Request \cup {Chunk}) /\ toHost' \in Seq(Line)
      /\ Len(toDongle') = 0 /\ Len(toHost') = 0 /\ DOMAIN toHost' = {} /\ DOMAIN toDongle' = {}
  BY <1>1
<1>5. Len(toDongle') <= PipeSize /\ Len(toHost') <= PipeSize
  BY <1>4, LinkAssumption
<1>6. ~AtWork'
  BY <1>1, <1>3 DEF AtWork
<1>7. \A c \in Callers : WaitingInv(caller[c].req)' /\ StreamingInv(caller[c].req)'
  BY <1>1, <1>3, <1>4, <1>6 DEF WaitingInv, StreamingInv
<1> QED
  BY <1>1, <1>2, <1>3, <1>4, <1>5, <1>6, <1>7, WireTypes, FarSide

\* Appear keeps the invariant.
LEMMA AppearStep == ASSUME IInv, Appear PROVE IInv'
<1>1. plugged' = TRUE /\ UNCHANGED <<lock, numbers, caller, wire, pulls, firmware, tokens>>
  BY DEF Appear
<1>2. UNCHANGED <<toDongle, toHost, dongle, effected>>
  BY <1>1 DEF wire, firmware
<1>3. ~straddled =>
          /\ \A i \in DOMAIN toDongle' : toDongle'[i] # Chunk => toDongle'[i].id < NEXT_ID
          /\ AtWork' => dongle'.req.id < NEXT_ID
          /\ \A i \in DOMAIN toHost' :
                toHost'[i].kind = "answer" => toHost'[i].to.id < NEXT_ID
  BY <1>2 DEF IInv, NumberInv, AtWork
<1>4. ~straddled => \A c \in Callers :
          /\ at(c) = "answer" => WaitingInv(caller[c].req)'
          /\ at(c) \in {"stream", "collect"} => StreamingInv(caller[c].req)'
  BY <1>1, <1>2 DEF IInv, LinkInv, WaitingInv, StreamingInv, AtWork
<1> QED
  BY <1>1, <1>2, <1>3, <1>4, WireTypes, FarSide

-----------------------------------------------------------------------------
(* The commands.                                                           *)

\* A step that takes the command c to k keeps the invariant if k fits the lock,
\* the numbers and the wire, and the others, one of which may be talking, are
\* left alone.
LEMMA NearSide ==
    ASSUME IInv, NEW c \in Callers, NEW k \in Caller, caller' = [caller EXCEPT ![c] = k],
           UNCHANGED <<epoch, straddled, usb, effected>>,
           {SESSION, port}' \subseteq Callers \cup {Nobody},
           NEXT_ID' \in Nat \ {0}, NEXT_ID <= NEXT_ID', invoked' \in 0 .. MaxCommands,
           toDongle' \in Seq(Request \cup {Chunk}), Len(toDongle') <= PipeSize,
           toHost' \in Seq(Line), Len(toHost') <= PipeSize,
           dongle' \in Doing, tokens' \in Request \cup {NoRequest},
           tokens' # NoRequest => tokens'.cmd = "pair" /\ tokens' \in effected,
           port' \in {port, Nobody, c}, port' # port => port \in {Nobody, c},
           k.at \in Talking \cup {"open"} => SESSION' = c,
           k.at \in Holding <=> port' = c,
           \A d \in Callers : d # c /\ at(d) \in Talking \cup {"open"} =>
               UNCHANGED <<SESSION, NEXT_ID, toDongle, toHost, dongle>>,
           k.at \in {"answer", "stream", "collect"} => k.req \in Request /\ k.req.cmd = k.cmd,
           k.at \in {"stream", "collect"} => k.cmd = "update",
           k.at = "stream" => k.left # 0,
           k.at \in {"lock", "open"} => k.cmd # "pair",
           \A i \in DOMAIN toHost' : toHost'[i].kind = "answer" /\ toHost'[i].ok =>
               toHost'[i].to \in effected \/ toHost'[i].to.cmd = "update",
           ~straddled =>
               /\ \A i \in DOMAIN toDongle' : toDongle'[i] # Chunk => toDongle'[i].id < NEXT_ID'
               /\ AtWork' => dongle'.req.id < NEXT_ID'
               /\ \A i \in DOMAIN toHost' :
                     toHost'[i].kind = "answer" => toHost'[i].to.id < NEXT_ID'
               /\ k.at = "answer" => k.req.id < NEXT_ID',
           ~straddled =>
               /\ \A r : r = k.req /\ k.at = "answer" => WaitingInv(r)'
               /\ \A r : r = k.req /\ k.at \in {"stream", "collect"} => StreamingInv(r)',
           k.by # NoRequest => k.by = k.req \/ straddled,
           \/ k.at \in {"closing", "returned"} /\ k.result \in {"ok", "paired"}
           \/ k.at = "send" /\ k.cmd = "pair"
           => k.req \in effected \/ straddled
    PROVE  IInv'
<1>1. caller'[c] = k /\ \A d \in Callers : d # c => caller'[d] = caller[d]
  BY DEF IInv, TypeOK
<1>a. at(c)' = k.at /\ \A d \in Callers : d # c => at(d)' = at(d)
  BY <1>1 DEF at
<1>3. LockInv'
  <2>1. ASSUME NEW d \in Callers, d # c, at(d) \in Talking \cup {"open"} PROVE SESSION' = d
    BY <2>1 DEF IInv, LockInv
  <2>2. ASSUME NEW d \in Callers, d # c PROVE at(d) \in Holding <=> port' = d
    <3>1. port' = d <=> port = d
      BY <2>2, NobodyAssumption
    <3> QED
      BY <3>1 DEF IInv, LockInv
  <2> QED
    BY <1>a, <2>1, <2>2 DEF LockInv
<1>2. TypeOK'
  <2>1. caller' \in [Callers -> Caller]
    BY DEF IInv, TypeOK, Caller, Result
  <2>2. \A d \in Callers : at(d)' \in Talking => SESSION' = d /\ port' = d
    BY <1>3 DEF LockInv, Holding
  <2> QED
    BY <2>1, <2>2 DEF IInv, TypeOK, Line, Doing, Caller, Result, Talking, usb
<1>4. AskedInv'
  BY <1>1, <1>a DEF IInv, AskedInv
<1>5. YesInv'
  BY DEF YesInv
<1>6. NumberInv'
  <2>1. ASSUME ~straddled, NEW d \in Callers, d # c, at(d) = "answer"
        PROVE  caller'[d].req.id < NEXT_ID'
    BY <1>1, <2>1 DEF IInv, NumberInv, Talking
  <2> QED
    BY <1>1, <1>a, <2>1 DEF NumberInv
<1>7. LinkInv'
  <2>1. ASSUME ~straddled, NEW d \in Callers, d # c
        PROVE  /\ at(d) = "answer" => WaitingInv(caller[d].req)'
               /\ at(d) \in {"stream", "collect"} => StreamingInv(caller[d].req)'
    <3>1. at(d) \in Talking => UNCHANGED <<toDongle, toHost, dongle, effected>>
      BY <2>1
    <3>2. /\ at(d) = "answer" => WaitingInv(caller[d].req)
          /\ at(d) \in {"stream", "collect"} => StreamingInv(caller[d].req)
      BY <2>1 DEF IInv, LinkInv
    <3>3. at(d) = "answer" => WaitingInv(caller[d].req)'
      BY <1>1, <2>1, <3>1, <3>2 DEF WaitingInv, AtWork, Talking
    <3>4. at(d) \in {"stream", "collect"} => StreamingInv(caller[d].req)'
      BY <1>1, <2>1, <3>1, <3>2 DEF StreamingInv, Talking
    <3> QED
      BY <3>1, <3>2, <3>3, <3>4 DEF Talking
  <2>2. ~straddled /\ k.at = "answer" => WaitingInv(caller[c].req)'
    BY <1>1 DEF WaitingInv, AtWork
  <2>3. ~straddled /\ k.at \in {"stream", "collect"} => StreamingInv(caller[c].req)'
    BY <1>1 DEF StreamingInv
  <2> QED
    BY <1>a, <2>1, <2>2, <2>3 DEF LinkInv
<1>8. AnswersOwnRequest'
  BY <1>1 DEF IInv, AnswersOwnRequest
<1>9. OkMeansDone'
  BY <1>1, <1>a DEF IInv, OkMeansDone
<1> QED
  BY <1>2, <1>3, <1>4, <1>5, <1>6, <1>7, <1>8, <1>9 DEF IInv

\* Who talks is alone.
LEMMA OneTalks ==
    ASSUME IInv, NEW c \in Callers, at(c) \in Talking \cup {"open"} \/ SESSION = Nobody
    PROVE  \A d \in Callers : d # c => at(d) \notin Talking \cup {"open"}
BY NobodyAssumption DEF IInv, LockInv

\* What is known of a command and of the rest.
LEMMA NearTypes ==
    ASSUME IInv, NEW c \in Callers
    PROVE  /\ caller \in [Callers -> Caller] /\ caller[c] \in Caller
           /\ {SESSION, port} \subseteq Callers \cup {Nobody}
           /\ invoked \in 0 .. MaxCommands /\ epoch \in 0 .. MaxRestarts
           /\ tokens \in Request \cup {NoRequest}
           /\ tokens # NoRequest => tokens.cmd = "pair" /\ tokens \in effected
           /\ at(c) \in Talking => port = c /\ SESSION = c
           /\ at(c) = "open" => SESSION = c
           /\ at(c) \in Holding <=> port = c
           /\ at(c) \in {"answer", "stream", "collect"} =>
                 caller[c].req \in Request /\ caller[c].req.cmd = caller[c].cmd
           /\ at(c) \in {"stream", "collect"} => caller[c].cmd = "update"
           /\ at(c) = "stream" => caller[c].left # 0
BY DEF IInv, TypeOK, Caller, Result, LockInv, AskedInv, YesInv, Talking, Holding

\* An idle command.
LEMMA NoCommandIsCaller ==
    /\ NoCommand \in Caller /\ NoCommand.by = NoRequest /\ NoCommand.at = "idle"
    /\ NoCommand.result = "none"
<1>1. 0 \in 0 .. ImageSize
  BY LinkAssumption
<1>2. "info" \in Command /\ "none" \in Result
  BY DEF Command, Result
<1> QED
  BY <1>1, <1>2 DEF NoCommand, Caller

\* Steps of a command that is not talking afterwards and leaves the wire alone.
LEMMA OffTheWire ==
    ASSUME IInv, NEW c \in Callers, NEW k \in Caller, caller' = [caller EXCEPT ![c] = k],
           UNCHANGED <<NEXT_ID, epoch, straddled, wire, usb, firmware, tokens>>,
           invoked' \in 0 .. MaxCommands,
           {SESSION, port}' \subseteq Callers \cup {Nobody},
           port' \in {port, Nobody}, port' # port => port = c,
           k.at \notin Talking, k.at = "closing" <=> port' = c, k.at = "open" => SESSION' = c,
           k.at \in {"lock", "open"} => k.cmd # "pair",
           \A d \in Callers : d # c /\ at(d) \in Talking \cup {"open"} => UNCHANGED SESSION,
           k.by # NoRequest => k.by = k.req \/ straddled,
           k.at \in {"closing", "returned"} /\ k.result \in {"ok", "paired"} =>
               k.req \in effected \/ straddled
    PROVE  IInv'
<1>1. UNCHANGED <<epoch, straddled, usb, effected, NEXT_ID, toDongle, toHost, dongle, tokens>>
  BY DEF wire, firmware
<1>2. ~straddled =>
          /\ \A i \in DOMAIN toDongle' : toDongle'[i] # Chunk => toDongle'[i].id < NEXT_ID'
          /\ AtWork' => dongle'.req.id < NEXT_ID'
          /\ \A i \in DOMAIN toHost' :
                toHost'[i].kind = "answer" => toHost'[i].to.id < NEXT_ID'
  BY <1>1 DEF IInv, NumberInv, AtWork
<1>3. /\ NEXT_ID' \in Nat \ {0} /\ NEXT_ID <= NEXT_ID'
      /\ toDongle' \in Seq(Request \cup {Chunk}) /\ Len(toDongle') <= PipeSize
      /\ toHost' \in Seq(Line) /\ Len(toHost') <= PipeSize
      /\ dongle' \in Doing /\ tokens' \in Request \cup {NoRequest}
      /\ tokens' # NoRequest => tokens'.cmd = "pair" /\ tokens' \in effected
  BY <1>1, NearTypes, WireTypes
<1>4. \A i \in DOMAIN toHost' : toHost'[i].kind = "answer" /\ toHost'[i].ok =>
           toHost'[i].to \in effected \/ toHost'[i].to.cmd = "update"
  BY <1>1, WireTypes
<1>5. k.at \notin {"send", "answer", "stream", "collect"}
  BY DEF Talking
<1>6. \A d \in Callers : d # c /\ at(d) \in Talking \cup {"open"} =>
          UNCHANGED <<SESSION, NEXT_ID, toDongle, toHost, dongle>>
  BY <1>1
<1>7. k.at \in Holding <=> port' = c
  BY DEF Holding
<1> QED
  BY <1>1, <1>2, <1>3, <1>4, <1>5, <1>6, <1>7, NearSide

\* Invoke keeps the invariant.
LEMMA InvokeStep == ASSUME IInv, NEW c \in Callers, Invoke(c) PROVE IInv'
<1>1. PICK cmd \in Command \ {"pair"} :
          caller' = [caller EXCEPT ![c] = [NoCommand EXCEPT !.at = "lock", !.cmd = cmd]]
  BY DEF Invoke
<1>2. /\ at(c) = "idle" /\ invoked' = invoked + 1 /\ invoked < MaxCommands
      /\ UNCHANGED <<lock, NEXT_ID, epoch, straddled, wire, usb, firmware, tokens>>
  BY DEF Invoke
<1> DEFINE k == [NoCommand EXCEPT !.at = "lock", !.cmd = cmd]
<1>3. k \in Caller /\ k.at = "lock" /\ k.by = NoRequest /\ k.cmd # "pair"
  <2>1. NoCommand \in Caller /\ NoCommand.by = NoRequest
    BY NoCommandIsCaller
  <2> QED
    BY <2>1 DEF Caller
<1>4. caller' = [caller EXCEPT ![c] = k]
  BY <1>1
<1> HIDE DEF k
<1>5. invoked' \in 0 .. MaxCommands
  BY <1>2, NearTypes, LinkAssumption
<1>6. port' # c /\ UNCHANGED <<SESSION, port>>
  BY <1>2, NearTypes DEF Talking, Holding, lock
<1>7. {SESSION, port}' \subseteq Callers \cup {Nobody}
  BY <1>6, NearTypes
<1>8. k.at \notin Talking
  BY <1>3 DEF Talking
<1> QED
  BY <1>2, <1>3, <1>4, <1>5, <1>6, <1>7, <1>8, OffTheWire

\* Collect keeps the invariant.
LEMMA CollectStep == ASSUME IInv, NEW c \in Callers, Collect(c) PROVE IInv'
<1>1. /\ at(c) = "returned" /\ caller' = [caller EXCEPT ![c] = NoCommand]
      /\ UNCHANGED <<lock, NEXT_ID, epoch, invoked, straddled, wire, usb, firmware, tokens>>
  BY DEF Collect, numbers
<1>2. port' # c /\ UNCHANGED <<SESSION, port>>
  BY <1>1, NearTypes DEF Talking, Holding, lock
<1>3. /\ {SESSION, port}' \subseteq Callers \cup {Nobody}
      /\ invoked' \in 0 .. MaxCommands
  BY <1>1, <1>2, NearTypes
<1>4. NoCommand.at \notin Talking
  BY NoCommandIsCaller DEF Talking
<1> QED
  BY <1>1, <1>2, <1>3, <1>4, NoCommandIsCaller, OffTheWire

\* Lock keeps the invariant: nobody is in a session.
LEMMA LockStep == ASSUME IInv, NEW c \in Callers, Lock(c) PROVE IInv'
<1>1. /\ at(c) = "lock" /\ SESSION = Nobody /\ SESSION' = c
      /\ caller' = [caller EXCEPT ![c].at = "open"]
      /\ UNCHANGED <<port, NEXT_ID, epoch, invoked, straddled, wire, usb, firmware, tokens>>
  BY DEF Lock, numbers
<1> DEFINE k == [caller[c] EXCEPT !.at = "open"]
<1>2. /\ k \in Caller /\ k.at = "open" /\ k.by = caller[c].by /\ k.req = caller[c].req
      /\ k.cmd # "pair"
  <2>1. caller[c].cmd # "pair"
    BY <1>1 DEF IInv, AskedInv
  <2> QED
    BY <2>1, NearTypes DEF Caller
<1>3. caller' = [caller EXCEPT ![c] = k]
  BY <1>1, NearTypes
<1> HIDE DEF k
<1>4. port # c
  BY <1>1, NearTypes DEF Holding, Talking
<1>5. /\ {SESSION, port}' \subseteq Callers \cup {Nobody}
      /\ invoked' \in 0 .. MaxCommands /\ port' # c /\ port' \in {port, Nobody}
  BY <1>1, <1>4, NearTypes, NobodyAssumption
<1>6. k.at \notin Talking
  BY <1>2 DEF Talking
<1>7. \A d \in Callers : d # c => at(d) \notin Talking \cup {"open"}
  BY <1>1, OneTalks
<1>8. k.by # NoRequest => k.by = k.req \/ straddled
  BY <1>2 DEF IInv, AnswersOwnRequest
<1> QED
  BY <1>1, <1>2, <1>3, <1>5, <1>6, <1>7, <1>8, OffTheWire

\* A command that returns without an answer keeps the invariant.
LEMMA ReturnsEmpty ==
    ASSUME IInv, NEW c \in Callers, at(c) \in Talking \cup {"open"},
           NEW res \in {"failed", "unpaired", "gone", "taken"}, Return(c, res, NoRequest),
           UNCHANGED <<numbers, wire, usb, firmware, tokens>>
    PROVE  IInv'
<1>1. PICK k \in Caller :
          /\ caller' = [caller EXCEPT ![c] = k]
          /\ k.at \in {"closing", "returned"} /\ k.result = res /\ k.by = NoRequest
          /\ SESSION' = Nobody /\ port' \in {port, Nobody}
          /\ port' # port => port = c
          /\ k.at \in Holding <=> port' = c
  <2>1. res \in Result /\ NoRequest \in Request \cup {NoRequest}
    BY DEF Result
  <2>2. TypeOK /\ LockInv
    BY DEF IInv
  <2> QED
    BY <2>1, <2>2, ReturnTypes
<1>2. {SESSION, port}' \subseteq Callers \cup {Nobody}
  BY <1>1, NearTypes
<1>3. k.result \notin {"ok", "paired"}
  BY <1>1
<1>4. k.at \notin Talking /\ k.at \notin {"lock", "open"} /\ (k.at = "closing" <=> port' = c)
  BY <1>1 DEF Talking, Holding
<1>5. \A d \in Callers : d # c => at(d) \notin Talking \cup {"open"}
  BY OneTalks
<1>6. /\ UNCHANGED <<NEXT_ID, epoch, straddled, wire, usb, firmware, tokens>>
      /\ invoked' \in 0 .. MaxCommands
  BY NearTypes DEF numbers
<1> QED
  BY <1>1, <1>2, <1>3, <1>4, <1>5, <1>6, OffTheWire

\* OpenFails, ImageUnreadable, Deadline and LinkFails keep the invariant.
LEMMA OpenFailsStep == ASSUME IInv, NEW c \in Callers, OpenFails(c) PROVE IInv'
<1>1. /\ at(c) \in Talking \cup {"open"}
      /\ Return(c, "taken", NoRequest) \/ Return(c, "gone", NoRequest)
      /\ UNCHANGED <<numbers, wire, usb, firmware, tokens>>
  BY DEF OpenFails
<1> QED
  BY <1>1, ReturnsEmpty

LEMMA ImageUnreadableStep == ASSUME IInv, NEW c \in Callers, ImageUnreadable(c) PROVE IInv'
BY ReturnsEmpty DEF ImageUnreadable

LEMMA GiveUpOnStep ==
    ASSUME IInv, NEW c \in Callers, at(c) \in Talking, GiveUpOn(c) PROVE IInv'
<1>1. /\ Return(c, "unpaired", NoRequest) \/ Return(c, "failed", NoRequest)
      /\ UNCHANGED <<numbers, wire, usb, firmware, tokens>>
  BY DEF GiveUpOn
<1> QED
  BY <1>1, ReturnsEmpty

LEMMA DeadlineStep == ASSUME IInv, NEW c \in Callers, Deadline(c) PROVE IInv'
BY GiveUpOnStep DEF Deadline, Listening, Talking

LEMMA LinkFailsStep == ASSUME IInv, NEW c \in Callers, LinkFails(c) PROVE IInv'
BY GiveUpOnStep DEF LinkFails, Talking

\* Close keeps the invariant: who closes its port does not talk any more, and
\* who holds the session then does not talk yet.
LEMMA CloseStep == ASSUME IInv, NEW c \in Callers, Close(c) PROVE IInv'
<1> DEFINE k == [caller[c] EXCEPT !.at = "returned"]
<1>1. /\ at(c) = "closing" /\ caller' = [caller EXCEPT ![c].at = "returned"]
      /\ UNCHANGED <<SESSION, NEXT_ID, epoch, invoked, straddled, wire, usb, firmware, tokens>>
  BY DEF Close, numbers
<1>2. port = c /\ port' = Nobody
  <2>1. port = c
    BY <1>1, NearTypes DEF Holding
  <2> QED
    BY <2>1 DEF Close
<1>3. /\ k \in Caller /\ k.at = "returned" /\ k.by = caller[c].by /\ k.req = caller[c].req
      /\ k.result = caller[c].result
  BY NearTypes DEF Caller
<1>4. caller' = [caller EXCEPT ![c] = k]
  BY <1>1, NearTypes
<1> HIDE DEF k
<1>5. {SESSION, port}' \subseteq Callers \cup {Nobody} /\ invoked' \in 0 .. MaxCommands
  BY <1>1, <1>2, NearTypes
<1>6. k.at \notin Talking \cup {"closing", "lock", "open"} /\ port' # c
  BY <1>2, <1>3, NobodyAssumption DEF Talking
<1>7. k.by # NoRequest => k.by = k.req \/ straddled
  BY <1>3 DEF IInv, AnswersOwnRequest
<1>8. k.result \in {"ok", "paired"} => k.req \in effected \/ straddled
  BY <1>1, <1>3 DEF IInv, OkMeansDone
<1> QED
  BY <1>1, <1>2, <1>3, <1>4, <1>5, <1>6, <1>7, <1>8, OffTheWire

\* Open keeps the invariant, whatever it leaves in the buffers.
LEMMA OpenStep == ASSUME IInv, NEW c \in Callers, Open(c) PROVE IInv'
<1>1. /\ at(c) = "open" /\ port = Nobody /\ port' = c
      /\ toDongle' \in {<<>>, toDongle} /\ toHost' \in {<<>>, toHost}
      /\ dongle' \in {Idle, dongle} /\ caller' = [caller EXCEPT ![c].at = "send"]
      /\ UNCHANGED <<SESSION, NEXT_ID, epoch, invoked, straddled, usb, effected, tokens>>
  BY DEF Open, numbers
<1> DEFINE k == [caller[c] EXCEPT !.at = "send"]
<1>2. /\ k \in Caller /\ k.at = "send" /\ k.by = caller[c].by /\ k.req = caller[c].req
      /\ k.cmd = caller[c].cmd
  BY NearTypes DEF Caller
<1>3. caller' = [caller EXCEPT ![c] = k]
  BY <1>1, NearTypes
<1>p. caller[c].cmd # "pair"
  BY <1>1 DEF IInv, AskedInv
<1> HIDE DEF k
<1>4. /\ toDongle' \in Seq(Request \cup {Chunk}) /\ toHost' \in Seq(Line)
      /\ Len(toDongle') <= PipeSize /\ Len(toHost') <= PipeSize
      /\ \A i \in DOMAIN toDongle' : i \in DOMAIN toDongle /\ toDongle'[i] = toDongle[i]
      /\ \A i \in DOMAIN toHost' : i \in DOMAIN toHost /\ toHost'[i] = toHost[i]
  <2>1. /\ <<>> \in Seq(Request \cup {Chunk}) /\ <<>> \in Seq(Line) /\ Len(<<>>) = 0
        /\ DOMAIN <<>> = {} /\ 0 <= PipeSize
    BY LinkAssumption
  <2>2. /\ toDongle' \in Seq(Request \cup {Chunk}) /\ Len(toDongle') <= PipeSize
        /\ \A i \in DOMAIN toDongle' : i \in DOMAIN toDongle /\ toDongle'[i] = toDongle[i]
    BY <1>1, <2>1, WireTypes
  <2>3. /\ toHost' \in Seq(Line) /\ Len(toHost') <= PipeSize
        /\ \A i \in DOMAIN toHost' : i \in DOMAIN toHost /\ toHost'[i] = toHost[i]
    BY <1>1, <2>1, WireTypes
  <2> QED
    BY <2>2, <2>3
<1>5. dongle' \in Doing /\ (AtWork' => AtWork /\ dongle' = dongle)
  BY <1>1, WireTypes DEF Doing, AtWork, Idle
<1>6. SESSION = c /\ {SESSION, port}' \subseteq Callers \cup {Nobody}
  BY <1>1, NearTypes
<1>7. \A d \in Callers : d # c => at(d) \notin Talking \cup {"open"}
  BY <1>1, OneTalks
<1>8. /\ NEXT_ID' \in Nat \ {0} /\ NEXT_ID <= NEXT_ID' /\ invoked' \in 0 .. MaxCommands
      /\ tokens' \in Request \cup {NoRequest}
      /\ tokens' # NoRequest => tokens'.cmd = "pair" /\ tokens' \in effected
  BY <1>1, NearTypes, WireTypes
<1>9. ~straddled =>
          /\ \A i \in DOMAIN toDongle' : toDongle'[i] # Chunk => toDongle'[i].id < NEXT_ID'
          /\ AtWork' => dongle'.req.id < NEXT_ID'
          /\ \A i \in DOMAIN toHost' :
                toHost'[i].kind = "answer" => toHost'[i].to.id < NEXT_ID'
  BY <1>1, <1>4, <1>5 DEF IInv, NumberInv
<1>10. k.by # NoRequest => k.by = k.req \/ straddled
  BY <1>2 DEF IInv, AnswersOwnRequest
<1>11. k.at \in Talking /\ k.at \in Holding
  BY <1>2 DEF Talking, Holding
<1>12. /\ k.at \notin {"answer", "stream", "collect", "lock", "open", "closing", "returned"}
       /\ k.cmd # "pair"
  BY <1>2, <1>p
<1>13. \A i \in DOMAIN toHost' : toHost'[i].kind = "answer" /\ toHost'[i].ok =>
           toHost'[i].to \in effected \/ toHost'[i].to.cmd = "update"
  BY <1>4, WireTypes
<1> QED
  BY <1>1, <1>2, <1>3, <1>4, <1>5, <1>6, <1>7, <1>8, <1>9, <1>10, <1>11, <1>12, <1>13, NearSide

\* SendRequest keeps the invariant: the number is a new one.
LEMMA SendRequestStep == ASSUME IInv, NEW c \in Callers, SendRequest(c) PROVE IInv'
<1> DEFINE q == [id |-> NEXT_ID, cmd |-> caller[c].cmd, epoch |-> epoch]
           k == [caller[c] EXCEPT !.at = "answer", !.req = q, !.by = NoRequest]
<1>1. /\ at(c) = "send" /\ port = c /\ Len(toDongle) < PipeSize
      /\ toDongle' = Append(toDongle, q) /\ NEXT_ID' = NEXT_ID + 1
      /\ caller' = [caller EXCEPT ![c].at = "answer", ![c].req = q, ![c].by = NoRequest]
      /\ UNCHANGED <<lock, epoch, invoked, straddled, toHost, usb, firmware, tokens>>
  BY DEF SendRequest
<1>2. q \in Request /\ q.id = NEXT_ID /\ q.cmd = caller[c].cmd
  <2>1. caller[c].cmd \in Command /\ epoch \in 0 .. MaxRestarts /\ NEXT_ID \in Nat \ {0}
    BY NearTypes, WireTypes DEF Caller
  <2> QED
    BY <2>1 DEF Request
<1>3. caller' = [caller EXCEPT ![c] = k]
  BY <1>1, NearTypes
<1> HIDE DEF q
<1>5. /\ k \in Caller /\ k.at = "answer" /\ k.by = NoRequest /\ k.req = q
      /\ k.cmd = caller[c].cmd
  BY <1>2, NearTypes DEF Caller
<1> HIDE DEF k
<1>6. /\ toDongle' \in Seq(Request \cup {Chunk}) /\ Len(toDongle') = Len(toDongle) + 1
      /\ \A i \in DOMAIN toDongle' :
            \/ i \in DOMAIN toDongle /\ toDongle'[i] = toDongle[i]
            \/ i = Len(toDongle) + 1 /\ toDongle'[i] = q
  BY <1>1, <1>2, WireTypes, AppendAt
<1>7. Len(toDongle') <= PipeSize /\ NEXT_ID' \in Nat \ {0} /\ NEXT_ID < NEXT_ID'
  BY <1>1, <1>6, WireTypes, LinkAssumption
<1>8. UNCHANGED <<SESSION, port, toHost, dongle, effected, tokens>>
  BY <1>1 DEF lock, firmware
<1>9. ASSUME ~straddled
      PROVE  /\ \A i \in DOMAIN toDongle : toDongle[i] # Chunk => toDongle[i].id < NEXT_ID
             /\ AtWork => dongle.req.id < NEXT_ID
             /\ \A i \in DOMAIN toHost :
                   toHost[i].kind = "answer" => toHost[i].to.id < NEXT_ID
  BY <1>9 DEF IInv, NumberInv
<1>10. /\ \A i \in DOMAIN toDongle : toDongle[i] # Chunk => toDongle[i].id \in Nat
       /\ AtWork => dongle.req.id \in Nat
       /\ \A i \in DOMAIN toHost : toHost[i].kind = "answer" => toHost[i].to.id \in Nat
  <2>1. \A r \in Request : r.id \in Nat
    BY LineKinds
  <2>2. \A i \in DOMAIN toHost : toHost[i] \in Line
    BY WireTypes
  <2>3. \A i \in DOMAIN toDongle : toDongle[i] \in Request \cup {Chunk}
    BY WireTypes
  <2> QED
    BY <2>1, <2>2, <2>3, WireTypes, DoingKinds, LineKinds DEF AtWork
<1>11. ~straddled =>
           /\ \A i \in DOMAIN toDongle' : toDongle'[i] # Chunk => toDongle'[i].id < NEXT_ID'
           /\ AtWork' => dongle'.req.id < NEXT_ID'
           /\ \A i \in DOMAIN toHost' :
                 toHost'[i].kind = "answer" => toHost'[i].to.id < NEXT_ID'
           /\ k.at = "answer" => k.req.id < NEXT_ID'
  <2>0. \A n \in Nat : n < NEXT_ID => n < NEXT_ID'
    BY <1>7, WireTypes
  <2>1. ~straddled => \A i \in DOMAIN toDongle' : toDongle'[i] # Chunk => toDongle'[i].id < NEXT_ID'
    BY <1>2, <1>6, <1>7, <1>9, <1>10, <2>0
  <2>2. ~straddled => (AtWork' => dongle'.req.id < NEXT_ID')
    BY <1>8, <1>9, <1>10, <2>0 DEF AtWork
  <2>3. ~straddled => \A i \in DOMAIN toHost' :
                     toHost'[i].kind = "answer" => toHost'[i].to.id < NEXT_ID'
    BY <1>8, <1>9, <1>10, <2>0
  <2> QED
    BY <1>2, <1>5, <1>7, <2>1, <2>2, <2>3
<1>12. ASSUME ~straddled, NEW r, r = k.req PROVE WaitingInv(r)'
  <2>1. r = q /\ r.id = NEXT_ID
    BY <1>2, <1>5, <1>12
  <2>a. \A i \in DOMAIN toDongle' :
            toDongle'[i].id = r.id => i = Len(toDongle') /\ toDongle'[i] = r
    <3>1. Chunk.id = 0 /\ NEXT_ID # 0 /\ \A n \in Nat : n < NEXT_ID => n # NEXT_ID
      BY WireTypes DEF Chunk
    <3>2. \A i \in DOMAIN toDongle : toDongle[i].id # NEXT_ID
      BY <1>9, <1>10, <1>12, <3>1
    <3> QED
      BY <1>6, <2>1, <3>2
  <2>2. AtWork' => dongle'.req.id # r.id /\ dongle'.req # r
    <3>1. AtWork' => dongle'.req.id < NEXT_ID /\ dongle'.req.id \in Nat
      BY <1>8, <1>9, <1>10, <1>12 DEF AtWork
    <3> QED
      BY <2>1, <3>1, WireTypes
  <2>3. \A i \in DOMAIN toHost' : toHost'[i].kind = "answer" => toHost'[i].to.id # r.id
    <3>1. \A i \in DOMAIN toHost' : toHost'[i].kind = "answer" =>
              toHost'[i].to.id < NEXT_ID /\ toHost'[i].to.id \in Nat
      BY <1>8, <1>9, <1>10, <1>12
    <3> QED
      BY <2>1, <3>1, WireTypes
  <2> QED
    BY <2>a, <2>2, <2>3 DEF WaitingInv, AtWork
<1>13. \A d \in Callers : d # c => at(d) \notin Talking \cup {"open"}
  BY <1>1, OneTalks DEF Talking
<1>14. /\ {SESSION, port}' \subseteq Callers \cup {Nobody}
       /\ SESSION' = c /\ invoked' \in 0 .. MaxCommands
       /\ tokens' \in Request \cup {NoRequest} /\ dongle' \in Doing
       /\ toHost' \in Seq(Line) /\ Len(toHost') <= PipeSize
       /\ tokens' # NoRequest => tokens'.cmd = "pair" /\ tokens' \in effected
  BY <1>1, <1>8, NearTypes, WireTypes DEF Talking
<1>15. \A i \in DOMAIN toHost' : toHost'[i].kind = "answer" /\ toHost'[i].ok =>
           toHost'[i].to \in effected \/ toHost'[i].to.cmd = "update"
  BY <1>8, WireTypes
<1>16. /\ k.at \in Talking
       /\ k.at \notin {"stream", "collect", "lock", "open", "closing", "returned"}
       /\ NEXT_ID <= NEXT_ID' /\ k.req \in Request /\ k.req.cmd = k.cmd
  BY <1>2, <1>5, <1>7, WireTypes DEF Talking
<1>17. UNCHANGED <<epoch, straddled, usb, effected>> /\ port' \in {port, Nobody, c}
       /\ (k.at \in Holding <=> port' = c) /\ port' = port
  BY <1>1, <1>8, <1>16 DEF Holding
<1> QED
  BY <1>3, <1>5, <1>6, <1>7, <1>11, <1>12, <1>13, <1>14, <1>15, <1>16, <1>17, NearSide

\* A line passed over leaves the others in order.
LEMMA SkipLineStep == ASSUME IInv, NEW c \in Callers, SkipLine(c) PROVE IInv'
<1>1. /\ toHost # <<>> /\ toHost' = Tail(toHost)
      /\ UNCHANGED <<lock, numbers, caller, toDongle, usb, firmware, tokens>>
  BY DEF SkipLine
<1>2. /\ toHost' \in Seq(Line) /\ Len(toHost') = Len(toHost) - 1
      /\ \A i \in DOMAIN toHost' :
            i + 1 \in DOMAIN toHost /\ 1 < i + 1 /\ toHost'[i] = toHost[i + 1]
  BY <1>1, WireTypes, TailAt
<1>3. Len(toHost') <= PipeSize
  BY <1>2, WireTypes, LinkAssumption
<1>4. UNCHANGED <<dongle, effected, plugged, pulls>>
  BY <1>1 DEF firmware, usb
<1>5. \A i \in DOMAIN toHost' : toHost'[i].kind = "answer" /\ toHost'[i].ok =>
          toHost'[i].to \in effected' \/ toHost'[i].to.cmd = "update"
  BY <1>2, <1>4, WireTypes
<1>6. ~straddled =>
          /\ \A i \in DOMAIN toDongle' : toDongle'[i] # Chunk => toDongle'[i].id < NEXT_ID
          /\ AtWork' => dongle'.req.id < NEXT_ID
          /\ \A i \in DOMAIN toHost' :
                toHost'[i].kind = "answer" => toHost'[i].to.id < NEXT_ID
  BY <1>1, <1>2, <1>4 DEF IInv, NumberInv, AtWork
<1>7. ASSUME ~straddled, NEW d \in Callers, at(d) = "answer"
      PROVE  WaitingInv(caller[d].req)'
  <2>1. WaitingInv(caller[d].req)
    BY <1>7 DEF IInv, LinkInv
  <2>2. \A i, j \in DOMAIN toHost' : i < j => i + 1 < j + 1
    BY <1>2
  <2> QED
    BY <1>1, <1>2, <1>4, <2>1, <2>2 DEF WaitingInv, AtWork
<1>8. ASSUME ~straddled, NEW d \in Callers, at(d) \in {"stream", "collect"}
      PROVE  StreamingInv(caller[d].req)'
  <2>1. StreamingInv(caller[d].req)
    BY <1>8 DEF IInv, LinkInv
  <2> QED
    BY <1>1, <1>2, <1>4, <2>1 DEF StreamingInv
<1>10. /\ toDongle' \in Seq(Request \cup {Chunk}) /\ Len(toDongle') <= PipeSize
       /\ plugged' \in BOOLEAN /\ pulls' \in 0 .. MaxPulls
       /\ dongle' \in Doing /\ effected' \subseteq Request /\ effected \subseteq effected'
  BY <1>1, <1>4, WireTypes
<1> QED
  BY <1>1, <1>2, <1>3, <1>5, <1>6, <1>7, <1>8, <1>10, FarSide

\* What a line taken for an answer is.
LEMMA TakenLine ==
    ASSUME IInv, NEW c \in Callers, Listening(c), toHost # <<>>, Takes(c, Head(toHost))
    PROVE  LET line == Head(toHost) IN
           /\ line.to \in Request /\ line.ok \in BOOLEAN
           /\ line.ok => line.to \in effected \/ line.to.cmd = "update"
           /\ ~straddled => line.to = caller[c].req
           /\ ~straddled /\ line.ok /\ (caller[c].cmd # "update" \/ at(c) = "collect") =>
                 caller[c].req \in effected
           /\ ~straddled /\ at(c) = "answer" => toDongle = <<>>
           /\ ~straddled /\ at(c) = "answer" =>
                 /\ dongle.at # "busy" /\ (dongle.at = "updating" => dongle.req = caller[c].req)
                 /\ \A j \in DOMAIN toHost : 1 < j /\ toHost[j].kind = "answer" =>
                       toHost[j].to = caller[c].req /\ ~toHost[j].ok
<1> DEFINE line == Head(toHost)
           r == caller[c].req
<1>1. line = toHost[1] /\ 1 \in DOMAIN toHost /\ line \in Line
  BY WireTypes, TailAt
<1>2. line.kind = "answer" /\ (at(c) = "answer" => line.to.id = r.id)
      /\ at(c) \in {"answer", "collect"}
  BY DEF Takes, Listening
<1>3. line.to \in Request /\ line.ok \in BOOLEAN
  BY <1>1, <1>2, LineKinds
<1>4. line.ok => line.to \in effected \/ line.to.cmd = "update"
  BY <1>1, <1>2, WireTypes
<1>5. r.cmd = caller[c].cmd
  BY <1>2, NearTypes
<1>6. CASE at(c) = "answer"
  <2>1. ~straddled => WaitingInv(r)
    BY <1>6 DEF IInv, LinkInv
  <2>2. ~straddled =>
            /\ line.to = r /\ toDongle = <<>>
            /\ dongle.at # "busy" /\ (dongle.at = "updating" => dongle.req = r)
            /\ \A j \in DOMAIN toHost : 1 < j /\ toHost[j].kind = "answer" =>
                  toHost[j].to = r /\ ~toHost[j].ok
    BY <1>1, <1>2, <1>6, <2>1 DEF WaitingInv
  <2> QED
    BY <1>3, <1>4, <1>5, <1>6, <2>2
<1>7. CASE at(c) = "collect"
  <2>1. ~straddled => StreamingInv(r)
    BY <1>7 DEF IInv, LinkInv
  <2>2. ~straddled => line.to = r /\ (line.ok => r \in effected)
    BY <1>1, <1>2, <2>1 DEF StreamingInv
  <2> QED
    BY <1>3, <1>4, <1>7, <2>2
<1> QED
  BY <1>2, <1>6, <1>7

\* Steps of a command that takes a line for its answer.
LEMMA Reads ==
    ASSUME IInv, NEW c \in Callers, Listening(c), toHost # <<>>, Takes(c, Head(toHost)),
           toHost' = Tail(toHost), UNCHANGED <<numbers, toDongle, usb, firmware>>,
           NEW k \in Caller, caller' = [caller EXCEPT ![c] = k],
           \/ UNCHANGED lock /\ at(c) = "answer" /\ k.at \in {"send", "stream"}
           \/ /\ SESSION' = Nobody /\ port' \in {c, Nobody} /\ k.at \in {"closing", "returned"}
              /\ k.at \in Holding <=> port' = c,
           tokens' \in Request \cup {NoRequest},
           tokens' # NoRequest => tokens'.cmd = "pair" /\ tokens' \in effected,
           k.req = caller[c].req, k.at = "stream" => k.cmd = "update" /\ k.left # 0,
           k.at = "stream" => caller[c].cmd = "update",
           k.by = Head(toHost).to,
           \/ k.at \in {"closing", "returned"} /\ k.result \in {"ok", "paired"}
           \/ k.at = "send" /\ k.cmd = "pair"
           => k.req \in effected \/ straddled
    PROVE  IInv'
<1>1. /\ toHost' \in Seq(Line) /\ Len(toHost') = Len(toHost) - 1
      /\ \A i \in DOMAIN toHost' :
            i + 1 \in DOMAIN toHost /\ 1 < i + 1 /\ toHost'[i] = toHost[i + 1]
  BY WireTypes, TailAt
<1>2. Len(toHost') <= PipeSize
  BY <1>1, WireTypes, LinkAssumption
<1>3. UNCHANGED <<NEXT_ID, epoch, straddled, usb, effected, dongle, toDongle, invoked>>
  BY DEF numbers, firmware
<1>4. port = c /\ SESSION = c /\ at(c) \in Talking
  BY NearTypes DEF Listening, Talking
<1>5. \A d \in Callers : d # c => at(d) \notin Talking \cup {"open"}
  BY <1>4, OneTalks
<1>6. /\ {SESSION, port}' \subseteq Callers \cup {Nobody}
      /\ port' \in {port, Nobody, c} /\ (k.at \in Talking \cup {"open"} => SESSION' = c)
      /\ (k.at \in Holding <=> port' = c)
  BY <1>4, NobodyAssumption DEF lock, Talking, Holding
<1>7. \A i \in DOMAIN toHost' : toHost'[i].kind = "answer" /\ toHost'[i].ok =>
          toHost'[i].to \in effected \/ toHost'[i].to.cmd = "update"
  BY <1>1, WireTypes
<1>8. k.at \notin {"answer", "collect", "lock", "open"} /\ Nobody # c
  BY NobodyAssumption
<1>9. ~straddled =>
          /\ \A i \in DOMAIN toDongle' : toDongle'[i] # Chunk => toDongle'[i].id < NEXT_ID'
          /\ AtWork' => dongle'.req.id < NEXT_ID'
          /\ \A i \in DOMAIN toHost' :
                toHost'[i].kind = "answer" => toHost'[i].to.id < NEXT_ID'
          /\ k.at = "answer" => k.req.id < NEXT_ID'
  BY <1>1, <1>3, <1>4, <1>8 DEF IInv, NumberInv, AtWork
<1>11. ASSUME ~straddled, NEW r, r = k.req, k.at = "stream" PROVE StreamingInv(r)'
  <2>1. /\ toDongle' = <<>> /\ dongle.at # "busy" /\ (dongle.at = "updating" => dongle.req = r)
        /\ \A j \in DOMAIN toHost : 1 < j /\ toHost[j].kind = "answer" =>
              toHost[j].to = r /\ ~toHost[j].ok
    <3>1. at(c) = "answer"
      BY <1>11
    <3> QED
      BY <1>3, <1>11, <3>1, TakenLine
  <2> QED
    BY <1>1, <1>3, <2>1 DEF StreamingInv
<1>12. k.by # NoRequest => k.by = k.req \/ straddled
  BY TakenLine
<1>13. k.at = "stream" => k.req \in Request /\ k.req.cmd = k.cmd
  BY NearTypes
<1>14. /\ NEXT_ID' \in Nat \ {0} /\ NEXT_ID <= NEXT_ID' /\ invoked' \in 0 .. MaxCommands
       /\ toDongle' \in Seq(Request \cup {Chunk}) /\ Len(toDongle') <= PipeSize
       /\ dongle' \in Doing
  BY <1>3, WireTypes, NearTypes
<1>15. ~straddled =>
           /\ \A r : r = k.req /\ k.at = "answer" => WaitingInv(r)'
           /\ \A r : r = k.req /\ k.at \in {"stream", "collect"} => StreamingInv(r)'
  BY <1>8, <1>11
<1>16. /\ k.at \in {"answer", "stream", "collect"} => k.req \in Request /\ k.req.cmd = k.cmd
       /\ k.at \in {"stream", "collect"} => k.cmd = "update"
       /\ k.at = "stream" => k.left # 0
       /\ k.at \in {"lock", "open"} => k.cmd # "pair"
  BY <1>8, <1>13
<1> QED
  BY <1>1, <1>2, <1>3, <1>4, <1>5, <1>6, <1>7, <1>9, <1>12, <1>14, <1>15, <1>16, NearSide

\* ReadLine keeps the invariant: the answer taken is the request's own.
LEMMA ReadLineStep == ASSUME IInv, NEW c \in Callers, ReadLine(c) PROVE IInv'
<1> DEFINE line == Head(toHost)
           cmd == caller[c].cmd
<1>1. /\ Listening(c) /\ toHost # <<>> /\ Takes(c, line) /\ Take(c, line)
      /\ toHost' = Tail(toHost) /\ UNCHANGED <<numbers, toDongle, usb, firmware>>
  BY DEF ReadLine
<1>2. /\ line.to \in Request /\ line.to # NoRequest /\ line.ok \in BOOLEAN
      /\ line.ok => line.to \in effected \/ line.to.cmd = "update"
      /\ line.ok /\ (cmd # "update" \/ at(c) = "collect") =>
            caller[c].req \in effected \/ straddled
  BY <1>1, TakenLine, LineKinds
<1>3. /\ caller \in [Callers -> Caller] /\ caller[c] \in Caller
      /\ tokens \in Request \cup {NoRequest}
      /\ tokens # NoRequest => tokens.cmd = "pair" /\ tokens \in effected
  BY NearTypes
<1>4. at(c) \in {"answer", "collect"} /\ TypeOK /\ LockInv
  BY <1>1 DEF Listening, IInv
\* Whatever it returns with.
<1>5. ASSUME NEW res \in Result, Return(c, res, line.to),
             tokens' \in Request \cup {NoRequest},
             tokens' # NoRequest => tokens'.cmd = "pair" /\ tokens' \in effected,
             res \in {"ok", "paired"} => caller[c].req \in effected \/ straddled
      PROVE  IInv'
  <2>1. PICK k \in Caller :
            /\ caller' = [caller EXCEPT ![c] = k]
            /\ k.at \in {"closing", "returned"} /\ k.result = res /\ k.by = line.to
            /\ k.req = caller[c].req
            /\ SESSION' = Nobody /\ port' \in {port, Nobody} /\ port = c
            /\ k.at \in Holding <=> port' = c
    <3>1. at(c) \in Talking /\ line.to \in Request \cup {NoRequest}
      BY <1>2, <1>4 DEF Talking
    <3> QED
      BY <1>4, <1>5, <3>1, ReturnTypes
  <2> QED
    BY <1>1, <1>5, <2>1, Reads
<1>6. CASE ~line.ok /\ Return(c, IF cmd = "pair" THEN "unpaired" ELSE "failed", line.to)
           /\ UNCHANGED tokens
  <2> DEFINE res == IF cmd = "pair" THEN "unpaired" ELSE "failed"
  <2>1. res \in Result /\ res \notin {"ok", "paired"} /\ Return(c, res, line.to)
    BY <1>6 DEF Result
  <2> HIDE DEF res
  <2> QED
    BY <1>3, <1>5, <1>6, <2>1
<1>7. CASE line.ok /\ at(c) = "answer" /\ cmd = "provision" /\ Provisioned(c, line.to)
  <2> DEFINE k == [caller[c] EXCEPT !.at = "send", !.cmd = "pair", !.by = line.to]
  <2>1. /\ k \in Caller /\ k.at = "send" /\ k.by = line.to /\ k.req = caller[c].req
        /\ k.cmd = "pair"
    BY <1>2, <1>3 DEF Caller, Command
  <2>2. caller' = [caller EXCEPT ![c] = k] /\ UNCHANGED <<lock, tokens>>
    BY <1>3, <1>7 DEF Provisioned
  <2> HIDE DEF k
  <2> QED
    BY <1>1, <1>2, <1>3, <1>7, <2>1, <2>2, Reads
<1>8. CASE line.ok /\ at(c) = "answer" /\ cmd = "pair" /\ Paired(c, line.to)
  <2> DEFINE res == IF line.to.cmd = "pair" THEN "paired" ELSE "unpaired"
  <2>1. res \in Result /\ Return(c, res, line.to)
    BY <1>8 DEF Paired, Result
  <2>2. tokens' = IF line.to.cmd = "pair" THEN line.to ELSE tokens
    BY <1>8 DEF Paired
  <2>3. /\ tokens' \in Request \cup {NoRequest}
        /\ tokens' # NoRequest => tokens'.cmd = "pair" /\ tokens' \in effected
    BY <1>2, <1>3, <1>8, <2>2
  <2>4. caller[c].req \in effected \/ straddled
    BY <1>2, <1>8
  <2> HIDE DEF res
  <2> QED
    BY <1>5, <2>1, <2>3, <2>4
<1>9. CASE line.ok /\ at(c) = "answer" /\ cmd = "update" /\ Ready(c, line.to)
  <2> DEFINE k == [caller[c] EXCEPT !.at = "stream", !.by = line.to, !.left = ImageSize]
  <2>1. ImageSize \in 0 .. ImageSize /\ ImageSize # 0
    BY LinkAssumption
  <2>2. /\ k \in Caller /\ k.at = "stream" /\ k.by = line.to /\ k.req = caller[c].req
        /\ k.cmd = "update" /\ k.left # 0
    BY <1>2, <1>3, <1>9, <2>1 DEF Caller
  <2>3. caller' = [caller EXCEPT ![c] = k] /\ UNCHANGED <<lock, tokens>>
    BY <1>3, <1>9 DEF Ready
  <2> HIDE DEF k
  <2> QED
    BY <1>1, <1>3, <1>9, <2>2, <2>3, Reads
<1>10. CASE line.ok /\ (cmd = "info" \/ at(c) = "collect") /\ Return(c, "ok", line.to)
            /\ UNCHANGED tokens
  <2>1. "ok" \in Result /\ (caller[c].req \in effected \/ straddled)
    BY <1>2, <1>10 DEF Result
  <2> QED
    BY <1>3, <1>5, <1>10, <2>1
<1> QED
  BY <1>1, <1>6, <1>7, <1>8, <1>9, <1>10 DEF Take

\* Stream keeps the invariant.
LEMMA StreamStep == ASSUME IInv, NEW c \in Callers, Stream(c) PROVE IInv'
<1> DEFINE k == [caller[c] EXCEPT !.left = @ - 1,
                                  !.at = IF caller[c].left = 1 THEN "collect" ELSE "stream"]
<1>1. /\ at(c) = "stream" /\ port = c /\ Len(toDongle) < PipeSize
      /\ toDongle' = Append(toDongle, Chunk)
      /\ UNCHANGED <<lock, numbers, toHost, usb, firmware, tokens>>
  BY DEF Stream
<1>2. caller' = [caller EXCEPT ![c] = k]
  BY NearTypes DEF Stream
<1>3. caller[c].left \in 1 .. ImageSize /\ caller[c].cmd = "update"
  BY <1>1, NearTypes, LinkAssumption DEF Caller
<1>4. /\ k \in Caller /\ k.at \in {"stream", "collect"} /\ k.by = caller[c].by
      /\ k.req = caller[c].req /\ k.cmd = "update" /\ (k.at = "stream" => k.left # 0)
  <2>1. /\ caller[c].left - 1 \in 0 .. ImageSize
        /\ caller[c].left # 1 => caller[c].left - 1 # 0
    BY <1>3, LinkAssumption
  <2>2. caller[c] \in Caller
    BY NearTypes
  <2> QED
    BY <1>3, <2>1, <2>2 DEF Caller
<1> HIDE DEF k
<1>5. /\ toDongle' \in Seq(Request \cup {Chunk}) /\ Len(toDongle') = Len(toDongle) + 1
      /\ \A i \in DOMAIN toDongle' :
            \/ i \in DOMAIN toDongle /\ toDongle'[i] = toDongle[i]
            \/ toDongle'[i] = Chunk
  BY <1>1, WireTypes, AppendAt
<1>6. Len(toDongle') <= PipeSize
  BY <1>1, <1>5, WireTypes, LinkAssumption
<1>7. UNCHANGED <<SESSION, port, NEXT_ID, epoch, invoked, straddled, toHost, dongle, effected>>
  BY <1>1 DEF lock, numbers, firmware
<1>8. ~straddled =>
          /\ \A i \in DOMAIN toDongle' : toDongle'[i] # Chunk => toDongle'[i].id < NEXT_ID'
          /\ AtWork' => dongle'.req.id < NEXT_ID'
          /\ \A i \in DOMAIN toHost' :
                toHost'[i].kind = "answer" => toHost'[i].to.id < NEXT_ID'
          /\ k.at = "answer" => k.req.id < NEXT_ID'
  BY <1>4, <1>5, <1>7 DEF IInv, NumberInv, AtWork
<1>9. ASSUME ~straddled, NEW r, r = k.req PROVE StreamingInv(r)'
  <2>1. StreamingInv(r)
    BY <1>1, <1>4, <1>9 DEF IInv, LinkInv
  <2> QED
    BY <1>5, <1>7, <2>1 DEF StreamingInv
<1>10. \A d \in Callers : d # c => at(d) \notin Talking \cup {"open"}
  BY <1>1, OneTalks DEF Talking
<1>11. /\ {SESSION, port}' \subseteq Callers \cup {Nobody}
       /\ SESSION' = c /\ invoked' \in 0 .. MaxCommands
       /\ NEXT_ID' \in Nat \ {0} /\ NEXT_ID <= NEXT_ID'
       /\ tokens' \in Request \cup {NoRequest} /\ dongle' \in Doing
       /\ toHost' \in Seq(Line) /\ Len(toHost') <= PipeSize
       /\ tokens' # NoRequest => tokens'.cmd = "pair" /\ tokens' \in effected
       /\ k.req \in Request /\ k.req.cmd = k.cmd
  <2>1. at(c) \in Talking
    BY <1>1 DEF Talking
  <2> QED
    BY <1>1, <1>3, <1>4, <1>7, <2>1, NearTypes, WireTypes
<1>12. \A i \in DOMAIN toHost' : toHost'[i].kind = "answer" /\ toHost'[i].ok =>
           toHost'[i].to \in effected \/ toHost'[i].to.cmd = "update"
  BY <1>7, WireTypes
<1>13. /\ k.at \in Talking
       /\ k.at \notin {"send", "answer", "lock", "open", "closing", "returned"}
       /\ (k.at \in Holding <=> port' = c) /\ port' \in {port, Nobody, c} /\ port' = port
  BY <1>1, <1>4, <1>7 DEF Talking, Holding
<1>14. k.by # NoRequest => k.by = k.req \/ straddled
  BY <1>4 DEF IInv, AnswersOwnRequest
<1>15. UNCHANGED <<epoch, straddled, usb, effected>>
  BY <1>1, <1>7
<1> QED
  BY <1>2, <1>4, <1>5, <1>6, <1>8, <1>9, <1>10, <1>11, <1>12, <1>13, <1>14, <1>15, NearSide

-----------------------------------------------------------------------------
(* The specification.                                                      *)

\* Restart keeps the invariant: with nothing under way there is nothing to mix up.
LEMMA RestartStep == ASSUME IInv, Restart PROVE IInv'
<1>1. /\ epoch < MaxRestarts /\ epoch' = epoch + 1 /\ NEXT_ID' = 1
      /\ caller' = [c \in Callers |-> NoCommand] /\ SESSION' = Nobody /\ port' = Nobody
      /\ straddled' = (straddled \/ AtWork \/ toDongle # <<>> \/ toHost # <<>>)
      /\ UNCHANGED <<invoked, wire, usb, firmware, tokens>>
  BY DEF Restart, AtWork
<1>2. UNCHANGED <<invoked, toDongle, toHost, plugged, pulls, dongle, effected, tokens>>
  BY <1>1 DEF wire, usb, firmware
<1>3. epoch' \in 0 .. MaxRestarts
  BY <1>1, NearTypes, LinkAssumption DEF IInv, TypeOK
<1>4. caller' \in [Callers -> Caller]
  BY <1>1, NoCommandIsCaller
<1>5. straddled' \in BOOLEAN
  BY <1>1
<1>7. \A c \in Callers : caller'[c] = NoCommand /\ at(c)' = "idle"
  BY <1>1, NoCommandIsCaller DEF at
<1>6. TypeOK'
  BY <1>1, <1>2, <1>3, <1>4, <1>5, <1>7 DEF IInv, TypeOK, Caller, Result
<1>8. LockInv' /\ AskedInv'
  BY <1>1, <1>7, NobodyAssumption DEF LockInv, AskedInv, Talking, Holding
<1>9. YesInv'
  BY <1>2 DEF IInv, YesInv
<1>10. NumberInv'
  <2>1. ~straddled' => toDongle' = <<>> /\ toHost' = <<>> /\ ~AtWork'
    BY <1>1, <1>2 DEF AtWork
  <2> QED
    BY <1>1, <1>7, <2>1 DEF NumberInv
<1>11. LinkInv'
  BY <1>7 DEF LinkInv
<1>12. AnswersOwnRequest'
  BY <1>7, NoCommandIsCaller DEF AnswersOwnRequest
<1>13. OkMeansDone'
  BY <1>2, <1>7 DEF IInv, OkMeansDone
<1> QED
  BY <1>6, <1>8, <1>9, <1>10, <1>11, <1>12, <1>13 DEF IInv

\* The invariant holds at first.
LEMMA Initially == Init => IInv
<1> SUFFICES ASSUME Init PROVE IInv
  OBVIOUS
<1>1. \A c \in Callers : caller[c] = NoCommand /\ at(c) = "idle"
  BY NoCommandIsCaller DEF Init, at
<1>2. caller \in [Callers -> Caller]
  BY NoCommandIsCaller DEF Init
<1>3. TypeOK
  <2>1. 0 \in 0 .. MaxCommands /\ 0 \in 0 .. MaxRestarts /\ 0 \in 0 .. MaxPulls
        /\ 0 <= PipeSize
    BY LinkAssumption
  <2>2. <<>> \in Seq(Request \cup {Chunk}) /\ <<>> \in Seq(Line) /\ Len(<<>>) = 0
    OBVIOUS
  <2>3. /\ toDongle \in Seq(Request \cup {Chunk}) /\ toHost \in Seq(Line)
        /\ Len(toDongle) <= PipeSize /\ Len(toHost) <= PipeSize
    BY <2>1, <2>2 DEF Init
  <2>4. /\ NEXT_ID \in Nat \ {0} /\ invoked \in 0 .. MaxCommands /\ epoch \in 0 .. MaxRestarts
        /\ pulls \in 0 .. MaxPulls
    BY <2>1 DEF Init
  <2>5. /\ {SESSION, port} \subseteq Callers \cup {Nobody}
        /\ plugged \in BOOLEAN /\ straddled \in BOOLEAN /\ effected \subseteq Request
        /\ tokens \in Request \cup {NoRequest} /\ dongle = Idle
    BY DEF Init
  <2> QED
    BY <1>1, <1>2, <2>3, <2>4, <2>5 DEF TypeOK, Caller, Result, Line
<1>4. LockInv /\ AskedInv
  BY <1>1, NobodyAssumption DEF Init, LockInv, AskedInv, Talking, Holding
<1>5. YesInv /\ NumberInv
  BY <1>1 DEF Init, YesInv, NumberInv, AtWork, Idle
<1>6. LinkInv /\ AnswersOwnRequest /\ OkMeansDone
  BY <1>1, NoCommandIsCaller DEF Init, LinkInv, AnswersOwnRequest, OkMeansDone
<1> QED
  BY <1>3, <1>4, <1>5, <1>6 DEF IInv

\* A step that changes nothing keeps it.
LEMMA Stutter == ASSUME IInv, UNCHANGED vars PROVE IInv'
<1>1. TypeOK'
  BY DEF vars, IInv, TypeOK, at
<1>2. LockInv' /\ AskedInv' /\ YesInv'
  BY DEF vars, IInv, LockInv, AskedInv, YesInv, at
<1>3. NumberInv'
  BY DEF vars, IInv, NumberInv, AtWork, at
<1>4. LinkInv'
  BY DEF vars, IInv, LinkInv, WaitingInv, StreamingInv, AtWork, at
<1>5. AnswersOwnRequest' /\ OkMeansDone'
  BY DEF vars, IInv, AnswersOwnRequest, OkMeansDone, at
<1> QED
  BY <1>1, <1>2, <1>3, <1>4, <1>5 DEF IInv

\* Every step keeps the invariant.
LEMMA EveryStep == IInv /\ [Next]_vars => IInv'
<1> SUFFICES ASSUME IInv, [Next]_vars PROVE IInv'
  OBVIOUS
<1>1. ASSUME NEW c \in Callers, CommandStep(c) PROVE IInv'
  BY <1>1, LockStep, OpenStep, OpenFailsStep, ImageUnreadableStep, SendRequestStep,
     SkipLineStep, ReadLineStep, StreamStep, CloseStep, CollectStep DEF CommandStep
<1> QED
  BY <1>1, InvokeStep, DeadlineStep, LinkFailsStep, RestartStep, TakeUpStep, AnswersStep,
     FlashStep, VerifyStep, GiveUpStep, ChatterStep, VanishStep, AppearStep, Stutter DEF Next

\* The invariant is inductive.
THEOREM Inductive == Spec => []IInv
BY Initially, EveryStep, PTL DEF Spec

\* Every variable keeps its type, and who talks to the dongle holds the session,
\* though the port of another command may then still have to be closed.
THEOREM TypeCorrect == Spec => []TypeOK
<1>1. IInv => TypeOK
  BY DEF IInv
<1> QED
  BY <1>1, Inductive, PTL

\* Unless the app was restarted with a request on its way, a request takes only
\* its own answer.
THEOREM TakesOwnAnswer == Spec => []AnswersOwnRequest
<1>1. IInv => AnswersOwnRequest
  BY DEF IInv
<1> QED
  BY <1>1, Inductive, PTL

\* What a command reports as done the dongle did for it, and a stored token is
\* one the dongle minted.
THEOREM DoneIsDone == Spec => []OkMeansDone
<1>1. IInv => OkMeansDone
  BY DEF IInv
<1> QED
  BY <1>1, Inductive, PTL
=============================================================================
