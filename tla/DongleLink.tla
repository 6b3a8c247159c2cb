----------------------------- MODULE DongleLink -----------------------------
(***************************************************************************)
(* USB setup of a dongle: the Tauri commands of                            *)
(* src-tauri/src/dongle_setup/mod.rs over the serial link of link.rs.      *)
(*                                                                         *)
(* Commands queue for SESSION; each opens the port, which is to empty the  *)
(* buffers of both sides, and talks in numbered requests.  A request may   *)
(* outlive all that: its answer may come when the command that asked has   *)
(* timed out and another one has the port.  Lines may be torn or lost, the *)
(* dongle may be pulled out or reboot, and the app may be restarted, which *)
(* starts the numbers over.                                                *)
(*                                                                         *)
(* The dongle (firmware, not in this repository) is single-threaded: it    *)
(* takes requests in order, one at a time.                                 *)
(***************************************************************************)
EXTENDS Naturals, Sequences, FiniteSets

CONSTANTS
    Callers,       \* commands the window may have in progress at once
    ImageSize,     \* chunks of a firmware image
    PipeSize,      \* lines or chunks in flight in either direction
    MaxCommands,   \* bound: commands ever invoked
    MaxPulls,      \* bound: times the dongle is pulled out or reboots
    MaxRestarts    \* bound: restarts of the app

ASSUME LinkAssumption ==
    /\ {ImageSize, PipeSize} \subseteq Nat \ {0}
    /\ {MaxCommands, MaxPulls, MaxRestarts} \subseteq Nat

Nobody == [nobody |-> TRUE]
ASSUME NobodyAssumption == Nobody \notin Callers

\* What a request asks; dongle_scan goes like dongle_info.
Command == {"info", "provision", "pair", "update"}
\* A request's id and command are on the wire, the run of the app is not.
Request   == [id : Nat \ {0}, cmd : Command, epoch : 0 .. MaxRestarts]
NoRequest == [id |-> 0]

VARIABLES
    SESSION,    \* who holds the session lock
    port,       \* who has the port open
    NEXT_ID, epoch, invoked,
    caller,     \* each command: where it is and its latest request
    toDongle, toHost,
    plugged, pulls,
    dongle,     \* what the firmware is at
    effected,   \* requests the dongle carried out
    tokens,     \* the request that minted the token in the TokenStore
    straddled   \* history: was the app restarted with a request or answer on its way?

vars == <<SESSION, port, NEXT_ID, epoch, invoked, caller, toDongle, toHost,
          plugged, pulls, dongle, effected, tokens, straddled>>

lock     == <<SESSION, port>>
numbers  == <<NEXT_ID, epoch, invoked, straddled>>
wire     == <<toDongle, toHost>>
usb      == <<plugged, pulls>>
firmware == <<dongle, effected>>

\* req is the latest request, by the one whose answer was taken for its answer.
NoCommand == [at |-> "idle", cmd |-> "info", req |-> NoRequest, by |-> NoRequest,
              left |-> 0, result |-> "none"]
Idle  == [at |-> "idle"]
Noise == [kind |-> "noise"]   \* not JSON: a torn line, boot chatter
Event == [kind |-> "event"]   \* a line that tells of progress
Chunk == [id |-> 0, cmd |-> "chunk"]
Answer(r, ok) == [kind |-> "answer", to |-> r, ok |-> ok]

Init ==
    /\ SESSION = Nobody /\ port = Nobody
    /\ NEXT_ID = 1 /\ epoch = 0 /\ invoked = 0
    /\ caller = [c \in Callers |-> NoCommand]
    /\ toDongle = <<>> /\ toHost = <<>>
    /\ plugged = TRUE /\ pulls = 0
    /\ dongle = Idle /\ effected = {}
    /\ tokens = NoRequest /\ straddled = FALSE

-----------------------------------------------------------------------------
(* The commands.                                                           *)

at(c) == caller[c].at

Invoke(c) ==
    /\ at(c) = "idle" /\ invoked < MaxCommands
    /\ invoked' = invoked + 1
    /\ \E cmd \in Command \ {"pair"} :
          caller' = [caller EXCEPT ![c] = [NoCommand EXCEPT !.at = "lock", !.cmd = cmd]]
    /\ UNCHANGED <<lock, NEXT_ID, epoch, straddled, wire, usb, firmware, tokens>>

\* session_lock: a mutex that promises no order.
LockNothing(c) ==   \* mutant: no SESSION
    /\ at(c) = "lock"
    /\ caller' = [caller EXCEPT ![c].at = "open"]
    /\ UNCHANGED <<lock, numbers, wire, usb, firmware, tokens>>

Lock(c) ==
    /\ at(c) = "lock" /\ SESSION = Nobody
    /\ SESSION' = c
    /\ caller' = [caller EXCEPT ![c].at = "open"]
    /\ UNCHANGED <<port, numbers, wire, usb, firmware, tokens>>

\* The link of dongle_info and dongle_scan is a temporary of the closure's last
\* expression, which outlives its locals, the guard of SESSION among them.
Lingers(c) == port = c /\ caller[c].cmd = "info"

\* Returning drops the link and the guard; a link that lingers is dropped last.
Return(c, result, by) ==
    /\ caller' = [caller EXCEPT ![c].at = IF Lingers(c) THEN "closing" ELSE "returned",
                                ![c].result = result, ![c].by = by]
    /\ SESSION' = IF SESSION = c THEN Nobody ELSE SESSION
    /\ port' = IF port = c /\ ~Lingers(c) THEN Nobody ELSE port

Close(c) ==
    /\ at(c) = "closing"
    /\ caller' = [caller EXCEPT ![c].at = "returned"]
    /\ port' = IF port = c THEN Nobody ELSE port
    /\ UNCHANGED <<SESSION, numbers, wire, usb, firmware, tokens>>

\* DongleLink::open: a port is exclusive.  Neither what the OS has buffered nor
\* what the firmware has (DTR is to make it drop its input) need go, as no error
\* of the two calls is looked at; nor is it said whether an update that waits
\* for more is given up.
Open(c) ==
    /\ at(c) = "open" /\ plugged /\ port = Nobody
    /\ port' = c
    /\ toDongle' \in {<<>>, toDongle} /\ toHost' \in {<<>>, toHost}
    /\ dongle' \in IF dongle.at = "updating" THEN {Idle, dongle} ELSE {dongle}
    /\ caller' = [caller EXCEPT ![c].at = "send"]
    /\ UNCHANGED <<SESSION, numbers, usb, effected, tokens>>

\* port_open_failed, as another command has the port or there is none.
OpenFails(c) ==
    /\ at(c) = "open" /\ (~plugged \/ port # Nobody)
    /\ Return(c, IF plugged THEN "taken" ELSE "gone", NoRequest)
    /\ UNCHANGED <<numbers, wire, usb, firmware, tokens>>

\* dongle_update_firmware reads the image before it opens the port.
ImageUnreadable(c) ==
    /\ at(c) = "open" /\ caller[c].cmd = "update"
    /\ Return(c, "failed", NoRequest)
    /\ UNCHANGED <<numbers, wire, usb, firmware, tokens>>

\* DongleLink::request: number the line and write it.
SendRequest(c) ==
    /\ at(c) = "send" /\ port = c /\ plugged /\ Len(toDongle) < PipeSize
    /\ LET r == [id |-> NEXT_ID, cmd |-> caller[c].cmd, epoch |-> epoch] IN
       /\ toDongle' = Append(toDongle, r)
       /\ caller' = [caller EXCEPT ![c].at = "answer", ![c].req = r, ![c].by = NoRequest]
    /\ NEXT_ID' = NEXT_ID + 1
    /\ UNCHANGED <<lock, epoch, invoked, straddled, toHost, usb, firmware, tokens>>

\* The line a request takes for its answer; it passes over all others.  The end
\* of an update takes any line with an ok.
TakesAnyId(c, line) ==   \* mutant: no look at the id
    line.kind = "answer"

Takes(c, line) ==
    line.kind = "answer" /\ (at(c) = "answer" => line.to.id = caller[c].req.id)

Listening(c) == at(c) \in {"answer", "collect"} /\ port = c

SkipLine(c) ==
    /\ Listening(c) /\ toHost # <<>> /\ ~Takes(c, Head(toHost))
    /\ toHost' = Tail(toHost)
    /\ UNCHANGED <<lock, numbers, caller, toDongle, usb, firmware, tokens>>

\* dongle_provision goes on to pair over the same link.
Provisioned(c, by) ==
    /\ caller' = [caller EXCEPT ![c].at = "send", ![c].cmd = "pair", ![c].by = by]
    /\ UNCHANGED <<lock, tokens>>

\* What it stores must come with a token, so be an answer to some pairing; it
\* succeeds whether or not there is one.
Paired(c, by) ==
    /\ tokens' = IF by.cmd = "pair" THEN by ELSE tokens
    /\ Return(c, IF by.cmd = "pair" THEN "paired" ELSE "unpaired", by)

\* dongle_update_firmware: the dongle said "ready".
ReadyIsDone(c, by) ==   \* mutant: does not wait for the verdict
    /\ Return(c, "ok", by)
    /\ UNCHANGED tokens

Ready(c, by) ==
    /\ caller' = [caller EXCEPT ![c].at = "stream", ![c].by = by, ![c].left = ImageSize]
    /\ UNCHANGED <<lock, tokens>>

Take(c, line) ==
    LET cmd == caller[c].cmd IN
    \/ /\ ~line.ok
       /\ Return(c, IF cmd = "pair" THEN "unpaired" ELSE "failed", line.to)
       /\ UNCHANGED tokens
    \/ line.ok /\ at(c) = "answer" /\ cmd = "provision" /\ Provisioned(c, line.to)
    \/ line.ok /\ at(c) = "answer" /\ cmd = "pair" /\ Paired(c, line.to)
    \/ line.ok /\ at(c) = "answer" /\ cmd = "update" /\ Ready(c, line.to)
    \/ /\ line.ok /\ (cmd = "info" \/ at(c) = "collect")
       /\ Return(c, "ok", line.to)
       /\ UNCHANGED tokens

ReadLine(c) ==
    /\ Listening(c) /\ toHost # <<>> /\ Takes(c, Head(toHost))
    /\ Take(c, Head(toHost))
    /\ toHost' = Tail(toHost)
    /\ UNCHANGED <<numbers, toDongle, usb, firmware>>

\* write_raw.
Stream(c) ==
    /\ at(c) = "stream" /\ port = c /\ plugged
    /\ Len(toDongle) < PipeSize
    /\ toDongle' = Append(toDongle, Chunk)
    /\ caller' = [caller EXCEPT ![c].left = @ - 1,
                                ![c].at = IF caller[c].left = 1 THEN "collect" ELSE "stream"]
    /\ UNCHANGED <<lock, numbers, toHost, usb, firmware, tokens>>

GiveUpOn(c) ==
    /\ Return(c, IF caller[c].cmd = "pair" THEN "unpaired" ELSE "failed", NoRequest)
    /\ UNCHANGED <<numbers, wire, usb, firmware, tokens>>

\* dongle_timeout.  The deadline of a request is for all of it; the end of an
\* update is waited for from each line to the next, where noise is no line.
RenewedByLines(c) ==   \* mutant: a request's deadline is that of its next line
    /\ Listening(c) /\ toHost = <<>>
    /\ GiveUpOn(c)

Deadline(c) ==
    /\ Listening(c)
    /\ at(c) = "answer" \/ \A i \in DOMAIN toHost : toHost[i] = Noise
    /\ GiveUpOn(c)

\* An error of the port, or a write blocked for longer than READ_POLL.
LinkFails(c) ==
    /\ at(c) \in {"send", "answer", "stream", "collect"} /\ port = c
    /\ GiveUpOn(c)

\* The window takes the result; its next command may start.
Collect(c) ==
    /\ at(c) = "returned"
    /\ caller' = [caller EXCEPT ![c] = NoCommand]
    /\ UNCHANGED <<lock, numbers, wire, usb, firmware, tokens>>

\* The app quits, and starts with the token store's file and request number 1.
Restart ==
    /\ epoch < MaxRestarts
    /\ epoch' = epoch + 1 /\ NEXT_ID' = 1
    /\ caller' = [c \in Callers |-> NoCommand]
    /\ SESSION' = Nobody /\ port' = Nobody
    /\ straddled' = (straddled \/ dongle.at \in {"busy", "updating"}
                              \/ toDongle # <<>> \/ toHost # <<>>)
    /\ UNCHANGED <<invoked, wire, usb, firmware, tokens>>

-----------------------------------------------------------------------------
(* The dongle and its cable.                                               *)

\* A line reaches the host, or is torn or lost; a full pipe loses it.
Say(line) ==
    \/ Len(toHost) < PipeSize /\ \E said \in {line, Noise} : toHost' = Append(toHost, said)
    \/ UNCHANGED toHost

TakeUp ==
    /\ plugged /\ dongle.at = "idle" /\ toDongle # <<>>
    /\ dongle' = IF Head(toDongle) = Chunk THEN Idle
                 ELSE [at |-> "busy", req |-> Head(toDongle)]
    /\ toDongle' = Tail(toDongle)
    /\ UNCHANGED <<lock, numbers, caller, toHost, usb, effected, tokens>>

\* It carries a request out and says so, or says why not; an update is only
\* ready to start.
Answers ==
    /\ dongle.at = "busy"
    /\ \E ok \in BOOLEAN :
          /\ Say(Answer(dongle.req, ok))
          /\ effected' = IF ok /\ dongle.req.cmd # "update"
                         THEN effected \cup {dongle.req} ELSE effected
          /\ dongle' = IF ok /\ dongle.req.cmd = "update"
                       THEN [at |-> "updating", req |-> dongle.req, missing |-> ImageSize,
                             spoilt |-> FALSE]
                       ELSE Idle
    /\ UNCHANGED <<lock, numbers, caller, toDongle, usb, tokens>>

\* In an update whatever arrives is the image.
Flash ==
    /\ dongle.at = "updating" /\ dongle.missing > 0 /\ toDongle # <<>>
    /\ dongle' = [dongle EXCEPT !.missing = @ - 1, !.spoilt = @ \/ Head(toDongle) # Chunk]
    /\ toDongle' = Tail(toDongle)
    /\ UNCHANGED <<lock, numbers, caller, toHost, usb, effected, tokens>>

\* Then it verifies the signature, says so and reboots, or gives up.
Verify ==
    /\ dongle.at = "updating" /\ dongle.missing = 0 /\ ~dongle.spoilt
    /\ Say(Answer(dongle.req, TRUE))
    /\ effected' = effected \cup {dongle.req}
    /\ dongle' = [at |-> "reboot"]
    /\ UNCHANGED <<lock, numbers, caller, toDongle, usb, tokens>>

GiveUp ==
    /\ dongle.at = "updating"
    /\ Say(Answer(dongle.req, FALSE))
    /\ dongle' = Idle
    /\ UNCHANGED <<lock, numbers, caller, toDongle, usb, effected, tokens>>

\* What else it says, for as long as it likes.
Chatter ==
    /\ plugged /\ Len(toHost) < PipeSize
    /\ \E line \in {Noise, Event} : toHost' = Append(toHost, line)
    /\ UNCHANGED <<lock, numbers, caller, toDongle, usb, firmware, tokens>>

\* The dongle loses power or reboots: its port vanishes with what is in it.
Vanish ==
    /\ plugged /\ (pulls < MaxPulls \/ dongle.at = "reboot")
    /\ plugged' = FALSE /\ pulls' = IF dongle.at = "reboot" THEN pulls ELSE pulls + 1
    /\ toDongle' = <<>> /\ toHost' = <<>> /\ dongle' = Idle
    /\ UNCHANGED <<lock, numbers, caller, effected, tokens>>

\* A port that vanished is closed for good to who had it open.
Appear ==
    /\ ~plugged /\ port = Nobody
    /\ plugged' = TRUE
    /\ UNCHANGED <<lock, numbers, caller, wire, pulls, firmware, tokens>>

CommandStep(c) ==
    \/ Lock(c) \/ Open(c) \/ OpenFails(c) \/ ImageUnreadable(c) \/ SendRequest(c)
    \/ SkipLine(c) \/ ReadLine(c) \/ Stream(c) \/ Close(c) \/ Collect(c)

Next ==
    \/ \E c \in Callers : Invoke(c) \/ CommandStep(c) \/ Deadline(c) \/ LinkFails(c)
    \/ Restart
    \/ TakeUp \/ Answers \/ Flash \/ Verify \/ GiveUp \/ Chatter \/ Vanish \/ Appear

\* A command runs on a thread of its own.  Its deadlines pass, and a write fails
\* that finds the pipe full or the port gone; that a flush returns, which has no
\* deadline, is assumed.  The dongle and the cable promise nothing.
Refused(c) == ~plugged \/ (at(c) \in {"send", "stream"} /\ Len(toDongle) = PipeSize)
Fairness == \A c \in Callers :
    WF_vars(CommandStep(c)) /\ WF_vars(Deadline(c)) /\ WF_vars(Refused(c) /\ LinkFails(c))

Spec == Init /\ [][Next]_vars /\ Fairness

-----------------------------------------------------------------------------
\* Types.  Who talks to the dongle holds the session: "One serial conversation
\* at a time, app-wide" (mod.rs, SESSION).
TypeOK ==
    /\ {SESSION, port} \subseteq Callers \cup {Nobody}
    /\ \A c \in Callers :
          at(c) \in {"send", "answer", "stream", "collect"} => SESSION = c /\ port = c
    /\ NEXT_ID \in Nat \ {0} /\ invoked \in 0 .. MaxCommands
    /\ epoch \in 0 .. MaxRestarts
    /\ caller \in [Callers -> [
          at : {"idle", "lock", "open", "send", "answer", "stream", "collect", "closing",
                "returned"},
          cmd : Command, req : Request \cup {NoRequest}, by : Request \cup {NoRequest},
          left : 0 .. ImageSize,
          result : {"none", "ok", "failed", "gone", "taken", "paired", "unpaired"}]]
    /\ toDongle \in Seq(Request \cup {Chunk})
    /\ toHost \in Seq([kind : {"answer"}, to : Request, ok : BOOLEAN] \cup {Noise, Event})
    /\ Len(toDongle) <= PipeSize /\ Len(toHost) <= PipeSize
    /\ plugged \in BOOLEAN /\ pulls \in 0 .. MaxPulls
    /\ dongle \in {Idle, [at |-> "reboot"]} \cup [at : {"busy"}, req : Request]
                  \cup [at : {"updating"}, req : Request, missing : 0 .. ImageSize,
                        spoilt : BOOLEAN]
    /\ effected \subseteq Request
    /\ tokens \in Request \cup {NoRequest}
    /\ straddled \in BOOLEAN

\* A request never takes the answer to another one for its own, however many
\* timed out before it with the dongle still at work, and whatever the opening of
\* the port left in the buffers; only a restart of the app with a request or an
\* answer on its way can make it do so, as the numbers start over.
AnswersOwnRequest ==
    \A c \in Callers : caller[c].by # NoRequest => caller[c].by = caller[c].req \/ straddled

\* What a command reports as done, the dongle did for this very request: it
\* joined the network before pairing was tried, minted the token, verified the
\* image (though the line that ends an update is not matched by its id).  The
\* token in the store is always one it minted.
OkMeansDone ==
    /\ \A c \in Callers :
          \/ at(c) \in {"closing", "returned"} /\ caller[c].result \in {"ok", "paired"}
          \/ at(c) = "send" /\ caller[c].cmd = "pair"
          => caller[c].req \in effected \/ straddled
    /\ tokens # NoRequest => tokens.cmd = "pair" /\ tokens \in effected

\* A dongle that never stops telling an update of its progress.
TalksOn == \E c \in Callers : at(c) = "collect" /\ SkipLine(c) /\ Head(toHost) = Event

\* Every command returns, whatever the dongle says, or does not, or is no more,
\* with one exception: the end of an update is waited for anew at each line, so
\* a dongle that never stops telling of its progress holds that command, and all
\* that wait for the session, for ever.
EveryCommandEnds ==
    []<><<TalksOn>>_vars \/ \A c \in Callers : at(c) # "idle" ~> at(c) = "idle"

\* "concurrent commands [...] must queue here instead of failing to open the
\* port" (mod.rs, SESSION): none finds that another one still has it.
NeverFindsPortTaken == \A c \in Callers : caller[c].result # "taken"
=============================================================================
