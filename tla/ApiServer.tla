------------------------------ MODULE ApiServer ------------------------------
(***************************************************************************)
(* The localhost API as a whole (src-tauri/src/server/mod.rs): starting it *)
(* (serve), a request's way through cors and require_token (auth.rs), and  *)
(* the handlers behind them: the sweep (Discovery), the allowlist that     *)
(* cors reads (update_settings), "what is at this address?"                *)
(* (resolve_machine), and the origin check of the pairing routes.  What    *)
(* send, the pairing routes and the saved machines change is modelled in   *)
(* JobQueue, Pairing and ConfigStore: here they answer.                    *)
(*                                                                         *)
(* Requests interleave at every await, and a client may go away at any of  *)
(* them.                                                                   *)
(***************************************************************************)
EXTENDS AccessGate, Discovery, Sequences

CONSTANTS
    Kinds,        \* what each call may ask: [Calls -> SUBSET Request]
    Allowlists,   \* bodies of PUT /api/settings
    Backends      \* BackendRegistry.backends, a sequence

ASSUME ApiAssumption ==
    /\ \A c \in Calls : Kinds[c] \subseteq Request
    /\ Backends \in Seq({"brother", "emberconnect"}) /\ Backends # <<>>

\* What a backend's probe of an address gives: Ok(Some), Ok(None), Err.
Outcome == {"ours", "other", "failed"}
Verdict == {"machine", "not_a_machine", "unreachable"}

VARIABLES
    server_health,     \* AppState.server_health
    serving,           \* has axum::serve been entered?
    allowed_origins,   \* the config's allowlist
    call,              \* each request
    everAllowed        \* history: allowlists in force since each call arrived

apiVars == <<server_health, serving, allowed_origins, call, everAllowed, sweepVars>>

Health == [running |-> FALSE, error |-> FALSE]
Unsent == [at |-> "unsent"]
Gone   == [at |-> "gone"]

ApiInit ==
    /\ DiscoveryInit
    /\ server_health = Health /\ serving = FALSE
    /\ allowed_origins = {}
    /\ call = [c \in Calls |-> Unsent]
    /\ everAllowed = [c \in Calls |-> {}]

-----------------------------------------------------------------------------
(* serve                                                                   *)

\* The port is taken: recorded, and never tried again.
BindFails ==
    /\ server_health = Health
    /\ server_health' = [server_health EXCEPT !.error = TRUE]
    /\ UNCHANGED <<serving, allowed_origins, call, everAllowed, sweepVars>>

Bind ==
    /\ server_health = Health
    /\ server_health' = [running |-> TRUE, error |-> FALSE]
    /\ UNCHANGED <<serving, allowed_origins, call, everAllowed, sweepVars>>

Serve ==
    /\ server_health.running /\ ~serving
    /\ serving' = TRUE
    /\ UNCHANGED <<server_health, allowed_origins, call, everAllowed, sweepVars>>

-----------------------------------------------------------------------------
(* The middlewares, outermost first.                                       *)

at(c) == call[c].at

Send(c) ==
    /\ serving /\ call[c] = Unsent
    /\ \E r \in Kinds[c] : call' = [call EXCEPT ![c] = [at |-> "cors", request |-> r]]
    /\ everAllowed' = [everAllowed EXCEPT ![c] = {allowed_origins}]
    /\ UNCHANGED <<server_health, serving, allowed_origins, sweepVars>>

Reply(c, status, readable) ==
    call' = [call EXCEPT ![c] = [at |-> "answered", request |-> @.request,
                                 status |-> status, readable |-> readable]]

\* cors: a foreign Host is refused, a preflight answered without the token and
\* the handler; for the others the allowlist is read now, used on the way out.
Cors(c) ==
    /\ at(c) = "cors"
    /\ LET r == call[c].request
           readable == Readable(r, allowed_origins)
       IN  CASE ~LocalHost(r) -> Reply(c, 403, FALSE)
             [] LocalHost(r) /\ r.preflight -> Reply(c, 204, readable)
             [] OTHER -> call' = [call EXCEPT ![c] =
                           [at |-> "token", request |-> r, readable |-> readable]]
    /\ UNCHANGED <<server_health, serving, allowed_origins, everAllowed, sweepVars>>

\* require_token
RequireToken(c) ==
    /\ at(c) = "token"
    /\ IF Admitted(call[c].request)
       THEN call' = [call EXCEPT ![c].at = "handler"]
       ELSE Reply(c, 401, call[c].readable)
    /\ UNCHANGED <<server_health, serving, allowed_origins, everAllowed, sweepVars>>

GoAwayDetached(c) ==   \* mutant: the sweep runs in a task of its own
    /\ at(c) \notin {"unsent", "answered", "gone"}
    /\ call' = [call EXCEPT ![c] = Gone]
    /\ everAllowed' = [everAllowed EXCEPT ![c] = {}]
    /\ UNCHANGED <<server_health, serving, allowed_origins, sweepVars>>

\* The client closes the connection: the request's future is dropped, and with
\* it a sweep.
GoAway(c) ==
    /\ at(c) \notin {"unsent", "answered", "gone"}
    /\ call' = [call EXCEPT ![c] = Gone]
    /\ everAllowed' = [everAllowed EXCEPT ![c] = {}]
    /\ IF sweep[c] = "none" THEN UNCHANGED sweepVars ELSE Drop(c)
    /\ UNCHANGED <<server_health, serving, allowed_origins>>

-----------------------------------------------------------------------------
(* Handlers.                                                               *)

InHandler(c, path) == at(c) = "handler" /\ call[c].request.path = path

Discover(c) ==
    /\ InHandler(c, "discover")
    /\ \/ Start(c) /\ UNCHANGED call
       \/ Refuse(c) /\ Reply(c, 400, call[c].readable)
       \/ Finish(c) /\ Reply(c, 200, call[c].readable)
    /\ UNCHANGED <<server_health, serving, allowed_origins, everAllowed>>

\* update_settings: one entry that is no web origin refuses the whole list; one
\* that cannot be written to disk is in force all the same (500).
UpdateSettings(c) ==
    /\ InHandler(c, "settings")
    /\ \E origins \in Allowlists :
          IF ValidOrigins(origins)
          THEN /\ allowed_origins' = origins
               /\ everAllowed' = [d \in Calls |->
                     IF call[d] \in {Unsent, Gone} THEN {} ELSE everAllowed[d] \cup {origins}]
               /\ \E status \in {200, 500} : Reply(c, status, call[c].readable)
          ELSE /\ UNCHANGED <<allowed_origins, everAllowed>>
               /\ Reply(c, 400, call[c].readable)
    /\ UNCHANGED <<server_health, serving, sweepVars>>

\* resolve_machine: BackendRegistry::identify asks one backend after the other.
\* outcome is what each would get.  An address that is not local is refused.
Identify(c) ==
    /\ InHandler(c, "info")
    /\ \/ Reply(c, 400, call[c].readable)
       \/ \E outcome \in [DOMAIN Backends -> Outcome] :
             call' = [call EXCEPT ![c] = [at |-> "identify", request |-> @.request,
                          readable |-> @.readable, outcome |-> outcome, asked |-> 0]]
    /\ UNCHANGED <<server_health, serving, allowed_origins, everAllowed, sweepVars>>

AskedOutcomes(i) == {i.outcome[b] : b \in 1 .. i.asked}

SettledOnError(i) ==   \* mutant: `backend.probe(ip).await?`
    {"ours", "failed"} \cap AskedOutcomes(i) # {} \/ i.asked = Len(Backends)

\* The first backend that claims the device ends it; an error does not.
Settled(i) == "ours" \in AskedOutcomes(i) \/ i.asked = Len(Backends)

VerdictOf(i) ==
    CASE "ours" \in AskedOutcomes(i) -> "machine"
      [] "ours" \notin AskedOutcomes(i) /\ "other" \in AskedOutcomes(i) -> "not_a_machine"
      [] OTHER -> "unreachable"

AskBackend(c) ==
    /\ at(c) = "identify" /\ ~Settled(call[c])
    /\ call' = [call EXCEPT ![c].asked = @ + 1]
    /\ UNCHANGED <<server_health, serving, allowed_origins, everAllowed, sweepVars>>

Resolved(c) ==
    /\ at(c) = "identify" /\ Settled(call[c])
    /\ call' = [call EXCEPT ![c] = [at |-> "answered", request |-> @.request,
                    status |-> VerdictOf(@), readable |-> @.readable,
                    outcome |-> @.outcome]]
    /\ UNCHANGED <<server_health, serving, allowed_origins, everAllowed, sweepVars>>

\* vetted_pairing_origin: here alone the server itself holds the page to the list.
PairingPath == {"pair", "pairId", "pairOther"}

Vet(c) ==
    /\ \E path \in PairingPath : InHandler(c, path)
    /\ LET origin == call[c].request.origin
       IN  CASE origin = Absent -> Reply(c, 400, call[c].readable)
             [] origin # Absent /\ origin_allowed(origin, allowed_origins) ->
                   call' = [call EXCEPT ![c].at = "vetted"]
             [] OTHER -> Reply(c, 403, call[c].readable)
    /\ UNCHANGED <<server_health, serving, allowed_origins, everAllowed, sweepVars>>

\* How the handlers answer whose state is in other modules.
StatusOf ==
    [health |-> {200}, read |-> {200, 404}, send |-> {202, 400},
     machines |-> {200, 400, 404, 500}, respond |-> {200, 404},
     pair |-> {202, 409}, pairId |-> {200, 403, 404}, pairOther |-> {404}]

Respond(c) ==
    /\ \/ at(c) = "vetted"
       \/ \E path \in DOMAIN StatusOf \ PairingPath : InHandler(c, path)
    /\ \E status \in StatusOf[call[c].request.path] : Reply(c, status, call[c].readable)
    /\ UNCHANGED <<server_health, serving, allowed_origins, everAllowed, sweepVars>>

Background(c) ==
    SweepStep(c) /\ UNCHANGED <<server_health, serving, allowed_origins, call, everAllowed>>

Progress(c) ==
    \/ Cors(c) \/ RequireToken(c) \/ Discover(c) \/ UpdateSettings(c)
    \/ Identify(c) \/ AskBackend(c) \/ Resolved(c) \/ Vet(c) \/ Respond(c)

ApiNext ==
    \/ BindFails \/ Bind \/ Serve
    \/ \E c \in Calls : Send(c) \/ Progress(c) \/ Background(c) \/ GoAway(c)

\* The runtime runs every ready task; a probe ends by its timeout.
ApiFairness ==
    \A c \in Calls : WF_apiVars(Progress(c)) /\ WF_apiVars(Background(c))

ApiSpec == ApiInit /\ [][ApiNext]_apiVars /\ ApiFairness

-----------------------------------------------------------------------------
\* Types.
TypeOK ==
    /\ DiscoveryTypeOK
    /\ server_health \in [running : BOOLEAN, error : BOOLEAN]
    /\ ~(server_health.running /\ server_health.error)
    /\ serving => server_health.running
    /\ \A c \in Calls : call[c] \notin {Unsent, Gone} =>
          serving /\ call[c].request \in Kinds[c]
    /\ \A c \in Calls : sweep[c] \in Sweeping => InHandler(c, "discover")

\* A request that was more than refused: whatever it asked for was done or told.
Refusals == {204, 400, 401, 403}
Served(c) ==
    \/ sweep[c] \in Sweeping \cup {"done"}
    \/ at(c) \in {"identify", "vetted"}
    \/ at(c) = "answered"
       /\ ("outcome" \in DOMAIN call[c] \/ call[c].status \notin Refusals)

\* Whatever route changes the app's state, sends traffic into the local network or
\* tells more than that the bridge is there is served only with the app's token,
\* or, for a page that asks to pair, to an origin some list in force meanwhile
\* allowed; always for a request addressed to this machine, never for a preflight.
OnlyTokenHoldersAct ==
    \A c \in Calls : Served(c) /\ call[c].request.path # "health" =>
        LET r == call[c].request IN
        /\ r.host = Absent \/ r.host.name \in {"127.0.0.1", "localhost", "::1"}
        /\ ~r.preflight
        /\ IF r.path \in {"pair", "pairId"}
           THEN r.origin # Absent /\ \E list \in everAllowed[c] : origin_allowed(r.origin, list)
           ELSE ApiToken \in {r.authorization, r.x_ember_token}

\* A page reads an answer only if its origin was allowed by a list in force
\* while the request was under way, or asked for the public health check; the
\* list may have changed since it was read.
ReadableWasAllowed ==
    \A c \in Calls : at(c) = "answered" /\ call[c].readable =>
        LET r == call[c].request IN
        \/ r.path = "health"
        \/ \E list \in everAllowed[c] : origin_allowed(r.origin, list)

\* identify's verdict does not depend on the order of the backends: a device is
\* a machine iff a backend claims it, and unreachable only if none got an answer.
VerdictIsOrderless ==
    \A c \in Calls : at(c) = "answered" /\ "outcome" \in DOMAIN call[c] =>
        LET all == {call[c].outcome[b] : b \in DOMAIN Backends} IN
        call[c].status = IF "ours" \in all THEN "machine"
                         ELSE IF "other" \in all THEN "not_a_machine"
                         ELSE "unreachable"

\* Every request is answered, unless its client left, however many sweeps were
\* dropped before it; with FlagIsTheSweep, discovery is never left running.
EveryRequestEnds ==
    \A c \in Calls : at(c) # "unsent" ~> at(c) \in {"answered", "gone"}
=============================================================================
