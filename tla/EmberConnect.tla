---------------------------- MODULE EmberConnect ----------------------------
(***************************************************************************)
(* Talking to an EmberConnect dongle that wants a bearer token:            *)
(* EmberConnectClient (src-tauri/src/emberconnect/client.rs) and the       *)
(* TokenStore all its clients share (emberconnect/tokens.rs).              *)
(*                                                                         *)
(* Status requests of the API and the upload worker each build a client of *)
(* their own, so several calls use and replace one stored token at once.   *)
(* Everything between two uses of the store or of the network is a step.   *)
(* The dongle is external: it mints tokens while its pairing window is     *)
(* open or over USB, keeps old ones valid, and forgets them all in a reset. *)
(***************************************************************************)
EXTENDS Naturals, FiniteSets

CONSTANTS
    Clients,          \* calls that may be in progress at once
    Uploader,         \* the one of them the upload worker makes
    READ_RETRIES,     \* attempts of a read (3 in the code)
    UPLOAD_RETRIES,   \* attempts of a transmission (2 in the code)
    MaxTokens,        \* bound: tokens the dongle mints
    MaxResets         \* bound: factory resets

ASSUME RetriesAssumption ==
    /\ Uploader \in Clients
    /\ READ_RETRIES \in Nat \ {0} /\ UPLOAD_RETRIES \in Nat \ {0}
    /\ MaxTokens \in Nat /\ MaxResets \in Nat

Token   == 1 .. MaxTokens
NoToken == 0

VARIABLES
    valid,     \* tokens the dongle accepts
    minted,    \* tokens it has handed out
    open,      \* is its pairing window open?
    resets,    \* factory resets so far
    store,     \* TokenStore.map, for this dongle's serial
    file,      \* emberconnect-tokens.json
    usb,       \* the token a USB provisioning has been given and not yet stored
    op,        \* each client's call: what it does and where it stands
    trouble,   \* history: a message was lost or the dongle reset during the call
    result     \* how each client's last call ended

dongle == <<valid, minted, open, resets>>
vars   == <<dongle, store, file, usb, op, trouble, result>>

\* at: "token" before the stored token is read, "sent" with the request under
\* way, "forget", "pair", "set" on the way to a new token, "resend" with it.
Phase == {"info", "files", "upload"}
Op    == [phase : Phase, at : {"token", "sent", "forget", "pair", "set", "resend"},
          try : Nat \ {0}, token : Token \cup {NoToken}]
Idle  == [at |-> "idle"]
Start(phase) == [phase |-> phase, at |-> "token", try |-> 1, token |-> NoToken]

Init ==
    /\ valid = {} /\ minted = 0 /\ open = FALSE /\ resets = 0
    /\ store = NoToken /\ file = NoToken /\ usb = NoToken
    /\ op = [c \in Clients |-> Idle]
    /\ trouble = [c \in Clients |-> FALSE]
    /\ result = [c \in Clients |-> "none"]

-----------------------------------------------------------------------------
(* The steps of a call.                                                    *)

\* storage() and upload() both begin by reading /api/info.
Begin(c) ==
    /\ op[c] = Idle
    /\ op' = [op EXCEPT ![c] = Start("info")]
    /\ trouble' = [trouble EXCEPT ![c] = FALSE]
    /\ result' = [result EXCEPT ![c] = "none"]
    /\ UNCHANGED <<dongle, store, file, usb>>

\* The serial the store is asked for comes from /api/health the first time; to
\* lose that answer is to lose the one of the request that follows.
ReadToken(c) ==
    /\ op[c].at = "token"
    /\ op' = [op EXCEPT ![c].token = store, ![c].at = "sent"]
    /\ UNCHANGED <<dongle, store, file, usb, trouble, result>>

End(c, res) ==
    /\ op' = [op EXCEPT ![c] = Idle]
    /\ result' = [result EXCEPT ![c] = res]

\* with_retries around a read and around a transmission.
Attempts(phase) == IF phase = "upload" THEN UPLOAD_RETRIES ELSE READ_RETRIES

AttemptFailedOneMore(c, res) ==   \* mutant: one attempt too many
    IF op[c].try <= Attempts(op[c].phase)
    THEN /\ op' = [op EXCEPT ![c] = [Start(@.phase) EXCEPT !.try = op[c].try + 1]]
         /\ UNCHANGED result
    ELSE End(c, res)

AttemptFailedUncounted(c, res) ==   \* mutant: the attempt is not counted
    /\ op' = [op EXCEPT ![c] = [Start(@.phase) EXCEPT !.try = op[c].try]]
    /\ UNCHANGED result

AttemptFailed(c, res) ==
    IF op[c].try < Attempts(op[c].phase)
    THEN /\ op' = [op EXCEPT ![c] = [Start(@.phase) EXCEPT !.try = op[c].try + 1]]
         /\ UNCHANGED result
    ELSE End(c, res)

\* After /api/info an upload goes on to transmit and storage() to /api/files.
Succeeded(c) ==
    IF op[c].phase = "info"
    THEN /\ op' = [op EXCEPT ![c] = Start(IF c = Uploader THEN "upload" ELSE "files")]
         /\ UNCHANGED result
    ELSE End(c, "ok")

\* The dongle accepts the token.
Accepted(c) ==
    /\ op[c].at \in {"sent", "resend"} /\ op[c].token \in valid
    /\ Succeeded(c)
    /\ UNCHANGED <<dongle, store, file, usb, trouble>>

\* It answers 401: the client forgets and pairs.
UnauthorizedFails(c) ==   \* mutant: a 401 is an error like others
    /\ op[c].at = "sent" /\ op[c].token \notin valid
    /\ AttemptFailed(c, "failed")
    /\ UNCHANGED <<dongle, store, file, usb, trouble>>

Unauthorized(c) ==
    /\ op[c].at = "sent" /\ op[c].token \notin valid
    /\ op' = [op EXCEPT ![c].at = "forget"]
    /\ UNCHANGED <<dongle, store, file, usb, trouble, result>>

\* A second 401 is a plain protocol error.
UnauthorizedAgain(c) ==
    /\ op[c].at = "resend" /\ op[c].token \notin valid
    /\ AttemptFailed(c, "failed")
    /\ UNCHANGED <<dongle, store, file, usb, trouble>>

\* A request or its answer is lost, or the dongle answers with another error.
Lost(c) ==
    /\ op[c].at \in {"sent", "resend", "pair"}
    /\ trouble' = [trouble EXCEPT ![c] = TRUE]
    /\ AttemptFailed(c, "failed")
    /\ UNCHANGED <<dongle, store, file, usb>>

\* A full card, seen in /api/info or answered to the transmission, is final.
CardFull(c) ==
    /\ op[c].at \in {"sent", "resend"} /\ op[c].token \in valid
    /\ c = Uploader
    /\ End(c, "full")
    /\ UNCHANGED <<dongle, store, file, usb, trouble>>

\* TokenStore::set and forget: a failure to persist is only logged.
Persist(token) == file' \in {file, token}

Forget(c) ==
    /\ op[c].at = "forget"
    /\ store' = NoToken
    /\ IF store # NoToken THEN Persist(NoToken) ELSE UNCHANGED file
    /\ op' = [op EXCEPT ![c].at = "pair"]
    /\ UNCHANGED <<dongle, usb, trouble, result>>

\* The dongle mints one more token; those it minted before stay valid.
Mint ==
    /\ minted < MaxTokens
    /\ minted' = minted + 1 /\ valid' = valid \cup {minted + 1}
    /\ UNCHANGED <<open, resets>>

\* pair(): the answer may be lost after the dongle minted the token.
Pair(c) ==
    /\ op[c].at = "pair" /\ open
    /\ Mint
    /\ \/ /\ op' = [op EXCEPT ![c].token = minted + 1, ![c].at = "set"]
          /\ UNCHANGED <<trouble, result>>
       \/ /\ trouble' = [trouble EXCEPT ![c] = TRUE]
          /\ AttemptFailed(c, "failed")
    /\ UNCHANGED <<store, file, usb>>

\* Any unsuccessful answer to a pairing request counts as a closed window.
PairRefused(c) ==
    /\ op[c].at = "pair"
    /\ trouble' = [trouble EXCEPT ![c] = @ \/ open]
    /\ End(c, "pairing")
    /\ UNCHANGED <<dongle, store, file, usb>>

\* A read sends its request again with the token just minted; a transmission
\* leaves that to the next attempt.
SetToken(c) ==
    /\ op[c].at = "set"
    /\ store' = op[c].token /\ Persist(op[c].token)
    /\ IF op[c].phase # "upload"
       THEN op' = [op EXCEPT ![c].at = "resend"] /\ UNCHANGED result
       ELSE AttemptFailed(c, "repaired")
    /\ UNCHANGED <<dongle, usb, trouble>>

Step(c) ==
    \/ ReadToken(c) \/ Accepted(c) \/ Unauthorized(c) \/ UnauthorizedAgain(c)
    \/ Lost(c) \/ CardFull(c) \/ Forget(c) \/ Pair(c) \/ PairRefused(c) \/ SetToken(c)

-----------------------------------------------------------------------------
(* USB provisioning, the dongle and the app.                               *)

\* Provisioning pairs over USB, whatever the window, into the same store.
UsbPair ==
    /\ usb = NoToken
    /\ Mint
    /\ usb' = minted + 1
    /\ UNCHANGED <<store, file, op, trouble, result>>

UsbSet ==
    /\ usb # NoToken
    /\ store' = usb /\ Persist(usb) /\ usb' = NoToken
    /\ UNCHANGED <<dongle, op, trouble, result>>

Window ==
    /\ open' = ~open
    /\ UNCHANGED <<valid, minted, resets, store, file, usb, op, trouble, result>>

\* A factory reset, or tokens revoked at the dongle.
Reset ==
    /\ resets < MaxResets
    /\ resets' = resets + 1 /\ valid' = {}
    /\ trouble' = [c \in Clients |-> TRUE]
    /\ UNCHANGED <<minted, open, store, file, usb, op, result>>

\* The app is restarted: calls are gone, the store is what the file holds.
Restart ==
    /\ store' = file /\ usb' = NoToken
    /\ op' = [c \in Clients |-> Idle]
    /\ UNCHANGED <<dongle, file, trouble, result>>

Next ==
    \/ \E c \in Clients : Begin(c) \/ Step(c)
    \/ UsbPair \/ UsbSet \/ Window \/ Reset \/ Restart

\* Every request has a timeout, so a call keeps taking steps.
Spec == Init /\ [][Next]_vars /\ \A c \in Clients : WF_vars(Step(c))

-----------------------------------------------------------------------------
(* Types: no call makes more attempts than its retry constant allows.      *)
TypeOK ==
    /\ valid \subseteq Token /\ minted \in 0 .. MaxTokens
    /\ open \in BOOLEAN /\ resets \in 0 .. MaxResets
    /\ {store, file, usb} \subseteq Token \cup {NoToken}
    /\ \A c \in Clients :
          op[c] # Idle => op[c] \in Op /\ op[c].try <= Attempts(op[c].phase)
    /\ trouble \in [Clients -> BOOLEAN]
    /\ result \in [Clients -> {"none", "ok", "failed", "full", "pairing", "repaired"}]

\* A read neither fails nor loses an attempt because calls race for the stored
\* token, which each of them forgets and replaces under the others: get_json
\* repeats its request with the token it was given.  So when a read is attempted
\* again, or a call fails for anything but a closed window (which is for the
\* user to open), a message was lost or the dongle was reset during the call.
FailsOnlyOnTrouble ==
    \A c \in Clients :
        /\ result[c] = "failed" => trouble[c]
        /\ op[c] # Idle /\ op[c].phase # "upload" /\ op[c].try > 1 => trouble[c]

\* Every call ends, however the dongle and the other calls behave.
EveryCallEnds == \A c \in Clients : (op[c] # Idle) ~> (op[c] = Idle)

-----------------------------------------------------------------------------
(* What the comments say and the code does not do.                         *)

\* client.rs: a 401 during an upload is to "pair now and let the retry loop
\* re-send with it". When other calls replace and forget the token that was
\* paired for, the attempts run out on pairing, although nothing was lost and
\* the dongle was not reset while the upload ran.
RepairedIsResent == \A c \in Clients : result[c] = "repaired" => trouble[c]
=============================================================================
