-------------------------- MODULE EmberConnectProofs --------------------------
(***************************************************************************)
(* Any number of calls may use, forget and replace one stored token: a     *)
(* read pays for it only when a message was lost or the dongle was reset.  *)
(***************************************************************************)
EXTENDS EmberConnect, TLAPS

\* A call is a record of its own while it runs.
CallInv == op \in [Clients -> Op \cup {Idle}]

\* A token the dongle has just given to a call is good until a reset, which
\* every call is then known to have met.
FreshInv ==
    \A c \in Clients :
        op[c].at \in {"set", "resend"} => op[c].token \in valid \/ trouble[c]

\* A transmission does not repeat its request within one attempt.
ResendInv == \A c \in Clients : op[c].at = "resend" => op[c].phase # "upload"

\* The inductive invariant.
IInv == TypeOK /\ CallInv /\ FreshInv /\ ResendInv /\ FailsOnlyOnTrouble

-----------------------------------------------------------------------------
(* How an attempt ends.                                                    *)

\* What a step of the call c leaves of the invariant when it changes that call
\* and its result only as said.
LEMMA OneCall ==
    ASSUME IInv, NEW c \in Clients,
           NEW o \in Op \cup {Idle}, op' = [op EXCEPT ![c] = o],
           o # Idle => o.try <= Attempts(o.phase),
           o.at \in {"set", "resend"} => o.token \in valid' \/ trouble'[c],
           o.at = "resend" => o.phase # "upload",
           o # Idle /\ o.phase # "upload" /\ o.try > 1 => trouble'[c],
           NEW r \in {"none", "ok", "failed", "full", "pairing", "repaired"},
           result' = [result EXCEPT ![c] = r],
           r = "failed" => trouble'[c],
           trouble' \in [Clients -> BOOLEAN],
           \A d \in Clients : trouble[d] => trouble'[d] \/ d = c,
           valid \subseteq valid', valid' \subseteq Token,
           minted' \in 0 .. MaxTokens, open' \in BOOLEAN, resets' \in 0 .. MaxResets,
           {store', file', usb'} \subseteq Token \cup {NoToken}
    PROVE  IInv'
<1> USE DEF IInv
<1>o. /\ op'[c] = o /\ \A d \in Clients : d # c => op'[d] = op[d]
      /\ result'[c] = r /\ \A d \in Clients : d # c => result'[d] = result[d]
  BY DEF CallInv, TypeOK
<1>1. CallInv'
  BY DEF CallInv
<1>2. TypeOK'
  <2>1. \A d \in Clients : op'[d] # Idle =>
            op'[d] \in Op /\ op'[d].try <= Attempts(op'[d].phase)
    BY <1>o DEF TypeOK
  <2>2. result' \in [Clients -> {"none", "ok", "failed", "full", "pairing", "repaired"}]
    BY DEF TypeOK
  <2> QED
    BY <2>1, <2>2 DEF TypeOK, Attempts
<1>3. FreshInv'
  BY <1>o DEF FreshInv
<1>4. ResendInv'
  BY <1>o DEF ResendInv
<1>5. FailsOnlyOnTrouble'
  BY <1>o DEF FailsOnlyOnTrouble
<1> QED
  BY <1>1, <1>2, <1>3, <1>4, <1>5

\* A new attempt, or a new request, starts without a token.
LEMMA Starts ==
    ASSUME NEW phase \in Phase, NEW n \in Nat \ {0}, n <= Attempts(phase)
    PROVE  /\ [Start(phase) EXCEPT !.try = n] \in Op
           /\ [Start(phase) EXCEPT !.try = n] # Idle
           /\ [Start(phase) EXCEPT !.try = n].phase = phase
           /\ [Start(phase) EXCEPT !.try = n].try = n
           /\ [Start(phase) EXCEPT !.try = n].at = "token"
BY DEF Start, Op, NoToken, Idle

\* A failed attempt is followed by the next one, or is the call's last.
LEMMA AttemptFailedKeeps ==
    ASSUME IInv, NEW c \in Clients, op[c] \in Op,
           NEW res \in {"failed", "pairing", "repaired"}, AttemptFailed(c, res),
           op[c].phase # "upload" \/ res = "failed" => trouble'[c],
           trouble' \in [Clients -> BOOLEAN],
           \A d \in Clients : trouble[d] => trouble'[d],
           valid \subseteq valid', valid' \subseteq Token,
           minted' \in 0 .. MaxTokens, open' \in BOOLEAN, resets' \in 0 .. MaxResets,
           {store', file', usb'} \subseteq Token \cup {NoToken}
    PROVE  IInv'
<1>t. /\ op[c].phase \in Phase /\ op[c].try \in Nat \ {0} /\ op[c].try + 1 \in Nat \ {0}
      /\ Attempts(op[c].phase) \in Nat
  BY RetriesAssumption DEF Op, Attempts
<1>1. CASE op[c].try < Attempts(op[c].phase)
  <2> DEFINE o == [Start(op[c].phase) EXCEPT !.try = op[c].try + 1]
  <2>1. op' = [op EXCEPT ![c] = o] /\ result' = result
    BY <1>1 DEF AttemptFailed
  <2>2. o \in Op /\ o # Idle /\ o.phase = op[c].phase /\ o.try = op[c].try + 1 /\ o.at = "token"
    BY <1>t, <1>1, Starts
  <2> HIDE DEF o
  <2>3. /\ result[c] \in {"none", "ok", "failed", "full", "pairing", "repaired"}
        /\ result' = [result EXCEPT ![c] = result[c]]
        /\ result[c] = "failed" => trouble'[c]
    BY <2>1 DEF IInv, TypeOK, FailsOnlyOnTrouble
  <2>4. o.try <= Attempts(o.phase)
    BY <1>t, <1>1, <2>2
  <2> QED
    BY <2>1, <2>2, <2>3, <2>4, OneCall
<1>2. CASE ~(op[c].try < Attempts(op[c].phase))
  <2>1. op' = [op EXCEPT ![c] = Idle] /\ result' = [result EXCEPT ![c] = res]
    BY <1>2 DEF AttemptFailed, End
  <2>2. Idle.at = "idle"
    BY DEF Idle
  <2> QED
    BY <2>1, <2>2, OneCall
<1> QED
  BY <1>1, <1>2

-----------------------------------------------------------------------------
(* One lemma per action.                                                   *)

\* Begin keeps the inductive invariant.
LEMMA BeginStep ==
    ASSUME IInv, NEW c \in Clients, Begin(c)
    PROVE  IInv'
<1>t. /\ valid \subseteq Token /\ minted \in 0 .. MaxTokens /\ open \in BOOLEAN
      /\ resets \in 0 .. MaxResets /\ {store, file, usb} \subseteq Token \cup {NoToken}
      /\ trouble \in [Clients -> BOOLEAN]
      /\ result[c] \in {"none", "ok", "failed", "full", "pairing", "repaired"}
      /\ result = [result EXCEPT ![c] = result[c]]
      /\ result[c] = "failed" => trouble[c]
  BY DEF IInv, TypeOK, FailsOnlyOnTrouble
<1>o. op[c] # Idle => op[c] \in Op
  BY DEF IInv, TypeOK
<1>i. Idle.at = "idle" /\ (op[c].at # "idle" => op[c] \in Op)
  BY <1>o DEF Idle
<1>1. Start("info") \in Op /\ Start("info").try = 1 /\ Start("info").at = "token"
  BY DEF Start, Op, Phase, NoToken
<1>2. 1 <= Attempts(Start("info").phase)
  BY RetriesAssumption DEF Attempts
<1>3. /\ op' = [op EXCEPT ![c] = Start("info")] /\ result' = [result EXCEPT ![c] = "none"]
      /\ trouble' \in [Clients -> BOOLEAN] /\ \A d \in Clients : trouble[d] => trouble'[d] \/ d = c
      /\ UNCHANGED <<dongle, store, file, usb>>
  BY <1>t DEF Begin
<1> DEFINE o == Start("info")
<1>4. /\ op' = [op EXCEPT ![c] = o] /\ o \in Op /\ o.at = "token"
      /\ o.try <= Attempts(o.phase) /\ ~(o.try > 1)
  BY <1>1, <1>2, <1>3
<1> HIDE DEF o
<1> QED
  BY <1>t, <1>3, <1>4, OneCall DEF dongle

\* ReadToken keeps the inductive invariant.
LEMMA ReadTokenStep ==
    ASSUME IInv, NEW c \in Clients, ReadToken(c)
    PROVE  IInv'
<1>t. /\ valid \subseteq Token /\ minted \in 0 .. MaxTokens /\ open \in BOOLEAN
      /\ resets \in 0 .. MaxResets /\ {store, file, usb} \subseteq Token \cup {NoToken}
      /\ trouble \in [Clients -> BOOLEAN]
      /\ result[c] \in {"none", "ok", "failed", "full", "pairing", "repaired"}
      /\ result = [result EXCEPT ![c] = result[c]]
      /\ result[c] = "failed" => trouble[c]
  BY DEF IInv, TypeOK, FailsOnlyOnTrouble
<1>o. op[c] # Idle => op[c] \in Op
  BY DEF IInv, TypeOK
<1>i. Idle.at = "idle" /\ (op[c].at # "idle" => op[c] \in Op)
  BY <1>o DEF Idle
<1> DEFINE o == [op[c] EXCEPT !.token = store, !.at = "sent"]
<1>1. op[c] \in Op /\ op' = [op EXCEPT ![c] = o]
  BY <1>i DEF ReadToken, IInv, CallInv
<1>2. o \in Op /\ o.at = "sent" /\ o.try = op[c].try /\ o.phase = op[c].phase
  BY <1>t, <1>1 DEF Op
<1> HIDE DEF o
<1>3. /\ op[c].try <= Attempts(op[c].phase)
      /\ op[c].phase # "upload" /\ op[c].try > 1 => trouble[c]
  <2>1. op[c] # Idle
    BY <1>1 DEF Op, Idle
  <2> QED
    BY <2>1 DEF IInv, TypeOK, FailsOnlyOnTrouble
<1> QED
  BY <1>t, <1>1, <1>2, <1>3, OneCall DEF ReadToken, dongle

\* Accepted keeps the inductive invariant.
LEMMA AcceptedStep ==
    ASSUME IInv, NEW c \in Clients, Accepted(c)
    PROVE  IInv'
<1>t. /\ valid \subseteq Token /\ minted \in 0 .. MaxTokens /\ open \in BOOLEAN
      /\ resets \in 0 .. MaxResets /\ {store, file, usb} \subseteq Token \cup {NoToken}
      /\ trouble \in [Clients -> BOOLEAN]
      /\ result[c] \in {"none", "ok", "failed", "full", "pairing", "repaired"}
      /\ result = [result EXCEPT ![c] = result[c]]
      /\ result[c] = "failed" => trouble[c]
  BY DEF IInv, TypeOK, FailsOnlyOnTrouble
<1>o. op[c] # Idle => op[c] \in Op
  BY DEF IInv, TypeOK
<1>i. Idle.at = "idle" /\ (op[c].at # "idle" => op[c] \in Op)
  BY <1>o DEF Idle
<1>1. op[c] \in Op
  BY <1>i DEF Accepted
<1>2. CASE op[c].phase = "info"
  <2>1. PICK phase \in {"upload", "files"} : op' = [op EXCEPT ![c] = Start(phase)] /\ result' = result
    BY <1>2 DEF Accepted, Succeeded
  <2>2. Start(phase) \in Op /\ Start(phase).try = 1 /\ Start(phase).at = "token"
    BY DEF Start, Op, Phase, NoToken
  <2>3. 1 <= Attempts(Start(phase).phase)
    BY RetriesAssumption DEF Attempts
  <2> DEFINE o == Start(phase)
  <2>4. /\ op' = [op EXCEPT ![c] = o] /\ o \in Op /\ o.at = "token"
        /\ o.try <= Attempts(o.phase) /\ ~(o.try > 1)
    BY <2>1, <2>2, <2>3
  <2> HIDE DEF o
  <2> QED
    BY <1>t, <2>1, <2>4, OneCall DEF Accepted, dongle
<1>3. CASE op[c].phase # "info"
  <2>1. op' = [op EXCEPT ![c] = Idle] /\ result' = [result EXCEPT ![c] = "ok"]
    BY <1>3 DEF Accepted, Succeeded, End
  <2> QED
    BY <1>t, <1>i, <2>1, OneCall DEF Accepted, dongle
<1> QED
  BY <1>2, <1>3

\* Unauthorized keeps the inductive invariant.
LEMMA UnauthorizedStep ==
    ASSUME IInv, NEW c \in Clients, Unauthorized(c)
    PROVE  IInv'
<1>t. /\ valid \subseteq Token /\ minted \in 0 .. MaxTokens /\ open \in BOOLEAN
      /\ resets \in 0 .. MaxResets /\ {store, file, usb} \subseteq Token \cup {NoToken}
      /\ trouble \in [Clients -> BOOLEAN]
      /\ result[c] \in {"none", "ok", "failed", "full", "pairing", "repaired"}
      /\ result = [result EXCEPT ![c] = result[c]]
      /\ result[c] = "failed" => trouble[c]
  BY DEF IInv, TypeOK, FailsOnlyOnTrouble
<1>o. op[c] # Idle => op[c] \in Op
  BY DEF IInv, TypeOK
<1>i. Idle.at = "idle" /\ (op[c].at # "idle" => op[c] \in Op)
  BY <1>o DEF Idle
<1> DEFINE o == [op[c] EXCEPT !.at = "forget"]
<1>1. op[c] \in Op /\ op' = [op EXCEPT ![c] = o]
  BY <1>i DEF Unauthorized, IInv, CallInv
<1>2. o \in Op /\ o.at = "forget" /\ o.try = op[c].try /\ o.phase = op[c].phase
  BY <1>1 DEF Op
<1> HIDE DEF o
<1>3. /\ op[c].try <= Attempts(op[c].phase)
      /\ op[c].phase # "upload" /\ op[c].try > 1 => trouble[c]
  <2>1. op[c] # Idle
    BY <1>1 DEF Op, Idle
  <2> QED
    BY <2>1 DEF IInv, TypeOK, FailsOnlyOnTrouble
<1> QED
  BY <1>t, <1>1, <1>2, <1>3, OneCall DEF Unauthorized, dongle

\* A token just given out is refused only after a reset.
LEMMA UnauthorizedAgainStep ==
    ASSUME IInv, NEW c \in Clients, UnauthorizedAgain(c)
    PROVE  IInv'
<1>t. /\ valid \subseteq Token /\ minted \in 0 .. MaxTokens /\ open \in BOOLEAN
      /\ resets \in 0 .. MaxResets /\ {store, file, usb} \subseteq Token \cup {NoToken}
      /\ trouble \in [Clients -> BOOLEAN]
      /\ result[c] \in {"none", "ok", "failed", "full", "pairing", "repaired"}
      /\ result = [result EXCEPT ![c] = result[c]]
      /\ result[c] = "failed" => trouble[c]
  BY DEF IInv, TypeOK, FailsOnlyOnTrouble
<1>o. op[c] # Idle => op[c] \in Op
  BY DEF IInv, TypeOK
<1>i. Idle.at = "idle" /\ (op[c].at # "idle" => op[c] \in Op)
  BY <1>o DEF Idle
<1>1. op[c] \in Op
  BY <1>i DEF UnauthorizedAgain
<1>2. trouble[c]
  BY DEF UnauthorizedAgain, IInv, FreshInv
<1> QED
  BY <1>t, <1>1, <1>2, AttemptFailedKeeps DEF UnauthorizedAgain, dongle

\* Lost keeps the inductive invariant.
LEMMA LostStep ==
    ASSUME IInv, NEW c \in Clients, Lost(c)
    PROVE  IInv'
<1>t. /\ valid \subseteq Token /\ minted \in 0 .. MaxTokens /\ open \in BOOLEAN
      /\ resets \in 0 .. MaxResets /\ {store, file, usb} \subseteq Token \cup {NoToken}
      /\ trouble \in [Clients -> BOOLEAN]
      /\ result[c] \in {"none", "ok", "failed", "full", "pairing", "repaired"}
      /\ result = [result EXCEPT ![c] = result[c]]
      /\ result[c] = "failed" => trouble[c]
  BY DEF IInv, TypeOK, FailsOnlyOnTrouble
<1>o. op[c] # Idle => op[c] \in Op
  BY DEF IInv, TypeOK
<1>i. Idle.at = "idle" /\ (op[c].at # "idle" => op[c] \in Op)
  BY <1>o DEF Idle
<1>1. op[c] \in Op
  BY <1>i DEF Lost
<1>2. /\ trouble'[c] /\ trouble' \in [Clients -> BOOLEAN]
      /\ \A d \in Clients : trouble[d] => trouble'[d]
  BY <1>t DEF Lost
<1> QED
  BY <1>t, <1>1, <1>2, AttemptFailedKeeps DEF Lost, dongle

\* CardFull keeps the inductive invariant.
LEMMA CardFullStep ==
    ASSUME IInv, NEW c \in Clients, CardFull(c)
    PROVE  IInv'
<1>t. /\ valid \subseteq Token /\ minted \in 0 .. MaxTokens /\ open \in BOOLEAN
      /\ resets \in 0 .. MaxResets /\ {store, file, usb} \subseteq Token \cup {NoToken}
      /\ trouble \in [Clients -> BOOLEAN]
      /\ result[c] \in {"none", "ok", "failed", "full", "pairing", "repaired"}
      /\ result = [result EXCEPT ![c] = result[c]]
      /\ result[c] = "failed" => trouble[c]
  BY DEF IInv, TypeOK, FailsOnlyOnTrouble
<1>o. op[c] # Idle => op[c] \in Op
  BY DEF IInv, TypeOK
<1>i. Idle.at = "idle" /\ (op[c].at # "idle" => op[c] \in Op)
  BY <1>o DEF Idle
<1>1. op' = [op EXCEPT ![c] = Idle] /\ result' = [result EXCEPT ![c] = "full"]
  BY DEF CardFull, End
<1> QED
  BY <1>t, <1>i, <1>1, OneCall DEF CardFull, dongle

\* Forget keeps the inductive invariant.
LEMMA ForgetStep ==
    ASSUME IInv, NEW c \in Clients, Forget(c)
    PROVE  IInv'
<1>t. /\ valid \subseteq Token /\ minted \in 0 .. MaxTokens /\ open \in BOOLEAN
      /\ resets \in 0 .. MaxResets /\ {store, file, usb} \subseteq Token \cup {NoToken}
      /\ trouble \in [Clients -> BOOLEAN]
      /\ result[c] \in {"none", "ok", "failed", "full", "pairing", "repaired"}
      /\ result = [result EXCEPT ![c] = result[c]]
      /\ result[c] = "failed" => trouble[c]
  BY DEF IInv, TypeOK, FailsOnlyOnTrouble
<1>o. op[c] # Idle => op[c] \in Op
  BY DEF IInv, TypeOK
<1>i. Idle.at = "idle" /\ (op[c].at # "idle" => op[c] \in Op)
  BY <1>o DEF Idle
<1> DEFINE o == [op[c] EXCEPT !.at = "pair"]
<1>1. op[c] \in Op /\ op' = [op EXCEPT ![c] = o]
  BY <1>i DEF Forget, IInv, CallInv
<1>2. o \in Op /\ o.at = "pair" /\ o.try = op[c].try /\ o.phase = op[c].phase
  BY <1>1 DEF Op
<1> HIDE DEF o
<1>3. /\ op[c].try <= Attempts(op[c].phase)
      /\ op[c].phase # "upload" /\ op[c].try > 1 => trouble[c]
  <2>1. op[c] # Idle
    BY <1>1 DEF Op, Idle
  <2> QED
    BY <2>1 DEF IInv, TypeOK, FailsOnlyOnTrouble
<1>4. {store', file', usb'} \subseteq Token \cup {NoToken}
  BY <1>t DEF Forget, Persist
<1> QED
  BY <1>t, <1>1, <1>2, <1>3, <1>4, OneCall DEF Forget, dongle

\* Pair keeps the inductive invariant.
LEMMA PairStep ==
    ASSUME IInv, NEW c \in Clients, Pair(c)
    PROVE  IInv'
<1>t. /\ valid \subseteq Token /\ minted \in 0 .. MaxTokens /\ open \in BOOLEAN
      /\ resets \in 0 .. MaxResets /\ {store, file, usb} \subseteq Token \cup {NoToken}
      /\ trouble \in [Clients -> BOOLEAN]
      /\ result[c] \in {"none", "ok", "failed", "full", "pairing", "repaired"}
      /\ result = [result EXCEPT ![c] = result[c]]
      /\ result[c] = "failed" => trouble[c]
  BY DEF IInv, TypeOK, FailsOnlyOnTrouble
<1>o. op[c] # Idle => op[c] \in Op
  BY DEF IInv, TypeOK
<1>i. Idle.at = "idle" /\ (op[c].at # "idle" => op[c] \in Op)
  BY <1>o DEF Idle
<1>1. op[c] \in Op
  BY <1>i DEF Pair
<1>m. /\ minted + 1 \in Token /\ valid' = valid \cup {minted + 1} /\ minted' \in 0 .. MaxTokens
      /\ valid' \subseteq Token /\ UNCHANGED <<open, resets>>
  BY <1>t, RetriesAssumption DEF Pair, Mint, Token
<1>u. UNCHANGED <<store, file, usb>>
  BY DEF Pair
<1>2. CASE /\ op' = [op EXCEPT ![c].token = minted + 1, ![c].at = "set"]
           /\ UNCHANGED <<trouble, result>>
  <2> DEFINE o == [op[c] EXCEPT !.token = minted + 1, !.at = "set"]
  <2>1. op' = [op EXCEPT ![c] = o]
    BY <1>2 DEF IInv, CallInv
  <2>2. /\ o \in Op /\ o.at = "set" /\ o.try = op[c].try /\ o.phase = op[c].phase
        /\ o.token = minted + 1
    BY <1>1, <1>m DEF Op
  <2> HIDE DEF o
  <2>3. /\ op[c].try <= Attempts(op[c].phase)
        /\ op[c].phase # "upload" /\ op[c].try > 1 => trouble[c]
    <3>1. op[c] # Idle
      BY <1>1 DEF Op, Idle
    <3> QED
      BY <3>1 DEF IInv, TypeOK, FailsOnlyOnTrouble
  <2>4. o.token \in valid'
    BY <1>m, <2>2
  <2> QED
    BY <1>t, <1>m, <1>u, <1>2, <2>1, <2>2, <2>3, <2>4, OneCall
<1>3. CASE trouble' = [trouble EXCEPT ![c] = TRUE] /\ AttemptFailed(c, "failed")
  <2>1. /\ trouble'[c] /\ trouble' \in [Clients -> BOOLEAN]
        /\ \A d \in Clients : trouble[d] => trouble'[d]
    BY <1>t, <1>3
  <2> QED
    BY <1>t, <1>m, <1>u, <1>1, <1>3, <2>1, AttemptFailedKeeps
<1> QED
  BY <1>2, <1>3 DEF Pair

\* PairRefused keeps the inductive invariant.
LEMMA PairRefusedStep ==
    ASSUME IInv, NEW c \in Clients, PairRefused(c)
    PROVE  IInv'
<1>t. /\ valid \subseteq Token /\ minted \in 0 .. MaxTokens /\ open \in BOOLEAN
      /\ resets \in 0 .. MaxResets /\ {store, file, usb} \subseteq Token \cup {NoToken}
      /\ trouble \in [Clients -> BOOLEAN]
      /\ result[c] \in {"none", "ok", "failed", "full", "pairing", "repaired"}
      /\ result = [result EXCEPT ![c] = result[c]]
      /\ result[c] = "failed" => trouble[c]
  BY DEF IInv, TypeOK, FailsOnlyOnTrouble
<1>o. op[c] # Idle => op[c] \in Op
  BY DEF IInv, TypeOK
<1>i. Idle.at = "idle" /\ (op[c].at # "idle" => op[c] \in Op)
  BY <1>o DEF Idle
<1>1. op' = [op EXCEPT ![c] = Idle] /\ result' = [result EXCEPT ![c] = "pairing"]
  BY DEF PairRefused, End
<1>2. trouble' \in [Clients -> BOOLEAN] /\ \A d \in Clients : trouble[d] => trouble'[d]
  BY <1>t DEF PairRefused
<1> QED
  BY <1>t, <1>i, <1>1, <1>2, OneCall DEF PairRefused, dongle

\* SetToken keeps the inductive invariant.
LEMMA SetTokenStep ==
    ASSUME IInv, NEW c \in Clients, SetToken(c)
    PROVE  IInv'
<1>t. /\ valid \subseteq Token /\ minted \in 0 .. MaxTokens /\ open \in BOOLEAN
      /\ resets \in 0 .. MaxResets /\ {store, file, usb} \subseteq Token \cup {NoToken}
      /\ trouble \in [Clients -> BOOLEAN]
      /\ result[c] \in {"none", "ok", "failed", "full", "pairing", "repaired"}
      /\ result = [result EXCEPT ![c] = result[c]]
      /\ result[c] = "failed" => trouble[c]
  BY DEF IInv, TypeOK, FailsOnlyOnTrouble
<1>o. op[c] # Idle => op[c] \in Op
  BY DEF IInv, TypeOK
<1>i. Idle.at = "idle" /\ (op[c].at # "idle" => op[c] \in Op)
  BY <1>o DEF Idle
<1>1. op[c] \in Op
  BY <1>i DEF SetToken
<1>s. {store', file', usb'} \subseteq Token \cup {NoToken} /\ UNCHANGED <<dongle, trouble>>
  BY <1>t, <1>1 DEF SetToken, Persist, Op
<1>2. CASE op[c].phase # "upload"
  <2> DEFINE o == [op[c] EXCEPT !.at = "resend"]
  <2>1. op' = [op EXCEPT ![c] = o] /\ result' = result
    BY <1>2 DEF SetToken, IInv, CallInv
  <2>2. /\ o \in Op /\ o.at = "resend" /\ o.try = op[c].try /\ o.phase = op[c].phase
        /\ o.token = op[c].token
    BY <1>1 DEF Op
  <2> HIDE DEF o
  <2>3. /\ op[c].try <= Attempts(op[c].phase)
        /\ op[c].phase # "upload" /\ op[c].try > 1 => trouble[c]
    <3>1. op[c] # Idle
      BY <1>1 DEF Op, Idle
    <3> QED
      BY <3>1 DEF IInv, TypeOK, FailsOnlyOnTrouble
  <2>4. o.token \in valid \/ trouble[c]
    BY <2>2 DEF SetToken, IInv, FreshInv
  <2> QED
    BY <1>t, <1>s, <1>2, <2>1, <2>2, <2>3, <2>4, OneCall DEF dongle
<1>3. CASE op[c].phase = "upload"
  <2>1. AttemptFailed(c, "repaired")
    BY <1>3 DEF SetToken
  <2> QED
    BY <1>t, <1>1, <1>s, <1>3, <2>1, AttemptFailedKeeps DEF dongle
<1> QED
  BY <1>2, <1>3

\* USB provisioning and the pairing window touch no call.
LEMMA UsbStep ==
    ASSUME IInv, UsbPair \/ UsbSet \/ Window
    PROVE  IInv'
<1>t. /\ valid \subseteq Token /\ minted \in 0 .. MaxTokens /\ open \in BOOLEAN
      /\ resets \in 0 .. MaxResets /\ {store, file, usb} \subseteq Token \cup {NoToken}
  BY DEF IInv, TypeOK
<1>1. /\ UNCHANGED <<op, trouble, result, resets>> /\ valid \subseteq valid' /\ valid' \subseteq Token
      /\ minted' \in 0 .. MaxTokens /\ open' \in BOOLEAN
      /\ {store', file', usb'} \subseteq Token \cup {NoToken}
  <2>1. CASE UsbPair
    <3>1. minted + 1 \in Token /\ valid' = valid \cup {minted + 1} /\ minted' = minted + 1
      BY <1>t, <2>1, RetriesAssumption DEF UsbPair, Mint, Token
    <3> QED
      BY <1>t, <2>1, <3>1 DEF UsbPair, Mint, Token
  <2>2. CASE UsbSet
    BY <1>t, <2>2 DEF UsbSet, Persist, dongle
  <2>3. CASE Window
    BY <1>t, <2>3 DEF Window
  <2> QED
    BY <2>1, <2>2, <2>3
<1> QED
  BY <1>1 DEF IInv, TypeOK, CallInv, FreshInv, ResendInv, FailsOnlyOnTrouble

\* A reset takes every token back and troubles every call; a restart ends them.
LEMMA ResetStep ==
    ASSUME IInv, Reset \/ Restart
    PROVE  IInv'
<1>1. CASE Reset
  <2>1. /\ UNCHANGED <<op, result, minted, open, store, file, usb>> /\ valid' = {}
        /\ resets' \in 0 .. MaxResets /\ trouble' = [c \in Clients |-> TRUE]
    BY <1>1, RetriesAssumption DEF Reset, IInv, TypeOK
  <2> QED
    BY <2>1 DEF IInv, TypeOK, CallInv, FreshInv, ResendInv, FailsOnlyOnTrouble
<1>2. CASE Restart
  <2>1. \A c \in Clients : op'[c] = Idle /\ Idle.at = "idle"
    BY <1>2 DEF Restart, Idle
  <2>2. CallInv'
    BY <1>2 DEF Restart, CallInv
  <2>3. TypeOK'
    BY <1>2, <2>1 DEF Restart, IInv, TypeOK, dongle, NoToken
  <2>4. FreshInv' /\ ResendInv' /\ FailsOnlyOnTrouble'
    BY <1>2, <2>1 DEF Restart, IInv, FreshInv, ResendInv, FailsOnlyOnTrouble
  <2> QED
    BY <2>2, <2>3, <2>4 DEF IInv
<1> QED
  BY <1>1, <1>2

-----------------------------------------------------------------------------
(* The theorems.                                                           *)

\* Initially no call runs and no token is known.
LEMMA Initially == Init => IInv
<1> SUFFICES ASSUME Init
             PROVE  IInv
  OBVIOUS
<1>1. \A c \in Clients : op[c] = Idle /\ Idle.at = "idle"
  BY DEF Init, Idle
<1>2. CallInv
  BY DEF Init, CallInv
<1>4. TypeOK
  <2>1. \A c \in Clients : op[c] = Idle
    BY <1>1
  <2> QED
    <3>1. /\ 0 \in 0 .. MaxTokens /\ 0 \in 0 .. MaxResets
          /\ {store, file, usb} \subseteq Token \cup {NoToken}
      BY RetriesAssumption DEF Init
    <3>2. /\ trouble \in [Clients -> BOOLEAN]
          /\ result \in [Clients -> {"none", "ok", "failed", "full", "pairing", "repaired"}]
      BY DEF Init
    <3> QED
      BY <2>1, <3>1, <3>2 DEF Init, TypeOK
<1>3. FreshInv /\ ResendInv /\ FailsOnlyOnTrouble
  BY <1>1 DEF Init, FreshInv, ResendInv, FailsOnlyOnTrouble
<1> QED
  BY <1>2, <1>3, <1>4 DEF IInv

\* Every step keeps the inductive invariant.
LEMMA EveryStep == IInv /\ [Next]_vars => IInv'
<1> SUFFICES ASSUME IInv, [Next]_vars
             PROVE  IInv'
  OBVIOUS
<1>1. ASSUME NEW c \in Clients, Begin(c) \/ Step(c)
      PROVE  IInv'
  BY <1>1, BeginStep, ReadTokenStep, AcceptedStep, UnauthorizedStep, UnauthorizedAgainStep,
     LostStep, CardFullStep, ForgetStep, PairStep, PairRefusedStep, SetTokenStep DEF Step
<1>2. CASE UsbPair \/ UsbSet \/ Window \/ Reset \/ Restart
  BY <1>2, UsbStep, ResetStep
<1>3. CASE UNCHANGED vars
  BY <1>3 DEF vars, dongle, IInv, TypeOK, CallInv, FreshInv, ResendInv, FailsOnlyOnTrouble
<1> QED
  BY <1>1, <1>2, <1>3 DEF Next

\* The inductive invariant holds of every behaviour.
THEOREM Inductive == Spec => []IInv
BY Initially, EveryStep, PTL DEF Spec

\* Every state is of its type: no call makes more attempts than it may.
THEOREM TypeCorrect == Spec => []TypeOK
<1>1. IInv => TypeOK
  BY DEF IInv
<1> QED
  BY <1>1, Inductive, PTL

\* Sharing the stored token costs a read neither its success nor an attempt.
THEOREM RacesAreFree == Spec => []FailsOnlyOnTrouble
<1>1. IInv => FailsOnlyOnTrouble
  BY DEF IInv
<1> QED
  BY <1>1, Inductive, PTL
===============================================================================
