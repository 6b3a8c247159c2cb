---------------------------- MODULE PairingGrant ----------------------------
(***************************************************************************)
(* What browser pairing promises, without saying how: one request is open  *)
(* at a time, it is decided by the user, who is shown who asked, or by one *)
(* who was given a token before, and an approved request gets its asker    *)
(* the token once, unless it lapses first.  It does not promise that an    *)
(* answered request outlives the next one, nor that the user is asked.     *)
(***************************************************************************)
EXTENDS Naturals, Sequences

CONSTANTS Id,      \* the requests that may ever be made
          Origin,  \* who may make them
          Trusted  \* who was given the token before

VARIABLES
    request,   \* where each request stands, and who made it
    said,      \* what the user said of which request, by whom
    vouched,   \* what holders of the token said of which request
    tokens     \* the tokens given: for which request, to whom, in order

vars == <<request, said, vouched, tokens>>

Unasked   == [at |-> "Unasked"]
Over      == [at |-> "Over"]
By(at, o) == [at |-> at, origin |-> o]

Answered(i) == request[i].at \in {"Approved", "Denied"}
Open(i)     == request[i].at = "Pending" \/ Answered(i)

Init ==
    /\ request = [i \in Id |-> Unasked]
    /\ said = {} /\ vouched = {} /\ tokens = <<>>

\* A new request is the only pending one; it may cost answered ones their place.
Ask(i, o, lost) ==
    /\ request[i].at = "Unasked"
    /\ \A j \in Id : request[j].at # "Pending"
    /\ \A j \in lost : Answered(j)
    /\ request' = [j \in Id |-> IF j = i THEN By("Pending", o)
                                ELSE IF j \in lost THEN Over
                                ELSE request[j]]
    /\ UNCHANGED <<said, vouched, tokens>>

\* The user says yes or no, at any time, of a request that was made, and is told
\* who made it.
Say(i, o, approve) ==
    /\ request[i].at # "Unasked"
    /\ Open(i) => o = request[i].origin
    /\ said' = said \cup {[id |-> i, origin |-> o, approve |-> approve]}
    /\ UNCHANGED <<request, vouched, tokens>>

\* What the user said of the request is done.
Decide(i, approve) ==
    /\ request[i].at = "Pending"
    /\ [id |-> i, origin |-> request[i].origin, approve |-> approve] \in said
    /\ request' = [request EXCEPT ![i].at = IF approve THEN "Approved" ELSE "Denied"]
    /\ UNCHANGED <<said, vouched, tokens>>

\* One who has a token already decides the request, on his own word.
Holders == Trusted \cup {tokens[a][2] : a \in DOMAIN tokens}
Vouch(i, holder, approve) ==
    /\ request[i].at = "Pending"
    /\ holder \in Holders
    /\ vouched' = vouched \cup {[id |-> i, origin |-> request[i].origin,
                                 approve |-> approve, by |-> holder]}
    /\ request' = [request EXCEPT ![i].at = IF approve THEN "Approved" ELSE "Denied"]
    /\ UNCHANGED <<said, tokens>>

Give(i) ==
    /\ request[i].at = "Approved"
    /\ tokens' = Append(tokens, <<i, request[i].origin>>)
    /\ request' = [request EXCEPT ![i] = Over]
    /\ UNCHANGED <<said, vouched>>

\* Its time is up, its refusal was fetched, or its page went away.
Lapse(i) ==
    /\ Open(i)
    /\ request' = [request EXCEPT ![i] = Over]
    /\ UNCHANGED <<said, vouched, tokens>>

Next ==
    \/ UNCHANGED vars   \* most steps of an implementation are not seen at all
    \/ \E i \in Id, o \in Origin, lost \in SUBSET Id : Ask(i, o, lost)
    \/ \E i \in Id, o \in Origin, approve \in BOOLEAN : Say(i, o, approve)
    \/ \E i \in Id, approve \in BOOLEAN : Decide(i, approve)
    \/ \E i \in Id, holder \in Origin, approve \in BOOLEAN : Vouch(i, holder, approve)
    \/ \E i \in Id : Give(i) \/ Lapse(i)

Spec == Init /\ [][Next]_vars
=============================================================================
