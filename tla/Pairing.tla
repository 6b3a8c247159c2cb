------------------------------- MODULE Pairing -------------------------------
(***************************************************************************)
(* Browser pairing: src-tauri/src/server/pairing.rs, the handlers of       *)
(* routes.rs that call it, and the Approve/Deny banner of the desktop      *)
(* window (App.tsx).                                                       *)
(*                                                                         *)
(* A browser tab's call passes several awaits: the handler reads the       *)
(* allowlist, then it takes the slot's lock, and, when the poll consumed   *)
(* an approved request, it reads the token.  The settings may change, the  *)
(* request may expire and the browser may drop the call in between.  The   *)
(* banner shows the answer of some earlier poll of its own; polls overlap, *)
(* so an older answer can be shown after a newer one.                      *)
(*                                                                         *)
(* The banner is not the only one to answer: POST /api/pairing/respond     *)
(* takes the token for it, so a page that was paired before answers too.   *)
(*                                                                         *)
(* A request's age is abstracted to whether it is past PAIRING_TTL, and    *)
(* Expire may happen at any time.  Random ids never repeat here.           *)
(***************************************************************************)
EXTENDS Naturals, Sequences, FiniteSets

CONSTANTS
    Tabs,            \* browser tabs
    Origins,         \* origins that are allowed only when listed
    OriginOf,        \* the origin each tab belongs to
    Paired,          \* origins that have the token already, from an earlier run or Settings
    MaxRequests,     \* bound: pairing requests ever created
    MaxBannerPolls,  \* bound: answers on their way to the banner
    MaxClicks        \* bound: different answers the user clicks

ASSUME TabsAssumption ==
    /\ OriginOf \in [Tabs -> Origins] /\ Paired \subseteq Origins
    /\ MaxRequests \in Nat /\ MaxBannerPolls \in Nat /\ MaxClicks \in Nat

RequestId == 1 .. MaxRequests
None      == 0
Verdict   == {"Pending", "Approved", "Denied"}
Request   == [id : RequestId, origin : Origins, verdict : Verdict, expired : BOOLEAN]
View      == [id : RequestId, origin : Origins]
NoRequest == [id |-> None]

VARIABLES
    slot,       \* the single pairing slot, or NoRequest
    created,    \* ids handed out so far
    allowed,    \* the origins on the config's allowlist
    call,       \* each tab's HTTP call in progress
    fetched,    \* answers to the banner's polls, still on their way
    banner,     \* what the banner shows: a view or NoRequest
    answer,     \* the click being sent, or NoRequest (the buttons are disabled)
    released,   \* history: the <<id, tab>> a token was sent to, in order
    consent,    \* history: what the user saw and clicked
    vouched     \* history: what pages with the token answered, and whose

vars == <<slot, created, allowed, call, fetched, banner, answer, released,
          consent, vouched>>

Idle == [at |-> "idle"]
Live(r) == r # NoRequest /\ r.verdict = "Pending" /\ ~r.expired

Init ==
    /\ slot = NoRequest /\ created = 0
    /\ allowed = {}
    /\ call = [t \in Tabs |-> Idle]
    /\ fetched = {} /\ banner = NoRequest /\ answer = NoRequest
    /\ released = <<>> /\ consent = {} /\ vouched = {}

-----------------------------------------------------------------------------
(* A tab's call: POST /api/pair (id = None) or GET /api/pair/{id}.         *)

\* vetted_pairing_origin lets through only an origin listed at that moment and
\* then lets go of the config; a refusal changes nothing.
Call(t, id) ==
    /\ call[t] = Idle
    /\ OriginOf[t] \in allowed
    /\ id <= created
    /\ call' = [call EXCEPT ![t] = [at |-> "slot", id |-> id]]
    /\ UNCHANGED <<slot, created, allowed, fetched, banner, answer, released, consent,
                   vouched>>

\* Pairing::begin: refused while a live request is pending, otherwise the slot
\* is overwritten, whatever it held.
Begin(t) ==
    /\ call[t].at = "slot" /\ call[t].id = None
    /\ created < MaxRequests
    /\ call' = [call EXCEPT ![t] = Idle]
    /\ IF Live(slot)
       THEN UNCHANGED <<slot, created>>
       ELSE /\ created' = created + 1
            /\ slot' = [id |-> created + 1, origin |-> OriginOf[t],
                        verdict |-> "Pending", expired |-> FALSE]
    /\ UNCHANGED <<allowed, fetched, banner, answer, released, consent,
                   vouched>>

\* Pairing::poll: an expired request is cleared whoever asks; an answered one
\* is consumed by its creator's poll.
MineByIdOnly(t) == slot.id = call[t].id   \* mutant: no origin check

Mine(t) == slot.id = call[t].id /\ slot.origin = OriginOf[t]

PollEnds(t) ==
    call' = [call EXCEPT ![t] =
                IF slot # NoRequest /\ ~slot.expired /\ Mine(t) /\ slot.verdict = "Approved"
                THEN [@ EXCEPT !.at = "token"] ELSE Idle]

PollKeeps(t) ==   \* mutant: leaves the answered request in the slot
    /\ call[t].at = "slot" /\ call[t].id # None
    /\ PollEnds(t)
    /\ UNCHANGED <<slot, created, allowed, fetched, banner, answer, released, consent,
                   vouched>>

Poll(t) ==
    /\ call[t].at = "slot" /\ call[t].id # None
    /\ slot' = IF slot # NoRequest
                  /\ (slot.expired \/ (Mine(t) /\ slot.verdict # "Pending"))
               THEN NoRequest ELSE slot
    /\ PollEnds(t)
    /\ UNCHANGED <<created, allowed, fetched, banner, answer, released, consent,
                   vouched>>

\* The rest of poll_pairing: read the token and answer with it.
Release(t) ==
    /\ call[t].at = "token"
    /\ released' = Append(released, <<call[t].id, t>>)
    /\ call' = [call EXCEPT ![t] = Idle]
    /\ UNCHANGED <<slot, created, allowed, fetched, banner, answer, consent,
                   vouched>>

\* The browser closes the connection: the handler stops at its next await.
Abandon(t) ==
    /\ call[t] # Idle
    /\ call' = [call EXCEPT ![t] = Idle]
    /\ UNCHANGED <<slot, created, allowed, fetched, banner, answer, released, consent,
                   vouched>>

-----------------------------------------------------------------------------
(* Time, the settings page, and the banner.                                *)

Expire ==
    /\ slot # NoRequest /\ ~slot.expired
    /\ slot' = [slot EXCEPT !.expired = TRUE]
    /\ UNCHANGED <<created, allowed, call, fetched, banner, answer, released, consent,
                   vouched>>

SetAllowed(origins) ==
    /\ allowed' = origins
    /\ UNCHANGED <<slot, created, call, fetched, banner, answer, released, consent,
                   vouched>>

\* Pairing::pending, answered to one of the banner's polls.
PendingWhole == IF Live(slot) THEN slot ELSE NoRequest   \* mutant: no view()

Pending == IF Live(slot) THEN [id |-> slot.id, origin |-> slot.origin] ELSE NoRequest

BannerFetch ==
    /\ Cardinality(fetched) < MaxBannerPolls
    /\ fetched' = fetched \cup {Pending}
    /\ UNCHANGED <<slot, created, allowed, call, banner, answer, released, consent,
                   vouched>>

BannerShow(view) ==
    /\ view \in fetched
    /\ banner' = view
    /\ fetched' = fetched \ {view}
    /\ UNCHANGED <<slot, created, allowed, call, answer, released, consent,
                   vouched>>

\* The user clicks a button of the request on screen.
Click(approve) ==
    /\ banner # NoRequest /\ answer = NoRequest
    /\ Cardinality(consent) < MaxClicks
    /\ answer' = [id |-> banner.id, approve |-> approve]
    /\ consent' = consent \cup {[id |-> banner.id, origin |-> banner.origin,
                                 approve |-> approve]}
    /\ UNCHANGED <<slot, created, allowed, call, fetched, banner, released,
                   vouched>>

\* Pairing::respond: takes effect only on the live pending request of that id.
Decided(approve) == [slot EXCEPT !.verdict = IF approve THEN "Approved" ELSE "Denied"]

Answerable == Live(slot) /\ slot.id = answer.id

\* The banner's click arrives.
Respond ==
    /\ answer # NoRequest
    /\ slot' = IF Answerable THEN Decided(answer.approve) ELSE slot
    /\ answer' = NoRequest
    /\ UNCHANGED <<created, allowed, call, fetched, banner, released, consent,
                   vouched>>

\* The route asks for the token and for nothing else: a page that has it answers
\* the live request, whose id GET /api/pairing/pending tells it.  The answer to
\* any other id changes nothing.
Holding == Paired \cup {OriginOf[released[a][2]] : a \in DOMAIN released}

RespondByAnyone(t, approve) ==   \* mutant: the route is taken off the token's gate
    /\ Live(slot)
    /\ slot' = Decided(approve)
    /\ vouched' = vouched \cup {[id |-> slot.id, origin |-> slot.origin,
                                 approve |-> approve, by |-> OriginOf[t]]}
    /\ UNCHANGED <<created, allowed, call, fetched, banner, answer, released, consent>>

RespondAsPage(t, approve) ==
    /\ OriginOf[t] \in Holding
    /\ Live(slot)
    /\ slot' = Decided(approve)
    /\ vouched' = vouched \cup {[id |-> slot.id, origin |-> slot.origin,
                                 approve |-> approve, by |-> OriginOf[t]]}
    /\ UNCHANGED <<created, allowed, call, fetched, banner, answer, released, consent>>

Next ==
    \/ \E t \in Tabs, id \in RequestId \cup {None} : Call(t, id)
    \/ \E t \in Tabs : Begin(t) \/ Poll(t) \/ Release(t) \/ Abandon(t)
    \/ Expire
    \/ \E origins \in SUBSET Origins : SetAllowed(origins)
    \/ BannerFetch \/ Respond
    \/ \E view \in fetched : BannerShow(view)
    \/ \E approve \in BOOLEAN : Click(approve)
    \/ \E t \in Tabs, approve \in BOOLEAN : RespondAsPage(t, approve)

Spec == Init /\ [][Next]_vars

-----------------------------------------------------------------------------
\* Types: what the banner is told is a view, never the request itself.
TypeOK ==
    /\ slot \in Request \cup {NoRequest}
    /\ created \in 0 .. MaxRequests
    /\ allowed \subseteq Origins
    /\ call \in [Tabs -> [at : {"slot", "token"}, id : RequestId \cup {None}]
                         \cup {Idle}]
    /\ fetched \subseteq View \cup {NoRequest}
    /\ banner \in View \cup {NoRequest}
    /\ answer \in [id : RequestId, approve : BOOLEAN] \cup {NoRequest}
    /\ released \in Seq(RequestId \X Tabs)
    /\ consent \subseteq [id : RequestId, origin : Origins, approve : BOOLEAN]
    /\ vouched \subseteq [id : RequestId, origin : Origins, approve : BOOLEAN,
                          by : Origins]

\* "The token is released once": no id is answered with the token twice, not
\* even when two calls of its creator's tabs poll at the same time.
ReleasedOnce ==
    \A a, b \in DOMAIN released : released[a][1] = released[b][1] => a = b

\* The user said so on a banner naming that origin, or one of these pages did.
AnsweredBy(pages, id, o, approve) ==
    \/ [id |-> id, origin |-> o, approve |-> approve] \in consent
    \/ \E p \in pages : [id |-> id, origin |-> o, approve |-> approve, by |-> p] \in vouched

\* The token goes only to a tab of an origin whose own request was approved: by
\* the user, on a banner naming that origin, however stale, or by a page that had
\* the token already.  So every token given leads back, page by page, to a click
\* of the user or to one who had the token from the start.
HoldingBefore(a) ==
    Paired \cup {OriginOf[released[b][2]] : b \in {c \in DOMAIN released : c < a}}
ReleaseNeedsConsent ==
    \A a \in DOMAIN released :
        AnsweredBy(HoldingBefore(a), released[a][1], OriginOf[released[a][2]], TRUE)

\* A request in the slot is answered the way that very request was answered: by
\* a click on its own id and origin, or by a page that has the token.
VerdictIsAnswered ==
    slot # NoRequest /\ slot.verdict # "Pending" =>
        AnsweredBy(Holding, slot.id, slot.origin, slot.verdict = "Approved")

\* While a request is live nobody takes its place, and it is answered at most
\* once: "a denied request cannot be flipped afterwards", nor an approved one,
\* nor one past its time.
AnsweredOnce ==
    [][/\ Live(slot) => slot'.id = slot.id /\ slot'.origin = slot.origin
       /\ slot # NoRequest /\ slot'.id = slot.id /\ slot' # slot =>
             ~slot.expired /\ (slot'.verdict # slot.verdict => slot.verdict = "Pending")]_vars

\* pairing.rs says of the slot that a page "can only replace its own
\* expired/answered requests": an approval its page has yet to fetch is not
\* overwritten by another origin's request.
OnlyOwnReplaced ==
    [][slot # NoRequest /\ slot' # NoRequest /\ slot'.id # slot.id
            /\ slot.verdict = "Approved" /\ ~slot.expired =>
          slot'.origin = slot.origin]_vars

-----------------------------------------------------------------------------
(* Pairing implements PairingGrant.                                        *)

\* Who was told that a request is approved and is about to answer with the token.
Holders(id) == {t \in Tabs : call[t].at = "token" /\ call[t].id = id}

\* A request stands where the slot says until it is past its time; one that left
\* the slot approved does so until its call is answered.
Standing(id) ==
    IF id > created THEN [at |-> "Unasked"]
    ELSE IF Holders(id) # {}
         THEN [at |-> "Approved", origin |-> OriginOf[CHOOSE t \in Holders(id) : TRUE]]
    ELSE IF slot # NoRequest /\ slot.id = id /\ ~slot.expired
         THEN [at |-> slot.verdict, origin |-> slot.origin]
    ELSE [at |-> "Over"]

Grant == INSTANCE PairingGrant WITH
    Id      <- RequestId,
    Origin  <- Origins,
    Trusted <- Paired,
    request <- [id \in RequestId |-> Standing(id)],
    said    <- consent,
    tokens  <- [a \in DOMAIN released |-> <<released[a][1], OriginOf[released[a][2]]>>]

\* Every step of the slot, the handlers and the banner is a step of PairingGrant or
\* none: with clicks on stale banners, polls of several tabs, requests that expire
\* or are overwritten and calls that are dropped at any await, pairing does what it
\* promises.
ImplementsGrant == Grant!Spec
=============================================================================
