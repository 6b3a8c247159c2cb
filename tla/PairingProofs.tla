---------------------------- MODULE PairingProofs ----------------------------
(***************************************************************************)
(* Browser pairing for every set of tabs and origins and every number of   *)
(* requests: the token goes once, and only where the user, or a page that  *)
(* had it, sent it.                                                        *)
(***************************************************************************)
EXTENDS Pairing, SequenceTheorems, TLAPS

\* An id that has not been handed out yet is nowhere.
IdInv ==
    /\ slot # NoRequest => slot.id <= created
    /\ \A t \in Tabs : call[t] # Idle => call[t].id <= created
    /\ \A v \in fetched \cup {banner} : v.id <= created
    /\ answer # NoRequest => answer.id <= created
    /\ \A c \in consent \cup vouched : c.id <= created
    /\ \A a \in DOMAIN released : released[a][1] <= created

\* The slot, the banner (now or soon), the user's memory or that of a page that
\* answered names an origin for an id: all of them name the same.
Named(id, o) ==
    \/ slot # NoRequest /\ slot.id = id /\ slot.origin = o
    \/ [id |-> id, origin |-> o] \in fetched \cup {banner}
    \/ \E approve \in BOOLEAN : [id |-> id, origin |-> o, approve |-> approve] \in consent
    \/ \E approve \in BOOLEAN, p \in Origins :
          [id |-> id, origin |-> o, approve |-> approve, by |-> p] \in vouched
NamesAgree == \A id \in RequestId, o, p \in Origins : Named(id, o) /\ Named(id, p) => o = p

\* The click being sent is one the user made.
ClickInv ==
    answer # NoRequest => \E o \in Origins :
        [id |-> answer.id, origin |-> o, approve |-> answer.approve] \in consent

\* A call about to answer with the token is the only one for its id, the id
\* has left the slot, nobody got the token for it, and it was approved.
TokenInv ==
    /\ \A t \in Tabs : call[t].at = "token" =>
          /\ call[t].id \in RequestId
          /\ slot # NoRequest => slot.id # call[t].id
          /\ \A a \in DOMAIN released : released[a][1] # call[t].id
          /\ \A u \in Tabs : call[u].at = "token" /\ call[u].id = call[t].id => u = t
          /\ AnsweredBy(Holding, call[t].id, OriginOf[t], TRUE)
    /\ slot # NoRequest => \A a \in DOMAIN released : released[a][1] # slot.id

\* The inductive invariant: the parts above and the properties that need them.
IInv == TypeOK /\ IdInv /\ NamesAgree /\ ClickInv /\ TokenInv
        /\ VerdictIsAnswered /\ ReleasedOnce /\ ReleaseNeedsConsent

\* Who answered a request names who made it.
LEMMA AnswersName ==
    ASSUME TypeOK, NEW id \in RequestId, NEW o \in Origins,
           AnsweredBy(Holding, id, o, TRUE)
    PROVE  Named(id, o)
<1>1. ASSUME NEW p, [id |-> id, origin |-> o, approve |-> TRUE, by |-> p] \in vouched
      PROVE  p \in Origins
  <2> DEFINE v == [id |-> id, origin |-> o, approve |-> TRUE, by |-> p]
  <2>1. v.by \in Origins
    BY <1>1 DEF TypeOK
  <2> QED
    BY <2>1
<1> QED
  BY <1>1 DEF AnsweredBy, Named

-----------------------------------------------------------------------------
(* One lemma per action.                                                   *)
\* Call keeps the inductive invariant.
LEMMA CallStep ==
    ASSUME IInv, NEW t \in Tabs, NEW id \in RequestId \cup {None}, Call(t, id)
    PROVE  IInv'
<1> USE TabsAssumption DEF IInv, RequestId, None, Request, View, NoRequest, Idle, Verdict
<1>h. /\ Holding' = Holding
      /\ \A a \in DOMAIN released : HoldingBefore(a)' = HoldingBefore(a)
  BY DEF Call, Holding, HoldingBefore
<1>1. TypeOK'
  BY DEF Call, TypeOK
<1>2. IdInv'
  BY DEF Call, TypeOK, IdInv
<1>3. NamesAgree'
  <2>1. \A n \in RequestId, o \in Origins : Named(n, o)' => Named(n, o)
    BY DEF Call, Named
  <2> QED
    BY <2>1 DEF NamesAgree
<1>4. ClickInv'
  BY DEF Call, TypeOK, ClickInv
<1>5. TokenInv'
  BY <1>h DEF Call, TypeOK, IdInv, VerdictIsAnswered, TokenInv, AnsweredBy
<1>6. VerdictIsAnswered'
  BY <1>h DEF Call, TypeOK, ClickInv, NamesAgree, Named, VerdictIsAnswered,
     AnsweredBy
<1>7. ReleasedOnce'
  BY DEF Call, TypeOK, TokenInv, ReleasedOnce
<1>8. ReleaseNeedsConsent'
  BY <1>h DEF Call, ReleaseNeedsConsent, AnsweredBy
<1> QED
  BY <1>1, <1>2, <1>3, <1>4, <1>5, <1>6, <1>7, <1>8 DEF IInv

\* Begin keeps the inductive invariant.
LEMMA BeginStep ==
    ASSUME IInv, NEW t \in Tabs, Begin(t)
    PROVE  IInv'
<1> USE TabsAssumption DEF IInv, RequestId, None, Request, View, NoRequest, Idle, Verdict
<1>h. /\ Holding' = Holding
      /\ \A a \in DOMAIN released : HoldingBefore(a)' = HoldingBefore(a)
  BY DEF Begin, Holding, HoldingBefore
<1>1. TypeOK'
  <2>1. OriginOf[t] \in Origins
    OBVIOUS
  <2>2. created \in Nat /\ created + 1 \in RequestId
    BY DEF Begin, TypeOK
  <2>3. [id |-> created + 1, origin |-> OriginOf[t], verdict |-> "Pending", expired |-> FALSE]
            \in Request
    BY <2>1, <2>2
  <2>4. slot' \in Request \cup {NoRequest} /\ created' \in 0 .. MaxRequests
    <3>1. CASE Live(slot)
      BY <3>1 DEF Begin, TypeOK
    <3>2. CASE ~Live(slot)
      <4>1. slot' \in Request /\ created' = created + 1
        BY <2>3, <3>2 DEF Begin
      <4> QED
        BY <2>2, <4>1
    <3> QED
      BY <3>1, <3>2
  <2>5. call' \in [Tabs -> [at : {"slot", "token"}, id : RequestId \cup {None}] \cup {Idle}]
    BY DEF Begin, TypeOK
  <2> QED
    BY <2>4, <2>5 DEF Begin, TypeOK
<1>2. IdInv'
  <2>1. created \in Nat /\ created' \in Nat /\ created <= created'
    BY DEF Begin, TypeOK
  <2>2. slot' = slot \/ slot'.id = created'
    BY DEF Begin
  <2>3. \A u \in Tabs : call'[u] = call[u] \/ call'[u] = Idle
    BY DEF Begin, TypeOK
  <2>4. /\ slot # NoRequest => slot.id \in Nat /\ slot.id <= created
        /\ \A u \in Tabs : call[u] # Idle => call[u].id \in Nat /\ call[u].id <= created
    BY DEF TypeOK, IdInv
  <2>5. \A v \in fetched \cup {banner} : v.id \in Nat /\ v.id <= created
    BY DEF TypeOK, IdInv
  <2>6. /\ answer # NoRequest => answer.id \in Nat /\ answer.id <= created
        /\ \A c \in consent \cup vouched : c.id \in Nat /\ c.id <= created
    BY DEF TypeOK, IdInv
  <2>7. \A a \in DOMAIN released : released[a][1] \in Nat /\ released[a][1] <= created
    BY DEF TypeOK, IdInv
  <2>8. UNCHANGED <<fetched, banner, answer, released, consent, vouched>>
    BY DEF Begin
  <2> QED
    BY <2>1, <2>2, <2>3, <2>4, <2>5, <2>6, <2>7, <2>8 DEF IdInv
<1>3. NamesAgree'
  <2>1. \A id \in RequestId, o \in Origins : Named(id, o) => id <= created
    <3>1. \A c \in consent \cup vouched \cup fetched \cup {banner} : c.id <= created
      BY DEF IdInv
    <3>2. slot # NoRequest => slot.id <= created
      BY DEF IdInv
    <3> SUFFICES ASSUME NEW id \in RequestId, NEW o \in Origins, Named(id, o)
                 PROVE  \/ slot # NoRequest /\ slot.id = id
                        \/ \E c \in consent \cup vouched \cup fetched \cup {banner} : c.id = id
      BY <3>1, <3>2
    <3>3. CASE [id |-> id, origin |-> o] \in fetched \cup {banner}
      BY <3>3
    <3>4. ASSUME NEW approve \in BOOLEAN, NEW c, c \in consent,
                 c = [id |-> id, origin |-> o, approve |-> approve]
          PROVE  \E d \in consent \cup vouched \cup fetched \cup {banner} : d.id = id
      BY <3>4
    <3>5. ASSUME NEW approve \in BOOLEAN, NEW p \in Origins, NEW c, c \in vouched,
                 c = [id |-> id, origin |-> o, approve |-> approve, by |-> p]
          PROVE  \E d \in consent \cup vouched \cup fetched \cup {banner} : d.id = id
      BY <3>5
    <3> QED
      BY <3>3, <3>4, <3>5 DEF Named
  <2>2. \A id \in RequestId, o \in Origins :
            Named(id, o)' => Named(id, o) \/ (id = created + 1 /\ o = OriginOf[t])
    BY DEF Begin, Live, Named
  <2>3. created \in Nat
    BY DEF TypeOK
  <2> QED
    BY <2>1, <2>2, <2>3 DEF NamesAgree
<1>4. ClickInv'
  BY DEF Begin, Live, TypeOK, ClickInv
<1>5. TokenInv'
  <2>1. \A u \in Tabs : call'[u].at = "token" => call'[u] = call[u]
    BY DEF Begin, TypeOK
  <2>2. UNCHANGED <<released, consent, vouched>>
    BY DEF Begin
  <2>3. /\ created \in Nat
        /\ \A u \in Tabs : call[u].at = "token" => call[u].id <= created
        /\ \A a \in DOMAIN released : released[a][1] <= created
    BY DEF TypeOK, IdInv
  <2>4. slot' = slot \/ slot'.id = created + 1
    BY DEF Begin
  <2> QED
    <3>1. ASSUME NEW u \in Tabs, call'[u].at = "token"
          PROVE  AnsweredBy(Holding, call[u].id, OriginOf[u], TRUE)'
      <4>1. AnsweredBy(Holding, call[u].id, OriginOf[u], TRUE) /\ call'[u] = call[u]
        BY <2>1, <3>1 DEF TokenInv
      <4> QED
        BY <1>h, <2>2, <4>1 DEF AnsweredBy
    <3>2. /\ \A u \in Tabs : call[u].at = "token" => call[u].id # created + 1
          /\ \A a \in DOMAIN released : released[a][1] # created + 1
      BY <2>3 DEF TypeOK
    <3>3. slot' # NoRequest => \A a \in DOMAIN released' : released'[a][1] # slot'.id
      BY <2>2, <2>4, <3>2 DEF TokenInv
    <3> QED
      BY <2>1, <2>2, <2>4, <3>1, <3>2, <3>3 DEF TokenInv
<1>6. VerdictIsAnswered'
  BY <1>h DEF Begin, Live, TypeOK, ClickInv, NamesAgree, Named, VerdictIsAnswered,
     AnsweredBy
<1>7. ReleasedOnce'
  BY DEF Begin, Live, TypeOK, TokenInv, ReleasedOnce
<1>8. ReleaseNeedsConsent'
  BY <1>h DEF Begin, Live, ReleaseNeedsConsent, AnsweredBy
<1> QED
  BY <1>1, <1>2, <1>3, <1>4, <1>5, <1>6, <1>7, <1>8 DEF IInv

\* Poll keeps the inductive invariant.
LEMMA PollStep ==
    ASSUME IInv, NEW t \in Tabs, Poll(t)
    PROVE  IInv'
<1> USE TabsAssumption DEF IInv, RequestId, None, Request, View, NoRequest, Idle, Verdict
<1>h. /\ Holding' = Holding
      /\ \A a \in DOMAIN released : HoldingBefore(a)' = HoldingBefore(a)
  BY DEF Poll, Holding, HoldingBefore
<1>1. TypeOK'
  <2>1. call[t] \in [at : {"slot", "token"}, id : RequestId \cup {None}]
    BY DEF Poll, TypeOK
  <2>2. [call[t] EXCEPT !.at = "token"]
            \in [at : {"slot", "token"}, id : RequestId \cup {None}]
    BY <2>1
  <2>3. call' \in [Tabs -> [at : {"slot", "token"}, id : RequestId \cup {None}] \cup {Idle}]
    BY <2>2 DEF Poll, PollEnds, TypeOK
  <2>4. slot' \in Request \cup {NoRequest}
    BY DEF Poll, TypeOK
  <2> QED
    BY <2>3, <2>4 DEF Poll, TypeOK
<1>2. IdInv'
  BY DEF Poll, PollEnds, Mine, TypeOK, IdInv
<1>3. NamesAgree'
  <2>1. \A id \in RequestId, o \in Origins : Named(id, o)' => Named(id, o)
    BY DEF Poll, Named
  <2> QED
    BY <2>1 DEF NamesAgree
<1>4. ClickInv'
  BY DEF Poll, PollEnds, Mine, TypeOK, ClickInv
<1>5. TokenInv'
  <2>1. CASE slot # NoRequest /\ ~slot.expired /\ Mine(t) /\ slot.verdict = "Approved"
    <3>1. slot' = NoRequest /\ UNCHANGED <<released, consent, vouched>>
      BY <2>1 DEF Poll
    <3>2. call[t] \in [at : {"slot", "token"}, id : RequestId \cup {None}]
      BY DEF Poll, TypeOK
    <3>3. /\ call'[t].at = "token" /\ call'[t].id = call[t].id
          /\ \A u \in Tabs : u # t => call'[u] = call[u]
      BY <2>1, <3>2 DEF Poll, PollEnds, TypeOK
    <3>4. /\ call[t].id \in RequestId /\ slot.id = call[t].id
          /\ AnsweredBy(Holding, slot.id, OriginOf[t], TRUE)
      BY <2>1 DEF Mine, TypeOK, VerdictIsAnswered
    <3>5. \A a \in DOMAIN released : released[a][1] # slot.id
      BY <2>1 DEF TokenInv
    <3>6. \A u \in Tabs : call[u].at = "token" => call[u].id # slot.id
      BY <2>1 DEF TokenInv
    <3>7. call[t].at = "slot"
      BY DEF Poll
    <3> QED
      BY <1>h, <3>1, <3>3, <3>4, <3>5, <3>6, <3>7 DEF TokenInv, AnsweredBy
  <2>2. CASE ~(slot # NoRequest /\ ~slot.expired /\ Mine(t) /\ slot.verdict = "Approved")
    <3>1. call' = [call EXCEPT ![t] = Idle] /\ slot' \in {slot, NoRequest}
      BY <2>2 DEF Poll, PollEnds
    <3>2. call'[t].at # "token" /\ \A u \in Tabs : u # t => call'[u] = call[u]
      BY <3>1 DEF TypeOK
    <3> QED
      BY <1>h, <3>1, <3>2 DEF Poll, TokenInv, AnsweredBy
  <2> QED
    BY <2>1, <2>2
<1>6. VerdictIsAnswered'
  BY <1>h DEF Poll, PollEnds, Mine, TypeOK, ClickInv, NamesAgree, Named, VerdictIsAnswered,
     AnsweredBy
<1>7. ReleasedOnce'
  BY DEF Poll, PollEnds, Mine, TypeOK, TokenInv, ReleasedOnce
<1>8. ReleaseNeedsConsent'
  BY <1>h DEF Poll, PollEnds, Mine, ReleaseNeedsConsent, AnsweredBy
<1> QED
  BY <1>1, <1>2, <1>3, <1>4, <1>5, <1>6, <1>7, <1>8 DEF IInv

\* Release keeps the inductive invariant.
LEMMA ReleaseStep ==
    ASSUME IInv, NEW t \in Tabs, Release(t)
    PROVE  IInv'
<1> USE TabsAssumption DEF IInv, RequestId, None, Request, View, NoRequest, Idle, Verdict
<1>r. /\ released \in Seq(RequestId \X Tabs) /\ <<call[t].id, t>> \in RequestId \X Tabs
      /\ released' = Append(released, <<call[t].id, t>>)
  BY DEF Release, TypeOK, TokenInv
<1>s. /\ released' \in Seq(RequestId \X Tabs)
      /\ DOMAIN released' = DOMAIN released \cup {Len(released) + 1}
      /\ \A a \in DOMAIN released : released'[a] = released[a]
      /\ released'[Len(released) + 1] = <<call[t].id, t>>
  BY <1>r
<1>n. PICK n \in Nat : n = Len(released) + 1
  BY <1>r
<1>h. /\ Holding \subseteq Holding' /\ HoldingBefore(n)' = Holding
      /\ \A a \in DOMAIN released : HoldingBefore(a)' = HoldingBefore(a)
  <2>1. /\ Len(released) \in Nat /\ DOMAIN released = 1 .. Len(released)
        /\ DOMAIN released' = 1 .. n
    BY <1>r, <1>s, <1>n
  <2>2. \A a \in 1 .. n :
            {c \in DOMAIN released' : c < a} = {c \in DOMAIN released : c < a}
    BY <2>1, <1>n
  <2>3. \A a \in 1 .. n : HoldingBefore(a)' = HoldingBefore(a)
    BY <1>s, <2>1, <2>2 DEF HoldingBefore
  <2>4. HoldingBefore(n) = Holding
    BY <2>1, <1>n DEF HoldingBefore, Holding
  <2>5. Holding \subseteq Holding'
    BY <1>s DEF Holding
  <2>6. n \in 1 .. n /\ \A a \in DOMAIN released : a \in 1 .. n
    BY <2>1, <1>n
  <2> QED
    BY <2>3, <2>4, <2>5, <2>6
<1>1. TypeOK'
  BY <1>s DEF Release, TypeOK
<1>2. IdInv'
  BY <1>s DEF Release, TypeOK, IdInv
<1>3. NamesAgree'
  <2>1. \A id \in RequestId, o \in Origins : Named(id, o)' => Named(id, o)
    BY DEF Release, Named
  <2> QED
    BY <2>1 DEF NamesAgree
<1>4. ClickInv'
  BY DEF Release, TypeOK, ClickInv
<1>5. TokenInv'
  <2>1. /\ call'[t].at # "token" /\ \A u \in Tabs : u # t => call'[u] = call[u]
        /\ slot' = slot /\ consent' = consent /\ vouched' = vouched
    BY DEF Release, TypeOK
  <2>2. /\ call[t].at = "token"
        /\ slot # NoRequest => slot.id # call[t].id
        /\ \A u \in Tabs : call[u].at = "token" /\ u # t => call[u].id # call[t].id
    BY DEF Release, TokenInv
  <2>3. \A a \in DOMAIN released' :
            (a \in DOMAIN released /\ released'[a][1] = released[a][1])
            \/ released'[a][1] = call[t].id
    BY <1>s
  <2> QED
    <3>1. ASSUME NEW u \in Tabs, call'[u].at = "token"
          PROVE  AnsweredBy(Holding, call[u].id, OriginOf[u], TRUE)'
      <4>1. AnsweredBy(Holding, call[u].id, OriginOf[u], TRUE) /\ call'[u] = call[u]
        BY <2>1, <3>1 DEF TokenInv
      <4> QED
        BY <1>h, <2>1, <4>1 DEF AnsweredBy
    <3>2. slot' # NoRequest => \A a \in DOMAIN released' : released'[a][1] # slot'.id
      BY <2>1, <2>2, <2>3 DEF TokenInv
    <3>3. ASSUME NEW u \in Tabs, call'[u].at = "token"
          PROVE  /\ u # t /\ call'[u] = call[u] /\ call[u].at = "token"
                 /\ call[u].id # call[t].id
      BY <2>1, <2>2, <3>3
    <3>4. ASSUME NEW u \in Tabs, call'[u].at = "token", NEW a \in DOMAIN released'
          PROVE  released'[a][1] # call'[u].id
      BY <2>3, <3>3, <3>4 DEF TokenInv
    <3>5. ASSUME NEW u \in Tabs, call'[u].at = "token"
          PROVE  /\ call'[u].id \in RequestId
                 /\ slot' # NoRequest => slot'.id # call'[u].id
                 /\ \A w \in Tabs : call'[w].at = "token" /\ call'[w].id = call'[u].id => w = u
      BY <2>1, <3>3, <3>5 DEF TokenInv
    <3> QED
      BY <3>1, <3>2, <3>4, <3>5 DEF TokenInv
<1>6. VerdictIsAnswered'
  BY <1>s, <1>h DEF Release, TypeOK, ClickInv, NamesAgree, Named, VerdictIsAnswered,
     AnsweredBy
<1>7. ReleasedOnce'
  <2>1. \A a \in DOMAIN released : released[a][1] # call[t].id
    BY DEF Release, TokenInv
  <2>2. \A a \in DOMAIN released' :
            (a \in DOMAIN released /\ released'[a][1] = released[a][1])
            \/ (a = Len(released) + 1 /\ released'[a][1] = call[t].id)
    BY <1>s
  <2> QED
    BY <2>1, <2>2 DEF ReleasedOnce
<1>8. ReleaseNeedsConsent'
  <2>1. UNCHANGED <<consent, vouched>>
    BY DEF Release
  <2>2. ASSUME NEW a \in DOMAIN released
        PROVE  AnsweredBy(HoldingBefore(a), released[a][1], OriginOf[released[a][2]], TRUE)'
    <3>1. HoldingBefore(a)' = HoldingBefore(a) /\ released'[a] = released[a]
      BY <1>s, <1>h
    <3> QED
      BY <2>1, <3>1 DEF ReleaseNeedsConsent, AnsweredBy
  <2>3. AnsweredBy(Holding, call[t].id, OriginOf[t], TRUE)
    BY DEF Release, TokenInv
  <2>4. ASSUME NEW a \in DOMAIN released', a = n
        PROVE  AnsweredBy(HoldingBefore(a), released[a][1], OriginOf[released[a][2]], TRUE)'
    <3>1. HoldingBefore(a)' = Holding /\ released'[a] = <<call[t].id, t>>
      BY <1>n, <1>s, <1>h, <2>4
    <3> QED
      BY <2>1, <2>3, <3>1 DEF AnsweredBy
  <2> QED
    BY <1>n, <1>s, <2>2, <2>4 DEF ReleaseNeedsConsent
<1> QED
  BY <1>1, <1>2, <1>3, <1>4, <1>5, <1>6, <1>7, <1>8 DEF IInv

\* Abandon keeps the inductive invariant.
LEMMA AbandonStep ==
    ASSUME IInv, NEW t \in Tabs, Abandon(t)
    PROVE  IInv'
<1> USE TabsAssumption DEF IInv, RequestId, None, Request, View, NoRequest, Idle, Verdict
<1>h. /\ Holding' = Holding
      /\ \A a \in DOMAIN released : HoldingBefore(a)' = HoldingBefore(a)
  BY DEF Abandon, Holding, HoldingBefore
<1>1. TypeOK'
  BY DEF Abandon, TypeOK
<1>2. IdInv'
  BY DEF Abandon, TypeOK, IdInv
<1>3. NamesAgree'
  <2>1. \A id \in RequestId, o \in Origins : Named(id, o)' => Named(id, o)
    BY DEF Abandon, Named
  <2> QED
    BY <2>1 DEF NamesAgree
<1>4. ClickInv'
  BY DEF Abandon, TypeOK, ClickInv
<1>5. TokenInv'
  BY <1>h DEF Abandon, TypeOK, IdInv, VerdictIsAnswered, TokenInv, AnsweredBy
<1>6. VerdictIsAnswered'
  BY <1>h DEF Abandon, TypeOK, ClickInv, NamesAgree, Named, VerdictIsAnswered,
     AnsweredBy
<1>7. ReleasedOnce'
  BY DEF Abandon, TypeOK, TokenInv, ReleasedOnce
<1>8. ReleaseNeedsConsent'
  BY <1>h DEF Abandon, ReleaseNeedsConsent, AnsweredBy
<1> QED
  BY <1>1, <1>2, <1>3, <1>4, <1>5, <1>6, <1>7, <1>8 DEF IInv

\* Expire keeps the inductive invariant.
LEMMA ExpireStep ==
    ASSUME IInv, Expire
    PROVE  IInv'
<1> USE TabsAssumption DEF IInv, RequestId, None, Request, View, NoRequest, Idle, Verdict
<1>h. /\ Holding' = Holding
      /\ \A a \in DOMAIN released : HoldingBefore(a)' = HoldingBefore(a)
  BY DEF Expire, Holding, HoldingBefore
<1>1. TypeOK'
  BY DEF Expire, TypeOK
<1>2. IdInv'
  BY DEF Expire, TypeOK, IdInv
<1>3. NamesAgree'
  <2>1. \A id \in RequestId, o \in Origins : Named(id, o)' => Named(id, o)
    BY DEF Expire, TypeOK, Named
  <2> QED
    BY <2>1 DEF NamesAgree
<1>4. ClickInv'
  BY DEF Expire, TypeOK, ClickInv
<1>5. TokenInv'
  BY <1>h DEF Expire, TypeOK, IdInv, VerdictIsAnswered, TokenInv, AnsweredBy
<1>6. VerdictIsAnswered'
  BY <1>h DEF Expire, TypeOK, ClickInv, NamesAgree, Named, VerdictIsAnswered,
     AnsweredBy
<1>7. ReleasedOnce'
  BY DEF Expire, TypeOK, TokenInv, ReleasedOnce
<1>8. ReleaseNeedsConsent'
  BY <1>h DEF Expire, ReleaseNeedsConsent, AnsweredBy
<1> QED
  BY <1>1, <1>2, <1>3, <1>4, <1>5, <1>6, <1>7, <1>8 DEF IInv

\* SetAllowed keeps the inductive invariant.
LEMMA SetAllowedStep ==
    ASSUME IInv, NEW origins \in SUBSET Origins, SetAllowed(origins)
    PROVE  IInv'
<1> USE TabsAssumption DEF IInv, RequestId, None, Request, View, NoRequest, Idle, Verdict
<1>h. /\ Holding' = Holding
      /\ \A a \in DOMAIN released : HoldingBefore(a)' = HoldingBefore(a)
  BY DEF SetAllowed, Holding, HoldingBefore
<1>1. TypeOK'
  BY DEF SetAllowed, TypeOK
<1>2. IdInv'
  BY DEF SetAllowed, TypeOK, IdInv
<1>3. NamesAgree'
  <2>1. \A id \in RequestId, o \in Origins : Named(id, o)' => Named(id, o)
    BY DEF SetAllowed, Named
  <2> QED
    BY <2>1 DEF NamesAgree
<1>4. ClickInv'
  BY DEF SetAllowed, TypeOK, ClickInv
<1>5. TokenInv'
  BY <1>h DEF SetAllowed, TypeOK, IdInv, VerdictIsAnswered, TokenInv, AnsweredBy
<1>6. VerdictIsAnswered'
  BY <1>h DEF SetAllowed, TypeOK, ClickInv, NamesAgree, Named, VerdictIsAnswered,
     AnsweredBy
<1>7. ReleasedOnce'
  BY DEF SetAllowed, TypeOK, TokenInv, ReleasedOnce
<1>8. ReleaseNeedsConsent'
  BY <1>h DEF SetAllowed, ReleaseNeedsConsent, AnsweredBy
<1> QED
  BY <1>1, <1>2, <1>3, <1>4, <1>5, <1>6, <1>7, <1>8 DEF IInv

\* BannerFetch keeps the inductive invariant.
LEMMA BannerFetchStep ==
    ASSUME IInv, BannerFetch
    PROVE  IInv'
<1> USE TabsAssumption DEF IInv, RequestId, None, Request, View, NoRequest, Idle, Verdict
<1>h. /\ Holding' = Holding
      /\ \A a \in DOMAIN released : HoldingBefore(a)' = HoldingBefore(a)
  BY DEF BannerFetch, Holding, HoldingBefore
<1>1. TypeOK'
  BY DEF BannerFetch, Pending, Live, TypeOK
<1>2. IdInv'
  BY DEF BannerFetch, Pending, Live, TypeOK, IdInv
<1>3. NamesAgree'
  <2>1. \A id \in RequestId, o \in Origins : Named(id, o)' => Named(id, o)
    BY DEF BannerFetch, Pending, Live, TypeOK, Named
  <2> QED
    BY <2>1 DEF NamesAgree
<1>4. ClickInv'
  BY DEF BannerFetch, Pending, Live, TypeOK, ClickInv
<1>5. TokenInv'
  BY <1>h DEF BannerFetch, Pending, Live, TypeOK, IdInv, VerdictIsAnswered, TokenInv,
     AnsweredBy
<1>6. VerdictIsAnswered'
  BY <1>h DEF BannerFetch, Pending, Live, TypeOK, ClickInv, NamesAgree, Named, VerdictIsAnswered,
     AnsweredBy
<1>7. ReleasedOnce'
  BY DEF BannerFetch, Pending, Live, TypeOK, TokenInv, ReleasedOnce
<1>8. ReleaseNeedsConsent'
  BY <1>h DEF BannerFetch, Pending, Live, ReleaseNeedsConsent, AnsweredBy
<1> QED
  BY <1>1, <1>2, <1>3, <1>4, <1>5, <1>6, <1>7, <1>8 DEF IInv

\* BannerShow keeps the inductive invariant.
LEMMA BannerShowStep ==
    ASSUME IInv, NEW view \in fetched, BannerShow(view)
    PROVE  IInv'
<1> USE TabsAssumption DEF IInv, RequestId, None, Request, View, NoRequest, Idle, Verdict
<1>h. /\ Holding' = Holding
      /\ \A a \in DOMAIN released : HoldingBefore(a)' = HoldingBefore(a)
  BY DEF BannerShow, Holding, HoldingBefore
<1>1. TypeOK'
  BY DEF BannerShow, TypeOK
<1>2. IdInv'
  BY DEF BannerShow, TypeOK, IdInv
<1>3. NamesAgree'
  <2>1. \A id \in RequestId, o \in Origins : Named(id, o)' => Named(id, o)
    BY DEF BannerShow, Named
  <2> QED
    BY <2>1 DEF NamesAgree
<1>4. ClickInv'
  BY DEF BannerShow, TypeOK, ClickInv
<1>5. TokenInv'
  BY <1>h DEF BannerShow, TypeOK, IdInv, VerdictIsAnswered, TokenInv, AnsweredBy
<1>6. VerdictIsAnswered'
  BY <1>h DEF BannerShow, TypeOK, ClickInv, NamesAgree, Named, VerdictIsAnswered,
     AnsweredBy
<1>7. ReleasedOnce'
  BY DEF BannerShow, TypeOK, TokenInv, ReleasedOnce
<1>8. ReleaseNeedsConsent'
  BY <1>h DEF BannerShow, ReleaseNeedsConsent, AnsweredBy
<1> QED
  BY <1>1, <1>2, <1>3, <1>4, <1>5, <1>6, <1>7, <1>8 DEF IInv

\* Click keeps the inductive invariant.
LEMMA ClickStep ==
    ASSUME IInv, NEW approve \in BOOLEAN, Click(approve)
    PROVE  IInv'
<1> USE TabsAssumption DEF IInv, RequestId, None, Request, View, NoRequest, Idle, Verdict
<1>h. /\ Holding' = Holding
      /\ \A a \in DOMAIN released : HoldingBefore(a)' = HoldingBefore(a)
  BY DEF Click, Holding, HoldingBefore
<1>1. TypeOK'
  BY DEF Click, TypeOK
<1>2. IdInv'
  BY DEF Click, TypeOK, IdInv
<1>3. NamesAgree'
  <2>1. \A id \in RequestId, o \in Origins : Named(id, o)' => Named(id, o)
    BY DEF Click, TypeOK, Named
  <2> QED
    BY <2>1 DEF NamesAgree
<1>4. ClickInv'
  BY DEF Click, TypeOK, ClickInv
<1>5. TokenInv'
  BY <1>h DEF Click, TypeOK, IdInv, VerdictIsAnswered, TokenInv, AnsweredBy
<1>6. VerdictIsAnswered'
  BY <1>h DEF Click, TypeOK, ClickInv, NamesAgree, Named, VerdictIsAnswered,
     AnsweredBy
<1>7. ReleasedOnce'
  BY DEF Click, TypeOK, TokenInv, ReleasedOnce
<1>8. ReleaseNeedsConsent'
  BY <1>h DEF Click, ReleaseNeedsConsent, AnsweredBy
<1> QED
  BY <1>1, <1>2, <1>3, <1>4, <1>5, <1>6, <1>7, <1>8 DEF IInv

\* Respond keeps the inductive invariant.
LEMMA RespondStep ==
    ASSUME IInv, Respond
    PROVE  IInv'
<1> USE TabsAssumption DEF IInv, RequestId, None, Request, View, NoRequest, Idle, Verdict
<1>h. /\ Holding' = Holding
      /\ \A a \in DOMAIN released : HoldingBefore(a)' = HoldingBefore(a)
  BY DEF Respond, Holding, HoldingBefore
<1>1. TypeOK'
  BY DEF Respond, Answerable, Decided, Live, TypeOK
<1>2. IdInv'
  BY DEF Respond, Answerable, Decided, Live, TypeOK, IdInv
<1>3. NamesAgree'
  <2>1. \A id \in RequestId, o \in Origins : Named(id, o)' => Named(id, o)
    BY DEF Respond, Answerable, Decided, TypeOK, Named
  <2> QED
    BY <2>1 DEF NamesAgree
<1>4. ClickInv'
  BY DEF Respond, Answerable, Decided, Live, TypeOK, ClickInv
<1>5. TokenInv'
  BY <1>h DEF Respond, Answerable, Decided, Live, TypeOK, IdInv, VerdictIsAnswered, TokenInv,
     AnsweredBy
<1>6. VerdictIsAnswered'
  BY <1>h DEF Respond, Answerable, Decided, Live, TypeOK, ClickInv, NamesAgree, Named, VerdictIsAnswered,
     AnsweredBy
<1>7. ReleasedOnce'
  BY DEF Respond, Answerable, Decided, Live, TypeOK, TokenInv, ReleasedOnce
<1>8. ReleaseNeedsConsent'
  BY <1>h DEF Respond, Answerable, Decided, Live, ReleaseNeedsConsent, AnsweredBy
<1> QED
  BY <1>1, <1>2, <1>3, <1>4, <1>5, <1>6, <1>7, <1>8 DEF IInv

\* RespondAsPage keeps the inductive invariant.
LEMMA RespondAsPageStep ==
    ASSUME IInv, NEW t \in Tabs, NEW approve \in BOOLEAN, RespondAsPage(t, approve)
    PROVE  IInv'
<1> USE TabsAssumption DEF IInv, RequestId, None, Request, View, NoRequest, Idle, Verdict
<1> DEFINE v == [id |-> slot.id, origin |-> slot.origin, approve |-> approve,
                 by |-> OriginOf[t]]
<1>h. /\ Holding' = Holding
      /\ \A a \in DOMAIN released : HoldingBefore(a)' = HoldingBefore(a)
  BY DEF RespondAsPage, Holding, HoldingBefore
<1>s. /\ slot \in Request /\ slot # NoRequest /\ slot.verdict = "Pending"
      /\ slot' \in Request /\ slot' # NoRequest /\ slot'.id = slot.id
      /\ slot'.origin = slot.origin
      /\ slot'.verdict = IF approve THEN "Approved" ELSE "Denied"
  BY DEF RespondAsPage, Decided, Live, TypeOK
<1>v. /\ vouched' = vouched \cup {v} /\ OriginOf[t] \in Holding
      /\ UNCHANGED <<created, allowed, call, fetched, banner, answer, released, consent>>
  BY DEF RespondAsPage
<1>1. TypeOK'
  <2>1. v \in [id : RequestId, origin : Origins, approve : BOOLEAN, by : Origins]
    BY <1>s
  <2> QED
    BY <1>s, <1>v, <2>1 DEF TypeOK
<1>2. IdInv'
  <2>1. v.id = slot.id /\ slot.id <= created
    BY <1>s DEF IdInv
  <2> HIDE DEF v
  <2> QED
    BY <1>s, <1>v, <2>1 DEF IdInv
<1>3. NamesAgree'
  <2>1. \A id \in RequestId, o \in Origins : Named(id, o)' => Named(id, o)
    BY <1>s, <1>v DEF Named
  <2> QED
    BY <2>1 DEF NamesAgree
<1>4. ClickInv'
  BY <1>v DEF ClickInv
<1>5. TokenInv'
  BY <1>h, <1>s, <1>v DEF TokenInv, AnsweredBy
<1>6. VerdictIsAnswered'
  BY <1>h, <1>s, <1>v DEF VerdictIsAnswered, AnsweredBy
<1>7. ReleasedOnce'
  BY <1>v DEF ReleasedOnce
<1>8. ReleaseNeedsConsent'
  BY <1>h, <1>v DEF ReleaseNeedsConsent, AnsweredBy
<1> QED
  BY <1>1, <1>2, <1>3, <1>4, <1>5, <1>6, <1>7, <1>8 DEF IInv

-----------------------------------------------------------------------------
(* The theorems.                                                           *)

\* Initially nothing has happened.
LEMMA Initially == Init => IInv
<1> USE TabsAssumption DEF Init, IInv, RequestId, None, Request, View, NoRequest, Idle
<1>1. Init => TypeOK /\ IdInv /\ ClickInv /\ TokenInv
  BY DEF TypeOK, IdInv, ClickInv, TokenInv, AnsweredBy
<1>2. Init => NamesAgree
  BY DEF NamesAgree, Named
<1>3. Init => VerdictIsAnswered /\ ReleasedOnce /\ ReleaseNeedsConsent
  BY DEF VerdictIsAnswered, ReleasedOnce, ReleaseNeedsConsent
<1> QED
  BY <1>1, <1>2, <1>3

\* A step that changes nothing keeps the inductive invariant.
LEMMA StutterStep ==
    ASSUME IInv, UNCHANGED vars
    PROVE  IInv'
<1>h. Holding' = Holding /\ \A a : HoldingBefore(a)' = HoldingBefore(a)
  BY DEF vars, Holding, HoldingBefore
<1>1. TypeOK' /\ IdInv' /\ ClickInv'
  BY DEF vars, IInv, TypeOK, IdInv, ClickInv
<1>2. NamesAgree'
  <2>1. \A id \in RequestId, o \in Origins : Named(id, o)' => Named(id, o)
    BY DEF vars, Named
  <2> QED
    BY <2>1 DEF IInv, NamesAgree
<1>3. TokenInv'
  BY <1>h DEF vars, IInv, TokenInv, AnsweredBy
<1>4. VerdictIsAnswered' /\ ReleasedOnce'
  BY <1>h DEF vars, IInv, VerdictIsAnswered, ReleasedOnce, AnsweredBy
<1>5. ReleaseNeedsConsent'
  BY <1>h DEF vars, IInv, ReleaseNeedsConsent, AnsweredBy
<1> QED
  BY <1>1, <1>2, <1>3, <1>4, <1>5 DEF IInv

\* Every step of pairing keeps the inductive invariant.
LEMMA EveryStep == IInv /\ [Next]_vars => IInv'
<1> SUFFICES ASSUME IInv, [Next]_vars
             PROVE  IInv'
  OBVIOUS
<1>1. ASSUME NEW t \in Tabs, NEW id \in RequestId \cup {None}, Call(t, id)
      PROVE  IInv'
  BY <1>1, CallStep
<1>2. ASSUME NEW t \in Tabs, Begin(t) \/ Poll(t) \/ Release(t) \/ Abandon(t)
      PROVE  IInv'
  BY <1>2, BeginStep, PollStep, ReleaseStep, AbandonStep
<1>3. CASE Expire \/ BannerFetch \/ Respond
  BY <1>3, ExpireStep, BannerFetchStep, RespondStep
<1>4. ASSUME NEW origins \in SUBSET Origins, SetAllowed(origins)
      PROVE  IInv'
  BY <1>4, SetAllowedStep
<1>5. ASSUME NEW view \in fetched, BannerShow(view)
      PROVE  IInv'
  BY <1>5, BannerShowStep
<1>6. ASSUME NEW approve \in BOOLEAN, Click(approve)
      PROVE  IInv'
  BY <1>6, ClickStep
<1>7. ASSUME NEW t \in Tabs, NEW approve \in BOOLEAN, RespondAsPage(t, approve)
      PROVE  IInv'
  BY <1>7, RespondAsPageStep
<1>8. CASE UNCHANGED vars
  BY <1>8, StutterStep
<1> QED
  BY <1>1, <1>2, <1>3, <1>4, <1>5, <1>6, <1>7, <1>8 DEF Next

\* The inductive invariant holds of every behaviour.
THEOREM Inductive == Spec => []IInv
BY Initially, EveryStep, PTL DEF Spec

\* Every state is of its type; the banner is never told more than a view.
THEOREM TypeCorrect == Spec => []TypeOK
<1>1. IInv => TypeOK
  BY DEF IInv
<1> QED
  BY <1>1, Inductive, PTL

\* "The token is released once" per request, whichever tabs poll for it.
THEOREM TokenReleasedOnce == Spec => []ReleasedOnce
<1>1. IInv => ReleasedOnce
  BY DEF IInv
<1> QED
  BY <1>1, Inductive, PTL

\* The token goes only to an origin whose very request was approved: by the user,
\* however many answers to the banner's polls arrive out of order, or by a page
\* that was given the token before.
THEOREM TokenNeedsConsent == Spec => []ReleaseNeedsConsent
<1>1. IInv => ReleaseNeedsConsent
  BY DEF IInv
<1> QED
  BY <1>1, Inductive, PTL

\* The slot is answered only as the user, or a page that has the token, answered
\* the request in it.
THEOREM VerdictsAreAnswered == Spec => []VerdictIsAnswered
<1>1. IInv => VerdictIsAnswered
  BY DEF IInv
<1> QED
  BY <1>1, Inductive, PTL

\* What a step may do to the request in the slot.
LEMMA SlotStep ==
    ASSUME TypeOK, IdInv, [Next]_vars
    PROVE  /\ Live(slot) => slot'.id = slot.id /\ slot'.origin = slot.origin
           /\ slot # NoRequest /\ slot'.id = slot.id /\ slot' # slot =>
                 ~slot.expired /\ (slot'.verdict # slot.verdict => slot.verdict = "Pending")
<1> USE TabsAssumption DEF TypeOK, Live, RequestId, None, Request, Verdict, NoRequest
<1>1. CASE slot' = slot
  BY <1>1
<1>2. ASSUME NEW t \in Tabs, Begin(t), slot' # slot
      PROVE  ~Live(slot) /\ (slot # NoRequest => slot'.id # slot.id)
  BY <1>2 DEF Begin, IdInv
<1>3. ASSUME NEW t \in Tabs, Poll(t), slot' # slot
      PROVE  slot' = NoRequest /\ ~Live(slot) /\ slot # NoRequest /\ slot.id # slot'.id
  BY <1>3 DEF Poll
<1>4. ASSUME Expire
      PROVE  /\ slot # NoRequest /\ ~slot.expired
             /\ slot'.id = slot.id /\ slot'.origin = slot.origin
             /\ slot'.verdict = slot.verdict
  BY <1>4 DEF Expire
<1>5. ASSUME Respond, slot' # slot
      PROVE  Live(slot) /\ slot'.id = slot.id /\ slot'.origin = slot.origin
  BY <1>5 DEF Respond, Answerable, Decided
<1>6. ASSUME NEW t \in Tabs, NEW approve \in BOOLEAN, RespondAsPage(t, approve)
      PROVE  Live(slot) /\ slot'.id = slot.id /\ slot'.origin = slot.origin
  BY <1>6 DEF RespondAsPage, Decided
<1>7. \/ slot' = slot \/ Expire \/ Respond
      \/ \E t \in Tabs : Begin(t) \/ Poll(t)
      \/ \E t \in Tabs, approve \in BOOLEAN : RespondAsPage(t, approve)
  BY DEF Next, vars, Call, Release, Abandon, SetAllowed, BannerFetch, BannerShow, Click
<1> QED
  BY <1>1, <1>2, <1>3, <1>4, <1>5, <1>6, <1>7

\* A live request keeps the slot and is answered at most once, in time.
THEOREM OneAnswer == Spec => AnsweredOnce
<1>1. IInv => TypeOK /\ IdInv
  BY DEF IInv
<1>2. TypeOK /\ IdInv /\ [Next]_vars =>
        [ /\ Live(slot) => slot'.id = slot.id /\ slot'.origin = slot.origin
          /\ slot # NoRequest /\ slot'.id = slot.id /\ slot' # slot =>
                ~slot.expired /\ (slot'.verdict # slot.verdict => slot.verdict = "Pending")]_vars
  BY SlotStep
<1> QED
  BY <1>1, <1>2, Inductive, PTL DEF Spec, AnsweredOnce

-----------------------------------------------------------------------------
(* Pairing implements PairingGrant.                                        *)

GRequest == [id \in RequestId |-> Standing(id)]
GTokens  == [a \in DOMAIN released |-> <<released[a][1], OriginOf[released[a][2]]>>]
GStep    == [Grant!Next]_(Grant!vars)

HeldBy(t, id) == call[t].at = "token" /\ call[t].id = id
InSlot(id)    == slot # NoRequest /\ slot.id = id /\ ~slot.expired

\* Where a request stands, case by case: whoever holds its approval is alone.
StandingCases ==
    \A id \in RequestId :
        /\ id > created => Standing(id) = [at |-> "Unasked"]
        /\ \A t \in Tabs : HeldBy(t, id) =>
              Standing(id) = [at |-> "Approved", origin |-> OriginOf[t]]
        /\ InSlot(id) => Standing(id) = [at |-> slot.verdict, origin |-> slot.origin]
        /\ id <= created /\ ~InSlot(id) /\ (\A t \in Tabs : ~HeldBy(t, id)) =>
              Standing(id) = [at |-> "Over"]

LEMMA StandingKnown == IInv => StandingCases
<1> SUFFICES ASSUME IInv, NEW id \in RequestId
             PROVE  /\ id > created => Standing(id) = [at |-> "Unasked"]
                    /\ \A t \in Tabs : HeldBy(t, id) =>
                          Standing(id) = [at |-> "Approved", origin |-> OriginOf[t]]
                    /\ InSlot(id) => Standing(id) = [at |-> slot.verdict, origin |-> slot.origin]
                    /\ id <= created /\ ~InSlot(id) /\ (\A t \in Tabs : ~HeldBy(t, id)) =>
                          Standing(id) = [at |-> "Over"]
  BY DEF StandingCases
<1>1. created \in Nat /\ id \in Nat
  BY DEF IInv, TypeOK, RequestId
<1>2. ASSUME NEW t \in Tabs, HeldBy(t, id)
      PROVE  ~(id > created) /\ Holders(id) = {t} /\ ~InSlot(id)
  <2>1. call[t] # Idle /\ call[t].at = "token" /\ call[t].id = id
    BY <1>2 DEF HeldBy, Idle
  <2>2. id <= created
    BY <2>1 DEF IInv, IdInv
  <2>3. \A u \in Tabs : call[u].at = "token" /\ call[u].id = id => u = t
    BY <2>1 DEF IInv, TokenInv
  <2>4. ~InSlot(id)
    BY <2>1 DEF IInv, TokenInv, InSlot
  <2> QED
    BY <1>1, <2>1, <2>2, <2>3, <2>4 DEF Holders
<1>3. ASSUME InSlot(id) PROVE ~(id > created) /\ Holders(id) = {}
  BY <1>1, <1>2, <1>3 DEF IInv, IdInv, InSlot, Holders, HeldBy
<1>4. id > created => Standing(id) = [at |-> "Unasked"]
  BY DEF Standing
<1>5. ASSUME NEW t \in Tabs, HeldBy(t, id)
      PROVE  Standing(id) = [at |-> "Approved", origin |-> OriginOf[t]]
  <2>1. Holders(id) # {} /\ (CHOOSE u \in Holders(id) : TRUE) = t /\ ~(id > created)
    BY <1>2, <1>5
  <2> QED
    BY <2>1 DEF Standing
<1>6. InSlot(id) => Standing(id) = [at |-> slot.verdict, origin |-> slot.origin]
  BY <1>3 DEF Standing, InSlot
<1>7. id <= created /\ ~InSlot(id) /\ (\A t \in Tabs : ~HeldBy(t, id)) =>
          Standing(id) = [at |-> "Over"]
  <2>1. (\A t \in Tabs : ~HeldBy(t, id)) => Holders(id) = {}
    BY DEF Holders, HeldBy
  <2> QED
    BY <1>1, <2>1 DEF Standing, InSlot
<1> QED
  BY <1>4, <1>5, <1>6, <1>7

\* Initially no request was made.
LEMMA GrantInit == Init => Grant!Init
<1> SUFFICES ASSUME Init PROVE Grant!Init
  OBVIOUS
<1>1. \A id \in RequestId : Standing(id) = [at |-> "Unasked"]
  <2>1. \A id \in RequestId : id > 0
    BY DEF RequestId
  <2> QED
    BY <2>1 DEF Init, Standing
<1>2. GRequest = [id \in RequestId |-> [at |-> "Unasked"]]
  BY <1>1 DEF GRequest
<1>3. GTokens = <<>>
  BY DEF GTokens, Init
<1> QED
  BY <1>2, <1>3 DEF Grant!Init, Grant!Unasked, GRequest, GTokens, Init

\* A request of which neither the slot nor a call says anything new stands where it
\* stood.
LEMMA StandsStill ==
    ASSUME StandingCases, StandingCases', NEW id \in RequestId, TypeOK, created' = created,
           InSlot(id)' <=> InSlot(id),
           InSlot(id) => slot'.verdict = slot.verdict /\ slot'.origin = slot.origin,
           \A t \in Tabs : HeldBy(t, id)' <=> HeldBy(t, id)
    PROVE  Standing(id)' = Standing(id)
<1>1. id \in Nat /\ created \in Nat
  BY DEF RequestId, TypeOK
<1>2. CASE id > created
  BY <1>2 DEF StandingCases
<1>3. CASE InSlot(id)
  <2>1. Standing(id) = [at |-> slot.verdict, origin |-> slot.origin]
    BY <1>3 DEF StandingCases
  <2>2. Standing(id)' = [at |-> slot'.verdict, origin |-> slot'.origin]
    BY <1>3 DEF StandingCases
  <2> QED
    BY <1>3, <2>1, <2>2
<1>4. ASSUME NEW t \in Tabs, HeldBy(t, id) PROVE Standing(id)' = Standing(id)
  BY <1>4 DEF StandingCases
<1>5. CASE id <= created /\ ~InSlot(id) /\ \A t \in Tabs : ~HeldBy(t, id)
  BY <1>5 DEF StandingCases
<1> QED
  BY <1>1, <1>2, <1>3, <1>4, <1>5

\* A step that changes no standing, no word said of it and no token is a stutter.
LEMMA Stutters ==
    ASSUME \A id \in RequestId : Standing(id)' = Standing(id), UNCHANGED <<consent, released, vouched>>
    PROVE  GStep
<1>1. GRequest' = GRequest
  BY DEF GRequest
<1>2. GTokens' = GTokens
  BY DEF GTokens
<1> QED
  BY <1>1, <1>2 DEF GStep, Grant!vars, GRequest, GTokens

\* An open request that is over after a step which leaves the others as they were
\* lapsed.
LEMMA Lapses ==
    ASSUME NEW i \in RequestId, Standing(i).at \in {"Pending", "Approved", "Denied"},
           Standing(i)' = [at |-> "Over"],
           \A id \in RequestId : id # i => Standing(id)' = Standing(id),
           UNCHANGED <<consent, released, vouched>>
    PROVE  GStep
<1>1. GRequest' = [GRequest EXCEPT ![i] = [at |-> "Over"]] /\ GRequest[i] = Standing(i)
  BY DEF GRequest
<1>2. GTokens' = GTokens
  BY DEF GTokens
<1>3. Grant!Lapse(i)
  BY <1>1, <1>2 DEF Grant!Lapse, Grant!Open, Grant!Answered, Grant!Over, GRequest, GTokens
<1> QED
  BY <1>3 DEF GStep, Grant!Next

\* Waiting for the lock, or for nothing any more, says nothing of a request.
LEMMA QuietSteps ==
    ASSUME IInv, StandingCases, StandingCases',
           \/ \E t \in Tabs, id \in RequestId \cup {None} : Call(t, id)
           \/ \E origins \in SUBSET Origins : SetAllowed(origins)
           \/ BannerFetch \/ \E view \in fetched : BannerShow(view)
           \/ UNCHANGED vars
    PROVE  GStep
<1>1. UNCHANGED <<slot, created, consent, released, vouched>>
  BY DEF Call, SetAllowed, BannerFetch, BannerShow, vars
<1>2. \A u \in Tabs, id \in RequestId : HeldBy(u, id)' <=> HeldBy(u, id)
  BY DEF HeldBy, Call, SetAllowed, BannerFetch, BannerShow, vars, IInv, TypeOK, Idle
<1>3. TypeOK
  BY DEF IInv
<1>4. \A id \in RequestId : Standing(id)' = Standing(id)
  BY <1>1, <1>2, <1>3, StandsStill DEF InSlot
<1> QED
  BY <1>1, <1>4, Stutters

\* A new request is the only pending one; what it overwrites was answered.
LEMMA BeginAsks ==
    ASSUME IInv, StandingCases, StandingCases', NEW t \in Tabs, Begin(t)
    PROVE  GStep
<1>1. /\ TypeOK /\ created \in Nat /\ call[t].at = "slot" /\ UNCHANGED <<consent, released, vouched>>
      /\ call' = [call EXCEPT ![t] = Idle]
  BY DEF IInv, TypeOK, Begin
<1>2. \A u \in Tabs, id \in RequestId : HeldBy(u, id)' <=> HeldBy(u, id)
  BY <1>1 DEF HeldBy, TypeOK, Idle
<1>3. CASE Live(slot)
  <2>1. UNCHANGED <<slot, created>>
    BY <1>3 DEF Begin
  <2>2. \A id \in RequestId : Standing(id)' = Standing(id)
    BY <1>1, <1>2, <2>1, StandsStill DEF InSlot
  <2> QED
    BY <1>1, <2>2, Stutters
<1>4. CASE ~Live(slot)
  <2>0. PICK i \in RequestId : i = created + 1
    BY <1>1, TabsAssumption DEF Begin, RequestId
  <2> DEFINE lost == {id \in RequestId : InSlot(id)}
             new  == [at |-> "Pending", origin |-> OriginOf[t]]
  <2>1. /\ created' = i /\ slot' = [id |-> i, origin |-> OriginOf[t],
                                    verdict |-> "Pending", expired |-> FALSE]
        /\ i \in Nat
    BY <1>1, <1>4, <2>0 DEF Begin
  <2>2. Standing(i) = [at |-> "Unasked"] /\ Standing(i)' = new
    <3>1. i > created /\ InSlot(i)'
      <4>1. i > created /\ i # 0
        BY <1>1, <2>0
      <4>2. slot' # NoRequest
        BY <2>1, <4>1 DEF NoRequest, None
      <4> QED
        BY <2>1, <4>1, <4>2 DEF InSlot
    <3> QED
      BY <2>1, <3>1 DEF StandingCases
  <2>3. ASSUME NEW id \in lost
        PROVE  /\ Standing(id).at \in {"Approved", "Denied"} /\ Standing(id)' = [at |-> "Over"]
               /\ id # i
    <3>1. id \in RequestId /\ InSlot(id) /\ id <= created /\ id # i
      BY <1>1, <2>0 DEF InSlot, IInv, IdInv, RequestId
    <3>2. slot.verdict \in {"Approved", "Denied"}
      BY <1>1, <1>4, <3>1 DEF InSlot, Live, TypeOK, Request, Verdict
    <3>3. Standing(id).at \in {"Approved", "Denied"}
      BY <3>1, <3>2 DEF StandingCases
    <3>4. \A u \in Tabs : ~HeldBy(u, id)
      BY <3>1 DEF HeldBy, InSlot, IInv, TokenInv
    <3>5. ~InSlot(id)' /\ id <= created' /\ \A u \in Tabs : ~HeldBy(u, id)'
      BY <1>1, <1>2, <2>0, <2>1, <3>1, <3>4 DEF InSlot, RequestId
    <3> QED
      BY <3>1, <3>3, <3>5 DEF StandingCases
  <2>4. ASSUME NEW id \in RequestId, id # i, id \notin lost PROVE Standing(id)' = Standing(id)
    <3>1. id \in Nat /\ ~InSlot(id) /\ ~InSlot(id)'
      BY <2>1, <2>4 DEF InSlot, RequestId
    <3>2. CASE id > created
      <4>1. id > created'
        BY <1>1, <2>0, <2>1, <2>4, <3>1, <3>2
      <4> QED
        BY <3>2, <4>1 DEF StandingCases
    <3>3. ASSUME NEW u \in Tabs, HeldBy(u, id) PROVE Standing(id)' = Standing(id)
      BY <1>2, <3>3 DEF StandingCases
    <3>4. CASE id <= created /\ \A u \in Tabs : ~HeldBy(u, id)
      <4>1. id <= created'
        BY <1>1, <2>0, <2>1, <3>1, <3>4
      <4> QED
        BY <1>2, <3>1, <3>4, <4>1 DEF StandingCases
    <3> QED
      BY <1>1, <3>1, <3>2, <3>3, <3>4
  <2>5. \A id \in RequestId : Standing(id).at # "Pending"
    <3> SUFFICES ASSUME NEW id \in RequestId PROVE Standing(id).at # "Pending"
      OBVIOUS
    <3>1. CASE id \in lost
      BY <2>3, <3>1
    <3>2. ASSUME NEW u \in Tabs, HeldBy(u, id) PROVE Standing(id).at # "Pending"
      BY <3>2 DEF StandingCases
    <3>3. CASE id \notin lost /\ \A u \in Tabs : ~HeldBy(u, id)
      <4>1. ~InSlot(id) /\ (id > created \/ id <= created)
        BY <1>1, <3>3 DEF RequestId
      <4> QED
        BY <3>3, <4>1 DEF StandingCases
    <3> QED
      BY <3>1, <3>2, <3>3
  <2> HIDE DEF lost, new
  <2>6. GRequest' = [id \in RequestId |-> IF id = i THEN new
                                          ELSE IF id \in lost THEN [at |-> "Over"]
                                          ELSE GRequest[id]]
    BY <2>2, <2>3, <2>4 DEF GRequest
  <2>7. /\ GRequest[i].at = "Unasked" /\ \A id \in RequestId : GRequest[id].at # "Pending"
        /\ \A id \in lost : GRequest[id].at \in {"Approved", "Denied"}
    <3>1. lost \subseteq RequestId
      BY DEF lost
    <3> QED
      BY <2>1, <2>2, <2>3, <2>5, <3>1 DEF GRequest
  <2>8. GTokens' = GTokens /\ lost \in SUBSET RequestId /\ OriginOf[t] \in Origins
    BY <1>1, TabsAssumption DEF GTokens, lost
  <2>9. Grant!Ask(i, OriginOf[t], lost)
    BY <1>1, <2>6, <2>7, <2>8 DEF Grant!Ask, Grant!Answered, Grant!By, Grant!Over, GRequest,
       GTokens, new
  <2> QED
    BY <2>1, <2>8, <2>9 DEF GStep, Grant!Next
<1> QED
  BY <1>3, <1>4

\* A poll takes an approval along, lets a refusal lapse, and tells nothing else.
LEMMA PollKeepsPromise ==
    ASSUME IInv, IInv', StandingCases, StandingCases', NEW t \in Tabs, Poll(t)
    PROVE  GStep
<1> DEFINE Taken == slot # NoRequest /\ ~slot.expired /\ Mine(t) /\ slot.verdict = "Approved"
           Told  == slot # NoRequest /\ ~slot.expired /\ Mine(t) /\ slot.verdict = "Denied"
<1>1. /\ TypeOK /\ call[t].at = "slot" /\ UNCHANGED <<created, consent, released, vouched>>
      /\ \A u \in Tabs : u # t => call'[u] = call[u]
  BY DEF IInv, Poll, PollEnds, TypeOK
<1>2. ASSUME NEW u \in Tabs, NEW id \in RequestId, u # t \/ ~Taken
      PROVE  HeldBy(u, id)' <=> HeldBy(u, id)
  BY <1>1, <1>2 DEF HeldBy, Poll, PollEnds, TypeOK, Idle
<1>3. CASE Taken
  <2>1. /\ slot \in Request /\ slot.id = call[t].id /\ slot.origin = OriginOf[t]
        /\ slot' = NoRequest
    BY <1>1, <1>3 DEF Mine, Poll, TypeOK
  <2>0. PICK i \in RequestId : i = slot.id
    BY <2>1 DEF Request
  <2>2. Standing(i) = [at |-> "Approved", origin |-> OriginOf[t]]
    BY <1>3, <2>0, <2>1 DEF StandingCases, InSlot
  <2>3. HeldBy(t, i)'
    <3>1. call[t] \in [at : {"slot", "token"}, id : RequestId \cup {None}]
      BY <1>1 DEF TypeOK, Idle
    <3>2. call'[t] = [call[t] EXCEPT !.at = "token"]
      BY <1>1, <1>3 DEF Poll, PollEnds, TypeOK
    <3> QED
      BY <2>0, <2>1, <3>1, <3>2 DEF HeldBy
  <2>4. Standing(i)' = Standing(i)
    BY <2>2, <2>3 DEF StandingCases
  <2>5. ASSUME NEW id \in RequestId, id # i PROVE Standing(id)' = Standing(id)
    <3>1. ~InSlot(id) /\ ~InSlot(id)'
      BY <2>0, <2>1, <2>5 DEF InSlot
    <3>2. ~HeldBy(t, id) /\ ~HeldBy(t, id)'
      <4>1. call'[t].id = call[t].id
        BY <2>3, <2>0, <2>1 DEF HeldBy
      <4> QED
        BY <1>1, <2>0, <2>1, <2>5, <4>1 DEF HeldBy
    <3>3. \A u \in Tabs : HeldBy(u, id)' <=> HeldBy(u, id)
      BY <1>2, <3>2
    <3> QED
      BY <1>1, <3>1, <3>3, StandsStill
  <2> QED
    BY <1>1, <2>4, <2>5, Stutters
<1>4. CASE Told
  <2>1. slot \in Request /\ slot' = NoRequest
    BY <1>1, <1>4 DEF Poll, TypeOK
  <2>0. PICK i \in RequestId : i = slot.id
    BY <2>1 DEF Request
  <2>2. Standing(i).at = "Denied" /\ InSlot(i)
    BY <1>4, <2>0 DEF StandingCases, InSlot
  <2>3. \A u \in Tabs, id \in RequestId : HeldBy(u, id)' <=> HeldBy(u, id)
    BY <1>2, <1>4
  <2>4. Standing(i)' = [at |-> "Over"]
    <3>1. i <= created' /\ ~InSlot(i)' /\ \A u \in Tabs : ~HeldBy(u, i)
      BY <1>1, <2>0, <2>1, <2>2 DEF InSlot, HeldBy, IInv, IdInv, TokenInv
    <3> QED
      BY <2>3, <3>1 DEF StandingCases
  <2>5. ASSUME NEW id \in RequestId, id # i PROVE Standing(id)' = Standing(id)
    <3>1. ~InSlot(id) /\ ~InSlot(id)'
      BY <2>0, <2>1, <2>5 DEF InSlot
    <3> QED
      BY <1>1, <2>3, <3>1, StandsStill
  <2> QED
    BY <1>1, <2>2, <2>4, <2>5, Lapses
<1>5. CASE ~Taken /\ ~Told
  <2>1. slot' = slot \/ (slot' = NoRequest /\ slot.expired)
    <3>1. slot # NoRequest => slot.verdict \in {"Pending", "Approved", "Denied"}
      BY <1>1 DEF TypeOK, Request, Verdict
    <3> QED
      BY <1>5, <3>1 DEF Poll
  <2>2. \A id \in RequestId : (InSlot(id)' <=> InSlot(id)) /\ (InSlot(id) => slot' = slot)
    BY <2>1 DEF InSlot
  <2>3. \A u \in Tabs, id \in RequestId : HeldBy(u, id)' <=> HeldBy(u, id)
    BY <1>2, <1>5
  <2>4. \A id \in RequestId : Standing(id)' = Standing(id)
    BY <1>1, <2>2, <2>3, StandsStill
  <2> QED
    BY <1>1, <2>4, Stutters
<1> QED
  <2>1. slot # NoRequest => slot.verdict \in {"Pending", "Approved", "Denied"}
    BY <1>1 DEF TypeOK, Request, Verdict
  <2> QED
    BY <1>3, <1>4, <1>5

\* A token is given for an approved request, to who made it.
LEMMA ReleaseGives ==
    ASSUME IInv, IInv', StandingCases, StandingCases', NEW t \in Tabs, Release(t)
    PROVE  GStep
<1>1. /\ TypeOK /\ call[t].at = "token" /\ UNCHANGED <<slot, created, consent, vouched>>
      /\ call' = [call EXCEPT ![t] = Idle] /\ released' = Append(released, <<call[t].id, t>>)
  BY DEF IInv, Release
<1>2. /\ call[t].id \in RequestId /\ call[t].id <= created
      /\ \A u \in Tabs : call[u].at = "token" /\ call[u].id = call[t].id => u = t
      /\ slot # NoRequest => slot.id # call[t].id
  <2>1. /\ TokenInv /\ IdInv /\ call[t] # Idle
    BY <1>1 DEF IInv, Idle
  <2>2. call[t].id <= created
    BY <2>1 DEF IdInv
  <2> QED
    BY <1>1, <2>1, <2>2 DEF TokenInv
<1>3. PICK i \in RequestId : i = call[t].id
  BY <1>2
<1>4. Standing(i) = [at |-> "Approved", origin |-> OriginOf[t]]
  BY <1>1, <1>3 DEF StandingCases, HeldBy
<1>5. ASSUME NEW u \in Tabs, NEW id \in RequestId
      PROVE  /\ id = i => ~HeldBy(u, id)'
             /\ id # i => (HeldBy(u, id)' <=> HeldBy(u, id))
  BY <1>1, <1>2, <1>3 DEF HeldBy, TypeOK, Idle
<1>6. Standing(i)' = [at |-> "Over"]
  <2>1. i <= created' /\ ~InSlot(i)'
    BY <1>1, <1>2, <1>3 DEF InSlot
  <2> QED
    BY <1>5, <2>1 DEF StandingCases
<1>7. ASSUME NEW id \in RequestId, id # i PROVE Standing(id)' = Standing(id)
  <2>1. \A u \in Tabs : HeldBy(u, id)' <=> HeldBy(u, id)
    BY <1>5, <1>7
  <2>2. (InSlot(id)' <=> InSlot(id)) /\ slot' = slot /\ created' = created
    BY <1>1 DEF InSlot
  <2> QED
    BY <1>1, <2>1, <2>2, StandsStill
<1>8. GRequest' = [GRequest EXCEPT ![i] = [at |-> "Over"]]
  BY <1>6, <1>7 DEF GRequest
<1>9. GTokens' = Append(GTokens, <<i, OriginOf[t]>>)
  <2> DEFINE P == RequestId \X Origins
             n == Len(released)
             g == GTokens'
  <2>1. /\ n \in Nat /\ DOMAIN released = 1 .. n /\ DOMAIN released' = 1 .. (n + 1)
        /\ released' \in Seq(RequestId \X Tabs) /\ released \in Seq(RequestId \X Tabs)
        /\ \A a \in 1 .. n : released'[a] = released[a]
        /\ released'[n + 1] = <<i, t>>
    <3>1. released \in Seq(RequestId \X Tabs) /\ <<i, t>> \in RequestId \X Tabs
          /\ released' = Append(released, <<i, t>>)
      BY <1>1, <1>3 DEF TypeOK
    <3> QED
      BY <3>1, AppendProperties
  <2>2. GTokens \in Seq(P) /\ Len(GTokens) = n
    <3>1. \A a \in 1 .. n : <<released[a][1], OriginOf[released[a][2]]>> \in P
      BY <2>1, TabsAssumption
    <3> QED
      BY <2>1, <3>1 DEF GTokens
  <2>3. /\ Append(GTokens, <<i, OriginOf[t]>>) \in Seq(P)
        /\ Len(Append(GTokens, <<i, OriginOf[t]>>)) = n + 1
        /\ \A a \in 1 .. n : Append(GTokens, <<i, OriginOf[t]>>)[a] = GTokens[a]
        /\ Append(GTokens, <<i, OriginOf[t]>>)[n + 1] = <<i, OriginOf[t]>>
    <3>1. <<i, OriginOf[t]>> \in P
      BY TabsAssumption
    <3> QED
      BY <2>2, <3>1, AppendProperties
  <2>4. g = [a \in 1 .. (n + 1) |-> <<released'[a][1], OriginOf[released'[a][2]]>>]
    BY <2>1 DEF GTokens
  <2>5. g \in Seq(P) /\ Len(g) = n + 1
    <3>1. \A a \in 1 .. (n + 1) : <<released'[a][1], OriginOf[released'[a][2]]>> \in P
      BY <2>1, TabsAssumption
    <3> QED
      BY <2>1, <2>4, <3>1
  <2>6. ASSUME NEW a \in 1 .. (n + 1) PROVE g[a] = Append(GTokens, <<i, OriginOf[t]>>)[a]
    <3>1. CASE a \in 1 .. n
      BY <2>1, <2>3, <2>4, <3>1 DEF GTokens
    <3>2. CASE a = n + 1
      BY <2>1, <2>3, <2>4, <3>2
    <3>3. n \in Nat
      BY <2>1
    <3>4. a \in 1 .. n \/ a = n + 1
      BY <3>3
    <3> QED
      BY <3>1, <3>2, <3>4
  <2> QED
    BY <2>3, <2>5, <2>6, SeqEqual
<1>10. Grant!Give(i)
  <2>1. GRequest[i] = [at |-> "Approved", origin |-> OriginOf[t]]
    BY <1>4 DEF GRequest
  <2>2. GRequest[i].at = "Approved" /\ GTokens' = Append(GTokens, <<i, GRequest[i].origin>>)
    BY <1>9, <2>1
  <2> QED
    BY <1>1, <1>8, <2>2 DEF Grant!Give, Grant!Over, GRequest, GTokens
<1> QED
  BY <1>10 DEF GStep, Grant!Next

\* A call dropped before its answer costs an approval; any other costs nothing.
LEMMA AbandonLapses ==
    ASSUME IInv, IInv', StandingCases, StandingCases', NEW t \in Tabs, Abandon(t)
    PROVE  GStep
<1>1. /\ TypeOK /\ UNCHANGED <<slot, created, consent, released, vouched>>
      /\ call' = [call EXCEPT ![t] = Idle] /\ call[t] # Idle
  BY DEF IInv, Abandon
<1>2. \A id \in RequestId : (InSlot(id)' <=> InSlot(id)) /\ slot' = slot /\ created' = created
  BY <1>1 DEF InSlot
<1>3. CASE call[t].at # "token"
  <2>1. \A u \in Tabs, id \in RequestId : HeldBy(u, id)' <=> HeldBy(u, id)
    BY <1>1, <1>3 DEF HeldBy, TypeOK, Idle
  <2>2. \A id \in RequestId : Standing(id)' = Standing(id)
    BY <1>1, <1>2, <2>1, StandsStill
  <2> QED
    BY <1>1, <2>2, Stutters
<1>4. CASE call[t].at = "token"
  <2>1. /\ call[t].id \in RequestId /\ call[t].id <= created
        /\ \A u \in Tabs : call[u].at = "token" /\ call[u].id = call[t].id => u = t
        /\ slot # NoRequest => slot.id # call[t].id
    BY <1>1, <1>4 DEF IInv, IdInv, TokenInv
  <2>2. PICK i \in RequestId : i = call[t].id
    BY <2>1
  <2>3. Standing(i).at = "Approved"
    BY <1>4, <2>2 DEF StandingCases, HeldBy
  <2>4. ASSUME NEW u \in Tabs, NEW id \in RequestId
        PROVE  /\ id = i => ~HeldBy(u, id)'
               /\ id # i => (HeldBy(u, id)' <=> HeldBy(u, id))
    BY <1>1, <2>1, <2>2 DEF HeldBy, TypeOK, Idle
  <2>5. Standing(i)' = [at |-> "Over"]
    <3>1. i <= created' /\ ~InSlot(i)'
      BY <1>1, <2>1, <2>2 DEF InSlot
    <3> QED
      BY <2>4, <3>1 DEF StandingCases
  <2>6. ASSUME NEW id \in RequestId, id # i PROVE Standing(id)' = Standing(id)
    <3>1. \A u \in Tabs : HeldBy(u, id)' <=> HeldBy(u, id)
      BY <2>4, <2>6
    <3> QED
      BY <1>1, <1>2, <3>1, StandsStill
  <2> QED
    BY <1>1, <2>3, <2>5, <2>6, Lapses
<1> QED
  BY <1>3, <1>4

\* Whatever the slot held, PAIRING_TTL ends it.
LEMMA ExpireLapses ==
    ASSUME IInv, IInv', StandingCases, StandingCases', Expire
    PROVE  GStep
<1>1. /\ TypeOK /\ slot \in Request /\ ~slot.expired /\ slot # NoRequest
      /\ UNCHANGED <<created, call, consent, released, vouched>>
      /\ slot' = [slot EXCEPT !.expired = TRUE]
  BY DEF IInv, TypeOK, Expire
<1>2. PICK i \in RequestId : i = slot.id
  BY <1>1 DEF Request
<1>3. slot' # NoRequest /\ slot'.id = i /\ slot'.expired
  BY <1>1, <1>2 DEF Request, NoRequest
<1>4. \A u \in Tabs, id \in RequestId : HeldBy(u, id)' <=> HeldBy(u, id)
  BY <1>1 DEF HeldBy
<1>5. Standing(i).at \in {"Pending", "Approved", "Denied"}
  BY <1>1, <1>2 DEF StandingCases, InSlot, Request, Verdict
<1>6. Standing(i)' = [at |-> "Over"]
  <2>1. \A u \in Tabs : ~HeldBy(u, i)'
    BY <1>1, <1>2, <1>4 DEF HeldBy, IInv, TokenInv
  <2>2. i <= created' /\ ~InSlot(i)'
    BY <1>1, <1>2, <1>3 DEF IInv, IdInv, InSlot
  <2> QED
    BY <2>1, <2>2 DEF StandingCases
<1>7. ASSUME NEW id \in RequestId, id # i PROVE Standing(id)' = Standing(id)
  <2>1. ~InSlot(id) /\ ~InSlot(id)'
    BY <1>2, <1>3, <1>7 DEF InSlot
  <2> QED
    BY <1>1, <1>4, <2>1, StandsStill
<1> QED
  BY <1>1, <1>5, <1>6, <1>7, Lapses

\* Stale or not, the banner names who made the request.
LEMMA ClickSays ==
    ASSUME IInv, StandingCases, StandingCases', NEW approve \in BOOLEAN, Click(approve)
    PROVE  GStep
<1>1. /\ TypeOK /\ banner \in View /\ UNCHANGED <<slot, created, call, released, vouched>>
      /\ consent' = consent \cup {[id |-> banner.id, origin |-> banner.origin,
                                   approve |-> approve]}
  BY DEF IInv, TypeOK, Click
<1>2. PICK i \in RequestId : i = banner.id
  BY <1>1 DEF View
<1>3. PICK o \in Origins : o = banner.origin
  BY <1>1 DEF View
<1>4. \A id \in RequestId : Standing(id)' = Standing(id)
  <2>1. \A u \in Tabs, id \in RequestId : HeldBy(u, id)' <=> HeldBy(u, id)
    BY <1>1 DEF HeldBy
  <2>2. \A id \in RequestId : (InSlot(id)' <=> InSlot(id)) /\ slot' = slot
    BY <1>1 DEF InSlot
  <2> QED
    BY <1>1, <2>1, <2>2, StandsStill
<1>5. GRequest' = GRequest /\ GTokens' = GTokens
  BY <1>1, <1>4 DEF GRequest, GTokens
<1>6. i <= created /\ Named(i, o)
  <2>1. banner = [id |-> i, origin |-> o]
    BY <1>1, <1>2, <1>3 DEF View
  <2> QED
    BY <1>2, <2>1 DEF IInv, IdInv, Named
<1>7. Standing(i).at # "Unasked" /\ (Standing(i).at # "Over" => o = Standing(i).origin)
  <2>1. CASE InSlot(i)
    <3>1. Standing(i) = [at |-> slot.verdict, origin |-> slot.origin] /\ slot \in Request
      BY <1>1, <2>1 DEF StandingCases, InSlot, TypeOK
    <3>2. Named(i, slot.origin) /\ slot.origin \in Origins
      BY <2>1, <3>1 DEF Named, InSlot, Request
    <3>3. o = slot.origin
      BY <1>6, <3>2 DEF IInv, NamesAgree
    <3> QED
      BY <3>1, <3>3 DEF Request, Verdict
  <2>2. ASSUME NEW t \in Tabs, HeldBy(t, i)
        PROVE  Standing(i).at = "Approved" /\ o = Standing(i).origin
    <3>1. Named(i, OriginOf[t]) /\ OriginOf[t] \in Origins
      <4>1. AnsweredBy(Holding, i, OriginOf[t], TRUE) /\ OriginOf[t] \in Origins
        BY <2>2, TabsAssumption DEF IInv, TokenInv, HeldBy
      <4> QED
        BY <1>1, <4>1, AnswersName
    <3>2. o = OriginOf[t]
      BY <1>6, <3>1 DEF IInv, NamesAgree
    <3> QED
      BY <2>2, <3>2 DEF StandingCases
  <2>3. CASE ~InSlot(i) /\ \A t \in Tabs : ~HeldBy(t, i)
    BY <1>6, <2>3 DEF StandingCases
  <2> QED
    BY <2>1, <2>2, <2>3
<1>8. GRequest[i] = Standing(i)
  BY DEF GRequest
<1>9. Grant!Say(i, o, approve)
  <2>1. GRequest[i].at # "Unasked" /\ (GRequest[i].at # "Over" => o = GRequest[i].origin)
    BY <1>7, <1>8
  <2>2. consent' = consent \cup {[id |-> i, origin |-> o, approve |-> approve]}
    BY <1>1, <1>2, <1>3
  <2> QED
    BY <1>1, <1>5, <2>1, <2>2 DEF Grant!Say, Grant!Open, Grant!Answered, GRequest, GTokens
<1> QED
  BY <1>9 DEF GStep, Grant!Next

\* The answer decides the request that the user was asked about, or nothing.
LEMMA RespondDecides ==
    ASSUME IInv, StandingCases, StandingCases', Respond
    PROVE  GStep
<1>1. /\ TypeOK /\ answer \in [id : RequestId, approve : BOOLEAN] /\ answer # NoRequest
      /\ UNCHANGED <<created, call, consent, released, vouched>>
  BY DEF IInv, TypeOK, Respond
<1>2. \A u \in Tabs, id \in RequestId : HeldBy(u, id)' <=> HeldBy(u, id)
  BY <1>1 DEF HeldBy
<1>3. CASE ~Answerable
  <2>1. slot' = slot
    BY <1>3 DEF Respond
  <2>2. \A id \in RequestId : Standing(id)' = Standing(id)
    BY <1>1, <1>2, <2>1, StandsStill DEF InSlot
  <2> QED
    BY <1>1, <2>2, Stutters
<1>4. CASE Answerable
  <2>0. PICK i \in RequestId, approve \in BOOLEAN : i = answer.id /\ approve = answer.approve
    BY <1>1
  <2> DEFINE verdict == IF approve THEN "Approved" ELSE "Denied"
  <2>1. /\ slot \in Request /\ slot # NoRequest /\ slot.id = i /\ slot.verdict = "Pending"
        /\ ~slot.expired /\ slot' = [slot EXCEPT !.verdict = verdict]
    BY <1>1, <1>4, <2>0 DEF Answerable, Live, Respond, Decided, TypeOK
  <2>2. /\ slot' # NoRequest /\ slot'.id = i /\ ~slot'.expired /\ slot'.verdict = verdict
        /\ slot'.origin = slot.origin
    BY <2>1 DEF Request, NoRequest
  <2>3. /\ Standing(i) = [at |-> "Pending", origin |-> slot.origin]
        /\ Standing(i)' = [at |-> verdict, origin |-> slot.origin]
    <3>1. InSlot(i) /\ InSlot(i)'
      BY <2>1, <2>2 DEF InSlot
    <3> QED
      BY <2>1, <2>2, <3>1 DEF StandingCases
  <2>4. ASSUME NEW id \in RequestId, id # i PROVE Standing(id)' = Standing(id)
    <3>1. ~InSlot(id) /\ ~InSlot(id)'
      BY <2>1, <2>2, <2>4 DEF InSlot
    <3> QED
      BY <1>1, <1>2, <3>1, StandsStill
  <2> HIDE DEF verdict
  <2>5. GRequest' = [GRequest EXCEPT ![i].at = verdict] /\ GTokens' = GTokens
    <3>1. GRequest' = [GRequest EXCEPT ![i] = [at |-> verdict, origin |-> slot.origin]]
      BY <2>3, <2>4 DEF GRequest
    <3>2. GRequest[i] = [at |-> "Pending", origin |-> slot.origin]
      BY <2>3 DEF GRequest
    <3>3. [GRequest[i] EXCEPT !.at = verdict] = [at |-> verdict, origin |-> slot.origin]
      BY <3>2
    <3>4. GTokens' = GTokens
      BY <1>1 DEF GTokens
    <3> QED
      BY <3>1, <3>3, <3>4
  <2>6. GRequest[i].at = "Pending" /\ GRequest[i].origin = slot.origin
    BY <2>3 DEF GRequest
  <2>7. [id |-> i, origin |-> slot.origin, approve |-> approve] \in consent
    <3>1. PICK o \in Origins : [id |-> i, origin |-> o, approve |-> approve] \in consent
      BY <1>1, <2>0 DEF IInv, ClickInv
    <3>2. Named(i, o) /\ Named(i, slot.origin) /\ slot.origin \in Origins
      BY <2>1, <3>1 DEF Named, Request
    <3>3. o = slot.origin
      BY <3>2 DEF IInv, NamesAgree
    <3> QED
      BY <3>1, <3>3
  <2>8. Grant!Decide(i, approve)
    BY <1>1, <2>5, <2>6, <2>7 DEF Grant!Decide, GRequest, GTokens, verdict
  <2> QED
    BY <2>8 DEF GStep, Grant!Next
<1> QED
  BY <1>3, <1>4

\* A page with the token decides the live request, on its own word.
LEMMA PageVouches ==
    ASSUME IInv, StandingCases, StandingCases', NEW t \in Tabs, NEW approve \in BOOLEAN,
           RespondAsPage(t, approve)
    PROVE  GStep
<1> DEFINE verdict == IF approve THEN "Approved" ELSE "Denied"
<1>1. /\ TypeOK /\ UNCHANGED <<created, call, consent, released>>
      /\ slot \in Request /\ slot # NoRequest /\ slot.verdict = "Pending" /\ ~slot.expired
      /\ slot' = [slot EXCEPT !.verdict = verdict]
      /\ vouched' = vouched \cup {[id |-> slot.id, origin |-> slot.origin,
                                   approve |-> approve, by |-> OriginOf[t]]}
  BY DEF IInv, TypeOK, RespondAsPage, Live, Decided
<1>2. \A u \in Tabs, id \in RequestId : HeldBy(u, id)' <=> HeldBy(u, id)
  BY <1>1 DEF HeldBy
<1>3. PICK i \in RequestId : i = slot.id
  BY <1>1 DEF Request
<1>4. /\ slot' # NoRequest /\ slot'.id = i /\ ~slot'.expired /\ slot'.verdict = verdict
      /\ slot'.origin = slot.origin
  BY <1>1, <1>3 DEF Request, NoRequest
<1>5. /\ Standing(i) = [at |-> "Pending", origin |-> slot.origin]
      /\ Standing(i)' = [at |-> verdict, origin |-> slot.origin]
  <2>1. InSlot(i) /\ InSlot(i)'
    BY <1>1, <1>3, <1>4 DEF InSlot
  <2> QED
    BY <1>1, <1>4, <2>1 DEF StandingCases
<1>6. ASSUME NEW id \in RequestId, id # i PROVE Standing(id)' = Standing(id)
  <2>1. ~InSlot(id) /\ ~InSlot(id)'
    BY <1>1, <1>3, <1>4, <1>6 DEF InSlot
  <2> QED
    BY <1>1, <1>2, <2>1, StandsStill
<1> HIDE DEF verdict
<1>7. GRequest' = [GRequest EXCEPT ![i].at = verdict] /\ GTokens' = GTokens
  <2>1. GRequest' = [GRequest EXCEPT ![i] = [at |-> verdict, origin |-> slot.origin]]
    BY <1>5, <1>6 DEF GRequest
  <2>2. GRequest[i] = [at |-> "Pending", origin |-> slot.origin]
    BY <1>5 DEF GRequest
  <2>3. [GRequest[i] EXCEPT !.at = verdict] = [at |-> verdict, origin |-> slot.origin]
    BY <2>2
  <2>4. GTokens' = GTokens
    BY <1>1 DEF GTokens
  <2> QED
    BY <2>1, <2>3, <2>4
<1>8. GRequest[i].at = "Pending" /\ GRequest[i].origin = slot.origin
  BY <1>5 DEF GRequest
<1>9. OriginOf[t] \in Grant!Holders /\ OriginOf[t] \in Origins
  <2>1. OriginOf[t] \in Paired \/ \E a \in DOMAIN released : OriginOf[t] = OriginOf[released[a][2]]
    BY DEF RespondAsPage, Holding
  <2>2. \A a \in DOMAIN released : a \in DOMAIN GTokens /\ GTokens[a][2] = OriginOf[released[a][2]]
    BY DEF GTokens
  <2> QED
    BY <2>1, <2>2, TabsAssumption DEF Grant!Holders, GTokens
<1>10. Grant!Vouch(i, OriginOf[t], approve)
  BY <1>1, <1>3, <1>7, <1>8, <1>9 DEF Grant!Vouch, GRequest, GTokens, verdict
<1> QED
  BY <1>9, <1>10 DEF GStep, Grant!Next

\* Every step of pairing is a step of PairingGrant, or none.
LEMMA GrantStep == IInv /\ IInv' /\ [Next]_vars => GStep
<1>1. IInv' => StandingCases'
  BY StandingKnown, PTL
<1> SUFFICES ASSUME IInv, IInv', [Next]_vars PROVE GStep
  OBVIOUS
<1>2. StandingCases /\ StandingCases'
  BY <1>1, StandingKnown
<1>3. ASSUME NEW t \in Tabs, Begin(t) \/ Poll(t) \/ Release(t) \/ Abandon(t) PROVE GStep
  BY <1>2, <1>3, BeginAsks, PollKeepsPromise, ReleaseGives, AbandonLapses
<1>4. CASE Expire
  BY <1>2, <1>4, ExpireLapses
<1>5. CASE Respond
  BY <1>2, <1>5, RespondDecides
<1>6. ASSUME NEW approve \in BOOLEAN, Click(approve) PROVE GStep
  BY <1>2, <1>6, ClickSays
<1>7. ASSUME NEW t \in Tabs, NEW approve \in BOOLEAN, RespondAsPage(t, approve) PROVE GStep
  BY <1>2, <1>7, PageVouches
<1>8. CASE \/ \E t \in Tabs, id \in RequestId \cup {None} : Call(t, id)
           \/ \E origins \in SUBSET Origins : SetAllowed(origins)
           \/ BannerFetch \/ \E view \in fetched : BannerShow(view)
           \/ UNCHANGED vars
  BY <1>2, <1>8, QuietSteps
<1> QED
  BY <1>3, <1>4, <1>5, <1>6, <1>7, <1>8 DEF Next

\* Pairing does what PairingGrant promises: the asker of a request that
\* the user, or a holder of the token, approved, and nobody else, gets it, once.
THEOREM PairingGrantKept == Spec => ImplementsGrant
<1>1. IInv /\ IInv' /\ [Next]_vars => [Grant!Next]_(Grant!vars)
  BY GrantStep DEF GStep
<1> QED
  BY <1>1, GrantInit, Inductive, PTL DEF Spec, ImplementsGrant, Grant!Spec
=============================================================================
