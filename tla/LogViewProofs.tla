---------------------------- MODULE LogViewProofs ----------------------------
(***************************************************************************)
(* What the log page shows and misses, for every size of the ring and the  *)
(* page and every number of polls and pushes.                              *)
(***************************************************************************)
EXTENDS LogView, FiniteSetTheorems, SequenceTheorems, WellFoundedInduction, TLAPS

Answers(p) == poll[p].at \in {"read", "answered"}

\* No two elements of a sequence are equal.
Distinct(s) == \A i, j \in DOMAIN s : s[i] = s[j] => i = j

\* What follows an element the ring r holds is in the ring, behind it.
Follows(r, s) ==
    \A i, j \in DOMAIN s, a \in DOMAIN r :
        i < j /\ s[i] = r[a] => \E b \in DOMAIN r : a < b /\ r[b] = s[j]

\* What the ring r holds before an element of s has a number up to n.
Past(r, s, n) ==
    \A i \in DOMAIN s, a, b \in DOMAIN r : b < a /\ r[a] = s[i] => r[b] <= n

\* A number that is being pushed was nowhere stored, sent or shown.
RingInv ==
    /\ Distinct(entries) /\ Of(entries) \cap pushing = {}
    /\ Of(shown) \cap pushing = {}
    /\ \A p \in Polls : Answers(p) => Of(poll[p].entries) \cap pushing = {}
    /\ \A p \in Polls : poll[p].at = "read" =>
          pushing \cup {n \in Entry : n > seq} \subseteq poll[p].unstored

\* As long as the polls take turns, at most one is under way;
OnePoll == \A p, q \in Polls : poll[p] # Idle /\ poll[q] # Idle => p = q

\* the page shows the ring's entries in order and without repetition, and what it
\* has gone past it shows, or it was overrun;
PageInv ==
    /\ Distinct(shown) /\ Follows(entries, shown) /\ Past(entries, shown, lastSeq)
    /\ \A i \in DOMAIN shown : shown[i] <= lastSeq
    /\ \A n \in pushing : n <= lastSeq => n \in overrun
    /\ \A n \in Of(entries) : n <= lastSeq => n \in Of(shown) \cup overrun

\* the poll asks after what the page has, and what its answer holds comes after
\* that.
AskedInv(p) == poll[p].at = "asked" => poll[p].after = lastSeq

AnswerInv(p) ==
    Answers(p) =>
        /\ Distinct(poll[p].entries) /\ Follows(entries, shown \o poll[p].entries)
        /\ \A i \in DOMAIN poll[p].entries : poll[p].entries[i] > lastSeq

ReadInv(p) ==
    poll[p].at = "read" =>
        \A n \in Of(entries) : n > lastSeq => n \in Of(poll[p].entries) \cup poll[p].unstored

AnsweredInv(p) ==
    poll[p].at = "answered" =>
        /\ lastSeq <= poll[p].lastSeq /\ Past(entries, poll[p].entries, poll[p].lastSeq)
        /\ \A i \in DOMAIN poll[p].entries : poll[p].entries[i] <= poll[p].lastSeq
        /\ poll[p].entries # <<>> =>
              \A n \in pushing \cup Of(entries) : lastSeq < n /\ n <= poll[p].lastSeq =>
                  n \in Of(poll[p].entries) \cup overrun

TurnsInv ==
    /\ OnePoll /\ PageInv
    /\ \A p \in Polls : AskedInv(p) /\ AnswerInv(p) /\ ReadInv(p) /\ AnsweredInv(p)

IInv == TypeOK /\ RingInv /\ (~overlapped => TurnsInv)

-----------------------------------------------------------------------------
(* Counting: the a-th of a set of positions.                               *)

\* A non-empty set of naturals has a least element.
LEMMA Least ==
    ASSUME NEW T, T \subseteq Nat, T # {}
    PROVE  \E m \in T : \A k \in T : m <= k
<1>1. PICK m \in T : \A k \in T : <<k, m>> \notin OpToRel(<, Nat)
  BY WFMin, NatLessThanWellFounded, Zenon
<1>2. ASSUME NEW k \in T PROVE m <= k
  <2>1. k \in Nat /\ m \in Nat
    OBVIOUS
  <2>2. ~(k < m)
    BY <1>1, <2>1, Zenon DEF OpToRel
  <2> QED
    BY <2>1, <2>2
<1> QED
  BY <1>2

\* The positions of S up to i are finitely many, and one more at each of them.
LEMMA UpTo ==
    ASSUME NEW L \in Nat, NEW S \in SUBSET (1 .. L), NEW i \in 0 .. L
    PROVE  /\ CountUpTo(S, i) \in Nat
           /\ i = 0 => CountUpTo(S, i) = 0
           /\ i # 0 => CountUpTo(S, i) =
                  IF i \in S THEN CountUpTo(S, i - 1) + 1
                  ELSE CountUpTo(S, i - 1)
           /\ i = L => CountUpTo(S, i) = Cardinality(S)
<1>1. IsFiniteSet(S) /\ \A k \in S : k \in 1 .. L
  <2>1. IsFiniteSet(1 .. L)
    BY FS_Interval
  <2> QED
    BY <2>1, FS_Subset
<1>2. IsFiniteSet({k \in S : k <= i}) /\ IsFiniteSet({k \in S : k <= i - 1})
  <2>1. {k \in S : k <= i} \in SUBSET S /\ {k \in S : k <= i - 1} \in SUBSET S
    OBVIOUS
  <2> QED
    BY <1>1, <2>1, FS_Subset
<1>3. i = 0 => {k \in S : k <= i} = {}
  <2>1. \A k \in S : ~(k <= 0)
    BY <1>1
  <2> QED
    BY <2>1
<1>4. i # 0 => {k \in S : k <= i} = IF i \in S THEN {k \in S : k <= i - 1} \cup {i}
                                    ELSE {k \in S : k <= i - 1}
  <2>1. \A k \in S : k \in Int /\ (k <= i <=> k <= i - 1 \/ k = i)
    OBVIOUS
  <2>2. CASE i \in S
    BY <2>1, <2>2
  <2>3. CASE i \notin S
    BY <2>1, <2>3
  <2> QED
    BY <2>2, <2>3
<1>5. i \notin {k \in S : k <= i - 1}
  OBVIOUS
<1>6. i = L => {k \in S : k <= i} = S
  <2>1. \A k \in S : k <= L
    BY <1>1
  <2> QED
    BY <2>1
<1> QED
  BY <1>2, <1>3, <1>4, <1>5, <1>6, FS_CardinalityType, FS_EmptySet, FS_AddElement DEF CountUpTo

\* Nth(S, a) is the position of S with a of them up to it, and every position of S
\* is one of these.
LEMMA NthPosition ==
    ASSUME NEW L \in Nat, NEW S \in SUBSET (1 .. L)
    PROVE  /\ Cardinality(S) \in Nat
           /\ \A a \in 1 .. Cardinality(S) :
                 Nth(S, a) \in S /\ CountUpTo(S, Nth(S, a)) = a
           /\ \A i, j \in S : i < j => CountUpTo(S, i) < CountUpTo(S, j)
           /\ \A i \in S : CountUpTo(S, i) \in 1 .. Cardinality(S)
<1> DEFINE c == [i \in 0 .. L |-> CountUpTo(S, i)]
<1>1. c \in [0 .. L -> Nat] /\ c[0] = 0 /\ c[L] = Cardinality(S)
  <2>1. \A i \in 0 .. L : CountUpTo(S, i) \in Nat
    BY UpTo
  <2>2. 0 \in 0 .. L /\ L \in 0 .. L
    OBVIOUS
  <2>3. CountUpTo(S, 0) = 0
    BY <2>2, UpTo
  <2>4. CountUpTo(S, L) = Cardinality(S)
    BY <2>2, UpTo
  <2> QED
    BY <2>1, <2>2, <2>3, <2>4
<1>2. ASSUME NEW i \in 1 .. L
      PROVE  (i \in S => c[i] = c[i - 1] + 1) /\ (i \notin S => c[i] = c[i - 1])
  <2>1. i \in 0 .. L /\ i - 1 \in 0 .. L /\ i # 0
    OBVIOUS
  <2>2. c[i] = CountUpTo(S, i) /\ c[i - 1] = CountUpTo(S, i - 1)
    BY <2>1
  <2> HIDE DEF c
  <2> QED
    BY <2>1, <2>2, UpTo
<1>4. ASSUME NEW i \in S
      PROVE  c[i] = CountUpTo(S, i) /\ i \in 1 .. L /\ c[i - 1] \in Nat
  <2>1. i \in 1 .. L /\ i \in 0 .. L /\ i - 1 \in 0 .. L
    OBVIOUS
  <2>2. c[i] = CountUpTo(S, i)
    BY <2>1
  <2> HIDE DEF c
  <2> QED
    BY <1>1, <2>1, <2>2
<1> HIDE DEF c
<1>5. ASSUME NEW a \in 1 .. Cardinality(S) PROVE \E i \in S : c[i] = a
  <2> DEFINE T == {i \in 0 .. L : a <= c[i]}
  <2>1. L \in T /\ T \subseteq Nat
    BY <1>1
  <2>2. PICK i \in T : \A k \in T : i <= k
    BY <2>1, Least
  <2>3. i \in 1 .. L
    BY <1>1, <2>2
  <2>4. i - 1 \in 0 .. L /\ i - 1 \notin T
    BY <2>2, <2>3
  <2>5. c[i - 1] < a /\ c[i] \in Nat /\ c[i - 1] \in Nat /\ a <= c[i]
    BY <1>1, <2>3, <2>4
  <2>6. i \in S /\ c[i] = a
    BY <1>2, <2>3, <2>5
  <2> QED
    BY <2>6
<1>6. ASSUME NEW i \in 0 .. L, NEW j \in 0 .. L, i <= j PROVE c[i] <= c[j]
  <2> SUFFICES ASSUME c[j] < c[i] PROVE FALSE
    BY <1>1
  <2> DEFINE T == {k \in i .. L : c[k] < c[i]}
  <2>1. j \in T /\ T \subseteq Nat
    BY <1>6
  <2>2. PICK k \in T : \A m \in T : k <= m
    BY <2>1, Least
  <2>3. k \in 1 .. L /\ k - 1 \in i .. L /\ k - 1 \notin T
    BY <1>1, <2>2
  <2>4. c[k - 1] >= c[i] /\ c[k] < c[i] /\ c[k - 1] \in Nat /\ c[k] \in Nat /\ c[i] \in Nat
    BY <1>1, <2>2, <2>3
  <2>5. c[k] = c[k - 1] + 1 \/ c[k] = c[k - 1]
    BY <1>2, <2>3
  <2> QED
    BY <2>4, <2>5
<1>7. ASSUME NEW i \in S, NEW j \in S, i < j PROVE c[i] < c[j]
  <2>1. i \in 0 .. L /\ j - 1 \in 0 .. L /\ i <= j - 1 /\ j \in 1 .. L
    BY <1>7
  <2>2. c[i] <= c[j - 1] /\ c[j] = c[j - 1] + 1
    BY <1>2, <1>6, <2>1
  <2> QED
    BY <1>1, <2>1, <2>2
<1>8. ASSUME NEW i \in S PROVE c[i] \in 1 .. Cardinality(S)
  <2>1. c[i] = c[i - 1] + 1 /\ c[i] <= c[L] /\ c[i] \in Nat
    BY <1>1, <1>2, <1>4, <1>6
  <2> QED
    BY <1>1, <1>4, <2>1
<1>9. ASSUME NEW a \in 1 .. Cardinality(S)
      PROVE  Nth(S, a) \in S /\ CountUpTo(S, Nth(S, a)) = a
  <2>1. \E i \in S : CountUpTo(S, i) = a
    BY <1>4, <1>5
  <2> QED
    BY <2>1 DEF Nth
<1> QED
  BY <1>1, <1>4, <1>7, <1>8, <1>9

-----------------------------------------------------------------------------
(* Sequences.                                                              *)

\* An answer holds what comes after n, in the ring's order.
LEMMA SinceInOrder ==
    ASSUME NEW T, T \subseteq Nat, entries \in Seq(T), NEW n \in Nat
    PROVE  /\ Since(n) \in Seq(T)
           /\ Of(Since(n)) = {e \in Of(entries) : e > n}
           /\ \A a, b \in DOMAIN Since(n) : a < b =>
                 \E i, j \in DOMAIN entries :
                     i < j /\ Since(n)[a] = entries[i] /\ Since(n)[b] = entries[j]
<1> DEFINE S == {i \in DOMAIN entries : entries[i] > n}
           L == Len(entries)
<1>1. L \in Nat /\ DOMAIN entries = 1 .. L /\ S \in SUBSET (1 .. L)
      /\ \A i \in S : entries[i] \in T /\ i \in Nat
  OBVIOUS
<1>2. Since(n) = [a \in 1 .. Cardinality(S) |-> entries[Nth(S, a)]]
  BY DEF Since, ListOf
<1>3. \A e : e \in Of(entries) /\ e > n <=> \E i \in S : e = entries[i]
  BY DEF Of
<1> HIDE DEF S, L
<1>4. Cardinality(S) \in Nat /\ \A a \in 1 .. Cardinality(S) :
          Nth(S, a) \in S /\ CountUpTo(S, Nth(S, a)) = a
  BY <1>1, NthPosition
<1>5. Since(n) \in Seq(T) /\ DOMAIN Since(n) = 1 .. Cardinality(S)
  <2>1. \A a \in 1 .. Cardinality(S) : entries[Nth(S, a)] \in T
    BY <1>1, <1>4
  <2>2. [a \in 1 .. Cardinality(S) |-> entries[Nth(S, a)]] \in Seq(T)
    BY <1>4, <2>1
  <2> QED
    BY <1>2, <2>2
<1>6. \A a \in DOMAIN Since(n) : Nth(S, a) \in S /\ Since(n)[a] = entries[Nth(S, a)]
  BY <1>2, <1>4, <1>5
<1>7. ASSUME NEW i \in S PROVE entries[i] \in Of(Since(n))
  <2> DEFINE a == CountUpTo(S, i)
             k == Nth(S, a)
  <2>1. a \in 1 .. Cardinality(S)
    BY <1>1, NthPosition
  <2>2. k \in S /\ CountUpTo(S, k) = a
    BY <1>4, <2>1
  <2>3. i \in Nat /\ k \in Nat
    BY <1>1, <2>2
  <2>4. ~(i < k) /\ ~(k < i)
    <3>1. CountUpTo(S, i) \in Nat
      BY <2>1
    <3>2. \A x, y \in S : x < y => CountUpTo(S, x) < CountUpTo(S, y)
      BY <1>1, NthPosition
    <3> QED
      BY <2>2, <3>1, <3>2
  <2>5. k = i
    BY <2>3, <2>4
  <2> HIDE DEF a
  <2>6. Since(n)[a] = entries[i] /\ a \in DOMAIN Since(n)
    BY <1>5, <1>6, <2>1, <2>5
  <2> QED
    BY <2>6 DEF Of
<1>8. Of(Since(n)) = {e \in Of(entries) : e > n}
  BY <1>3, <1>6, <1>7 DEF Of
<1>9. ASSUME NEW a \in DOMAIN Since(n), NEW b \in DOMAIN Since(n), a < b
      PROVE  Nth(S, a) < Nth(S, b)
  <2>1. /\ Nth(S, a) \in S /\ Nth(S, b) \in S /\ a \in Nat /\ b \in Nat
        /\ CountUpTo(S, Nth(S, a)) = a /\ CountUpTo(S, Nth(S, b)) = b
    BY <1>4, <1>5
  <2>2. Nth(S, a) \in Nat /\ Nth(S, b) \in Nat
    BY <1>1, <2>1
  <2>3. Nth(S, a) # Nth(S, b)
    BY <1>9, <2>1
  <2>4. ~(Nth(S, b) < Nth(S, a))
    <3>1. \A x, y \in S : x < y => CountUpTo(S, x) < CountUpTo(S, y)
      BY <1>1, NthPosition
    <3>2. Nth(S, b) < Nth(S, a) => b < a
      BY <2>1, <3>1, Zenon
    <3> QED
      BY <1>9, <2>1, <3>2
  <2> QED
    BY <2>2, <2>3, <2>4
<1>10. S \subseteq DOMAIN entries
  BY <1>1
<1> QED
  BY <1>5, <1>6, <1>8, <1>9, <1>10

\* Storing drops at most the oldest entry and appends the new one.
LEMMA StoredAtEnd ==
    ASSUME NEW T, NEW r \in Seq(T), NEW n \in T, Len(r) <= CAPACITY,
           NEW q, q = Append(IF Len(r) = CAPACITY THEN Tail(r) ELSE r, n)
    PROVE  /\ q \in Seq(T) /\ Len(q) <= CAPACITY
           /\ \E d \in {0, 1} :
                 /\ d <= Len(r) /\ Len(q) = Len(r) - d + 1 /\ q[Len(q)] = n
                 /\ \A a \in 1 .. Len(r) - d : q[a] = r[a + d]
<1>1. CAPACITY \in Nat \ {0} /\ Len(r) \in Nat
  BY LogAssumption
<1>2. CASE Len(r) = CAPACITY
  <2> DEFINE t == Tail(r)
  <2>1. r # <<>>
    BY <1>1, <1>2
  <2>2. t \in Seq(T) /\ Len(t) = Len(r) - 1 /\ \A a \in 1 .. Len(t) : t[a] = r[a + 1]
    BY <2>1, HeadTailProperties
  <2>3. q = Append(t, n)
    BY <1>2
  <2> HIDE DEF t
  <2>4. /\ q \in Seq(T) /\ Len(q) = Len(t) + 1 /\ q[Len(q)] = n
        /\ \A a \in 1 .. Len(t) : q[a] = t[a]
    BY <2>2, <2>3, AppendProperties
  <2>5. \A a \in 1 .. Len(r) - 1 : q[a] = r[a + 1]
    BY <2>2, <2>4
  <2> QED
    BY <1>1, <1>2, <2>2, <2>4, <2>5
<1>3. CASE Len(r) # CAPACITY
  <2>1. q = Append(r, n)
    BY <1>3
  <2>2. /\ q \in Seq(T) /\ Len(q) = Len(r) + 1 /\ q[Len(q)] = n
        /\ \A a \in 1 .. Len(r) : q[a] = r[a]
    BY <1>1, <2>1, AppendProperties
  <2>3. \A a \in 1 .. Len(r) - 0 : q[a] = r[a + 0]
    BY <1>1, <2>2
  <2> QED
    BY <1>1, <1>3, <2>2, <2>3
<1> QED
  BY <1>2, <1>3

\* The page keeps an end of what it had, all of it unless it is full.
LEMMA LastIsAnEnd ==
    ASSUME NEW T, NEW s \in Seq(T)
    PROVE  /\ LastOf(s) \in Seq(T) /\ Len(LastOf(s)) <= PageLength
           /\ \E k \in Nat :
                 /\ k = 0 \/ Len(s) = k + PageLength
                 /\ k <= Len(s) /\ Len(LastOf(s)) = Len(s) - k
                 /\ \A i \in 1 .. Len(s) - k : LastOf(s)[i] = s[i + k]
<1> DEFINE k == IF Len(s) > PageLength THEN Len(s) - PageLength ELSE 0
<1>1. Len(s) \in Nat /\ PageLength \in Nat \ {0}
  BY LogAssumption
<1>2. k \in Nat /\ k <= Len(s) /\ (k = 0 \/ Len(s) = k + PageLength) /\ Len(s) - k <= PageLength
  BY <1>1
<1>3. LastOf(s) = SubSeq(s, 1 + k, Len(s))
  BY DEF LastOf
<1> HIDE DEF k
<1>4. k = Len(s) \/ (1 + k \in 1 .. Len(s) /\ Len(s) \in 1 .. Len(s))
  BY <1>1, <1>2
<1>5. /\ LastOf(s) \in Seq(T) /\ Len(LastOf(s)) = Len(s) - k
      /\ \A i \in 1 .. Len(s) - k : LastOf(s)[i] = s[i + k]
  <2>1. \A i \in 1 + k .. Len(s) : s[i] \in T
    BY <1>1, <1>2
  <2> DEFINE m == 1 + k
             n == Len(s)
  <2>2. m \in Int /\ n \in Int /\ (\A i \in m .. n : s[i] \in T) /\ LastOf(s) = SubSeq(s, m, n)
    BY <1>1, <1>2, <1>3, <2>1
  <2>3. n - m + 1 = n - k /\ (m <= n \/ n - k = 0) /\ \A i \in Int : m + i - 1 = i + k
    BY <1>1, <1>2
  <2> HIDE DEF m, n
  <2>4. /\ LastOf(s) \in Seq(T) /\ Len(LastOf(s)) = IF m <= n THEN n - m + 1 ELSE 0
        /\ \A i \in 1 .. n - m + 1 : LastOf(s)[i] = s[m + i - 1]
    BY <2>2, SubSeqProperties
  <2>5. ASSUME NEW i \in 1 .. n - k PROVE LastOf(s)[i] = s[i + k]
    <3>1. i \in Int /\ i \in 1 .. n - m + 1
      BY <2>3
    <3>2. m + i - 1 = i + k /\ LastOf(s)[i] = s[m + i - 1]
      BY <2>3, <2>4, <3>1
    <3> QED
      BY <3>2
  <2>6. Len(LastOf(s)) = n - k
    BY <2>3, <2>4
  <2> QED
    BY <2>4, <2>5, <2>6 DEF n
<1> QED
  BY <1>2, <1>5

\* Elements of a concatenation.
LEMMA ConcatElements ==
    ASSUME NEW T, NEW s \in Seq(T), NEW t \in Seq(T)
    PROVE  /\ s \o t \in Seq(T) /\ Len(s \o t) = Len(s) + Len(t)
           /\ \A i \in DOMAIN s : i \in DOMAIN (s \o t) /\ (s \o t)[i] = s[i]
           /\ \A j \in DOMAIN t :
                 Len(s) + j \in DOMAIN (s \o t) /\ (s \o t)[Len(s) + j] = t[j]
           /\ \A i \in DOMAIN (s \o t) :
                 i \in DOMAIN s \/ (i - Len(s) \in DOMAIN t /\ i > Len(s))
           /\ Of(s \o t) = Of(s) \cup Of(t)
<1>1. /\ Len(s) \in Nat /\ Len(t) \in Nat /\ DOMAIN s = 1 .. Len(s) /\ DOMAIN t = 1 .. Len(t)
      /\ s \o t \in Seq(T) /\ Len(s \o t) = Len(s) + Len(t)
      /\ DOMAIN (s \o t) = 1 .. (Len(s) + Len(t))
  BY ConcatProperties
<1>2. \A i \in DOMAIN s : i \in DOMAIN (s \o t) /\ (s \o t)[i] = s[i]
  BY <1>1
<1>3. \A j \in DOMAIN t : Len(s) + j \in DOMAIN (s \o t) /\ (s \o t)[Len(s) + j] = t[j]
  BY <1>1
<1>4. \A i \in DOMAIN (s \o t) : i \in DOMAIN s \/ (i - Len(s) \in DOMAIN t /\ i > Len(s))
  BY <1>1
<1>5. ASSUME NEW e \in Of(s \o t) PROVE e \in Of(s) \cup Of(t)
  <2>1. PICK i \in DOMAIN (s \o t) : e = (s \o t)[i]
    BY DEF Of
  <2>2. CASE i \in DOMAIN s
    BY <1>2, <2>1, <2>2 DEF Of
  <2>3. CASE i - Len(s) \in DOMAIN t
    <3>1. i = Len(s) + (i - Len(s))
      BY <1>1, <2>1
    <3> QED
      BY <1>3, <2>1, <2>3, <3>1 DEF Of
  <2> QED
    BY <1>4, <2>2, <2>3
<1>6. Of(s) \subseteq Of(s \o t) /\ Of(t) \subseteq Of(s \o t)
  BY <1>2, <1>3 DEF Of
<1> QED
  BY <1>1, <1>2, <1>3, <1>4, <1>5, <1>6

-----------------------------------------------------------------------------
(* The page and the ring.                                                  *)

\* The page cuts off nothing that the ring holds: all that follows it would have
\* to be in the ring behind it, and the ring is no longer than the page.
LEMMA RingIsKept ==
    ASSUME NEW T, NEW r \in Seq(T), NEW s \in Seq(T), Len(r) <= CAPACITY,
           Distinct(r), Distinct(s), Follows(r, s)
    PROVE  /\ Of(LastOf(s)) \subseteq Of(s)
           /\ \A e \in Of(r) : e \in Of(s) => e \in Of(LastOf(s))
           /\ Distinct(LastOf(s)) /\ Follows(r, LastOf(s))
<1>1. /\ Len(s) \in Nat /\ Len(r) \in Nat /\ DOMAIN s = 1 .. Len(s) /\ DOMAIN r = 1 .. Len(r)
      /\ PageLength \in Nat \ {0} /\ CAPACITY \in Nat /\ CAPACITY <= PageLength
  BY LogAssumption
<1>2. PICK k \in Nat :
          /\ k = 0 \/ Len(s) = k + PageLength
          /\ k <= Len(s) /\ Len(LastOf(s)) = Len(s) - k
          /\ \A i \in 1 .. Len(s) - k : LastOf(s)[i] = s[i + k]
  BY LastIsAnEnd
<1>3. DOMAIN LastOf(s) = 1 .. Len(s) - k
  BY <1>2, LastIsAnEnd
<1>4. \A i \in DOMAIN LastOf(s) : i \in Int /\ i + k \in DOMAIN s /\ LastOf(s)[i] = s[i + k]
  <2>1. ASSUME NEW i \in DOMAIN LastOf(s)
        PROVE  i \in 1 .. Len(s) - k /\ i \in Int /\ i + k \in 1 .. Len(s)
    BY <1>1, <1>2, <1>3
  <2> QED
    BY <1>1, <1>2, <2>1
<1>5. Of(LastOf(s)) \subseteq Of(s)
  BY <1>4 DEF Of
<1>6. Distinct(LastOf(s))
  <2> SUFFICES ASSUME NEW i \in DOMAIN LastOf(s), NEW j \in DOMAIN LastOf(s),
                      LastOf(s)[i] = LastOf(s)[j]
               PROVE  i = j
    BY DEF Distinct
  <2>1. i + k = j + k
    BY <1>4 DEF Distinct
  <2> QED
    BY <1>4, <2>1
<1>7. Follows(r, LastOf(s))
  <2> SUFFICES ASSUME NEW i \in DOMAIN LastOf(s), NEW j \in DOMAIN LastOf(s),
                      NEW a \in DOMAIN r, i < j, LastOf(s)[i] = r[a]
               PROVE  \E b \in DOMAIN r : a < b /\ r[b] = LastOf(s)[j]
    BY DEF Follows
  <2>1. i + k < j + k
    BY <1>4
  <2> QED
    BY <1>4, <2>1 DEF Follows
<1>8. ASSUME NEW a \in DOMAIN r, NEW i \in DOMAIN s, s[i] = r[a], i <= k, k # 0
      PROVE  FALSE
  <2> DEFINE D == i + 1 .. Len(s)
             R == a + 1 .. Len(r)
             f == [j \in D |-> CHOOSE b \in DOMAIN r : a < b /\ r[b] = s[j]]
  <2>1. \A j \in D : j \in DOMAIN s /\ i < j
    BY <1>1
  <2>2. \A j \in D : \E b \in DOMAIN r : a < b /\ r[b] = s[j]
    BY <1>8, <2>1 DEF Follows
  <2>3. \A j \in D : f[j] \in DOMAIN r /\ a < f[j] /\ r[f[j]] = s[j]
    BY <2>2
  <2>4. f \in [D -> R]
    <3>1. \A b \in DOMAIN r : a < b => b \in R
      BY <1>1
    <3> QED
      BY <2>3, <3>1
  <2>5. \A x, y \in D : f[x] = f[y] => x = y
    <3> HIDE DEF f
    <3> QED
      BY <2>1, <2>3 DEF Distinct
  <2>6. f \in Injection(D, R)
    BY <2>4, <2>5 DEF Injection, IsInjective
  <2>7. i + 1 \in Int /\ a + 1 \in Int /\ i \in Nat /\ a \in Nat
    BY <1>1
  <2>8. /\ IsFiniteSet(R) /\ Cardinality(R) = IF a + 1 > Len(r) THEN 0 ELSE Len(r) - (a + 1) + 1
        /\ Cardinality(D) = IF i + 1 > Len(s) THEN 0 ELSE Len(s) - (i + 1) + 1
    <3>1. \A x, y \in Int : IsFiniteSet(x .. y)
                           /\ Cardinality(x .. y) = IF x > y THEN 0 ELSE y - x + 1
      BY FS_Interval
    <3>2. Len(s) \in Int /\ Len(r) \in Int
      BY <1>1
    <3> QED
      BY <2>7, <3>1, <3>2
  <2>9. Cardinality(D) <= Cardinality(R)
    BY <2>6, <2>8, FS_Injection
  <2>10. Len(s) = k + PageLength
    BY <1>2, <1>8, Zenon
  <2>11. a <= Len(r)
    BY <1>1
  <2> QED
    BY <1>1, <1>8, <2>7, <2>8, <2>9, <2>10, <2>11
<1>9. ASSUME NEW e \in Of(r), e \in Of(s) PROVE e \in Of(LastOf(s))
  <2>1. PICK a \in DOMAIN r : r[a] = e
    BY DEF Of
  <2>2. PICK i \in DOMAIN s : s[i] = e
    BY <1>9 DEF Of
  <2>3. k = 0 \/ ~(i <= k)
    BY <1>8, <2>1, <2>2
  <2>4. i - k \in 1 .. Len(s) - k /\ (i - k) + k = i
    BY <1>1, <2>3
  <2> QED
    BY <1>2, <1>3, <2>2, <2>4 DEF Of
<1> QED
  BY <1>5, <1>6, <1>7, <1>9

\* Storing a number keeps what is in the ring in its order.
LEMMA StoreKeepsOrder ==
    ASSUME NEW T, NEW r \in Seq(T), NEW n \in T, Len(r) <= CAPACITY,
           NEW q, q = Append(IF Len(r) = CAPACITY THEN Tail(r) ELSE r, n), n \notin Of(r)
    PROVE  /\ Of(q) \subseteq Of(r) \cup {n}
           /\ Distinct(r) => Distinct(q)
           /\ \A s : n \notin Of(s) /\ Follows(r, s) => Follows(q, s)
           /\ \A s, m : n \notin Of(s) /\ Past(r, s, m) => Past(q, s, m)
<1>1. PICK d \in {0, 1} :
          /\ d <= Len(r) /\ Len(q) = Len(r) - d + 1 /\ q[Len(q)] = n
          /\ \A a \in 1 .. Len(r) - d : q[a] = r[a + d]
  BY StoredAtEnd
<1>2. /\ Len(r) \in Nat /\ DOMAIN r = 1 .. Len(r) /\ q \in Seq(T) /\ Len(q) \in Nat
      /\ DOMAIN q = 1 .. Len(q)
  BY StoredAtEnd
<1>3. /\ d \in Nat /\ d <= Len(r) /\ Len(r) \in Nat /\ Len(q) = Len(r) - d + 1
      /\ \A x \in DOMAIN r : x \in Nat /\ 1 <= x /\ x <= Len(r)
      /\ \A x \in DOMAIN q : x \in Nat /\ 1 <= x /\ x <= Len(q)
      /\ \A x \in Int : 1 <= x /\ x <= Len(r) - d => x \in 1 .. Len(r) - d
      /\ \A x \in Int : 1 <= x /\ x <= Len(r) => x \in DOMAIN r
      /\ \A x \in Int : 1 <= x /\ x <= Len(q) => x \in DOMAIN q
  <2>1. d \in Nat /\ d <= Len(r) /\ Len(r) \in Nat /\ Len(q) = Len(r) - d + 1
    <3>1. d \in Nat
      OBVIOUS
    <3> QED
      BY <1>1, <1>2, <3>1, Zenon
  <2>2. /\ \A x \in DOMAIN r : x \in Nat /\ 1 <= x /\ x <= Len(r)
        /\ \A x \in Int : 1 <= x /\ x <= Len(r) => x \in DOMAIN r
    BY <1>2
  <2>3. /\ \A x \in DOMAIN q : x \in Nat /\ 1 <= x /\ x <= Len(q)
        /\ \A x \in Int : 1 <= x /\ x <= Len(q) => x \in DOMAIN q
    BY <1>2
  <2>4. \A x \in Int : 1 <= x /\ x <= Len(r) - d => x \in 1 .. Len(r) - d
    BY <2>1
  <2> QED
    BY <2>1, <2>2, <2>3, <2>4
<1>4. ASSUME NEW a \in DOMAIN q, q[a] # n
      PROVE  a + d \in DOMAIN r /\ q[a] = r[a + d] /\ a < Len(q)
  <2>1. a # Len(q)
    BY <1>1, <1>4
  <2>2. a \in 1 .. Len(r) - d /\ a < Len(q) /\ a + d \in DOMAIN r
    BY <1>3, <2>1
  <2> QED
    BY <1>1, <2>2
<1>5. ASSUME NEW b \in DOMAIN r, b > d
      PROVE  b - d \in DOMAIN q /\ q[b - d] = r[b] /\ b - d < Len(q)
  <2>1. b - d \in 1 .. Len(r) - d /\ (b - d) + d = b
    BY <1>3, <1>5
  <2>2. b - d \in DOMAIN q /\ b - d < Len(q)
    BY <1>3, <1>5
  <2> QED
    BY <1>1, <2>1, <2>2
<1>6. Of(q) \subseteq Of(r) \cup {n}
  BY <1>4 DEF Of
<1>7. ASSUME Distinct(r) PROVE Distinct(q)
  <2> SUFFICES ASSUME NEW i \in DOMAIN q, NEW j \in DOMAIN q, q[i] = q[j] PROVE i = j
    BY DEF Distinct
  <2>1. CASE q[i] = n
    <3>1. ASSUME NEW x \in DOMAIN q, q[x] = n PROVE x = Len(q)
      <4> SUFFICES ASSUME x # Len(q) PROVE FALSE
        OBVIOUS
      <4>1. x \in 1 .. Len(r) - d /\ x + d \in DOMAIN r
        BY <1>3
      <4>2. r[x + d] = n
        BY <1>1, <3>1, <4>1
      <4> QED
        BY <4>1, <4>2 DEF Of
    <3> QED
      BY <2>1, <3>1
  <2>2. CASE q[i] # n
    <3>1. i + d = j + d
      BY <1>4, <1>7, <2>2 DEF Distinct
    <3> QED
      BY <1>2, <3>1
  <2> QED
    BY <2>1, <2>2
<1>8. ASSUME NEW s, n \notin Of(s), Follows(r, s) PROVE Follows(q, s)
  <2> SUFFICES ASSUME NEW i \in DOMAIN s, NEW j \in DOMAIN s, NEW a \in DOMAIN q,
                      i < j, s[i] = q[a]
               PROVE  \E b \in DOMAIN q : a < b /\ q[b] = s[j]
    BY DEF Follows
  <2>1. q[a] # n
    BY <1>8 DEF Of
  <2>2. a + d \in DOMAIN r /\ r[a + d] = s[i]
    BY <1>4, <2>1
  <2>3. PICK b \in DOMAIN r : a + d < b /\ r[b] = s[j]
    BY <1>8, <2>2 DEF Follows
  <2>4. b > d /\ a < b - d
    BY <1>2, <2>3
  <2> QED
    BY <1>5, <2>3, <2>4
<1>9. ASSUME NEW s, NEW m, n \notin Of(s), Past(r, s, m) PROVE Past(q, s, m)
  <2> SUFFICES ASSUME NEW i \in DOMAIN s, NEW a \in DOMAIN q, NEW b \in DOMAIN q,
                      b < a, q[a] = s[i]
               PROVE  q[b] <= m
    BY DEF Past
  <2>1. q[a] # n
    BY <1>9 DEF Of
  <2>2. a + d \in DOMAIN r /\ r[a + d] = s[i] /\ a < Len(q)
    BY <1>4, <2>1
  <2>3. b \in 1 .. Len(r) - d /\ b + d \in DOMAIN r /\ b + d < a + d
    <3>1. b \in Nat /\ 1 <= b /\ a \in Nat /\ d \in Nat /\ b < a /\ a < Len(q)
      BY <1>3, <2>2, Zenon
    <3>2. Len(r) \in Nat /\ d <= Len(r) /\ Len(q) = Len(r) - d + 1
      BY <1>3, Zenon
    <3>3. b \in Int /\ 1 <= b /\ b <= Len(r) - d
      BY <3>1, <3>2
    <3>4. b + d \in Int /\ 1 <= b + d /\ b + d <= Len(r) /\ b + d < a + d
      BY <3>1, <3>2
    <3> QED
      BY <1>3, <3>3, <3>4, Zenon
  <2>4. r[b + d] <= m
    BY <1>9, <2>2, <2>3 DEF Past
  <2> QED
    BY <1>1, <2>3, <2>4
<1> QED
  BY <1>6, <1>7, <1>8, <1>9

-----------------------------------------------------------------------------
(* Types.                                                                  *)

\* What a poll holds at each of its stages.
LEMMA PollTypes ==
    ASSUME TypeOK, NEW p \in Polls
    PROVE  /\ poll[p] # Idle <=> poll[p].at \in {"asked", "read", "answered"}
           /\ poll[p].at = "asked" => poll[p].after \in 0 .. seq
           /\ poll[p].at = "read" => poll[p].unstored \in SUBSET Entry
           /\ poll[p].at \in {"read", "answered"} => poll[p].entries \in Seq(1 .. seq)
           /\ poll[p].at = "answered" => poll[p].lastSeq \in 0 .. seq
BY DEF TypeOK, Idle

\* Every step keeps the types.
LEMMA TypeStep == TypeOK /\ [Next]_vars => TypeOK'
<1> SUFFICES ASSUME TypeOK, [Next]_vars PROVE TypeOK'
  OBVIOUS
<1> USE LogAssumption
<1> DEFINE Polled(s) == {Idle} \cup [at : {"asked"}, after : 0 .. s]
              \cup [at : {"read"}, entries : Seq(1 .. s), unstored : SUBSET Entry]
              \cup [at : {"answered"}, entries : Seq(1 .. s), lastSeq : 0 .. s]
<1>1. poll \in [Polls -> Polled(seq)]
  BY DEF TypeOK
<1>2. CASE TakeNumber
  <2>1. seq' \in 0 .. MaxEntries /\ 1 .. seq \subseteq 1 .. seq' /\ 0 .. seq \subseteq 0 .. seq'
    BY <1>2 DEF TakeNumber, TypeOK
  <2>2. Seq(1 .. seq) \subseteq Seq(1 .. seq')
    BY <2>1, SeqMonotonic
  <2>3. pushing' \subseteq 1 .. seq'
    BY <1>2, <2>1 DEF TakeNumber, TypeOK
  <2>4. poll' \in [Polls -> Polled(seq')]
    <3> SUFFICES ASSUME NEW p \in Polls PROVE poll[p] \in Polled(seq')
      BY <1>1, <1>2 DEF TakeNumber
    <3>1. poll[p] \in Polled(seq)
      BY <1>1
    <3>2. CASE poll[p] = Idle
      BY <3>2
    <3>3. CASE poll[p] \in [at : {"asked"}, after : 0 .. seq]
      BY <2>1, <3>3
    <3>4. CASE poll[p] \in [at : {"read"}, entries : Seq(1 .. seq), unstored : SUBSET Entry]
      BY <2>2, <3>4
    <3>5. CASE poll[p] \in [at : {"answered"}, entries : Seq(1 .. seq), lastSeq : 0 .. seq]
      BY <2>1, <2>2, <3>5
    <3> QED
      BY <3>1, <3>2, <3>3, <3>4, <3>5
  <2> QED
    BY <1>2, <2>1, <2>2, <2>3, <2>4 DEF TakeNumber, TypeOK, page
<1>3. CASE \E n \in pushing : Store(n)
  <2>1. PICK n \in pushing : Store(n)
    BY <1>3
  <2>2. n \in 1 .. seq
    BY DEF TypeOK
  <2>3. entries' \in Seq(1 .. seq) /\ Len(entries') <= CAPACITY
    <3>1. /\ entries \in Seq(1 .. seq) /\ Len(entries) <= CAPACITY
          /\ entries' = Append(IF Len(entries) = CAPACITY THEN Tail(entries) ELSE entries, n)
      BY <2>1 DEF Store, TypeOK
    <3> DEFINE T == 1 .. seq
               q == entries'
    <3>2. q = Append(IF Len(entries) = CAPACITY THEN Tail(entries) ELSE entries, n)
      BY <3>1
    <3>3. n \in T /\ entries \in Seq(T)
      BY <2>2, <3>1
    <3> HIDE DEF T, q
    <3>4. q \in Seq(T) /\ Len(q) <= CAPACITY
      BY <3>1, <3>2, <3>3, StoredAtEnd
    <3> QED
      BY <3>4 DEF T, q
  <2> QED
    BY <2>1, <2>3 DEF Store, TypeOK, page
<1>4. ASSUME NEW p \in Polls, Ask(p) PROVE TypeOK'
  BY <1>4 DEF Ask, TypeOK, log
<1>5. ASSUME NEW p \in Polls, ReadEntries(p) PROVE TypeOK'
  <2>1. poll[p].after \in Nat /\ 1 .. seq \subseteq Nat
    BY <1>5, PollTypes DEF ReadEntries, TypeOK
  <2>2. Since(poll[p].after) \in Seq(1 .. seq)
    BY <2>1, SinceInOrder DEF TypeOK
  <2>3. pushing \cup {n \in Entry : n > seq} \in SUBSET Entry
    <3>1. MaxEntries \in Nat /\ seq \in 0 .. MaxEntries /\ pushing \subseteq 1 .. seq
      BY DEF TypeOK
    <3>2. 1 .. seq \subseteq Entry
      BY <3>1 DEF Entry
    <3> QED
      BY <3>1, <3>2
  <2>4. poll' = [poll EXCEPT ![p] =
                   [at |-> "read", entries |-> Since(poll[p].after),
                    unstored |-> pushing \cup {n \in Entry : n > seq}]]
    BY <1>5 DEF ReadEntries
  <2>5. poll' \in [Polls -> Polled(seq)]
    BY <1>1, <2>2, <2>3, <2>4
  <2> QED
    BY <1>5, <2>5 DEF ReadEntries, TypeOK, log, page
<1>6. ASSUME NEW p \in Polls, ReadLastSeq(p) PROVE TypeOK'
  <2>1. poll[p].entries \in Seq(1 .. seq) /\ seq \in 0 .. seq /\ poll[p].unstored \in SUBSET Entry
    BY <1>6, PollTypes DEF ReadLastSeq, TypeOK
  <2>2. poll' = [poll EXCEPT ![p] = [at |-> "answered", entries |-> poll[p].entries,
                                     lastSeq |-> seq]]
    BY <1>6 DEF ReadLastSeq
  <2>3. poll' \in [Polls -> Polled(seq)]
    BY <1>1, <2>1, <2>2
  <2>4. overrun' \subseteq Entry
    BY <1>6, <2>1 DEF ReadLastSeq, TypeOK
  <2> QED
    BY <1>6, <2>3, <2>4 DEF ReadLastSeq, TypeOK, log, page
<1>7. ASSUME NEW p \in Polls, Show(p) PROVE TypeOK'
  <2>1. poll[p].entries \in Seq(1 .. seq) /\ poll[p].lastSeq \in 0 .. seq
    BY <1>7, PollTypes DEF Show
  <2>2. shown \o poll[p].entries \in Seq(1 .. seq)
    BY <2>1, ConcatElements DEF TypeOK
  <2>3. /\ LastOf(shown \o poll[p].entries) \in Seq(1 .. seq)
        /\ Len(LastOf(shown \o poll[p].entries)) <= PageLength
    BY <2>2, LastIsAnEnd
  <2>4. lastSeq' \in 0 .. seq /\ shown' \in Seq(1 .. seq) /\ Len(shown') <= PageLength
    BY <1>7, <2>1, <2>3 DEF Show, TypeOK
  <2>5. poll' \in [Polls -> Polled(seq)]
    BY <1>1, <1>7 DEF Show
  <2> QED
    BY <1>7, <2>4, <2>5 DEF Show, TypeOK, log
<1>8. ASSUME NEW p \in Polls, Fail(p) PROVE TypeOK'
  BY <1>8 DEF Fail, TypeOK, log
<1>9. CASE Reopen
  <2>1. lastSeq' \in 0 .. seq /\ shown' \in Seq(1 .. seq) /\ Len(shown') <= PageLength
    BY <1>9 DEF Reopen, TypeOK
  <2>2. poll' \in [Polls -> Polled(seq)] /\ openings' \in 0 .. MaxOpenings
    BY <1>9 DEF Reopen, TypeOK
  <2> QED
    BY <1>9, <2>1, <2>2 DEF Reopen, TypeOK, log
<1>10. CASE UNCHANGED vars
  BY <1>10 DEF vars, TypeOK
<1> QED
  BY <1>2, <1>3, <1>4, <1>5, <1>6, <1>7, <1>8, <1>9, <1>10 DEF Next, Poll

-----------------------------------------------------------------------------
(* The ring and what was read from it.                                     *)

\* What storing a number does to the ring.
LEMMA StoreEffect ==
    ASSUME TypeOK, RingInv, NEW n \in pushing, Store(n)
    PROVE  /\ Of(entries') \subseteq Of(entries) \cup {n} /\ Distinct(entries')
           /\ \A s : n \notin Of(s) /\ Follows(entries, s) => Follows(entries', s)
           /\ \A s, m : n \notin Of(s) /\ Past(entries, s, m) => Past(entries', s, m)
<1> DEFINE T == 1 .. seq
           q == entries'
<1>1. /\ entries \in Seq(T) /\ n \in T /\ Len(entries) <= CAPACITY
      /\ n \notin Of(entries) /\ Distinct(entries)
  BY DEF TypeOK, RingInv
<1>2. q = Append(IF Len(entries) = CAPACITY THEN Tail(entries) ELSE entries, n)
  BY DEF Store
<1> HIDE DEF T, q
<1>3. /\ Of(q) \subseteq Of(entries) \cup {n} /\ Distinct(q)
      /\ \A s : n \notin Of(s) /\ Follows(entries, s) => Follows(q, s)
      /\ \A s, m : n \notin Of(s) /\ Past(entries, s, m) => Past(q, s, m)
  BY <1>1, <1>2, StoreKeepsOrder
<1> QED
  BY <1>3 DEF q

\* What the page shows after an answer.
LEMMA ShowEffect ==
    ASSUME TypeOK, NEW p \in Polls, Show(p)
    PROVE  /\ shown \o poll[p].entries \in Seq(1 .. seq)
           /\ Of(shown \o poll[p].entries) = Of(shown) \cup Of(poll[p].entries)
           /\ Of(shown') \subseteq Of(shown) \cup Of(poll[p].entries)
<1> DEFINE T == 1 .. seq
           R == poll[p].entries
<1>1. R \in Seq(T) /\ shown \in Seq(T)
  BY PollTypes DEF Show, TypeOK
<1>2. shown' = shown \/ shown' = LastOf(shown \o R)
  BY DEF Show
<1> HIDE DEF T, R
<1>3. shown \o R \in Seq(T) /\ Of(shown \o R) = Of(shown) \cup Of(R)
  BY <1>1, ConcatElements
<1>4. Of(LastOf(shown \o R)) \subseteq Of(shown \o R)
  <2> DEFINE s == shown \o R
  <2>1. s \in Seq(T) /\ DOMAIN s = 1 .. Len(s) /\ Len(s) \in Nat
    BY <1>3
  <2> HIDE DEF s
  <2>2. PICK k \in Nat : /\ k <= Len(s) /\ Len(LastOf(s)) = Len(s) - k
                         /\ \A i \in 1 .. Len(s) - k : LastOf(s)[i] = s[i + k]
    BY <2>1, LastIsAnEnd
  <2>3. DOMAIN LastOf(s) = 1 .. Len(s) - k
    BY <2>1, <2>2, LastIsAnEnd
  <2>4. \A i \in 1 .. Len(s) - k : i + k \in 1 .. Len(s)
    BY <2>1, <2>2
  <2>5. Of(LastOf(s)) \subseteq Of(s)
    BY <2>1, <2>2, <2>3, <2>4 DEF Of
  <2> QED
    BY <2>5 DEF s
<1> QED
  BY <1>2, <1>3, <1>4 DEF T, R

\* Every step keeps a pushed number out of the ring, of the answers and of the page.
LEMMA RingStep == TypeOK /\ RingInv /\ [Next]_vars => RingInv'
<1> SUFFICES ASSUME TypeOK, RingInv, [Next]_vars PROVE RingInv'
  OBVIOUS
<1>1. /\ \A i \in DOMAIN entries : entries[i] \in 1 .. seq
      /\ \A i \in DOMAIN shown : shown[i] \in 1 .. seq
      /\ \A p \in Polls : Answers(p) =>
            \A i \in DOMAIN poll[p].entries : poll[p].entries[i] \in 1 .. seq
  <2>1. \A p \in Polls : Answers(p) => poll[p].entries \in Seq(1 .. seq)
    BY PollTypes DEF Answers
  <2> QED
    BY <2>1 DEF TypeOK
<1>2. CASE TakeNumber
  <2>1. seq \in Nat /\ seq' = seq + 1 /\ pushing' = pushing \cup {seq + 1}
        /\ UNCHANGED <<entries, shown, poll>>
    BY <1>2 DEF TakeNumber, TypeOK, page
  <2>2. seq + 1 \notin 1 .. seq
    BY <2>1
  <2>3. Of(entries) \subseteq 1 .. seq /\ Of(shown) \subseteq 1 .. seq
        /\ \A p \in Polls : Answers(p) => Of(poll[p].entries) \subseteq 1 .. seq
    BY <1>1 DEF Of
  <2>4. seq + 1 \in Entry /\ \A n \in Entry : n > seq + 1 => n > seq
    BY <1>2, <2>1, LogAssumption DEF TakeNumber, Entry
  <2>5. pushing' \cup {n \in Entry : n > seq'} \subseteq pushing \cup {n \in Entry : n > seq}
    BY <2>1, <2>4
  <2> QED
    BY <2>1, <2>2, <2>3, <2>5 DEF RingInv, Answers, Of, Distinct
<1>3. CASE \E n \in pushing : Store(n)
  <2>1. PICK n \in pushing : Store(n)
    BY <1>3
  <2>2. /\ pushing' = pushing \ {n} /\ UNCHANGED <<seq, shown, poll>>
    BY <2>1 DEF Store, page
  <2>3. Of(entries') \subseteq Of(entries) \cup {n} /\ Distinct(entries')
    BY <2>1, StoreEffect
  <2>4. Of(entries)' = Of(entries') /\ Distinct(entries)' = Distinct(entries')
        /\ Of(shown)' = Of(shown)
    BY <2>2 DEF Of, Distinct
  <2> QED
    BY <2>2, <2>3, <2>4 DEF RingInv, Answers, Of
<1>4. ASSUME NEW p \in Polls, Ask(p) PROVE RingInv'
  <2>1. UNCHANGED <<seq, pushing, entries, shown>>
        /\ \A q \in Polls : q # p => poll'[q] = poll[q]
    BY <1>4 DEF Ask, log
  <2>2. poll'[p].at = "asked"
    BY <1>4 DEF Ask, TypeOK
  <2> QED
    BY <2>1, <2>2 DEF RingInv, Answers, Of, Distinct
<1>5. ASSUME NEW p \in Polls, ReadEntries(p) PROVE RingInv'
  <2>1. UNCHANGED <<seq, pushing, entries, shown>>
        /\ \A q \in Polls : q # p => poll'[q] = poll[q]
    BY <1>5 DEF ReadEntries, log, page
  <2>2. /\ poll'[p].entries = Since(poll[p].after)
        /\ poll'[p].unstored = pushing \cup {n \in Entry : n > seq}
    BY <1>5 DEF ReadEntries, TypeOK
  <2>3. Of(Since(poll[p].after)) \subseteq Of(entries)
    <3>1. poll[p].after \in Nat /\ 1 .. seq \subseteq Nat /\ entries \in Seq(1 .. seq)
      BY <1>5, PollTypes DEF ReadEntries, TypeOK
    <3> QED
      BY <3>1, SinceInOrder
  <2>4. Of(poll'[p].entries) \cap pushing = {}
    BY <2>2, <2>3 DEF RingInv
  <2> QED
    BY <2>1, <2>2, <2>4 DEF RingInv, Answers, Of, Distinct
<1>6. ASSUME NEW p \in Polls, ReadLastSeq(p) PROVE RingInv'
  <2>1. UNCHANGED <<seq, pushing, entries, shown>>
        /\ \A q \in Polls : q # p => poll'[q] = poll[q]
    BY <1>6 DEF ReadLastSeq, log, page
  <2>2. poll'[p].entries = poll[p].entries /\ poll'[p].at = "answered" /\ Answers(p)
    BY <1>6 DEF ReadLastSeq, TypeOK, Answers
  <2> QED
    BY <2>1, <2>2 DEF RingInv, Answers, Of, Distinct
<1>7. ASSUME NEW p \in Polls, Show(p) PROVE RingInv'
  <2>1. UNCHANGED <<seq, pushing, entries>>
        /\ \A q \in Polls : q # p => poll'[q] = poll[q]
    BY <1>7 DEF Show, log
  <2>2. poll'[p].at = "idle" /\ Answers(p)
    BY <1>7 DEF Show, TypeOK, Answers, Idle
  <2>3. Of(shown') \subseteq Of(shown) \cup Of(poll[p].entries)
    BY <1>7, ShowEffect
  <2>4. Of(shown') \cap pushing = {}
    BY <2>2, <2>3 DEF RingInv
  <2> QED
    BY <2>1, <2>2, <2>4 DEF RingInv, Answers, Of, Distinct
<1>8. ASSUME NEW p \in Polls, Fail(p) PROVE RingInv'
  <2>1. UNCHANGED <<seq, pushing, entries, shown>>
        /\ \A q \in Polls : q # p => poll'[q] = poll[q]
    BY <1>8 DEF Fail, log
  <2>2. poll'[p].at = "idle"
    BY <1>8 DEF Fail, TypeOK, Idle
  <2> QED
    BY <2>1, <2>2 DEF RingInv, Answers, Of, Distinct
<1>9. CASE Reopen
  <2>1. UNCHANGED <<seq, pushing, entries>> /\ shown' = <<>>
    BY <1>9 DEF Reopen, log
  <2>2. \A q \in Polls : poll'[q].at = "idle"
    BY <1>9 DEF Reopen, Idle
  <2>3. Of(shown') = {}
    BY <2>1 DEF Of
  <2> QED
    BY <2>1, <2>2, <2>3 DEF RingInv, Answers, Of, Distinct
<1>10. CASE UNCHANGED vars
  BY <1>10 DEF vars, RingInv, Answers, Of, Distinct
<1> QED
  BY <1>2, <1>3, <1>4, <1>5, <1>6, <1>7, <1>8, <1>9, <1>10 DEF Next, Poll

-----------------------------------------------------------------------------
(* The page whose polls take turns.                                        *)

\* The range of all numbers in sight.
LEMMA Numbers ==
    ASSUME TypeOK
    PROVE  /\ seq \in Nat /\ lastSeq \in 0 .. seq
           /\ \A n \in pushing : n \in 1 .. seq
           /\ \A n \in Of(entries) : n \in 1 .. seq
           /\ \A n \in Of(shown) : n \in 1 .. seq
           /\ \A p \in Polls : Answers(p) => \A n \in Of(poll[p].entries) : n \in 1 .. seq
<1>1. \A p \in Polls : Answers(p) => poll[p].entries \in Seq(1 .. seq)
  BY PollTypes DEF Answers
<1>2. seq \in Nat
  BY DEF TypeOK
<1> QED
  BY <1>1, <1>2 DEF TypeOK, Of

\* When one poll is under way the others are idle.
LEMMA OthersIdle ==
    ASSUME OnePoll, NEW p \in Polls, poll[p] # Idle
    PROVE  \A q \in Polls : q # p => poll[q] = Idle
BY DEF OnePoll

\* Nothing in sight has the number that is taken next.
LEMMA TurnsTakeNumber ==
    ASSUME TypeOK, TurnsInv, TakeNumber
    PROVE  TurnsInv'
<1>1. /\ seq' = seq + 1 /\ pushing' = pushing \cup {seq + 1}
      /\ UNCHANGED <<entries, shown, poll, lastSeq, overrun>>
  BY DEF TakeNumber, page
<1>2. OnePoll'
  BY <1>1 DEF TurnsInv, OnePoll
<1>3. PageInv'
  <2>1. \A n \in pushing' : n <= lastSeq => n \in overrun
    <3>1. ~(seq + 1 <= lastSeq)
      BY Numbers
    <3> QED
      BY <1>1, <3>1 DEF TurnsInv, PageInv
  <2> QED
    BY <1>1, <2>1 DEF TurnsInv, PageInv, Distinct, Follows, Past, Of
<1>4. ASSUME NEW p \in Polls
      PROVE  AskedInv(p)' /\ AnswerInv(p)' /\ ReadInv(p)' /\ AnsweredInv(p)'
  <2>1. AskedInv(p) /\ AnswerInv(p) /\ ReadInv(p) /\ AnsweredInv(p)
    BY DEF TurnsInv
  <2>2. AskedInv(p)' /\ ReadInv(p)'
    BY <1>1, <2>1 DEF AskedInv, ReadInv, Of
  <2>3. AnswerInv(p)'
    BY <1>1, <2>1 DEF AnswerInv, Answers, Distinct, Follows
  <2>4. AnsweredInv(p)'
    <3>1. poll[p].at = "answered" => ~(seq + 1 <= poll[p].lastSeq)
      BY Numbers, PollTypes
    <3> QED
      BY <1>1, <2>1, <3>1 DEF AnsweredInv, Past, Of
  <2> QED
    BY <2>2, <2>3, <2>4
<1> QED
  BY <1>2, <1>3, <1>4 DEF TurnsInv

\* A number is stored where it was pushed: overrun, or not yet asked for.
LEMMA TurnsStore ==
    ASSUME TypeOK, RingInv, TurnsInv, NEW n \in pushing, Store(n)
    PROVE  TurnsInv'
<1>1. pushing' = pushing \ {n} /\ UNCHANGED <<seq, shown, poll, lastSeq, overrun>>
  BY DEF Store, page
<1>2. /\ Of(entries') \subseteq Of(entries) \cup {n}
      /\ \A s : n \notin Of(s) /\ Follows(entries, s) => Follows(entries', s)
      /\ \A s, m : n \notin Of(s) /\ Past(entries, s, m) => Past(entries', s, m)
  BY StoreEffect
<1>3. OnePoll'
  BY <1>1 DEF TurnsInv, OnePoll
<1>4. PageInv'
  <2>1. n \notin Of(shown)
    BY DEF RingInv
  <2>2. Follows(entries', shown) /\ Past(entries', shown, lastSeq)
    BY <1>2, <2>1 DEF TurnsInv, PageInv
  <2>3. \A m \in Of(entries') : m <= lastSeq => m \in Of(shown) \cup overrun
    BY <1>2 DEF TurnsInv, PageInv
  <2>4. /\ Distinct(shown) /\ \A i \in DOMAIN shown : shown[i] <= lastSeq
        /\ \A m \in pushing' : m <= lastSeq => m \in overrun
    BY <1>1 DEF TurnsInv, PageInv
  <2> QED
    BY <1>1, <2>2, <2>3, <2>4 DEF PageInv, Distinct, Follows, Past, Of
<1>5. ASSUME NEW p \in Polls
      PROVE  AskedInv(p)' /\ AnswerInv(p)' /\ ReadInv(p)' /\ AnsweredInv(p)'
  <2> DEFINE R == poll[p].entries
  <2>1. AskedInv(p) /\ AnswerInv(p) /\ ReadInv(p) /\ AnsweredInv(p)
    BY DEF TurnsInv
  <2>2. AskedInv(p)'
    BY <1>1, <2>1 DEF AskedInv
  <2>3. AnswerInv(p)'
    <3>1. Answers(p) => Follows(entries', shown \o R)
      <4> SUFFICES ASSUME Answers(p) PROVE Follows(entries', shown \o R)
        OBVIOUS
      <4>1. R \in Seq(1 .. seq) /\ shown \in Seq(1 .. seq)
        BY PollTypes DEF Answers, TypeOK
      <4>2. Of(shown \o R) = Of(shown) \cup Of(R)
        BY <4>1, ConcatElements
      <4>3. n \notin Of(shown \o R)
        BY <4>2 DEF RingInv
      <4> QED
        BY <1>2, <2>1, <4>3 DEF AnswerInv
    <3> HIDE DEF R
    <3>2. Answers(p) => Distinct(R) /\ \A i \in DOMAIN R : R[i] > lastSeq
      BY <2>1 DEF AnswerInv, R
    <3> QED
      BY <1>1, <3>1, <3>2 DEF AnswerInv, Answers, Distinct, Follows, R
  <2>4. ReadInv(p)'
    <3>1. poll[p].at = "read" =>
             \A m \in Of(entries') : m > lastSeq => m \in Of(R) \cup poll[p].unstored
      BY <1>2, <2>1 DEF ReadInv, RingInv
    <3> QED
      BY <1>1, <3>1 DEF ReadInv, Of
  <2>5. AnsweredInv(p)'
    <3>1. poll[p].at = "answered" => Past(entries', R, poll[p].lastSeq)
      BY <1>2, <2>1 DEF AnsweredInv, RingInv, Answers
    <3>2. poll[p].at = "answered" /\ R # <<>> =>
             \A m \in pushing' \cup Of(entries') : lastSeq < m /\ m <= poll[p].lastSeq =>
                 m \in Of(R) \cup overrun
      BY <1>1, <1>2, <2>1 DEF AnsweredInv
    <3> QED
      BY <1>1, <2>1, <3>1, <3>2 DEF AnsweredInv, Past, Of
  <2> QED
    BY <2>2, <2>3, <2>4, <2>5
<1> QED
  BY <1>3, <1>4, <1>5 DEF TurnsInv

\* A poll asks after what the page has.
LEMMA TurnsAsk ==
    ASSUME TypeOK, TurnsInv, NEW p \in Polls, Ask(p), ~overlapped'
    PROVE  TurnsInv'
<1>1. /\ UNCHANGED <<seq, pushing, entries, shown, lastSeq, overrun>>
      /\ \A q \in Polls : poll[q] = Idle
      /\ \A q \in Polls : q # p => poll'[q] = Idle
      /\ poll'[p] = [at |-> "asked", after |-> lastSeq]
  BY DEF Ask, log, TypeOK
<1>2. OnePoll' /\ PageInv'
  BY <1>1 DEF TurnsInv, OnePoll, PageInv, Distinct, Follows, Past, Of
<1>3. AskedInv(p)' /\ AnswerInv(p)' /\ ReadInv(p)' /\ AnsweredInv(p)'
  BY <1>1 DEF AskedInv, AnswerInv, ReadInv, AnsweredInv, Answers
<1>4. ASSUME NEW q \in Polls, q # p
      PROVE  AskedInv(q)' /\ AnswerInv(q)' /\ ReadInv(q)' /\ AnsweredInv(q)'
  BY <1>1, <1>4 DEF AskedInv, AnswerInv, ReadInv, AnsweredInv, Answers, Idle
<1> QED
  BY <1>2, <1>3, <1>4 DEF TurnsInv

\* An answer that covers more numbers changes nothing about the page.
LEMMA PageStays ==
    ASSUME PageInv, UNCHANGED <<pushing, entries, shown, lastSeq>>, overrun \subseteq overrun'
    PROVE  PageInv'
BY DEF PageInv, Distinct, Follows, Past, Of

\* An idle poll promises nothing.
LEMMA IdlePoll ==
    ASSUME NEW q, poll'[q] = Idle
    PROVE  AskedInv(q)' /\ AnswerInv(q)' /\ ReadInv(q)' /\ AnsweredInv(q)'
BY DEF AskedInv, AnswerInv, ReadInv, AnsweredInv, Answers, Idle

\* What is read comes after what the page shows, in the ring and by its numbers.
LEMMA TurnsReadEntries ==
    ASSUME TypeOK, RingInv, TurnsInv, NEW p \in Polls, ReadEntries(p)
    PROVE  TurnsInv'
<1> DEFINE R == Since(lastSeq)
           T == 1 .. seq
           s == shown \o R
<1>1. poll[p].at = "asked" /\ poll[p] # Idle /\ poll[p].after = lastSeq
  BY PollTypes DEF ReadEntries, TurnsInv, AskedInv
<1>2. /\ UNCHANGED <<seq, pushing, entries, shown, lastSeq, overrun>>
      /\ poll'[p] = [at |-> "read", entries |-> R,
                     unstored |-> pushing \cup {n \in Entry : n > seq}]
      /\ \A q \in Polls : q # p => poll'[q] = poll[q]
  BY <1>1 DEF ReadEntries, log, page, TypeOK
<1>3. \A q \in Polls : q # p => poll'[q] = Idle
  BY <1>1, <1>2, OthersIdle DEF TurnsInv
<1>4. /\ T \subseteq Nat /\ entries \in Seq(T) /\ shown \in Seq(T) /\ lastSeq \in Nat
      /\ \A x \in DOMAIN entries : x \in Nat /\ entries[x] \in Nat
  BY DEF TypeOK
<1> HIDE DEF R, T
<1>5. /\ R \in Seq(T) /\ Of(R) = {e \in Of(entries) : e > lastSeq}
      /\ \A a, b \in DOMAIN R : a < b =>
            \E i, j \in DOMAIN entries : i < j /\ R[a] = entries[i] /\ R[b] = entries[j]
  BY <1>4, SinceInOrder DEF R
<1>6. \A i \in DOMAIN R : R[i] > lastSeq /\ R[i] \in Of(entries)
  BY <1>5 DEF Of
<1>7. Distinct(entries) /\ \A i, j \in DOMAIN entries : i \in Nat /\ (i < j => entries[i] # entries[j])
  BY <1>4 DEF RingInv, Distinct
<1>8. Distinct(R)
  <2> SUFFICES ASSUME NEW a \in DOMAIN R, NEW b \in DOMAIN R, a # b PROVE R[a] # R[b]
    BY DEF Distinct
  <2>1. \A x, y \in DOMAIN R : x < y => R[x] # R[y]
    BY <1>5, <1>7
  <2>2. a < b \/ b < a
    BY <1>5
  <2> QED
    BY <2>1, <2>2
<1>9. /\ s \in Seq(T) /\ Len(shown) \in Nat /\ DOMAIN shown = 1 .. Len(shown)
      /\ \A i \in DOMAIN shown : s[i] = shown[i]
      /\ \A j \in DOMAIN R : s[Len(shown) + j] = R[j]
      /\ \A i \in DOMAIN s : i \in Int /\ (i \in DOMAIN shown
                               \/ (i - Len(shown) \in DOMAIN R /\ i > Len(shown)))
  BY <1>4, <1>5, ConcatElements
<1> HIDE DEF s
<1>10. ASSUME NEW i \in DOMAIN s, i \notin DOMAIN shown
       PROVE  i - Len(shown) \in DOMAIN R /\ i > Len(shown) /\ s[i] = R[i - Len(shown)]
  <2>1. i - Len(shown) \in DOMAIN R /\ i > Len(shown) /\ i = Len(shown) + (i - Len(shown))
    BY <1>9, <1>10
  <2> QED
    BY <1>9, <2>1
<1>11. Follows(entries, s)
  <2> SUFFICES ASSUME NEW i \in DOMAIN s, NEW j \in DOMAIN s, NEW a \in DOMAIN entries,
                      i < j, s[i] = entries[a]
               PROVE  \E b \in DOMAIN entries : a < b /\ entries[b] = s[j]
    BY DEF Follows
  <2>1. CASE j \in DOMAIN shown
    <3>1. i \in DOMAIN shown
      BY <1>9, <2>1
    <3> QED
      BY <1>9, <2>1, <3>1 DEF TurnsInv, PageInv, Follows
  <2>2. CASE i \in DOMAIN shown /\ j \notin DOMAIN shown
    <3>1. s[i] = shown[i] /\ shown[i] <= lastSeq
      BY <1>9, <2>2 DEF TurnsInv, PageInv
    <3>2. s[j] > lastSeq /\ s[j] \in Of(entries)
      BY <1>6, <1>10, <2>2
    <3>3. PICK b \in DOMAIN entries : entries[b] = s[j]
      BY <3>2 DEF Of
    <3>4. ~(b < a)
      <4>1. b < a => entries[b] <= lastSeq
        BY <2>2, <3>1 DEF TurnsInv, PageInv, Past
      <4>2. entries[b] \in Nat
        BY <1>4
      <4> QED
        BY <1>4, <3>2, <3>3, <4>1, <4>2
    <3>5. b # a
      <4> SUFFICES ASSUME b = a PROVE FALSE
        OBVIOUS
      <4>1. s[j] = s[i] /\ s[i] \in Nat
        BY <1>4, <3>3
      <4>2. s[i] <= lastSeq /\ s[i] > lastSeq /\ lastSeq \in Nat
        BY <1>4, <3>1, <3>2, <4>1
      <4> QED
        BY <4>1, <4>2
    <3> QED
      BY <1>4, <3>3, <3>4, <3>5
  <2>3. CASE i \notin DOMAIN shown /\ j \notin DOMAIN shown
    <3>1. /\ i - Len(shown) \in DOMAIN R /\ j - Len(shown) \in DOMAIN R
          /\ s[i] = R[i - Len(shown)] /\ s[j] = R[j - Len(shown)]
      BY <1>10, <2>3
    <3>2. i - Len(shown) < j - Len(shown)
      BY <1>9
    <3>3. PICK x \in DOMAIN entries, y \in DOMAIN entries :
              x < y /\ s[i] = entries[x] /\ s[j] = entries[y]
      BY <1>5, <3>1, <3>2
    <3>4. x = a
      BY <1>7, <3>3 DEF Distinct
    <3> QED
      BY <3>3, <3>4
  <2>4. i \notin DOMAIN shown => j \notin DOMAIN shown
    BY <1>9, <1>10
  <2> QED
    BY <2>1, <2>2, <2>3, <2>4
<1>12. AskedInv(p)' /\ AnsweredInv(p)'
  BY <1>2 DEF AskedInv, AnsweredInv
<1>13. AnswerInv(p)'
  <2>1. poll'[p].entries = R /\ shown' = shown /\ lastSeq' = lastSeq /\ entries' = entries
    BY <1>2
  <2>2. Distinct(R) /\ Follows(entries, shown \o R) /\ \A i \in DOMAIN R : R[i] > lastSeq
    BY <1>6, <1>8, <1>11 DEF s
  <2> QED
    BY <2>1, <2>2 DEF AnswerInv, Distinct, Follows
<1>14. ReadInv(p)'
  <2>1. poll'[p].entries = R
    BY <1>2
  <2>2. \A n \in Of(entries) : n > lastSeq => n \in Of(R)
    BY <1>5
  <2> QED
    BY <1>2, <2>1, <2>2 DEF ReadInv, Of
<1>15. PageInv'
  BY <1>2, PageStays DEF TurnsInv
<1>16. OnePoll'
  BY <1>3 DEF OnePoll
<1> QED
  BY <1>3, <1>12, <1>13, <1>14, <1>15, <1>16, IdlePoll DEF TurnsInv

\* The counter is at or past all that was read; what it covers beyond that was not
\* stored then.
LEMMA TurnsReadLastSeq ==
    ASSUME TypeOK, RingInv, TurnsInv, NEW p \in Polls, ReadLastSeq(p)
    PROVE  TurnsInv'
<1> DEFINE R == poll[p].entries
<1>1. /\ poll[p].at = "read" /\ poll[p] # Idle /\ Answers(p)
  BY PollTypes DEF ReadLastSeq, Answers
<1>2. /\ UNCHANGED <<seq, pushing, entries, shown, lastSeq>>
      /\ poll'[p] = [at |-> "answered", entries |-> R, lastSeq |-> seq]
      /\ \A q \in Polls : q # p => poll'[q] = poll[q]
      /\ overrun' = IF R = <<>> THEN overrun
                    ELSE overrun \cup {n \in poll[p].unstored : n <= seq}
  BY <1>1 DEF ReadLastSeq, log, page, TypeOK
<1>3. \A q \in Polls : q # p => poll'[q] = Idle
  BY <1>1, <1>2, OthersIdle DEF TurnsInv
<1>4. /\ seq \in Nat /\ lastSeq <= seq /\ \A i \in DOMAIN entries : entries[i] <= seq
      /\ \A i \in DOMAIN R : R[i] <= seq
      /\ \A n \in pushing \cup Of(entries) : n <= seq
  <2>1. seq \in Nat /\ lastSeq <= seq /\ \A n \in pushing \cup Of(entries) \cup Of(R) : n <= seq
    BY <1>1, Numbers
  <2> QED
    BY <2>1 DEF Of
<1>5. AskedInv(p)' /\ ReadInv(p)'
  BY <1>2 DEF AskedInv, ReadInv
<1>6. AnswerInv(p)'
  <2>1. Distinct(R) /\ Follows(entries, shown \o R) /\ \A i \in DOMAIN R : R[i] > lastSeq
    BY <1>1 DEF TurnsInv, AnswerInv
  <2>2. poll'[p].entries = R
    BY <1>2
  <2> HIDE DEF R
  <2> QED
    BY <1>2, <2>1, <2>2 DEF AnswerInv, Distinct, Follows
<1>7. AnsweredInv(p)'
  <2>1. poll'[p].entries = R /\ poll'[p].lastSeq = seq
    BY <1>2
  <2>2. ASSUME R # <<>>, NEW n \in pushing \cup Of(entries), lastSeq < n
        PROVE  n \in Of(R) \cup overrun'
    <3>1. n \in Of(R) \cup poll[p].unstored
      BY <1>1, <2>2 DEF TurnsInv, ReadInv, RingInv
    <3> QED
      BY <1>2, <1>4, <2>2, <3>1
  <2>3. Past(entries, R, seq)
    BY <1>4 DEF Past
  <2> HIDE DEF R
  <2> QED
    BY <1>2, <1>4, <2>1, <2>2, <2>3 DEF AnsweredInv, Past, Of
<1>8. PageInv'
  BY <1>2, PageStays DEF TurnsInv
<1>9. OnePoll'
  BY <1>3 DEF OnePoll
<1> QED
  BY <1>3, <1>5, <1>6, <1>7, <1>8, <1>9, IdlePoll DEF TurnsInv

\* The page takes an answer: it ends where the counter was, in the ring's order.
LEMMA TurnsShow ==
    ASSUME TypeOK, RingInv, TurnsInv, NEW p \in Polls, Show(p)
    PROVE  TurnsInv'
<1> DEFINE R == poll[p].entries
           T == 1 .. seq
           s == shown \o R
           last == poll[p].lastSeq
<1>1. /\ poll[p].at = "answered" /\ poll[p] # Idle /\ Answers(p)
  BY PollTypes DEF Show, Answers
<1>2. /\ UNCHANGED <<seq, pushing, entries, overrun>>
      /\ IF R = <<>> THEN UNCHANGED <<lastSeq, shown>> ELSE lastSeq' = last /\ shown' = LastOf(s)
      /\ poll'[p] = Idle /\ \A q \in Polls : q # p => poll'[q] = poll[q]
  BY DEF Show, log, TypeOK
<1>3. \A q \in Polls : poll'[q] = Idle
  BY <1>1, <1>2, OthersIdle DEF TurnsInv
<1>4. OnePoll'
  BY <1>3 DEF OnePoll
<1>5. CASE R = <<>>
  <2>1. PageInv'
    BY <1>2, <1>5, PageStays DEF TurnsInv
  <2> QED
    BY <1>3, <1>4, <2>1, IdlePoll DEF TurnsInv
<1>6. CASE R # <<>>
  <2>1. /\ lastSeq <= last /\ Past(entries, R, last)
        /\ \A i \in DOMAIN R : R[i] <= last
        /\ \A n \in pushing \cup Of(entries) : lastSeq < n /\ n <= last => n \in Of(R) \cup overrun
    BY <1>1, <1>6 DEF TurnsInv, AnsweredInv
  <2>2. Distinct(R) /\ Follows(entries, s) /\ \A i \in DOMAIN R : R[i] > lastSeq
    BY <1>1 DEF TurnsInv, AnswerInv
  <2>3. /\ Distinct(shown) /\ Past(entries, shown, lastSeq)
        /\ \A i \in DOMAIN shown : shown[i] <= lastSeq
        /\ \A n \in pushing : n <= lastSeq => n \in overrun
        /\ \A n \in Of(entries) : n <= lastSeq => n \in Of(shown) \cup overrun
    BY DEF TurnsInv, PageInv
  <2>4. /\ R \in Seq(T) /\ shown \in Seq(T) /\ entries \in Seq(T) /\ Len(entries) <= CAPACITY
        /\ Distinct(entries)
    BY <1>1, PollTypes DEF TypeOK, RingInv
  <2>5. /\ lastSeq \in Nat /\ last \in Nat /\ \A n \in pushing \cup Of(entries) : n \in Nat
        /\ \A i \in DOMAIN entries : entries[i] \in Nat
        /\ \A i \in DOMAIN shown : shown[i] \in Nat
        /\ \A i \in DOMAIN R : R[i] \in Nat
    <3>1. last \in 0 .. seq /\ seq \in Nat /\ lastSeq \in 0 .. seq
      BY <1>1, PollTypes, Numbers
    <3>2. \A n \in pushing \cup Of(entries) \cup Of(shown) \cup Of(R) : n \in Nat
      BY <1>1, Numbers
    <3> QED
      BY <3>1, <3>2 DEF Of
  <2> HIDE DEF T, R, last
  <2>6. /\ s \in Seq(T) /\ Of(s) = Of(shown) \cup Of(R)
        /\ Len(shown) \in Nat /\ DOMAIN shown = 1 .. Len(shown)
        /\ \A i \in DOMAIN shown : s[i] = shown[i]
        /\ \A j \in DOMAIN R : s[Len(shown) + j] = R[j]
        /\ \A i \in DOMAIN s : i \in Int /\ (i \in DOMAIN shown
                                 \/ (i - Len(shown) \in DOMAIN R /\ i > Len(shown)))
    BY <2>4, ConcatElements
  <2> HIDE DEF s
  <2>7. ASSUME NEW i \in DOMAIN s, i \notin DOMAIN shown
        PROVE  i - Len(shown) \in DOMAIN R /\ s[i] = R[i - Len(shown)]
    <3>1. i - Len(shown) \in DOMAIN R /\ i = Len(shown) + (i - Len(shown))
      BY <2>6, <2>7
    <3> QED
      BY <2>6, <3>1
  <2>8. Distinct(s)
    <3> SUFFICES ASSUME NEW i \in DOMAIN s, NEW j \in DOMAIN s, s[i] = s[j] PROVE i = j
      BY DEF Distinct
    <3>1. ASSUME NEW x \in DOMAIN s
          PROVE  /\ x \in DOMAIN shown => s[x] = shown[x] /\ s[x] <= lastSeq
                 /\ x \notin DOMAIN shown => s[x] > lastSeq
                 /\ s[x] \in Nat
      BY <2>2, <2>3, <2>5, <2>6, <2>7
    <3>2. i \in DOMAIN shown <=> j \in DOMAIN shown
      BY <2>5, <3>1
    <3>3. CASE i \in DOMAIN shown
      BY <2>3, <3>1, <3>2, <3>3 DEF Distinct
    <3>4. CASE i \notin DOMAIN shown
      <4>1. /\ i - Len(shown) \in DOMAIN R /\ j - Len(shown) \in DOMAIN R
            /\ R[i - Len(shown)] = R[j - Len(shown)]
        BY <2>7, <3>2, <3>4
      <4>2. i - Len(shown) = j - Len(shown)
        BY <2>2, <4>1 DEF Distinct
      <4> QED
        BY <2>6, <4>2
    <3> QED
      BY <3>3, <3>4
  <2>9. /\ Of(LastOf(s)) \subseteq Of(s)
        /\ \A e \in Of(entries) : e \in Of(s) => e \in Of(LastOf(s))
        /\ Distinct(LastOf(s)) /\ Follows(entries, LastOf(s))
    BY <2>2, <2>4, <2>6, <2>8, RingIsKept
  <2>10. \A i \in DOMAIN LastOf(s) : LastOf(s)[i] \in Of(shown) \cup Of(R)
    BY <2>6, <2>9 DEF Of
  <2>11. \A i \in DOMAIN LastOf(s) : LastOf(s)[i] <= last
    <3>1. \A e \in Of(shown) \cup Of(R) : e <= last
      BY <2>1, <2>3, <2>5 DEF Of
    <3> QED
      BY <2>10, <3>1
  <2>12. Past(entries, LastOf(s), last)
    <3> SUFFICES ASSUME NEW i \in DOMAIN LastOf(s), NEW a \in DOMAIN entries,
                        NEW b \in DOMAIN entries, b < a, entries[a] = LastOf(s)[i]
                 PROVE  entries[b] <= last
      BY DEF Past
    <3>1. CASE entries[a] \in Of(shown)
      <4>1. entries[b] <= lastSeq
        BY <2>3, <3>1 DEF Past, Of
      <4> QED
        BY <2>1, <2>5, <4>1
    <3>2. CASE entries[a] \in Of(R)
      BY <2>1, <3>2 DEF Past, Of
    <3> QED
      BY <2>10, <3>1, <3>2
  <2>13. ASSUME NEW n \in Of(entries), n <= last PROVE n \in Of(LastOf(s)) \cup overrun
    <3>1. n \in Of(shown) \cup Of(R) \cup overrun
      BY <2>1, <2>3, <2>5, <2>13
    <3> QED
      BY <2>6, <2>9, <3>1
  <2>14. ASSUME NEW n \in pushing, n <= last PROVE n \in overrun
    <3>1. n \notin Of(R)
      BY <1>1 DEF RingInv, R
    <3> QED
      BY <2>1, <2>3, <2>5, <2>14, <3>1
  <2>15. PageInv'
    <3>1. UNCHANGED <<pushing, entries, overrun>> /\ lastSeq' = last /\ shown' = LastOf(s)
      BY <1>2, <1>6
    <3> QED
      BY <2>9, <2>11, <2>12, <2>13, <2>14, <3>1 DEF PageInv, Distinct, Follows, Past, Of
  <2> QED
    BY <1>3, <1>4, <2>15, IdlePoll DEF TurnsInv
<1> QED
  BY <1>5, <1>6

\* A poll without an answer leaves the page as it was.
LEMMA TurnsFail ==
    ASSUME TypeOK, TurnsInv, NEW p \in Polls, Fail(p)
    PROVE  TurnsInv'
<1>1. /\ UNCHANGED <<seq, pushing, entries, shown, lastSeq, overrun>> /\ poll[p] # Idle
      /\ poll'[p] = Idle /\ \A q \in Polls : q # p => poll'[q] = poll[q]
  BY DEF Fail, log, TypeOK
<1>2. \A q \in Polls : poll'[q] = Idle
  BY <1>1, OthersIdle DEF TurnsInv
<1>3. OnePoll' /\ PageInv'
  BY <1>1, <1>2, PageStays DEF TurnsInv, OnePoll
<1> QED
  BY <1>2, <1>3, IdlePoll DEF TurnsInv

\* An empty page that nothing is on the way to satisfies it.
LEMMA TurnsAnew ==
    ASSUME TypeOK', shown' = <<>>, lastSeq' = 0, \A q \in Polls : poll'[q] = Idle
    PROVE  TurnsInv'
<1>1. OnePoll'
  BY DEF OnePoll
<1>2. \A n \in pushing' \cup Of(entries') : ~(n <= 0)
  BY DEF TypeOK, Of
<1>3. PageInv'
  BY <1>2 DEF PageInv, Distinct, Follows, Past, Of
<1> QED
  BY <1>1, <1>3, IdlePoll DEF TurnsInv

-----------------------------------------------------------------------------
(* The theorems.                                                           *)

\* The inductive invariant holds in every state.
LEMMA Inductive == Spec => []IInv
<1>1. Init => IInv
  <2> SUFFICES ASSUME Init PROVE IInv
    OBVIOUS
  <2>1. TypeOK
    <3>1. /\ {MaxEntries, MaxPushes, MaxFailures, MaxOpenings} \subseteq Nat
          /\ CAPACITY \in Nat /\ PageLength \in Nat
      BY LogAssumption
    <3>2. seq \in 0 .. MaxEntries /\ failures \in 0 .. MaxFailures /\ openings \in 0 .. MaxOpenings
      BY <3>1 DEF Init
    <3>3. /\ entries \in Seq(1 .. seq) /\ Len(entries) <= CAPACITY
          /\ shown \in Seq(1 .. seq) /\ Len(shown) <= PageLength
      BY <3>1 DEF Init
    <3>4. lastSeq \in 0 .. seq /\ pushing \subseteq 1 .. seq /\ overrun \subseteq Entry
          /\ overlapped \in BOOLEAN
      <4>1. seq = 0 /\ lastSeq = 0
        BY DEF Init
      <4>2. lastSeq \in 0 .. seq
        BY <4>1
      <4>3. pushing \subseteq 1 .. seq /\ overrun \subseteq Entry /\ overlapped \in BOOLEAN
        BY DEF Init
      <4> QED
        BY <4>2, <4>3
    <3> QED
      BY <3>2, <3>3, <3>4 DEF Init, TypeOK
  <2>2. RingInv
    BY DEF Init, RingInv, Answers, Idle, Distinct, Of
  <2>3. TurnsInv
    <3>1. OnePoll
      BY DEF Init, OnePoll
    <3>2. PageInv
      BY DEF Init, PageInv, Distinct, Follows, Past, Of
    <3>3. ASSUME NEW p \in Polls
          PROVE  AskedInv(p) /\ AnswerInv(p) /\ ReadInv(p) /\ AnsweredInv(p)
      BY DEF Init, AskedInv, AnswerInv, ReadInv, AnsweredInv, Answers, Idle
    <3> QED
      BY <3>1, <3>2, <3>3 DEF TurnsInv
  <2> QED
    BY <2>1, <2>2, <2>3 DEF IInv
<1>2. IInv /\ [Next]_vars => IInv'
  <2> SUFFICES ASSUME IInv, [Next]_vars PROVE IInv'
    OBVIOUS
  <2>1. TypeOK /\ RingInv /\ TypeOK' /\ RingInv'
    BY TypeStep, RingStep DEF IInv
  <2>2. ~overlapped => TurnsInv
    BY DEF IInv
  <2> SUFFICES ASSUME ~overlapped' PROVE TurnsInv'
    BY <2>1 DEF IInv
  <2>3. CASE TakeNumber
    BY <2>1, <2>2, <2>3, TurnsTakeNumber DEF TakeNumber, page
  <2>4. ASSUME NEW n \in pushing, Store(n) PROVE TurnsInv'
    BY <2>1, <2>2, <2>4, TurnsStore DEF Store, page
  <2>5. ASSUME NEW p \in Polls, Ask(p) PROVE TurnsInv'
    BY <2>1, <2>2, <2>5, TurnsAsk DEF Ask
  <2>6. ASSUME NEW p \in Polls, ReadEntries(p) PROVE TurnsInv'
    BY <2>1, <2>2, <2>6, TurnsReadEntries DEF ReadEntries, page
  <2>7. ASSUME NEW p \in Polls, ReadLastSeq(p) PROVE TurnsInv'
    BY <2>1, <2>2, <2>7, TurnsReadLastSeq DEF ReadLastSeq, page
  <2>8. ASSUME NEW p \in Polls, Show(p) PROVE TurnsInv'
    BY <2>1, <2>2, <2>8, TurnsShow DEF Show
  <2>9. ASSUME NEW p \in Polls, Fail(p) PROVE TurnsInv'
    BY <2>1, <2>2, <2>9, TurnsFail DEF Fail
  <2>10. CASE Reopen
    BY <2>1, <2>10, TurnsAnew DEF Reopen
  <2>11. CASE UNCHANGED vars
    BY <2>2, <2>11 DEF vars, TurnsInv, OnePoll, PageInv, AskedInv, AnswerInv, ReadInv,
       AnsweredInv, Answers, Distinct, Follows, Past, Of
  <2> QED
    BY <2>3, <2>4, <2>5, <2>6, <2>7, <2>8, <2>9, <2>10, <2>11 DEF Next, Poll
<1> QED
  BY <1>1, <1>2, PTL DEF Spec

\* The ring and the page keep their types and bounds.
THEOREM TypeCorrect == Spec => []TypeOK
<1>1. IInv => TypeOK
  BY DEF IInv
<1> QED
  BY <1>1, Inductive, PTL

\* The page shows an entry twice only when its polls overlapped.
THEOREM RepeatsNeedOverlap == Spec => []ShownOnce
<1>1. IInv => ShownOnce
  BY DEF IInv, TurnsInv, PageInv, Distinct, ShownOnce
<1> QED
  BY <1>1, Inductive, PTL

\* The page misses an entry of the ring only when an answer overran it or its polls
\* overlapped.
THEOREM OnlyOverrunIsMissed == Spec => []MissedOnlyIfOverrun
<1>1. IInv => MissedOnlyIfOverrun
  BY DEF IInv, TurnsInv, PageInv, MissedOnlyIfOverrun
<1> QED
  BY <1>1, Inductive, PTL

\* What a step may not do to the number the page polls from.
Advances == lastSeq' < lastSeq => overlapped \/ openings' # openings

\* The point the page polls from moves back only when its polls overlapped or the
\* page is opened anew.
THEOREM PollsOnward == Spec => PollPointAdvances
<1>1. ASSUME IInv, [Next]_vars PROVE [Advances]_vars
  <2>1. lastSeq \in Nat /\ openings \in Nat
    BY <1>1 DEF IInv, TypeOK
  <2>2. CASE TakeNumber
    BY <2>1, <2>2 DEF TakeNumber, page, Advances
  <2>3. ASSUME NEW n \in pushing, Store(n) PROVE Advances
    BY <2>1, <2>3 DEF Store, page, Advances
  <2>4. ASSUME NEW p \in Polls, Ask(p) \/ ReadEntries(p) \/ ReadLastSeq(p) \/ Fail(p)
        PROVE  Advances
    BY <2>1, <2>4 DEF Ask, ReadEntries, ReadLastSeq, Fail, page, Advances
  <2>5. ASSUME NEW p \in Polls, Show(p) PROVE Advances
    <3>1. ~overlapped => lastSeq <= poll[p].lastSeq
      BY <1>1, <2>5 DEF IInv, TurnsInv, AnsweredInv, Show
    <3>2. poll[p].lastSeq \in Nat
      BY <1>1, <2>5, PollTypes DEF IInv, Show, TypeOK
    <3> QED
      BY <2>1, <2>5, <3>1, <3>2 DEF Show, Advances
  <2>6. CASE Reopen
    BY <2>1, <2>6 DEF Reopen, Advances
  <2> QED
    BY <1>1, <2>2, <2>3, <2>4, <2>5, <2>6 DEF Next, Poll
<1>2. Spec => [][Advances]_vars
  BY <1>1, Inductive, PTL DEF Spec
<1> QED
  BY <1>2 DEF Advances, PollPointAdvances
=============================================================================
