------------------------------- MODULE LogView -------------------------------
(***************************************************************************)
(* The application log (src-tauri/src/logging.rs), its handler in          *)
(* server/routes.rs, and the page that polls it (src/pages/LogsPage.tsx).  *)
(*                                                                         *)
(* Any thread may log.  A push takes its number from an atomic counter and *)
(* then stores the entry under the lock, so entries are stored in another  *)
(* order than they are numbered.  The handler reads the entries under the  *)
(* lock and, after it let go, the counter.  The page asks every second for *)
(* what comes after the last number it was told, whether or not its        *)
(* earlier polls are answered.                                             *)
(*                                                                         *)
(* An entry is its number.                                                 *)
(***************************************************************************)
EXTENDS Naturals, Sequences, FiniteSets

CONSTANTS
    CAPACITY,      \* entries the ring buffer keeps (1000 in the code)
    PageLength,    \* entries the page keeps (1000 in the code)
    Polls,         \* polls of the page that may be unanswered at once
    MaxEntries,    \* bound: entries ever logged
    MaxPushes,     \* bound: pushes in progress at once
    MaxFailures,   \* bound: polls that get no answer
    MaxOpenings    \* bound: times the page is opened again

ASSUME LogAssumption ==
    /\ CAPACITY \in Nat \ {0} /\ PageLength \in Nat \ {0}
    /\ CAPACITY <= PageLength
    /\ {MaxEntries, MaxPushes, MaxFailures, MaxOpenings} \subseteq Nat

Entry == 1 .. MaxEntries

VARIABLES
    seq,        \* LogBuffer.seq, the last number taken
    pushing,    \* numbers taken whose entry is not stored yet
    entries,    \* LogBuffer.entries
    poll,       \* each poll of the page
    lastSeq,    \* the page's lastSeq
    shown,      \* the page's entries
    failures, openings,
    overrun,    \* history: numbers an answer's lastSeq covers that were not
                \* stored when its entries were read
    overlapped  \* history: have two polls of this opening overlapped?

vars == <<seq, pushing, entries, poll, lastSeq, shown, failures, openings,
          overrun, overlapped>>

log  == <<seq, pushing, entries>>
page == <<lastSeq, shown, failures, openings, overlapped>>

Idle  == [at |-> "idle"]
Of(s) == {s[i] : i \in DOMAIN s}

Init ==
    /\ seq = 0 /\ pushing = {} /\ entries = <<>>
    /\ poll = [p \in Polls |-> Idle]
    /\ lastSeq = 0 /\ shown = <<>>
    /\ failures = 0 /\ openings = 0
    /\ overrun = {} /\ overlapped = FALSE

-----------------------------------------------------------------------------
(* LogBuffer::push                                                         *)

TakeNumber ==
    /\ seq < MaxEntries /\ Cardinality(pushing) < MaxPushes
    /\ seq' = seq + 1
    /\ pushing' = pushing \cup {seq + 1}
    /\ UNCHANGED <<entries, poll, page, overrun>>

StoreUnbounded(n) ==   \* mutant: never drops the oldest entry
    /\ n \in pushing
    /\ pushing' = pushing \ {n}
    /\ entries' = Append(entries, n)
    /\ UNCHANGED <<seq, poll, page, overrun>>

Store(n) ==
    /\ n \in pushing
    /\ pushing' = pushing \ {n}
    /\ entries' = Append(IF Len(entries) = CAPACITY THEN Tail(entries) ELSE entries, n)
    /\ UNCHANGED <<seq, poll, page, overrun>>

-----------------------------------------------------------------------------
(* GET /api/logs?afterSeq=                                                 *)

\* The page's timer fires.
Ask(p) ==
    /\ poll[p] = Idle
    /\ poll' = [poll EXCEPT ![p] = [at |-> "asked", after |-> lastSeq]]
    /\ overlapped' = (overlapped \/ \E q \in Polls : poll[q] # Idle)
    /\ UNCHANGED <<log, lastSeq, shown, failures, openings, overrun>>

\* LogBuffer::since, under the lock: the entries at some positions, in the
\* ring's order.
CountUpTo(S, i) == Cardinality({k \in S : k <= i})
Nth(S, a) == CHOOSE i \in S : CountUpTo(S, i) = a
ListOf(S) == [a \in 1 .. Cardinality(S) |-> entries[Nth(S, a)]]

NewerBySeq(n) ==   \* mutant: an exclusive upper end, as of a half-open range
    ListOf({i \in DOMAIN entries : entries[i] > n /\ entries[i] < seq})

Since(n) == ListOf({i \in DOMAIN entries : entries[i] > n})

ReadEntries(p) ==
    /\ poll[p].at = "asked"
    /\ poll' = [poll EXCEPT ![p] =
                   [at |-> "read", entries |-> Since(@.after),
                    unstored |-> pushing \cup {n \in Entry : n > seq}]]
    /\ UNCHANGED <<log, page, overrun>>

\* LogBuffer::last_seq, after the lock was released.
ReadLastSeq(p) ==
    /\ poll[p].at = "read"
    /\ poll' = [poll EXCEPT ![p] =
                   [at |-> "answered", entries |-> @.entries, lastSeq |-> seq]]
    /\ overrun' = IF poll[p].entries = <<>> THEN overrun
                  ELSE overrun \cup {n \in poll[p].unstored : n <= seq}
    /\ UNCHANGED <<log, page>>

-----------------------------------------------------------------------------
(* LogsPage                                                                *)

FirstOf(s) ==   \* mutant: keeps the oldest
    SubSeq(s, 1, IF Len(s) > PageLength THEN PageLength ELSE Len(s))

LastOf(s) == SubSeq(s, 1 + (IF Len(s) > PageLength THEN Len(s) - PageLength ELSE 0), Len(s))

\* The page takes an answer; one without entries changes nothing.
ShowKeepingLast(p) ==   \* mutant: forgets to move lastSeq
    /\ poll[p].at = "answered"
    /\ shown' = LastOf(shown \o poll[p].entries)
    /\ poll' = [poll EXCEPT ![p] = Idle]
    /\ UNCHANGED <<log, lastSeq, failures, openings, overrun, overlapped>>

Show(p) ==
    /\ poll[p].at = "answered"
    /\ IF poll[p].entries = <<>> THEN UNCHANGED <<lastSeq, shown>>
       ELSE /\ lastSeq' = poll[p].lastSeq
            /\ shown' = LastOf(shown \o poll[p].entries)
    /\ poll' = [poll EXCEPT ![p] = Idle]
    /\ UNCHANGED <<log, failures, openings, overrun, overlapped>>

\* "Transient; next poll retries."
Fail(p) ==
    /\ poll[p] # Idle /\ failures < MaxFailures
    /\ failures' = failures + 1
    /\ poll' = [poll EXCEPT ![p] = Idle]
    /\ UNCHANGED <<log, lastSeq, shown, openings, overrun, overlapped>>

\* Leaving the page stops its polls and drops its state; opening it starts anew.
Reopen ==
    /\ openings < MaxOpenings
    /\ openings' = openings + 1
    /\ lastSeq' = 0 /\ shown' = <<>>
    /\ poll' = [p \in Polls |-> Idle]
    /\ overlapped' = FALSE
    /\ UNCHANGED <<log, failures, overrun>>

Poll(p) == Ask(p) \/ ReadEntries(p) \/ ReadLastSeq(p) \/ Show(p)

Next ==
    \/ TakeNumber
    \/ \E n \in pushing : Store(n)
    \/ \E p \in Polls : Poll(p) \/ Fail(p)
    \/ Reopen

\* A push has no await in it; the timer keeps firing and the loopback server
\* answers.
Fairness ==
    /\ \A n \in Entry : WF_vars(n \in pushing /\ Store(n))
    /\ \A p \in Polls : WF_vars(Poll(p))

Spec == Init /\ [][Next]_vars /\ Fairness

-----------------------------------------------------------------------------
\* Types: the ring holds at most CAPACITY entries, the page PageLength.
TypeOK ==
    /\ seq \in 0 .. MaxEntries
    /\ pushing \subseteq 1 .. seq
    /\ entries \in Seq(1 .. seq) /\ Len(entries) <= CAPACITY
    /\ poll \in [Polls ->
          {Idle} \cup [at : {"asked"}, after : 0 .. seq]
          \cup [at : {"read"}, entries : Seq(1 .. seq), unstored : SUBSET Entry]
          \cup [at : {"answered"}, entries : Seq(1 .. seq), lastSeq : 0 .. seq]]
    /\ lastSeq \in 0 .. seq
    /\ shown \in Seq(1 .. seq) /\ Len(shown) <= PageLength
    /\ failures \in 0 .. MaxFailures /\ openings \in 0 .. MaxOpenings
    /\ overrun \subseteq Entry /\ overlapped \in BOOLEAN

\* The page shows an entry twice only when its polls overlapped: the number it
\* asks after is read from the counter after the entries, so it covers every
\* entry it was ever shown, however late that was stored.
ShownOnce ==
    (\E i, j \in DOMAIN shown : i # j /\ shown[i] = shown[j]) => overlapped

\* Every entry the ring keeps gets to the page, unless an answer overran it or
\* polls overlapped.
KeptIsShown ==
    \A n \in Entry :
        n \in Of(entries)
          ~> n \in Of(shown) \cup overrun \/ n \notin Of(entries) \/ overlapped

\* An entry in the ring that the page has gone past is one it shows, unless
\* polls overlapped or an answer overran it: the time between the two reads of
\* an answer is the only way to miss one, and neither the ring nor the page
\* cuts off what the other still needs.
MissedOnlyIfOverrun ==
    \A n \in Of(entries) :
        n <= lastSeq => n \in Of(shown) \cup overrun \/ overlapped

\* The point the page polls from moves back only when its polls overlapped or
\* the page is opened anew: the counter an answer ends at was read after its poll
\* was sent.
PollPointAdvances ==
    [][lastSeq' < lastSeq => overlapped \/ openings' # openings]_vars
=============================================================================
