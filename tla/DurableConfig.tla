---------------------------- MODULE DurableConfig ----------------------------
(***************************************************************************)
(* What the configuration store promises, without saying how it is kept: a *)
(* set of entries that is saved as a whole, in one step.  Each change is   *)
(* of one entry and leaves the others alone; one that was reported done    *)
(* was saved by then, and one that failed may be saved with a later one.   *)
(* A crash goes back to what was saved last.                               *)
(***************************************************************************)

CONSTANTS Fresh,    \* the contents a first launch may start from
          Changes   \* the changes a caller may ask for, each of one entry

VARIABLES
    saved,     \* what a crash goes back to
    working,   \* what the running app uses
    change,    \* the change being made
    done       \* the changes reported done, unless their entry was changed since

vars == <<saved, working, change, done>>

Nothing  == <<>>
NoChange == [by |-> "nobody"]
First    == [by |-> "first launch"]
By(k, v) == [by |-> "caller", key |-> k, value |-> v]

Init ==
    /\ saved = Nothing /\ working = Nothing
    /\ change = NoChange /\ done = {}

Create(c) ==
    /\ saved = Nothing /\ working = Nothing
    /\ working' = c
    /\ change' = First
    /\ UNCHANGED <<saved, done>>

Launch ==
    /\ saved # Nothing /\ working = Nothing
    /\ working' = saved
    /\ UNCHANGED <<saved, change, done>>

Change(d) ==
    /\ saved # Nothing /\ working # Nothing /\ change = NoChange
    /\ working' = [working EXCEPT ![d.key] = d.value]
    /\ change' = d
    /\ done' = {e \in done : e.key # d.key}
    /\ UNCHANGED saved

Save ==
    /\ change # NoChange
    /\ saved' = working
    /\ change' = NoChange
    /\ done' = done \cup ({change} \ {First})
    /\ UNCHANGED working

\* A change that fails is not taken back, but an app that never saved stops.
Fail ==
    /\ change # NoChange
    /\ working' = IF saved = Nothing THEN Nothing ELSE working
    /\ change' = NoChange
    /\ UNCHANGED <<saved, done>>

Crash ==
    /\ working # Nothing
    /\ working' = Nothing
    /\ change' = NoChange
    /\ UNCHANGED <<saved, done>>

Next ==
    \/ \E c \in Fresh : Create(c)
    \/ \E d \in Changes : Change(d)
    \/ Launch \/ Save \/ Fail \/ Crash

Spec == Init /\ [][Next]_vars
=============================================================================
