---------------------------- MODULE SweepService ----------------------------
(***************************************************************************)
(* What discovery promises whoever reads the list of machines, without     *)
(* saying how: one sweep runs at a time, and the list is only ever         *)
(* replaced as a whole, by all that one sweep found after every probe of   *)
(* it has ended.  A sweep whose caller left changes nothing.               *)
(***************************************************************************)
CONSTANTS Call,     \* who may ask for a sweep
          Target    \* the probes there may be: who asks which address

VARIABLES
    sweeping,   \* the call that sweeps, as a set
    open,       \* the probes it has yet to hear of
    found,      \* the probes that found a machine
    listed      \* the list of machines

vars == <<sweeping, open, found, listed>>

Init == sweeping = {} /\ open = {} /\ found = {} /\ listed = {}

Begin(c, targets) ==
    /\ sweeping = {}
    /\ sweeping' = {c} /\ open' = targets /\ found' = {}
    /\ UNCHANGED listed

\* When all have answered, others that made themselves heard may be asked, and none
\* again that found a machine.
Hear(targets) ==
    /\ sweeping # {} /\ open = {} /\ targets \cap found = {}
    /\ open' = targets
    /\ UNCHANGED <<sweeping, found, listed>>

Answer(t) ==
    /\ t \in open
    /\ open' = open \ {t}
    /\ found' \in {found, found \cup {t}}
    /\ UNCHANGED <<sweeping, listed>>

Stop == sweeping' = {} /\ open' = {} /\ found' = {}

Publish == sweeping # {} /\ open = {} /\ listed' = found /\ Stop

Leave == sweeping # {} /\ UNCHANGED listed /\ Stop

Next ==
    \/ \E c \in Call, targets \in SUBSET Target : Begin(c, targets)
    \/ \E targets \in SUBSET Target : Hear(targets)
    \/ \E t \in Target : Answer(t)
    \/ Publish \/ Leave

Spec == Init /\ [][Next]_vars
=============================================================================
