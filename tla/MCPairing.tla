------------------------------ MODULE MCPairing ------------------------------
(* Three tabs: two of one origin, whose polls of one id may race, and one of *)
(* another origin.                                                           *)
EXTENDS Pairing, TLC
CONSTANTS t1, t2, t3, o1, o2
MCTabs     == {t1, t2, t3}
MCOrigins  == {o1, o2}
MCOriginOf == [t \in MCTabs |-> IF t = t3 THEN o2 ELSE o1]
SameOrigin == Permutations({t1, t2})
=============================================================================
