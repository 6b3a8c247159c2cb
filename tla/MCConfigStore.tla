---------------------------- MODULE MCConfigStore ----------------------------
(* Two addresses and one origin: updates of different fields, and two       *)
(* updates of one field, meet; two crashes and three tokens.                *)
EXTENDS ConfigStore
CONSTANTS a1, a2, o1
MCIps     == {a1, a2}
MCOrigins == {o1}
=============================================================================
