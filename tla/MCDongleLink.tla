---------------------------- MODULE MCDongleLink ----------------------------
(* Two commands of up to two requests each, at once or one after the other, *)
(* an image of two chunks, and one restart of the app, so that numbers are  *)
(* used again.                                                              *)
EXTENDS DongleLink
CONSTANTS ui1, ui2
=============================================================================
