------------------------------ MODULE MCLogView ------------------------------
(* Two polls that may overlap; a ring of two of four entries, so that entries *)
(* leave it unseen; two pushes at once, so that they are stored out of order. *)
EXTENDS LogView
CONSTANTS p1, p2
MCPolls == {p1, p2}
=============================================================================
