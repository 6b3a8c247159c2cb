--------------------------- MODULE MCBrotherUpload ---------------------------
(* Two uploads to a machine with room for three designs: a copy of the first *)
(* may arrive while the second is checked, sent or named.                    *)
EXTENDS BrotherUpload
CONSTANTS n1, n2, n3
MCNames == {n1, n2, n3}
=============================================================================
