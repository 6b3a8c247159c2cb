---------------------------- MODULE MCEmberConnect ----------------------------
(* The upload worker and one status call share the store of one dongle.     *)
EXTENDS EmberConnect
CONSTANTS c1, c2
MCClients == {c1, c2}
=============================================================================
