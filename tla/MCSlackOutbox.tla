---------------------------- MODULE MCSlackOutbox ----------------------------
(* Instances of SlackOutbox for TLC. *)
EXTENDS SlackOutbox, TLC

CONSTANTS k1, k2, d1, d2
=============================================================================
