---------------------------- MODULE MCDrainQueue ----------------------------
(* DrainQueue on four backpressured writes. *)
EXTENDS DrainQueue
=============================================================================
