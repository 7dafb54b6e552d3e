----------------------- MODULE MCDeterministicRandom -----------------------
(* Two instances, and the seeds 1, 2 and 0xFC001FFE. *)
EXTENDS DeterministicRandom

MCSeeds == {{0}, {1}, (1 .. 12) \cup (26 .. 31)}
=============================================================================
