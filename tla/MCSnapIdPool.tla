---------------------------- MODULE MCSnapIdPool ----------------------------
(* CSnapIdPool with the proportions of the code: an int holds 2.15 seconds *)
(* of nanoseconds on either side of zero and the quarantine is 5 seconds,  *)
(* that is 3 and 7 units.                                                  *)
EXTENDS SnapIdPool

MCIntHalf == 3
MCQuarantine == 7
=============================================================================
