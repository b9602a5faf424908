-------------------------- MODULE MCDelaySchedule --------------------------
(***************************************************************************)
(* DelaySchedule for TLC: delays of every order and sign, equal delays, a  *)
(* value that does not parse (zero), and a clock that runs past them all.  *)
(***************************************************************************)
EXTENDS DelaySchedule

MCDelays == {-1, 1, 2, 3}
MCMaxNow == 4
=============================================================================
