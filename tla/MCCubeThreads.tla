---------------------------- MODULE MCCubeThreads ---------------------------
(* Two layers and one bit: a pass has two exposures of a tick each and ends *)
(* a tick later; the canary looks a tick after that.  One setting of the    *)
(* clock, which outlasts all that the canary waits, and one SIGINT.         *)
EXTENDS CubeThreads
=============================================================================
