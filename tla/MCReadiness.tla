---------------------------- MODULE MCReadiness ----------------------------
(***************************************************************************)
(* What check_status may report to GET /ready.                             *)
(***************************************************************************)
EXTENDS Readiness

MC_Reports == {[configured |-> FALSE, reachable |-> FALSE],
               [configured |-> TRUE, reachable |-> FALSE],
               [configured |-> TRUE, reachable |-> TRUE]}

=============================================================================
