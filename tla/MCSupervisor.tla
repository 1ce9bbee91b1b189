---------------------------- MODULE MCSupervisor ----------------------------
(* A tick is the monitor's interval. *)
EXTENDS Supervisor

SomeSleeps == {3, 6}

=============================================================================
