--------------------------- MODULE MCInstanceLock ---------------------------
(* Two runtimes, a supervisor and an offline tool on one storage root.     *)
EXTENDS InstanceLock, TLC

CONSTANTS r1, r2, sup, tool

RootProcs == {r1, r2, sup, tool}
RootLocks == {"supervisor", "instance"}
RootWants ==
  r1 :> <<"instance">> @@ r2 :> <<"instance">>
    @@ sup :> <<"supervisor">> @@ tool :> <<"supervisor", "instance">>

=============================================================================
