-------------------------- MODULE MCWorkloadIngest --------------------------
(* Values of the constants of WorkloadIngest that a configuration cannot     *)
(* write down: the absent number is -1.  The names of the v1 files do not    *)
(* matter.                                                                   *)
EXTENDS WorkloadIngest

SomeSamples ==
  {[ts |-> 6,  active |-> TRUE,  used |-> 2, total |-> 2],
   [ts |-> 6,  active |-> TRUE,  used |-> 2, total |-> 3],
   [ts |-> 13, active |-> TRUE,  used |-> 2, total |-> None],
   [ts |-> 13, active |-> FALSE, used |-> 2, total |-> 2]}
NoSysfs     == {None}
SysfsOrNone == {None, 1}
FileNames   == Permutations(Legacy)
=============================================================================
