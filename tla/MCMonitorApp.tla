---------------------------- MODULE MCMonitorApp ----------------------------
(***************************************************************************)
(* MonitorApp on small instances: two operations in two categories, one    *)
(* operation excluded at the start, a memory limit of one or two events.   *)
(***************************************************************************)
EXTENDS MonitorApp

TwoOperations == {"open", "ioctl"}
TwoCategories == {"file", "other"}
CategoryByOperation ==
  [o \in TwoOperations |-> IF o = "open" THEN "file" ELSE "other"]
IoctlOnly == {"ioctl"}
NobodyOrOne == {{}, {"p"}}
=============================================================================
