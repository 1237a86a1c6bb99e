---------------------------- MODULE DataRootLock ----------------------------
(***************************************************************************)
(* The lock file of a data root (ServiceInstance): opened without sharing  *)
(* and deleted on close, so that the operating system frees it whenever    *)
(* its process ends.  The service and the maintenance tool both take it    *)
(* before they look at anything below the root.                            *)
(***************************************************************************)
VARIABLE
  holder          \* the process that has service.lock open

Holders == {"none", "service", "tool"}

Take(process) == holder = "none" /\ holder' = process
Leave(process) == holder = process /\ holder' = "none"
=============================================================================
