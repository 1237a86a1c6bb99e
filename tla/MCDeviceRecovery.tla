--------------------------- MODULE MCDeviceRecovery ---------------------------
(* Instances of DeviceRecovery for TLC. *)
EXTENDS DeviceRecovery
=============================================================================
