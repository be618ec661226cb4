--------------------------- MODULE MCDeviceStatus ---------------------------
(* Small instances of DeviceStatus.                                        *)
EXTENDS DeviceStatus
=============================================================================
