---------------------------- MODULE MCDeviceVfs ----------------------------
(* DeviceVfs with a few calling threads; the configurations name them. *)
EXTENDS DeviceVfs
=============================================================================
