----------------------------- MODULE MCDevices -----------------------------
(* The devices with small buffers and few bytes.                           *)
EXTENDS Devices, TLC
=============================================================================
