--------------------------- MODULE MCKernelDevice ---------------------------
(* Instances of KernelDevice for TLC.                                       *)
EXTENDS KernelDevice
=============================================================================
