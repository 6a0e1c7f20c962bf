----------------------------- MODULE MCNvmParams -----------------------------
(* Instances of NvmParams for TLC. *)
EXTENDS NvmParams, TLC

=============================================================================
