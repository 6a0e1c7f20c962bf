-------------------------- MODULE MCFirmwareUpdate --------------------------
(* Instances of FirmwareUpdate for TLC. *)
EXTENDS FirmwareUpdate, TLC

CONSTANTS v1, v2, v3, alien      \* application files and a foreign one

\* v2 fills one sector and a half, the others one.
MCChunks == [i \in Images |-> IF i = v2 THEN 3 ELSE 2]

MCErasedSectors == 2097151

=============================================================================
