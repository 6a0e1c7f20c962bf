-------------------------- MODULE MCFpgaRegisters --------------------------
(* Two registers of two bytes; two values that differ from zero in one     *)
(* byte and in both.                                                       *)
EXTENDS FpgaRegisters

MCZero == <<0, 0>>
MCValues == {<<0, 0>>, <<1, 0>>, <<1, 1>>}
=============================================================================
