----------------------------- MODULE MCPowerSave -----------------------------
(* An instance of the power-save test for TLC: any test, then a short or a cyclic one. *)
EXTENDS PowerSave
TwoTests == <<TestNames, {"M_L", "L_1"}>>
=============================================================================
