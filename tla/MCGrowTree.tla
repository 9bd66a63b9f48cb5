----------------------------- MODULE MCGrowTree -----------------------------
(***************************************************************************)
(* Model values for GrowTree: four device addresses, two on bus 0 (so a    *)
(* bus holds more than one device) and one each on buses 1 and 2 (so two *)
(* bridges can nest), bus registers 0..2, at most three devices.           *)
(***************************************************************************)
EXTENDS GrowTree

MCSlots == {<<0, 0>>, <<0, 1>>, <<1, 0>>, <<2, 0>>}

(* 2^31 - 1, the largest TLC integer, stands for ~0u.                       *)
MCUIntMax == 2147483647

=============================================================================
