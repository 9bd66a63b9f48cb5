------------------------------ MODULE MCMapBus ------------------------------
(* Instance of the prober for TLC: two buses, two devices, two functions.  *)
EXTENDS MapBus

(* One bridge with a valid range and one with secondary > subordinate.     *)
MCRegs == {<<1, 1>>, <<1, 0>>}

MCFilterBuses == {NoFilter, 1}
MCFilterSlots == {NoFilter, 1}
MCFilterFuncs == {NoFilter, 0}

(* -s ::.1: only function 1 of each device.                                *)
MCFilterFunc1 == {1}
=============================================================================
