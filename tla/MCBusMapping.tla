---------------------------- MODULE MCBusMapping ----------------------------
(* Instance of lspci -M for TLC: three buses, one device with two          *)
(* functions per bus, every register pair a bridge may report.             *)
EXTENDS BusMapping

MCRegs == Bus \X Bus

MCNoFilter == {NoFilter}
=============================================================================
