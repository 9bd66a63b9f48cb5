------------------------------ MODULE ShowTree ------------------------------
(***************************************************************************)
(* The tree output of lspci -t (src/lspci.c, show_tree_bridge,             *)
(* show_tree_bus, show_tree_dev), as the sequence of devices it prints in  *)
(* depth-first order.  Each entry records the device and the bridge device *)
(* it is printed under (NoDevice for the host bridge), which is what the   *)
(* indentation of the picture conveys; glyphs and number formatting are    *)
(* left out.                                                               *)
(*                                                                         *)
(* The tree is the one grow_tree builds: br[1] is host_bridge and br[2..]  *)
(* the bridge chain, each with its br_dev; bus is the sequence of struct   *)
(* bus in creation order, each with its owner bridge and its device list.  *)
(***************************************************************************)
EXTENDS Integers, Sequences, FiniteSets

NoDevice == [none |-> TRUE]

(* b->first_bus: new_bus pushes on the front, so newest bus first.          *)
BusesOf(bus, b) ==
  LET ids == {u \in DOMAIN bus : bus[u].owner = b}
      newer(u) == {v \in ids : v > u}
  IN  [k \in 1 .. Cardinality(ids) |->
         CHOOSE u \in ids : Cardinality(newer(u)) = k - 1]

(* The bridge whose br_dev is d, first in chain order; 0 if there is none. *)
BridgeOf(br, d) ==
  IF \E k \in 2 .. Len(br) : br[k].brdev = d
  THEN CHOOSE k \in 2 .. Len(br) :
         br[k].brdev = d /\ \A j \in 2 .. k - 1 : br[j].brdev # d
  ELSE 0

RECURSIVE ShowTreeBridge(_, _, _), ShowBuses(_, _, _, _),
          ShowDevs(_, _, _, _, _), ShowTreeDev(_, _, _, _)

(* show_tree_dev: print d; if it is a bridge, print its subtree.            *)
ShowTreeDev(br, bus, d, up) ==
  <<[dev |-> d, up |-> up]>> \o
    (IF BridgeOf(br, d) # 0 THEN ShowTreeBridge(br, bus, BridgeOf(br, d))
                            ELSE <<>>)

(* show_tree_bus: the devices of one bus, in list order.                    *)
ShowDevs(br, bus, ds, up, k) ==
  IF k > Len(ds) THEN <<>>
  ELSE ShowTreeDev(br, bus, ds[k], up) \o ShowDevs(br, bus, ds, up, k + 1)

(* show_tree_bridge: every bus of the bridge, first_bus first.              *)
ShowBuses(br, bus, us, b) ==
  IF us = <<>> THEN <<>>
  ELSE ShowDevs(br, bus, bus[Head(us)].devs, br[b].brdev, 1)
         \o ShowBuses(br, bus, Tail(us), b)

ShowTreeBridge(br, bus, b) == ShowBuses(br, bus, BusesOf(bus, b), b)

(* show_forest, after grow_tree: the walk from host_bridge.                 *)
ShowForest(br, bus) == ShowTreeBridge(br, bus, 1)

=============================================================================
