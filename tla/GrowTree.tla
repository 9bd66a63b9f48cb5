------------------------------ MODULE GrowTree ------------------------------
(***************************************************************************)
(* The passive topology builder of lspci -t (src/lspci.c): main runs       *)
(* scan_devices and sort_them, then show_forest runs grow_tree and prints  *)
(* the tree from host_bridge.  grow_tree has four loops, one action each:  *)
(*   ListBridges    collect every device of class PCI_CLASS_BRIDGE_PCI     *)
(*                  with a bridge or CardBus header into the bridge chain; *)
(*   AssignParents  give each bridge the candidate parent with the         *)
(*                  smallest subordinate - primary, pushing it on the      *)
(*                  front of that parent's child list;                     *)
(*   SecondaryBuses create the secondary bus of every bridge;              *)
(*   InsertDevices  insert_dev every device, in registry order, starting   *)
(*                  at host_bridge.                                        *)
(* The hardware (pacc->devices) is chosen in Init among all device sets of *)
(* at most MaxDevices devices on the addresses in Slots, with bus-number   *)
(* registers in 0..MaxBus.  The model has one PCI domain.                  *)
(***************************************************************************)
EXTENDS Integers, Sequences, FiniteSets, DeviceRegistry, ShowTree

CONSTANTS
  Slots,       \* addresses <<bus, dev>> a device may occupy (function 0)
  MaxBus,      \* bus-number registers range over 0..MaxBus
  MaxDevices,  \* bound on the number of devices
  UIntMax      \* stands for ~0u, the host bridge's primary and subordinate

ASSUME UIntMax > 2 * MaxBus

LOCAL SeqX == INSTANCE SequencesExt

VARIABLES
  pacc,       \* the devices the access method enumerates
  first_dev,  \* the registry list
  br,         \* br[1] = host_bridge, br[2..] = the bridge chain
  child,      \* child[b]: b->child list of bridge ids, newest first
  bus,        \* every struct bus, in creation order
  out,        \* what show_forest printed
  pc

vars == <<pacc, first_dev, br, child, bus, out, pc>>

BusNum == 0 .. MaxBus

Endpoint(s) ==
  [dom |-> 0, bus |-> s[1], dev |-> s[2], func |-> 0,
   cls |-> ClassOther, ht |-> HeaderNormal, pri |-> 0, sec |-> 0, sub |-> 0]

Bridge(s, p, q, r) ==
  [dom |-> 0, bus |-> s[1], dev |-> s[2], func |-> 0,
   cls |-> ClassBridgePci, ht |-> HeaderBridge, pri |-> p, sec |-> q, sub |-> r]

(* A slot holds an endpoint or a PCI-to-PCI bridge with some bus-number   *)
(* registers; nothing ties the registers to the bridge's real position.     *)
Kinds == {"endpoint"} \cup (BusNum \X BusNum \X BusNum)

Make(s, k) == IF k = "endpoint" THEN Endpoint(s) ELSE Bridge(s, k[1], k[2], k[3])

Occupied == {A \in SUBSET Slots : Cardinality(A) <= MaxDevices}

(* host_bridge = { ..., 0, ~0, 0, ~0, NULL }: domain 0, primary ~0,        *)
(* secondary 0, subordinate ~0, no br_dev.                                 *)
Host == [dom |-> 0, primary |-> UIntMax, secondary |-> 0,
         subordinate |-> UIntMax, brdev |-> NoDevice]

(* class == PCI_CLASS_BRIDGE_PCI && (ht == BRIDGE || ht == CARDBUS).       *)
IsTreeBridge(d) ==
  d.cls = ClassBridgePci /\ d.ht \in {HeaderBridge, HeaderCardbus}

(* The bus-number bytes at 0x18..0x1a (the PCI_CB_* offsets are the same).  *)
BridgeRec(d) ==
  [dom |-> d.dom, primary |-> d.pri, secondary |-> d.sec,
   subordinate |-> d.sub, brdev |-> d]

(***************************************************************************)
(* best->subordinate - best->primary in unsigned int arithmetic.  UIntMax  *)
(* stands for 2^32 - 1; a wrapped difference is represented by a value     *)
(* above every unwrapped one, in the same order as the 32-bit results.     *)
(* For host_bridge it is ~0 - ~0 = 0.                                      *)
(***************************************************************************)
Width(r) ==
  IF r.subordinate >= r.primary THEN r.subordinate - r.primary
  ELSE (UIntMax - (r.primary - r.subordinate)) + 1

Candidate(brs, b, c) ==
  /\ c # b
  /\ c = 1 \/ brs[b].dom = brs[c].dom
  /\ brs[b].primary >= brs[c].secondary
  /\ brs[b].primary <= brs[c].subordinate

(* The inner loop of "Create a bridge tree": the first candidate of least   *)
(* width in chain order (host_bridge first); 0 if none.                    *)
RECURSIVE BestFrom(_, _, _, _)
BestFrom(brs, b, c, best) ==
  IF c > Len(brs) THEN best
  ELSE BestFrom(brs, b, c + 1,
         IF Candidate(brs, b, c) /\ (best = 0 \/ Width(brs[best]) > Width(brs[c]))
         THEN c ELSE best)

BestParent(brs, b) == BestFrom(brs, b, 1, 0)

(* find_bus: the bus (domain, n) in b's bus list, 0 if none.                *)
FindBus(bs, b, dom, n) ==
  LET us == SelectSeq(BusesOf(bs, b),
                      LAMBDA u : bs[u].dom = dom /\ bs[u].number = n)
  IN  IF us = <<>> THEN 0 ELSE Head(us)

NewBus(bs, b, dom, n) ==
  Append(bs, [owner |-> b, dom |-> dom, number |-> n, devs |-> <<>>])

(* *bus->last_dev = d: append at the tail of the bus's device list.         *)
AppendDev(bs, u, d) == [bs EXCEPT ![u].devs = Append(@, d)]

(***************************************************************************)
(* insert_dev(d, b): use b's bus for d's bus number if b has one;          *)
(* otherwise recurse into the first child (in child-list order) whose      *)
(* [secondary, subordinate] holds d's bus; otherwise create the bus on b.  *)
(***************************************************************************)
RECURSIVE InsertDev(_, _, _)
InsertDev(bs, d, b) ==
  LET u  == FindBus(bs, b, d.dom, d.bus)
      cs == SelectSeq(child[b], LAMBDA c : /\ br[c].dom = d.dom
                                           /\ br[c].secondary <= d.bus
                                           /\ d.bus <= br[c].subordinate)
  IN  IF u # 0 THEN AppendDev(bs, u, d)
      ELSE IF cs # <<>> THEN InsertDev(bs, d, Head(cs))
      ELSE AppendDev(NewBus(bs, b, d.dom, d.bus), Len(bs) + 1, d)

RECURSIVE InsertFrom(_, _)
InsertFrom(bs, k) ==
  IF k > Len(first_dev) THEN bs
  ELSE InsertFrom(InsertDev(bs, first_dev[k], 1), k + 1)

RECURSIVE SecondaryFrom(_, _)
SecondaryFrom(bs, b) ==
  IF b > Len(br) THEN bs
  ELSE SecondaryFrom(IF FindBus(bs, b, br[b].dom, br[b].secondary) = 0
                     THEN NewBus(bs, b, br[b].dom, br[b].secondary)
                     ELSE bs, b + 1)

-----------------------------------------------------------------------------

Init ==
  /\ \E A \in Occupied : \E f \in [A -> Kinds] : pacc = {Make(s, f[s]) : s \in A}
  /\ first_dev = <<>>
  /\ br = <<>>
  /\ child = <<>>
  /\ bus = <<>>
  /\ out = <<>>
  /\ pc = "scan"

Step(from, to) == pc = from /\ pc' = to

(* Mutant of ScanDevs: the walk of pacc->devices starts at the second one. *)
ScanDevsSkipFirst ==
  /\ Step("scan", "sort")
  /\ first_dev' = SubSeq(ScanDevices(pacc), 2, Cardinality(pacc))
  /\ UNCHANGED <<pacc, br, child, bus, out>>

ScanDevs ==
  /\ Step("scan", "sort")
  /\ first_dev' = ScanDevices(pacc)
  /\ UNCHANGED <<pacc, br, child, bus, out>>

(* Mutant of Sort: the registry is left in scan order (sort_them skipped). *)
SortSkipped ==
  /\ Step("sort", "list")
  /\ first_dev' = first_dev
  /\ UNCHANGED <<pacc, br, child, bus, out>>

Sort ==
  /\ Step("sort", "list")
  /\ first_dev' = SortThem(first_dev)
  /\ UNCHANGED <<pacc, br, child, bus, out>>

ListBridges ==
  /\ Step("list", "parent")
  /\ br' = <<Host>>  \o
           [k \in 1 .. Len(SelectSeq(first_dev, IsTreeBridge)) |->
              BridgeRec(SelectSeq(first_dev, IsTreeBridge)[k])]
  /\ UNCHANGED <<pacc, first_dev, child, bus, out>>

(* Mutant of AssignParents: children appended at the tail of the list.    *)
AssignParentsAppend ==
  /\ Step("parent", "secbus")
  /\ child' = [x \in 1 .. Len(br) |->
                 SelectSeq([b \in 1 .. Len(br) |-> b],
                           LAMBDA b : BestParent(br, b) = x)]
  /\ UNCHANGED <<pacc, first_dev, br, bus, out>>

(* Bridges are visited in chain order and pushed on the front of their      *)
(* parent's child list, so each list holds its children newest first.      *)
AssignParents ==
  /\ Step("parent", "secbus")
  /\ child' = [x \in 1 .. Len(br) |->
                 SeqX!Reverse(SelectSeq([b \in 1 .. Len(br) |-> b],
                                        LAMBDA b : BestParent(br, b) = x))]
  /\ UNCHANGED <<pacc, first_dev, br, bus, out>>

SecondaryBuses ==
  /\ Step("secbus", "insert")
  /\ bus' = SecondaryFrom(bus, 1)
  /\ UNCHANGED <<pacc, first_dev, br, child, out>>

InsertDevices ==
  /\ Step("insert", "render")
  /\ bus' = InsertFrom(bus, 1)
  /\ UNCHANGED <<pacc, first_dev, br, child, out>>

Render ==
  /\ Step("render", "done")
  /\ out' = ShowForest(br, bus)
  /\ UNCHANGED <<pacc, first_dev, br, child, bus>>

Next ==
  \/ ScanDevs
  \/ Sort
  \/ ListBridges
  \/ AssignParents
  \/ SecondaryBuses
  \/ InsertDevices
  \/ Render

Spec == Init /\ [][Next]_vars

-----------------------------------------------------------------------------

TypeOK ==
  /\ pc \in {"scan", "sort", "list", "parent", "secbus", "insert", "render", "done"}
  /\ Len(first_dev) \in {0, Cardinality(pacc)}
  /\ \A u \in DOMAIN bus : bus[u].owner \in 1 .. Len(br)
  /\ DOMAIN child \in {{}, 1 .. Len(br)}

(***************************************************************************)
(* A consistent PCI hierarchy: every bridge sits on its primary bus and     *)
(* owns [secondary, subordinate] with primary < secondary <= subordinate;  *)
(* bridge ranges are disjoint or strictly nested; a bridge lies behind     *)
(* another exactly when its range is inside the other's; and every device  *)
(* on a bus some bridge forwards to has a bridge whose secondary is that   *)
(* bus.  Buses no bridge forwards to are host buses.                       *)
(***************************************************************************)
TreeBridges(devs) == {d \in devs : IsTreeBridge(d)}

Inside(a, b) == b.sec <= a.sec /\ a.sub <= b.sub

ValidTopology(devs) ==
  LET B == TreeBridges(devs) IN
  /\ \A b \in B : b.pri = b.bus /\ b.bus < b.sec /\ b.sec <= b.sub
  /\ \A a, b \in B : a # b =>
       /\ a.sec # b.sec
       /\ a.sub < b.sec \/ b.sub < a.sec \/ Inside(a, b) \/ Inside(b, a)
       /\ (b.sec <= a.bus /\ a.bus <= b.sub) <=> Inside(a, b)
  /\ \A d \in devs :
       (\E b \in B : b.sec <= d.bus /\ d.bus <= b.sub) =>
         \E b \in B : b.sec = d.bus

(* The bridge device that forwards to d's bus, NoDevice on a host bus.      *)
Upstream(devs, d) ==
  IF \E b \in TreeBridges(devs) : b.sec = d.bus
  THEN CHOOSE b \in TreeBridges(devs) : b.sec = d.bus
  ELSE NoDevice

(***************************************************************************)
(* On a consistent hierarchy the tree lspci -t prints is the hardware:    *)
(* every device is printed exactly once, under the bridge that forwards to *)
(* its bus (host buses at the top).  It rests on sort_them, on the child   *)
(* lists being newest first so that insert_dev meets the deepest bridge    *)
(* first, and on show_tree_dev finding each bridge by its br_dev.          *)
(***************************************************************************)
TreeFaithful ==
  (pc = "done" /\ ValidTopology(pacc)) =>
    /\ Len(out) = Cardinality(pacc)
    /\ {out[k].dev : k \in DOMAIN out} = pacc
    /\ \A k \in DOMAIN out : out[k].up = Upstream(pacc, out[k].dev)

(***************************************************************************)
(* insert_dev only ever appends at a bus's tail; because the registry was  *)
(* sorted first, every bus lists its devices in (device, function) order,  *)
(* whatever the hardware reports.                                          *)
(***************************************************************************)
SlotOrder ==
  pc \in {"render", "done"} =>
    \A u \in DOMAIN bus :
      \A j, k \in DOMAIN bus[u].devs : j < k => Before(bus[u].devs[j], bus[u].devs[k])

=============================================================================
