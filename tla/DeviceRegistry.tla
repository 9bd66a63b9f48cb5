--------------------------- MODULE DeviceRegistry ---------------------------
(***************************************************************************)
(* The device registry of lspci (src/lspci.c): the list first_dev built by *)
(* scan_devices and put in (domain, bus, device, function) order by        *)
(* sort_them with compare_them.  A device is a record of its address, the  *)
(* two classification fields grow_tree reads from config space (class      *)
(* code and header type) and the three bus-number registers of a bridge   *)
(* header (primary, secondary, subordinate).                               *)
(***************************************************************************)
EXTENDS Integers, Sequences, TLC

LOCAL SeqX == INSTANCE SequencesExt

(* PCI_CLASS_BRIDGE_PCI and the header types of config byte 0x0e & 0x7f.   *)
ClassBridgePci == "pci_bridge"
ClassOther     == "other"
HeaderNormal   == "normal"
HeaderBridge   == "bridge"
HeaderCardbus  == "cardbus"

(***************************************************************************)
(* compare_them: lexicographic comparison of (domain, bus, dev, func),     *)
(* returning -1, 0 or 1.                                                   *)
(***************************************************************************)
CompareThem(a, b) ==
  CASE a.dom < b.dom   -> -1
    [] a.dom > b.dom   -> 1
    [] a.bus < b.bus   -> -1
    [] a.bus > b.bus   -> 1
    [] a.dev < b.dev   -> -1
    [] a.dev > b.dev   -> 1
    [] a.func < b.func -> -1
    [] a.func > b.func -> 1
    [] OTHER           -> 0

Before(a, b) == CompareThem(a, b) < 0

(***************************************************************************)
(* scan_devices walks pacc->devices, which the access method lists in      *)
(* ascending address order (sysfs directory order), and pushes every      *)
(* device on the front of first_dev: the registry comes out descending.    *)
(***************************************************************************)
AddressKey(a) == ((a.dom * 256 + a.bus) * 32 + a.dev) * 8 + a.func

PaccOrder(devs) ==
  SortSeq(SeqX!SetToSeq(devs), LAMBDA a, b : AddressKey(a) < AddressKey(b))

ScanDevices(devs) == SeqX!Reverse(PaccOrder(devs))

(* sort_them: qsort of the registry with compare_them, relinked in order.  *)
SortThem(seq) == SortSeq(seq, Before)

=============================================================================
