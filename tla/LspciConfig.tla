----------------------------- MODULE LspciConfig -----------------------------
(***************************************************************************)
(* How lspci (src/lspci.c) reads one device's configuration space:         *)
(* scan_device reads the header into the fixed d->config[256] and sets     *)
(* config_cnt; show_caps walks the capability list, fetching each entry    *)
(* with config_fetch before reading it; show_hex_dump fetches up to 256    *)
(* bytes (-xxx) or 4096 bytes (-xxxx) and prints cnt bytes.  config_fetch  *)
(* has no presence mask: a range ending below config_cnt is taken as       *)
(* cached, any other is read into d->config + pos, and get_conf_* reads    *)
(* d->config with no check.                                                *)
(*                                                                         *)
(* Bytes are scaled to cells of 64: the header is 1 cell, a CardBus header *)
(* 2, d->config 4 (StdCells) and a PCI Express space 8 (ExtCells).  A     *)
(* capability entry takes one cell; the registers a printer fetches after  *)
(* the entry are the next cell.  The hardware (environment, Linux sysfs): a read         *)
(* succeeds when it ends inside what the user may read (the whole space    *)
(* for root, else the header), and stores the bytes it could read.         *)
(***************************************************************************)
EXTENDS Integers, Sequences, FiniteSets

LOCAL SeqX == INSTANCE SequencesExt

CONSTANTS
  HdrCells, StdCells, ExtCells,
  HexLevels,   \* the values the -x options may give show_hex
  VerboseLevels, \* the values the -v options may give verbose
  Compliant,   \* TRUE: every capability lies inside the 256-byte space
  Cyclic       \* TRUE: the last capability may point back into the list

CbCells == 2 * HdrCells
Cell == 0 .. ExtCells - 1

(***************************************************************************)
(* The capabilities show_caps tells apart: power management, AGP, MSI,    *)
(* PCI-X, HyperTransport with a primary or secondary link command or of    *)
(* another type, "other" (VPD, slot id or an unknown id, printed from the  *)
(* entry alone) and "broken" (id 0xff).                                    *)
(***************************************************************************)
CapIds == {"pm", "agp", "msi", "pcix", "ht_pri", "ht_sec", "ht", "other", "broken"}

(* The capabilities whose registers run past the 4-byte entry.             *)
Long(id) == id \in {"pm", "agp", "msi", "pcix", "ht_pri", "ht_sec"}

HdrOf(h) == IF h = "cardbus" THEN CbCells ELSE HdrCells

Fits(at, id) == Long(id) => at + 1 < StdCells

(***************************************************************************)
(* A device: its header type, the size of its configuration space, and     *)
(* its capability list: entries at distinct cells past the header in      *)
(* ascending order, their ids, and loop: 0, or the entry the last one   *)
(* points back to (a cycle; only if Cyclic).                              *)
(***************************************************************************)
CapEntries(h, sz) ==
  UNION {{[hdr |-> h, size |-> sz, at |-> SeqX!SetToSortSeq(A, LAMBDA x, y : x < y),
           id |-> kd, loop |-> lp] :
            kd \in [1 .. Cardinality(A) -> CapIds],
            lp \in IF Cyclic THEN 0 .. Cardinality(A) ELSE {0}} :
           A \in SUBSET (HdrOf(h) .. StdCells - 1)}

Devices == UNION {CapEntries(h, sz) : h \in {"normal", "bridge", "cardbus"}, sz \in {StdCells, ExtCells}}

VARIABLES
  dev, root, verbose, machine, hex,  \* the device and the command line (-m: machine)
  config_cnt,  \* d->config_cnt
  valid,       \* the cells of d->config (or past it) holding device data
  shown,       \* the cells get_conf_* has read
  where,       \* show_caps: the entry being shown, 0 at the end
  pc           \* "scan", "show", "caps", "hex", "done"

vars == <<dev, root, verbose, machine, hex, config_cnt, valid, shown, where, pc>>

Span(p, l) == p .. p + l - 1

(***************************************************************************)
(* What a capability printer does after the line it prints from the entry: *)
(* "none", "checked" (config_fetch the rest and return if that fails, then *)
(* read it) or "unchecked" (config_fetch the rest and read it whatever the *)
(* fetch returned).  Every printer that fetches returns first below -vv.   *)
(***************************************************************************)
ShowPm == IF verbose < 2 THEN "none" ELSE "checked"

ShowAgp == IF verbose < 2 THEN "none" ELSE "checked"

ShowMsi == IF verbose < 2 THEN "none" ELSE "checked"

(* show_pcix_nobridge or show_pcix_bridge by header type; none for CardBus. *)
ShowPcix == IF verbose < 2 \/ dev.hdr = "cardbus" THEN "none" ELSE "checked"

ShowHtPri == IF verbose < 2 THEN "none" ELSE "unchecked"

ShowHtSec == IF verbose < 2 THEN "none" ELSE "unchecked"

(* show_ht: the two link interfaces, or one line for any other type.       *)
ShowHt(id) ==
  CASE id = "ht_pri" -> ShowHtPri
    [] id = "ht_sec" -> ShowHtSec
    [] OTHER         -> "none"

(* The switch of show_caps on the capability id.                           *)
Printer(id) ==
  CASE id = "pm"   -> ShowPm
    [] id = "agp"  -> ShowAgp
    [] id = "msi"  -> ShowMsi
    [] id = "pcix" -> ShowPcix
    [] id \in {"ht_pri", "ht_sec", "ht"} -> ShowHt(id)
    [] OTHER       -> "none"

Limit == IF root THEN dev.size ELSE HdrOf(dev.hdr)

(* config_fetch returns 1: the range ends below config_cnt, or the read    *)
(* succeeds.                                                               *)
FetchOK(pos, len) == pos + len < config_cnt \/ pos + len <= Limit

(* The cells pci_read_block stores into d->config + pos.                   *)
Fetched(pos, len) ==
  IF pos + len < config_cnt THEN {} ELSE {c \in Span(pos, len) : c < Limit}

(* The rest of the entry is read: the printer fetched it and either did    *)
(* not look at the result or the fetch worked.                              *)
ReadsRest(r) == r = "unchecked" \/ (r = "checked" /\ FetchOK(where + 1, 1))

Init ==
  /\ dev \in {d \in Devices : Compliant => \A i \in DOMAIN d.at : Fits(d.at[i], d.id[i])}
  /\ root \in BOOLEAN /\ verbose \in VerboseLevels /\ machine \in BOOLEAN
  /\ hex \in HexLevels
  /\ config_cnt = 0 /\ valid = {} /\ shown = {} /\ where = 0
  /\ pc = "scan"

(* scan_device: 64 header bytes, 64 more for a CardBus bridge.             *)
ScanDevice ==
  /\ pc = "scan"
  /\ config_cnt' = HdrOf(dev.hdr)
  /\ valid' = Span(0, HdrOf(dev.hdr))
  /\ pc' = "show"
  /\ UNCHANGED <<dev, root, verbose, machine, hex, shown, where>>

(* show_verbose goes on by header type: show_htype0 and show_htype1 end   *)
(* in show_caps; show_htype2 reads the CardBus registers past byte 63 and  *)
(* never walks the capabilities.                                           *)
WalksCaps == dev.hdr # "cardbus"

CardBusRegs == IF dev.hdr = "cardbus" THEN {HdrCells} ELSE {}

(* show_terse and the start of show_verbose: class, revision, prog-if,     *)
(* command, status and header type, all inside the 64-byte header.        *)
HeaderRegs == {0}

(* show_machine: a CardBus bridge's subsystem ids are at 0x40 and 0x42,    *)
(* past the 64-byte header; a normal header's lie inside it.              *)
MachineRegs == IF dev.hdr = "cardbus" THEN {HdrCells} ELSE {}

(***************************************************************************)
(* show_bases(d, cnt): the base address registers.  A slot holds what      *)
(* get_conf_long reads there, 0xffffffff taken as 0 and a flag-less       *)
(* address the OS reported taken as the flag: nothing, an I/O or a 32-bit  *)
(* memory region (one slot each), or a 64-bit memory region, whose upper   *)
(* half is the next slot.  The walk gives the regions it prints, as        *)
(* <<slot, kind>>, and the slots it reads.                                *)
(***************************************************************************)
BarKinds == {"none", "io", "mem32", "mem64"}

(* show_htype0, show_htype1 and show_htype2 call show_bases with 6, 2, 1.  *)
BarCount(h) == CASE h = "normal" -> 6 [] h = "bridge" -> 2 [] h = "cardbus" -> 1

Bases(rs, rd) == [regions |-> rs, reads |-> rd]

Then(region, rd, rest) ==
  Bases(region \o rest.regions, rd \cup rest.reads)

(* Mutant of ShowBases: the 64-bit check lets the last slot through.       *)
RECURSIVE ShowBasesLastSlot(_, _, _)
ShowBasesLastSlot(bar, cnt, i) ==
  IF i >= cnt THEN Bases(<<>>, {})
  ELSE CASE bar[i] = "none" -> Then(<<>>, {i}, ShowBasesLastSlot(bar, cnt, i + 1))
         [] bar[i] = "mem64" /\ i > cnt - 1 ->
              Then(<<<<i, "invalid">>>>, {i}, ShowBasesLastSlot(bar, cnt, i + 1))
         [] bar[i] = "mem64" ->
              Then(<<<<i, "mem64">>>>, {i, i + 1}, ShowBasesLastSlot(bar, cnt, i + 2))
         [] OTHER -> Then(<<<<i, bar[i]>>>>, {i}, ShowBasesLastSlot(bar, cnt, i + 1))

(* Mutant of ShowBases: i is not advanced past the upper half.             *)
RECURSIVE ShowBasesNoSkip(_, _, _)
ShowBasesNoSkip(bar, cnt, i) ==
  IF i >= cnt THEN Bases(<<>>, {})
  ELSE CASE bar[i] = "none" -> Then(<<>>, {i}, ShowBasesNoSkip(bar, cnt, i + 1))
         [] bar[i] = "mem64" /\ i >= cnt - 1 ->
              Then(<<<<i, "invalid">>>>, {i}, ShowBasesNoSkip(bar, cnt, i + 1))
         [] bar[i] = "mem64" ->
              Then(<<<<i, "mem64">>>>, {i, i + 1}, ShowBasesNoSkip(bar, cnt, i + 1))
         [] OTHER -> Then(<<<<i, bar[i]>>>>, {i}, ShowBasesNoSkip(bar, cnt, i + 1))

(***************************************************************************)
(* The loop from slot i: an empty slot is skipped; a 64-bit region in the  *)
(* last slot prints "<invalid-64bit-slot>"; any other 64-bit region reads  *)
(* its upper half with i++ and the loop goes on past it.                  *)
(***************************************************************************)
RECURSIVE ShowBases(_, _, _)
ShowBases(bar, cnt, i) ==
  IF i >= cnt THEN Bases(<<>>, {})
  ELSE CASE bar[i] = "none" -> Then(<<>>, {i}, ShowBases(bar, cnt, i + 1))
         [] bar[i] = "mem64" /\ i >= cnt - 1 ->
              Then(<<<<i, "invalid">>>>, {i}, ShowBases(bar, cnt, i + 1))
         [] bar[i] = "mem64" ->
              Then(<<<<i, "mem64">>>>, {i, i + 1}, ShowBases(bar, cnt, i + 2))
         [] OTHER -> Then(<<<<i, bar[i]>>>>, {i}, ShowBases(bar, cnt, i + 1))

(***************************************************************************)
(* show_device: show_machine (-m) or show_terse read the header;           *)
(* show_verbose (-v) reads it and goes on by header type; show_caps reads  *)
(* PCI_STATUS and PCI_CAPABILITY_LIST and starts at the first entry.      *)
(***************************************************************************)
ShowDevice ==
  /\ pc = "show"
  /\ LET verb == ~machine /\ verbose > 0 IN
       /\ shown' = shown \cup HeaderRegs \cup (IF verb THEN CardBusRegs ELSE {})
                        \cup (IF machine THEN MachineRegs ELSE {})
       /\ where' = IF verb /\ WalksCaps /\ dev.at # <<>> THEN dev.at[1] ELSE 0
  /\ pc' = "caps"
  /\ UNCHANGED <<dev, root, verbose, machine, hex, config_cnt, valid>>

Entry == CHOOSE i \in DOMAIN dev.at : dev.at[i] = where

(* Mutant of NextCap: the walk moves to the adjacent cell.                 *)
NextCapAdjacent(i) == dev.at[i] + 1

(* The entry's next pointer: the following entry, the loop, or 0.          *)
NextCap(i) ==
  IF i < Len(dev.at) THEN dev.at[i + 1]
  ELSE IF dev.loop # 0 THEN dev.at[dev.loop] ELSE 0

(* config_fetch(d, where, 4) fails: "<available only to root>".           *)
CapRootOnly ==
  /\ pc = "caps" /\ where # 0
  /\ ~FetchOK(where, 1)
  /\ valid' = valid \cup Fetched(where, 1)
  /\ pc' = "hex"
  /\ UNCHANGED <<dev, root, verbose, machine, hex, config_cnt, shown, where>>

(* id 0xff: "<chain broken>".                                              *)
CapBroken ==
  /\ pc = "caps" /\ where # 0
  /\ FetchOK(where, 1) /\ dev.id[Entry] = "broken"
  /\ valid' = valid \cup Fetched(where, 1)
  /\ shown' = shown \cup {where}
  /\ pc' = "hex"
  /\ UNCHANGED <<dev, root, verbose, machine, hex, config_cnt, where>>

(* Mutant of CapShow: where is not advanced to next.                       *)
CapShowStuck ==
  /\ pc = "caps" /\ where # 0
  /\ FetchOK(where, 1) /\ dev.id[Entry] # "broken"
  /\ valid' = valid \cup Fetched(where, 1)
            \cup (IF Printer(dev.id[Entry]) # "none" THEN Fetched(where + 1, 1) ELSE {})
  /\ shown' = shown \cup {where}
  /\ UNCHANGED <<dev, root, verbose, machine, hex, config_cnt, where, pc>>

(* The entry is read and printed by its printer; where = next.            *)
CapShow ==
  /\ pc = "caps" /\ where # 0
  /\ FetchOK(where, 1) /\ dev.id[Entry] # "broken"
  /\ LET r == Printer(dev.id[Entry]) IN
       /\ valid' = valid \cup Fetched(where, 1)
                 \cup (IF r # "none" THEN Fetched(where + 1, 1) ELSE {})
       /\ shown' = shown \cup {where} \cup (IF ReadsRest(r) THEN {where + 1} ELSE {})
  /\ where' = NextCap(Entry)
  /\ UNCHANGED <<dev, root, verbose, machine, hex, config_cnt, pc>>

CapsEnd ==
  /\ pc = "caps" /\ where = 0
  /\ pc' = "hex"
  /\ UNCHANGED <<dev, root, verbose, machine, hex, config_cnt, valid, shown, where>>

(* Mutant of HexDump: -xxx asks for 256 bytes from cnt, not 256 - cnt.     *)
HexDumpWhole ==
  /\ pc = "hex"
  /\ LET f3  == hex >= 3
         ok3 == f3 /\ FetchOK(config_cnt, StdCells)
         f4  == ok3 /\ hex >= 4
         ok4 == f4 /\ FetchOK(StdCells, ExtCells - StdCells)
         cnt == IF ok4 THEN ExtCells ELSE IF ok3 THEN StdCells ELSE config_cnt
     IN  /\ valid' = valid \cup (IF f3 THEN Fetched(config_cnt, StdCells) ELSE {})
                          \cup (IF f4 THEN Fetched(StdCells, ExtCells - StdCells) ELSE {})
         /\ shown' = shown \cup (IF hex > 0 THEN Span(0, cnt) ELSE {})
  /\ pc' = "done"
  /\ UNCHANGED <<dev, root, verbose, machine, hex, config_cnt, where>>

(* Mutant of HexDump: cnt = 256 with -xxx whether the fetch worked or not. *)
HexDumpIgnoresFetch ==
  /\ pc = "hex"
  /\ LET f3  == hex >= 3
         f4  == f3 /\ hex >= 4
         ok4 == f4 /\ FetchOK(StdCells, ExtCells - StdCells)
         cnt == IF ok4 THEN ExtCells ELSE IF f3 THEN StdCells ELSE config_cnt
     IN  /\ valid' = valid \cup (IF f3 THEN Fetched(config_cnt, StdCells - config_cnt) ELSE {})
                          \cup (IF f4 THEN Fetched(StdCells, ExtCells - StdCells) ELSE {})
         /\ shown' = shown \cup (IF hex > 0 THEN Span(0, cnt) ELSE {})
  /\ pc' = "done"
  /\ UNCHANGED <<dev, root, verbose, machine, hex, config_cnt, where>>

(***************************************************************************)
(* show_hex_dump: with -xxx fetch [cnt, 256) and, if that worked, with     *)
(* -xxxx fetch [256, 4096) into d->config + 256; cnt grows with each       *)
(* fetch that worked; with -x the first cnt bytes are printed.             *)
(***************************************************************************)
HexDump ==
  /\ pc = "hex"
  /\ LET f3  == hex >= 3
         ok3 == f3 /\ FetchOK(config_cnt, StdCells - config_cnt)
         f4  == ok3 /\ hex >= 4
         ok4 == f4 /\ FetchOK(StdCells, ExtCells - StdCells)
         cnt == IF ok4 THEN ExtCells ELSE IF ok3 THEN StdCells ELSE config_cnt
     IN  /\ valid' = valid \cup (IF f3 THEN Fetched(config_cnt, StdCells - config_cnt) ELSE {})
                          \cup (IF f4 THEN Fetched(StdCells, ExtCells - StdCells) ELSE {})
         /\ shown' = shown \cup (IF hex > 0 THEN Span(0, cnt) ELSE {})
  /\ pc' = "done"
  /\ UNCHANGED <<dev, root, verbose, machine, hex, config_cnt, where>>

Next ==
  \/ ScanDevice \/ ShowDevice
  \/ CapRootOnly \/ CapBroken \/ CapShow \/ CapsEnd
  \/ HexDump

(* Every step of show_device is taken as soon as it can be.                *)
Spec == Init /\ [][Next]_vars /\ WF_vars(Next)

-----------------------------------------------------------------------------

TypeOK ==
  /\ pc \in {"scan", "show", "caps", "hex", "done"}
  /\ config_cnt \in {0, HdrCells, CbCells}
  /\ valid \subseteq Cell /\ shown \subseteq Cell
  /\ where \in {0} \cup {dev.at[i] : i \in DOMAIN dev.at}

(***************************************************************************)
(* Every configuration byte lspci prints or decodes was read from the      *)
(* device: show_caps stops at a fetch that failed, and show_hex_dump only  *)
(* prints as far as its fetches got.                                      *)
(***************************************************************************)
ShownFetched == shown \subseteq valid

(***************************************************************************)
(* lspci never reads or writes past d->config[255]: config_fetch and       *)
(* get_conf_* stay inside the fixed 256-byte buffer.                      *)
(***************************************************************************)
InBounds == valid \cup shown \subseteq 0 .. StdCells - 1

(***************************************************************************)
(* show_device finishes: the capability walk ends, at the end of the list, *)
(* at a broken entry or at a fetch that failed.                           *)
(***************************************************************************)
CapsTerminate == <>(pc = "done")

(***************************************************************************)
(* The base address registers as the PCI header lays them out: slot s is   *)
(* the upper half of a 64-bit region when slot s - 1 holds the lower half  *)
(* of one; every other non-empty slot is a region of its own, and a        *)
(* 64-bit region with no slot left for its upper half is invalid.          *)
(***************************************************************************)
RECURSIVE UpperHalf(_, _)
UpperHalf(bar, s) == s > 0 /\ bar[s - 1] = "mem64" /\ ~UpperHalf(bar, s - 1)

LayoutRegions(bar, cnt) ==
  LET ss == SeqX!SetToSortSeq({s \in 0 .. cnt - 1 : bar[s] # "none" /\ ~UpperHalf(bar, s)},
                              LAMBDA x, y : x < y)
      Kind(s) == IF bar[s] = "mem64" /\ s = cnt - 1 THEN "invalid" ELSE bar[s]
  IN  [k \in DOMAIN ss |-> <<ss[k], Kind(ss[k])>>]

BarLayouts == [0 .. 5 -> BarKinds]

Headers == {"normal", "bridge", "cardbus"}

(* For each header type: show_bases prints exactly the layout's regions,   *)
(* and reads exactly its slots, for every layout of the six slots.         *)
BasesRegionsOK ==
  [h \in Headers |-> \A bar \in BarLayouts :
                      ShowBases(bar, BarCount(h), 0).regions = LayoutRegions(bar, BarCount(h))]

BasesReadsOK ==
  [h \in Headers |-> \A bar \in BarLayouts :
                      ShowBases(bar, BarCount(h), 0).reads = 0 .. BarCount(h) - 1]

(* show_verbose has run for the device, and with it show_bases.            *)
Verbosed == pc \in {"caps", "hex", "done"} /\ ~machine /\ verbose > 0

(***************************************************************************)
(* Once show_verbose has shown the device, whatever its base address       *)
(* registers hold: show_bases printed each region of the layout once, in   *)
(* slot order, and never the upper half of a 64-bit region as a region of  *)
(* its own.                                                                *)
(***************************************************************************)
BasesAreRegions == Verbosed => BasesRegionsOK[dev.hdr]

(***************************************************************************)
(* Once show_verbose has shown the device, whatever its base address       *)
(* registers hold: show_bases read every slot of the header and nothing    *)
(* past the last; a 64-bit region in a bridge's slot 1 must not read slot  *)
(* 2, which is PCI_PRIMARY_BUS, as its upper half.                        *)
(***************************************************************************)
BasesInSlots == Verbosed => BasesReadsOK[dev.hdr]

=============================================================================
