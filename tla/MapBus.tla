------------------------------- MODULE MapBus -------------------------------
(***************************************************************************)
(* The bus-mapping prober of lspci -M (src/lspci.c, map_the_bus,           *)
(* do_map_bus and map_bridge).  For every bus (or only filter.bus), every  *)
(* device number matching filter.slot and every function below func_limit  *)
(* matching filter.func, it reads the vendor id; a present function marks  *)
(* the bus as existing, is run through scan_device, and a bridge header    *)
(* adds a claim (bus, first, last) on the front of the bus's list.         *)
(* func_limit starts at 1 per device and becomes 8 only when function 0    *)
(* has the multi-function bit.                                             *)
(*                                                                         *)
(* Bus, device and function numbers are scaled down to 0..MaxBus,          *)
(* 0..MaxDev and 0..MaxFunc (255, 31 and 7 in the code).  A CardBus        *)
(* header reads its bus numbers at the same offsets as a bridge header     *)
(* (0x18..0x1a) and its extra header read can only fail like the first,    *)
(* so it is not told apart from a bridge.  The bridge's primary bus,       *)
(* device and function are only printed and are left out of a claim.      *)
(***************************************************************************)
EXTENDS Integers, Sequences, FiniteSets

CONSTANTS
  MaxBus, MaxDev, MaxFunc,
  MaxPresent,    \* bound on the number of present functions
  Regs,          \* the (secondary, subordinate) pairs a bridge may report
  FilterBuses,   \* the values filter.bus may have (NoFilter or a bus)
  FilterSlots,   \* the values filter.slot may have
  FilterFuncs,   \* the values filter.func may have
  IdFilter,      \* TRUE: a -d vendor:device filter may reject functions
  ReadFails,     \* TRUE: pci_read_block of a header may fail
  HeapBytes      \* the values an uninitialised b->bug may hold

NoFilter == -1                     \* a filter field left at -1
Bus  == 0 .. MaxBus
Dev  == 0 .. MaxDev
Func == 0 .. MaxFunc
Addr == Bus \X Dev \X Func

VARIABLES
  hw,          \* hw[a]: the function at address a (present ones only)
  match,       \* the present functions the -d filter accepts
  filter,      \* [bus, slot, func] of the -s filter
  heap,        \* heap[k]: what the k-th struct bus_bridge holds in b->bug
  pbus, pdev, pfunc, flimit,   \* the loop counters and func_limit
  exists,      \* bus_info[].exists
  claim,       \* every struct bus_bridge, in creation order
  bridges,     \* bus_info[].bridges: claim ids per bus, newest first
  bug,         \* bus_bridge.bug per claim
  found,       \* history: the present functions discovered
  phase        \* "probe", "mapped" (map_bridges may run) or "dead"

probeVars == <<hw, match, filter, heap, pbus, pdev, pfunc, flimit,
               exists, claim, bridges, bug, found, phase>>

(***************************************************************************)
(* The hardware.  A function is an endpoint (NoRegs) or a bridge with a  *)
(* (secondary, subordinate) pair of Regs; mf is bit 7 of the header type, *)
(* which the code reads for function 0 only.  On real hardware a function *)
(* other than 0 exists only beside a function 0 with that bit.            *)
(***************************************************************************)
NoRegs == <<>>                     \* a normal header: no bus registers
Kind == {NoRegs} \cup Regs

Fn0(a) == <<a[1], a[2], 0>>

Present ==
  {P \in SUBSET Addr : /\ Cardinality(P) <= MaxPresent
                       /\ \A a \in P : Fn0(a) \in P}

FilterOK(f, v) == f = NoFilter \/ f = v

Init ==
  /\ \E P \in Present : \E k \in [P -> Kind] : \E m \in SUBSET {a \in P : a[3] = 0} :
       /\ \A a \in P : a[3] # 0 => Fn0(a) \in m
       /\ hw = [a \in P |-> [kind |-> k[a], mf |-> a \in m]]
  /\ match \in IF IdFilter THEN SUBSET DOMAIN hw ELSE {DOMAIN hw}
  /\ filter \in [bus : FilterBuses, slot : FilterSlots, func : FilterFuncs]
  /\ heap \in [1 .. MaxPresent -> HeapBytes]
  /\ pbus = IF filter.bus = NoFilter THEN 0 ELSE filter.bus
  /\ pdev = 0 /\ pfunc = 0 /\ flimit = 1
  /\ exists = [b \in Bus |-> FALSE]
  /\ claim = <<>>
  /\ bridges = [b \in Bus |-> <<>>]
  /\ bug = <<>>
  /\ found = {}
  /\ phase = "probe"

Here == <<pbus, pdev, pfunc>>

(* The function loop may look at function pfunc of device pdev.             *)
InFuncLoop ==
  /\ phase = "probe"
  /\ pdev <= MaxDev /\ FilterOK(filter.slot, pdev)
  /\ pfunc < flimit

(* pfunc is filtered out, or its vendor id reads 0 or 0xffff.               *)
ProbeSkip ==
  /\ InFuncLoop
  /\ ~FilterOK(filter.func, pfunc) \/ Here \notin DOMAIN hw
  /\ pfunc' = pfunc + 1
  /\ UNCHANGED <<hw, match, filter, heap, pbus, pdev, flimit, exists, claim,
                 bridges, bug, found, phase>>

(* Mutant of Discover: func_limit is never raised to 8.                    *)
DiscoverNoMf ==
  /\ InFuncLoop
  /\ FilterOK(filter.func, pfunc) /\ Here \in DOMAIN hw
  /\ UNCHANGED flimit
  /\ exists' = [exists EXCEPT ![pbus] = TRUE]
  /\ found' = found \cup {Here}
  /\ pfunc' = pfunc + 1
  /\ UNCHANGED <<hw, match, filter, heap, pbus, pdev>>

(* A present function: func_limit, bi->exists; then scan_device.           *)
Discover ==
  /\ InFuncLoop
  /\ FilterOK(filter.func, pfunc) /\ Here \in DOMAIN hw
  /\ flimit' = IF pfunc = 0 /\ hw[Here].mf THEN MaxFunc + 1 ELSE flimit
  /\ exists' = [exists EXCEPT ![pbus] = TRUE]
  /\ found' = found \cup {Here}
  /\ pfunc' = pfunc + 1
  /\ UNCHANGED <<hw, match, filter, heap, pbus, pdev>>

(* scan_device returns NULL: "But it was filtered out."                     *)
ProbeFiltered ==
  /\ Discover
  /\ Here \notin match
  /\ UNCHANGED <<claim, bridges, bug, phase>>

(* scan_device: the header read fails and die() ends the program.          *)
ProbeDie ==
  /\ ReadFails
  /\ Discover
  /\ Here \in match
  /\ phase' = "dead"
  /\ UNCHANGED <<claim, bridges, bug>>

(* A normal header: shown, nothing else recorded.                           *)
ProbeEndpoint ==
  /\ Discover
  /\ Here \in match /\ hw[Here].kind = NoRegs
  /\ UNCHANGED <<claim, bridges, bug, phase>>

(* Mutant of MapBridge: the invalid-range clamp is dropped.                *)
MapBridgeNoClamp(b, k) == [bus |-> b, first |-> k[1], last |-> k[2]]

(***************************************************************************)
(* map_bridge: the claim [first = secondary, last = subordinate] of bus b, *)
(* with a range first > last clamped to last = first ("invalid bus        *)
(* range"); ProbeBridge pushes it on the front of the bus's list.          *)
(***************************************************************************)
MapBridge(b, k) ==
  [bus |-> b, first |-> k[1], last |-> IF k[1] > k[2] THEN k[1] ELSE k[2]]

(* Mutant of ProbeBridge: the claim is filed under bus_info[first].        *)
ProbeBridgeWrongBus ==
  /\ Discover
  /\ Here \in match /\ hw[Here].kind # NoRegs
  /\ claim' = Append(claim, MapBridge(pbus, hw[Here].kind))
  /\ bridges' = [bridges EXCEPT ![hw[Here].kind[1]] = <<Len(claim) + 1>> \o @]
  /\ bug' = Append(bug, heap[Len(claim) + 1])
  /\ UNCHANGED phase

ProbeBridge ==
  /\ Discover
  /\ Here \in match /\ hw[Here].kind # NoRegs
  /\ claim' = Append(claim, MapBridge(pbus, hw[Here].kind))
  /\ bridges' = [bridges EXCEPT ![pbus] = <<Len(claim) + 1>> \o @]
  /\ bug' = Append(bug, heap[Len(claim) + 1])
  /\ UNCHANGED phase

(* End of the function loop, or a device filter.slot rejects.               *)
NextDev ==
  /\ phase = "probe"
  /\ pdev <= MaxDev
  /\ ~FilterOK(filter.slot, pdev) \/ pfunc >= flimit
  /\ pdev' = pdev + 1 /\ pfunc' = 0 /\ flimit' = 1
  /\ UNCHANGED <<hw, match, filter, heap, pbus, exists, claim, bridges, bug,
                 found, phase>>

(* End of do_map_bus: the loop of map_the_bus goes on with the next bus.  *)
NextBus ==
  /\ phase = "probe"
  /\ pdev > MaxDev
  /\ filter.bus = NoFilter /\ pbus < MaxBus
  /\ pbus' = pbus + 1 /\ pdev' = 0
  /\ UNCHANGED <<hw, match, filter, heap, pfunc, flimit, exists, claim,
                 bridges, bug, found, phase>>

(* After the last bus, or the only one of filter.bus: map_bridges.          *)
EndProbe ==
  /\ phase = "probe"
  /\ pdev > MaxDev
  /\ filter.bus # NoFilter \/ pbus = MaxBus
  /\ phase' = "mapped"
  /\ UNCHANGED <<hw, match, filter, heap, pbus, pdev, pfunc, flimit, exists,
                 claim, bridges, bug, found>>

ProbeNext ==
  \/ ProbeSkip \/ ProbeFiltered \/ ProbeDie \/ ProbeEndpoint \/ ProbeBridge
  \/ NextDev \/ NextBus \/ EndProbe

(* The program only stops at the summary or at die().                      *)
ProbeSpec == Init /\ [][ProbeNext]_probeVars /\ WF_probeVars(ProbeNext)

-----------------------------------------------------------------------------

TypeOK ==
  /\ phase \in {"probe", "mapped", "dead"}
  /\ pfunc \in 0 .. MaxFunc + 1 /\ flimit \in {1, MaxFunc + 1}
  /\ found \subseteq DOMAIN hw /\ match \subseteq DOMAIN hw
  /\ Len(claim) <= MaxPresent /\ DOMAIN bug = DOMAIN claim
  /\ \A b \in Bus : \A j \in DOMAIN bridges[b] : claim[bridges[b][j]].bus = b

(* The functions the -s filter asks for that the hardware has.             *)
Wanted ==
  {a \in DOMAIN hw : /\ FilterOK(filter.bus, a[1])
                     /\ FilterOK(filter.slot, a[2])
                     /\ FilterOK(filter.func, a[3])}

(***************************************************************************)
(* When the probe reaches map_bridges it has discovered exactly the        *)
(* present functions the -s filter asks for, and bi->exists is set for     *)
(* exactly their buses.  It rests on func_limit being raised by a          *)
(* multi-function device's function 0 before its other functions.          *)
(***************************************************************************)
ProbeComplete ==
  phase = "mapped" =>
    /\ found = Wanted
    /\ \A b \in Bus : exists[b] <=> \E a \in found : a[1] = b

=============================================================================
