----------------------------- MODULE BusMapping -----------------------------
(***************************************************************************)
(* lspci -M end to end (src/lspci.c, map_the_bus): the prober of MapBus    *)
(* fills bus_info, then map_bridges walks it with the validator of         *)
(* MapBridges.  The two share exists, claim, bridges and bug; the          *)
(* validator's own fields are zero (bzero of bus_info) until it runs.      *)
(***************************************************************************)
EXTENDS MapBus, TLC

LOCAL SeqX == INSTANCE SequencesExt

VARIABLES
  guestbook, via, stack, i, visits,   \* the validator's fields of bus_info
  expected    \* auxiliary: the table the probe should give, fixed in Init

valVars == <<guestbook, via, stack, i, visits>>
vars == <<probeVars, valVars, expected>>

V == INSTANCE MapBridges WITH MaxClaims <- MaxPresent

-----------------------------------------------------------------------------
(***************************************************************************)
(* What the probe should produce, from the hardware and the filters alone  *)
(* (spec 4.3 and 4.4): one claim per wanted bridge function that passes    *)
(* the -d filter, in bus, device, function order, with an inverted range   *)
(* [s, t], s > t, recorded as [s, s]; and exists set on exactly the buses  *)
(* where a wanted function was found.                                      *)
(***************************************************************************)
AddrBefore(a, b) ==
  \/ a[1] < b[1]
  \/ a[1] = b[1] /\ (a[2] < b[2] \/ (a[2] = b[2] /\ a[3] < b[3]))

WantedBridges ==
  SortSeq(SeqX!SetToSeq({a \in Wanted \cap match : hw[a].kind # NoRegs}), AddrBefore)

ExpectedClaims ==
  [k \in DOMAIN WantedBridges |->
     LET a == WantedBridges[k]
         r == hw[a].kind
     IN  [bus |-> a[1], first |-> r[1], last |-> IF r[2] < r[1] THEN r[1] ELSE r[2]]]

ExpectedExists == [b \in Bus |-> \E a \in Wanted : a[1] = b]

MapInit ==
  /\ Init
  /\ guestbook = [b \in Bus |-> FALSE]
  /\ via = [b \in Bus |-> V!NoClaim]
  /\ stack = <<>>
  /\ i = 0
  /\ visits = [b \in Bus |-> 0]
  /\ expected = [claim |-> ExpectedClaims, exists |-> ExpectedExists]

(* map_the_bus: all the probing, then map_bridges.                          *)
MapNext ==
  \/ ProbeNext /\ UNCHANGED <<valVars, expected>>
  \/ /\ phase = "mapped"
     /\ V!Next
     /\ UNCHANGED <<hw, match, filter, heap, pbus, pdev, pfunc, flimit, found, phase,
                    expected>>

MapSpec == MapInit /\ [][MapNext]_vars /\ WF_vars(MapNext)

(* The table the validator is specified on: the expected one while the     *)
(* probe runs, the real one afterwards.                                    *)
Probing == phase = "probe"

claimBar   == IF Probing THEN expected.claim ELSE claim
bridgesBar == IF Probing THEN [b \in Bus |-> V!ClaimsOn(expected.claim, b)] ELSE bridges
existsBar  == IF Probing THEN expected.exists ELSE exists
bugBar     == IF Probing THEN [c \in DOMAIN expected.claim |-> heap[c]] ELSE bug

Abs == INSTANCE MapBridges WITH
         MaxClaims <- MaxPresent,
         exists <- existsBar, claim <- claimBar,
         bridges <- bridgesBar, bug <- bugBar

(***************************************************************************)
(* lspci -M implements the validator specification run on the table the   *)
(* hardware should give: the probe leaves exactly that table (every wanted *)
(* bridge, per-bus lists newest first, ranges clamped, exists right), and  *)
(* map_bridges then takes only steps of MapBridges and terminates.         *)
(***************************************************************************)
ImplementsValidator == Abs!Spec

=============================================================================
