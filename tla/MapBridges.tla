----------------------------- MODULE MapBridges -----------------------------
(***************************************************************************)
(* The bus-mapping validator of lspci -M (src/lspci.c, map_bridges and     *)
(* do_map_bridges).  Its input is the table the prober (do_map_bus) left   *)
(* in bus_info: which buses exist and, per bus, the list of bridge claims  *)
(* (first, last) found on it, newest first.  map_bridges starts a guarded  *)
(* depth-first walk at every existing bus not yet in the guestbook; the    *)
(* walk marks each bus it enters and tags each claim as entered, overlap   *)
(* (bug 1: the claimed bus is already in the guestbook) or crossing        *)
(* (bug 2: the claim leaves the window of the bridge that led here).       *)
(*                                                                         *)
(* The C recursion is modelled by an explicit stack of frames; one step    *)
(* handles one claim of the frame on top.  Bus numbers 0..255 are scaled   *)
(* down to 0..MaxBus; the walk window of a root is [0, MaxBus].            *)
(***************************************************************************)
EXTENDS Integers, Sequences, FiniteSets

CONSTANTS
  MaxBus,     \* highest bus number (255 in the code)
  MaxClaims,  \* bound on the number of bridge claims in the table
  HeapBytes   \* the values b->bug may hold: map_bridge never sets it

ASSUME MaxBus \in Nat /\ MaxClaims \in Nat

Bus     == 0 .. MaxBus
ClaimId == 1 .. MaxClaims
NoClaim == 0                     \* bus_info[].via == NULL
NoBug   == 0
Overlap == 1                     \* b->bug = 1, "<overlap bug>"
Crossing == 2                    \* b->bug = 2, "<crossing bug>"
OtherByte == 3                   \* any other byte: printed without a tag
Byte == {NoBug, Overlap, Crossing, OtherByte}

ASSUME HeapBytes \subseteq Byte /\ HeapBytes # {}

VARIABLES
  exists,     \* bus_info[].exists, set by the prober
  claim,      \* claim[c] = [bus, first, last] of struct bus_bridge c
  bridges,    \* bus_info[].bridges: claim ids per bus, newest first
  guestbook,  \* bus_info[].guestbook
  via,        \* bus_info[].via: the claim used to enter the bus
  bug,        \* bus_bridge.bug per claim
  stack,      \* frames of the do_map_bridges recursion
  i,          \* loop index of map_bridges
  visits      \* history: number of do_map_bridges calls per bus

vars == <<exists, claim, bridges, guestbook, via, bug, stack, i, visits>>

Claim == [bus : Bus, first : Bus, last : Bus]
Frame == [bus : Bus, min : Bus, max : Bus, next : Nat]

(***************************************************************************)
(* The probe table.  do_map_bus scans buses in increasing order and        *)
(* map_bridge pushes each claim on the front of its bus's list, so claim   *)
(* ids are in probe order and each bus lists its claims newest first.      *)
(* map_bridge has already clamped a claim with first > last to            *)
(* [first, first], so every claim has first <= last.  The struct comes    *)
(* from xmalloc and map_bridge never writes b->bug: its value is whatever  *)
(* the heap held, one of HeapBytes.                                        *)
(***************************************************************************)
ClaimsOn(cl, b) ==
  LET ids == {c \in DOMAIN cl : cl[c].bus = b}
  IN  [k \in 1 .. Cardinality(ids) |-> CHOOSE c \in ids :
         Cardinality({d \in ids : d > c}) = k - 1]

ProbeTable(cl) == \A c \in DOMAIN cl : c + 1 \in DOMAIN cl => cl[c].bus <= cl[c + 1].bus

ClampedClaim == {r \in Claim : r.first <= r.last}

Init ==
  /\ \E n \in 0 .. MaxClaims : claim \in [1 .. n -> ClampedClaim]
  /\ ProbeTable(claim)
  /\ bridges = [b \in Bus |-> ClaimsOn(claim, b)]
  /\ exists \in { e \in [Bus -> BOOLEAN] :
                    \A c \in DOMAIN claim : e[claim[c].bus] }
  /\ guestbook = [b \in Bus |-> FALSE]
  /\ via = [b \in Bus |-> NoClaim]
  /\ bug \in [DOMAIN claim -> HeapBytes]
  /\ stack = <<>>
  /\ i = 0
  /\ visits = [b \in Bus |-> 0]

(* Entering do_map_bridges(bus, min, max): bi->guestbook = 1.              *)
Enter(bus, min, max) ==
  /\ guestbook' = [guestbook EXCEPT ![bus] = TRUE]
  /\ visits' = [visits EXCEPT ![bus] = @ + 1]
  /\ stack' = Append(stack, [bus |-> bus, min |-> min, max |-> max, next |-> 1])

Top == stack[Len(stack)]

(* The claim the frame on top looks at next.                               *)
Current == bridges[Top.bus][Top.next]

(* Mutant of Advance: the list is stepped twice (b = b->next->next).       *)
AdvanceSkip == [stack EXCEPT ![Len(stack)].next = @ + 2]

Advance == [stack EXCEPT ![Len(stack)].next = @ + 1]

(* map_bridges: for(i=0; i<256; i++) if (exists && !guestbook) walk i.     *)
MapRoot ==
  /\ stack = <<>>
  /\ i <= MaxBus
  /\ exists[i] /\ ~guestbook[i]
  /\ Enter(i, 0, MaxBus)
  /\ i' = i + 1
  /\ UNCHANGED <<exists, claim, bridges, via, bug>>

MapSkip ==
  /\ stack = <<>>
  /\ i <= MaxBus
  /\ ~(exists[i] /\ ~guestbook[i])
  /\ i' = i + 1
  /\ UNCHANGED <<exists, claim, bridges, guestbook, via, bug, stack, visits>>

(* if (bus_info[b->first].guestbook) b->bug = 1;                           *)
CheckOverlap ==
  /\ stack # <<>>
  /\ Top.next <= Len(bridges[Top.bus])
  /\ guestbook[claim[Current].first]
  /\ bug' = [bug EXCEPT ![Current] = Overlap]
  /\ stack' = Advance
  /\ UNCHANGED <<exists, claim, bridges, guestbook, via, i, visits>>

(* else if (b->first < min || b->last > max) b->bug = 2;                   *)
CheckCrossing ==
  /\ stack # <<>>
  /\ Top.next <= Len(bridges[Top.bus])
  /\ ~guestbook[claim[Current].first]
  /\ claim[Current].first < Top.min \/ claim[Current].last > Top.max
  /\ bug' = [bug EXCEPT ![Current] = Crossing]
  /\ stack' = Advance
  /\ UNCHANGED <<exists, claim, bridges, guestbook, via, i, visits>>

(* Mutants of Descend (plausible bugs in the else branch).                 *)
DescendUnguarded ==     \* the guestbook test is dropped
  /\ stack # <<>>
  /\ Top.next <= Len(bridges[Top.bus])
  /\ LET c == claim[Current] IN
       /\ ~(c.first < Top.min \/ c.last > Top.max)
       /\ via' = [via EXCEPT ![c.first] = Current]
       /\ guestbook' = [guestbook EXCEPT ![c.first] = TRUE]
       /\ visits' = [visits EXCEPT ![c.first] = @ + 1]
       /\ stack' = Append(Advance,
                    [bus |-> c.first, min |-> c.first, max |-> c.last, next |-> 1])
  /\ UNCHANGED <<exists, claim, bridges, bug, i>>

DescendIgnoresLast ==   \* the crossing test only looks at b->first
  /\ stack # <<>>
  /\ Top.next <= Len(bridges[Top.bus])
  /\ LET c == claim[Current] IN
       /\ ~guestbook[c.first]
       /\ ~(c.first < Top.min)
       /\ via' = [via EXCEPT ![c.first] = Current]
       /\ guestbook' = [guestbook EXCEPT ![c.first] = TRUE]
       /\ visits' = [visits EXCEPT ![c.first] = @ + 1]
       /\ stack' = Append(Advance,
                    [bus |-> c.first, min |-> c.first, max |-> c.last, next |-> 1])
  /\ UNCHANGED <<exists, claim, bridges, bug, i>>

DescendNoVia ==         \* bus_info[b->first].via = b is forgotten
  /\ stack # <<>>
  /\ Top.next <= Len(bridges[Top.bus])
  /\ LET c == claim[Current] IN
       /\ ~guestbook[c.first]
       /\ ~(c.first < Top.min \/ c.last > Top.max)
       /\ guestbook' = [guestbook EXCEPT ![c.first] = TRUE]
       /\ visits' = [visits EXCEPT ![c.first] = @ + 1]
       /\ stack' = Append(Advance,
                    [bus |-> c.first, min |-> c.first, max |-> c.last, next |-> 1])
  /\ UNCHANGED <<exists, claim, bridges, bug, i, via>>

(* else { via = b; do_map_bridges(b->first, b->first, b->last); }          *)
Descend ==
  /\ stack # <<>>
  /\ Top.next <= Len(bridges[Top.bus])
  /\ LET c == claim[Current] IN
       /\ ~guestbook[c.first]
       /\ ~(c.first < Top.min \/ c.last > Top.max)
       /\ via' = [via EXCEPT ![c.first] = Current]
       /\ guestbook' = [guestbook EXCEPT ![c.first] = TRUE]
       /\ visits' = [visits EXCEPT ![c.first] = @ + 1]
       /\ stack' = Append(Advance,
                    [bus |-> c.first, min |-> c.first, max |-> c.last, next |-> 1])
  /\ UNCHANGED <<exists, claim, bridges, bug, i>>

(* Mutant of Return: the end of the claim list is detected one too late.   *)
ReturnLate ==
  /\ stack # <<>>
  /\ Top.next > Len(bridges[Top.bus]) + 1
  /\ stack' = SubSeq(stack, 1, Len(stack) - 1)
  /\ UNCHANGED <<exists, claim, bridges, guestbook, via, bug, i, visits>>

(* The claim list of the frame on top is exhausted: return to the caller.  *)
Return ==
  /\ stack # <<>>
  /\ Top.next > Len(bridges[Top.bus])
  /\ stack' = SubSeq(stack, 1, Len(stack) - 1)
  /\ UNCHANGED <<exists, claim, bridges, guestbook, via, bug, i, visits>>

Done == stack = <<>> /\ i > MaxBus

Next ==
  \/ MapRoot
  \/ MapSkip
  \/ CheckOverlap
  \/ CheckCrossing
  \/ Descend
  \/ Return

Spec == Init /\ [][Next]_vars /\ WF_vars(Next)

-----------------------------------------------------------------------------

TypeOK ==
  /\ exists \in [Bus -> BOOLEAN]
  /\ guestbook \in [Bus -> BOOLEAN]
  /\ via \in [Bus -> {NoClaim} \cup DOMAIN claim]
  /\ bug \in [DOMAIN claim -> Byte]
  /\ stack \in Seq(Frame)
  /\ Len(stack) <= MaxBus + 1
  /\ \A k \in DOMAIN stack : stack[k].next \in 1 .. Len(bridges[stack[k].bus]) + 1
  /\ i \in 0 .. MaxBus + 1
  /\ visits \in [Bus -> Nat]

(***************************************************************************)
(* No bus is walked twice: do_map_bridges runs at most once per bus over   *)
(* the whole pass, whatever duplicate or cyclic claims the hardware        *)
(* reports (the guestbook check and the guestbook mark together).          *)
(***************************************************************************)
VisitedOnce == \A b \in Bus : visits[b] <= 1

(***************************************************************************)
(* Entered ranges nest: a bus entered through claim c, which sits on a bus *)
(* that was itself entered through claim p, lies inside p's range.  This   *)
(* is what the crossing check (first < min || last > max) guarantees for  *)
(* the via chain printed as "Entered via".                                *)
(***************************************************************************)
EntryNested ==
  \A x \in Bus : via[x] # NoClaim =>
    LET c == claim[via[x]]
    IN  via[c.bus] # NoClaim =>
          /\ claim[via[c.bus]].first <= c.first
          /\ c.last <= claim[via[c.bus]].last

(***************************************************************************)
(* When map_bridges has finished its loop, every existing bus has been     *)
(* walked and every claim other than the one its target bus was entered   *)
(* through is printed with an overlap or a crossing tag.                  *)
(***************************************************************************)
WalkComplete ==
  Done =>
    /\ \A b \in Bus : exists[b] => guestbook[b]
    /\ \A c \in DOMAIN claim :
         via[claim[c].first] # c => bug[c] \in {Overlap, Crossing}

(***************************************************************************)
(* The validator terminates on every probe table, cycles included: the     *)
(* recursion of do_map_bridges always ends and map_bridges finishes.       *)
(***************************************************************************)
Termination == <>Done

=============================================================================
