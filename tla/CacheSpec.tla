------------------------------ MODULE CacheSpec ------------------------------
(***************************************************************************)
(* The contract of the configuration-space cache (spec 4.1), with no       *)
(* buffer and no hardware request in it: which bytes are cached, the last  *)
(* fetch(pos, len) and its result, and whether a read of an uncached byte  *)
(* has stopped the program.  A successful fetch makes its whole range      *)
(* cached, a failed one changes nothing, a fetch of cached bytes always    *)
(* succeeds, cached bytes stay cached, and reading an uncached byte fails  *)
(* fast.                                                                   *)
(***************************************************************************)
EXTENDS Integers

CONSTANTS
  StdSize,   \* the bytes cached when a device is scanned (256)
  MaxEnd     \* the largest pos + len a caller asks for

VARIABLES cached, call, ok, dead

cacheVars == <<cached, call, ok, dead>>

Span(p, l) == p .. p + l - 1

Calls == {c \in [pos : 0 .. MaxEnd, len : 0 .. MaxEnd] : c.pos + c.len <= MaxEnd}

CacheInit ==
  /\ cached = 0 .. StdSize - 1
  /\ call = [pos |-> 0, len |-> 0]
  /\ ok = TRUE
  /\ dead = FALSE

Fetch ==
  /\ ~dead
  /\ \E c \in Calls, r \in BOOLEAN :
       /\ call' = c
       /\ Span(c.pos, c.len) \subseteq cached => r
       /\ ok' = r
       /\ cached' = IF r THEN cached \cup Span(c.pos, c.len) ELSE cached
  /\ UNCHANGED dead

Read ==
  /\ ~dead
  /\ \E c \in Calls : ~(Span(c.pos, c.len) \subseteq cached)
  /\ dead' = TRUE
  /\ UNCHANGED <<cached, call, ok>>

CacheNext == Fetch \/ Read

CacheSpec == CacheInit /\ [][CacheNext]_cacheVars

=============================================================================
