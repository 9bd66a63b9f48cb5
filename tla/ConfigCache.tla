----------------------------- MODULE ConfigCache -----------------------------
(***************************************************************************)
(* The configuration-space cache of h1a_ee (src/unnamed/part_000,          *)
(* config_fetch, scan_device and check_conf_range): per device a buffer of *)
(* config_bufsize bytes with a present[] flag per byte.  scan_device reads *)
(* the first 256 bytes and marks them present.  config_fetch(pos, len)     *)
(* trims the present bytes off both ends of the range, doubles the buffer  *)
(* until the range fits (new bytes not present), reads what is left and    *)
(* marks it present if the read succeeds.  get_conf_* dies on a byte that  *)
(* is not present.                                                         *)
(*                                                                         *)
(* Its callers are any sequence of fetches and reads of ranges ending at   *)
(* or below MaxEnd; bytes are scaled so that StdSize stands for 256.       *)
(* The byte values are left out: only which bytes are present, and which   *)
(* ones the last hardware request covered.                                 *)
(***************************************************************************)
EXTENDS Integers

CONSTANTS
  StdSize,   \* 256: the initial config_bufsize and the bytes scan_device reads
  MaxEnd,    \* the largest pos + len a caller asks for
  Widths     \* the widths of get_conf_byte, _word and _long

VARIABLES
  bufsize,   \* d->config_bufsize
  present,   \* d->present[0 .. bufsize - 1]
  call,      \* the arguments of the last config_fetch
  ok,        \* its result
  req,       \* the bytes the last step's pci_read_block asked for
  dead       \* check_conf_range has called die()

vars == <<bufsize, present, call, ok, req, dead>>

Span(p, l) == p .. p + l - 1

Calls == {c \in [pos : 0 .. MaxEnd, len : 0 .. MaxEnd] : c.pos + c.len <= MaxEnd}

(* scan_device: config_bufsize = 256, present[] all set, the read succeeded. *)
Init ==
  /\ bufsize = StdSize
  /\ present = [x \in 0 .. StdSize - 1 |-> TRUE]
  /\ call = [pos |-> 0, len |-> 0]
  /\ ok = TRUE
  /\ req = {}
  /\ dead = FALSE

(* The first loop of config_fetch: skip present bytes at the front.        *)
RECURSIVE TrimHead(_, _)
TrimHead(p, l) ==
  IF p < bufsize /\ l > 0 /\ present[p] THEN TrimHead(p + 1, l - 1) ELSE <<p, l>>

(* The second loop: drop present bytes at the end, if the range fits.      *)
RECURSIVE TrimTail(_, _)
TrimTail(p, l) ==
  IF p + l <= bufsize /\ l > 0 /\ present[p + l - 1] THEN TrimTail(p, l - 1) ELSE l

(* Mutant of Grow: the buffer is doubled once, not until the range fits.   *)
GrowOnce(b, end) == IF end > b THEN 2 * b ELSE b

(* Mutant of Grow: the buffer grows by 256 bytes at a time.               *)
RECURSIVE GrowAdd(_, _)
GrowAdd(b, end) == IF end > b THEN GrowAdd(b + StdSize, end) ELSE b

(* config_bufsize *= 2 while end > config_bufsize.                         *)
RECURSIVE Grow(_, _)
Grow(b, end) == IF end > b THEN Grow(2 * b, end) ELSE b

(* What is left to read of c after the two loops: <<pos, len>>.            *)
Gap(c) == LET h == TrimHead(c.pos, c.len) IN <<h[1], TrimTail(h[1], h[2])>>

(* Mutant of Realloc: the new present[] is cleared from 0, not orig_size.  *)
ReallocClearAll(nb) == [x \in 0 .. nb - 1 |-> FALSE]

(* xrealloc of config and present, memset of present[orig_size ..].        *)
Realloc(nb) == [x \in 0 .. nb - 1 |-> x < bufsize /\ present[x]]

(* Every byte is present: the fetch returns 1 with no read.                *)
FetchCached ==
  /\ ~dead
  /\ \E c \in Calls :
       /\ Gap(c)[2] = 0
       /\ call' = c /\ ok' = TRUE /\ req' = {}
  /\ UNCHANGED <<bufsize, present, dead>>

(* The buffer grows and pci_read_block reads the gap; r is its result.     *)
FetchRead ==
  /\ ~dead
  /\ \E c \in Calls, r \in BOOLEAN :
       LET g  == Gap(c)
           nb == Grow(bufsize, c.pos + c.len)
       IN  /\ g[2] > 0
           /\ call' = c /\ ok' = r
           /\ bufsize' = nb
           /\ req' = Span(g[1], g[2])
           /\ present' = [x \in 0 .. nb - 1 |->
                            Realloc(nb)[x] \/ (r /\ x \in Span(g[1], g[2]))]
  /\ UNCHANGED dead

(* get_conf_*: check_conf_range meets a byte that is not present.          *)
GetConfDie ==
  /\ ~dead
  /\ \E pos \in 0 .. bufsize - 1, w \in Widths :
       /\ pos + w <= bufsize /\ pos + w <= MaxEnd
       /\ \E x \in Span(pos, w) : ~present[x]
  /\ dead' = TRUE /\ req' = {}
  /\ UNCHANGED <<bufsize, present, call, ok>>

Next == FetchCached \/ FetchRead \/ GetConfDie

Spec == Init /\ [][Next]_vars

-----------------------------------------------------------------------------

TypeOK ==
  /\ bufsize \in {StdSize * 2^k : k \in 0 .. MaxEnd}
  /\ present \in [0 .. bufsize - 1 -> BOOLEAN]
  /\ call \in Calls /\ ok \in BOOLEAN /\ dead \in BOOLEAN

(***************************************************************************)
(* pci_read_block writes d->config + pos .. + len inside the buffer: the   *)
(* growth loop has made room for every byte the read asks for.            *)
(***************************************************************************)
ReadInBuffer == req \subseteq 0 .. bufsize - 1

Cached == {x \in DOMAIN present : present[x]}

Abs == INSTANCE CacheSpec WITH cached <- Cached

(***************************************************************************)
(* config_fetch and get_conf_* implement the cache contract of spec 4.1:  *)
(* after a successful fetch its whole range is present and nothing else    *)
(* became present, a failed fetch loses and adds nothing, the realloc      *)
(* keeps every present byte, a fetch of present bytes needs no read, and   *)
(* only a byte that is not present makes get_conf_* die.                  *)
(***************************************************************************)
ImplementsCacheSpec == Abs!CacheSpec

=============================================================================
