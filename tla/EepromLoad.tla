----------------------------- MODULE EepromLoad -----------------------------
(***************************************************************************)
(* h1a_ee's EepFile (src/unnamed/part_000): EepromFileSave, and for -w     *)
(* EepromFileLoad, with eep_write, eep_read, eep_write_16, eep_read_16,   *)
(* eep_data and check_for_ready_or_done.                                   *)
(*                                                                         *)
(* The save reads the EEPROM header, takes EepSize = 4 + (value >> 16),    *)
(* reads that many bytes block by block into g_pBuffer, and then writes    *)
(* the file (-s), writes nothing (-s with -n), or (-w without -n) looks    *)
(* for the first 0x42 0x00 pair to keep the device's serial number, or     *)
(* finds the header eep_init wrote and sets bIsInit.  The load reads the   *)
(* file into g_pBuffer, puts the serial number after its first 0x42 0x00   *)
(* pair unless bIsInit, and writes every 32-bit word to EEPROM block       *)
(* four_byte_count and reads it back; a last 16-bit half word is written   *)
(* with its upper half set to 0xffff.                                      *)
(*                                                                         *)
(* The tool talks to the EEPROM controller through two registers: the      *)
(* buffer and the status/control register.  Every register access is       *)
(* preceded by a poll until the command-status bit reads complete.  The    *)
(* controller (hardware, not in the repository) runs a command after it    *)
(* is written: a read copies the block into the buffer, SET_WR_EN_LATCH    *)
(* sets the write-enable latch, a write copies the buffer into the block   *)
(* if the latch is set and clears it.  With WriteFails a write may not     *)
(* take (a protected or failing part).                                     *)
(*                                                                         *)
(* A byte is a token <<kind, n>>: file byte n, serial-number byte n given  *)
(* with -n, 0xff, 0x00, 0x42, the header's signature or byte count, an old *)
(* EEPROM byte, or whatever lies past the end of g_pBuffer.  The           *)
(* uint8_t counters i and four_byte_count wrap at 2^ByteBits and           *)
(* 2^WordBits.                                                             *)
(***************************************************************************)
EXTENDS Integers, Sequences, CommandLine

CONSTANTS
  Sizes,        \* the file sizes in bytes
  ByteBits,     \* the width of i in the serial-number search
  WordBits,     \* the width of four_byte_count (and the EEPROM's blocks)
  WriteFails,   \* TRUE: a write command may leave the block unchanged
  MaxArgs,      \* the longest command line, in arguments
  EepSizes      \* the EepSize values the EEPROM's header may give

Blocks == 0 .. 2^WordBits - 1
FileByte(n) == <<"file", n>>
SnByte(n)   == <<"sn", n>>
FF          == <<"ff", 0>>
Junk        == <<"junk", 0>>
OldByte(p)  == <<"old", p>>
Zero        == <<"x00", 0>>
X42         == <<"x42", 0>>
Sig         == <<"sig", 0>>
Cnt(e)      == <<"cnt", e>>

VARIABLES
  eeprom, bufreg, busy, pend, wel,   \* the controller
  mode,    \* the command: "w" (-w), "wn" (-w, -n), "s" (-s), "sn" (-s, -n)
  esize, omk,  \* the EEPROM image: its EepSize and its first 0x42 0x00 pair
  size, mk, isInit,  \* FileSize, the first 0x42 0x00 pair (-1: none), bIsInit
  ssize, sbuf, sn,   \* the save's EepSize and g_pBuffer; SerialNumber
  saved,   \* the file EepromFileSave wrote (<<>>: none)
  buf,     \* g_pBuffer
  i, offset, fbc,    \* the search index, offset and four_byte_count
  rd,      \* Verify_Value (or Verify_Value_16) as last read
  rc,      \* rc
  script,  \* the register accesses left of the eep_* call in progress
  pc       \* "search", "word", "wverify", "tverify", "done"

ctlVars == <<eeprom, bufreg, busy, pend, wel>>
saveVars == <<ssize, sbuf, sn, saved>>
vars == <<ctlVars, mode, esize, omk, size, mk, isInit, saveVars, buf, i, offset,
          fbc, rd, rc, script, pc>>

(***************************************************************************)
(* The EEPROM as it was: the header (signature 0x5a, then the register     *)
(* byte count in bytes 2 and 3; all zero but the signature after eep_init, *)
(* which is EepSize 4), then register entries, one of them the serial      *)
(* number's 0x42 0x00 followed by its four bytes.                          *)
(***************************************************************************)
OldImg(p) ==
  CASE p = 0                     -> Sig
    [] p \in 1 .. 3 /\ esize = 4 -> Zero
    [] p \in 2 .. 3              -> Cnt(esize)
    [] p = omk                   -> X42
    [] p = omk + 1               -> Zero
    [] OTHER                     -> OldByte(p)

Acc(op, c, blk, val) == [op |-> op, c |-> c, blk |-> blk, val |-> val]

(* eep_write: buffer register, SET_WR_EN_LATCH, then the write command.     *)
EepWrite(blk, v) ==
  <<Acc("wbuf", "", 0, v), Acc("cmd", "WREN", 0, <<>>), Acc("cmd", "WR", blk, <<>>)>>

(* eep_read (eep_data): the read command, then the buffer register.        *)
EepRead(blk) == <<Acc("cmd", "RD", blk, <<>>), Acc("rbuf", "", 0, <<>>)>>

(* FileSize & ~0x3.                                                        *)
Aligned == size - (size % 4)

(* The byte at p of g_pBuffer, or what lies after it.                       *)
Byte(p) == IF p < size THEN buf[p] ELSE Junk

(* The uint32_t read at g_pBuffer + off, little-endian.                    *)
Word(off) == <<Byte(off), Byte(off + 1), Byte(off + 2), Byte(off + 3)>>

(***************************************************************************)
(* EepSize = 4 + (value >> 16): bytes 2 and 3 of the header word read.     *)
(* Any other pair than a header's (0xffff from a stale buffer register)    *)
(* is taken as the largest count.                                          *)
(***************************************************************************)
HeaderSize(w) ==
  CASE w[3] = Zero      -> 4
    [] w[3][1] = "cnt"  -> w[3][2]
    [] OTHER            -> 4 + 65535

(* EepSize & ~0x3 of the save.                                             *)
SAligned == ssize - (ssize % 4)

(* The byte at p of the save's g_pBuffer, or what lies after it.           *)
SByte(p) == IF p < ssize THEN sbuf[p] ELSE Junk

LoadMode == mode \in {"w", "wn"}

(* The EepOptions of every command line that main passes on to EepFile.   *)
Commands == {o \in {ProcessCommandLine(a) : a \in Argvs(MaxArgs)} : RunsEepFile(o)}

(***************************************************************************)
(* EepFile: -w with -n loads at once; -w without -n saves first to get the *)
(* serial number; -s saves.  SerialNumber holds the last -n's number, even *)
(* when a later -s cleared bSerialNumber.  The EEPROM and the file are any.*)
(***************************************************************************)
Init ==
  /\ \E o \in Commands :
       /\ mode = ModeOf(o)
       /\ sn = [n \in 0 .. 3 |-> IF o.snSet THEN SnByte(n) ELSE Zero]
  /\ esize \in EepSizes
  /\ omk \in {-1} \cup 4 .. esize - 6
  /\ eeprom = [k \in Blocks |-> [j \in 1 .. 4 |-> OldImg(4 * k + j - 1)]]
  /\ bufreg = <<FF, FF, FF, FF>> /\ busy = FALSE
  /\ pend = Acc("cmd", "RD", 0, <<>>) /\ wel = FALSE
  /\ size \in IF LoadMode THEN Sizes ELSE {0}
  /\ mk \in -1 .. size - 1
  /\ isInit = FALSE
  /\ ssize = 0 /\ sbuf = <<>> /\ saved = <<>>
  /\ buf = [p \in 0 .. size - 1 |-> FileByte(p)]
  /\ i = 0 /\ offset = 0 /\ fbc = 0
  /\ rd = <<>> /\ rc = "success" /\ script = <<>>
  /\ pc = IF mode = "wn" THEN "search" ELSE "size"

toolFixed == <<mode, esize, omk, size, mk>>
loadFixed == <<toolFixed, isInit, saveVars>>

-----------------------------------------------------------------------------
(* The controller runs the pending command.                                *)

CompleteRead ==
  /\ busy /\ pend.c = "RD"
  /\ bufreg' = eeprom[pend.blk] /\ busy' = FALSE
  /\ UNCHANGED <<eeprom, pend, wel>>

CompleteWren ==
  /\ busy /\ pend.c = "WREN"
  /\ wel' = TRUE /\ busy' = FALSE
  /\ UNCHANGED <<eeprom, bufreg, pend>>

CompleteWrite ==
  /\ busy /\ pend.c = "WR"
  /\ eeprom' = IF wel THEN [eeprom EXCEPT ![pend.blk] = bufreg] ELSE eeprom
  /\ wel' = FALSE /\ busy' = FALSE
  /\ UNCHANGED <<bufreg, pend>>

CompleteWriteLost ==
  /\ WriteFails
  /\ busy /\ pend.c = "WR"
  /\ wel' = FALSE /\ busy' = FALSE
  /\ UNCHANGED <<eeprom, bufreg, pend>>

Controller ==
  /\ CompleteRead \/ CompleteWren \/ CompleteWrite \/ CompleteWriteLost
  /\ UNCHANGED <<loadFixed, buf, i, offset, fbc, rd, rc, script, pc>>

-----------------------------------------------------------------------------
(* The tool.                                                                *)

(***************************************************************************)
(* check_for_ready_or_done until the status bit reads complete, then one   *)
(* pcimem access: write the buffer, write a command (the controller is     *)
(* busy from then on), or read the buffer.                                 *)
(***************************************************************************)
Access ==
  /\ script # <<>> /\ ~busy
  /\ LET a == Head(script) IN
       /\ bufreg' = IF a.op = "wbuf" THEN a.val ELSE bufreg
       /\ busy'   = (a.op = "cmd")
       /\ pend'   = IF a.op = "cmd" THEN a ELSE pend
       /\ rd'     = IF a.op = "rbuf" THEN bufreg ELSE rd
  /\ script' = Tail(script)
  /\ UNCHANGED <<eeprom, wel, loadFixed, buf, i, offset, fbc, rc, pc>>

(* The eep_* call returns after its last poll.                              *)
Idle == script = <<>> /\ ~busy

-----------------------------------------------------------------------------
(* EepromFileSave.                                                          *)

(* eep_read(d, 0x0, &value): the EEPROM header.                             *)
SaveHeader ==
  /\ pc = "size"
  /\ script' = EepRead(0) /\ pc' = "sizeread"
  /\ UNCHANGED <<ctlVars, loadFixed, buf, i, offset, fbc, rd, rc>>

(* EepSize from the header; g_pBuffer = malloc(EepSize), contents unknown.  *)
SaveSize ==
  /\ pc = "sizeread" /\ Idle
  /\ ssize' = HeaderSize(rd)
  /\ sbuf' = [p \in 0 .. ssize' - 1 |-> Junk]
  /\ offset' = 0 /\ fbc' = 0 /\ pc' = "sword"
  /\ UNCHANGED <<ctlVars, toolFixed, isInit, sn, saved, buf, i, rd, rc, script>>

(* One turn of the word loop: eep_read of block four_byte_count.            *)
SaveWord ==
  /\ pc = "sword" /\ offset < SAligned
  /\ script' = EepRead(fbc) /\ pc' = "sstore"
  /\ UNCHANGED <<ctlVars, loadFixed, buf, i, offset, fbc, rd, rc>>

(* The word read lands at g_pBuffer + offset.                               *)
Store(o, n) ==
  [p \in DOMAIN sbuf |-> IF p \in o .. o + n - 1 THEN rd[p - o + 1] ELSE sbuf[p]]

(* Mutant of SaveStore: four_byte_count is not advanced.                   *)
SaveStoreSameBlock ==
  /\ pc = "sstore" /\ Idle
  /\ sbuf' = Store(offset, 4)
  /\ offset' = offset + 4 /\ pc' = "sword"
  /\ UNCHANGED <<ctlVars, toolFixed, isInit, ssize, sn, saved, buf, i, fbc, rd, rc, script>>

SaveStore ==
  /\ pc = "sstore" /\ Idle
  /\ sbuf' = Store(offset, 4)
  /\ offset' = offset + 4 /\ fbc' = (fbc + 1) % 2^WordBits /\ pc' = "sword"
  /\ UNCHANGED <<ctlVars, toolFixed, isInit, ssize, sn, saved, buf, i, rd, rc, script>>

(* offset < EepSize after the loop: eep_read_16 reads the whole block.      *)
SaveTail ==
  /\ pc = "sword" /\ offset >= SAligned /\ offset < ssize
  /\ script' = EepRead(fbc) /\ pc' = "stail"
  /\ UNCHANGED <<ctlVars, loadFixed, buf, i, offset, fbc, rd, rc>>

(* Its low 16 bits are stored at g_pBuffer + offset (what falls past the   *)
(* allocation is not kept).                                                *)
SaveTailStore ==
  /\ pc = "stail" /\ Idle
  /\ sbuf' = Store(offset, 2) /\ pc' = "sdone"
  /\ UNCHANGED <<ctlVars, toolFixed, isInit, ssize, sn, saved, buf, i, offset, fbc, rd, rc, script>>

SaveReadEnd ==
  /\ pc = "sword" /\ offset >= ssize
  /\ pc' = "sdone"
  /\ UNCHANGED <<ctlVars, loadFixed, buf, i, offset, fbc, rd, rc, script>>

(***************************************************************************)
(* Without -n and -w the buffer goes to the file; without -n and with -w   *)
(* the serial-number loop runs; with -n nothing is done, and no file is    *)
(* written even for -s.                                                    *)
(***************************************************************************)
SaveEnd ==
  /\ pc = "sdone"
  /\ saved' = IF mode = "s" THEN sbuf ELSE saved
  /\ pc' = IF mode = "w" THEN "capture" ELSE "done"
  /\ UNCHANGED <<ctlVars, toolFixed, isInit, ssize, sbuf, sn, buf, i, offset, fbc, rd, rc, script>>

(* The save returns and EepromFileLoad starts with its own counters.        *)
ToLoad == pc' = "search" /\ i' = 0 /\ offset' = 0 /\ fbc' = 0

IsPair(p) == SByte(p) = X42 /\ SByte(p + 1) = Zero
IsInitHeader == i = 2 /\ SByte(2) = Zero /\ SByte(3) = Zero

(* One turn of the serial-number loop; i is a uint8_t.                     *)
CaptureStep ==
  /\ pc = "capture" /\ i < ssize /\ ~IsPair(i) /\ ~IsInitHeader
  /\ i' = (i + 1) % 2^ByteBits
  /\ UNCHANGED <<ctlVars, loadFixed, buf, offset, fbc, rd, rc, script, pc>>

(* Mutant of Capture: SerialNumber[n] = g_pBuffer[i+2+n].                  *)
CaptureReversed ==
  /\ pc = "capture" /\ i < ssize /\ IsPair(i)
  /\ sn' = [n \in 0 .. 3 |-> SByte(i + 2 + n)]
  /\ ToLoad
  /\ UNCHANGED <<ctlVars, toolFixed, isInit, ssize, sbuf, saved, buf, rd, rc, script>>

(* The pair at i: SerialNumber[n] = g_pBuffer[i+5-n]; break.               *)
Capture ==
  /\ pc = "capture" /\ i < ssize /\ IsPair(i)
  /\ sn' = [n \in 0 .. 3 |-> SByte(i + 5 - n)]
  /\ ToLoad
  /\ UNCHANGED <<ctlVars, toolFixed, isInit, ssize, sbuf, saved, buf, rd, rc, script>>

(* The header eep_init wrote (bytes 2 and 3 zero): bIsInit = true; break.   *)
CaptureInit ==
  /\ pc = "capture" /\ i < ssize /\ ~IsPair(i) /\ IsInitHeader
  /\ isInit' = TRUE
  /\ ToLoad
  /\ UNCHANGED <<ctlVars, toolFixed, saveVars, buf, rd, rc, script>>

CaptureEnd ==
  /\ pc = "capture" /\ i >= ssize
  /\ ToLoad
  /\ UNCHANGED <<ctlVars, loadFixed, buf, rd, rc, script>>

-----------------------------------------------------------------------------
(* EepromFileLoad.                                                          *)

(* Mutant of SearchStep: i is not advanced.                                *)
SearchNoAdvance ==
  /\ pc = "search" /\ ~isInit /\ i < size /\ i # mk
  /\ UNCHANGED <<ctlVars, loadFixed, buf, i, offset, fbc, rd, rc, script, pc>>

(* One turn of the search loop: no 0x42 0x00 at i; i is a uint8_t.          *)
SearchStep ==
  /\ pc = "search" /\ ~isInit /\ i < size /\ i # mk
  /\ i' = (i + 1) % 2^ByteBits
  /\ UNCHANGED <<ctlVars, loadFixed, buf, offset, fbc, rd, rc, script, pc>>

(* The pair is at i: SerialNumber[0..3] go to i+5 .. i+2; break.           *)
LoadSerial ==
  /\ pc = "search" /\ ~isInit /\ i < size /\ i = mk
  /\ buf' = [p \in DOMAIN buf |-> IF p \in i + 2 .. i + 5 THEN sn[i + 5 - p] ELSE buf[p]]
  /\ pc' = "word"
  /\ UNCHANGED <<ctlVars, loadFixed, i, offset, fbc, rd, rc, script>>

(* bIsInit, or the loop ran to FileSize.                                    *)
SearchEnd ==
  /\ pc = "search" /\ (isInit \/ i >= size)
  /\ pc' = "word"
  /\ UNCHANGED <<ctlVars, loadFixed, buf, i, offset, fbc, rd, rc, script>>

(* A whole word left: eep_write then eep_read of block four_byte_count.     *)
WriteWord ==
  /\ pc = "word" /\ offset < Aligned
  /\ script' = EepWrite(fbc, Word(offset)) \o EepRead(fbc)
  /\ pc' = "wverify"
  /\ UNCHANGED <<ctlVars, loadFixed, buf, i, offset, fbc, rd, rc>>

(* Mutant of VerifyWord: offset advances by one byte.                      *)
VerifyWordByteStep ==
  /\ pc = "wverify" /\ Idle
  /\ IF rd = Word(offset)
       THEN /\ fbc' = (fbc + 1) % 2^WordBits /\ offset' = offset + 1
            /\ pc' = "word" /\ UNCHANGED rc
       ELSE /\ rc' = "fail" /\ pc' = "done" /\ UNCHANGED <<fbc, offset>>
  /\ UNCHANGED <<ctlVars, loadFixed, buf, i, rd, script>>

(* Mutant of VerifyWord: the value read back is not compared.             *)
VerifyWordNoCheck ==
  /\ pc = "wverify" /\ Idle
  /\ fbc' = (fbc + 1) % 2^WordBits /\ offset' = offset + 4 /\ pc' = "word"
  /\ UNCHANGED <<ctlVars, loadFixed, buf, i, rd, rc, script>>

(* Verify_Value != value: "ERROR W32", rc = EEP_FAIL, goto exit.            *)
VerifyWord ==
  /\ pc = "wverify" /\ Idle
  /\ IF rd = Word(offset)
       THEN /\ fbc' = (fbc + 1) % 2^WordBits /\ offset' = offset + 4
            /\ pc' = "word" /\ UNCHANGED rc
       ELSE /\ rc' = "fail" /\ pc' = "done" /\ UNCHANGED <<fbc, offset>>
  /\ UNCHANGED <<ctlVars, loadFixed, buf, i, rd, script>>

(* The remainder: the low half of the word at offset, upper half 0xffff.    *)
WriteTail ==
  /\ pc = "word" /\ offset >= Aligned /\ offset < size
  /\ script' = EepWrite(fbc, <<Byte(offset), Byte(offset + 1), FF, FF>>) \o EepRead(fbc)
  /\ pc' = "tverify"
  /\ UNCHANGED <<ctlVars, loadFixed, buf, i, offset, fbc, rd, rc>>

(* Whether the 16-bit compare fails ("ERROR W16") or not, rc is unchanged.  *)
VerifyTail ==
  /\ pc = "tverify" /\ Idle
  /\ pc' = "done"
  /\ UNCHANGED <<ctlVars, loadFixed, buf, i, offset, fbc, rd, rc, script>>

LoadEnd ==
  /\ pc = "word" /\ offset >= size
  /\ pc' = "done"
  /\ UNCHANGED <<ctlVars, loadFixed, buf, i, offset, fbc, rd, rc, script>>

Next ==
  \/ Controller \/ Access
  \/ SaveHeader \/ SaveSize \/ SaveWord \/ SaveStore \/ SaveTail \/ SaveTailStore
  \/ SaveReadEnd \/ SaveEnd
  \/ CaptureStep \/ Capture \/ CaptureInit \/ CaptureEnd
  \/ SearchStep \/ LoadSerial \/ SearchEnd
  \/ WriteWord \/ VerifyWord \/ WriteTail \/ VerifyTail \/ LoadEnd

(* The tool runs to completion and the controller completes every command. *)
Spec == Init /\ [][Next]_vars /\ WF_vars(Next)

-----------------------------------------------------------------------------

Bytes == {FileByte(n) : n \in 0 .. size - 1} \cup {SnByte(n) : n \in 0 .. 3}
           \cup {FF, Junk, Zero, X42, Sig} \cup {Cnt(e) : e \in EepSizes}
           \cup {OldByte(p) : p \in 0 .. 4 * 2^WordBits - 1}

TypeOK ==
  /\ eeprom \in [Blocks -> [1 .. 4 -> Bytes]]
  /\ bufreg \in [1 .. 4 -> Bytes] /\ busy \in BOOLEAN /\ wel \in BOOLEAN
  /\ buf \in [0 .. size - 1 -> Bytes]
  /\ i \in 0 .. 2^ByteBits - 1 /\ fbc \in Blocks
  /\ offset \in 0 .. size + ssize + 3 /\ offset % 4 = 0
  /\ rc \in {"success", "fail"}
  /\ sn \in [0 .. 3 -> Bytes] /\ sbuf \in [0 .. ssize - 1 -> Bytes]
  /\ saved \in {<<>>} \cup [0 .. esize - 1 -> Bytes]
  /\ pc \in {"size", "sizeread", "sword", "sstore", "stail", "sdone", "capture",
            "search", "word", "wverify", "tverify", "done"}

(* The EEPROM byte b stands at: block b \div 4, byte b % 4, little-endian. *)
Programmed(b) == eeprom[b \div 4][(b % 4) + 1] = buf[b]

(***************************************************************************)
(* When EepromFileLoad returns EXIT_SUCCESS, every byte of the 32-bit      *)
(* aligned part of g_pBuffer (serial number included) is in the EEPROM at  *)
(* its offset: each write is verified by a read of the same block, the     *)
(* polls keep the read from returning the buffer register before the      *)
(* controller has filled it, and no later write lands on an earlier block. *)
(***************************************************************************)
WordsProgrammed ==
  pc = "done" /\ rc = "success" => \A b \in 0 .. Aligned - 1 : Programmed(b)

(***************************************************************************)
(* When EepromFileLoad returns EXIT_SUCCESS, the EEPROM holds every byte  *)
(* of g_pBuffer, the unaligned remainder included.                         *)
(***************************************************************************)
FileProgrammed ==
  pc = "done" /\ rc = "success" => \A b \in 0 .. size - 1 : Programmed(b)

(***************************************************************************)
(* The serial number given with -n is what -w writes: when ProcessCommand- *)
(* Line leaves bSerialNumber set, a valid number followed -n (a -n with    *)
(* nothing after it is refused), and when the load succeeds the four bytes *)
(* after the file's pair are SerialNumber[3] .. SerialNumber[0].           *)
(***************************************************************************)
SerialWritten ==
  pc = "done" /\ mode = "wn" /\ rc = "success" /\ mk >= 0 /\ mk + 5 < Aligned =>
    \A n \in 2 .. 5 : eeprom[(mk + n) \div 4][((mk + n) % 4) + 1] = SnByte(5 - n)

(***************************************************************************)
(* When -s returns, the file holds the EEPROM image byte for byte: the     *)
(* header read first gives the size, and each block read lands at its own  *)
(* offset of g_pBuffer, the 16-bit remainder included.                     *)
(***************************************************************************)
FileSaved ==
  pc = "done" /\ mode = "s" => saved = [p \in 0 .. esize - 1 |-> OldImg(p)]

(***************************************************************************)
(* -w without -n keeps the device's serial number: when the load succeeds *)
(* on a device whose image has a serial-number entry, the four bytes after *)
(* the file's first 0x42 0x00 pair are the device's four, in their order,  *)
(* after the save read them, the loop found them, and the load put them    *)
(* back (the pair inside the words the load verifies).                     *)
(***************************************************************************)
SerialKept ==
  pc = "done" /\ mode = "w" /\ rc = "success" /\ omk >= 0 /\ mk >= 0
    /\ mk + 5 < Aligned =>
      \A n \in 2 .. 5 : eeprom[(mk + n) \div 4][((mk + n) % 4) + 1] = OldImg(omk + n)

(***************************************************************************)
(* Every load ends: the search loop reaches FileSize or the pair, the word *)
(* loop reaches FileSize & ~3, and every check_for_ready_or_done returns   *)
(* once the controller completes the command.                              *)
(***************************************************************************)
LoadTerminates == <>(pc = "done")

====
