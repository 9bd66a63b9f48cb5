---------------------------- MODULE AdnaRecovery ----------------------------
(***************************************************************************)
(* The h1a_ee flow around the EEPROM (src/unnamed/part_000: main,          *)
(* adna_pci_process, save_to_adna_list, eep_process, EepFile,              *)
(* adna_populate_parent and adna_hotreset).                                *)
(*                                                                         *)
(* adna_pci_process scans the Adnacom upstream ports, numbers them in      *)
(* address order (count_upstream) and keeps the numbers in the first_adna  *)
(* list, built once.  The user types a number.  eep_process scans again,   *)
(* finds the number in first_adna and its adapter by address in the new   *)
(* first_dev list, and reads the EEPROM presence bits: not present, valid  *)
(* (EepFile loads or saves the file) or blank (eep_init writes a           *)
(* signature).  On not present or blank, main hot-resets the adapter's     *)
(* parent, which makes the switch latch its EEPROM again, and calls        *)
(* eep_process a second time.  main returns seen_errors ? 2 : 0.           *)
(*                                                                         *)
(* The hardware is the environment: a scan may fail to read a header       *)
(* (scan_device drops it and counts seen_errors), pcimem may fail, setpci  *)
(* may fail, a reset adapter may not come back, and EepFile may fail.      *)
(* Each failure is allowed by a constant.                                  *)
(***************************************************************************)
EXTENDS Integers, Sequences, FiniteSets

LOCAL SeqX == INSTANCE SequencesExt
Cmd == INSTANCE CommandLine

CONSTANTS
  Slots,        \* the adapters' upstream-port addresses, in address order
  ScanFails,    \* a header read in scan_device may fail
  ReadFails,    \* pcimem of EEP_STAT_N_CTRL_ADDR may return PCI_MEM_ERROR
  SetpciFails,  \* a setpci call may fail
  ResetLoses,   \* a reset adapter may not reappear after the rescan
  FileFails,    \* EepFile may return EEP_FAIL
  StdinEOF,     \* stdin may end before the user types a number
  MaxArgs       \* the longest command line

VARIABLES
  prom,     \* each adapter's EEPROM: "absent", "blank", "init" or "valid"
  loaded,   \* the presence bits each switch latched at its last reset
  present,  \* the adapters the operating system enumerates
  adna,     \* first_adna: devnum -> address
  seen,     \* seen_errors
  num,      \* the argument of eep_process
  typed,    \* num was typed by the user (FALSE: it was never assigned)
  first,    \* the presence bits the first eep_process read ("none": none)
  second,   \* the presence bits the second eep_process read
  file,     \* EepFile's result: "none", "ok" or "fail"
  reset,    \* the parent's secondary bus reset was set: the switch was reset
  touched,  \* the adapters the tool has written to or reset
  listOnly, \* EepOptions.bListOnly (-e)
  code,     \* the exit status (-1 while running)
  pc        \* "parse", "list", "select", "check1", "reset", "check2" or "exit"

vars == <<prom, loaded, present, adna, seen, num, typed, first, second,
          file, reset, touched, listOnly, code, pc>>

(* The presence field the switch reports for what its EEPROM holds.       *)
Presence(p) ==
  CASE p = "absent" -> "NOT_PRSNT"
    [] p = "blank"  -> "PRSNT_INVALID"
    [] OTHER        -> "PRSNT_VALID"

(* The header reads of one scan_devices that may fail.                     *)
ScanFailures == IF ScanFails THEN SUBSET present ELSE {{}}

(* Mutant of Numbered: count_upstream numbers from 0 (NumDevice = i++).    *)
NumberedFromZero(listed) ==
  [k \in 0 .. Cardinality(listed) - 1 |-> SeqX!SetToSortSeq(listed, LAMBDA x, y : x < y)[k + 1]]

(* count_upstream over the sorted first_dev list: number k is the k-th     *)
(* listed address.                                                         *)
Numbered(listed) == SeqX!SetToSortSeq(listed, LAMBDA x, y : x < y)

ExitCode(s) == IF s > 0 THEN 2 ELSE 0

Init ==
  /\ prom \in [Slots -> {"absent", "blank", "valid"}]
  /\ loaded = [s \in Slots |-> Presence(prom[s])]
  /\ present = Slots
  /\ adna = <<>> /\ seen = 0
  /\ num = 0 /\ typed = FALSE
  /\ first = "none" /\ second = "none" /\ file = "none"
  /\ reset = FALSE /\ touched = {}
  /\ listOnly = FALSE
  /\ code = -1 /\ pc = "parse"

(* What main keeps of ProcessCommandLine: success, and bListOnly.          *)
Parses ==
  {[ok |-> o.status = "ok", list |-> o.list] :
     o \in {Cmd!ProcessCommandLine(a) : a \in Cmd!Argvs(MaxArgs)}}

(* main: any status but EXIT_SUCCESS (an error or -h) is exit(1).          *)
ParseCommandLine ==
  /\ pc = "parse"
  /\ \E o \in Parses :
       IF o.ok THEN listOnly' = o.list /\ pc' = "list" /\ UNCHANGED code
               ELSE code' = 1 /\ pc' = "exit" /\ UNCHANGED listOnly
  /\ UNCHANGED <<prom, loaded, present, adna, seen, num, typed, first, second,
                 file, reset, touched>>

(* Mutant of AdnaPciProcess: main goes on to the selection despite -e.    *)
AdnaPciProcessNoList ==
  /\ pc = "list"
  /\ \E failed \in ScanFailures :
       LET listed == present \ failed IN
       /\ seen' = seen + Cardinality(failed)
       /\ IF listed = {}
            THEN code' = 255 /\ pc' = "exit" /\ UNCHANGED adna
            ELSE adna' = Numbered(listed) /\ pc' = "select" /\ UNCHANGED code
  /\ UNCHANGED <<prom, loaded, present, num, typed, first, second, file, reset,
                 touched, listOnly>>

(***************************************************************************)
(* adna_pci_process: adna_dev_list_init (scan, sort, count_upstream; no    *)
(* device is exit(-1)) and save_to_adna_list.  adna_d3_to_d0 does nothing: *)
(* no caller sets bIsD3.  With -e main then goes to __exit.               *)
(***************************************************************************)
AdnaPciProcess ==
  /\ pc = "list"
  /\ \E failed \in ScanFailures :
       LET listed == present \ failed IN
       /\ seen' = seen + Cardinality(failed)
       /\ IF listed = {}
            THEN code' = 255 /\ pc' = "exit" /\ UNCHANGED adna
            ELSE /\ adna' = Numbered(listed)
                 /\ IF listOnly THEN code' = ExitCode(seen') /\ pc' = "exit"
                                ELSE pc' = "select" /\ UNCHANGED code
  /\ UNCHANGED <<prom, loaded, present, num, typed, first, second, file, reset,
                 touched, listOnly>>

(* The device selection loop of main.                                      *)
Select ==
  /\ pc = "select"
  /\ \/ /\ \E k \in 1 .. Len(adna) : num' = k
        /\ typed' = TRUE /\ pc' = "check1" /\ UNCHANGED code
     \/ \* [0] Cancel, a number above NumDevices, or a line that is no number
        /\ code' = ExitCode(seen) /\ pc' = "exit" /\ UNCHANGED <<num, typed>>
     \/ \* fgets returns NULL at once: num is read uninitialized
        /\ StdinEOF
        /\ \E k \in 0 .. Len(adna) + 1 : num' = k
        /\ typed' = FALSE /\ pc' = "check1" /\ UNCHANGED code
  /\ UNCHANGED <<prom, loaded, present, adna, seen, first, second, file, reset, touched,
                 listOnly>>

(* Mutant of Target: num is looked up in the new first_dev numbering.     *)
TargetRenumbered(listed) ==
  IF num \in 1 .. Cardinality(listed) THEN Numbered(listed)[num] ELSE 0

(***************************************************************************)
(* adna_get_adnadevice_from_devnum in the first_adna list, then            *)
(* adna_get_device_from_adnadevice by address in the new first_dev list:   *)
(* the address, or 0 for NULL.                                             *)
(***************************************************************************)
Target(listed) ==
  IF num \in 1 .. Len(adna) /\ adna[num] \in listed THEN adna[num] ELSE 0

(* Mutant of Written: the blank case goes without eep_init.                *)
WrittenNoInit(p, s, ok) ==
  IF p = "PRSNT_VALID" /\ ok THEN [prom EXCEPT ![s] = "valid"] ELSE prom

(* The EEPROM after eep_init (blank) or a successful EepFile (valid).      *)
Written(p, s, ok) ==
  CASE p = "PRSNT_INVALID"     -> [prom EXCEPT ![s] = "init"]
    [] p = "PRSNT_VALID" /\ ok -> [prom EXCEPT ![s] = "valid"]
    [] OTHER                   -> prom

(***************************************************************************)
(* eep_process(num) and main's test of its status.  The scan of            *)
(* adna_dev_list_init, then exit(-1) when no device is left, when num is   *)
(* not in first_adna, when its address is not in first_dev, or when        *)
(* pcimem fails.  Otherwise the presence bits: valid runs EepFile, blank   *)
(* runs eep_init, not present writes nothing.  After a valid EEPROM, or    *)
(* after the second check, main goes to __exit; otherwise to `after'.     *)
(***************************************************************************)
EepProcess(found, after) ==
  \E failed \in ScanFailures, readErr \in (IF ReadFails THEN BOOLEAN ELSE {FALSE}),
     ok \in (IF FileFails THEN BOOLEAN ELSE {TRUE}) :
    LET listed == present \ failed
        s == Target(listed)
        p == loaded[s]
    IN /\ seen' = seen + Cardinality(failed)
       /\ IF s = 0 \/ readErr
            THEN /\ code' = 255 /\ pc' = "exit"
                 /\ UNCHANGED <<prom, file, touched, found>>
            ELSE /\ found' = p
                 /\ prom' = Written(p, s, ok)
                 /\ file' = IF p = "PRSNT_VALID" THEN (IF ok THEN "ok" ELSE "fail") ELSE file
                 /\ touched' = IF p = "NOT_PRSNT" THEN touched ELSE touched \cup {s}
                 /\ IF p = "PRSNT_VALID" \/ after = "exit"
                      THEN code' = ExitCode(seen') /\ pc' = "exit"
                      ELSE pc' = after /\ UNCHANGED code

FirstCheck ==
  /\ pc = "check1"
  /\ EepProcess(first, "reset")
  /\ UNCHANGED <<loaded, present, adna, num, typed, second, reset, listOnly>>

(* enum setpci_commands: what adna_setpci_cmd asks setpci to write.       *)
SetpciCmds == {"D3_TO_D0", "D0_TO_D3", "HOTRESET_ENABLE", "HOTRESET_DISABLE"}

(* adna_hotreset's three calls; D3_TO_D0 is adna_d3_to_d0's, never run.    *)
HotResetCmds == SetpciCmds \ {"D3_TO_D0"}

(* setpci(4, argv) returns EXIT_SUCCESS, or fails when setpci may.         *)
SetpciResults == IF SetpciFails THEN {"ok", "fail"} ELSE {"ok"}

(***************************************************************************)
(* adna_populate_parent and adna_hotreset: setpci D0_TO_D3 (on failure     *)
(* "Cannot change power state", return), remove the downstream port, set   *)
(* and clear the parent's secondary bus reset (HOTRESET_ENABLE, then       *)
(* HOTRESET_DISABLE, both results ignored), remove and rescan.  A pulse    *)
(* makes the switch latch its EEPROM again, and the adapter may not come   *)
(* back; no pulse leaves the latched bits as they were; a reset left set   *)
(* holds the adapter off the bus, so the rescan does not find it.          *)
(***************************************************************************)
HotReset ==
  /\ pc = "reset"
  /\ \E r \in [HotResetCmds -> SetpciResults] :
       LET s == adna[num] IN
       CASE r["D0_TO_D3"] = "fail" ->
              UNCHANGED <<loaded, present, reset, touched>>
         [] r["HOTRESET_ENABLE"] = "fail" ->
              /\ touched' = touched \cup {s}
              /\ UNCHANGED <<loaded, present, reset>>
         [] r["HOTRESET_DISABLE"] = "fail" ->
              /\ reset' = TRUE /\ touched' = touched \cup {s}
              /\ present' = present \ {s}
              /\ UNCHANGED loaded
         [] OTHER ->
              /\ reset' = TRUE /\ touched' = touched \cup {s}
              /\ loaded' = [loaded EXCEPT ![s] = Presence(prom[s])]
              /\ present' \in IF ResetLoses THEN {present, present \ {s}} ELSE {present}
  /\ pc' = "check2"
  /\ UNCHANGED <<prom, adna, seen, num, typed, first, second, file, listOnly, code>>

(* The second eep_process; its status is not looked at.                    *)
SecondCheck ==
  /\ pc = "check2"
  /\ EepProcess(second, "exit")
  /\ UNCHANGED <<loaded, present, adna, num, typed, first, reset, listOnly>>

Next == ParseCommandLine \/ AdnaPciProcess \/ Select \/ FirstCheck \/ HotReset \/ SecondCheck

Spec == Init /\ [][Next]_vars

-----------------------------------------------------------------------------

TypeOK ==
  /\ prom \in [Slots -> {"absent", "blank", "init", "valid"}]
  /\ loaded \in [Slots -> {"NOT_PRSNT", "PRSNT_VALID", "PRSNT_INVALID"}]
  /\ present \subseteq Slots /\ touched \subseteq Slots
  /\ adna \in UNION {[1 .. n -> Slots] : n \in 0 .. Cardinality(Slots)}
  /\ num \in Nat /\ typed \in BOOLEAN /\ reset \in BOOLEAN
  /\ {first, second} \subseteq {"none", "NOT_PRSNT", "PRSNT_VALID", "PRSNT_INVALID"}
  /\ file \in {"none", "ok", "fail"}
  /\ listOnly \in BOOLEAN
  /\ code \in {-1, 0, 1, 2, 255}

(***************************************************************************)
(* The tool writes to, initializes and resets only the adapter that num    *)
(* names in the list adna_pci_process printed, although both eep_process   *)
(* calls scan and number the adapters again, and the hot reset and failed  *)
(* header reads can take adapters out of that list.                        *)
(***************************************************************************)
ChosenOnly == touched # {} => touched = {adna[num]}

(***************************************************************************)
(* The recovery of a blank EEPROM: when the first check found it blank and *)
(* the adapter was reset, a second check that reads the presence bits      *)
(* finds a valid EEPROM and runs EepFile.  This needs eep_init before the  *)
(* reset and the reset before the second read.                             *)
(***************************************************************************)
BlankRecovered ==
  first = "PRSNT_INVALID" /\ reset /\ second # "none"
    => second = "PRSNT_VALID" /\ file # "none"

(***************************************************************************)
(* h1a_ee exits with status 0 after a device was picked only if EepFile    *)
(* succeeded on it.                                                        *)
(***************************************************************************)
ExitReflectsResult == pc = "exit" /\ typed /\ code = 0 => file = "ok"

(***************************************************************************)
(* h1a_ee -e only lists: when it exits, no EEPROM was written and no       *)
(* adapter reset, and its status is that of the listing (0, 2 after a      *)
(* failed header read, 255 when no adapter was found).                     *)
(***************************************************************************)
ListOnlyHarmless ==
  listOnly /\ pc = "exit" => touched = {} /\ ~reset /\ code \in {ExitCode(seen), 255}

====
