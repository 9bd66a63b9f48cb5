----------------------------- MODULE CommandLine -----------------------------
(***************************************************************************)
(* h1a_ee's ProcessCommandLine (src/unnamed/part_000), the parse that      *)
(* decides what EepFile does.  An argument is a word of a small alphabet:  *)
(* the options, "f" the name of a file that exists, "sn" a valid serial    *)
(* number (8 hexadecimal characters), and "bad" a word that is neither.    *)
(* The parse walks argv once; the result is EepOptions and the status.    *)
(***************************************************************************)
EXTENDS Integers, Sequences

Options == {"-w", "-s", "-n", "-e", "-h"}
Args == Options \cup {"f", "sn", "bad"}

(* argv[i][0] == '-': every option, and only the options, starts with it.  *)
Dash(a) == a \in Options

(* is_file_exist, and strlen == 8 with is_valid_hex.                       *)
FileExists(a) == a = "f"
ValidSerial(a) == a = "sn"

(* main's EepOptions: a static struct, zeroed, and bListOnly set false.    *)
Options0 ==
  [status |-> "ok", getFile |-> FALSE, getSn |-> FALSE, load |-> FALSE,
   serial |-> FALSE, list |-> FALSE, file |-> "", snSet |-> FALSE]

Fail(st) == [st EXCEPT !.status = "fail"]

(* Mutant of Step: no check for a file name or serial number left pending. *)
StepNoEndCheck(st, a, last) ==
  CASE st.getFile ->
         IF Dash(a) THEN Fail(st)
         ELSE [st EXCEPT !.file = a, !.getFile = FALSE]
    [] st.getSn ->
         IF Dash(a) \/ ~ValidSerial(a) THEN Fail(st)
         ELSE [st EXCEPT !.snSet = TRUE, !.getSn = FALSE]
    [] a = "-h" -> [st EXCEPT !.status = "help"]
    [] a = "-w" -> [st EXCEPT !.load = TRUE, !.getFile = TRUE]
    [] a = "-s" -> [st EXCEPT !.load = FALSE, !.serial = FALSE, !.getFile = TRUE]
    [] a = "-e" -> [st EXCEPT !.list = TRUE]
    [] a = "-n" -> [st EXCEPT !.serial = TRUE, !.getSn = TRUE]
    [] OTHER    -> Fail(st)

(***************************************************************************)
(* One turn of the loop on argument a: a pending file name or serial       *)
(* number first, then the options; then, at the last argument, a pending   *)
(* file name or serial number is an error.                                 *)
(***************************************************************************)
Step(st, a, last) ==
  LET s ==
        CASE st.getFile ->
               IF Dash(a) THEN Fail(st)
               ELSE [st EXCEPT !.file = a, !.getFile = FALSE]
          [] st.getSn ->
               IF Dash(a) \/ ~ValidSerial(a) THEN Fail(st)
               ELSE [st EXCEPT !.snSet = TRUE, !.getSn = FALSE]
          [] a = "-h" -> [st EXCEPT !.status = "help"]
          [] a = "-w" -> [st EXCEPT !.load = TRUE, !.getFile = TRUE]
          [] a = "-s" -> [st EXCEPT !.load = FALSE, !.serial = FALSE, !.getFile = TRUE]
          [] a = "-e" -> [st EXCEPT !.list = TRUE]
          [] a = "-n" -> [st EXCEPT !.serial = TRUE, !.getSn = TRUE]
          [] OTHER    -> Fail(st)
  IN IF s.status = "ok" /\ last /\ (s.getFile \/ s.getSn) THEN Fail(s) ELSE s

RECURSIVE Walk(_, _, _)
Walk(argv, k, st) ==
  IF k > Len(argv) \/ st.status # "ok" THEN st
  ELSE Walk(argv, k + 1, Step(st, argv[k], k = Len(argv)))

(***************************************************************************)
(* After the loop: -e needs nothing more; otherwise a file name must have  *)
(* been given, -s with -n only warns, and -w needs the file to exist.      *)
(***************************************************************************)
ProcessCommandLine(argv) ==
  LET st == Walk(argv, 1, Options0) IN
  CASE st.status # "ok"                  -> st
    [] st.list                           -> st
    [] st.file = ""                      -> Fail(st)
    [] st.load /\ ~FileExists(st.file)   -> Fail(st)
    [] OTHER                             -> st

(* main goes on to EepFile when the parse succeeds without -e.              *)
RunsEepFile(o) == o.status = "ok" /\ ~o.list

(* The command EepFile carries out: bLoadFile and bSerialNumber.            *)
ModeOf(o) ==
  CASE o.load /\ o.serial -> "wn"
    [] o.load             -> "w"
    [] o.serial           -> "sn"
    [] OTHER              -> "s"

(* The command lines of up to n arguments.                                 *)
Argvs(n) == UNION {[1 .. k -> Args] : k \in 0 .. n}

=============================================================================
