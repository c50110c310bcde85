-------------------------------- MODULE Gate --------------------------------
(***************************************************************************)
(* The gates of a sweep: how one build.bat, and one live-substitution      *)
(* build*.bat, turns what its harness did into a transcript and an exit    *)
(* code, and how tools/revalidate.ps1 turns those into a verdict.          *)
(*                                                                         *)
(* A transcript is the set of phrases in it that some rule looks for; the  *)
(* numbers and the layout around them are left out.                        *)
(***************************************************************************)
EXTENDS Integers

(***************************************************************************)
(* How a harness process can end.  A guard-page fault, the over-read test  *)
(* of every harness, ends it with STATUS_ACCESS_VIOLATION: a NEGATIVE exit *)
(* code.                                                                   *)
(***************************************************************************)
AccessViolation == -1073741819
IllegalInstruction == -1073741795

ExitCode == [agree   |-> 0,
             differ  |-> 1,
             crash   |-> AccessViolation,
             illegal |-> IllegalInstruction]

(* What correctness.exe may have printed by then.  One that did not end by *)
(* itself has lost what was still in the output buffer; but many flush it, *)
(* and some print a PASS for each part, so anything can be out already;    *)
(* and it may be bench.exe that hangs, after a correctness.exe that passed.*)
Speech(end) ==
  IF end = "agree" THEN {{"PASS"}, {"0 mismatches"}, {"PASS", "0 mismatches"}}
  ELSE IF end = "differ" THEN {{}, {"mismatch"}, {"n mismatches"}, {"PASS", "n mismatches"}}
  ELSE IF end = "nobuild" THEN {{}}
  ELSE {{}, {"PASS"}, {"0 mismatches"}, {"mismatch"}, {"n mismatches"}}

(* What bench.exe may print: nothing, a geomean without rows that parse,   *)
(* and rows with or without a class below parity.                          *)
BenchSpeech == {{}, {"geomean"}, {"geomean", "row"}, {"geomean", "row", "WORSE"}}

(* Mutant of Stops: every script tests "if errorlevel 1".                  *)
StopsOnPositive(style, code) == style # "none" /\ code >= 1

(* The line after correctness.exe: most scripts test any non-zero exit     *)
(* (|| goto :err), eleven of them "if errorlevel 1", which is exit >= 1.   *)
Stops(style, code) ==
  \/ style = "or"         /\ code # 0
  \/ style = "errorlevel" /\ code >= 1

(* build.bat: assemble and link, gate on correctness, then benchmark.      *)
Transcript(style, end, said, bench) ==
  IF end = "nobuild" THEN {"BUILD/RUN ERROR"}
  ELSE IF end = "hang" THEN said
  ELSE IF Stops(style, ExitCode[end])
       THEN said \union {"CORRECTNESS FAILED", "BUILD/RUN ERROR"}
       ELSE said \union bench

(* The ordered rules over the transcript; "0 mismatches" also holds the    *)
(* bare word, so the pass rule has to come before the last one.            *)
Corr(log) ==
  IF log \intersect {"CORRECTNESS FAILED", "n mismatches"} # {} THEN "FAIL"
  ELSE IF log \intersect {"PASS", "0 mismatches"} # {} THEN "PASS"
  ELSE IF log \intersect {"mismatch", "0 mismatches"} # {} THEN "FAIL"
  ELSE "n/a"

Status(end, log) ==
  IF end = "hang" THEN "TIMEOUT"
  ELSE IF Corr(log) = "FAIL" THEN "CORRECTNESS_FAIL"
  ELSE IF "BUILD/RUN ERROR" \in log THEN "BUILD_FAIL"
  ELSE IF "geomean" \notin log THEN "NO_BENCH"
  ELSE IF "row" \notin log THEN "BENCH_UNPARSED"
  ELSE IF "WORSE" \in log THEN "REGRESSED"
  ELSE "LANDS"

(* Mutant of Failing: a harness that never ended is not counted.           *)
FailingNoTimeout == {"CORRECTNESS_FAIL", "BUILD_FAIL", "BENCH_UNPARSED"}

Failing == {"CORRECTNESS_FAIL", "BUILD_FAIL", "TIMEOUT", "BENCH_UNPARSED"}

(***************************************************************************)
(* The live column.  A script either passes on the exit code of its        *)
(* harness ("keeps": exit /b %errorlevel%) or not ("drops": exit /b 0),    *)
(* and its harness words a failure "n FAILURE(S)" or "FAIL (n checks)".    *)
(***************************************************************************)

(* The last line of a harness, when everything is compared and every patch *)
(* is off: it says PASS only if nothing was wrong.                         *)
LastLine(wording, right) == IF right THEN "LIVE SUBSTITUTION: PASS" ELSE wording

(* What it may have printed.  It may crash or hang behind its last line,   *)
(* and the rules below look for that line before anything else.            *)
LiveSpeech(wording, right, end) ==
  IF end \in {"agree", "differ"} THEN {{LastLine(wording, right)}}
  ELSE IF end \in {"crash", "hang"} THEN {{}, {LastLine(wording, right)}}
  ELSE {{}}

LiveExit(style, end) ==
  IF end = "nobuild" THEN 1 ELSE IF style = "drops" THEN 0 ELSE ExitCode[end]

LiveVerdict(log, timedOut, exit, avx512) ==
  IF "LIVE SUBSTITUTION: PASS" \in log THEN "PASS"
  ELSE IF log \intersect {"n FAILURE(S)", "UNPROVEN"} # {} THEN "FAIL"
  ELSE IF ~timedOut /\ exit = IllegalInstruction /\ ~avx512 THEN "SKIP"
  ELSE IF ~timedOut /\ exit = 0 THEN "PASS" ELSE "FAIL"

LiveFails(style, log, end, avx512) ==
  LiveVerdict(log, end = "hang", LiveExit(style, end), avx512) = "FAIL"
=============================================================================
