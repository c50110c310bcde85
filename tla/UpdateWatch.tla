----------------------------- MODULE UpdateWatch -----------------------------
(***************************************************************************)
(* The Windows-update watch: tools/on-update.ps1, started by the scheduled *)
(* task or by hand, compares the watched System32 DLLs with the recorded   *)
(* baseline, re-proves every change with tools/revalidate.ps1 when one has *)
(* changed, and then either clears the alert and rolls the baseline        *)
(* forward, or raises the alert.  Windows servicing replaces DLLs, runs    *)
(* are killed, and an engineer fixes changes and records baselines at any  *)
(* moment in between.                                                      *)
(***************************************************************************)
EXTENDS Gate, FiniteSets

CONSTANTS
  Dlls,          \* the watched DLLs
  Versions,      \* the binaries a DLL can be (what its hash tells apart)
  Absent,        \* "on disk" of a DLL that is not there
  NoFile,        \* dll-baseline.json before it was ever written
  NumChanges,    \* items 1..NumChanges are change directories, in name order
  NumLive,       \* the items after them are live-substitution harnesses
  DllsOf,        \* item -> the DLLs it compares its assembly with
  Style,         \* item -> how its script tests the harness's exit code
  Wording,       \* live item -> how its harness words a failure
  NeedsAvx512,   \* the live items with an AVX-512 implementation
  Avx512,        \* does this machine have it
  Flaky,         \* the ends a RIGHT item's harness may come to all the same
  MayBreak,      \* the contracts <<item, dll, version>> that may not hold
  Runs,          \* the processes that may run on-update.ps1 at one time
  ByHand,        \* those of them started by hand, which may pass -Force
  Unrecorded,    \* TRUE: no baseline has ever been recorded
  MaxUpdates, MaxKills, MaxFixes, MaxRecords   \* bounds on the environment

Items   == 1..(NumChanges + NumLive)
Changes == 1..NumChanges
Live    == Items \ Changes

(* A baseline file that was cut short parses to nothing: no DLL is in it.  *)
Torn   == [d \in {} |-> Absent]
States == UNION {[D -> Versions] : D \in SUBSET Dlls}

Contracts == {c \in Items \X Dlls \X Versions : c[2] \in DllsOf[c[1]]}

ASSUME SizesAssumption == NumChanges \in Nat /\ NumLive \in Nat
ASSUME DllsOfAssumption == DllsOf \in [Items -> SUBSET Dlls]
ASSUME VersionsAssumption == Absent \notin Versions
ASSUME NoFileAssumption == NoFile \notin States
ASSUME BoundsAssumption ==
  /\ MaxUpdates \in Nat /\ MaxKills \in Nat /\ MaxFixes \in Nat /\ MaxRecords \in Nat
  /\ MayBreak \subseteq Contracts /\ ByHand \subseteq Runs
  /\ Flaky \subseteq {"crash", "hang", "nobuild"}

VARIABLES
  disk,      \* dll -> the version in System32, or Absent
  matches,   \* the contracts the assembly meets, whether anyone knows or not
  baseline,  \* dll-baseline.json
  alert,     \* does NEEDS-ATTENTION.md exist
  pc, at, failed, snap,   \* per run: its place, next item, $fails, $now
  moved,     \* per run (ghost): the DLLs serviced since its sweep began
  waived,    \* ghost: the DLLs whose baseline entry no sweep vouches for
  spent      \* how much of each bound is used up

watch == <<baseline, alert, waived>>
run   == <<pc, at, failed, snap, moved>>
vars  == <<disk, matches, watch, run, spent>>

(* Mutant of DllState: a row for every watched name, there or not.         *)
DllStateMissingRows == disk

(* Get-DllState: a row for each watched DLL that is there.                 *)
Present  == {d \in Dlls : disk[d] # Absent}
DllState == [d \in Present |-> disk[d]]

(* Mutant of Changed: only a DLL without a row counts.                     *)
ChangedNoHash ==
  IF baseline = NoFile THEN {} ELSE {d \in Present : d \notin DOMAIN baseline}

(* What the comparison reports: the DLLs that are there and have no row,   *)
(* or another hash, in the baseline; nothing at all without a baseline.    *)
Changed ==
  IF baseline = NoFile THEN {}
  ELSE {d \in Present : d \in DOMAIN baseline => baseline[d] # disk[d]}

Right(i) == \A d \in DllsOf[i] : <<i, d, disk[d]>> \in matches
Runs512(i) == i \notin NeedsAvx512 \/ Avx512

(* How the harness of item i can end on the machine as it is now.          *)
EndsOf(i) ==
  IF ~Runs512(i) THEN {"illegal"}
  ELSE IF Right(i) THEN {"agree"} \union Flaky
  ELSE {"differ", "crash", "hang", "nobuild"}

Init ==
  /\ disk \in [Dlls -> Versions]
  /\ matches \in {Contracts \ wrong : wrong \in SUBSET MayBreak}
  /\ baseline = IF Unrecorded THEN NoFile ELSE disk
  /\ waived = Dlls
  /\ alert = FALSE
  /\ pc = [r \in Runs |-> "idle"]
  /\ at = [r \in Runs |-> 1]
  /\ failed = [r \in Runs |-> FALSE]
  /\ snap = [r \in Runs |-> Torn]
  /\ moved = [r \in Runs |-> {}]
  /\ spent = [updates |-> 0, kills |-> 0, fixes |-> 0, records |-> 0]

-----------------------------------------------------------------------------
(* One run of on-update.ps1.                                               *)

Goto(r, place) == pc' = [pc EXCEPT ![r] = place]

(* A trigger of the task, or a person, starts the script.                  *)
Start(r, force) ==
  /\ pc[r] = "idle"
  /\ force => r \in ByHand
  /\ Goto(r, IF force THEN "check -Force" ELSE "check")
  /\ UNCHANGED <<disk, matches, watch, at, failed, snap, moved, spent>>

(* revalidate.ps1 -CheckOnly exited 0: "nothing to re-prove".              *)
Quiet(r) ==
  /\ pc[r] = "check" /\ Changed = {}
  /\ Goto(r, "idle")
  /\ UNCHANGED <<disk, matches, watch, at, failed, snap, moved, spent>>

(* Mutant of BeginSweep: a new sweep starts by removing the old alert.     *)
BeginSweepClears(r) ==
  /\ \/ pc[r] = "check" /\ Changed # {}
     \/ pc[r] = "check -Force"
  /\ Goto(r, "environment")
  /\ at' = [at EXCEPT ![r] = 1]
  /\ failed' = [failed EXCEPT ![r] = FALSE]
  /\ moved' = [moved EXCEPT ![r] = {}]
  /\ alert' = FALSE
  /\ UNCHANGED <<disk, matches, baseline, waived, snap, spent>>

(* It exited 1, or the run is forced: a full sweep is started.             *)
BeginSweep(r) ==
  /\ \/ pc[r] = "check" /\ Changed # {}
     \/ pc[r] = "check -Force"
  /\ Goto(r, "environment")
  /\ at' = [at EXCEPT ![r] = 1]
  /\ failed' = [failed EXCEPT ![r] = FALSE]
  /\ moved' = [moved EXCEPT ![r] = {}]
  /\ UNCHANGED <<disk, matches, watch, snap, spent>>

(* The Visual Studio environment is there, or the sweep exits 2.           *)
Environment(r) ==
  /\ pc[r] = "environment"
  /\ \/ Goto(r, "changes")
     \/ Goto(r, "alert")
  /\ UNCHANGED <<disk, matches, watch, at, failed, snap, moved, spent>>

Tested(r, fails) ==
  /\ at' = [at EXCEPT ![r] = @ + 1]
  /\ failed' = [failed EXCEPT ![r] = @ \/ fails]
  /\ UNCHANGED <<disk, matches, watch, pc, snap, moved, spent>>

(* One build.bat; a directory without one is recorded NO_BUILD.            *)
RunChange(r) ==
  /\ pc[r] = "changes" /\ at[r] \in Changes
  /\ IF Style[at[r]] = "none"
     THEN Tested(r, FALSE)
     ELSE \E end \in EndsOf(at[r]) : \E said \in Speech(end), bench \in BenchSpeech :
            Tested(r, Status(end, Transcript(Style[at[r]], end, said, bench)) \in Failing)

(* After the last change, the static ABI audit: it may be missing.         *)
AbiAudit(r) ==
  /\ pc[r] = "changes" /\ at[r] \notin Changes
  /\ Goto(r, "live")
  /\ \E violation \in BOOLEAN : failed' = [failed EXCEPT ![r] = @ \/ violation]
  /\ UNCHANGED <<disk, matches, watch, at, snap, moved, spent>>

(* One live-substitution script.                                           *)
RunLive(r) ==
  /\ pc[r] = "live" /\ at[r] \in Live
  /\ \E end \in EndsOf(at[r]) : \E log \in LiveSpeech(Wording[at[r]], Right(at[r]), end) :
       Tested(r, LiveFails(Style[at[r]], log, end, Avx512))

(* The sweep's exit code is 1 exactly when some gate failed.               *)
Verdict(r) ==
  /\ pc[r] = "live" /\ at[r] \notin Items
  /\ Goto(r, IF failed[r] THEN "alert" ELSE "clear")
  /\ UNCHANGED <<disk, matches, watch, at, failed, snap, moved, spent>>

(* rc = 0: the alert is removed and a fresh process records a baseline,    *)
(* hashing the DLLs as it finds them before it writes the file.            *)
ClearAlert(r) ==
  /\ pc[r] = "clear"
  /\ alert' = FALSE
  /\ Goto(r, "hash")
  /\ UNCHANGED <<disk, matches, baseline, waived, at, failed, snap, moved, spent>>

HashBaseline(r) ==
  /\ pc[r] = "hash"
  /\ snap' = [snap EXCEPT ![r] = DllState]
  /\ Goto(r, "write")
  /\ UNCHANGED <<disk, matches, watch, at, failed, moved, spent>>

(* Mutant of WriteBaseline: the new state is printed and not saved.        *)
WriteNothing(r) ==
  /\ pc[r] = "write"
  /\ Goto(r, "idle")
  /\ UNCHANGED <<disk, matches, watch, at, failed, snap, moved, spent>>

WriteBaseline(r) ==
  /\ pc[r] = "write"
  /\ baseline' = snap[r]
  /\ waived' = moved[r]
  /\ Goto(r, "idle")
  /\ UNCHANGED <<disk, matches, alert, at, failed, snap, moved, spent>>

(* Mutant of RaiseAlert: the baseline is rolled forward on failure too.    *)
RaiseAlertAndRoll(r) ==
  /\ pc[r] = "alert"
  /\ alert' = TRUE
  /\ baseline' = DllState /\ waived' = {}
  /\ Goto(r, "idle")
  /\ UNCHANGED <<disk, matches, at, failed, snap, moved, spent>>

(* rc # 0: NEEDS-ATTENTION.md is written and the baseline left alone.      *)
RaiseAlert(r) ==
  /\ pc[r] = "alert"
  /\ alert' = TRUE
  /\ Goto(r, "idle")
  /\ UNCHANGED <<disk, matches, baseline, waived, at, failed, snap, moved, spent>>

Step(r) ==
  \/ Quiet(r) \/ BeginSweep(r) \/ Environment(r)
  \/ RunChange(r) \/ AbiAudit(r) \/ RunLive(r) \/ Verdict(r)
  \/ ClearAlert(r) \/ HashBaseline(r) \/ WriteBaseline(r) \/ RaiseAlert(r)

-----------------------------------------------------------------------------
(* What happens around the runs.                                           *)

Spend(what, max) ==
  /\ spent[what] < max
  /\ spent' = [spent EXCEPT ![what] = @ + 1]

(* Windows servicing replaces, restores or removes a watched DLL.          *)
Update(d, v) ==
  /\ Spend("updates", MaxUpdates)
  /\ disk[d] # v
  /\ disk' = [disk EXCEPT ![d] = v]
  /\ moved' = [r \in Runs |-> moved[r] \union {d}]
  /\ UNCHANGED <<matches, watch, pc, at, failed, snap>>

(* The run is ended by the task's time limit, a log-off, a reboot or a     *)
(* crash; in the middle of the write it leaves a file cut short.           *)
Kill(r) ==
  /\ pc[r] # "idle"
  /\ Spend("kills", MaxKills)
  /\ Goto(r, "idle")
  /\ baseline' \in IF pc[r] = "write" THEN {baseline, Torn} ELSE {baseline}
  /\ UNCHANGED <<disk, matches, alert, waived, at, failed, snap, moved>>

(* An item's contract is re-derived for the binaries that are here now;    *)
(* the new assembly need not fit the binaries that were here before.       *)
Fix(i) ==
  /\ Spend("fixes", MaxFixes)
  /\ ~Right(i) /\ DllsOf[i] \subseteq Present
  /\ \E kept \in SUBSET {c \in matches : c[1] = i} :
       matches' = {c \in matches : c[1] # i} \union kept
                    \union {<<i, d, disk[d]>> : d \in DllsOf[i]}
  /\ waived' = waived \union
       {d \in DllsOf[i] : baseline # NoFile /\ d \in DOMAIN baseline /\ baseline[d] # disk[d]}
  /\ UNCHANGED <<disk, baseline, alert, run>>

(* revalidate.ps1 -Baseline by hand: accepts whatever is here.             *)
RecordByHand ==
  /\ Spend("records", MaxRecords)
  /\ baseline' = DllState
  /\ waived' = Dlls
  /\ UNCHANGED <<disk, matches, alert, run>>

Next ==
  \/ \E r \in Runs : Step(r) \/ Kill(r) \/ \E force \in BOOLEAN : Start(r, force)
  \/ \E d \in Dlls, v \in Versions \union {Absent} : Update(d, v)
  \/ \E i \in Items : Fix(i)
  \/ RecordByHand

Spec == Init /\ [][Next]_vars

(***************************************************************************)
(* The triggers (logon, daily, event 19) start the task again and again,   *)
(* and PowerShell runs the script to its end: both are weakly fair.        *)
(* Nothing is assumed of servicing, of kills or of people.                 *)
(***************************************************************************)
FairSpec == Spec /\ \A r \in Runs : WF_vars(Step(r)) /\ WF_vars(Start(r, FALSE))
-----------------------------------------------------------------------------
(* What the watch promises.                                                *)

Places == {"idle", "check", "check -Force", "environment", "changes", "live",
           "clear", "hash", "write", "alert"}

(* The state is well formed: a run is at one of the script's places, its   *)
(* item counter stays within the sweep, and a baseline or a snapshot holds *)
(* versions of watched DLLs only.                                          *)
TypeOK ==
  /\ disk \in [Dlls -> Versions \union {Absent}]
  /\ matches \subseteq Contracts
  /\ baseline \in States \union {NoFile}
  /\ waived \subseteq Dlls
  /\ alert \in BOOLEAN
  /\ pc \in [Runs -> Places]
  /\ at \in [Runs -> 1..(NumChanges + NumLive + 1)]
  /\ failed \in [Runs -> BOOLEAN]
  /\ snap \in [Runs -> States]
  /\ moved \in [Runs -> SUBSET Dlls]
  /\ spent \in [{"updates", "kills", "fixes", "records"} -> Nat]

(* The items a sweep can say something about: a harness that needs AVX-512 *)
(* is skipped on a machine without it.                                     *)
Provable == {i \in Items : Runs512(i)}

RightAbout(D, version) ==
  \A i \in Provable : \A d \in DllsOf[i] \intersect D : <<i, d, version[d]>> \in matches

(* "0: everything still correct" (revalidate.ps1, EXIT CODES): when a      *)
(* sweep is about to clear the alert, every item is right about every DLL  *)
(* that was not replaced under the sweep, whatever its harness did.        *)
PassMeansRight ==
  \A r \in Runs : pc[r] = "clear" => RightAbout(Dlls \ moved[r], disk)

(* A broken update is never accepted: the assembly is right about each     *)
(* version in the baseline, except where a person recorded it, where the   *)
(* DLL was replaced under the sweep, or where a fix has left it behind.    *)
BaselineProved ==
  baseline # NoFile => RightAbout((DOMAIN baseline) \ waived, baseline)

(* "nothing to re-prove" is never said while a change is wrong about a DLL *)
(* on disk whose baseline entry a sweep vouches for.                       *)
QuietIsProved ==
  [][\A r \in Runs : Quiet(r) /\ baseline # NoFile => RightAbout(Present \ waived, disk)]_vars

(* NEEDS-ATTENTION.md is sticky: it goes only at the end of a sweep, and   *)
(* only if every item is right about every DLL that stayed put during it,  *)
(* even when a second run raised the alert meanwhile.                      *)
AlertIsSticky ==
  [][alert /\ ~alert' =>
       \E r \in Runs : /\ pc[r] = "clear"
                       /\ RightAbout(Dlls \ moved[r], disk)]_vars

(* Every servicing is dealt with: a DLL that differs from the baseline is  *)
(* in the end accepted, or the alert is up, whatever was killed or torn.   *)
ServicedIsSettled == Changed # {} ~> (Changed = {} \/ alert)

(* A change that an update broke is in the end reported or right again.    *)
Broken(i, d) ==
  /\ baseline # NoFile /\ d \in Present \ waived
  /\ <<i, d, disk[d]>> \notin matches
BrokenIsReported ==
  \A i \in Provable : \A d \in DllsOf[i] : Broken(i, d) ~> (alert \/ ~Broken(i, d))

(* "only now is it safe to accept the new binaries as the reference point" *)
(* (on-update.ps1, before the roll): what a passing run records is right.  *)
RollAcceptsOnlyProved ==
  [][\A r \in Runs : WriteBaseline(r) => RightAbout(DOMAIN baseline', baseline')]_vars

(* "it catches updates installed while this task did not exist"            *)
(* (install-update-watch.ps1, of the logon trigger): a change that is      *)
(* wrong about the DLLs on disk is in the end reported or right again.     *)
LateInstallCatches ==
  \A i \in Provable : ~Right(i) ~> (alert \/ Right(i))
=============================================================================
