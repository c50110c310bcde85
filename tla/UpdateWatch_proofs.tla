-------------------------- MODULE UpdateWatch_proofs --------------------------
(***************************************************************************)
(* What the update watch guarantees for any number of DLLs, versions,      *)
(* changes, live harnesses and concurrent runs.                            *)
(***************************************************************************)
EXTENDS UpdateWatch, TLAPS

(***************************************************************************)
(* A hard gate: the build.bat stops on any non-zero exit code of its       *)
(* harness, as most do, or the live script passes it on.  Eleven           *)
(* build.bat and some live scripts are none; what is proved of the watch   *)
(* is proved of the items with a hard gate, whatever the others do.        *)
(***************************************************************************)
Hard(i) ==
  \/ i \in Changes /\ Style[i] = "or"
  \/ i \in Live /\ Style[i] = "keeps" /\ Wording[i] # "LIVE SUBSTITUTION: PASS"

Gated == {i \in Provable : Hard(i)}

GatedRight(D, version) ==
  \A i \in Gated : \A d \in DllsOf[i] \intersect D : <<i, d, version[d]>> \in matches

(* All gates are hard, and a directory without a script has no contract.   *)
HardGates ==
  /\ \A i \in Changes : Style[i] = "or" \/ (Style[i] = "none" /\ DllsOf[i] = {})
  /\ \A i \in Live : Style[i] = "keeps" /\ Wording[i] # "LIVE SUBSTITUTION: PASS"

-----------------------------------------------------------------------------
(* The two gates.                                                          *)

(* The exit codes of a failing and of a faulting harness: neither is zero, *)
(* and neither is the one that excuses a harness that cannot run.          *)
LEMMA ExitCodes ==
  /\ ExitCode["differ"] = 1 /\ ExitCode["crash"] = AccessViolation
  /\ AccessViolation # 0 /\ 1 # 0
  /\ AccessViolation # IllegalInstruction /\ 1 # IllegalInstruction
<1>1. ExitCode["differ"] = 1 /\ ExitCode["crash"] = AccessViolation
  BY DEF ExitCode
<1>2. AccessViolation # 0 /\ AccessViolation # IllegalInstruction /\ 1 # IllegalInstruction /\ 1 # 0
  BY SMT DEF AccessViolation, IllegalInstruction
<1> QED BY <1>1, <1>2

(* A harness that did not agree fails the run, whatever it printed before  *)
(* it ended and whatever the bench would have printed.                     *)
LEMMA ChangeGateHolds ==
  ASSUME NEW end \in {"differ", "crash", "hang", "nobuild"},
         NEW said \in Speech(end), NEW bench \in BenchSpeech
  PROVE  Status(end, Transcript("or", end, said, bench)) \in Failing
<1>1. CASE end = "hang"
  BY <1>1 DEF Status, Failing
<1>2. CASE end = "nobuild"
  BY <1>2 DEF Status, Failing, Transcript, Corr
<1>3. CASE end \in {"differ", "crash"}
  <2>1. Stops("or", ExitCode[end])
    BY <1>3, ExitCodes DEF Stops
  <2>2. Transcript("or", end, said, bench)
          = said \union {"CORRECTNESS FAILED", "BUILD/RUN ERROR"}
    BY <1>3, <2>1 DEF Transcript
  <2>3. Corr(Transcript("or", end, said, bench)) = "FAIL"
    BY <2>2 DEF Corr
  <2> QED BY <1>3, <2>3 DEF Status, Failing
<1> QED BY <1>1, <1>2, <1>3

(* A live harness that found its item wrong, or did not end by itself,     *)
(* gets the verdict FAIL, whatever it printed, when its script passes its  *)
(* exit code on.                                                           *)
LEMMA LiveGateHolds ==
  ASSUME NEW end \in {"differ", "crash", "hang", "nobuild"},
         NEW wording, wording # "LIVE SUBSTITUTION: PASS",
         NEW log \in LiveSpeech(wording, FALSE, end)
  PROVE  LiveFails("keeps", log, end, Avx512)
<1>1. "LIVE SUBSTITUTION: PASS" \notin log
  BY DEF LiveSpeech, LastLine
<1>2. end # "hang" => LiveExit("keeps", end) \in {1, AccessViolation}
  BY ExitCodes DEF LiveExit
<1>3. end # "hang" => LiveExit("keeps", end) # 0 /\ LiveExit("keeps", end) # IllegalInstruction
  BY <1>2, ExitCodes
<1> QED BY <1>1, <1>3 DEF LiveVerdict, LiveFails

-----------------------------------------------------------------------------
(* Types.                                                                  *)

(* What a snapshot of the DLLs is.                                         *)
LEMMA DllStateType ==
  ASSUME TypeOK
  PROVE  /\ DllState \in States
         /\ DOMAIN DllState = Present
         /\ \A d \in Present : DllState[d] = disk[d]
<1>1. Present \in SUBSET Dlls
  BY DEF Present
<1>2. DllState \in [Present -> Versions]
  BY DEF DllState, Present, TypeOK
<1> QED BY <1>1, <1>2 DEF States, DllState

(* A file cut short is a state in which no DLL has a row.                  *)
LEMMA TornType == Torn \in States
<1>1. Torn \in [{} -> Versions]
  BY DEF Torn
<1> QED BY <1>1 DEF States

(* A fresh baseline of every DLL on disk is a state of the watched DLLs.   *)
LEMMA FullDiskType == [Dlls -> Versions] \subseteq States
BY DEF States

(* The first state is well formed.                                         *)
LEMMA TypeInit == Init => TypeOK
<1> SUFFICES ASSUME Init PROVE TypeOK
  OBVIOUS
<1>1. matches \subseteq Contracts
  BY DEF Init
<1>2. baseline \in States \union {NoFile}
  BY FullDiskType DEF Init
<1>3. at \in [Runs -> 1..(NumChanges + NumLive + 1)]
  BY SizesAssumption DEF Init
<1>4. snap \in [Runs -> States]
  BY TornType DEF Init
<1>5. pc \in [Runs -> Places]
  BY DEF Init, Places
<1>6. disk \in [Dlls -> Versions \union {Absent}]
  BY DEF Init
<1>7. spent \in [{"updates", "kills", "fixes", "records"} -> Nat]
  BY DEF Init
<1>8. failed \in [Runs -> BOOLEAN] /\ moved \in [Runs -> SUBSET Dlls] /\ waived \subseteq Dlls /\ alert \in BOOLEAN
  BY DEF Init
<1> QED BY <1>1, <1>2, <1>3, <1>4, <1>5, <1>6, <1>7, <1>8 DEF TypeOK

(* The steps of one run keep the types.                                    *)
LEMMA TypeStep ==
  ASSUME TypeOK, NEW r \in Runs, Step(r)
  PROVE  TypeOK'
<1> USE DEF TypeOK, watch, Goto
<1>1. CASE Quiet(r)
  BY <1>1 DEF Quiet, Places
<1>2. CASE BeginSweep(r)
  <2>1. 1 \in 1..(NumChanges + NumLive + 1)
    BY SizesAssumption
  <2> QED BY <1>2, <2>1 DEF BeginSweep, Places
<1>3. CASE Environment(r)
  BY <1>3 DEF Environment, Places
<1>t. ASSUME NEW fails \in BOOLEAN, Tested(r, fails), at[r] \in Items
      PROVE  TypeOK'
  <2>1. at[r] + 1 \in 1..(NumChanges + NumLive + 1)
    BY <1>t, SizesAssumption DEF Items
  <2> QED BY <1>t, <2>1 DEF Tested
<1>4. CASE RunChange(r)
  <2>1. at[r] \in Items
    BY <1>4, SizesAssumption DEF RunChange, Changes, Items
  <2>2. CASE Style[at[r]] = "none"
    <3>1. Tested(r, FALSE)
      BY <1>4, <2>2 DEF RunChange
    <3> QED BY <2>1, <3>1, <1>t
  <2>3. CASE Style[at[r]] # "none"
    <3>1. PICK end \in EndsOf(at[r]) : \E said \in Speech(end), bench \in BenchSpeech :
            Tested(r, Status(end, Transcript(Style[at[r]], end, said, bench)) \in Failing)
      BY <1>4, <2>3 DEF RunChange
    <3>2. PICK said \in Speech(end), bench \in BenchSpeech :
            Tested(r, Status(end, Transcript(Style[at[r]], end, said, bench)) \in Failing)
      BY <3>1
    <3> DEFINE fails == Status(end, Transcript(Style[at[r]], end, said, bench)) \in Failing
    <3>3. fails \in BOOLEAN /\ Tested(r, fails)
      BY <3>2
    <3> HIDE DEF fails
    <3> QED BY <2>1, <3>3, <1>t
  <2> QED BY <2>2, <2>3
<1>5. CASE AbiAudit(r)
  BY <1>5 DEF AbiAudit, Places
<1>6. CASE RunLive(r)
  <2>1. at[r] \in Items
    BY <1>6 DEF RunLive, Live
  <2>a. PICK end \in EndsOf(at[r]) : \E log \in LiveSpeech(Wording[at[r]], Right(at[r]), end) :
          Tested(r, LiveFails(Style[at[r]], log, end, Avx512))
    BY <1>6 DEF RunLive
  <2>2. PICK log \in LiveSpeech(Wording[at[r]], Right(at[r]), end) :
          Tested(r, LiveFails(Style[at[r]], log, end, Avx512))
    BY <2>a
  <2> DEFINE fails == LiveFails(Style[at[r]], log, end, Avx512)
  <2>3. fails \in BOOLEAN /\ Tested(r, fails)
    BY <2>2 DEF LiveFails
  <2> HIDE DEF fails
  <2> QED BY <2>1, <2>3, <1>t
<1>7. CASE Verdict(r)
  BY <1>7 DEF Verdict, Places
<1>8. CASE ClearAlert(r)
  BY <1>8 DEF ClearAlert, Places
<1>9. CASE HashBaseline(r)
  BY <1>9, DllStateType DEF HashBaseline, Places
<1>10. CASE WriteBaseline(r)
  BY <1>10 DEF WriteBaseline, Places
<1>11. CASE RaiseAlert(r)
  BY <1>11 DEF RaiseAlert, Places
<1> QED BY <1>1, <1>2, <1>3, <1>4, <1>5, <1>6, <1>7, <1>8, <1>9, <1>10, <1>11 DEF Step
(* So do servicing, a kill, a fix and a baseline recorded by hand.         *)
LEMMA TypeEnvironment ==
  ASSUME TypeOK,
         \/ \E r \in Runs : Kill(r) \/ \E force \in BOOLEAN : Start(r, force)
         \/ \E d \in Dlls, v \in Versions \union {Absent} : Update(d, v)
         \/ \E i \in Items : Fix(i)
         \/ RecordByHand
  PROVE  TypeOK'
<1> USE DEF TypeOK, watch, run, Goto, Spend
<1>1. ASSUME NEW r \in Runs, Kill(r) PROVE TypeOK'
  <2>1. baseline' \in States \union {NoFile}
    BY <1>1, TornType DEF Kill
  <2>2. pc' \in [Runs -> Places]
    BY <1>1 DEF Kill, Places
  <2>4. spent' \in [{"updates", "kills", "fixes", "records"} -> Nat]
    BY <1>1 DEF Kill
  <2>3. UNCHANGED <<disk, matches, alert, waived, at, failed, snap, moved>>
    BY <1>1 DEF Kill
  <2> QED BY <2>1, <2>2, <2>3, <2>4
<1>2. ASSUME NEW r \in Runs, NEW force \in BOOLEAN, Start(r, force) PROVE TypeOK'
  BY <1>2 DEF Start, Places
<1>3. ASSUME NEW d \in Dlls, NEW v \in Versions \union {Absent}, Update(d, v) PROVE TypeOK'
  BY <1>3 DEF Update
<1>4. ASSUME NEW i \in Items, Fix(i) PROVE TypeOK'
  <2>1. \A d \in DllsOf[i] : <<i, d, disk[d]>> \in Contracts
    BY <1>4, DllsOfAssumption DEF Fix, Present, Contracts
  <2>2. matches' \subseteq Contracts
    BY <1>4, <2>1 DEF Fix
  <2>3. waived' \subseteq Dlls
    BY <1>4, DllsOfAssumption DEF Fix
  <2> QED BY <1>4, <2>2, <2>3 DEF Fix
<1>5. CASE RecordByHand
  BY <1>5, DllStateType DEF RecordByHand
<1> QED BY <1>1, <1>2, <1>3, <1>4, <1>5

(* The state of the watch is well formed in every reachable state.         *)
THEOREM TypeCorrect == Spec => []TypeOK
<1>1. Init => TypeOK
  BY TypeInit
<1>2. TypeOK /\ [Next]_vars => TypeOK'
  <2> SUFFICES ASSUME TypeOK, [Next]_vars PROVE TypeOK'
    OBVIOUS
  <2>1. CASE UNCHANGED vars
    BY <2>1 DEF TypeOK, vars, watch, run
  <2>2. CASE Next
    BY <2>2, TypeStep, TypeEnvironment DEF Next
  <2> QED BY <2>1, <2>2
<1> QED BY <1>1, <1>2, PTL DEF Spec

-----------------------------------------------------------------------------
(***************************************************************************)
(* A broken update is never accepted.  That is not inductive: what a run   *)
(* has tested so far has to be carried through its sweep, and through the  *)
(* hashing to the write.                                                   *)
(***************************************************************************)
InSweep == {"environment", "changes", "live", "clear", "hash", "write"}
Passed == {"clear", "hash", "write"}

(* Until something failed, each gated item already run is right about      *)
(* every DLL that has not been replaced since the sweep began.             *)
SoFarRight(r) ==
  pc[r] \in InSweep /\ ~failed[r] =>
    \A i \in Gated : i < at[r] =>
      \A d \in DllsOf[i] \ moved[r] : <<i, d, disk[d]>> \in matches

(* A run gets past the verdict only when all items ran and nothing failed. *)
PassedAll(r) == pc[r] \in Passed => ~failed[r] /\ at[r] \notin Items

(* What was hashed is still on disk, or its DLL is known to have moved.    *)
SnapFresh(r) ==
  pc[r] = "write" => \A d \in (DOMAIN snap[r]) \ moved[r] : snap[r][d] = disk[d]

(* Each version in the baseline is one that a sweep has vouched for.       *)
Vouched ==
  baseline # NoFile => GatedRight((DOMAIN baseline) \ waived, baseline)

IInv ==
  /\ TypeOK
  /\ Vouched
  /\ \A r \in Runs : SoFarRight(r) /\ PassedAll(r) /\ SnapFresh(r)

(* When all items ran and nothing failed, the assembly is right about the  *)
(* DLLs that stayed put.                                                   *)
LEMMA PassedIsRight ==
  ASSUME IInv, NEW r \in Runs, pc[r] \in Passed
  PROVE  GatedRight(Dlls \ moved[r], disk)
<1>1. \A i \in Items : i < at[r]
  BY SizesAssumption DEF IInv, PassedAll, TypeOK, Items
<1>2. Gated \subseteq Items
  BY DEF Gated, Provable
<1> QED BY <1>1, <1>2 DEF IInv, SoFarRight, PassedAll, Passed, InSweep, GatedRight

(* The invariant holds before the first run: nothing is vouched for yet.   *)
LEMMA IInit == Init => IInv
<1> SUFFICES ASSUME Init PROVE IInv
  OBVIOUS
<1>1. Vouched
  BY DEF Init, Vouched, GatedRight
<1>2. \A r \in Runs : SoFarRight(r) /\ PassedAll(r) /\ SnapFresh(r)
  BY DEF Init, SoFarRight, PassedAll, SnapFresh, InSweep, Passed
<1> QED BY <1>1, <1>2, TypeInit DEF IInv

(* One step of run r says nothing new about another run: of the three      *)
(* parts, only its own can change, unless the disk or the contracts do.    *)
LEMMA OtherRuns ==
  ASSUME IInv, NEW r \in Runs, NEW q \in Runs \ {r}, UNCHANGED <<disk, matches>>,
         pc'[q] = pc[q], at'[q] = at[q], failed'[q] = failed[q],
         snap'[q] = snap[q], moved'[q] = moved[q]
  PROVE  (SoFarRight(q) /\ PassedAll(q) /\ SnapFresh(q))'
BY DEF IInv, SoFarRight, PassedAll, SnapFresh

(* Running one item: the counter passes it, and either the run has failed  *)
(* or the item is right about its DLLs as they are now.                    *)
LEMMA TestedIsRight ==
  ASSUME IInv, NEW r \in Runs, NEW fails \in BOOLEAN, Tested(r, fails),
         pc[r] \in InSweep \ Passed,
         ~fails => (at[r] \in Gated => \A d \in DllsOf[at[r]] : <<at[r], d, disk[d]>> \in matches)
  PROVE  (SoFarRight(r) /\ PassedAll(r) /\ SnapFresh(r))'
<1> USE DEF IInv, TypeOK, Tested, watch
<1>1. PassedAll(r)' /\ SnapFresh(r)'
  BY DEF PassedAll, SnapFresh, Passed, InSweep
<1>2. ASSUME ~failed'[r], NEW i \in Gated, i < at'[r], NEW d \in DllsOf[i] \ moved[r]
      PROVE  <<i, d, disk[d]>> \in matches
  <2>1. ~failed[r] /\ ~fails
    BY <1>2
  <2>2. i \in Nat /\ at[r] \in Nat
    BY SizesAssumption DEF Gated, Provable, Items
  <2>3. CASE i = at[r]
    BY <2>1, <2>3, <1>2
  <2>4. CASE i < at[r]
    BY <2>1, <2>4, <1>2 DEF SoFarRight
  <2> QED BY <1>2, <2>2, <2>3, <2>4
<1> QED BY <1>1, <1>2 DEF SoFarRight, Gated, Hard, Provable, Runs512

(* Every step of a run keeps the invariant.                                *)
LEMMA IStep ==
  ASSUME IInv, NEW r \in Runs, Step(r)
  PROVE  IInv'
<1> DEFINE Own == (SoFarRight(r) /\ PassedAll(r) /\ SnapFresh(r))'
<1>0. TypeOK /\ TypeOK'
  BY TypeStep DEF IInv
<1>1. ASSUME UNCHANGED <<disk, matches>>, Vouched', Own,
             \A q \in Runs \ {r} :
               /\ pc'[q] = pc[q] /\ at'[q] = at[q] /\ failed'[q] = failed[q]
               /\ snap'[q] = snap[q] /\ moved'[q] = moved[q]
      PROVE  IInv'
  <2>1. \A q \in Runs \ {r} : (SoFarRight(q) /\ PassedAll(q) /\ SnapFresh(q))'
    BY <1>1, OtherRuns
  <2> QED BY <1>0, <1>1, <2>1 DEF IInv
<1>2. UNCHANGED <<baseline, waived, matches>> => Vouched'
  BY DEF IInv, Vouched, GatedRight, Gated, Hard, Provable, Runs512
<1> USE <1>0 DEF TypeOK, watch, Goto
<1>3. CASE Quiet(r)
  <2>1. Own
    BY <1>3 DEF Quiet, SoFarRight, PassedAll, SnapFresh, InSweep, Passed
  <2> QED BY <1>1, <1>2, <1>3, <2>1 DEF Quiet
<1>4. CASE BeginSweep(r)
  <2>1. Own
    <3>1. \A i \in Gated : ~(i < 1)
      BY SizesAssumption DEF Gated, Provable, Items
    <3>2. at'[r] = 1 /\ pc'[r] = "environment"
      BY <1>4 DEF BeginSweep
    <3>3. Gated' = Gated
      BY DEF Gated, Hard, Provable, Runs512
    <3> QED BY <3>1, <3>2, <3>3 DEF SoFarRight, PassedAll, SnapFresh, Passed
  <2> QED BY <1>1, <1>2, <1>4, <2>1 DEF BeginSweep
<1>5. CASE Environment(r)
  <2>1. Own
    BY <1>5 DEF IInv, Environment, SoFarRight, PassedAll, SnapFresh, InSweep, Passed, Gated, Hard, Provable, Runs512
  <2> QED BY <1>1, <1>2, <1>5, <2>1 DEF Environment
<1>6. ASSUME NEW fails \in BOOLEAN, Tested(r, fails),
             pc[r] \in InSweep \ Passed,
             ~fails => (at[r] \in Gated => \A d \in DllsOf[at[r]] : <<at[r], d, disk[d]>> \in matches)
      PROVE  IInv'
  <2>1. Own
    BY <1>6, TestedIsRight
  <2> QED BY <1>1, <1>2, <1>6, <2>1 DEF Tested
<1>7. CASE RunChange(r)
  <2>1. at[r] \in Changes /\ pc[r] \in InSweep \ Passed
    BY <1>7 DEF RunChange, InSweep, Passed
  <2>2. at[r] \in Gated => Style[at[r]] = "or"
    BY <2>1 DEF Gated, Hard, Live
  <2>3. CASE Style[at[r]] = "none"
    <3>1. Tested(r, FALSE)
      BY <1>7, <2>3 DEF RunChange
    <3> QED BY <2>1, <2>2, <2>3, <3>1, <1>6
  <2>4. CASE Style[at[r]] # "none"
    <3>1. PICK end \in EndsOf(at[r]) : \E said \in Speech(end), bench \in BenchSpeech :
            Tested(r, Status(end, Transcript(Style[at[r]], end, said, bench)) \in Failing)
      BY <1>7, <2>4 DEF RunChange
    <3>2. PICK said \in Speech(end), bench \in BenchSpeech :
            Tested(r, Status(end, Transcript(Style[at[r]], end, said, bench)) \in Failing)
      BY <3>1
    <3> DEFINE fails == Status(end, Transcript(Style[at[r]], end, said, bench)) \in Failing
    <3>3. ~fails => (at[r] \in Gated => Right(at[r]))
      <4> SUFFICES ASSUME at[r] \in Gated, ~Right(at[r]) PROVE fails
        OBVIOUS
      <4>1. end \in {"differ", "crash", "hang", "nobuild"}
        BY <3>1 DEF EndsOf, Gated, Provable
      <4> QED BY <2>2, <4>1, ChangeGateHolds
    <3>4. fails \in BOOLEAN /\ Tested(r, fails)
      BY <3>2
    <3> HIDE DEF fails
    <3> QED BY <2>1, <3>3, <3>4, <1>6 DEF Right
  <2> QED BY <2>3, <2>4
<1>8. CASE AbiAudit(r)
  <2>1. Own
    BY <1>8 DEF IInv, AbiAudit, SoFarRight, PassedAll, SnapFresh, InSweep, Passed, Gated, Hard, Provable, Runs512
  <2> QED BY <1>1, <1>2, <1>8, <2>1 DEF AbiAudit
<1>9. CASE RunLive(r)
  <2>1. at[r] \in Live /\ pc[r] \in InSweep \ Passed
    BY <1>9 DEF RunLive, InSweep, Passed
  <2>2. at[r] \in Gated => Style[at[r]] = "keeps" /\ Wording[at[r]] # "LIVE SUBSTITUTION: PASS"
    BY <2>1 DEF Gated, Hard, Live
  <2>a. PICK end \in EndsOf(at[r]) : \E log \in LiveSpeech(Wording[at[r]], Right(at[r]), end) :
          Tested(r, LiveFails(Style[at[r]], log, end, Avx512))
    BY <1>9 DEF RunLive
  <2>3. PICK log \in LiveSpeech(Wording[at[r]], Right(at[r]), end) :
          Tested(r, LiveFails(Style[at[r]], log, end, Avx512))
    BY <2>a
  <2> DEFINE fails == LiveFails(Style[at[r]], log, end, Avx512)
  <2>4. ~fails => (at[r] \in Gated => Right(at[r]))
    <3> SUFFICES ASSUME at[r] \in Gated, ~Right(at[r]) PROVE fails
      OBVIOUS
    <3>1. end \in {"differ", "crash", "hang", "nobuild"}
      BY <2>a DEF EndsOf, Gated, Provable
    <3>2. log \in LiveSpeech(Wording[at[r]], FALSE, end)
      BY <2>3 DEF LiveSpeech, LastLine
    <3> QED BY <3>1, <3>2, <2>2, LiveGateHolds
  <2>5. fails \in BOOLEAN /\ Tested(r, fails)
    BY <2>3 DEF LiveFails
  <2> HIDE DEF fails
  <2> QED BY <2>1, <2>4, <2>5, <1>6 DEF Right
<1>10. CASE Verdict(r)
  <2>1. Own
    BY <1>10 DEF IInv, Verdict, SoFarRight, PassedAll, SnapFresh, InSweep, Passed, Gated, Hard, Provable, Runs512
  <2> QED BY <1>1, <1>2, <1>10, <2>1 DEF Verdict
<1>11. CASE ClearAlert(r)
  <2>1. Own
    BY <1>11 DEF IInv, ClearAlert, SoFarRight, PassedAll, SnapFresh, InSweep, Passed, Gated, Hard, Provable, Runs512
  <2> QED BY <1>1, <1>2, <1>11, <2>1 DEF ClearAlert
<1>12. CASE HashBaseline(r)
  <2>1. SoFarRight(r)' /\ PassedAll(r)'
    BY <1>12 DEF IInv, HashBaseline, SoFarRight, PassedAll, InSweep, Passed, Gated, Hard, Provable, Runs512
  <2>2. SnapFresh(r)'
    BY <1>12, DllStateType DEF HashBaseline, SnapFresh
  <2> QED BY <1>1, <1>2, <1>12, <2>1, <2>2 DEF HashBaseline
<1>13. CASE WriteBaseline(r)
  <2>1. Own
    BY <1>13 DEF WriteBaseline, SoFarRight, PassedAll, SnapFresh, InSweep, Passed
  <2>2. GatedRight(Dlls \ moved[r], disk)
    BY <1>13, PassedIsRight DEF WriteBaseline, Passed
  <2>3. \A d \in (DOMAIN snap[r]) \ moved[r] : d \in Dlls /\ snap[r][d] = disk[d]
    BY <1>13 DEF WriteBaseline, IInv, SnapFresh, States
  <2>4. Vouched'
    BY <1>13, <2>2, <2>3 DEF WriteBaseline, Vouched, GatedRight, Gated, Hard, Provable, Runs512
  <2> QED BY <1>1, <1>13, <2>1, <2>4 DEF WriteBaseline
<1>14. CASE RaiseAlert(r)
  <2>1. Own
    BY <1>14 DEF RaiseAlert, SoFarRight, PassedAll, SnapFresh, InSweep, Passed
  <2> QED BY <1>1, <1>2, <1>14, <2>1 DEF RaiseAlert
<1> QED BY <1>3, <1>4, <1>5, <1>7, <1>8, <1>9, <1>10, <1>11, <1>12, <1>13, <1>14 DEF Step

(* Nothing around the runs breaks the invariant either.                    *)
LEMMA IEnvironment ==
  ASSUME IInv,
         \/ \E r \in Runs : Kill(r) \/ \E force \in BOOLEAN : Start(r, force)
         \/ \E d \in Dlls, v \in Versions \union {Absent} : Update(d, v)
         \/ \E i \in Items : Fix(i)
         \/ RecordByHand
  PROVE  IInv'
<1>0. TypeOK /\ TypeOK' /\ Vouched
  BY TypeEnvironment DEF IInv
<1>p. Gated' = Gated /\ Gated \subseteq Items
  BY DEF Gated, Hard, Provable, Runs512
<1> USE <1>0 DEF TypeOK, watch, run, Goto
<1>1. ASSUME NEW r \in Runs, Kill(r) PROVE IInv'
  <2>1. Vouched'
    BY <1>1, <1>p DEF Kill, Vouched, GatedRight, Torn
  <2>2. (SoFarRight(r) /\ PassedAll(r) /\ SnapFresh(r))'
    BY <1>1 DEF Kill, SoFarRight, PassedAll, SnapFresh, InSweep, Passed
  <2>3. \A q \in Runs \ {r} : (SoFarRight(q) /\ PassedAll(q) /\ SnapFresh(q))'
    BY <1>1, OtherRuns DEF Kill
  <2> QED BY <2>1, <2>2, <2>3 DEF IInv
<1>2. ASSUME NEW r \in Runs, NEW force \in BOOLEAN, Start(r, force) PROVE IInv'
  <2>1. Vouched'
    BY <1>2, <1>p DEF Start, Vouched, GatedRight
  <2>2. (SoFarRight(r) /\ PassedAll(r) /\ SnapFresh(r))'
    BY <1>2 DEF Start, SoFarRight, PassedAll, SnapFresh, InSweep, Passed
  <2>3. \A q \in Runs \ {r} : (SoFarRight(q) /\ PassedAll(q) /\ SnapFresh(q))'
    BY <1>2, OtherRuns DEF Start
  <2> QED BY <2>1, <2>2, <2>3 DEF IInv
<1>3. ASSUME NEW d \in Dlls, NEW v \in Versions \union {Absent}, Update(d, v) PROVE IInv'
  <2>1. Vouched'
    BY <1>3, <1>p DEF Update, Vouched, GatedRight
  <2>2. ASSUME NEW r \in Runs PROVE (SoFarRight(r) /\ PassedAll(r) /\ SnapFresh(r))'
    <3>1. /\ moved'[r] = moved[r] \union {d}
          /\ \A e \in Dlls \ {d} : disk'[e] = disk[e]
          /\ UNCHANGED <<matches, pc, at, failed, snap>>
      BY <1>3 DEF Update
    <3>2. SoFarRight(r)'
      BY <3>1, <1>p, DllsOfAssumption DEF IInv, SoFarRight
    <3>3. PassedAll(r)'
      BY <3>1 DEF IInv, PassedAll
    <3>4. SnapFresh(r)'
      BY <3>1 DEF IInv, SnapFresh, States
    <3> QED BY <3>2, <3>3, <3>4
  <2> QED BY <2>1, <2>2 DEF IInv
<1>4. ASSUME NEW i \in Items, Fix(i) PROVE IInv'
  <2>1. ASSUME NEW j \in Gated, NEW d \in DllsOf[j], <<j, d, disk[d]>> \in matches
        PROVE  <<j, d, disk[d]>> \in matches'
    BY <1>4, <2>1 DEF Fix
  <2>2. ASSUME NEW j \in Gated, NEW d \in DllsOf[j], NEW v, v = disk[d] \/ j # i,
               <<j, d, v>> \in matches
        PROVE  <<j, d, v>> \in matches'
    BY <1>4, <2>1, <2>2 DEF Fix
  <2>3. Vouched'
    <3> SUFFICES ASSUME baseline # NoFile, NEW j \in Gated,
                        NEW d \in DllsOf[j] \intersect ((DOMAIN baseline) \ waived')
                 PROVE  <<j, d, baseline[d]>> \in matches'
      BY <1>4, <1>p DEF Fix, Vouched, GatedRight
    <3>1. d \notin waived /\ (j = i => baseline[d] = disk[d])
      BY <1>4 DEF Fix
    <3>2. <<j, d, baseline[d]>> \in matches
      BY <3>1 DEF Vouched, GatedRight
    <3> QED BY <3>1, <3>2, <2>2
  <2>4. ASSUME NEW r \in Runs PROVE (SoFarRight(r) /\ PassedAll(r) /\ SnapFresh(r))'
    <3>1. UNCHANGED <<disk, pc, at, failed, snap, moved>>
      BY <1>4 DEF Fix
    <3>2. SoFarRight(r)'
      BY <3>1, <1>p, <2>1 DEF IInv, SoFarRight
    <3> QED BY <3>1, <3>2 DEF IInv, PassedAll, SnapFresh
  <2> QED BY <2>3, <2>4 DEF IInv
<1>5. CASE RecordByHand
  <2>1. Vouched'
    BY <1>5, DllStateType DEF RecordByHand, Vouched, GatedRight, Present
  <2>2. \A r \in Runs : (SoFarRight(r) /\ PassedAll(r) /\ SnapFresh(r))'
    BY <1>5, <1>p DEF RecordByHand, IInv, SoFarRight, PassedAll, SnapFresh
  <2> QED BY <2>1, <2>2 DEF IInv
<1> QED BY <1>1, <1>2, <1>3, <1>4, <1>5

(* Hence so does every step.                                               *)
LEMMA INext ==
  ASSUME IInv, [Next]_vars
  PROVE  IInv'
<1>1. CASE UNCHANGED vars
  BY <1>1 DEF IInv, TypeOK, Vouched, GatedRight, Gated, Hard, Provable, Runs512, SoFarRight,
              PassedAll, SnapFresh, vars, watch, run
<1>2. CASE Next
  BY <1>2, IStep, IEnvironment DEF Next
<1> QED BY <1>1, <1>2

(* The invariant holds in every reachable state.                           *)
LEMMA Invariance == Spec => []IInv
<1>1. IInv /\ [Next]_vars => IInv'
  BY INext
<1> QED BY <1>1, IInit, PTL DEF Spec

-----------------------------------------------------------------------------
(***************************************************************************)
(* The theorems, first of the items with a hard gate, with no assumption   *)
(* about the other scripts.                                                *)
(***************************************************************************)
GatedPass  == \A r \in Runs : pc[r] = "clear" => GatedRight(Dlls \ moved[r], disk)
GatedQuiet ==
  [][\A r \in Runs : Quiet(r) /\ baseline # NoFile => GatedRight(Present \ waived, disk)]_vars
GatedAlert ==
  [][alert /\ ~alert' =>
       \E r \in Runs : pc[r] = "clear" /\ GatedRight(Dlls \ moved[r], disk)]_vars

(* A sweep about to clear the alert: every item with a hard gate is right  *)
(* about every DLL that stayed put, though soft gates ran beside it.       *)
THEOREM PassOfGated == Spec => []GatedPass
<1>1. IInv => GatedPass
  BY PassedIsRight DEF GatedPass, Passed
<1> QED BY <1>1, Invariance, PTL

(* No update that breaks an item with a hard gate is ever accepted into    *)
(* the baseline.                                                           *)
THEOREM BaselineOfGated == Spec => []Vouched
<1>1. IInv => Vouched
  BY DEF IInv
<1> QED BY <1>1, Invariance, PTL

(* No run says "nothing to re-prove" while an item with a hard gate is     *)
(* wrong about a DLL on disk that a sweep vouches for.                     *)
THEOREM QuietOfGated == Spec => GatedQuiet
<1>1. IInv /\ [Next]_vars =>
        [\A r \in Runs : Quiet(r) /\ baseline # NoFile => GatedRight(Present \ waived, disk)]_vars
  <2> SUFFICES ASSUME IInv, NEW r \in Runs, Quiet(r), baseline # NoFile
               PROVE  GatedRight(Present \ waived, disk)
    OBVIOUS
  <2>1. \A d \in Present : d \in DOMAIN baseline /\ baseline[d] = disk[d]
    BY DEF Quiet, Changed
  <2>2. GatedRight((DOMAIN baseline) \ waived, baseline)
    BY DEF IInv, Vouched
  <2> QED BY <2>1, <2>2 DEF GatedRight
<1> QED BY <1>1, Invariance, PTL DEF Spec, GatedQuiet

(* The alert goes only at the end of a sweep that proved every item with a *)
(* hard gate about what stayed put, whichever run raised it.               *)
THEOREM AlertOfGated == Spec => GatedAlert
<1>1. IInv /\ [Next]_vars =>
        [alert /\ ~alert' =>
           \E r \in Runs : pc[r] = "clear" /\ GatedRight(Dlls \ moved[r], disk)]_vars
  <2> SUFFICES ASSUME IInv, Next, alert, ~alert'
               PROVE  \E r \in Runs : pc[r] = "clear" /\ GatedRight(Dlls \ moved[r], disk)
    OBVIOUS
  <2>1. PICK r \in Runs : ClearAlert(r)
    BY DEF Next, Step, Kill, Start, Update, Fix, RecordByHand, Quiet, BeginSweep, Environment,
           RunChange, AbiAudit, RunLive, Tested, Verdict, HashBaseline, WriteBaseline, RaiseAlert,
           watch, run, IInv, TypeOK
  <2> QED BY <2>1, PassedIsRight DEF ClearAlert, Passed
<1> QED BY <1>1, Invariance, PTL DEF Spec, GatedAlert

-----------------------------------------------------------------------------
(***************************************************************************)
(* When all gates are hard, that is what the watch promises of all items.  *)
(***************************************************************************)
LEMMA AllGated ==
  ASSUME HardGates, NEW D, NEW version
  PROVE  GatedRight(D, version) => RightAbout(D, version)
<1>1. ASSUME NEW i \in Provable, i \notin Gated
      PROVE  DllsOf[i] = {}
  BY <1>1 DEF Gated, Hard, HardGates, Provable, Live
<1> QED BY <1>1 DEF GatedRight, RightAbout

(* When a sweep is about to clear the alert, every item it can run is      *)
(* right about every DLL that stayed put: exit code 0 means what           *)
(* revalidate.ps1 says it means, when every script is a hard gate.         *)
THEOREM PassIsSound == HardGates => (Spec => []PassMeansRight)
<1> SUFFICES ASSUME HardGates PROVE Spec => []PassMeansRight
  OBVIOUS
<1>1. GatedPass => PassMeansRight
  BY AllGated DEF GatedPass, PassMeansRight
<1> QED BY <1>1, PassOfGated, PTL

(* A broken update is never accepted into the baseline.                    *)
THEOREM BaselineIsProved == HardGates => (Spec => []BaselineProved)
<1> SUFFICES ASSUME HardGates PROVE Spec => []BaselineProved
  OBVIOUS
<1>1. Vouched => BaselineProved
  BY AllGated DEF Vouched, BaselineProved
<1> QED BY <1>1, BaselineOfGated, PTL

(* No run says "nothing to re-prove" while a change is wrong about a DLL   *)
(* on disk that a sweep vouches for.                                       *)
THEOREM NoFalseAllClear == HardGates => (Spec => QuietIsProved)
<1> SUFFICES ASSUME HardGates PROVE Spec => QuietIsProved
  OBVIOUS
<1>1. [\A r \in Runs : Quiet(r) /\ baseline # NoFile => GatedRight(Present \ waived, disk)]_vars
      => [\A r \in Runs : Quiet(r) /\ baseline # NoFile => RightAbout(Present \ waived, disk)]_vars
  BY AllGated
<1> QED BY <1>1, QuietOfGated, PTL DEF GatedQuiet, QuietIsProved

(* The alert goes only at the end of a sweep during which everything that  *)
(* stayed put was proved, whichever run raised it.                         *)
THEOREM AlertStays == HardGates => (Spec => AlertIsSticky)
<1> SUFFICES ASSUME HardGates PROVE Spec => AlertIsSticky
  OBVIOUS
<1>1. [alert /\ ~alert' =>
         \E r \in Runs : pc[r] = "clear" /\ GatedRight(Dlls \ moved[r], disk)]_vars
      => [alert /\ ~alert' =>
            \E r \in Runs : /\ pc[r] = "clear"
                            /\ RightAbout(Dlls \ moved[r], disk)]_vars
  BY AllGated
<1> QED BY <1>1, AlertOfGated, PTL DEF GatedAlert, AlertIsSticky
=============================================================================
