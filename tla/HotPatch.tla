------------------------------ MODULE HotPatch ------------------------------
(***************************************************************************)
(* One block of a live-substitution harness: it validates its              *)
(* implementations, overwrites the prologues of several exports of its own *)
(* process with jumps to them, drives the exports, checks its counters and *)
(* puts the saved bytes back, first installed first removed.               *)
(*                                                                         *)
(* The code of the DLL is a row of cells, one per byte; the 14-byte jump   *)
(* and the 16 saved bytes are StubLen and SaveLen cells.                   *)
(***************************************************************************)
EXTENDS Integers, FiniteSets

CONSTANTS
  NumTargets,         \* the exports of the block, in the order it uses them
  StubLen, SaveLen,   \* bytes a patch writes, bytes it saves and restores
  Size,               \* cells of code
  Layouts,            \* where the exports may be: [Targets -> Cells]
  Calls,              \* calls of the corpus to each export
  MaxNested           \* bound on calls from Windows' own code

Targets == 1..NumTargets
Cells   == 1..Size

ASSUME SizesAssumption ==
  /\ NumTargets \in Nat \ {0} /\ Size \in Nat /\ Calls \in Nat \ {0} /\ MaxNested \in Nat
  /\ StubLen \in Nat \ {0} /\ SaveLen \in Nat /\ StubLen <= SaveLen
(* The linker starts functions on multiples of 16 bytes, and may give two  *)
(* exports the same body; so prologues coincide or are SaveLen apart.      *)
ASSUME LayoutsAssumption ==
  \A l \in Layouts :
    /\ l \in [Targets -> Cells]
    /\ \A f \in Targets : l[f] + SaveLen - 1 <= Size
    /\ \A f, g \in Targets : l[f] < l[g] => l[f] + SaveLen <= l[g]

Shipped == <<0, 0>>                              \* a byte of the shipped code
Stub    == Targets \X (1..StubLen)               \* byte j of the jump to wrapper f
Junk    == <<0, 1>>                              \* what an unused saved[] holds

(* What a call can run: the wrapper of a target, or one of these.          *)
ShippedCode == 0
Torn        == -1

VARIABLES
  entry,     \* export -> its address (GetProcAddress)
  proven,    \* the implementations that match, whether validated yet or not
  mem,       \* cell -> its content
  saved,     \* export -> its patch_t.saved
  on,        \* export -> its patch_t.on
  counter,   \* wrapper -> how often it was entered since the counts were noted
  pc, cur, at,   \* the harness: its place, its export, its byte or its call
  failures,  \* the harness's count of failed checks
  last,      \* what the latest call of an export ran
  driven,    \* ghost: the exports whose corpus ran through their wrapper
  nested     \* calls from Windows' own code so far

vars == <<entry, proven, mem, saved, on, counter, pc, cur, at, failures, last, driven, nested>>

(* No two exports are one: every patch has its bytes to itself.            *)
Spaced == \A f, g \in Targets : f # g => entry[f] # entry[g]

(* What the processor runs when it enters f: a wrapper when the whole jump *)
(* is there, the shipped code when nothing of it is, garbage otherwise.    *)
Jump(f, g) == \A j \in 1..StubLen : mem[entry[f] + j - 1] = <<g, j>>
Entered(f) ==
  IF \E g \in Targets : Jump(f, g) THEN CHOOSE g \in Targets : Jump(f, g)
  ELSE IF \A j \in 1..SaveLen : mem[entry[f] + j - 1] = Shipped THEN ShippedCode ELSE Torn

Init ==
  /\ entry \in Layouts
  /\ proven \in SUBSET Targets
  /\ mem = [a \in Cells |-> Shipped]
  /\ saved = [f \in Targets |-> [j \in 1..SaveLen |-> Junk]]
  /\ on = [f \in Targets |-> FALSE]
  /\ counter = [f \in Targets |-> 0]
  /\ pc = "validate" /\ cur = 1 /\ at = 1
  /\ failures = 0 /\ last = ShippedCode /\ driven = {} /\ nested = 0

(* Place p for the next export, or place q when this was the last one.     *)
ForEach(p, q) ==
  IF cur < NumTargets THEN pc' = p /\ cur' = cur + 1 ELSE pc' = q /\ cur' = 1

Fail(n) == failures' = failures + n

-----------------------------------------------------------------------------
(* Validate first: one implementation that does not match its reference,   *)
(* and the block patches nothing.                                          *)
Validate ==
  /\ pc = "validate"
  /\ IF proven = Targets THEN pc' = "protect" /\ Fail(0) ELSE pc' = "done" /\ Fail(1)
  /\ UNCHANGED <<entry, proven, mem, saved, on, counter, cur, at, last, driven, nested>>

(* patch_on: make the page writable, which may fail, and save the bytes.   *)
Protect ==
  /\ pc = "protect"
  /\ \/ /\ saved' = [saved EXCEPT ![cur] = [j \in 1..SaveLen |-> mem[entry[cur] + j - 1]]]
        /\ pc' = "write" /\ at' = 1 /\ Fail(0) /\ UNCHANGED cur
     \/ /\ ForEach("protect", "note") /\ Fail(1) /\ UNCHANGED <<saved, at>>
  /\ UNCHANGED <<entry, proven, mem, on, counter, last, driven, nested>>

(* Mutant of WriteByte: one byte too many is copied.                       *)
WriteByteTooFar ==
  /\ pc = "write"
  /\ mem' = [mem EXCEPT ![entry[cur] + at - 1] = <<cur, at>>]
  /\ IF at <= StubLen
     THEN at' = at + 1 /\ UNCHANGED <<pc, cur, on>>
     ELSE at' = 1 /\ on' = [on EXCEPT ![cur] = TRUE] /\ ForEach("protect", "note")
  /\ UNCHANGED <<entry, proven, saved, counter, failures, last, driven, nested>>

(* patch_on: the jump is copied over the prologue byte by byte.            *)
WriteByte ==
  /\ pc = "write"
  /\ mem' = [mem EXCEPT ![entry[cur] + at - 1] = <<cur, at>>]
  /\ IF at < StubLen
     THEN at' = at + 1 /\ UNCHANGED <<pc, cur, on>>
     ELSE at' = 1 /\ on' = [on EXCEPT ![cur] = TRUE] /\ ForEach("protect", "note")
  /\ UNCHANGED <<entry, proven, saved, counter, failures, last, driven, nested>>

(* Entering export f: a wrapper counts the call; torn code ends the child. *)
Enter(f) ==
  /\ last' = Entered(f)
  /\ counter' = [g \in Targets |-> IF Entered(f) = g THEN counter[g] + 1 ELSE counter[g]]

(* Mutant of Note: the totals are used, whoever called.                    *)
NoteNothing ==
  /\ pc = "note" /\ pc' = "drive"
  /\ UNCHANGED <<entry, proven, mem, saved, on, counter, cur, at, failures, last, driven, nested>>

(* The counts before the corpus are noted, so that only later calls count. *)
Note ==
  /\ pc = "note" /\ pc' = "drive"
  /\ counter' = [f \in Targets |-> 0]
  /\ UNCHANGED <<entry, proven, mem, saved, on, cur, at, failures, last, driven, nested>>

(* One call of the corpus through the system's own function pointer: the   *)
(* code of another export may give a result that differs, and may not.     *)
Drive ==
  /\ pc = "drive"
  /\ Enter(cur)
  /\ driven' = IF Entered(cur) = cur THEN driven \union {cur} ELSE driven
  /\ \E differs \in IF Entered(cur) \in {cur, ShippedCode} THEN {0} ELSE {0, 1} : Fail(differs)
  /\ IF Entered(cur) = Torn THEN pc' = "crashed" /\ UNCHANGED <<cur, at>>
     ELSE IF at < Calls THEN at' = at + 1 /\ UNCHANGED <<pc, cur>>
     ELSE at' = 1 /\ ForEach("drive", "check")
  /\ UNCHANGED <<entry, proven, mem, saved, on, nested>>

(* The counters must prove that our code executed, each export's own.      *)
Check ==
  /\ pc = "check"
  /\ Fail(IF \E f \in Targets : counter[f] = 0 THEN 1 ELSE 0)
  /\ pc' = "unprotect"
  /\ UNCHANGED <<entry, proven, mem, saved, on, counter, cur, at, last, driven, nested>>

(* Mutant of Unprotect: a patch that is not on is put back too.            *)
UnprotectAnyway ==
  /\ pc = "unprotect"
  /\ pc' = "restore" /\ at' = 1
  /\ UNCHANGED <<entry, proven, mem, saved, on, counter, cur, failures, last, driven, nested>>

(* patch_off: nothing to do for a patch that is not on; a page that cannot *)
(* be made writable is not noticed, and the copy faults.                   *)
Unprotect ==
  /\ pc = "unprotect"
  /\ \/ /\ ~on[cur] /\ ForEach("unprotect", "frozen") /\ UNCHANGED at
     \/ /\ on[cur] /\ pc' = "restore" /\ at' = 1 /\ UNCHANGED cur
     \/ /\ on[cur] /\ pc' = "crashed" /\ UNCHANGED <<cur, at>>
  /\ UNCHANGED <<entry, proven, mem, saved, on, counter, failures, last, driven, nested>>

(* Mutant of RestoreByte: the copy is as long as the index of the last byte. *)
RestoreByteShort ==
  /\ pc = "restore"
  /\ mem' = [mem EXCEPT ![entry[cur] + at - 1] = saved[cur][at]]
  /\ IF at < StubLen - 1
     THEN at' = at + 1 /\ UNCHANGED <<pc, cur, on>>
     ELSE at' = 1 /\ on' = [on EXCEPT ![cur] = FALSE] /\ ForEach("unprotect", "frozen")
  /\ UNCHANGED <<entry, proven, saved, counter, failures, last, driven, nested>>

(* patch_off: all the saved bytes are copied back, not the jump's alone.   *)
RestoreByte ==
  /\ pc = "restore"
  /\ mem' = [mem EXCEPT ![entry[cur] + at - 1] = saved[cur][at]]
  /\ IF at < SaveLen
     THEN at' = at + 1 /\ UNCHANGED <<pc, cur, on>>
     ELSE at' = 1 /\ on' = [on EXCEPT ![cur] = FALSE] /\ ForEach("unprotect", "frozen")
  /\ UNCHANGED <<entry, proven, saved, counter, failures, last, driven, nested>>

(* One more call of the first export must not move its counter.            *)
Frozen ==
  /\ pc = "frozen"
  /\ Enter(1)
  /\ IF Entered(1) = Torn THEN pc' = "crashed" /\ Fail(0)
     ELSE pc' = "done" /\ Fail(IF Entered(1) = 1 THEN 1 ELSE 0)
  /\ UNCHANGED <<entry, proven, mem, saved, on, cur, at, driven, nested>>

Main == \/ Validate \/ Protect \/ WriteByte \/ Note \/ Drive \/ Check
        \/ Unprotect \/ RestoreByte \/ Frozen

(* Mutant of Copying: other threads run while a jump is half written.      *)
CopyingUnseen == FALSE

(* The one thread is inside memcpy.                                        *)
Copying == pc \in {"write", "restore"}
(* Windows' own in-process code, under a call the harness makes, enters an *)
(* export.  The process has one thread, so never in the middle of a copy.  *)
Nested(f) ==
  /\ pc \notin {"done", "crashed"} /\ ~Copying
  /\ nested < MaxNested /\ nested' = nested + 1
  /\ Enter(f)
  /\ IF Entered(f) = Torn THEN pc' = "crashed" ELSE UNCHANGED pc
  /\ UNCHANGED <<entry, proven, mem, saved, on, cur, at, failures, driven>>

Stopped == pc \in {"done", "crashed"} /\ UNCHANGED vars

Next == Main \/ (\E f \in Targets : Nested(f)) \/ Stopped

Spec == Init /\ [][Next]_vars

-----------------------------------------------------------------------------
Clean == \A a \in Cells : mem[a] = Shipped
Contents == {Shipped, Junk} \union Stub

(* The harness's state is well formed.                                     *)
TypeOK ==
  /\ entry \in Layouts /\ proven \subseteq Targets
  /\ mem \in [Cells -> Contents]
  /\ saved \in [Targets -> [1..SaveLen -> Contents]]
  /\ on \in [Targets -> BOOLEAN] /\ counter \in [Targets -> Nat]
  /\ pc \in {"validate", "protect", "write", "note", "drive", "check", "unprotect",
             "restore", "frozen", "done", "crashed"}
  /\ cur \in Targets /\ at \in Nat \ {0} /\ failures \in Nat /\ nested \in Nat
  /\ last \in Targets \union {ShippedCode, Torn} /\ driven \subseteq Targets

(* The PASS line is honest wherever the exports turn out to be, even when  *)
(* several are one: every export's corpus ran its own wrapper, nothing     *)
(* unproven was installed, and every byte is the shipped one again.        *)
PassIsHonest ==
  pc = "done" /\ failures = 0 => driven = Targets /\ proven = Targets /\ Clean

(* Whichever patch failed to go in, a block that ends leaves the code as   *)
(* it found it, if no two exports are one.                                 *)
CleanWhenDone == pc = "done" /\ Spaced => Clean

(* With one thread and exports that are distinct, no call, of the corpus   *)
(* or from Windows' own code, ever runs half a jump.                       *)
NeverTorn == Spaced => last # Torn

(* With distinct exports the block keeps the promise of Substitution:      *)
(* until its last byte is written a patch is not there, and until its last *)
(* byte is back it is.                                                     *)
Name(code, ours) ==
  IF code \in ours THEN "ours" ELSE IF code = ShippedCode THEN "shipped" ELSE "torn"
CodeOf(f) ==
  IF ~Spaced \/ (pc = "write" /\ cur = f) THEN "shipped"
  ELSE IF pc = "restore" /\ cur = f THEN "ours"
  ELSE Name(Entered(f), {f})
LastRun == IF Spaced THEN Name(last, Targets) ELSE "shipped"

Promise == INSTANCE Substitution WITH
  code <- [f \in Targets |-> CodeOf(f)], last <- LastRun
KeepsPromise == Promise!Spec
=============================================================================
