-------------------------- MODULE HotPatch_proofs --------------------------
(***************************************************************************)
(* A live-substitution block keeps the promise of Substitution, and its    *)
(* PASS line is honest, for any number of exports, any lengths of jump and *)
(* prologue and any placing of the exports in the code.                    *)
(***************************************************************************)
EXTENDS HotPatch, TLAPS

(* Inside a copy the index is inside what is copied.                       *)
IndexOK ==
  /\ pc = "write" => at \in 1..StubLen
  /\ pc = "restore" => at \in 1..SaveLen

Typed == TypeOK /\ IndexOK

LEMMA SizesAre ==
  /\ NumTargets \in Nat /\ NumTargets >= 1 /\ Size \in Nat /\ Calls \in Nat /\ Calls >= 1
  /\ StubLen \in Nat /\ StubLen >= 1 /\ SaveLen \in Nat /\ StubLen <= SaveLen
BY SizesAssumption

LEMMA CodesAre ==
  /\ Shipped \in Contents /\ Junk \in Contents
  /\ \A f \in Targets, j \in 1..StubLen : <<f, j>> \in Contents /\ <<f, j>> # Shipped
  /\ ShippedCode \notin Targets /\ Torn \notin Targets /\ ShippedCode # Torn
BY DEF Shipped, Junk, Contents, Stub, Targets, ShippedCode, Torn

LEMMA EnteredIs ==
  ASSUME NEW f \in Targets
  PROVE  Entered(f) \in Targets \union {ShippedCode, Torn}
BY DEF Entered

LEMMA ForEachIs ==
  ASSUME NEW p, NEW q, cur \in Targets, ForEach(p, q)
  PROVE  /\ cur' \in Targets /\ pc' \in {p, q}
         /\ pc' = p /\ p # q => cur' = cur + 1 /\ cur < NumTargets
         /\ pc' = q /\ p # q => cur' = 1 /\ cur = NumTargets
BY SizesAre DEF ForEach, Targets

LEMMA TypedInit ==
  Init => Typed
<1> SUFFICES ASSUME Init
             PROVE  Typed
  OBVIOUS
<1>1. mem \in [Cells -> Contents] /\ saved \in [Targets -> [1..SaveLen -> Contents]]
  BY CodesAre DEF Init
<1>2. cur \in Targets
  BY SizesAre DEF Init, Targets
<1>3. pc = "validate" /\ at = 1 /\ failures = 0 /\ last = ShippedCode /\ driven = {} /\ nested = 0
      /\ entry \in Layouts /\ proven \subseteq Targets
      /\ on = [f \in Targets |-> FALSE] /\ counter = [f \in Targets |-> 0]
  BY DEF Init
<1>4. on \in [Targets -> BOOLEAN] /\ counter \in [Targets -> Nat]
  BY <1>3
<1> QED BY <1>1, <1>2, <1>3, <1>4 DEF Typed, TypeOK, IndexOK

LEMMA EnterTyped ==
  ASSUME TypeOK, NEW f \in Targets, Enter(f)
  PROVE  counter' \in [Targets -> Nat] /\ last' \in Targets \union {ShippedCode, Torn}
BY EnteredIs DEF TypeOK, Enter

LEMMA TypedStep ==
  Typed /\ [Next]_vars => Typed'
<1> SUFFICES ASSUME Typed, [Next]_vars
             PROVE  Typed'
  OBVIOUS
<1> USE DEF Typed
<1>1. CASE Validate
  BY <1>1 DEF Validate, TypeOK, IndexOK, Fail
<1>2. CASE Protect
  <2>1. /\ UNCHANGED <<entry, proven, mem, on, counter, last, driven, nested>>
        /\ pc = "protect" /\ failures' \in Nat
    BY <1>2 DEF Protect, Fail, TypeOK
  <2>2. CASE /\ saved' = [saved EXCEPT ![cur] = [j \in 1..SaveLen |-> mem[entry[cur] + j - 1]]]
             /\ pc' = "write" /\ at' = 1 /\ UNCHANGED cur
    <3>1. \A j \in 1..SaveLen : mem[entry[cur] + j - 1] \in Contents
      <4>1. TAKE j \in 1..SaveLen
      <4>2. entry \in [Targets -> Cells] /\ entry[cur] + SaveLen - 1 <= Size /\ cur \in Targets
        BY LayoutsAssumption DEF TypeOK
      <4>3. entry[cur] + j - 1 \in Cells
        BY <4>2, SizesAre DEF Cells
      <4> QED BY <4>3 DEF TypeOK
    <3>2. saved' \in [Targets -> [1..SaveLen -> Contents]]
      BY <2>2, <3>1 DEF TypeOK
    <3> QED BY <2>1, <2>2, <3>2, SizesAre DEF TypeOK, IndexOK
  <2>3. CASE ForEach("protect", "note") /\ UNCHANGED <<saved, at>>
    <3>1. cur' \in Targets /\ pc' \in {"protect", "note"}
      BY <2>3, ForEachIs DEF TypeOK
    <3> QED BY <2>1, <2>3, <3>1 DEF TypeOK, IndexOK
  <2> QED BY <1>2, <2>2, <2>3 DEF Protect
<1>3. CASE WriteByte
  <2>1. /\ UNCHANGED <<entry, proven, saved, counter, failures, last, driven, nested>>
        /\ pc = "write" /\ at \in 1..StubLen
    BY <1>3 DEF WriteByte, IndexOK
  <2>2. mem' \in [Cells -> Contents]
    <3>1. <<cur, at>> \in Contents
      BY <2>1, CodesAre DEF TypeOK
    <3>2. mem' = [mem EXCEPT ![entry[cur] + at - 1] = <<cur, at>>]
      BY <1>3 DEF WriteByte
    <3> QED BY <3>1, <3>2 DEF TypeOK
  <2>3. CASE at < StubLen /\ at' = at + 1 /\ UNCHANGED <<pc, cur, on>>
    BY <2>1, <2>2, <2>3, SizesAre DEF TypeOK, IndexOK
  <2>4. CASE at' = 1 /\ on' = [on EXCEPT ![cur] = TRUE] /\ ForEach("protect", "note")
    <3>1. cur' \in Targets /\ pc' \in {"protect", "note"}
      BY <2>4, ForEachIs DEF TypeOK
    <3> QED BY <2>1, <2>2, <2>4, <3>1 DEF TypeOK, IndexOK
  <2> QED BY <1>3, <2>3, <2>4 DEF WriteByte
<1>4. CASE Note
  BY <1>4 DEF Note, TypeOK, IndexOK
<1>5. CASE Drive
  <2>1. /\ UNCHANGED <<entry, proven, mem, saved, on, nested>> /\ pc = "drive" /\ failures' \in Nat
    BY <1>5 DEF Drive, Fail, TypeOK
  <2>2. counter' \in [Targets -> Nat] /\ last' \in Targets \union {ShippedCode, Torn}
    BY <1>5, EnterTyped DEF Drive, TypeOK
  <2>3. driven' \subseteq Targets
    BY <1>5 DEF Drive, TypeOK
  <2>4. /\ pc' \in {"drive", "check", "crashed"} /\ cur' \in Targets /\ at' \in Nat \ {0}
    <3>1. ForEach("drive", "check") => cur' \in Targets /\ pc' \in {"drive", "check"}
      BY ForEachIs DEF TypeOK
    <3> QED BY <1>5, <3>1 DEF Drive, TypeOK
  <2> QED BY <2>1, <2>2, <2>3, <2>4 DEF TypeOK, IndexOK
<1>6. CASE Check
  BY <1>6 DEF Check, TypeOK, IndexOK, Fail
<1>7. CASE Unprotect
  <2>1. /\ UNCHANGED <<entry, proven, mem, saved, on, counter, failures, last, driven, nested>>
    BY <1>7 DEF Unprotect
  <2>2. ForEach("unprotect", "frozen") => cur' \in Targets /\ pc' \in {"unprotect", "frozen"}
    BY ForEachIs DEF TypeOK
  <2> QED BY <1>7, <2>1, <2>2, SizesAre DEF Unprotect, TypeOK, IndexOK
<1>8. CASE RestoreByte
  <2>1. /\ UNCHANGED <<entry, proven, saved, counter, failures, last, driven, nested>>
        /\ pc = "restore" /\ at \in 1..SaveLen
    BY <1>8 DEF RestoreByte, IndexOK
  <2>2. mem' \in [Cells -> Contents]
    <3>1. saved[cur][at] \in Contents
      BY <2>1 DEF TypeOK
    <3>2. mem' = [mem EXCEPT ![entry[cur] + at - 1] = saved[cur][at]]
      BY <1>8 DEF RestoreByte
    <3> QED BY <3>1, <3>2 DEF TypeOK
  <2>3. CASE at < SaveLen /\ at' = at + 1 /\ UNCHANGED <<pc, cur, on>>
    BY <2>1, <2>2, <2>3, SizesAre DEF TypeOK, IndexOK
  <2>4. CASE at' = 1 /\ on' = [on EXCEPT ![cur] = FALSE] /\ ForEach("unprotect", "frozen")
    <3>1. cur' \in Targets /\ pc' \in {"unprotect", "frozen"}
      BY <2>4, ForEachIs DEF TypeOK
    <3> QED BY <2>1, <2>2, <2>4, <3>1 DEF TypeOK, IndexOK
  <2> QED BY <1>8, <2>3, <2>4 DEF RestoreByte
<1>9. CASE Frozen
  <2>1. 1 \in Targets
    BY SizesAre DEF Targets
  <2>2. counter' \in [Targets -> Nat] /\ last' \in Targets \union {ShippedCode, Torn}
    BY <1>9, <2>1, EnterTyped DEF Frozen
  <2> QED BY <1>9, <2>2 DEF Frozen, TypeOK, IndexOK, Fail
<1>10. CASE \E f \in Targets : Nested(f)
  <2>1. PICK f \in Targets : Nested(f)
    BY <1>10
  <2>2. counter' \in [Targets -> Nat] /\ last' \in Targets \union {ShippedCode, Torn}
    BY <2>1, EnterTyped DEF Nested
  <2> QED BY <2>1, <2>2 DEF Nested, Copying, TypeOK, IndexOK
<1>11. CASE UNCHANGED vars \/ Stopped
  BY <1>11 DEF vars, Stopped, TypeOK, IndexOK
<1> QED BY <1>1, <1>2, <1>3, <1>4, <1>5, <1>6, <1>7, <1>8, <1>9, <1>10, <1>11 DEF Next, Main
-----------------------------------------------------------------------------
(* Which patches are on at each place of the harness.                      *)
Ordered ==
  /\ pc \in {"validate", "note", "check"} => cur = 1
  /\ pc \in {"protect", "write"} => \A f \in Targets : on[f] => f < cur
  /\ pc \in {"unprotect", "restore"} => \A f \in Targets : on[f] => f >= cur
  /\ pc = "restore" => on[cur]
  /\ pc \in {"validate", "frozen", "done"} => \A f \in Targets : ~on[f]

LEMMA OrderedInit ==
  Init => Ordered
BY DEF Init, Ordered

LEMMA OrderedStep ==
  Typed /\ Ordered /\ [Next]_vars => Ordered'
<1> SUFFICES ASSUME Typed, Ordered, [Next]_vars
             PROVE  Ordered'
  OBVIOUS
<1> USE DEF Ordered
<1>0. cur \in Targets /\ on \in [Targets -> BOOLEAN] /\ \A f \in Targets : f >= 1 /\ f \in Nat /\ f <= NumTargets
  BY SizesAre DEF Typed, TypeOK, Targets
<1>1. CASE Validate
  BY <1>0, <1>1 DEF Validate
<1>2. CASE Protect
  <2>1. pc = "protect" /\ UNCHANGED on
    BY <1>2 DEF Protect
  <2>2. CASE pc' = "write" /\ UNCHANGED cur
    BY <2>1, <2>2
  <2>3. CASE ForEach("protect", "note")
    <3>1. pc' \in {"protect", "note"} /\ (pc' = "protect" => cur' = cur + 1) /\ (pc' = "note" => cur' = 1)
      BY <1>0, <2>3, ForEachIs
    <3>2. pc' = "protect" => \A f \in Targets : on[f] => f < cur'
      BY <1>0, <2>1, <3>1
    <3> QED BY <2>1, <3>1, <3>2
  <2> QED BY <1>2, <2>2, <2>3 DEF Protect
<1>3. CASE WriteByte
  <2>1. pc = "write"
    BY <1>3 DEF WriteByte
  <2>2. CASE UNCHANGED <<pc, cur, on>>
    BY <2>1, <2>2
  <2>3. CASE on' = [on EXCEPT ![cur] = TRUE] /\ ForEach("protect", "note")
    <3>1. pc' \in {"protect", "note"} /\ (pc' = "protect" => cur' = cur + 1) /\ (pc' = "note" => cur' = 1)
      BY <1>0, <2>3, ForEachIs
    <3>2. ASSUME pc' = "protect", NEW f \in Targets, on'[f]
          PROVE  f < cur'
      <4>1. f = cur \/ on[f]
        BY <1>0, <2>3, <3>2
      <4>2. f <= cur
        BY <1>0, <2>1, <4>1
      <4> QED BY <1>0, <3>1, <3>2, <4>2
    <3> QED BY <3>1, <3>2
  <2> QED BY <1>3, <2>2, <2>3 DEF WriteByte
<1>4. CASE Note
  BY <1>4 DEF Note
<1>5. CASE Drive
  <2>1. pc' = "crashed" \/ pc' = "drive" \/ (pc' = "check" /\ cur' = 1)
    <3>1. ForEach("drive", "check") => pc' = "drive" \/ (pc' = "check" /\ cur' = 1)
      BY <1>0, ForEachIs
    <3> QED BY <1>5, <3>1 DEF Drive
  <2> QED BY <1>5, <2>1 DEF Drive
<1>6. CASE Check
  BY <1>0, <1>6 DEF Check
<1>7. CASE Unprotect
  <2>1. pc = "unprotect" /\ UNCHANGED on
    BY <1>7 DEF Unprotect
  <2>2. CASE on[cur] /\ pc' \in {"restore", "crashed"} /\ UNCHANGED cur
    BY <2>1, <2>2
  <2>3. CASE ~on[cur] /\ ForEach("unprotect", "frozen")
    <3>1. pc' \in {"unprotect", "frozen"} /\ (pc' = "unprotect" => cur' = cur + 1) /\ (pc' = "frozen" => cur = NumTargets)
      BY <1>0, <2>3, ForEachIs
    <3>2. \A f \in Targets : on[f] => f >= cur + 1
      BY <1>0, <2>1, <2>3
    <3>3. ASSUME cur = NumTargets, NEW f \in Targets
          PROVE  ~on[f]
      BY <1>0, <3>2, <3>3, SizesAre
    <3> QED BY <2>1, <3>1, <3>2, <3>3
  <2> QED BY <1>7, <2>2, <2>3 DEF Unprotect
<1>8. CASE RestoreByte
  <2>1. pc = "restore"
    BY <1>8 DEF RestoreByte
  <2>2. CASE UNCHANGED <<pc, cur, on>>
    BY <2>1, <2>2
  <2>3. CASE on' = [on EXCEPT ![cur] = FALSE] /\ ForEach("unprotect", "frozen")
    <3>1. pc' \in {"unprotect", "frozen"} /\ (pc' = "unprotect" => cur' = cur + 1) /\ (pc' = "frozen" => cur = NumTargets)
      BY <1>0, <2>3, ForEachIs
    <3>2. ASSUME NEW f \in Targets, on'[f]
          PROVE  f >= cur + 1
      <4>1. f # cur /\ on[f]
        BY <1>0, <2>3, <3>2
      <4> QED BY <1>0, <2>1, <4>1
    <3>3. ASSUME cur = NumTargets, NEW f \in Targets
          PROVE  ~on'[f]
      BY <1>0, <3>2, <3>3, SizesAre
    <3> QED BY <3>1, <3>2, <3>3
  <2> QED BY <1>8, <2>2, <2>3 DEF RestoreByte
<1>9. CASE Frozen
  BY <1>9 DEF Frozen
<1>10. CASE \E f \in Targets : Nested(f)
  <2>1. UNCHANGED <<on, cur>> /\ (pc' = "crashed" \/ UNCHANGED pc)
    BY <1>10 DEF Nested
  <2> QED BY <2>1
<1>11. CASE UNCHANGED vars \/ Stopped
  <2>1. UNCHANGED <<pc, on, cur>>
    BY <1>11 DEF vars, Stopped
  <2> QED BY <2>1
<1> QED BY <1>1, <1>2, <1>3, <1>4, <1>5, <1>6, <1>7, <1>8, <1>9, <1>10, <1>11 DEF Next, Main
-----------------------------------------------------------------------------
(* The prologue of f holds the bytes i..k of its jump, and is shipped code *)
(* elsewhere.                                                              *)
JumpIn(f, i, k) ==
  \A j \in 1..SaveLen :
    mem[entry[f] + j - 1] = IF i <= j /\ j <= k THEN <<f, j>> ELSE Shipped

From(f)  == IF pc = "restore" /\ cur = f THEN at ELSE 1
UpTo(f) == IF pc = "write" /\ cur = f THEN at - 1 ELSE IF on[f] THEN StubLen ELSE 0

(* Nothing else is ever written, and what is saved is shipped code.        *)
Patched ==
  Spaced =>
    /\ \A f \in Targets : JumpIn(f, From(f), UpTo(f))
    /\ \A a \in Cells : mem[a] = Shipped
         \/ \E f \in Targets, j \in 1..SaveLen : a = entry[f] + j - 1
    /\ \A f \in Targets :
         on[f] \/ (pc = "write" /\ cur = f) => \A j \in 1..SaveLen : saved[f][j] = Shipped

LEMMA CellIs ==
  ASSUME TypeOK, NEW f \in Targets, NEW j \in 1..SaveLen
  PROVE  entry[f] + j - 1 \in Cells /\ entry[f] \in Nat /\ entry[f] \in Cells
<1>1. entry \in [Targets -> Cells] /\ entry[f] + SaveLen - 1 <= Size
  BY LayoutsAssumption DEF TypeOK
<1> QED BY <1>1, SizesAre DEF Cells

(* The prologues of distinct exports have no cell in common.               *)
LEMMA Apart ==
  ASSUME TypeOK, Spaced, NEW f \in Targets, NEW g \in Targets,
         NEW j \in 1..SaveLen, NEW k \in 1..SaveLen,
         entry[f] + j - 1 = entry[g] + k - 1
  PROVE  f = g /\ j = k
<1>1. entry[f] \in Nat /\ entry[g] \in Nat
  BY CellIs
<1>2. entry[f] < entry[g] => entry[f] + SaveLen <= entry[g]
  BY LayoutsAssumption DEF TypeOK
<1>3. entry[g] < entry[f] => entry[g] + SaveLen <= entry[f]
  BY LayoutsAssumption DEF TypeOK
<1>4. entry[f] = entry[g]
  BY <1>1, <1>2, <1>3, SizesAre
<1>5. f = g
  BY <1>4 DEF Spaced
<1> QED BY <1>1, <1>4, <1>5, SizesAre

(* A store into one prologue leaves the others alone.                      *)
LEMMA StoreIs ==
  ASSUME TypeOK, Spaced, NEW g \in Targets, NEW k \in 1..SaveLen, NEW v,
         mem' = [mem EXCEPT ![entry[g] + k - 1] = v], entry' = entry
  PROVE  /\ \A f \in Targets, j \in 1..SaveLen :
              mem'[entry'[f] + j - 1] = IF f = g /\ j = k THEN v ELSE mem[entry[f] + j - 1]
         /\ \A a \in Cells : a # entry[g] + k - 1 => mem'[a] = mem[a]
<1>1. entry[g] + k - 1 \in Cells /\ mem \in [Cells -> Contents]
  BY CellIs DEF TypeOK
<1>2. ASSUME NEW f \in Targets, NEW j \in 1..SaveLen
      PROVE  mem'[entry'[f] + j - 1] = IF f = g /\ j = k THEN v ELSE mem[entry[f] + j - 1]
  <2>1. entry[f] + j - 1 \in Cells
    BY CellIs
  <2>2. CASE f = g /\ j = k
    BY <1>1, <2>2
  <2>3. CASE ~(f = g /\ j = k)
    <3>1. entry[f] + j - 1 # entry[g] + k - 1
      BY <2>3, Apart
    <3> QED BY <1>1, <2>1, <2>3, <3>1
  <2> QED BY <2>2, <2>3
<1> QED BY <1>1, <1>2

(* Entering a distinct export whose prologue is not being copied runs its  *)
(* wrapper if the patch is on, and the shipped code otherwise.             *)
LEMMA EntersRight ==
  ASSUME TypeOK, Patched, Spaced, NEW f \in Targets, ~(Copying /\ cur = f)
  PROVE  Entered(f) = IF on[f] THEN f ELSE ShippedCode
<1>1. JumpIn(f, 1, IF on[f] THEN StubLen ELSE 0)
  BY DEF Patched, From, UpTo, Copying
<1>2. 1 \in 1..StubLen /\ \A j \in 1..StubLen : j \in 1..SaveLen /\ 1 <= j /\ j <= StubLen
  BY SizesAre
<1>3. CASE on[f]
  <2>1. \A j \in 1..StubLen : mem[entry[f] + j - 1] = <<f, j>>
    BY <1>1, <1>2, <1>3 DEF JumpIn
  <2>2. Jump(f, f)
    BY <2>1 DEF Jump
  <2>3. ASSUME NEW g \in Targets, Jump(f, g)
        PROVE  g = f
    <3>1. <<g, 1>> = <<f, 1>>
      BY <1>2, <2>1, <2>3 DEF Jump
    <3> QED BY <3>1
  <2> QED BY <1>3, <2>2, <2>3 DEF Entered
<1>4. CASE ~on[f]
  <2>1. \A j \in 1..SaveLen : mem[entry[f] + j - 1] = Shipped
    <3>1. \A j \in 1..SaveLen : ~(1 <= j /\ j <= 0)
      OBVIOUS
    <3> QED BY <1>1, <1>4, <3>1 DEF JumpIn
  <2>2. ASSUME NEW g \in Targets
        PROVE  ~Jump(f, g)
    <3>1. mem[entry[f] + 1 - 1] = Shipped /\ <<g, 1>> # Shipped
      BY <1>2, <2>1, CodesAre
    <3> QED BY <1>2, <3>1 DEF Jump
  <2> QED BY <1>4, <2>1, <2>2 DEF Entered
<1> QED BY <1>3, <1>4

LEMMA PatchedInit ==
  Init => Patched
<1> SUFFICES ASSUME Init, Spaced
             PROVE  /\ \A f \in Targets : JumpIn(f, From(f), UpTo(f))
                    /\ \A a \in Cells : mem[a] = Shipped
                         \/ \E f \in Targets, j \in 1..SaveLen : a = entry[f] + j - 1
                    /\ \A f \in Targets :
                         on[f] \/ (pc = "write" /\ cur = f) => \A j \in 1..SaveLen : saved[f][j] = Shipped
  BY DEF Patched
<1>1. TypeOK
  BY TypedInit DEF Typed
<1>2. \A a \in Cells : mem[a] = Shipped
  BY DEF Init
<1>3. pc = "validate" /\ \A f \in Targets : ~on[f]
  BY DEF Init
<1>4. ASSUME NEW f \in Targets
      PROVE  JumpIn(f, From(f), UpTo(f))
  <2>1. From(f) = 1 /\ UpTo(f) = 0
    BY <1>3 DEF From, UpTo
  <2>2. ASSUME NEW j \in 1..SaveLen
        PROVE  mem[entry[f] + j - 1] = Shipped /\ ~(1 <= j /\ j <= 0)
    BY <1>1, <1>2, CellIs
  <2> QED BY <2>1, <2>2 DEF JumpIn
<1> QED BY <1>2, <1>3, <1>4

(* A step that copies nothing.                                             *)
LEMMA PatchedStays ==
  ASSUME Patched, UNCHANGED <<entry, mem, saved, on>>, ~Copying, ~Copying'
  PROVE  Patched'
<1>1. \A f \in Targets : From(f)' = From(f) /\ UpTo(f)' = UpTo(f)
  BY DEF From, UpTo, Copying
<1> QED BY <1>1 DEF Patched, Spaced, JumpIn, Copying

LEMMA PatchedStep ==
  Typed /\ Ordered /\ Patched /\ [Next]_vars => Patched'
<1> SUFFICES ASSUME Typed, Ordered, Patched, [Next]_vars
             PROVE  Patched'
  OBVIOUS
<1>0. /\ TypeOK /\ cur \in Targets /\ on \in [Targets -> BOOLEAN] /\ cur \in Nat
      /\ \A f \in Targets : f \in Nat
  BY DEF Typed, TypeOK, Targets
<1>1. CASE \/ Validate \/ Note \/ Drive \/ Check \/ Frozen \/ (\E f \in Targets : Nested(f))
  <2>1. UNCHANGED <<entry, mem, saved, on>> /\ ~Copying
    BY <1>1 DEF Validate, Note, Drive, Check, Frozen, Nested, Copying
  <2>2. pc' \notin {"write", "restore"}
    <3>1. ForEach("drive", "check") => pc' \in {"drive", "check"}
      BY <1>0, ForEachIs
    <3> QED BY <1>1, <3>1 DEF Validate, Note, Drive, Check, Frozen, Nested, Copying
  <2> QED BY <2>1, <2>2, PatchedStays DEF Copying
<1>2. CASE Protect
  <2>1. pc = "protect" /\ UNCHANGED <<entry, mem, on>>
    BY <1>2 DEF Protect
  <2>2. CASE ForEach("protect", "note") /\ UNCHANGED saved
    <3>1. pc' \in {"protect", "note"}
      BY <1>0, <2>2, ForEachIs
    <3> QED BY <2>1, <2>2, <3>1, PatchedStays DEF Copying
  <2>3. CASE /\ saved' = [saved EXCEPT ![cur] = [j \in 1..SaveLen |-> mem[entry[cur] + j - 1]]]
             /\ pc' = "write" /\ at' = 1 /\ UNCHANGED cur
    <3>1. ~on[cur]
      BY <1>0, <2>1 DEF Ordered
    <3>2. \A f \in Targets : From(f)' = From(f) /\ UpTo(f)' = UpTo(f)
      BY <1>0, <2>1, <2>3, <3>1 DEF From, UpTo
    <3>3. Spaced' = Spaced /\ \A f, i, k : JumpIn(f, i, k)' = JumpIn(f, i, k)
      BY <2>1 DEF Spaced, JumpIn
    <3>4. ASSUME Spaced, NEW j \in 1..SaveLen
          PROVE  saved'[cur][j] = Shipped
      <4>1. From(cur) = 1 /\ UpTo(cur) = 0
        BY <2>1, <3>1 DEF From, UpTo
      <4>2. JumpIn(cur, 1, 0) /\ ~(1 <= j /\ j <= 0)
        BY <1>0, <3>4, <4>1 DEF Patched
      <4>3. mem[entry[cur] + j - 1] = Shipped
        BY <4>2 DEF JumpIn
      <4>4. saved'[cur] = [x \in 1..SaveLen |-> mem[entry[cur] + x - 1]]
        BY <1>0, <2>3 DEF TypeOK
      <4> QED BY <4>3, <4>4
    <3>5. \A f \in Targets : f # cur => saved'[f] = saved[f]
      BY <1>0, <2>3 DEF TypeOK
    <3>6. ASSUME Spaced, NEW f \in Targets, on'[f] \/ (pc' = "write" /\ cur' = f),
                 NEW j \in 1..SaveLen
          PROVE  saved'[f][j] = Shipped
      <4>1. CASE f = cur
        BY <3>4, <3>6, <4>1
      <4>2. CASE f # cur
        BY <2>1, <2>3, <3>5, <3>6, <4>2 DEF Patched
      <4> QED BY <4>1, <4>2
    <3> QED BY <2>1, <3>2, <3>3, <3>6 DEF Patched, Spaced
  <2> QED BY <1>2, <2>2, <2>3 DEF Protect
<1>3. CASE WriteByte
  <2> SUFFICES ASSUME Spaced
               PROVE  /\ \A f \in Targets : JumpIn(f, From(f), UpTo(f))'
                      /\ \A a \in Cells : mem'[a] = Shipped
                           \/ \E f \in Targets, j \in 1..SaveLen : a = entry[f] + j - 1
                      /\ \A f \in Targets :
                           on'[f] \/ (pc' = "write" /\ cur' = f) =>
                             \A j \in 1..SaveLen : saved[f][j] = Shipped
    <3>1. entry' = entry /\ saved' = saved
      BY <1>3 DEF WriteByte
    <3> QED BY <3>1 DEF Patched, Spaced
  <2>1. /\ pc = "write" /\ at \in 1..StubLen /\ at \in 1..SaveLen /\ entry' = entry
        /\ mem' = [mem EXCEPT ![entry[cur] + at - 1] = <<cur, at>>]
    BY <1>3, SizesAre DEF WriteByte, Typed, IndexOK
  <2>2. /\ \A f \in Targets, j \in 1..SaveLen :
             mem'[entry'[f] + j - 1] = IF f = cur /\ j = at THEN <<cur, at>> ELSE mem[entry[f] + j - 1]
        /\ \A a \in Cells : a # entry[cur] + at - 1 => mem'[a] = mem[a]
    BY <1>0, <2>1, StoreIs
  <2>3. \/ at < StubLen /\ at' = at + 1 /\ UNCHANGED <<pc, cur, on>>
        \/ at = StubLen /\ on' = [on EXCEPT ![cur] = TRUE] /\ pc' \in {"protect", "note"}
    <3>1. ForEach("protect", "note") => pc' \in {"protect", "note"}
      BY <1>0, ForEachIs
    <3> QED BY <1>3, <2>1, <3>1, SizesAre DEF WriteByte
  <2>4. ASSUME NEW f \in Targets, f = cur
        PROVE  From(f)' = 1 /\ UpTo(f)' = at
    <3>1. From(f)' = 1
      BY <2>1, <2>3 DEF From
    <3>2. CASE at < StubLen /\ at' = at + 1 /\ UNCHANGED <<pc, cur, on>>
      <4>1. at' - 1 = at
        BY <2>1, <3>2
      <4>2. UpTo(f)' = at' - 1
        BY <2>1, <2>4, <3>2 DEF UpTo
      <4> QED BY <3>1, <4>1, <4>2
    <3>3. CASE at = StubLen /\ on' = [on EXCEPT ![cur] = TRUE] /\ pc' \in {"protect", "note"}
      <4>1. on'[f]
        BY <1>0, <2>4, <3>3
      <4> QED BY <3>1, <3>3, <4>1 DEF UpTo
    <3> QED BY <2>3, <3>2, <3>3
  <2>5. \A f \in Targets : f # cur => From(f)' = From(f) /\ UpTo(f)' = UpTo(f)
    BY <1>0, <2>1, <2>3 DEF From, UpTo
  <2>6. ASSUME NEW f \in Targets
        PROVE  JumpIn(f, From(f), UpTo(f))'
    <3>1. JumpIn(f, From(f), UpTo(f))
      BY DEF Patched
    <3>2. CASE f = cur
      <4>1. JumpIn(f, 1, at - 1)
        BY <2>1, <3>1, <3>2 DEF From, UpTo
      <4>2. \A j \in 1..SaveLen :
              mem'[entry'[f] + j - 1] = IF 1 <= j /\ j <= at THEN <<f, j>> ELSE Shipped
        <5>1. TAKE j \in 1..SaveLen
        <5>2. mem[entry[f] + j - 1] = IF 1 <= j /\ j <= at - 1 THEN <<f, j>> ELSE Shipped
          BY <4>1 DEF JumpIn
        <5>3. CASE j = at
          BY <2>1, <2>2, <3>2, <5>3
        <5>4. CASE j # at
          <6>1. j <= at <=> j <= at - 1
            BY <2>1, <5>4
          <6> QED BY <2>2, <5>2, <5>4, <6>1
        <5> QED BY <5>3, <5>4
      <4>3. From(f)' = 1 /\ UpTo(f)' = at
        BY <2>4, <3>2
      <4> QED BY <4>2, <4>3 DEF JumpIn
    <3>3. CASE f # cur
      <4>1. \A j \in 1..SaveLen : mem'[entry'[f] + j - 1] = mem[entry[f] + j - 1]
        BY <2>2, <3>3
      <4> QED BY <2>5, <3>1, <3>3, <4>1 DEF JumpIn
    <3> QED BY <3>2, <3>3
  <2>7. \A a \in Cells : mem'[a] = Shipped
          \/ \E f \in Targets, j \in 1..SaveLen : a = entry[f] + j - 1
    BY <1>0, <2>1, <2>2 DEF Patched
  <2>8. \A f \in Targets : on'[f] \/ (pc' = "write" /\ cur' = f) => on[f] \/ f = cur
    BY <1>0, <2>3
  <2>9. \A f \in Targets : on[f] \/ f = cur => \A j \in 1..SaveLen : saved[f][j] = Shipped
    BY <2>1 DEF Patched
  <2> QED BY <2>6, <2>7, <2>8, <2>9
<1>4. CASE Unprotect
  <2>1. pc = "unprotect" /\ UNCHANGED <<entry, mem, saved, on>>
    BY <1>4 DEF Unprotect
  <2>2. CASE ForEach("unprotect", "frozen") \/ pc' = "crashed"
    <3>1. pc' \in {"unprotect", "frozen", "crashed"}
      BY <1>0, <2>2, ForEachIs
    <3> QED BY <2>1, <3>1, PatchedStays DEF Copying
  <2>3. CASE pc' = "restore" /\ at' = 1 /\ UNCHANGED cur
    <3>1. \A f \in Targets : From(f)' = From(f) /\ UpTo(f)' = UpTo(f)
      BY <2>1, <2>3 DEF From, UpTo
    <3> QED BY <2>1, <2>3, <3>1 DEF Patched, Spaced, JumpIn
  <2> QED BY <1>4, <2>2, <2>3 DEF Unprotect
<1>5. CASE RestoreByte
  <2> SUFFICES ASSUME Spaced
               PROVE  /\ \A f \in Targets : JumpIn(f, From(f), UpTo(f))'
                      /\ \A a \in Cells : mem'[a] = Shipped
                           \/ \E f \in Targets, j \in 1..SaveLen : a = entry[f] + j - 1
                      /\ \A f \in Targets :
                           on'[f] \/ (pc' = "write" /\ cur' = f) =>
                             \A j \in 1..SaveLen : saved[f][j] = Shipped
    <3>1. entry' = entry /\ saved' = saved
      BY <1>5 DEF RestoreByte
    <3> QED BY <3>1 DEF Patched, Spaced
  <2>1. /\ pc = "restore" /\ at \in 1..SaveLen /\ entry' = entry /\ on[cur]
        /\ mem' = [mem EXCEPT ![entry[cur] + at - 1] = saved[cur][at]]
    BY <1>5 DEF RestoreByte, Typed, IndexOK, Ordered
  <2>2. saved[cur][at] = Shipped
    BY <1>0, <2>1 DEF Patched
  <2>3. /\ \A f \in Targets, j \in 1..SaveLen :
             mem'[entry'[f] + j - 1] = IF f = cur /\ j = at THEN Shipped ELSE mem[entry[f] + j - 1]
        /\ \A a \in Cells : a # entry[cur] + at - 1 => mem'[a] = mem[a]
    <3>1. mem' = [mem EXCEPT ![entry[cur] + at - 1] = Shipped]
      BY <2>1, <2>2
    <3>2. cur \in Targets /\ at \in 1..SaveLen /\ entry' = entry
      BY <1>0, <2>1
    <3> QED BY <1>0, <3>1, <3>2, StoreIs
  <2>4. \/ at < SaveLen /\ at' = at + 1 /\ UNCHANGED <<pc, cur, on>>
        \/ at = SaveLen /\ on' = [on EXCEPT ![cur] = FALSE] /\ pc' \in {"unprotect", "frozen"}
    <3>1. ForEach("unprotect", "frozen") => pc' \in {"unprotect", "frozen"}
      BY <1>0, ForEachIs
    <3> QED BY <1>5, <2>1, <3>1, SizesAre DEF RestoreByte
  <2>5. \A f \in Targets : f # cur => From(f)' = From(f) /\ UpTo(f)' = UpTo(f)
    BY <1>0, <2>1, <2>4 DEF From, UpTo
  <2>6. ASSUME NEW f \in Targets
        PROVE  JumpIn(f, From(f), UpTo(f))'
    <3>1. JumpIn(f, From(f), UpTo(f))
      BY DEF Patched
    <3>2. CASE f = cur
      <4>1. JumpIn(f, at, StubLen)
        BY <2>1, <3>1, <3>2 DEF From, UpTo
      <4>2. \A j \in 1..SaveLen :
              mem'[entry'[f] + j - 1] = IF at + 1 <= j /\ j <= StubLen THEN <<f, j>> ELSE Shipped
        <5>1. TAKE j \in 1..SaveLen
        <5>2. mem[entry[f] + j - 1] = IF at <= j /\ j <= StubLen THEN <<f, j>> ELSE Shipped
          BY <4>1 DEF JumpIn
        <5>3. CASE j = at
          <6>1. ~(at + 1 <= j)
            BY <2>1, <5>3
          <6> QED BY <2>3, <3>2, <5>3, <6>1
        <5>4. CASE j # at
          <6>1. at + 1 <= j <=> at <= j
            BY <2>1, <5>4
          <6> QED BY <2>3, <5>2, <5>4, <6>1
        <5> QED BY <5>3, <5>4
      <4>3. CASE at' = at + 1 /\ UNCHANGED <<pc, cur, on>>
        <5>1. From(f)' = at + 1 /\ UpTo(f)' = StubLen
          BY <2>1, <3>2, <4>3 DEF From, UpTo
        <5> QED BY <4>2, <5>1 DEF JumpIn
      <4>4. CASE at = SaveLen /\ on' = [on EXCEPT ![cur] = FALSE] /\ pc' \in {"unprotect", "frozen"}
        <5>1. From(f)' = 1 /\ UpTo(f)' = 0
          BY <1>0, <3>2, <4>4 DEF From, UpTo
        <5>2. \A j \in 1..SaveLen : ~(at + 1 <= j) /\ ~(1 <= j /\ j <= 0)
          BY <4>4, SizesAre
        <5> QED BY <4>2, <5>1, <5>2 DEF JumpIn
      <4> QED BY <2>4, <4>3, <4>4
    <3>3. CASE f # cur
      <4>1. \A j \in 1..SaveLen : mem'[entry'[f] + j - 1] = mem[entry[f] + j - 1]
        BY <2>3, <3>3
      <4> QED BY <2>5, <3>1, <3>3, <4>1 DEF JumpIn
    <3> QED BY <3>2, <3>3
  <2>7. \A a \in Cells : mem'[a] = Shipped
          \/ \E f \in Targets, j \in 1..SaveLen : a = entry[f] + j - 1
    BY <1>0, <2>1, <2>3 DEF Patched
  <2>8. \A f \in Targets : on'[f] \/ (pc' = "write" /\ cur' = f) => on[f]
    BY <1>0, <2>1, <2>4
  <2>9. \A f \in Targets : on[f] => \A j \in 1..SaveLen : saved[f][j] = Shipped
    BY DEF Patched
  <2> QED BY <2>6, <2>7, <2>8, <2>9
<1>6. CASE UNCHANGED vars \/ Stopped
  <2>1. UNCHANGED <<entry, mem, saved, on, pc, cur, at>>
    BY <1>6 DEF vars, Stopped
  <2> QED BY <2>1 DEF Patched, Spaced, JumpIn, From, UpTo
<1> QED BY <1>1, <1>2, <1>3, <1>4, <1>5, <1>6 DEF Next, Main
-----------------------------------------------------------------------------
Kept == Typed /\ Ordered /\ Patched

LEMMA KeptHolds ==
  Spec => []Kept
<1>1. Init => Kept
  BY TypedInit, OrderedInit, PatchedInit DEF Kept
<1>2. Kept /\ [Next]_vars => Kept'
  BY TypedStep, OrderedStep, PatchedStep DEF Kept
<1> QED BY <1>1, <1>2, PTL DEF Spec

(* The harness never leaves its state space: no copy runs past the code,   *)
(* whichever pages cannot be made writable and wherever the exports are.   *)
THEOREM HotPatchTypeOK == Spec => []TypeOK
<1>1. Kept => TypeOK
  BY DEF Kept, Typed
<1> QED BY <1>1, KeptHolds, PTL

(* A block that ends has put back every byte it changed, whichever of its  *)
(* patches failed to go in, when no two exports are one.                   *)
THEOREM DoneIsClean == Spec => []CleanWhenDone
<1>1. Kept => CleanWhenDone
  <2> SUFFICES ASSUME Kept, pc = "done", Spaced, NEW a \in Cells
               PROVE  mem[a] = Shipped
    BY DEF CleanWhenDone, Clean
  <2>1. CASE \E f \in Targets, j \in 1..SaveLen : a = entry[f] + j - 1
    <3>1. PICK f \in Targets, j \in 1..SaveLen : a = entry[f] + j - 1
      BY <2>1
    <3>2. ~on[f]
      BY DEF Kept, Ordered
    <3>3. JumpIn(f, 1, 0)
      BY <3>2 DEF Kept, Patched, From, UpTo
    <3>4. ~(1 <= j /\ j <= 0)
      OBVIOUS
    <3> QED BY <3>1, <3>3, <3>4 DEF JumpIn
  <2> QED BY <2>1 DEF Kept, Patched
<1> QED BY <1>1, KeptHolds, PTL

(* With distinct exports no call runs half a jump: while a prologue is     *)
(* copied there is nobody to enter it, and between copies it is whole.     *)
THEOREM NothingTorn == Spec => []NeverTorn
<1>1. Init => NeverTorn
  BY CodesAre DEF Init, NeverTorn
<1>2. Kept /\ NeverTorn /\ [Next]_vars => NeverTorn'
  <2> SUFFICES ASSUME Kept, NeverTorn, [Next]_vars, Spaced'
               PROVE  last' # Torn
    BY DEF NeverTorn
  <2>1. Spaced /\ TypeOK /\ Patched /\ cur \in Targets /\ 1 \in Targets
    <3>1. entry' = entry
      BY DEF Next, Main, vars, Stopped, Validate, Protect, WriteByte, Note, Drive, Check,
             Unprotect, RestoreByte, Frozen, Nested
    <3> QED BY <3>1, SizesAre DEF Kept, Typed, TypeOK, Spaced, Targets
  <2>2. \A f \in Targets : ~Copying => Entered(f) # Torn
    BY <2>1, EntersRight, CodesAre
  <2>3. CASE Drive \/ Frozen \/ \E f \in Targets : Nested(f)
    BY <2>1, <2>2, <2>3 DEF Drive, Frozen, Nested, Enter, Copying
  <2>4. CASE UNCHANGED last
    BY <2>1, <2>4 DEF NeverTorn
  <2> QED BY <2>3, <2>4 DEF Next, Main, vars, Stopped, Validate, Protect, WriteByte, Note, Check,
             Unprotect, RestoreByte
<1> QED BY <1>1, <1>2, KeptHolds, PTL DEF Spec
-----------------------------------------------------------------------------
(* The promise sees a patch only when it is on.                            *)
Seen(f) == IF Spaced /\ on[f] THEN "ours" ELSE "shipped"
AsSeen == \A f \in Targets : CodeOf(f) = Seen(f)

LEMMA SeenIs ==
  Kept => AsSeen
<1> SUFFICES ASSUME Kept, NEW f \in Targets
             PROVE  CodeOf(f) = Seen(f)
  BY DEF AsSeen
<1>0. /\ Typed /\ Ordered /\ Patched /\ TypeOK /\ cur \in Targets /\ \A g \in Targets : ~(g < g)
  BY SizesAre DEF Kept, Typed, TypeOK, Targets
<1>1. CASE ~Spaced
  BY <1>1 DEF CodeOf, Seen
<1>2. CASE Spaced /\ pc = "write" /\ cur = f
  <2>1. ~on[f]
    BY <1>0, <1>2 DEF Ordered
  <2> QED BY <1>2, <2>1 DEF CodeOf, Seen
<1>3. CASE Spaced /\ pc = "restore" /\ cur = f
  <2>1. on[f]
    BY <1>0, <1>3 DEF Ordered
  <2> QED BY <1>3, <2>1 DEF CodeOf, Seen
<1>4. CASE Spaced /\ ~(Copying /\ cur = f)
  <2>1. Entered(f) = IF on[f] THEN f ELSE ShippedCode
    BY <1>0, <1>4, EntersRight
  <2>2. CodeOf(f) = Name(Entered(f), {f}) /\ f # ShippedCode
    BY <1>4, CodesAre DEF CodeOf, Copying
  <2> QED BY <1>4, <2>1, <2>2 DEF Seen, Name
<1> QED BY <1>1, <1>2, <1>3, <1>4 DEF Copying

LEMMA SpacedStays ==
  [Next]_vars => entry' = entry /\ (Spaced' <=> Spaced)
<1>1. [Next]_vars => entry' = entry
  BY DEF Next, Main, vars, Stopped, Validate, Protect, WriteByte, Note, Drive, Check,
         Unprotect, RestoreByte, Frozen, Nested
<1> QED BY <1>1 DEF Spaced

Promised == [Promise!Next]_<<[f \in Targets |-> CodeOf(f)], LastRun>>

LEMMA PromiseInit ==
  Init => Promise!Init
<1> SUFFICES ASSUME Init
             PROVE  Promise!Init
  OBVIOUS
<1>1. AsSeen
  BY SeenIs, TypedInit, OrderedInit, PatchedInit DEF Kept
<1>2. \A f \in Targets : CodeOf(f) = "shipped"
  BY <1>1 DEF AsSeen, Seen, Init
<1>3. LastRun = "shipped"
  BY CodesAre DEF LastRun, Name, Init
<1> QED BY <1>2, <1>3 DEF Promise!Init

(* A call that runs f, at a moment when no prologue is being copied.       *)
LEMMA PromiseCall ==
  ASSUME Kept, AsSeen, AsSeen', [Next]_vars, ~Copying,
         NEW f \in Targets, Enter(f), UNCHANGED on
  PROVE  Promised
<1>1. \A g \in Targets : CodeOf(g)' = CodeOf(g)
  BY SpacedStays DEF AsSeen, Seen
<1>2. CASE ~Spaced
  <2>1. LastRun' = LastRun
    BY <1>2, SpacedStays DEF LastRun
  <2> QED BY <1>1, <2>1 DEF Promised
<1>3. CASE Spaced
  <2>1. Entered(f) = IF on[f] THEN f ELSE ShippedCode
    BY <1>3, EntersRight DEF Kept, Typed
  <2>2. LastRun' = Name(Entered(f), Targets)
    BY <1>3, SpacedStays DEF LastRun, Enter, Name
  <2>3. LastRun' = CodeOf(f)
    BY <1>3, <2>1, <2>2, CodesAre DEF AsSeen, Seen, Name
  <2>4. Promise!Call(f)
    BY <1>1, <2>3 DEF Promise!Call
  <2> QED BY <2>4 DEF Promised, Promise!Next
<1> QED BY <1>2, <1>3

(* A copy that ends: the patch of cur is there, or is there no more.       *)
LEMMA PromiseSwitch ==
  ASSUME Kept, AsSeen, AsSeen', [Next]_vars, UNCHANGED last, NEW b \in BOOLEAN,
         on' = [on EXCEPT ![cur] = b]
  PROVE  Promised
<1>1. cur \in Targets /\ on \in [Targets -> BOOLEAN]
  BY DEF Kept, Typed, TypeOK
<1>2. LastRun' = LastRun
  BY SpacedStays DEF LastRun, Name
<1>3. \A g \in Targets : g # cur => CodeOf(g)' = CodeOf(g)
  BY <1>1, SpacedStays DEF AsSeen, Seen
<1>4. CodeOf(cur) \in {"ours", "shipped"} /\ on'[cur] = b
  BY <1>1 DEF AsSeen, Seen
<1>5. ASSUME NEW code, \A g \in Targets : CodeOf(g)' = IF g = cur THEN code ELSE CodeOf(g)
      PROVE  [f \in Targets |-> CodeOf(f)]' = [[f \in Targets |-> CodeOf(f)] EXCEPT ![cur] = code]
  BY <1>5
<1>6. CASE ~Spaced
  <2>1. \A g \in Targets : CodeOf(g)' = CodeOf(g)
    BY <1>6, SpacedStays DEF AsSeen, Seen
  <2> QED BY <1>2, <2>1 DEF Promised
<1>7. CASE Spaced /\ b = TRUE
  <2>1. \A g \in Targets : CodeOf(g)' = IF g = cur THEN "ours" ELSE CodeOf(g)
    BY <1>1, <1>3, <1>4, <1>7, SpacedStays DEF AsSeen, Seen
  <2>2. Promise!Install(cur)
    BY <1>2, <1>5, <2>1 DEF Promise!Install
  <2> QED BY <1>1, <2>2 DEF Promised, Promise!Next
<1>8. CASE Spaced /\ b = FALSE
  <2>1. \A g \in Targets : CodeOf(g)' = IF g = cur THEN "shipped" ELSE CodeOf(g)
    BY <1>1, <1>3, <1>4, <1>8, SpacedStays DEF AsSeen, Seen
  <2>2. Promise!Remove(cur)
    BY <1>2, <1>5, <2>1 DEF Promise!Remove
  <2> QED BY <1>1, <2>2 DEF Promised, Promise!Next
<1> QED BY <1>6, <1>7, <1>8

LEMMA PromiseStep ==
  Kept /\ AsSeen /\ AsSeen' /\ [Next]_vars => Promised
<1> SUFFICES ASSUME Kept, AsSeen, AsSeen', [Next]_vars
             PROVE  Promised
  OBVIOUS
<1>1. CASE UNCHANGED <<on, last>>
  <2>1. LastRun' = LastRun /\ \A g \in Targets : CodeOf(g)' = CodeOf(g)
    BY <1>1, SpacedStays DEF LastRun, Name, AsSeen, Seen
  <2> QED BY <2>1 DEF Promised
<1>2. CASE Drive \/ Frozen \/ \E f \in Targets : Nested(f)
  <2>1. ~Copying /\ UNCHANGED on /\ \E f \in Targets : Enter(f)
    BY <1>2, SizesAre DEF Drive, Frozen, Nested, Copying, Kept, Typed, TypeOK, Targets
  <2> QED BY <2>1, PromiseCall
<1>3. CASE WriteByte
  BY <1>1, <1>3, PromiseSwitch DEF WriteByte
<1>4. CASE RestoreByte
  BY <1>1, <1>4, PromiseSwitch DEF RestoreByte
<1> QED BY <1>1, <1>2, <1>3, <1>4 DEF Next, Main, vars, Stopped, Validate, Protect, Note, Check, Unprotect

(* The block keeps the promise of Substitution: an export switches between *)
(* the shipped code and ours in one step, and every call, of the corpus or *)
(* of Windows' own code, runs the one it is at that moment.                *)
THEOREM BlockKeepsPromise == Spec => KeepsPromise
<1>1. Kept /\ [Next]_vars /\ Kept' => Promised
  <2>1. Kept' => AsSeen'
    BY SeenIs, PTL
  <2> QED BY <2>1, SeenIs, PromiseStep
<1> QED BY <1>1, PromiseInit, KeptHolds, PTL DEF Spec, KeepsPromise, Promise!Spec, Promised
-----------------------------------------------------------------------------
(* A failure that was counted stays counted.                               *)
LEMMA FailureStays ==
  Typed /\ [Next]_vars /\ failures' = 0 => failures = 0
<1> SUFFICES ASSUME Typed, [Next]_vars, failures' = 0
             PROVE  failures = 0
  OBVIOUS
<1>1. failures \in Nat
  BY DEF Typed, TypeOK
<1>2. CASE \E n \in {0, 1} : Fail(n)
  BY <1>1, <1>2 DEF Fail
<1>3. CASE UNCHANGED failures
  BY <1>3
<1>4. Validate \/ Protect \/ Drive \/ Check \/ Frozen => \E n \in {0, 1} : Fail(n)
  BY DEF Validate, Protect, Drive, Check, Frozen
<1> QED BY <1>2, <1>3, <1>4 DEF Next, Main, vars, Stopped, WriteByte, Note, Unprotect, RestoreByte, Nested

(* What a block that has counted no failure has already established.       *)
Installed ==
  /\ pc \notin {"validate", "done", "crashed"} => proven = Targets
  /\ failures = 0 =>
       /\ pc = "done" => proven = Targets
       /\ pc \in {"protect", "write"} => \A f \in Targets : f < cur => on[f]
       /\ pc \in {"note", "drive", "check"} => \A f \in Targets : on[f]

LEMMA InstalledStep ==
  Typed /\ Ordered /\ Installed /\ [Next]_vars => Installed'
<1> SUFFICES ASSUME Typed, Ordered, Installed, [Next]_vars
             PROVE  Installed'
  OBVIOUS
<1> USE DEF Installed
<1>0. /\ cur \in Targets /\ on \in [Targets -> BOOLEAN] /\ failures \in Nat
      /\ \A f \in Targets : f >= 1 /\ f \in Nat /\ f <= NumTargets
      /\ (failures' = 0 => failures = 0)
  BY SizesAre, FailureStays DEF Typed, TypeOK, Targets
<1>1. CASE Validate
  <2>1. proven' = proven /\ cur' = 1 /\ pc' \in {"protect", "done"}
        /\ (pc' = "protect" => proven = Targets) /\ (pc' = "done" => failures' = failures + 1)
    BY <1>1 DEF Validate, Fail, Ordered
  <2>2. \A f \in Targets : ~(f < 1)
    BY <1>0
  <2>3. pc' = "done" => failures' # 0
    BY <1>0, <2>1
  <2> QED BY <2>1, <2>2, <2>3
<1>2. CASE Protect
  <2>1. pc = "protect" /\ UNCHANGED <<proven, on>>
    BY <1>2 DEF Protect
  <2>2. CASE pc' = "write" /\ UNCHANGED cur
    BY <1>0, <2>1, <2>2
  <2>3. CASE ForEach("protect", "note") /\ Fail(1)
    <3>1. pc' \in {"protect", "note"} /\ failures' # 0
      BY <1>0, <2>3, ForEachIs DEF Fail
    <3> QED BY <2>1, <3>1
  <2> QED BY <1>2, <2>2, <2>3 DEF Protect
<1>3. CASE WriteByte
  <2>1. pc = "write" /\ UNCHANGED <<proven, failures>>
    BY <1>3 DEF WriteByte
  <2>2. CASE UNCHANGED <<pc, cur, on>>
    BY <2>1, <2>2
  <2>3. CASE on' = [on EXCEPT ![cur] = TRUE] /\ ForEach("protect", "note")
    <3>1. /\ pc' \in {"protect", "note"} /\ (pc' = "protect" => cur' = cur + 1)
          /\ (pc' = "note" => cur = NumTargets)
      BY <1>0, <2>3, ForEachIs
    <3>2. ASSUME failures = 0, NEW f \in Targets, f <= cur
          PROVE  on'[f]
      <4>1. f = cur \/ f < cur
        BY <1>0, <3>2
      <4> QED BY <1>0, <2>1, <2>3, <3>2, <4>1
    <3>3. ASSUME cur' = cur + 1, NEW f \in Targets
          PROVE  f < cur' => f <= cur
      BY <1>0, <3>3
    <3> QED BY <1>0, <2>1, <3>1, <3>2, <3>3
  <2> QED BY <1>3, <2>2, <2>3 DEF WriteByte
<1>4. CASE Note
  BY <1>4 DEF Note
<1>5. CASE Drive
  <2>1. UNCHANGED <<proven, on>> /\ pc = "drive" /\ pc' \in {"drive", "check", "crashed"}
    <3>1. ForEach("drive", "check") => pc' \in {"drive", "check"}
      BY <1>0, ForEachIs
    <3> QED BY <1>5, <3>1 DEF Drive
  <2> QED BY <1>0, <2>1
<1>6. CASE Check
  BY <1>6 DEF Check
<1>7. CASE Unprotect
  <2>1. UNCHANGED <<proven, on>> /\ pc = "unprotect" /\ pc' \in {"unprotect", "frozen", "restore", "crashed"}
    <3>1. ForEach("unprotect", "frozen") => pc' \in {"unprotect", "frozen"}
      BY <1>0, ForEachIs
    <3> QED BY <1>7, <3>1 DEF Unprotect
  <2> QED BY <2>1
<1>8. CASE RestoreByte
  <2>1. UNCHANGED proven /\ pc = "restore" /\ pc' \in {"unprotect", "frozen", "restore"}
    <3>1. ForEach("unprotect", "frozen") => pc' \in {"unprotect", "frozen"}
      BY <1>0, ForEachIs
    <3> QED BY <1>8, <3>1 DEF RestoreByte
  <2> QED BY <2>1
<1>9. CASE Frozen
  BY <1>9 DEF Frozen
<1>10. CASE \E f \in Targets : Nested(f)
  <2>1. UNCHANGED <<proven, on, cur, failures>> /\ pc # "done" /\ (pc' = "crashed" \/ UNCHANGED pc)
    BY <1>10 DEF Nested
  <2> QED BY <2>1
<1>11. CASE UNCHANGED vars \/ Stopped
  <2>1. UNCHANGED <<proven, pc, on, cur, failures>>
    BY <1>11 DEF vars, Stopped
  <2> QED BY <2>1
<1> QED BY <1>1, <1>2, <1>3, <1>4, <1>5, <1>6, <1>7, <1>8, <1>9, <1>10, <1>11 DEF Next, Main
-----------------------------------------------------------------------------
(* Until bytes are put back, the first byte of a jump to f is nowhere but  *)
(* at f, and not there either once a later export patched the same place.  *)
Shadowed(f) == \E g \in Targets : f < g /\ entry[f] = entry[g] /\ on[g]
Before == {"validate", "protect", "write", "note", "drive", "check"}

Overwritten ==
  pc \in Before =>
    /\ \A a \in Cells, f \in Targets : mem[a] = <<f, 1>> => a = entry[f]
    /\ \A f, g \in Targets :
         f < g /\ entry[f] = entry[g] /\ (on[g] \/ (pc = "write" /\ cur = g /\ at > 1)) =>
           mem[entry[f]] # <<f, 1>>

LEMMA OverwrittenInit ==
  Init => Overwritten
<1> SUFFICES ASSUME Init
             PROVE  Overwritten
  OBVIOUS
<1>1. /\ \A a \in Cells : mem[a] = Shipped
      /\ pc = "validate" /\ \A f \in Targets : ~on[f]
  BY DEF Init
<1>2. \A f \in Targets : <<f, 1>> # Shipped
  BY SizesAre, CodesAre
<1> QED BY <1>1, <1>2 DEF Overwritten

LEMMA OverwrittenStep ==
  Typed /\ Ordered /\ Overwritten /\ [Next]_vars => Overwritten'
<1> SUFFICES ASSUME Typed, Ordered, Overwritten, [Next]_vars, pc' \in Before
             PROVE  Overwritten'
  BY DEF Overwritten
<1>0. /\ TypeOK /\ cur \in Targets /\ on \in [Targets -> BOOLEAN] /\ entry' = entry /\ mem \in [Cells -> Contents]
      /\ \A f \in Targets : f \in Nat
  BY SpacedStays DEF Typed, TypeOK, Targets
<1>1. CASE UNCHANGED <<mem, on>> /\ pc \in Before /\ (pc' = "write" => at' = 1 \/ UNCHANGED <<pc, cur, at>>)
  <2>1. ~(1 > 1)
    OBVIOUS
  <2> QED BY <1>0, <1>1, <2>1 DEF Overwritten
<1>2. CASE WriteByte
  <2>1. /\ pc = "write" /\ at \in 1..StubLen /\ at \in 1..SaveLen /\ at \in Nat /\ pc \in Before
        /\ mem' = [mem EXCEPT ![entry[cur] + at - 1] = <<cur, at>>]
    BY <1>2, SizesAre DEF WriteByte, Typed, IndexOK, Before
  <2>2. /\ entry[cur] + at - 1 \in Cells /\ entry[cur] \in Nat /\ \A f \in Targets : entry[f] \in Cells
        /\ (at = 1 => entry[cur] + at - 1 = entry[cur])
    <3>1. \A f \in Targets : entry[f] \in Cells /\ entry[f] \in Nat
      BY <1>0, <2>1, CellIs
    <3> QED BY <1>0, <2>1, <3>1, CellIs
  <2>3. \A a \in Cells : mem'[a] = IF a = entry[cur] + at - 1 THEN <<cur, at>> ELSE mem[a]
    BY <1>0, <2>1, <2>2
  <2>4. ASSUME NEW a \in Cells, NEW f \in Targets, mem'[a] = <<f, 1>>
        PROVE  a = entry[f]
    <3>1. CASE a = entry[cur] + at - 1
      <4>1. cur = f /\ at = 1
        BY <2>3, <2>4, <3>1
      <4> QED BY <2>2, <3>1, <4>1
    <3>2. CASE a # entry[cur] + at - 1
      BY <2>1, <2>3, <2>4, <3>2 DEF Overwritten
    <3> QED BY <3>1, <3>2
  <2>5. on' = on \/ on' = [on EXCEPT ![cur] = TRUE]
    BY <1>2 DEF WriteByte
  <2>6. pc' = "write" => cur' = cur
    <3>1. ForEach("protect", "note") => pc' \in {"protect", "note"}
      BY <1>0, ForEachIs
    <3> QED BY <1>2, <3>1 DEF WriteByte
  <2>7. ASSUME NEW f \in Targets, NEW g \in Targets, f < g, entry[f] = entry[g],
               on'[g] \/ (pc' = "write" /\ cur' = g /\ at' > 1),
               mem'[entry[f]] = <<f, 1>>
        PROVE  FALSE
    <3>1. on[g] \/ g = cur
      BY <1>0, <2>5, <2>6, <2>7
    <3>2. CASE entry[f] = entry[cur] + at - 1
      <4>1. cur = f /\ at = 1
        BY <2>2, <2>3, <2>7, <3>2
      <4>2. on[g] => g < cur
        BY <2>1 DEF Ordered
      <4> QED BY <1>0, <2>7, <3>1, <4>1, <4>2
    <3>3. CASE entry[f] # entry[cur] + at - 1
      <4>1. mem[entry[f]] = <<f, 1>>
        BY <2>2, <2>3, <2>7, <3>3
      <4>2. ~on[g] /\ g = cur /\ ~(at > 1)
        BY <2>1, <2>7, <3>1, <4>1 DEF Overwritten
      <4>3. at = 1
        BY <2>1, <4>2
      <4> QED BY <2>2, <2>7, <3>3, <4>2, <4>3
    <3> QED BY <3>2, <3>3
  <2> QED BY <1>0, <2>4, <2>7 DEF Overwritten
<1>3. CASE Protect \/ Drive
  <2>1. ForEach("protect", "note") => pc' \in {"protect", "note"}
    BY <1>0, ForEachIs
  <2>2. ForEach("drive", "check") => pc' \in {"drive", "check"}
    BY <1>0, ForEachIs
  <2> QED BY <1>1, <1>3, <2>1, <2>2 DEF Protect, Drive, Before
<1>4. CASE Unprotect \/ RestoreByte
  <2>1. ForEach("unprotect", "frozen") => pc' \in {"unprotect", "frozen"}
    BY <1>0, ForEachIs
  <2> QED BY <1>4, <2>1 DEF Unprotect, RestoreByte, Before
<1>5. CASE Frozen
  BY <1>5 DEF Frozen, Before
<1>6. CASE \E f \in Targets : Nested(f)
  <2>1. UNCHANGED <<mem, on, cur, at>> /\ (pc' = "crashed" \/ pc' = pc)
    BY <1>6 DEF Nested
  <2> QED BY <1>1, <2>1 DEF Before
<1>7. CASE Validate \/ Note \/ Check
  BY <1>1, <1>7 DEF Validate, Note, Check, Before
<1>8. CASE UNCHANGED vars \/ Stopped
  BY <1>1, <1>8 DEF vars, Stopped
<1> QED BY <1>2, <1>3, <1>4, <1>5, <1>6, <1>7, <1>8 DEF Next, Main
-----------------------------------------------------------------------------
(* An export whose place a later one took is never entered as itself, so   *)
(* its counter stays at the zero that was noted.                           *)
Silent ==
  pc \in {"drive", "check"} => \A f \in Targets : Shadowed(f) => counter[f] = 0

LEMMA NeverItself ==
  ASSUME Typed, Overwritten, pc \in Before, NEW f \in Targets, Shadowed(f), NEW x \in Targets
  PROVE  Entered(x) # f
<1>1. entry[x] \in Cells /\ entry[x] + 1 - 1 = entry[x] /\ 1 \in 1..StubLen
  <2>1. 1 \in 1..SaveLen
    BY SizesAre
  <2>2. entry[x] \in Cells /\ entry[x] \in Nat
    BY <2>1, CellIs DEF Typed
  <2> QED BY <2>2, SizesAre
<1>2. ~Jump(x, f)
  <2> SUFFICES ASSUME Jump(x, f)
               PROVE  FALSE
    OBVIOUS
  <2>1. mem[entry[x]] = <<f, 1>>
    BY <1>1 DEF Jump
  <2>2. entry[x] = entry[f]
    BY <1>1, <2>1 DEF Overwritten
  <2> QED BY <2>1, <2>2 DEF Overwritten, Shadowed
<1>3. f # ShippedCode /\ f # Torn
  BY CodesAre
<1>4. CASE \E g \in Targets : Jump(x, g)
  <2>1. Jump(x, Entered(x))
    BY <1>4 DEF Entered
  <2> QED BY <1>2, <2>1
<1>5. CASE ~\E g \in Targets : Jump(x, g)
  BY <1>3, <1>5 DEF Entered
<1> QED BY <1>4, <1>5

LEMMA SilentStep ==
  Typed /\ Overwritten /\ Silent /\ [Next]_vars => Silent'
<1> SUFFICES ASSUME Typed, Overwritten, Silent, [Next]_vars,
                    pc' \in {"drive", "check"}, NEW f \in Targets, Shadowed(f)'
             PROVE  counter'[f] = 0
  BY DEF Silent
<1>0. cur \in Targets /\ entry' = entry
  BY SpacedStays DEF Typed, TypeOK
<1>1. CASE Note
  BY <1>1 DEF Note
<1>2. CASE Drive \/ \E x \in Targets : Nested(x)
  <2>1. UNCHANGED on /\ \E x \in Targets : Enter(x)
    BY <1>0, <1>2 DEF Drive, Nested
  <2>2. pc \in {"drive", "check"}
    BY <1>2 DEF Drive, Nested
  <2>3. Shadowed(f)
    BY <1>0, <2>1 DEF Shadowed
  <2>4. PICK x \in Targets : Enter(x)
    BY <2>1
  <2>5. Entered(x) # f
    BY <2>2, <2>3, NeverItself DEF Before
  <2>6. counter'[f] = counter[f]
    BY <2>4, <2>5 DEF Enter
  <2> QED BY <2>2, <2>3, <2>6 DEF Silent
<1>3. CASE UNCHANGED <<on, counter>> /\ pc \in {"drive", "check"}
  BY <1>0, <1>3 DEF Silent, Shadowed
<1>4. CASE Protect \/ WriteByte
  <2>1. ForEach("protect", "note") => pc' \in {"protect", "note"}
    BY <1>0, ForEachIs
  <2> QED BY <1>4, <2>1 DEF Protect, WriteByte
<1>5. CASE Unprotect \/ RestoreByte
  <2>1. ForEach("unprotect", "frozen") => pc' \in {"unprotect", "frozen"}
    BY <1>0, ForEachIs
  <2> QED BY <1>5, <2>1 DEF Unprotect, RestoreByte
<1>6. CASE Check \/ Validate \/ Frozen
  BY <1>6 DEF Check, Validate, Frozen
<1>7. CASE UNCHANGED vars \/ Stopped
  BY <1>3, <1>7 DEF vars, Stopped
<1> QED BY <1>1, <1>2, <1>3, <1>4, <1>5, <1>6, <1>7 DEF Next, Main
-----------------------------------------------------------------------------
(* The check of the counters tells exports that are one from exports that  *)
(* are not; and on those that are not, the corpus ran the wrappers.        *)
AfterCheck == {"unprotect", "restore", "frozen", "done"}

Counted ==
  failures = 0 =>
    /\ pc \in AfterCheck => Spaced
    /\ Spaced => /\ pc = "drive" => \A f \in Targets : f < cur => f \in driven
                 /\ pc \in AfterCheck \union {"check"} => driven = Targets

LEMMA CountedStep ==
  Kept /\ Installed /\ Silent /\ Counted /\ [Next]_vars => Counted'
<1> SUFFICES ASSUME Kept, Installed, Silent, Counted, [Next]_vars, failures' = 0
             PROVE  Counted'
  BY DEF Counted
<1>0. /\ TypeOK /\ cur \in Targets /\ on \in [Targets -> BOOLEAN] /\ failures = 0 /\ driven \subseteq Targets
      /\ (Spaced' <=> Spaced) /\ \A f \in Targets : f \in Nat /\ f >= 1 /\ f <= NumTargets
  BY SpacedStays, FailureStays, SizesAre DEF Kept, Typed, TypeOK, Targets
<1>1. CASE Drive
  <2>1. pc = "drive" /\ pc' \in {"drive", "check", "crashed"} /\ \A f \in Targets : on[f]
    <3>1. ForEach("drive", "check") => pc' \in {"drive", "check"}
      BY <1>0, ForEachIs
    <3> QED BY <1>0, <1>1, <3>1 DEF Drive, Installed
  <2>2. pc' = "drive" => cur' = cur \/ cur' = cur + 1
    BY <1>0, <1>1, ForEachIs DEF Drive
  <2>3. pc' = "check" => cur = NumTargets
    BY <1>0, <1>1, ForEachIs DEF Drive
  <2>4. Spaced => driven' = driven \union {cur}
    <3>1. Spaced => Entered(cur) = cur
      BY <1>0, <2>1, EntersRight DEF Kept, Copying
    <3> QED BY <1>1, <3>1 DEF Drive
  <2>5. ASSUME Spaced, NEW f \in Targets, f < cur \/ f = cur
        PROVE  f \in driven'
    BY <1>0, <2>1, <2>4, <2>5 DEF Counted
  <2>6. ASSUME Spaced, pc' = "drive", NEW f \in Targets, f < cur'
        PROVE  f \in driven'
    <3>1. f < cur \/ f = cur
      BY <1>0, <2>2, <2>6
    <3> QED BY <2>5, <2>6, <3>1
  <2>7. ASSUME Spaced, pc' = "check"
        PROVE  driven' = Targets
    <3>1. \A f \in Targets : f < cur \/ f = cur
      BY <1>0, <2>3, <2>7
    <3>2. Targets \subseteq driven'
      BY <2>5, <2>7, <3>1
    <3> QED BY <1>0, <2>4, <2>7, <3>2
  <2> QED BY <1>0, <2>1, <2>6, <2>7 DEF Counted, AfterCheck
<1>2. CASE Check
  <2>1. pc = "check" /\ pc' = "unprotect" /\ UNCHANGED driven /\ \A f \in Targets : counter[f] # 0
    BY <1>0, <1>2 DEF Check, Fail
  <2>2. \A f \in Targets : on[f]
    BY <1>0, <2>1 DEF Installed
  <2>3. Spaced
    <3> SUFFICES ASSUME NEW f \in Targets, NEW g \in Targets, f # g, entry[f] = entry[g]
                 PROVE  FALSE
      BY DEF Spaced
    <3>1. f < g \/ g < f
      BY <1>0
    <3>2. Shadowed(f) \/ Shadowed(g)
      BY <2>2, <3>1 DEF Shadowed
    <3> QED BY <2>1, <3>2 DEF Silent
  <2> QED BY <1>0, <2>1, <2>3 DEF Counted, AfterCheck
<1>3. CASE Note
  <2>1. pc = "note" /\ pc' = "drive" /\ cur' = 1
    BY <1>3 DEF Note, Kept, Ordered
  <2>2. \A f \in Targets : ~(f < 1)
    BY <1>0
  <2> QED BY <2>1, <2>2 DEF Counted, AfterCheck
<1>4. CASE Protect \/ WriteByte
  <2>1. pc' \in {"protect", "write", "note"}
    <3>1. ForEach("protect", "note") => pc' \in {"protect", "note"}
      BY <1>0, ForEachIs
    <3> QED BY <1>4, <3>1 DEF Protect, WriteByte
  <2> QED BY <2>1 DEF Counted, AfterCheck
<1>5. CASE Unprotect \/ RestoreByte
  <2>1. UNCHANGED driven /\ pc \in AfterCheck /\ pc' \in AfterCheck \union {"crashed"}
    <3>1. ForEach("unprotect", "frozen") => pc' \in {"unprotect", "frozen"}
      BY <1>0, ForEachIs
    <3> QED BY <1>5, <3>1 DEF Unprotect, RestoreByte, AfterCheck
  <2> QED BY <1>0, <2>1 DEF Counted, AfterCheck
<1>6. CASE Frozen
  BY <1>0, <1>6 DEF Frozen, Counted, AfterCheck
<1>7. CASE Validate
  <2>1. pc' = "protect"
    BY <1>0, <1>7 DEF Validate, Fail
  <2> QED BY <2>1 DEF Counted, AfterCheck
<1>8. CASE \E f \in Targets : Nested(f)
  <2>1. UNCHANGED <<driven, cur>> /\ (pc' = "crashed" \/ pc' = pc)
    BY <1>8 DEF Nested
  <2> QED BY <1>0, <2>1 DEF Counted, AfterCheck
<1>9. CASE UNCHANGED vars \/ Stopped
  <2>1. UNCHANGED <<driven, cur, pc>>
    BY <1>9 DEF vars, Stopped
  <2> QED BY <1>0, <2>1 DEF Counted
<1> QED BY <1>1, <1>2, <1>3, <1>4, <1>5, <1>6, <1>7, <1>8, <1>9 DEF Next, Main

(* A block that prints PASS ran every export's corpus through that         *)
(* export's own wrapper, installed nothing unproven, and left shipped code *)
(* in every byte: wherever the exports are, several at one place included, *)
(* and whichever pages could not be made writable.                         *)
THEOREM PassHonest == Spec => []PassIsHonest
<1> DEFINE Honest == Installed /\ Overwritten /\ Silent /\ Counted
<1>1. Init => Honest
  <2>1. Init => Installed /\ Silent /\ Counted
    BY DEF Init, Installed, Silent, Counted, AfterCheck
  <2> QED BY <2>1, OverwrittenInit
<1>2. Kept /\ Honest /\ [Next]_vars => Honest'
  BY InstalledStep, OverwrittenStep, SilentStep, CountedStep DEF Kept
<1>3. Honest /\ CleanWhenDone => PassIsHonest
  BY DEF Installed, Counted, AfterCheck, CleanWhenDone, PassIsHonest
<1> HIDE DEF Honest
<1> QED BY <1>1, <1>2, <1>3, KeptHolds, DoneIsClean, PTL DEF Spec
=============================================================================
