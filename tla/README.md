# Windows 11 in Assembly: verification project

The repository replaces exported functions of Windows DLLs with hand-written
assembly, proves each replacement against the shipped function, and keeps
re-proving all of them whenever Windows servicing replaces a DLL. This
directory holds TLA+ models of that machinery and of the functions whose
contracts have state, TLC configurations that model-check them, and proofs
checked by TLAPS.

## 1. Inventory

| component | state it keeps | operations | interacts with |
|---|---|---|---|
| Windows-update watch: `tools/on-update.ps1`, `tools/install-update-watch.ps1` | `NEEDS-ATTENTION.md`, `dll-baseline.json`, the place of each running script | check, sweep, clear and roll, alert; triggers (logon, daily, event 19), six-hour limit, `IgnoreNew` | calls `revalidate.ps1` in fresh processes; reads System32, which servicing replaces under it |
| Re-validation sweep: `tools/revalidate.ps1` | list of failures, the hash of the DLLs at its start | `-CheckOnly`, `-Baseline`, the sweep over `changes/*/build.bat`, ABI audit, live column | runs build scripts with a time limit and judges their transcripts |
| Gates: `changes/*/build.bat`, `correctness.c`, `harness/bench.h`, `live-substitution/build*.bat` | exit code and transcript | assemble, gate on correctness, benchmark | the sweep reads what they print |
| Live substitution: `live-substitution/live_subst*.c` | the code bytes of a DLL in its own process, `patch_t`, counters | validate, patch_on, drive, check, patch_off | overwrites exports that the process itself calls |
| Counted strings: changes 094-096, 098, 101-103, 264, 265, 296 | `Length`, `MaximumLength`, a buffer | init, copy, append | each other: one call's string is the next one's source |
| Block copy: the size ladder inside 296 (101, 102 and 265 have simpler ones) | memory, vector registers | head/tail loads, loops, stores | overlapping source and destination |
| Bitmaps: changes 023, 030, 123-125, 130, 192, 255-262, 300 | an array of bits | set, find, find-and-clear, count | an allocator built from them |
| Tokenizers: `strtok_s`, `wcstok_s` (147, 148) | the context pointer between calls, the string it cuts | next token | the caller's string |
| Secure CRT: `strcpy_s` ... `strncat_s`, `_strset_s` ... | destination and its declared size | copy, append, fill, refuse | |
| Environment expansion: `ExpandEnvironmentStringsW` (291) | cursor, free cells, the mask of the last block; the environment of the process | expand, measure | other threads change the environment; each lookup writes into the caller's buffer |
| Name matching: `RtlIsNameInUnUpcasedExpression` (301) | two cursors and a star, or a bitset of positions | match | |
| Scanners and comparers: `wcslen`, `memchr`, `strcmp`, `StrChrW`, ... | none | page-safe vector scan | |
| Formatters and parsers: `_itoa`, `RtlIntegerToUnicodeString`, IPv4/IPv6, GUID, SID, Base64, hex | output buffer | | |
| Path functions (shlwapi, pathcch) | the caller's path | | |
| Microarchitecture variants: `tools/new-variant.py`, `tools/revalidate-variants.ps1` | variant files beside a change | add, sweep | the gates |
| ABI gates: `tools/abi-audit.py`, `tools/abi-check` | none | static and dynamic register audit | the sweep |
| Image: `image/materialize.py` | the tree of collected implementations | materialise | `changes/` |
| Audits, discovery, surface and coverage tools | none | surveys and reports | |

What is hard here is not the single function, which is compared with the
shipped one on millions of inputs, but what happens *between* steps: DLLs
replaced during a sweep of hours, runs killed at any point, two runs at a time,
files cut short, harnesses that crash instead of answering, code bytes replaced
while they may be executed, strings that one function leaves in a state the
next one was never tested in, stores that hit bytes a later load still needs.
`PROJECT.json` lists each of these hazards at its line with the properties that
would catch it.

## 2. Modules

| module | models | properties |
|---|---|---|
| `Gate` | pure operators: how a script turns the end of its harness into exit code and transcript, and how the rules of `revalidate.ps1` judge them | used by `UpdateWatch` |
| `UpdateWatch` | the watch: any number of runs of `on-update.ps1`, one action per step, and around them servicing, kills, fixes and recording by hand | `TypeOK`, `PassMeansRight`, `BaselineProved`, `QuietIsProved`, `AlertIsSticky`, `ServicedIsSettled`, `BrokenIsReported`; two that the code violates |
| `UpdateWatch_proofs` | theorems about it | |
| `HotPatch` | one block of a live-substitution harness, its code a row of cells, one per byte | `TypeOK`, `PassIsHonest`, `CleanWhenDone`, `NeverTorn`, `KeepsPromise` |
| `Substitution` | the abstract promise of a live substitution: an export is switched in one step | refined by `HotPatch` |
| `HotPatch_proofs` | theorems about `HotPatch`, the refinement of `Substitution` included | |
| `Bytes` | loads and stores of blocks of bytes, and memmove | used by the next three |
| `BlockCopy` | the copy ladder of change 296: one action per group of loads or stores, registers held in between | `TypeOK`, `CopiesAsMemmove`, `OutsideUntouched` |
| `BlockCopy_proofs` | theorems about it | |
| `CountedString` | UNICODE_STRINGs between calls: 094, 096, 296, 101, 102, one action per call | `TypeOK`, `InBounds`, `ReadsBack`, `KeepsText` |
| `CountedText` | the abstract strings of characters with a capacity | refined by `CountedString` |
| `CountedString_proofs` | theorems about `CountedString`, the refinement of `CountedText` included | |
| `Bitmap` | pure operators: bitmaps as sets, runs in them, the answer of a search bit by bit | used by the next two |
| `BitmapContract` | what a caller of the searches counts on, in one step | refined by `FindBits` |
| `FindBits` | the searches of change 256 and the find-and-invert of change 262, one action per load or store | `TypeOK`, `NothingMissed`, `InsideBuffer`, `OthersKept`, `KeepsContract`, `Returns` |
| `FindBits_proofs` | lemmas about runs and scans; theorems about `FindBits` | |
| `CString` | zero-terminated strings in memory | used by the next two |
| `SecureContract` | what a caller of the bounded string functions and of `strtok_s` counts on, in one step per call | refined by `SecureCrt` |
| `SecureCrt` | those functions block by block (147, 150, 152, 154, 156, 182, 184) under a client that goes on using its buffers and contexts | `CrtTypeOK`, `LoadsAllowed`, `RefusedIsEmpty`, `LiveContextEnds`, `RestIntact`, `CrtImplements` |
| `SecureCrt_proofs` | theorems about `SecureCrt`, the refinement of `SecureContract` included | |
| `ExpandText` | pure operators: names in a subject, and what copies and lookups do to a destination | used by the next two |
| `ExpandContract` | what a caller of change 291 counts on, character by character, in an environment that changes | refined by `ExpandEnv` |
| `ExpandEnv` | change 291: runs of literals found block by block, lookups, two calls for one subject | `ExpandTypeOK`, `InsideSize`, `WholeOrTooLong`, `AnswerIgnoresSize`, `ExpandImplements` |
| `ExpandEnv_proofs` | theorems about `ExpandEnv`; that it refines `ExpandContract` | |
| `WildName` | pure operators: what a wildcard may stand for, and the verdict of the reference | used by the next two |
| `NameContract` | one verdict, the right one | refined by `NameExpr` |
| `NameExpr` | change 301: shortcuts, greedy matching, columns of a bitset word by word | `NameTypeOK`, `NothingLost`, `DecidesRight` |
| `NameExpr_proofs` | lemmas about paths through a name; theorems about `NameExpr`, the refinement of `NameContract` included | |
| `MCStrings` | a client that uses either the counted or the zero-terminated strings | both families |
| `MCRoutines` | a caller that matches a name, copies a block, then expands strings | three families |
| `MCUpdateWatch`, `MCHotPatch`, `MCBlockCopy`, `MCCountedString`, `MCFindBits`, `MCSecureCrt`, `MCExpandEnv`, `MCNameExpr` | values of the constants for TLC | |

### UpdateWatch

State: `disk` (the version of each watched DLL), `matches` (which contracts
*item, DLL, version* the assembly meets: the truth nobody sees), `baseline`,
`alert`, and for each run its place `pc`, the item it is `at`, whether one
`failed`, and `snap`, the hashes a `-Baseline` process has taken and not yet
written. Two ghosts make the properties sayable: `moved[r]`, the DLLs serviced
since the sweep of run `r` began, and `waived`, the DLLs whose baseline entry no
sweep vouches for (recorded by hand, serviced under the sweep, or left behind
by a fix of the assembly for a newer binary).

A run goes `check` -> (`Quiet` or `BeginSweep`) -> `Environment` -> `RunChange`
for each change -> `AbiAudit` -> `RunLive` for each live harness -> `Verdict` ->
`ClearAlert`, `HashBaseline`, `WriteBaseline`, or `RaiseAlert`. These are the
points between which anything else may happen. `-CheckOnly`, the sweep and
`-Baseline` are processes of their own that hash the DLLs anew, which is why
hashing and writing are separate steps. A run killed while writing leaves
`Torn`, a file that parses to nothing.

How an item's harness ends follows from the truth (`EndsOf`): it agrees when
the assembly is right, differs, crashes or hangs when it is not, and is illegal
on a machine without AVX-512 when it needs it. The harness of a right item may crash,
hang or fail to build all the same (`Flaky`). `Gate` decides what the sweep
then sees. The text of a transcript is abstracted to the phrases a rule looks
for. A `correctness.exe` that crashed or hangs may have printed any of them before
(`Speech`): many harnesses flush their output, some print a PASS for each part, and
the build that hangs may be hanging in `bench.exe`. A live harness prints its verdict
last, after every comparison and with every patch off, and PASS only if its failure count
is 0; it may still crash or hang after that line (`LiveSpeech`), and then
`revalidate.ps1:324` judges by the line and not by the exit code. So PASS in a live
transcript stands for a right item, however the process ended.

### HotPatch and Substitution

The harness is single-threaded; `Nested` is Windows' own code entering a patched
export underneath a call of the harness, at every point except inside a copy.
`Protect` may fail, as `VirtualProtect` may. The 14-byte jump and the 16 saved
bytes are `StubLen < SaveLen` cells. The linker starts functions on multiples of
16 bytes and may fold equal functions into one, so two prologues coincide or are
at least `SaveLen` apart (`LayoutsAssumption`). Were they nearer, the removal
order, first installed first removed, would write a saved byte of one jump back
over restored code.

`KeepsPromise` maps an export to `shipped` until the last byte of its jump is
written and to `ours` until the last byte is back: each patch and removal is one
step of `Substitution`.

### BlockCopy

`mem` is all of memory, so source and destination may overlap in any way. `n`
and `room` are what the prologue of `wia_copyus` computes. A length below two
vectors is one action (`Small`), as the code issues both loads before both
stores. From there on the arms are loops: `StartForward` loads head and tail
into registers and aligns the destination, `ForwardBlock` is one turn of
`fwd64`, `EndForward` stores the registers; `rep movsb` is `ErmsByte`, byte
after byte; the `backward` arm is taken when the unsigned `dst - src` is below
`n`. The widths, the vector size `W` and the threshold `Erms` are constants:
nothing in the argument depends on 32 and 2560. One of the mutants is a bug
that the comments of `impl.asm` report from an earlier draft: the tail loaded after
the loop.

### CountedString and CountedText

Strings in `Owned` have a buffer of `MaxOf` bytes with guard bytes behind it,
`Views` point at literals. Calls are atomic (leaf functions, one thread); the bytes they leave,
text beyond `Length` included, are what the next call finds. Lengths are words
modulo `Word`. The copy inside a call is a memmove, which is what `BlockCopy`
shows of 296. Strings in `Clean` are those to which the client only gives
whole characters; the others receive odd lengths from 296 and are appended to
(101 has a rule for that). In the run `odd_append` every string is a legal
source, and change 102 fails on an odd one (`Runaway`).

Ghosts: `ended` (a NUL was written and not made obsolete by a NULL copy)
and `status[s].of`, what the call was offered. With it `KeepsText` pins down
every answer: "too small" is returned if and only if the text that was offered
does not fit.

### Bitmap, BitmapContract and FindBits

`Search` is `reference.c` of change 262 as a set of starting points: the first run
of `num` wanted bits from the hint on, or else the first of all. A bitmap is
the set of its set bits; `Goal` are the wanted bits of the bitmap and `Raw` those
of the whole buffer, up to the last element the caller allocated, because a vector sees
the bits behind the end too.

`FindBits` follows the code. A writing call on at most one machine word stays in a
register: `MarkRuns` is one round of `y &= y >> s`, `PickMark` the choice after or
before the hint and the masked store. Longer bitmaps are searched in two passes,
from the hint and from 0. A pass tries the word at its first bit (`TakeAtOnce`), then
looks at vectors for *witnesses*, aligned blocks that every run of `num` bits has to
contain (`BlockFor`, `Skip`). The run around a witness is measured in place
(`Measure`), or near an edge by the word scanner `fsb_core` in a window
(`Rebuild`, `Reject`); what is too short for a vector is left to the word
scanner (`Tail`, `ScanOnly`). `CoreHit` and `CoreWord` are one word of it, with
the run carried into the word. `FlipEnds`, `FillVector`, `FillTail` and
`FillElement` are the inversion. The ghost `mem` is the span that the last
load or store touched.

Positions are 32-bit sums in the code and nothing guards them (`Span`): the
assumption that bitmaps end a word before 2^32 is made explicit, and the one sum that
may wrap in spite of it (`Rebuild`) wraps in the model.

### SecureCrt and SecureContract

One module for seven functions, because their hazards lie between them: a buffer that
one call leaves truncated is the next one's source, and a `strtok_s` context
points into it. `CrtCall` is the client making a legal call (`Legal`: sizes
are true, source and destination are apart, `strtok_s` gets strings). From `entry` a
call runs through its checks, its walk to the end of the destination
(`WalkBlock`), its scan of the source (`ScanBlock`), its fill (`FillBlock`, `FillByte`) or
its two scans for a token (`SkipBlock`, `TokenBlock`), one vector load at a
time, and ends in `handler` if it was refused. `Leave` is the client taking the
result.

`SecureContract` is the `reference.c` of each change as one step. Its variables are those
a client sees; `CrtImplements` shows that every call of the vector code is
such a step: code, handler, memory and context (`StrNCat` differs from `reference.c` in
one case, the first of the list below). Ghosts: `was`, memory at
the call; `seen`, the cells that the last step loaded; `live` and `rest`, the
contexts the client may still use and the text each has to come.

Where comments and code of these changes disagree, the contract follows the code:

* `156-strncat-s/impl.asm:13-14`, its `reference.c:17` and `RESULTS.md:14` say that
  a count of 0 with a NULL source returns 0 without looking at the destination;
  the code (183-201) walks the destination and refuses one that is not terminated.
* In the same case `157-wcsncat-s/impl.asm` walks with a size counted in
  characters (about 155-168; it is doubled at 181 only), so it refuses a
  terminated destination that is at least half full, against its comment at
  158-163, its `reference.c:18` and its `correctness.c:85`. 157 has no module.
* `156-strncat-s` with a count of 0 and a source loads the first block of the
  source, of which `reference.c` reads nothing; the model asks of the caller
  that `src[0]` can be read.

### ExpandEnv and ExpandContract

A call (`CallExpand`) keeps the subject of the one before and takes a buffer of
another size, as a caller does that measures first; `SetVariable` is another
thread, at any moment. `FastPath` is a subject without a percent sign. In the
general path `Search` is the macro `NEXTSTOP`, with the block and its mask that the
registers still hold (`block`, `stops`); `LiteralRun`, `PercentRun` and
`CopyLiteral` are the three places that copy literals; `Lookup` is the call of
`RtlQueryEnvironmentVariable`, which writes the value into the destination itself
and may leave anything in the registers. What it writes (`Substituted`: the value
and a NUL, or one NUL if a cell is free) is taken from `RESULTS.md:167-169`
of the change.

`ExpandContract` is `reference.c`, with literals in any number at a time; the mapping
shows that every step of the code is a step of it or a stutter, so that no lookup is
made twice, skipped, or made in another environment. It also has to end.
Ghosts: `whole`, the text that the answer counts; `expected`, the last call's answer
as long as nobody has changed the environment.

`InsideSize` is what keeps a lookup inside the buffer, and it has to hold after an overflow
too: the code goes on looking names up, with the free cells of the moment of the
overflow. `RESULTS.md:122` says that a buffer that is too small holds "exactly
nSize-1 characters and NO terminator". That is so for literals; when a name
follows, each lookup writes a NUL at the cursor, or a later value that still fits,
and its NUL. `reference.c:128-130` does the same, so model and contract do too.

### NameExpr and NameContract

A query is an expression and a name (and whether `Length` is odd). `Dispatch` is the leaf
routine, `FastSuffix`, `ExactCompare` and `Anchor` the shapes that need no
search. What is left between the literal ends is matched by `Advance`, `StarRun`
and `Back`, which take back the last star only, or column by column: `ColumnStar`,
`ColumnDosStar`, and `StartShift`, `EmptyWord`, `ShiftWord` and `EndShift` for
a character that shifts the bitset `D` one word at a time. `NothingLost` states the
invariants of both: if the name matches, it still does from here or with more for the
last star; and word by word `D` becomes the positions that the reference
(`Takes`) leads to. `DecidesRight` is the verdict itself, compared with the
memoised recursion of `reference.c` (`Cuts`), and that there is one.

### MCRoutines

Block copy, expansion and name matching share no state. The run `routines` lets a
caller use one after the other, and gives at most one of them something to do, so
that each is checked on its own instances.

### MCStrings

The counted strings and the zero-terminated ones share no state, so the run
`counted_string` lets a client use the ones or the others: the composition
adds no interleaving and needs none, as a call of either kind is a leaf function.

## 3. Runs

| run | properties | expected | what it shows |
|---|---|---|---|
| `watch_safety` | `TypeOK`, `PassMeansRight`, `BaselineProved`, `QuietIsProved` | pass | One run of the watch at a time, two DLLs, hard gates: whatever servicing, kills, fixes and hand-recorded baselines happen between any two steps, a passing sweep, the baseline it records and a 'nothing to re-prove' are all backed by a sweep. |
| `watch_two_runs` | `AlertIsSticky`, `QuietIsProved` | pass | The scheduled task and a person run the script at the same time: the alert one of them raised is removed by the other only on the strength of a sweep of its own. |
| `watch_live` | `ServicedIsSettled`, `BrokenIsReported` | pass | Under the fairness of the triggers every replaced DLL is in the end accepted or reported, even after killed runs and a torn baseline file. |
| `watch_race` | `RollAcceptsOnlyProved` | violation | A DLL serviced between the sweep and the roll is hashed by the fresh -Baseline process and accepted without having been tested. |
| `watch_unrecorded` | `LateInstallCatches` | violation | Without a recorded baseline every check exits 0 and nothing ever records one, so the installed watch never sweeps. |
| `gate_crash` | `PassMeansRight` | violation | A harness that dies of its own guard-page test has a negative exit code, which 'if errorlevel 1' does not see: the sweep passes. |
| `gate_live` | `PassMeansRight` | violation | The first live-substitution script drops its harness's exit code and the harness words a failure as no rule expects: the live column passes. |
| `hotpatch` | `TypeOK`, `PassIsHonest`, `CleanWhenDone`, `NeverTorn`, `KeepsPromise` | pass | One block of a live harness over three exports, distinct or folded into one, with failing VirtualProtect calls and nested calls from Windows' own code: a PASS means what it says, the code is left as it was found, and each patch behaves as one atomic switch. |
| `routines` | `TypeOK`, `CopiesAsMemmove`, `OutsideUntouched`, `ExpandTypeOK`, `InsideSize`, `WholeOrTooLong`, `AnswerIgnoresSize`, `ExpandImplements`, `NameTypeOK`, `NothingLost`, `DecidesRight` | pass | Three routines that share no state. The copy ladder of change 296, with vectors of four bytes, for every length up to 20, every overlap, alignment and room for the NUL, is a memmove in each of its arms. Two expansions (291) of one subject into buffers of two sizes, while another thread changes the environment, are those of the reference, lookup by lookup, and stay inside nSize. The name matcher (301) gives the verdict of the reference on every short expression, in each of its shapes. |
| `counted_string` | `TypeOK`, `InBounds`, `ReadsBack`, `KeepsText`, `CrtTypeOK`, `LoadsAllowed`, `RefusedIsEmpty`, `LiveContextEnds`, `RestIntact`, `CrtImplements` | pass | Strings that live from call to call. Counted: any four calls on four buffers of even and odd sizes and a view of a literal, in words of four bits; no call writes behind a buffer, the NUL is where the length says, and whole characters behave as texts with a capacity. Zero-terminated: any two copies, appends and fills, or one of them and two tokens, or four tokens, in two buffers with two contexts; every call is one step of the scalar contract, refusals leave an empty string before the handler runs, contexts stay good, and no block is loaded from a page the scalar loops do not touch. |
| `odd_append` | `InBounds` | violation | The odd Length that change 296 leaves in a buffer of odd MaximumLength, given to change 102 as a source: its tail loop counts down in twos, passes zero and writes behind the buffer. |
| `bitmap` | `TypeOK`, `NothingMissed`, `InsideBuffer`, `OthersKept`, `KeepsContract`, `Returns` | pass | Every bitmap of up to two elements, and longer ones whose runs begin and end next to the borders of elements, words and vectors: find, find-and-clear and find-and-set answer as the search bit by bit does, whatever the hint, and change nothing else. |

Bounds. Two DLLs, two versions of each and three or four items are the smallest
instance with an item that depends on two DLLs, a DLL that nobody depends on, a
change and a live harness, and a baseline that is half right. Kills, fixes,
updates and records by hand are bounded by small counters in `spent`; every
order of them within the bound is explored. Three exports give a block a first,
a middle and a last patch; two nested calls are enough to count in one place and
crash in another; two calls of the corpus distinguish the first from the last.

Vectors of four bytes with arms of 1, 2 and 4 keep the structure of the ladder
(1 to 32 in the code): up to 17 bytes the forward loop turns up to twice, up to 20 the
backward one five times, and `rep movsb` starts at every alignment; 25 bytes of
memory put source and destination in every relative position. Words of four
bits scale 2^16: literals of 6 and 7 characters stand for 0x7FFE and 0x7FFF,
and sums reach beyond a word. Four calls suffice for the longest stories (a
literal, copied into a buffer of odd size, copied on, appended to).

Bitmaps: elements of four bits, words of eight, vectors of sixteen, blocks of 2, 4
and 8 bits, so that a witness is smaller than a byte, a byte, or a word. Short
bitmaps (up to a word) are taken with every contents; long ones have 20 bits (a vector and
an element) or 35 (two vectors and an odd element, whose last bit lies outside) and up to
two runs whose ends lie at or next to every border of an element, word and vector.

Zero-terminated strings: buffers of 7 and 5 cells, the first across a page, the
second at the end of one; vectors of 4 cells, pages of 8; sizes from 0 to the whole
buffer, counts 0, 2 and `_TRUNCATE`; three memories, with terminated and
unterminated buffers. A token costs one unit of four and another call two, so
four tokens in a row, or a copy and two tokens in any order, or two copies, are explored. That is
enough for a context to be set, its buffer truncated, emptied or cut by a second
context, and the context used again.

Expansion: a variable that is unset, empty, of two characters or a percent sign; subjects with
names side by side, empty, unset, unclosed, and names across a block of four; buffers
of 0 to 6 cells out of 8; two calls and one change of the environment, which may fall
between any two steps of either. Name matching: words of two bits, so that a name of four
characters fills two words and its end lies in a third; every expression of up to three characters
over a letter, the dot and the five wildcards on every name of up to four over the
letter and the dot; star expressions of four characters on names of four over two
letters, which is enough for a star to be given more after a jump; and
short ones on names of an odd `Length`.

Fairness of `ExpandEnv` and `NameExpr` (weak, on their own steps): a called function runs to
its end. Nothing is assumed of the other thread.

Fairness of `FindBits` (`WF_vars(Step)`): a leaf function on its own thread runs to
its end. `Returns` is not trivial: it needs that every rejected witness moves
the cursor, which is what its mutant breaks.

Fairness (`FairSpec`) of `UpdateWatch`: each run's own steps are weakly fair because PowerShell
executes the script to its end, and starting is weakly fair because the daily and
logon triggers recur for ever. Nothing is assumed of servicing, kills or people;
kills are finite in number, as the counter says: were every run killed,
nothing could be promised.

`CHECK_DEADLOCK` is never switched off: `UpdateWatch` can always start a run; a
harness that has ended, a call that has returned and a client that has made its
calls stutter (`Stopped`, `Returned`, `NoMoreCalls`, `Decided`).

Every property of a passing run has a mutant in the module it breaks: a
plausible bug of the code (a missing status in the failure list, a baseline
rolled on failure, counters not read before the corpus, ...) under which TLC
finds the property violated.

## 4. What the runs say of the code

* `gate_crash` (code bug, src/changes/295-rtlunicodestringtointeger/build.bat:16): The code tests 'if errorlevel 1', which is true for exit codes of 1 and above only; a harness ended by its own guard-page test exits with 0xC0000005, a negative number, so the bench runs, the transcript carries no failure phrase and the sweep passes. src/changes/295-rtlunicodestringtointeger/build.bat:3 says "The bench is never reached unless correctness.exe returns 0." Eleven of the build scripts (001-007, 032, 033, 294, 295) are written this way; the others use ||.
* `gate_live` (code bug, src/live-substitution/build.bat:39): live-substitution/build.bat ends in 'endlocal & exit /b 0' whatever live_subst.exe returned, and live_subst.c:399 words a failure "LIVE SUBSTITUTION: FAIL (%d checks failed)", which neither rule of revalidate.ps1:324-325 matches, so revalidate.ps1:327 says PASS. src/tools/README.md:124 says "Exit 1 on a **correctness**, **build** or **live-substitution** failure."
* `watch_race` (code bug, src/tools/on-update.ps1:67): The roll starts a fresh revalidate.ps1 -Baseline, which hashes the DLLs anew (revalidate.ps1:93-96), hours after the sweep began: a DLL serviced during or after the sweep is recorded without having been tested. src/tools/on-update.ps1:66 says "step 5: only now is it safe to accept the new binaries as the reference point".
* `watch_unrecorded` (doc code divergence, src/tools/revalidate.ps1:126): With no dll-baseline.json the comparison reports nothing and -CheckOnly exits 0 (revalidate.ps1:125-129), and on-update.ps1 records one only after a passing sweep, so an installed watch without a baseline never sweeps. src/tools/install-update-watch.ps1:12-13 says of the logon trigger "it catches updates installed while this task did not exist".
* `odd_append` (code bug, src/changes/102-rtlappendunicodestringtostring/impl.asm:46): The tail loop subtracts 2 from the count until it is exactly 0 (lines 39-47), so an odd source Length passes zero and the loop writes on behind the destination. The header says, src/changes/102-rtlappendunicodestringtostring/impl.asm:8, "else copy src->Buffer after dest->Buffer[Length], Length += src->Length", and its variant, impl_tgl.asm:42, "Lengths are BYTE counts and are always even"; but change 296 leaves an odd Length in every buffer of odd MaximumLength that it fills (296-rtlcopyunicodestring/impl.asm:20-21 states it as contract). The corpus of change 102 has even lengths only.

## 5. Proofs

Proved for all values of the constants that satisfy the assumptions of the
modules:

* `TypeCorrect` (`UpdateWatch_proofs`): The state of the watch stays well formed, for any DLLs, versions, items and number of runs.
* `PassIsSound` (`UpdateWatch_proofs`): If every gate is hard, a sweep that passes has proved every item about every DLL that stayed put under it.
* `BaselineIsProved` (`UpdateWatch_proofs`): If every gate is hard, what the baseline says is backed by a sweep, but for the entries a person, a fix or servicing under the sweep has waived.
* `NoFalseAllClear` (`UpdateWatch_proofs`): If every gate is hard, 'nothing to re-prove' is never said of a broken DLL that a sweep vouches for.
* `AlertStays` (`UpdateWatch_proofs`): If every gate is hard, the alert is removed only by a run whose own sweep proved every item about every DLL that stayed put.
* `PassOfGated` (`UpdateWatch_proofs`): A sweep that passes has proved every item with a hard gate about every DLL that stayed put under it, whatever soft gates run beside it: no assumption on the other scripts.
* `BaselineOfGated` (`UpdateWatch_proofs`): What the baseline says is proved by every item with a hard gate, but for the waived entries, with no assumption on the other scripts.
* `QuietOfGated` (`UpdateWatch_proofs`): 'Nothing to re-prove' is never said while an item with a hard gate is wrong about a DLL on disk that a sweep vouches for, with no assumption on the other scripts.
* `AlertOfGated` (`UpdateWatch_proofs`): The alert is removed only by a run whose sweep proved every item with a hard gate about what stayed put, with no assumption on the other scripts.
* `TypeCorrect` (`BlockCopy_proofs`): Index, program point and memory of the copy stay well formed for every memory size, vector width, ladder and ERMS threshold.
* `CopyIsMemmove` (`BlockCopy_proofs`): The copy ladder is a memmove followed by the NUL for every length, overlap, alignment and vector width.
* `StaysInside` (`BlockCopy_proofs`): No byte outside the destination's MaximumLength is changed at any moment of the copy.
* `HotPatchTypeOK` (`HotPatch_proofs`): The harness's state stays well formed for any number of exports, any lengths of jump and prologue and any placing of the exports.
* `DoneIsClean` (`HotPatch_proofs`): Whichever patches failed to go in, a block that ends has put back every byte, if no two exports are one.
* `NothingTorn` (`HotPatch_proofs`): With one thread and distinct exports no call of the corpus or of Windows' own code ever runs half a jump.
* `BlockKeepsPromise` (`HotPatch_proofs`): A block that patches byte by byte refines the promise that an export is switched in one step and every call runs the one it is.
* `PassHonest` (`HotPatch_proofs`): A PASS means that every export's corpus ran its own proven wrapper and that every byte is shipped code again, even if the linker put several exports at one place.
* `TypeCorrect` (`FindBits_proofs`): The state of the bit searches stays well formed, for bitmaps of any size and any widths of words, vectors and witness blocks.
* `StaysInside` (`FindBits_proofs`): No load or store of a search or an inversion leaves the elements that the caller allocated.
* `MissesNothing` (`FindBits_proofs`): Skipping vectors without a witness, and stepping over witnesses, never passes a run that could be the answer.
* `OthersAreKept` (`FindBits_proofs`): At any moment of the call only bits of the answer differ from what the call found.
* `Implements` (`FindBits_proofs`): The searches of 256 and 262, in one word or with vectors, refine the one step of the bit-by-bit contract.
* `FindEnds` (`FindBits_proofs`): Every step of a bit search lowers four numbers in the order of the dictionary: a rejected witness moves the cursor on, windows and passes are used up (what Returns rests on).
* `ExpandTypes` (`ExpandEnv_proofs`): Destination, registers and answers of the expansion stay well formed, for any subjects, values, buffers, widths of the registers and changes of the environment.
* `ExpandStaysInside` (`ExpandEnv_proofs`): Neither literals nor the lookups, which write into the buffer themselves, touch a cell from nSize on.
* `ExpandAnswers` (`ExpandEnv_proofs`): An answer up to nSize goes with the whole text and its NUL, even if the environment changed between two lookups of the call.
* `StringsTypeOK` (`CountedString_proofs`): Lengths stay 16-bit words that count no more than the buffer has, for any strings, sizes, literals and (even) width of a word, if the strings kept in whole characters have buffers of whole characters.
* `NothingBehind` (`CountedString_proofs`): However the calls are strung together, odd lengths of the other strings included, nothing behind MaximumLength is ever written.
* `BothReadingsAgree` (`CountedString_proofs`): The text up to the NUL is the text that Length counts for every string that a call has ended and that has room, through NULL copies and refused appends.
* `StringsAreTexts` (`CountedString_proofs`): Bytes, 16-bit lengths and NULs refine sequences of characters with a capacity, the returned statuses included.
* `ExpandFollowsReference` (`ExpandEnv_proofs`): The expansion block by block refines the expansion character by character of reference.c: the same lookups in the same environments, the same cells, the same answers (the safety part of ExpandImplements).
* `ExpandMeasures` (`ExpandEnv_proofs`): Measuring and then expanding gives one answer for every pair of sizes, whichever paths the two calls take, if nobody sets a variable from the first call's start to the second one's end.
* `ExpandEnds` (`ExpandEnv_proofs`): Every step of an expansion takes it nearer to its end, and no change of the environment takes it back: 8 * Len(subject) + 6 steps are enough (what the liveness in ExpandImplements rests on).
* `SecureTypeOK` (`SecureCrt_proofs`): Memory, request, contexts and the places in a call stay well formed, for any arrays, contents, page and register sizes and any order of calls.
* `SecureLoads` (`SecureCrt_proofs`): Every load is of a mapped page: the aligned blocks that run past a NUL stay in the page of a cell that the scalar loop reads, and the unaligned ones stay inside the array.
* `SecureRefused` (`SecureCrt_proofs`): When the invalid-parameter handler runs, the destination it was given is the empty string already, however far the copy had come.
* `SecureContextEnds` (`SecureCrt_proofs`): A strtok_s context that no other call has reached into always points at a string that ends inside its array, between the calls and while one runs.
* `SecureRestIntact` (`SecureCrt_proofs`): What a live context has still to come is what its last call left, whatever calls went to other strings in between.
* `SecureImplements` (`SecureCrt_proofs`): The six bounded string functions and strtok_s, block by block, refine the one-step calls of the scalar reference: same memory, same context, same answer.
* `NameTypes` (`NameExpr_proofs`): Neither the walk through the expression nor any column leaves the texts, for expressions and names of any length and any width of a word.
* `NameNothingLost` (`NameExpr_proofs`): Giving up on every star but the last, jumping to the next literal and carrying a column from word to word never lose a match.
* `NameImplements` (`NameExpr_proofs`): The shapes answered at once, the greedy matcher and the columns all give the verdict of the recursion in reference.c (the safety part of DecidesRight).
* `NameEnds` (`NameExpr_proofs`): Every step of name matching lowers four numbers in the order of the dictionary: no star is given the same part of the name twice, and every column is left for the next (what the liveness in DecidesRight rests on).

The safety theorems about `UpdateWatch` come in two layers. The first, `PassOfGated`,
`BaselineOfGated`, `QuietOfGated` and `AlertOfGated`, assumes nothing of the scripts and
speaks of the items with a hard gate (`Gated`): a change whose `build.bat` stops on any
non-zero exit code of its harness, a live script that passes its harness's exit code on.
It is the layer that applies to the repository as it stands, where eleven `build.bat` and some live
scripts are soft: a soft gate lets its own item through, and takes nothing away from
the others. The second layer assumes `HardGates`, that every item which says anything
of a DLL has a hard gate; then `GatedRight` is `RightAbout` (`AllGated`) and the properties of the
runs follow: `PassIsSound`, `BaselineIsProved`, `NoFalseAllClear`, `AlertStays`. The runs
`gate_crash` and `gate_live` show what happens without it, and where the code does not meet it.

That the baseline is vouched for (`Vouched`, which is `BaselineProved` of the gated items) is not
inductive: it says nothing of a run in the middle of a sweep. The invariant `IInv`
adds, for each run, that the gated items before `at` are right about every DLL
not moved since the sweep began unless `failed` is set, that a run past the verdict
is right about all of them, and that a snapshot taken agrees with the disk except
where DLLs have moved. The proof has one case per action (`IStep`, `IEnvironment`);
`ChangeGateHolds` and `LiveGateHolds` carry the whole of `Gate` into it: with a hard
gate no transcript of a wrong item is ever judged harmless.

In `BlockCopy_proofs` the invariant says which part of the destination has
been copied in each arm (`Copied(lo, hi)`), and that the registers hold original bytes.
`LoadsOriginal` (a load that no store has reached) and `StoreExtends` (a store
next to what was copied makes one interval) carry every arm; the forward arms
need `~Inside` for the first, the backward arm `Inside`. The only assumption about
the widths is that for every length below two vectors there is one that covers it
twice over.

In `HotPatch_proofs` the invariant `Kept` says which patches are on at each place of the
harness (`Ordered`) and, when no two exports are one, which bytes of each prologue are
jump and which are shipped code (`Patched`): between two copies every prologue is whole, and
`EntersRight` gives what a call runs. The refinement follows because a patch is on
exactly from the last byte written to the last byte put back (`SeenIs`). `PassHonest` must also hold when
exports coincide, where the corpus of one runs the wrapper of another without a
difference in its results: `Overwritten` says that the first byte of a jump to an export
is gone once a later export patched the same place, so its wrapper is never
entered, its counter is zero when it is checked (`Silent`), and a block without a
failure has distinct exports (`Counted`). Assumed are the sizes (`SizesAssumption`) and that prologues
coincide or are a whole prologue apart (`LayoutsAssumption`).

In `FindBits_proofs` the heart is the witness argument: as long as the search has not
answered, no run of `num` bits starts in the part of the pass that is behind it
(`NoneBefore`, `ScannedTo`). A vector without a witness holds no whole block,
and a run of `2b - 1` bits contains an aligned block of `b`; a witness that was measured and
found short ends its run at a bit that is not wanted, so that no run starts before the byte
after it; the window of the word scanner begins a word before the witness, and no run
that was not found already starts earlier. With the invariant of the word scanner
(`carry` is the run that ends at `base`, and no run ends before) the answer is
`Search`; the fill is an algebra of `Flipped` over adjoining and overlapping
intervals. Assumed are the sizes (`SizesAssumption`, `BlocksAssumption`: blocks divide
vectors, and divide or are divided by a byte), the types of the arguments
(`CallsAssumption`) and that positions do not wrap round (`SpanAssumption`).

In `ExpandEnv_proofs` the invariant (`Holds`) relates the destination to the ghost text:
cursor and free cells add up to the size, what is behind the size is untouched, what was
counted is the length of the text, and as long as nothing has failed to fit, the
cells before the cursor are the text. Each of the ways to write keeps it
(`EmittedHolds`, `SubstitutedHolds`, `EndedHolds`, `FastHolds`). A lookup that does not fit may be
followed by one that does: then the cells are no longer the text, but the count
already exceeds the size, which is why `WholeOrTooLong` needs `d.over => d.made >= size`.

Its second part shows the refinement: the mask kept in the registers is that of the
block they hold (`Kept`), so that the search finds what a search by characters
finds (`SearchIsStopFrom`); a percent sign and the literals behind it that are
copied in two pieces leave what they would in one (`EmittedTwice`, which rests on `FitsTwice`: the last
free cell is kept both times); the short way for a subject without percent signs is the
long one in a single step (`FastIsEnded`). Assumed of the subjects is that no character in them is
a NUL.

In `CountedString_proofs` the invariant (`Good`, for each string) says of a string kept
in whole characters that its length is even and that no character it counts is a NUL, which
is what makes the two readings agree; of a buffer, that the bytes behind
`MaximumLength` are nobody's. `StoredIs` says what a call leaves in a buffer, in particular that
the NUL stays inside when two bytes are to spare, and `GoodStored` carries every copy and append.
The refinement needs of them only that what is stored behind the characters of a text is
appended to it (`StoredText`), and, in the direction of refusals, that half of an even sum fits in half of an even
size if and only if the sum fits in the size. Besides the assumptions on the
constants (a word is an even number, and so can count a character and its NUL; literals hold no
NUL) the theorems have a hypothesis, `Whole`: the
buffers of the strings that the client keeps in whole characters are whole numbers of
characters themselves. Without it a copy may leave an odd length, which the run `odd_append`
takes to change 102; `Whole` is what a client must see to.

In `SecureCrt_proofs` the invariant `CrtInv` says, for each stage of a call, what the
blocks behind the cursor have shown: no NUL in the destination (`InWalk`), in the source
(`InScan`) or in what is filled (`InFill`), only delimiters (`InSkip`), none of them nor a NUL
(`InToken`). `Refused` lists the four ways into the handler and what memory is there;
`Leaving` says that a call changed nothing but what it was given, and that every string
it did not refuse still ends inside its array. From that `OfClient` follows for the contexts
that no call has reached into: what they have to come is untouched (`StringsKept`). An aligned block
that begins before the last cell a scalar loop reads lies in a page of such a cell
(`BlockMapped`), which is why a page is a multiple of a block and why loads past a NUL
cannot fault. In the refinement a call does nothing that its caller sees (`Served`) until it
leaves or is refused, and what it leaves is what the scalar loops leave: the place of the
NUL, of the end of the source and of the two ends of a token is one and the same,
whether it is looked for by blocks or by cells. `ArraysAssumption` is what the proofs need
of memory: arrays are disjoint, smaller than `_TRUNCATE`, which is `(size_t)-1`, and of
every page that an array reaches into all cells are mapped.

In `NameExpr_proofs` the recursion of `reference.c` is first turned into something the
provers can use: `Cuts` leads from position to position exactly where there is a path
through the name, one step (`Takes`) for each character of the expression (`Goes`,
`CutsGoes`). Paths can be cut and joined. Each shape that is answered at once has a lemma
that says which paths its expressions have (`SuffixMatches`, `ExactMatches`,
`StarMatches`, ...). Of the greedy matcher `NameInv` says (`GreedyAt`) that the
characters since the last star lead from where that star stands to where the matcher is,
that the star can stand anywhere from there on, and that a name that matches still does,
from here or with more for the last star; a path that goes through an earlier star
differently can be brought back to the last one. Of a column (`ColumnAt`) it says that
`D` is the set of positions that the expression so far leads to (`Reach`), and in the middle of a shift
(`ShiftAt`), word by word from the lowest, that the words done are those of the next column
and the others still those of the one before, with a carry between them. Each action has a
lemma that keeps it (`BackKeeps`, `ShiftWordKeeps`, ...). With `NameInv` the verdict, once
there is one, is that of the recursion.

`AnswerIgnoresSize` speaks of two calls. `Repeats` relates both to one thing into which no size enters: a
walk through the subject (`Comes`), whose every step follows from the place before it, the subject
and the environment (`After`). A call that nobody disturbs is on the walk with all
that it has counted, a walk has one end (`OneEnd`), and it is there that both calls answer.

That the calls of 256 and 262, 291 and 301 end has a safety half, which is proved:
a variant, and the theorem that every step of the call lowers it. In `ExpandEnds` it is the
number `Left`, 8 for every character of the source that is left and a rank for
the place in the loop; no step of the other thread changes it, so setting and removing
variables cannot keep a call going. In `FindEnds` and `NameEnds` it is four numbers that fall in
the order of the dictionary (`Nearer`): for the bit searches the stage, the elements ahead of the
cursor, the place in the loop and the words of a window, with the invariant `AtWitness` that a
witness is not before the byte of the cursor, so that stepping over it moves on; for the names
the stage, the characters of the expression behind the last star or the column, what that
star can still be given, and the characters of the name or words of the
column. Natural numbers, and tuples of four in that order, do not fall for ever, so
that no call takes infinitely many steps. What remains for TLC is that a call which is not
at its end can take a step, and does.

Every invariant that a run checks is stated by a theorem, and so is every action property
and the safety part of every refinement. Only model-checked is liveness: `ServicedIsSettled`,
`BrokenIsReported`, `Returns`, and that calls of 291 and 301 end (the second half of
`ExpandImplements` and of `DecidesRight`). It rests on `WF` and thereby on ENABLED,
which the provers do not handle.

## 6. Not modelled, and why

Timing, statistics and the layout of reports decide nothing. The wide
and the case-changing relatives of the secure CRT (151, 153, 155, 157, 178-181, 183, 185),
`wcstok_s` (148), the narrow counted strings and the other bitmap functions
(counts, tests, range fills) have no module; those modelled share their structure. Of change 291 the
answers above 2^32 - 1 and the case-insensitive match of names, which is the
lookup's, are left out, and so is a lookup that fails for a name that is set (the code takes
every failure but "too small" for a name that is not set); of 256 and 262 a header whose
`Buffer` is NULL is no field of its own, for a search answers it as it answers a NULL
header (`null`); of 301 the matching with upcasing, which is another export. The pure functions
(formatters, parsers, path functions, most scanners) keep no state between
calls; what they compute is compared exhaustively or by fuzzing with the shipped
code by the repository itself, and their vector code is a data transformation.
The audits and surveys are read-only. Components planned for later are marked
`not_modelled` in `PROJECT.json` with the reason.

## 7. Plan

1. `Gate`, `UpdateWatch`, its proofs (done).
2. `HotPatch` refining `Substitution`, and its proofs (done).
3. `BlockCopy` and its proofs, `CountedString` refining `CountedText`, and its proofs (done).
4. `Bitmap`, `FindBits` refining `BitmapContract`, and its proofs (done); `SecureCrt`
   with `strtok_s`, refining `SecureContract` (done).
5. `ExpandEnv` refining `ExpandContract`, and its proofs, `NameExpr` refining `NameContract` (done).
6. The proofs about `SecureCrt`, `NameExpr` and `AnswerIgnoresSize` (done): no safety property of a
   run is without a theorem. The variants of the searches, the expansion and the names (done).
7. Next: the narrow counted strings; the variant sweep; the range fills of bitmaps.
