----------------------------- MODULE SecureCrt -----------------------------
(***************************************************************************)
(* The bounded string functions of ucrtbase (changes 150, 152, 154, 156,   *)
(* 182 and 184) and strtok_s (change 147), block by block, for a client    *)
(* that makes one call after another on the same buffers and keeps         *)
(* several strtok_s contexts into them.                                    *)
(***************************************************************************)
EXTENDS CString, FiniteSets

CONSTANTS
  Requests,    \* the calls that are made
  Contexts,    \* the client's context pointers
  Arrays,      \* its buffers: where they begin, and how many cells they have
  Memories,    \* what memory may hold to begin with
  Block,       \* cells in a vector register: 32
  Page,        \* cells in a page: 4096
  Truncate,    \* (size_t)-1
  Idle,        \* no call, no answer
  MaxAsked     \* bound on the calls; a token counts half

Pointers == Nat \union {Null}
ASSUME CrtAssumption ==
  /\ Block \in Nat \ {0} /\ Page \in Nat \ {0} /\ Page % Block = 0
  /\ Arrays \subseteq [base : Nat, room : Nat] /\ MaxAsked \in Nat
  /\ Requests \subseteq [op : {"strcpy_s", "strcat_s", "strncpy_s", "strncat_s",
                               "_strset_s", "_strnset_s", "strtok_s"},
                         dst : Pointers, size : Nat, src : Pointers, count : 0..Truncate,
                         fill : Nat, ctx : Contexts, delim : SUBSET (Nat \ {Nul})]
  /\ Idle \notin Requests

(* No two arrays share a cell, none is as large as (size_t)-1, and of a    *)
(* page that an array reaches into all cells are mapped.                   *)
PageOf(a) == (a - (a % Page))..(a - (a % Page) + Page - 1)
ASSUME ArraysAssumption ==
  /\ Truncate \in Nat /\ \A r \in Arrays : r.room < Truncate
  /\ \A r, s \in Arrays : r # s => r.base + r.room <= s.base \/ s.base + s.room <= r.base
  /\ \A m \in Memories :
       /\ m \in [DOMAIN m -> Nat] /\ DOMAIN m \subseteq Nat
       /\ \A r \in Arrays : \A a \in r.base..(r.base + r.room - 1) : PageOf(a) \subseteq DOMAIN m

Copies  == {"strcpy_s", "strcat_s", "strncpy_s", "strncat_s"}
Appends == {"strcat_s", "strncat_s"}
Counts  == {"strncpy_s", "strncat_s"}
Fills   == {"_strset_s", "_strnset_s"}

VARIABLES
  mem,         \* address -> cell
  ctx,         \* context -> where strtok_s goes on
  live, rest,  \* the contexts the client may use; ghost: what each has to come
  req, was,    \* the call in progress; ghost: memory when it began
  stage,
  at, found,   \* the next load; what the scan before this one has found
  reply,       \* what the last call returned; was the handler invoked
  seen,        \* ghost: the cells that the last step loaded
  asked

client  == <<live, rest, asked>>
crtVars == <<mem, ctx, client, req, was, stage, at, found, reply, seen>>

CrtInit ==
  /\ mem \in Memories /\ was = mem
  /\ ctx = [c \in Contexts |-> Null] /\ live = {} /\ rest = [c \in Contexts |-> <<>>]
  /\ req = Idle /\ stage = "idle" /\ at = 0 /\ found = 0 /\ reply = Idle /\ seen = {} /\ asked = 0

Aligned(a)  == a - (a % Block)
BlockAt(a)  == a..(a + Block - 1)
-----------------------------------------------------------------------------
(* The client.                                                             *)

EndOf(a) == LET r == CHOOSE r \in Arrays : a \in r.base..(r.base + r.room - 1)
            IN  r.base + r.room
InArray(a, n) == \E r \in Arrays : r.base <= a /\ a + n <= r.base + r.room

(* The cells of the string at a, with its NUL, as far as its array goes.   *)
StringAt(m, a) == {x \in a..(EndOf(a) - 1) : \A y \in a..(x - 1) : m[y] # Nul}
Ends(m, a)     == \E x \in a..(EndOf(a) - 1) : m[x] = Nul
TextAt(m, a)   == [k \in 1..(Cardinality(StringAt(m, a)) - 1) |-> m[a + k - 1]]

(* The arrays hold what the caller says they hold, source and destination  *)
(* are apart, and strtok_s is given strings.                               *)
Declared(q) == IF q.dst = Null THEN {} ELSE q.dst..(q.dst + q.size - 1)
Bound(q) == IF q.op \in Counts THEN Lesser(q.count, q.size) ELSE q.size
Legal(q) ==
  IF q.op = "strtok_s"
  THEN IF q.dst = Null THEN q.ctx \in live ELSE InArray(q.dst, 1) /\ Ends(mem, q.dst)
  ELSE /\ q.dst # Null => InArray(q.dst, q.size)
       /\ q.op \in Fills => q.dst # Null \/ q.size = 0
       /\ q.src # Null =>
            /\ InArray(q.src, 1) /\ StringAt(mem, q.src) \intersect Declared(q) = {}
            /\ Ends(mem, q.src) \/ EndOf(q.src) - q.src >= Bound(q)

CrtCall ==
  /\ stage = "idle" /\ was' = mem
  /\ req' \in {q \in Requests : Legal(q)}
  /\ asked' = asked + (IF req'.op = "strtok_s" THEN 1 ELSE 2) /\ asked' <= MaxAsked
  /\ reply' = Idle /\ stage' = "entry" /\ at' = 0 /\ found' = 0 /\ seen' = {}
  /\ UNCHANGED <<mem, ctx, live, rest>>

(* The cells that the callee may change: the buffer it is told of, or the  *)
(* string that a token is cut from.                                        *)
Given == IF req.op = "strtok_s" THEN {x \in StringAt(was, found) : was[x] # Nul} ELSE Declared(req)

(* The context that the call has set.                                      *)
Own == IF stage = "leave" /\ req.op = "strtok_s" THEN {req.ctx} ELSE {}

(* The result is taken.  After a refusal the client gives up its contexts  *)
(* into the buffer; those into a buffer that was changed are still good.   *)
Leave ==
  LET changed == Own \union {c \in live : StringAt(was, ctx[c]) \intersect Given # {}}
  IN  /\ stage = "leave" /\ stage' = "idle" /\ req' = Idle
      /\ live' = IF reply.told THEN live \ changed ELSE live \union Own
      /\ rest' = [c \in Contexts |-> IF c \notin live' THEN <<>>
                                     ELSE IF c \in changed THEN TextAt(mem, ctx[c]) ELSE rest[c]]
      /\ was' = mem /\ at' = 0 /\ found' = 0 /\ seen' = {}
      /\ UNCHANGED <<mem, ctx, reply, asked>>

(* Once its calls are made, the client stops.                              *)
ClientDone == stage = "idle" /\ asked >= MaxAsked - 1 /\ UNCHANGED crtVars

Answer(code, m) ==
  reply' = [code |-> code, told |-> FALSE] /\ mem' = m /\ stage' = "leave"

(* Mutant of Complain: the handler is invoked before the string is emptied.*)
ComplainEarly(code, m) ==
  reply' = [code |-> code, told |-> TRUE] /\ UNCHANGED mem /\ stage' = "handler"

(* The handler is the client's own: it can look at what it is left with.   *)
Complain(code, m) ==
  reply' = [code |-> code, told |-> TRUE] /\ mem' = m /\ stage' = "handler"

HandlerReturns ==
  /\ stage = "handler" /\ stage' = "leave"
  /\ UNCHANGED <<mem, ctx, client, req, was, at, found, reply, seen>>

input == <<ctx, client, req, was>>
scan  == <<at, found>>
-----------------------------------------------------------------------------
(* The arguments are checked, in the order of each function.               *)

Entry(ops) == stage = "entry" /\ req.op \in ops

NoTarget  == req.dst = Null \/ req.size = 0
NoRequest == req.op \in Counts /\ req.count = 0 /\ req.dst = Null /\ req.size = 0
NoCount   == req.op \in Counts /\ req.count = 0
Emptied   == Poke(mem, req.dst, Nul)

AskNothing ==
  /\ Entry(Copies) /\ NoRequest /\ Answer(0, mem)
  /\ UNCHANGED <<input, scan, seen>>

RefuseTarget ==
  /\ Entry(Copies \union Fills) /\ NoTarget /\ ~NoRequest /\ Complain(EINVAL, mem)
  /\ UNCHANGED <<input, scan, seen>>

(* strcat_s checks its source before it looks at the destination.          *)
RefuseSource ==
  /\ Entry(Copies) /\ ~NoTarget /\ req.src = Null /\ ~NoCount
  /\ Complain(EINVAL, Emptied)
  /\ UNCHANGED <<input, scan, seen>>

(* strncpy_s: no count, before the source is looked at.                    *)
CopyNothing ==
  /\ Entry({"strncpy_s"}) /\ ~NoTarget /\ NoCount /\ Answer(0, Emptied)
  /\ UNCHANGED <<input, scan, seen>>

Sourced == ~NoTarget /\ req.src # Null

(* The source is scanned, for what goes to offset len of the destination.  *)
ScanSource(len) == stage' = "scan" /\ found' = len /\ at' = Aligned(req.src)

StartCopy ==
  /\ Entry({"strcpy_s", "strncpy_s"}) /\ Sourced /\ ~NoCount
  /\ ScanSource(0)
  /\ UNCHANGED <<mem, input, reply, seen>>

(* One byte is looked at first: nothing is walked in an empty destination. *)
AppendToEmpty ==
  /\ Entry(Appends) /\ Sourced /\ mem[req.dst] = Nul
  /\ ScanSource(0) /\ seen' = {req.dst}
  /\ UNCHANGED <<mem, input, reply>>

KeepEmpty ==
  /\ Entry({"strncat_s"}) /\ ~NoTarget /\ NoCount /\ req.src = Null /\ mem[req.dst] = Nul
  /\ Answer(0, mem) /\ seen' = {req.dst}
  /\ UNCHANGED <<input, scan>>

(* strcat_s loads the first block of its source along with the destination.*)
StartWalk ==
  /\ Entry(Appends) /\ ~NoTarget /\ (Sourced \/ NoCount) /\ mem[req.dst] # Nul
  /\ stage' = "walk" /\ at' = Aligned(req.dst) /\ found' = 0
  /\ seen' = {req.dst} \union IF req.op = "strcat_s" THEN BlockAt(Aligned(req.src)) ELSE {}
  /\ UNCHANGED <<mem, input, reply>>
-----------------------------------------------------------------------------
(* Bounded scans, in aligned blocks: bytes before the string are shifted   *)
(* out, a NUL at or behind the bound does not count, and no block is       *)
(* loaded that begins behind the bound.                                    *)
Hits(a)    == {x \in BlockAt(at) : x >= a /\ mem[x] = Nul}
First(a)   == LeastOf(Hits(a)) - a
Covered(a) == at + Block - a

GoOn == at' = at + Block /\ UNCHANGED <<mem, found, reply, stage>>

(* WALKD.                                                                  *)
WalkBlock ==
  /\ stage = "walk" /\ seen' = BlockAt(at)
  /\ \/ /\ Hits(req.dst) = {} /\ Covered(req.dst) < req.size /\ GoOn
     \/ /\ Hits(req.dst) = {} /\ Covered(req.dst) >= req.size
        /\ Complain(EINVAL, Emptied) /\ UNCHANGED scan
     \/ /\ Hits(req.dst) # {} /\ First(req.dst) >= req.size
        /\ Complain(EINVAL, Emptied) /\ UNCHANGED scan
     \/ /\ Hits(req.dst) # {} /\ First(req.dst) < req.size /\ req.src # Null
        /\ ScanSource(First(req.dst)) /\ UNCHANGED <<mem, reply>>
     \/ /\ Hits(req.dst) # {} /\ First(req.dst) < req.size /\ req.src = Null
        /\ Answer(0, mem) /\ UNCHANGED scan
  /\ UNCHANGED input

Room  == req.size - found
Limit == IF req.op \in Counts /\ req.count < Room THEN req.count ELSE Room

(* n characters and a NUL.                                                 *)
Fits(n) == LET to == req.dst + found
           IN  Answer(0, Poke(Moved(mem, to, req.src, n), to + n, Nul))

(* As many as there is room for.                                           *)
Whole == Moved(mem, req.dst + found, req.src, Room)

(* Mutant of Truncated: the NUL goes where ERANGE puts it.                 *)
TruncatedToEmpty == Answer(STRUNCATE, Poke(Whole, req.dst, Nul))

Truncated == Answer(STRUNCATE, Poke(Whole, req.dst + req.size - 1, Nul))

(* Mutant of TooLong: what does not fit is copied with one cell more.      *)
TooLongByOne == Complain(ERANGE, Poke(Moved(mem, req.dst + found, req.src, Room + 1), req.dst, Nul))

TooLong == Complain(ERANGE, Poke(Whole, req.dst, Nul))

(* No NUL below the limit: a count that is below the room fits all the same.*)
NoEnd ==
  \/ Limit < Room /\ Fits(Limit)
  \/ Limit = Room /\ req.op \in Counts /\ req.count = Truncate /\ Truncated
  \/ Limit = Room /\ ~(req.op \in Counts /\ req.count = Truncate) /\ TooLong

(* Mutant of ScanBlock: the next block is loaded before the bound is       *)
(* compared.                                                               *)
ScanBlockAhead ==
  /\ stage = "scan" /\ seen' = BlockAt(at) \union BlockAt(at + Block)
  /\ \/ Hits(req.src) = {} /\ Covered(req.src) < Limit /\ GoOn
     \/ Hits(req.src) = {} /\ Covered(req.src) >= Limit /\ NoEnd /\ UNCHANGED scan
     \/ Hits(req.src) # {} /\ First(req.src) >= Limit /\ NoEnd /\ UNCHANGED scan
     \/ Hits(req.src) # {} /\ First(req.src) < Limit /\ Fits(First(req.src)) /\ UNCHANGED scan
  /\ UNCHANGED input

(* SCAN, and the copy behind it.                                           *)
ScanBlock ==
  /\ stage = "scan" /\ seen' = BlockAt(at)
  /\ \/ Hits(req.src) = {} /\ Covered(req.src) < Limit /\ GoOn
     \/ Hits(req.src) = {} /\ Covered(req.src) >= Limit /\ NoEnd /\ UNCHANGED scan
     \/ Hits(req.src) # {} /\ First(req.src) >= Limit /\ NoEnd /\ UNCHANGED scan
     \/ Hits(req.src) # {} /\ First(req.src) < Limit /\ Fits(First(req.src)) /\ UNCHANGED scan
  /\ UNCHANGED input
-----------------------------------------------------------------------------
(* The fills: where a block would reach behind the buffer or into another  *)
(* page, single bytes are looked at.                                       *)

StartFill ==
  /\ Entry(Fills) /\ ~NoTarget
  /\ stage' = "fill" /\ at' = req.dst
  /\ UNCHANGED <<mem, input, found, reply, seen>>

Left      == req.dst + req.size - at
WholeBlock == Left >= Block /\ at % Page <= Page - Block

(* The fill itself is clipped by the count, the scan before it is not.     *)
FillCells(n) ==
  Filled(mem, req.dst, IF req.op = "_strnset_s" THEN Lesser(n, req.count) ELSE n, req.fill)

Filling(n) == Answer(0, FillCells(n)) /\ UNCHANGED scan

FillBlock ==
  /\ stage = "fill" /\ WholeBlock /\ seen' = BlockAt(at)
  /\ IF Hits(at) = {} THEN GoOn ELSE Filling(LeastOf(Hits(at)) - req.dst)
  /\ UNCHANGED input

FillByte ==
  /\ stage = "fill" /\ ~WholeBlock /\ Left > 0 /\ seen' = {at}
  /\ IF mem[at] = Nul THEN Filling(at - req.dst)
     ELSE at' = at + 1 /\ UNCHANGED <<mem, found, reply, stage>>
  /\ UNCHANGED input

(* No terminator: all cells but the last are filled before the string is   *)
(* emptied.                                                                *)
FillUnended ==
  /\ stage = "fill" /\ Left = 0
  /\ Complain(EINVAL, Poke(FillCells(req.size - 1), req.dst, Nul))
  /\ UNCHANGED <<input, scan, seen>>
-----------------------------------------------------------------------------
(* strtok_s.                                                               *)

StartToken ==
  /\ Entry({"strtok_s"})
  /\ found' = IF req.dst = Null THEN ctx[req.ctx] ELSE req.dst
  /\ at' = Aligned(found') /\ stage' = "skip"
  /\ UNCHANGED <<mem, input, reply, seen>>

(* The context moves on, and the token is returned.                        *)
Token(t, next, m) == ctx' = [ctx EXCEPT ![req.ctx] = next] /\ Answer(t, m)

(* Mutant of SkipBlock: when there is no token left, the context is reset.  *)
SkipBlockForgets ==
  LET others == {x \in BlockAt(at) : x >= found /\ mem[x] \notin req.delim}
      x == LeastOf(others)
  IN  /\ stage = "skip" /\ seen' = BlockAt(at)
      /\ \/ others = {} /\ GoOn /\ UNCHANGED ctx
         \/ others # {} /\ mem[x] = Nul /\ Token(Null, Null, mem) /\ UNCHANGED scan
         \/ /\ others # {} /\ mem[x] # Nul
            /\ found' = x /\ at' = Aligned(x) /\ stage' = "token" /\ UNCHANGED <<mem, reply, ctx>>
      /\ UNCHANGED <<client, req, was>>

(* The set of delimiters has no NUL: the end of the string ends this scan. *)
SkipBlock ==
  LET others == {x \in BlockAt(at) : x >= found /\ mem[x] \notin req.delim}
      x == LeastOf(others)
  IN  /\ stage = "skip" /\ seen' = BlockAt(at)
      /\ \/ others = {} /\ GoOn /\ UNCHANGED ctx
         \/ others # {} /\ mem[x] = Nul /\ Token(Null, x, mem) /\ UNCHANGED scan
         \/ /\ others # {} /\ mem[x] # Nul
            /\ found' = x /\ at' = Aligned(x) /\ stage' = "token" /\ UNCHANGED <<mem, reply, ctx>>
      /\ UNCHANGED <<client, req, was>>

(* Mutant of TokenBlock: the end of the string is a delimiter like others. *)
TokenBlockPastEnd ==
  LET ends == {x \in BlockAt(at) : x >= found /\ mem[x] \in req.delim \union {Nul}}
      x == LeastOf(ends)
  IN  /\ stage = "token" /\ seen' = BlockAt(at)
      /\ \/ ends = {} /\ GoOn /\ UNCHANGED ctx
         \/ ends # {} /\ Token(found, x + 1, Poke(mem, x, Nul)) /\ UNCHANGED scan
      /\ UNCHANGED <<client, req, was>>

(* The token ends at a delimiter, which is overwritten, or with the string.*)
TokenBlock ==
  LET ends == {x \in BlockAt(at) : x >= found /\ mem[x] \in req.delim \union {Nul}}
      x == LeastOf(ends)
  IN  /\ stage = "token" /\ seen' = BlockAt(at)
      /\ \/ ends = {} /\ GoOn /\ UNCHANGED ctx
         \/ ends # {} /\ mem[x] = Nul /\ Token(found, x, mem) /\ UNCHANGED scan
         \/ ends # {} /\ mem[x] # Nul /\ Token(found, x + 1, Poke(mem, x, Nul)) /\ UNCHANGED scan
      /\ UNCHANGED <<client, req, was>>

Checks  == AskNothing \/ RefuseTarget \/ RefuseSource \/ CopyNothing \/ KeepEmpty
Copying == StartCopy \/ AppendToEmpty \/ StartWalk \/ WalkBlock \/ ScanBlock
Filler  == StartFill \/ FillBlock \/ FillByte \/ FillUnended
Tokens  == StartToken \/ SkipBlock \/ TokenBlock
CrtNext == CrtCall \/ Checks \/ Copying \/ Filler \/ Tokens \/ HandlerReturns \/ Leave \/ ClientDone

CrtSpec == CrtInit /\ [][CrtNext]_crtVars
-----------------------------------------------------------------------------
(* A context that strtok_s has set points into memory, after the last      *)
(* token, too.                                                             *)
CrtTypeOK ==
  /\ mem \in [DOMAIN was -> Nat] /\ was \in [DOMAIN was -> Nat]
  /\ ctx \in [Contexts -> Pointers] /\ live \subseteq Contexts
  /\ \A c \in live \union Own : ctx[c] \in DOMAIN mem
  /\ req = Idle \/ req \in Requests
  /\ stage \in {"idle", "entry", "walk", "scan", "fill", "skip", "token", "handler", "leave"}
  /\ reply \in {Idle} \union [code : Pointers, told : BOOLEAN]
  /\ at \in Nat /\ found \in Nat /\ seen \subseteq DOMAIN was /\ asked \in 0..MaxAsked

(* Every vector load stays in pages with a cell that the scalar loops read,*)
(* or that is the first of an argument: it cannot fault where they do not. *)
Target == {x \in Declared(req) : \A y \in req.dst..(x - 1) : was[y] # Nul}
Source == {x \in StringAt(was, req.src) : x = req.src \/ x < req.src + Bound(req)}
Reads  == IF req.op = "strtok_s" THEN StringAt(was, found)
          ELSE IF req.op \in Copies /\ req.src # Null THEN Target \union Source
          ELSE Target
LoadsAllowed ==
  stage \notin {"idle", "entry"} => \A x \in seen : \E y \in Reads : y \div Page = x \div Page

(* When the handler runs, what was refused is an empty string already,     *)
(* whatever had been copied or filled before.                              *)
RefusedIsEmpty ==
  stage = "handler" /\ req.dst # Null /\ req.size > 0 => mem[req.dst] = Nul

(* A context into a buffer survives every later call that succeeds or      *)
(* truncates: there is a NUL at or behind it before the buffer ends, and   *)
(* the next call stops there.                                              *)
LiveContextEnds == stage = "idle" => \A c \in live : Ends(mem, ctx[c])

(* What a context has to come is left alone by every call that was not     *)
(* given that part of the buffer: the tokens of a token, a token rewritten *)
(* in place, even if it is refused.                                        *)
RestIntact == stage = "idle" => \A c \in live : rest[c] = TextAt(mem, ctx[c])

(* Block by block, every call is one step of the contract: what it leaves  *)
(* in memory, where the context points, what it returns and whether the    *)
(* handler was told.                                                       *)
Returned == stage \in {"idle", "leave"}
Scalar == INSTANCE SecureContract WITH
  mem   <- IF Returned THEN mem ELSE was,
  req   <- IF Returned THEN Idle ELSE req,
  reply <- IF Returned THEN reply ELSE Idle
CrtImplements == Scalar!Spec
=============================================================================
