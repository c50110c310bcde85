--------------------------- MODULE SecureContract ---------------------------
(***************************************************************************)
(* What a caller of the bounded string functions and of strtok_s counts    *)
(* on: each call is one step, with the outcome that the scalar loops of    *)
(* reference.c compute, cell by cell; but for one case of strncat_s, where *)
(* reference.c was not corrected with the code (StrNCat).                  *)
(***************************************************************************)
EXTENDS CString

CONSTANTS
  Requests,    \* the calls that are made
  Truncate,    \* (size_t)-1
  Idle         \* no call, no answer

VARIABLES
  mem,         \* address -> cell
  ctx,         \* context -> where strtok_s goes on
  req,         \* the call in progress
  reply        \* what the last one returned; was the handler invoked

vars == <<mem, ctx, req, reply>>

Init == req = Idle /\ reply = Idle

Ask == /\ req = Idle /\ req' # Idle /\ req' \in Requests
       /\ reply' = Idle /\ UNCHANGED <<mem, ctx>>

Answer(code, told, m) ==
  reply' = [code |-> code, told |-> told] /\ mem' = m /\ req' = Idle

NoTarget == req.dst = Null \/ req.size = 0
Emptied  == Poke(mem, req.dst, Nul)

(* At most count characters of src go to dst + len, where that leaves room *)
(* for them and for the NUL; otherwise what fits is written all the same.  *)
Append(len, count) ==
  LET room  == req.size - len
      limit == Lesser(count, room)
      n     == Within(mem, req.src, limit)
      whole == Moved(mem, req.dst + len, req.src, room)
  IN  \/ n < room /\ Answer(0, FALSE, Poke(Moved(mem, req.dst + len, req.src, n), req.dst + len + n, Nul))
      \/ /\ n = room /\ count = Truncate
         /\ Answer(STRUNCATE, FALSE, Poke(whole, req.dst + req.size - 1, Nul))
      \/ n = room /\ count # Truncate /\ Answer(ERANGE, TRUE, Poke(whole, req.dst, Nul))

(* More than any size, and not _TRUNCATE.                                  *)
Unbounded == Truncate - 1

StrCpy ==
  /\ req.op = "strcpy_s"
  /\ \/ NoTarget /\ Answer(EINVAL, TRUE, mem)
     \/ ~NoTarget /\ req.src = Null /\ Answer(EINVAL, TRUE, Emptied)
     \/ ~NoTarget /\ req.src # Null /\ Append(0, Unbounded)

StrCat ==
  LET len == Within(mem, req.dst, req.size)
  IN  /\ req.op = "strcat_s"
      /\ \/ NoTarget /\ Answer(EINVAL, TRUE, mem)
         \/ ~NoTarget /\ (len = req.size \/ req.src = Null) /\ Answer(EINVAL, TRUE, Emptied)
         \/ ~NoTarget /\ len < req.size /\ req.src # Null /\ Append(len, Unbounded)

NoRequest == req.count = 0 /\ req.dst = Null /\ req.size = 0

StrNCpy ==
  /\ req.op = "strncpy_s"
  /\ \/ NoRequest /\ Answer(0, FALSE, mem)
     \/ ~NoRequest /\ NoTarget /\ Answer(EINVAL, TRUE, mem)
     \/ ~NoTarget /\ req.count = 0 /\ Answer(0, FALSE, Emptied)
     \/ ~NoTarget /\ req.count > 0 /\ req.src = Null /\ Answer(EINVAL, TRUE, Emptied)
     \/ ~NoTarget /\ req.count > 0 /\ req.src # Null /\ Append(0, req.count)

(* With a count of 0 a NULL source is nothing to append, but dst has to be *)
(* a string all the same: so impl.asm and the correction in RESULTS.md,    *)
(* where reference.c still returns 0 without looking at dst.               *)
StrNCat ==
  LET len == Within(mem, req.dst, req.size)
  IN  /\ req.op = "strncat_s"
      /\ \/ NoRequest /\ Answer(0, FALSE, mem)
         \/ ~NoRequest /\ NoTarget /\ Answer(EINVAL, TRUE, mem)
         \/ /\ ~NoTarget /\ (len = req.size \/ (req.src = Null /\ req.count > 0))
            /\ Answer(EINVAL, TRUE, Emptied)
         \/ ~NoTarget /\ len < req.size /\ req.src = Null /\ req.count = 0 /\ Answer(0, FALSE, mem)
         \/ ~NoTarget /\ len < req.size /\ req.src # Null /\ Append(len, req.count)

(* A string that is not terminated is filled, but for its last cell, and   *)
(* then emptied.                                                           *)
Fill(count) ==
  LET len == Within(mem, req.dst, req.size)
      of(n) == Filled(mem, req.dst, Lesser(n, count), req.fill)
  IN  \/ req.size = 0 /\ Answer(EINVAL, TRUE, mem)
      \/ req.size > 0 /\ len < req.size /\ Answer(0, FALSE, of(len))
      \/ /\ req.size > 0 /\ len = req.size
         /\ Answer(EINVAL, TRUE, Poke(of(req.size - 1), req.dst, Nul))

StrSet  == req.op = "_strset_s" /\ Fill(Truncate)
StrNSet == req.op = "_strnset_s" /\ Fill(req.count)

(* Leading delimiters are passed over and left as they are; the one behind *)
(* the token is overwritten, and the context points behind it.             *)
StrTok ==
  LET from  == IF req.dst = Null THEN ctx[req.ctx] ELSE req.dst
      end   == LeastOf({x \in DOMAIN mem : x >= from /\ mem[x] = Nul})
      first == LeastOf({x \in from..end : mem[x] \notin req.delim})
      last  == LeastOf({x \in first..end : mem[x] \in req.delim \union {Nul}})
  IN  /\ req.op = "strtok_s"
      /\ \/ /\ first = end
            /\ ctx' = [ctx EXCEPT ![req.ctx] = end] /\ Answer(Null, FALSE, mem)
         \/ /\ first < end /\ last = end
            /\ ctx' = [ctx EXCEPT ![req.ctx] = end] /\ Answer(first, FALSE, mem)
         \/ /\ last < end
            /\ ctx' = [ctx EXCEPT ![req.ctx] = last + 1]
            /\ Answer(first, FALSE, Poke(mem, last, Nul))

Copying == StrCpy \/ StrCat \/ StrNCpy \/ StrNCat \/ StrSet \/ StrNSet
Serve == req # Idle /\ (StrTok \/ (Copying /\ UNCHANGED ctx))

Spec == Init /\ [][Ask \/ Serve]_vars
=============================================================================
