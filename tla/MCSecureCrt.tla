---------------------------- MODULE MCSecureCrt ----------------------------
EXTENDS SecureCrt, Sequences

CONSTANTS ctx1, ctx2

(* 5..11 goes across a page, 19..23 ends with one.                         *)
T == 5
S == 19
MCArrays == {[base |-> T, room |-> 7], [base |-> S, room |-> 5]}
MCTexts == {<< <<1,3,2,1,0,1,0>>, <<2,3,2,0,2>> >>, << <<3,3,1,2,3,3,0>>, <<2,2,2,2,0>> >>,
            << <<1,2,1,2,1,2,1>>, <<1,2,2,2,2>> >>}
MCMemories ==
  {[x \in 0..27 |-> IF x \in T..(T + 6) THEN p[1][x - T + 1]
                    ELSE IF x \in S..(S + 4) THEN p[2][x - S + 1]
                    ELSE IF x < S THEN 0 ELSE 1] : p \in MCTexts}

Make(op, dst, size, src, count, fill, c, delim) ==
  [op |-> op, dst |-> dst, size |-> size, src |-> src, count |-> count, fill |-> fill,
   ctx |-> c, delim |-> delim]

Targets == {<<Null, 3>>, <<T, 0>>, <<T, 3>>, <<T, 7>>, <<T + 2, 2>>, <<S, 5>>}
Sources == {Null, T, S}
MCRequests ==
  {Make(op, t[1], t[2], s, 0, 0, ctx1, {}) : op \in {"strcpy_s", "strcat_s"}, t \in Targets, s \in Sources}
  \union {Make(op, t[1], t[2], s, n, 0, ctx1, {}) :
            op \in Counts, t \in Targets, s \in Sources, n \in {0, 2, Truncate}}
  \union {Make(op, Null, 0, s, 0, 0, ctx1, {}) : op \in Counts, s \in {Null, S}}
  \union {Make("_strset_s", t[1], t[2], Null, 0, 2, ctx1, {}) : t \in Targets \ {<<Null, 3>>}}
  \union {Make("_strnset_s", t[1], t[2], Null, n, 3, ctx1, {}) : t \in Targets \ {<<Null, 3>>}, n \in {0, 2}}
  \union {Make("strtok_s", a, 0, Null, 0, 0, c, d) :
            a \in {Null, T, T + 2, S}, c \in {ctx1, ctx2}, d \in {{}, {3}, {2, 3}}}
=============================================================================
