----------------------------- MODULE MCRoutines -----------------------------
(***************************************************************************)
(* Three routines that share no state: a caller asks for a verdict on a    *)
(* name, then for a copy of a block, and then has strings expanded.  It    *)
(* gives at most one of them something to do.                              *)
(***************************************************************************)
EXTENDS MCBlockCopy, MCExpandEnv, MCNameExpr

NoQuery   == query = [expr |-> <<>>, name |-> <<>>, odd |-> FALSE]
NoCopy    == n = 0 /\ room = 0 /\ src = 0 /\ dst = 0
NoSubject == subject = <<>> /\ align = 0 /\ env = [x \in {} |-> <<>>]

MCInit ==
  /\ (NoCopy /\ NoSubject) \/ (NoQuery /\ NoSubject) \/ (NoQuery /\ NoCopy)
  /\ CopyInit /\ ExpandInit /\ NameInit

NamesDone == place = "done"
CopyDone  == pc = "done" /\ NoQuery /\ NoCopy
MCNext ==
  \/ NameNext /\ UNCHANGED <<vars, expandVars>>
  \/ NamesDone /\ Next /\ UNCHANGED <<expandVars, nameVars>>
  \/ NamesDone /\ CopyDone /\ ExpandNext /\ UNCHANGED <<vars, nameVars>>

MCSpec ==
  /\ MCInit /\ [][MCNext]_<<vars, expandVars, nameVars>>
  /\ WF_nameVars(NameStep /\ UNCHANGED <<vars, expandVars>>)
  /\ WF_expandVars(NamesDone /\ CopyDone /\ ExpandStep /\ UNCHANGED <<vars, nameVars>>)
=============================================================================
