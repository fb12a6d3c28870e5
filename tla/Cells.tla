------------------------------- MODULE Cells --------------------------------
(***************************************************************************)
(* What a contract author expects of StorageType cells under cross         *)
(* contract calls: one memory, written in place, and calls that nest like  *)
(* transactions: a call that returns keeps what it wrote, a call that      *)
(* panics leaves the memory as it was when the call began.                 *)
(***************************************************************************)
EXTENDS Naturals, Sequences

CONSTANTS Key, Value

VARIABLES
  mem,      \* the value of every cell
  began,    \* for every running call, outermost first: the memory it found
  seen      \* the last operation and what it answered

vars == <<mem, began, seen>>

Told(op, v) == [op |-> op, val |-> v]

Nothing == [op |-> "none"]

Init ==
  /\ mem \in [Key -> Value]
  /\ began = <<>>
  /\ seen = Nothing

Begin ==
  /\ began' = Append(began, mem)
  /\ seen' = Nothing
  /\ UNCHANGED mem

Refuse ==
  /\ seen' = Nothing
  /\ UNCHANGED <<mem, began>>

Write(k, v) ==
  /\ began # <<>>
  /\ mem' = [mem EXCEPT ![k] = v]
  /\ seen' = Told("write", v)
  /\ UNCHANGED began

Read(k) ==
  /\ began # <<>>
  /\ seen' = Told("read", mem[k])
  /\ UNCHANGED <<mem, began>>

\* The call answers the value of one of the cells.
Commit(k) ==
  /\ began # <<>>
  /\ began' = SubSeq(began, 1, Len(began) - 1)
  /\ seen' = Told("return", mem[k])
  /\ UNCHANGED mem

Abort ==
  /\ began # <<>>
  /\ mem' = began[Len(began)]
  /\ began' = SubSeq(began, 1, Len(began) - 1)
  /\ seen' = Nothing

Next ==
  \/ Begin \/ Refuse \/ Abort
  \/ \E k \in Key : Read(k) \/ Commit(k) \/ \E v \in Value : Write(k, v)

Spec == Init /\ [][Next]_vars
=============================================================================
