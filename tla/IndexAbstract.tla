--------------------------- MODULE IndexAbstract ----------------------------
(***************************************************************************)
(* What a normal index promises for one key value: the set of sequence     *)
(* numbers of the rows that have this key.  Sequence numbers are added in  *)
(* increasing order.  A deletion that has started is pending until it      *)
(* returns; when it returns, its sequence number is not in the set.        *)
(***************************************************************************)
EXTENDS Naturals

CONSTANT SeqNo   \* the sequence numbers of rows

VARIABLES
  contents,   \* sequence numbers in the index
  pending     \* the sequence number being deleted, or no element

vars == <<contents, pending>>

Init == contents = {} /\ pending = {}

Add(seq) ==
  /\ pending = {}
  /\ \A other \in contents : other < seq
  /\ contents' = contents \cup {seq}
  /\ UNCHANGED pending

Start(seq) ==
  /\ pending = {}
  /\ pending' = {seq}
  /\ UNCHANGED contents

\* A deletion returns, at once or after a search.
Delete(seq) ==
  /\ pending \in {{}, {seq}}
  /\ pending' = {}
  /\ contents' = contents \ {seq}

Next == \E seq \in SeqNo : Add(seq) \/ Start(seq) \/ Delete(seq)

Spec == Init /\ [][Next]_vars
=============================================================================
