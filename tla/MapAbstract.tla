---------------------------- MODULE MapAbstract -----------------------------
(***************************************************************************)
(* What db/map.hpp promises to a contract: a table that is read and        *)
(* written within one invocation and committed as a whole when the         *)
(* invocation ends normally, or forgotten as a whole when it is reverted.  *)
(***************************************************************************)
CONSTANTS Key, Value, Absent, Fresh

VARIABLES
  contents,    \* the table as the running invocation sees it
  committed,   \* the table as it was before the invocation
  open,        \* an invocation is running
  ret          \* the last operation: its kind, its key, the value it took or answered

vars == <<contents, committed, open, ret>>

None == [op |-> "none"]

Answer(op, k, v) == [op |-> op, key |-> k, val |-> v]

Init ==
  /\ contents \in [Key -> Value \cup {Absent}]
  /\ committed = contents
  /\ open = FALSE
  /\ ret = None

Begin ==
  /\ ~open
  /\ open' = TRUE
  /\ ret' = None
  /\ UNCHANGED <<contents, committed>>

Put(k, v) ==
  /\ open
  /\ contents' = [contents EXCEPT ![k] = v]
  /\ ret' = Answer("put", k, v)
  /\ UNCHANGED <<committed, open>>

Remove(k) ==
  /\ open
  /\ contents' = [contents EXCEPT ![k] = Absent]
  /\ ret' = Answer("erase", k, Absent)
  /\ UNCHANGED <<committed, open>>

\* A read of an absent key answers what a fresh Value holds and adds nothing.
Get(k) ==
  /\ open
  /\ \E v \in (IF contents[k] = Absent THEN Fresh ELSE {contents[k]}) :
       ret' = Answer("get_const", k, v)
  /\ UNCHANGED <<contents, committed, open>>

\* at() answers a reference, so an absent key comes into being.
GetOrCreate(k) ==
  /\ open
  /\ \E v \in (IF contents[k] = Absent THEN Fresh ELSE {contents[k]}) :
       /\ contents' = [contents EXCEPT ![k] = v]
       /\ ret' = Answer("at", k, v)
  /\ UNCHANGED <<committed, open>>

Test(k) ==
  /\ open
  /\ ret' = Answer("contains", k, contents[k] # Absent)
  /\ UNCHANGED <<contents, committed, open>>

Commit ==
  /\ open
  /\ committed' = contents
  /\ open' = FALSE
  /\ ret' = None
  /\ UNCHANGED contents

Abort ==
  /\ open
  /\ contents' = committed
  /\ open' = FALSE
  /\ ret' = None
  /\ UNCHANGED committed

Next ==
  \/ Begin \/ Commit \/ Abort
  \/ \E k \in Key :
       \/ Remove(k) \/ Get(k) \/ GetOrCreate(k) \/ Test(k)
       \/ \E v \in Value : Put(k, v)

Spec == Init /\ [][Next]_vars
=============================================================================
