--------------------------- MODULE ContractCalls ----------------------------
(***************************************************************************)
(* An invocation of a contract and the calls it makes to others:           *)
(* dispatcher.hpp (PLATON_DISPATCH, execute_action), cross_call.hpp and    *)
(* the StorageType member of storagetype.hpp.                              *)
(*                                                                         *)
(* Every call gets a wasm instance of its own: the dispatcher checks the   *)
(* method and its parameters, constructs the contract object (whose        *)
(* StorageType member loads its cell), runs the method, hands the result   *)
(* to the host with platon_return, and destroys the object (which writes   *)
(* the cell, changed or not).  A panic runs no destructor and the host     *)
(* restores the chain as it was when that call began.                      *)
(***************************************************************************)
EXTENDS ChainState, Naturals, Sequences

CONSTANTS
  Contract,
  CellOf,     \* CellOf[<<a, c>>]: the cell that the code of contract c uses when
              \* it runs on the storage of address a
  Delegates,  \* <<a, c>>: code that runs on the storage of a delegates to c
  Default,    \* the value given to the StorageType constructor
  MaxDepth    \* bound on nested calls

ASSUME CellAssumption     == CellOf \in [Contract \X Contract -> Key]
ASSUME DelegateAssumption == Delegates \subseteq Contract \X Contract
ASSUME DefaultAssumption  == Default \in Value
ASSUME DepthAssumption    == MaxDepth \in Nat \ {0}

VARIABLES
  chain,    \* the cells in the chain state
  stack,    \* the running calls, outermost first
  seen      \* the last operation and what it answered

vars == <<chain, stack, seen>>

Frame == [addr : Contract, cell : Key, t_ : Value, before : Chain]

Cell(a, c) == CellOf[<<a, c>>]

Told(op, v) == [op |-> op, val |-> v]

Nothing == [op |-> "none"]

Top == stack[Len(stack)]

Callers == SubSeq(stack, 1, Len(stack) - 1)

\* The frames among the first n of s that hold a copy of cell k.
Holders(s, n, k) == {i \in 1 .. n : s[i].cell = k}

\* The innermost of them.
Holder(s, n, k) == CHOOSE i \in Holders(s, n, k) : \A j \in Holders(s, n, k) : j <= i

\* No cell has been written yet.
Init ==
  /\ chain = [k \in Key |-> Absent]
  /\ stack = <<>>
  /\ seen = Nothing

-----------------------------------------------------------------------------
\* Mutant of Loads: the length get_state answers is not tested.
Loads_unchecked(k) == chain[k]

\* StorageType::Init: the cell, or the default when it has never been written.
Loads(k) == IF has_state(chain, k) THEN chain[k] ELSE Default

\* execute_action up to the method's first statement, for the code of c on the
\* storage of a.
Enter(a, c) ==
  /\ Len(stack) < MaxDepth
  /\ stack' = Append(stack, [addr   |-> a,
                             cell   |-> Cell(a, c),
                             t_     |-> Loads(Cell(a, c)),
                             before |-> chain])
  /\ seen' = Nothing
  /\ UNCHANGED chain

\* A transaction invokes contract c.
invoke(c) == stack = <<>> /\ Enter(c, c)

platon_call(c) == stack # <<>> /\ Enter(c, c)

\* The code of c runs on the storage of the calling frame's address.
platon_delegate_call(c) ==
  /\ stack # <<>>
  /\ <<Top.addr, c>> \in Delegates
  /\ Enter(Top.addr, c)

\* _invoke and get_para throw on an unknown method or a wrong number of
\* parameters before the contract object exists; the caller is told false.
Rejected ==
  /\ Len(stack) < MaxDepth
  /\ seen' = Nothing
  /\ UNCHANGED <<chain, stack>>

\* cell.self() = v
Assign(v) ==
  /\ stack # <<>>
  /\ stack' = [stack EXCEPT ![Len(stack)].t_ = v]
  /\ seen' = Told("write", v)
  /\ UNCHANGED chain

\* cell.get()
Get ==
  /\ stack # <<>>
  /\ seen' = Told("read", Top.t_)
  /\ UNCHANGED <<chain, stack>>

\* The method returns the cell's value, platon_return passes it on, and the
\* destructor of the object writes the cell.
Return ==
  /\ stack # <<>>
  /\ seen' = Told("return", Top.t_)
  /\ chain' = set_state(chain, Top.cell, Top.t_)
  /\ stack' = Callers

\* Mutant of Panic: what nested calls wrote survives.
Panic_keeps_writes ==
  /\ stack # <<>>
  /\ stack' = Callers
  /\ seen' = Nothing
  /\ UNCHANGED chain

\* platon_throw, platon_panic, platon_revert, or the host runs out of gas.
Panic ==
  /\ stack # <<>>
  /\ chain' = Top.before
  /\ stack' = Callers
  /\ seen' = Nothing

-----------------------------------------------------------------------------
\* The copy a caller holds of the cell that the next call will load, if any, is
\* what the chain has: entering the cell again finds no stale value.
Clean(k) ==
  LET n == Len(stack)
  IN Holders(stack, n, k) # {} => stack[Holder(stack, n, k)].t_ = Loads(k)

\* The running call is the only one that holds its cell.
Exclusive == Holders(stack, Len(stack) - 1, Top.cell) = {}

\* Contracts that re-enter a cell only to read it, and only while no running
\* caller has changed its copy of it.
Next ==
  \/ Rejected \/ Get \/ Return \/ Panic
  \/ \E v \in Value : Exclusive /\ Assign(v)
  \/ \E c \in Contract :
       \/ invoke(c)
       \/ platon_call(c) /\ Clean(Cell(c, c))
       \/ platon_delegate_call(c) /\ Clean(Cell(Top.addr, c))

Spec == Init /\ [][Next]_vars
-----------------------------------------------------------------------------
\* Properties.

\* The types of the chain state, of the running calls and of their answers.
TypeOK ==
  /\ chain \in Chain
  /\ stack \in Seq(Frame)
  /\ seen \in {Nothing} \cup [op : {"read", "write", "return"}, val : Value]

\* The values of the cells as the frames 1 .. n of s see them: the innermost of
\* them that holds a cell has its current value, the chain c has the others.
View(s, c, n) ==
  [k \in Key |->
     IF Holders(s, n, k) # {} THEN s[Holder(s, n, k)].t_
     ELSE IF has_state(c, k) THEN c[k] ELSE Default]

Memory == INSTANCE Cells WITH
            mem   <- View(stack, chain, Len(stack)),
            began <- [i \in DOMAIN stack |-> View(stack, stack[i].before, i - 1)]

\* The copies in StorageType members are invisible to such contracts: cells
\* behave like one memory that every call reads and writes in place, and calls
\* nest like transactions, whatever returns or panics in whatever order.
ImplementsCells == Memory!Spec
=============================================================================
