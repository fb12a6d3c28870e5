--------------------------- MODULE DbArrayProofs ----------------------------
(***************************************************************************)
(* Proofs about db/array.hpp for every size, every set of positions and    *)
(* every set of values: the members keep their types, a finished loop has  *)
(* visited every element once and in order, and the cache implements the   *)
(* abstract table of MapAbstract.                                          *)
(***************************************************************************)
EXTENDS DbArray, TLAPS

\* How many elements a loop of this kind has visited when its iterator is at pos.
Done(kind, pos) == IF kind \in Backward THEN Begin(kind) - pos ELSE pos - 1

\* The position a loop of this kind visits in its i-th round.
Round(kind, i) == IF kind \in Backward THEN N - i ELSE i - 1

\* The loop invariant: the iterator stays between begin and end, and its
\* position tells which elements were visited.
LoopTracked ==
  it # NoLoop =>
    /\ Done(it.kind, it.pos) \in 0 .. N
    /\ it.visited = [i \in 1 .. Done(it.kind, it.pos) |-> Round(it.kind, i)]

\* The cache does not outlive the object, and outside an invocation the array
\* is what a revert would restore.
Quiescent == ~live => cache_ = NoElements /\ saved = chain

\* The inductive invariant.
ArrayInv == TypeOK /\ LoopTracked /\ Quiescent

\* What Lookup answers is a Value.
LEMMA LookupType ==
  ASSUME TypeOK, NEW k \in Key, NEW v \in Lookup(k)
  PROVE v \in Value
  BY FreshAssumption DEF TypeOK, Chain, Lookup, Cached, get_state, has_state

\* The chain Flush() leaves behind is a chain.
LEMMA FlushedType ==
  ASSUME TypeOK
  PROVE Flushed \in Chain
  BY DEF TypeOK, Chain, Flushed

\* Loading an element keeps the types.
LEMMA LoadKeepsTypes ==
  ASSUME TypeOK, NEW k \in Key, Load(k), it' \in Loops
  PROVE TypeOK'
<1>1. PICK v \in Lookup(k) : cache_' = [cache_ EXCEPT ![k] = v] /\ ret' = Answer("at", k, v)
  BY DEF Load
<1>2. v \in Value
  BY LookupType
<1>3. ret' \in Results
  BY <1>1, <1>2 DEF Answer, Results
<1>4. cache_' \in Chain
  BY <1>1, <1>2 DEF TypeOK, Chain
<1>5. \A j \in Key : j >= N => ~Cached(j)'
  BY <1>1, ArrayAssumption DEF Load, TypeOK, Chain, Cached
<1> QED
  BY <1>3, <1>4, <1>5 DEF Load, TypeOK

\* Copying an element keeps the types.
LEMMA CopyKeepsTypes ==
  ASSUME TypeOK, NEW k \in Key, Copy(k), it' \in Loops
  PROVE TypeOK'
<1>1. PICK v \in Lookup(k) : ret' = Answer("get_const", k, v)
  BY DEF Copy
<1>2. ret' \in Results
  BY <1>1, LookupType DEF Answer, Results
<1> QED
  BY <1>2 DEF Copy, TypeOK, Cached

\* What a round of a loop that has not ended does: it visits the next element,
\* which is inside the array, and the iterator keeps track.
LEMMA RoundInArray ==
  ASSUME TypeOK, LoopTracked, NEW kind \in Kinds, LoopStep(kind)
  PROVE /\ Target(kind, it.pos) \in 0 .. N - 1
        /\ it' \in Loops
        /\ LoopTracked'
<1> DEFINE p == it.pos
           n == Done(kind, p)
           q == Moved(kind, p)
<1>1. /\ it \in [kind : Kinds, pos : 0 .. N + 1, visited : Seq(0 .. N - 1)]
      /\ it # NoLoop /\ it.kind = kind /\ p # End(kind) /\ p \in 0 .. N + 1
  BY DEF LoopStep, Kinds, TypeOK, Loops, NoLoop
<1>2. N \in Nat \ {0}
  BY ArrayAssumption
<1>3. n \in 0 .. N /\ it.visited = [i \in 1 .. n |-> Round(kind, i)]
  BY <1>1 DEF LoopTracked
<1>4. /\ n < N
      /\ Done(kind, q) = n + 1
      /\ Target(kind, p) = Round(kind, n + 1)
      /\ Target(kind, p) \in 0 .. N - 1
      /\ q \in 0 .. N + 1
  BY <1>1, <1>2, <1>3 DEF Done, Moved, Target, Round, Begin, End, Kinds, Backward
<1>5. it' = [it EXCEPT !.pos = q, !.visited = Append(@, Target(kind, p))]
  BY DEF LoopStep
<1>6. /\ it'.kind = kind /\ it'.pos = q
      /\ it'.visited = Append(it.visited, Target(kind, p))
  BY <1>1, <1>5
<1>7. Append(it.visited, Target(kind, p)) = [i \in 1 .. n + 1 |-> Round(kind, i)]
  <2>1. it.visited \in Seq(0 .. N - 1) /\ Len(it.visited) = n
    BY <1>1, <1>3
  <2> QED
    BY <2>1, <1>3, <1>4
<1>8. it' \in Loops
  <2>1. it'.visited \in Seq(0 .. N - 1)
    BY <1>1, <1>4, <1>6
  <2> QED
    BY <1>1, <1>4, <1>5, <2>1 DEF Loops
<1>9. LoopTracked'
  <2>1. n + 1 \in 0 .. N
    BY <1>2, <1>3, <1>4
  <2>2. /\ Done(it'.kind, it'.pos) = n + 1
        /\ it'.visited = [i \in 1 .. n + 1 |-> Round(it'.kind, i)]
    BY <1>4, <1>6, <1>7
  <2> QED
    BY <2>1, <2>2 DEF LoopTracked
<1> QED
  BY <1>4, <1>8, <1>9

LEMMA InitArrayInv == Init => ArrayInv
  BY DEF Init, ArrayInv, TypeOK, LoopTracked, Quiescent, Cached, Chain,
         NoElements, Loops, Results

\* A revert, and a failed bounds check, keep the inductive invariant.
LEMMA UndoKeepsInv ==
  ASSUME ArrayInv, Undo
  PROVE ArrayInv'
  BY DEF Undo, ArrayInv, TypeOK, LoopTracked, Quiescent, Cached, Chain,
         NoElements, Loops, Results

\* Every step keeps the inductive invariant.
LEMMA StepArrayInv == ArrayInv /\ [Next]_vars => ArrayInv'
<1> SUFFICES ASSUME ArrayInv, [Next]_vars PROVE ArrayInv'
  OBVIOUS
<1> USE DEF ArrayInv
<1>1. CASE Construct
  BY <1>1 DEF Construct, TypeOK, LoopTracked, Quiescent, Cached, Chain, NoElements, Results
<1>2. CASE Destroy
  BY <1>2, FlushedType DEF Destroy, TypeOK, LoopTracked, Quiescent, Cached, Chain,
     NoElements, Results
<1>3. CASE Revert
  BY <1>3, UndoKeepsInv DEF Revert
<1>4. ASSUME NEW kind \in Kinds, LoopStart(kind) PROVE ArrayInv'
  <2>1. it' = [kind |-> kind, pos |-> Begin(kind), visited |-> <<>>]
    BY <1>4 DEF LoopStart
  <2>2. Begin(kind) \in 0 .. N + 1 /\ Done(kind, Begin(kind)) = 0
    BY ArrayAssumption DEF Begin, Done, Kinds, Backward
  <2>3. it' \in Loops
    BY <2>1, <2>2 DEF Loops
  <2>4. LoopTracked'
    BY <2>1, <2>2, ArrayAssumption DEF LoopTracked
  <2> QED
    BY <1>4, <2>3, <2>4 DEF LoopStart, TypeOK, Quiescent, Cached
<1>5. ASSUME NEW kind \in Kinds, LoopStep(kind) PROVE ArrayInv'
  <2>1. Target(kind, it.pos) \in Key /\ it' \in Loops /\ LoopTracked'
    BY <1>5, RoundInArray, ArrayAssumption
  <2>2. Load(Target(kind, it.pos)) \/ Copy(Target(kind, it.pos))
    BY <1>5 DEF LoopStep
  <2>3. TypeOK'
    BY <2>1, <2>2, LoadKeepsTypes, CopyKeepsTypes
  <2>4. live /\ live' = live
    BY <1>5, <2>2 DEF LoopStep, Load, Copy
  <2> QED
    BY <2>1, <2>3, <2>4 DEF Quiescent
<1>6. ASSUME NEW kind \in Kinds, LoopEnd(kind) PROVE ArrayInv'
  BY <1>6 DEF LoopEnd, TypeOK, LoopTracked, Quiescent, Cached, Loops
<1>7. ASSUME NEW k \in Key, at(k) PROVE ArrayInv'
  <2>1. CASE Load(k) /\ UNCHANGED it
    <3>1. TypeOK'
      BY <2>1, LoadKeepsTypes DEF TypeOK
    <3> QED
      BY <1>7, <2>1, <3>1 DEF at, Load, LoopTracked, Quiescent
  <2>2. CASE Undo
    BY <2>2, UndoKeepsInv
  <2> QED
    BY <1>7, <2>1, <2>2 DEF at
<1>8. ASSUME NEW k \in Key, get_const(k) PROVE ArrayInv'
  <2>1. TypeOK'
    BY <1>8, CopyKeepsTypes DEF get_const, TypeOK
  <2> QED
    BY <1>8, <2>1 DEF get_const, Copy, LoopTracked, Quiescent
<1>9. ASSUME NEW k \in Key, NEW v \in Value, bracket_assign(k, v) PROVE ArrayInv'
  BY <1>9, ArrayAssumption DEF bracket_assign, Answer, TypeOK, LoopTracked,
     Quiescent, Cached, Chain, Results
<1>10. ASSUME NEW k \in Key, NEW v \in Value, set_const(k, v) PROVE ArrayInv'
  BY <1>10 DEF set_const, set_state, Answer, TypeOK, LoopTracked, Quiescent,
     Cached, Chain, Results
<1>11. CASE UNCHANGED vars
  BY <1>11 DEF vars, TypeOK, LoopTracked, Quiescent, Cached
<1> QED
  BY <1>1, <1>2, <1>3, <1>4, <1>5, <1>6, <1>7, <1>8, <1>9, <1>10, <1>11 DEF Next

\* The members of Array, the chain and a loop's iterator keep their types, for
\* every size of the array; nothing past the end is ever cached.
THEOREM ArrayTypeCorrect == Spec => []TypeOK
<1>1. ArrayInv => TypeOK
  BY DEF ArrayInv
<1> QED
  BY InitArrayInv, StepArrayInv, <1>1, PTL DEF Spec

\* A finished loop over an Array of any size, with any of the four kinds of
\* iterators, has visited every element once and in order.
THEOREM ArrayLoopVisitsAll == Spec => []LoopVisitsAll
<1>1. ArrayInv => LoopVisitsAll
  <2> SUFFICES ASSUME ArrayInv, it # NoLoop, it.pos = End(it.kind)
               PROVE it.visited = [i \in 1 .. N |-> Round(it.kind, i)]
    BY DEF LoopVisitsAll, Round
  <2>1. it.kind \in Kinds
    BY DEF ArrayInv, TypeOK, Loops
  <2>2. Done(it.kind, it.pos) = N
    BY <2>1, ArrayAssumption DEF Done, Begin, End, Kinds, Backward
  <2> QED
    BY <2>2 DEF ArrayInv, LoopTracked
<1> QED
  BY InitArrayInv, StepArrayInv, <1>1, PTL DEF Spec
-----------------------------------------------------------------------------
\* Reading an element reads the cache laid over the chain.
LEMMA LookupIsOverlay ==
  ASSUME TypeOK, NEW k \in Key
  PROVE Lookup(k) = IF Flushed[k] = Absent THEN Fresh ELSE {Flushed[k]}
  BY DEF TypeOK, Chain, Cached, Lookup, Flushed, get_state, has_state

\* Caching a value of element k only changes element k of the array.
LEMMA OverlayPut ==
  ASSUME TypeOK, NEW k \in Key, NEW v \in Value,
         cache_' = [cache_ EXCEPT ![k] = v], UNCHANGED chain
  PROVE Flushed' = [Flushed EXCEPT ![k] = v]
  BY AbsentAssumption DEF TypeOK, Chain, Flushed, Cached

\* at(), and operator* of the iterators that answer a reference, are the table's
\* GetOrCreate.
LEMMA LoadRefines ==
  ASSUME TypeOK, NEW k \in Key, live, Load(k)
  PROVE Abs!Next
<1>1. PICK v \in Lookup(k) : cache_' = [cache_ EXCEPT ![k] = v] /\ ret' = Answer("at", k, v)
  BY DEF Load
<1>2. v \in Value
  BY LookupType
<1>3. Flushed' = [Flushed EXCEPT ![k] = v]
  BY <1>1, <1>2, OverlayPut DEF Load
<1>4. Abs!GetOrCreate(k)
  BY <1>1, <1>3, LookupIsOverlay DEF Load, Abs!GetOrCreate, Abs!Answer, Answer
<1> QED
  BY <1>4 DEF Abs!Next

\* get_const(), and operator* of the const iterators, are the table's Get.
LEMMA CopyRefines ==
  ASSUME TypeOK, NEW k \in Key, live, Copy(k)
  PROVE Abs!Next
<1>1. Flushed' = Flushed
  BY DEF Copy, Flushed, Cached
<1>2. Abs!Get(k)
  BY <1>1, LookupIsOverlay DEF Copy, Abs!Get, Abs!Answer, Answer
<1> QED
  BY <1>2 DEF Abs!Next

\* A revert, and a failed bounds check in at(), are the table's Abort.
LEMMA UndoRefines ==
  ASSUME TypeOK, live, Undo
  PROVE Abs!Next
<1>1. Flushed' = saved
  BY DEF Undo, Flushed, Cached, NoElements, TypeOK, Chain
<1> QED
  BY <1>1 DEF Undo, Abs!Next, Abs!Abort, Abs!None, None

\* The step simulation: every step of a contract is a step of the table or
\* leaves it alone.
LEMMA StepRefines == ArrayInv /\ [Next]_vars => [Abs!Next]_(Abs!vars)
<1> SUFFICES ASSUME ArrayInv, [Next]_vars PROVE [Abs!Next]_(Abs!vars)
  OBVIOUS
<1> USE DEF ArrayInv
<1>0. Flushed \in Chain
  BY FlushedType
<1>1. CASE Construct
  <2>1. Flushed' = chain /\ Flushed = chain
    BY <1>1 DEF Construct, Flushed, Cached, NoElements, TypeOK, Chain, Quiescent
  <2> QED
    BY <1>1, <2>1 DEF Construct, Quiescent, Abs!Next, Abs!Begin, Abs!None, None
<1>2. CASE Destroy
  <2>1. Flushed' = Flushed
    BY <1>2, <1>0 DEF Destroy, Flushed, Cached, NoElements, Chain
  <2> QED
    BY <1>2, <2>1 DEF Destroy, Abs!Next, Abs!Commit, Abs!None, None
<1>3. CASE Revert
  BY <1>3, UndoRefines DEF Revert
<1>4. ASSUME NEW kind \in Kinds, LoopStart(kind) \/ LoopEnd(kind) PROVE UNCHANGED Abs!vars
  BY <1>4 DEF LoopStart, LoopEnd, Abs!vars, Flushed, Cached
<1>5. ASSUME NEW kind \in Kinds, LoopStep(kind) PROVE Abs!Next
  <2>1. Target(kind, it.pos) \in Key
    BY <1>5, RoundInArray, ArrayAssumption
  <2>2. live /\ (Load(Target(kind, it.pos)) \/ Copy(Target(kind, it.pos)))
    BY <1>5 DEF LoopStep
  <2> QED
    BY <2>1, <2>2, LoadRefines, CopyRefines
<1>6. ASSUME NEW k \in Key, at(k) PROVE Abs!Next
  BY <1>6, LoadRefines, UndoRefines DEF at
<1>7. ASSUME NEW k \in Key, get_const(k) PROVE Abs!Next
  BY <1>7, CopyRefines DEF get_const
<1>8. ASSUME NEW k \in Key, NEW v \in Value, bracket_assign(k, v) PROVE Abs!Next
  <2>1. Flushed' = [Flushed EXCEPT ![k] = v]
    BY <1>8, OverlayPut DEF bracket_assign
  <2> QED
    BY <1>8, <2>1 DEF bracket_assign, Abs!Next, Abs!Put, Abs!Answer, Answer
<1>9. ASSUME NEW k \in Key, NEW v \in Value, set_const(k, v) PROVE Abs!Next
  <2>1. Flushed' = [Flushed EXCEPT ![k] = v]
    BY <1>9, <1>0, AbsentAssumption DEF set_const, set_state, Flushed, Cached, TypeOK, Chain
  <2> QED
    BY <1>9, <2>1 DEF set_const, Abs!Next, Abs!Put, Abs!Answer, Answer
<1>10. CASE UNCHANGED vars
  BY <1>10 DEF vars, Abs!vars, Flushed, Cached
<1> QED
  BY <1>1, <1>2, <1>3, <1>4, <1>5, <1>6, <1>7, <1>8, <1>9, <1>10 DEF Next

\* db::Array of any size implements the abstract table for every contract:
\* reads answer the last write, ~Array() commits everything the invocation did,
\* and a revert or a failed bounds check commits nothing of it.
THEOREM ArrayImplementsTable == Spec => ImplementsTable
<1>1. Init => Abs!Init
  BY DEF Init, Abs!Init, Abs!None, None, Flushed, Cached, Chain, NoElements
<1> QED
  BY InitArrayInv, StepArrayInv, <1>1, StepRefines, PTL DEF Spec, ImplementsTable, Abs!Spec
=============================================================================
