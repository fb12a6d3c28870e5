------------------------------ MODULE DbArray -------------------------------
(***************************************************************************)
(* platon::db::Array (include/platon/db/array.hpp): N elements cached on   *)
(* demand over the chain state.  Unlike Map there is no dirty set: the     *)
(* destructor writes every cached element.  at() checks its position,      *)
(* get_const() and set_const() do not, so Key holds positions past the end *)
(* as well.                                                                *)
(*                                                                         *)
(* cache_ is a std::map<size_t, Key>; a position that is not in it has the *)
(* value Absent here.                                                      *)
(***************************************************************************)
EXTENDS ChainState, Naturals, Sequences

CONSTANT N   \* the size of the array

ASSUME ArrayAssumption == N \in Nat \ {0} /\ Key \subseteq Nat /\ 0 .. N - 1 \subseteq Key

VARIABLES
  chain,    \* the elements in the chain state
  saved,    \* the elements when the invocation started
  live,     \* an Array object exists
  cache_,   \* cached elements
  it,       \* the iterator of the loop that runs, or NoLoop
  ret       \* the last operation: its kind, its position, the value it took or answered

vars == <<chain, saved, live, cache_, it, ret>>

NoElements == [k \in Key |-> Absent]

NoLoop == [kind |-> "none"]

Cached(k) == cache_[k] # Absent

None == [op |-> "none"]

Answer(op, k, v) == [op |-> op, key |-> k, val |-> v]

Init ==
  /\ chain = NoElements
  /\ saved = chain
  /\ live = FALSE
  /\ cache_ = NoElements
  /\ it = NoLoop
  /\ ret = None

Construct ==
  /\ ~live
  /\ live' = TRUE
  /\ saved' = chain
  /\ cache_' = NoElements
  /\ ret' = None
  /\ UNCHANGED <<chain, it>>

-----------------------------------------------------------------------------
\* Access to an element.

\* The values that a read of position k may answer.
Lookup(k) == IF Cached(k) THEN {cache_[k]} ELSE get_state(chain, k)

\* at() within the array: a miss loads the element into the cache.
Load(k) ==
  /\ k < N
  /\ \E v \in Lookup(k) :
       /\ cache_' = [cache_ EXCEPT ![k] = v]
       /\ ret' = Answer("at", k, v)
  /\ UNCHANGED <<chain, saved, live>>

\* Ends the invocation: no destructor runs and the chain rolls back.
Undo ==
  /\ chain' = saved
  /\ live' = FALSE
  /\ cache_' = NoElements
  /\ it' = NoLoop
  /\ ret' = None
  /\ UNCHANGED saved

at(k) ==
  /\ live
  /\ \/ Load(k) /\ UNCHANGED it
     \/ k >= N /\ Undo          \* platon_assert fails

\* array[k] = v
bracket_assign(k, v) ==
  /\ live
  /\ k < N
  /\ cache_' = [cache_ EXCEPT ![k] = v]
  /\ ret' = Answer("put", k, v)
  /\ UNCHANGED <<chain, saved, live, it>>

\* get_const answers a copy and leaves the cache alone.
Copy(k) ==
  /\ \E v \in Lookup(k) : ret' = Answer("get_const", k, v)
  /\ UNCHANGED <<chain, saved, live, cache_>>

get_const(k) == live /\ Copy(k) /\ UNCHANGED it

\* Mutant of set_const: a cached copy of the element keeps its old value.
set_const_stale(k, v) ==
  /\ live
  /\ chain' = set_state(chain, k, v)
  /\ ret' = Answer("put", k, v)
  /\ UNCHANGED <<saved, live, cache_, it>>

\* Writes through to the chain; the cache follows only if it has the element.
set_const(k, v) ==
  /\ live
  /\ cache_' = IF Cached(k) THEN [cache_ EXCEPT ![k] = v] ELSE cache_
  /\ chain' = set_state(chain, k, v)
  /\ ret' = Answer("put", k, v)
  /\ UNCHANGED <<saved, live, it>>

-----------------------------------------------------------------------------
\* for (auto it = x.begin(); it != x.end(); it++) { ... *it ... } with begin and
\* end of each kind.  "reverse" is std::reverse_iterator<iterator>, which keeps
\* the position after the element it stands for.

Kinds == {"iterator", "const_iterator", "reverse", "const_reverse"}

Backward == {"reverse", "const_reverse"}

\* Mutant of Begin: crbegin() starts like rbegin().
Begin_past(kind) == IF kind \in Backward THEN N + 1 ELSE 1

\* pos_ of begin, cbegin, rbegin, crbegin
Begin(kind) ==
  CASE kind = "reverse"       -> N + 1
    [] kind = "const_reverse" -> N
    [] OTHER                  -> 1

\* pos_ of end, cend, rend, crend
End(kind) ==
  CASE kind = "reverse"       -> 1
    [] kind = "const_reverse" -> 0
    [] OTHER                  -> N + 1

\* The position of the element that operator* reaches: pos_ - 1, after a
\* decrement of a copy for a std::reverse_iterator.
Target(kind, pos) == IF kind = "reverse" THEN pos - 2 ELSE pos - 1

Moved(kind, pos) == IF kind \in Backward THEN pos - 1 ELSE pos + 1

LoopStart(kind) ==
  /\ live
  /\ it = NoLoop
  /\ it' = [kind |-> kind, pos |-> Begin(kind), visited |-> <<>>]
  /\ UNCHANGED <<chain, saved, live, cache_, ret>>

\* The body dereferences the iterator, then the loop increments it.
LoopStep(kind) ==
  /\ live
  /\ it.kind = kind
  /\ it.pos # End(kind)
  /\ LET k == Target(kind, it.pos)
     IN /\ IF kind \in {"iterator", "reverse"} THEN Load(k) ELSE Copy(k)
        /\ it' = [it EXCEPT !.pos = Moved(kind, @), !.visited = Append(@, k)]

LoopEnd(kind) ==
  /\ live
  /\ it.kind = kind
  /\ it.pos = End(kind)
  /\ it' = NoLoop
  /\ UNCHANGED <<chain, saved, live, cache_, ret>>

-----------------------------------------------------------------------------
\* The chain after Flush().
Flushed == [k \in Key |-> IF Cached(k) THEN cache_[k] ELSE chain[k]]

\* ~Array() at the end of the invocation.
Destroy ==
  /\ live
  /\ it = NoLoop
  /\ chain' = Flushed
  /\ saved' = Flushed
  /\ live' = FALSE
  /\ cache_' = NoElements
  /\ ret' = None
  /\ UNCHANGED it

Revert == live /\ Undo

Next ==
  \/ Construct \/ Destroy \/ Revert
  \/ \E kind \in Kinds : LoopStart(kind) \/ LoopStep(kind) \/ LoopEnd(kind)
  \/ \E k \in Key :
       \/ at(k) \/ get_const(k)
       \/ \E v \in Value : bracket_assign(k, v) \/ set_const(k, v)

Spec == Init /\ [][Next]_vars
-----------------------------------------------------------------------------
\* Properties.

Loops ==
  {NoLoop} \cup [kind : Kinds, pos : 0 .. N + 1, visited : Seq(0 .. N - 1)]

Results ==
  {None} \cup [op : {"put", "get_const", "at"}, key : Key, val : Value]

\* The types of the members of Array, of the loop's iterator and of the chain
\* state; an element past the end is never cached.
TypeOK ==
  /\ chain \in Chain
  /\ saved \in Chain
  /\ live \in BOOLEAN
  /\ cache_ \in Chain
  /\ \A k \in Key : k >= N => ~Cached(k)
  /\ it \in Loops
  /\ ret \in Results

\* A finished loop has visited every element once, in the order of its kind,
\* whatever the body did to the array: begin, end, ++ and * of the four kinds of
\* iterators fit together.
LoopVisitsAll ==
  it # NoLoop /\ it.pos = End(it.kind) =>
    it.visited = [i \in 1 .. N |-> IF it.kind \in Backward THEN N - i ELSE i - 1]

\* The array as the contract sees it is the chain with the cache laid over it.
Abs == INSTANCE MapAbstract WITH
         contents <- Flushed, committed <- saved, open <- live

\* The cache is invisible to every contract: Array behaves like a table that is
\* committed as a whole by ~Array() or rolled back as a whole, and a failed
\* bounds check in at() rolls it back.
ImplementsTable == Abs!Spec
=============================================================================
