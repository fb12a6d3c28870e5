------------------------------- MODULE DbMap --------------------------------
(***************************************************************************)
(* platon::db::Map (include/platon/db/map.hpp): a write-back cache over    *)
(* the chain state.  A contract holds the Map as a member, so the object   *)
(* is constructed when an invocation starts and its destructor writes the  *)
(* cache back when the invocation ends.  A revert or a panic ends the      *)
(* invocation without running destructors, and the chain rolls its state   *)
(* back.                                                                   *)
(*                                                                         *)
(* map_ is a std::map<Key, Value>; a key that is not in it has the value   *)
(* Absent here.                                                            *)
(***************************************************************************)
EXTENDS ChainState

VARIABLES
  chain,     \* the table in the chain state
  saved,     \* the table when the invocation started (what a revert restores)
  live,      \* a Map object exists
  map_,      \* cached values
  modify_,   \* keys that flush() writes
  ret        \* the last operation: its kind, its key, the value it took or answered

vars == <<chain, saved, live, map_, modify_, ret>>

NoKeys == [k \in Key |-> Absent]

\* k is in map_.
Cached(k) == map_[k] # Absent

\* k was erased through this object and has not been put back in the cache.
Erased(k) == k \in modify_ /\ ~Cached(k)

None == [op |-> "none"]

Answer(op, k, v) == [op |-> op, key |-> k, val |-> v]

Init ==
  /\ chain \in Chain
  /\ saved = chain
  /\ live = FALSE
  /\ map_ = NoKeys
  /\ modify_ = {}
  /\ ret = None

-----------------------------------------------------------------------------
\* The operations of the object.

Construct ==
  /\ ~live
  /\ live' = TRUE
  /\ saved' = chain
  /\ map_' = NoKeys
  /\ modify_' = {}
  /\ ret' = None
  /\ UNCHANGED chain

\* Mutant of insert: the key is cached but not marked for flush().
insert_unmarked(k, v) ==
  /\ live
  /\ map_' = [map_ EXCEPT ![k] = v]
  /\ ret' = Answer("put", k, v)
  /\ UNCHANGED <<chain, saved, live, modify_>>

insert(k, v) ==
  /\ live
  /\ map_' = [map_ EXCEPT ![k] = v]
  /\ modify_' = modify_ \cup {k}
  /\ ret' = Answer("put", k, v)
  /\ UNCHANGED <<chain, saved, live>>

\* Writes through to the chain; the cache follows only if it has the key.
insert_const(k, v) ==
  /\ live
  /\ map_' = IF Cached(k) THEN [map_ EXCEPT ![k] = v] ELSE map_
  /\ chain' = set_state(chain, k, v)
  /\ ret' = Answer("put", k, v)
  /\ UNCHANGED <<saved, live, modify_>>

\* The values get_const(k), and at(k), may answer.
Lookup(k) == IF Cached(k) THEN {map_[k]} ELSE get_state(chain, k)

get_const(k) ==
  /\ live
  /\ \E v \in Lookup(k) : ret' = Answer("get_const", k, v)
  /\ UNCHANGED <<chain, saved, live, map_, modify_>>

\* A miss loads the value into the cache and marks it for flush().
at(k) ==
  /\ live
  /\ \E v \in Lookup(k) :
       /\ map_' = [map_ EXCEPT ![k] = v]
       /\ modify_' = IF Cached(k) THEN modify_ ELSE modify_ \cup {k}
       /\ ret' = Answer("at", k, v)
  /\ UNCHANGED <<chain, saved, live>>

\* map[k] = v: at(k), then an assignment through the reference it answers.
\* The same step is a later assignment through a reference still held.
bracket_assign(k, v) ==
  /\ live
  /\ map_' = [map_ EXCEPT ![k] = v]
  /\ modify_' = IF Cached(k) THEN modify_ ELSE modify_ \cup {k}
  /\ ret' = Answer("put", k, v)
  /\ UNCHANGED <<chain, saved, live>>

\* Mutant of erase: the key is only dropped from the cache.
erase_unmarked(k) ==
  /\ live
  /\ map_' = [map_ EXCEPT ![k] = Absent]
  /\ ret' = Answer("erase", k, Absent)
  /\ UNCHANGED <<chain, saved, live, modify_>>

erase(k) ==
  /\ live
  /\ map_' = [map_ EXCEPT ![k] = Absent]
  /\ modify_' = modify_ \cup {k}
  /\ ret' = Answer("erase", k, Absent)
  /\ UNCHANGED <<chain, saved, live>>

\* Mutant of IsMember: contains() asks the chain about an erased key.
IsMember_no_tombstone(k) == Cached(k) \/ has_state(chain, k)

IsMember(k) == Cached(k) \/ (k \notin modify_ /\ has_state(chain, k))

contains(k) ==
  /\ live
  /\ ret' = Answer("contains", k, IsMember(k))
  /\ UNCHANGED <<chain, saved, live, map_, modify_>>

\* The chain after flush(): every key of modify_ is set or deleted.
Flushed ==
  [k \in Key |-> IF k \in modify_ THEN map_[k] ELSE chain[k]]

\* flush() is public and keeps map_ and modify_.
flush ==
  /\ live
  /\ chain' = Flushed
  /\ UNCHANGED <<saved, live, map_, modify_, ret>>

\* ~Map() at the end of the invocation.
Destroy ==
  /\ live
  /\ chain' = Flushed
  /\ saved' = Flushed
  /\ live' = FALSE
  /\ map_' = NoKeys
  /\ modify_' = {}
  /\ ret' = None

\* platon_revert, platon_panic: no destructor runs and the chain rolls back.
Revert ==
  /\ live
  /\ chain' = saved
  /\ live' = FALSE
  /\ map_' = NoKeys
  /\ modify_' = {}
  /\ ret' = None
  /\ UNCHANGED saved
-----------------------------------------------------------------------------
\* Operations that behave alike whatever was done to the key before.
Common(k) ==
  \/ erase(k) \/ contains(k)
  \/ \E v \in Value : insert(k, v) \/ bracket_assign(k, v)

\* Operations that consult the chain behind an erased key.
ReadBehind(k) ==
  \/ get_const(k) \/ at(k)
  \/ \E v \in Value : insert_const(k, v)

Lifecycle == Construct \/ flush \/ Destroy \/ Revert

\* Every contract.
Next ==
  \/ Lifecycle
  \/ \E k \in Key : Common(k) \/ ReadBehind(k)

Spec == Init /\ [][Next]_vars

\* Contracts that, after erasing a key, use insert or map[k] = v before they
\* use get_const, at or insert_const on it again.
CarefulNext ==
  \/ Lifecycle
  \/ \E k \in Key : Common(k) \/ (~Erased(k) /\ ReadBehind(k))

CarefulSpec == Init /\ [][CarefulNext]_vars
-----------------------------------------------------------------------------
\* Properties.

Results ==
  {None} \cup [op : {"put", "get_const", "at"}, key : Key, val : Value]
         \cup [op : {"erase"}, key : Key, val : {Absent}]
         \cup [op : {"contains"}, key : Key, val : BOOLEAN]

\* The types of the members of Map and of the chain state.
TypeOK ==
  /\ chain \in Chain
  /\ saved \in Chain
  /\ live \in BOOLEAN
  /\ map_ \in Chain
  /\ modify_ \subseteq Key
  /\ ret \in Results

\* No cached value is lost: every key in map_ is in modify_, so flush() in the
\* destructor writes it, whatever references at() handed out.
CacheTracked == \A k \in Key : Cached(k) => k \in modify_

\* contains() answers what the table will hold once the destructor has flushed
\* the cache, for every sequence of operations, explicit flushes included.
ContainsIsDurable == \A k \in Key : IsMember(k) <=> Flushed[k] # Absent

\* The cache and the dirty set never outlive the object, and outside an
\* invocation the table is exactly what a revert would restore.
Quiescent == ~live => map_ = NoKeys /\ modify_ = {} /\ saved = chain

\* The table as the contract sees it is the chain with the cache laid over it.
Abs == INSTANCE MapAbstract WITH
         contents <- Flushed, committed <- saved, open <- live

\* Seen by a careful contract the cache is invisible: Map behaves like a table
\* that is committed as a whole by ~Map() or rolled back as a whole.
ImplementsTable == Abs!Spec

\* map.hpp:209: contains answers "true if there is such an element, otherwise
\* false": a key that contains() denies reads as a fresh value.
DeniedKeyReadsFresh ==
  live => \A k \in Key : ~IsMember(k) => Lookup(k) \subseteq Fresh

\* map.hpp:88: insert_const answers "true Inserted successfully": what was put last,
\* by whichever of insert, insert_const and map[k] = v, is in the table when the
\* invocation ends.
InsertedIsKept ==
  [][Destroy /\ ret # None /\ ret.op = "put" => chain'[ret.key] = ret.val]_vars
=============================================================================
