----------------------------- MODULE MultiIndex -----------------------------
(***************************************************************************)
(* The table of db/multi_index.hpp: rows under sequence numbers, unique    *)
(* and normal indexes over them, all written through to the chain state,   *)
(* and three pieces of state that live only as long as the object: the     *)
(* sequence counter (a StorageType flushed by the destructor), the item    *)
(* cache seq2item_ and the iterators the contract holds.                   *)
(*                                                                         *)
(* A row is a function from columns to keys; the columns in Names are      *)
(* indexed.  An iterator holds a shared_ptr to an item; an item that was   *)
(* not loaded yet is a default-constructed row.  modify() and emplace()    *)
(* never change an item in place, so items are values here.                *)
(*                                                                         *)
(* A revert rolls the chain back to a state between two invocations, which *)
(* is a state of this module already, so it is not an action of its own.   *)
(***************************************************************************)
EXTENDS IndexSections, FiniteSets

CONSTANTS
  Column,         \* members of T
  Indices,        \* the index tuple: a sequence of [name, unique] records
  Atom,           \* values of a member
  DefaultRow,     \* a default-constructed T
  MaxSeq,         \* bound on the sequence counter
  KeepIterators,  \* the contract goes on using an iterator after another operation
  AnyIndexErase   \* Index::erase on an index that is not the last of the tuple

Names   == {Indices[i].name : i \in DOMAIN Indices}
Uniques == {Indices[i].name : i \in {j \in DOMAIN Indices : Indices[j].unique}}
Normals == Names \ Uniques
Place(n) == CHOOSE i \in DOMAIN Indices : Indices[i].name = n

SeqNo == 0 .. MaxSeq
Row   == [Column -> Atom]
None  == -1

ASSUME ColumnAssumption == Names \subseteq Column /\ DefaultRow \in Row
ASSUME MaxSeqAssumption == MaxSeq \in Nat
ASSUME UseAssumption    == KeepIterators \in BOOLEAN /\ AnyIndexErase \in BOOLEAN

VARIABLES
  rows,       \* chain: sequence number -> row
  uniq,       \* chain: unique index -> key -> sequence number or None
  norm,       \* chain: normal index -> key -> sections
  stored,     \* chain: the sequence counter
  live,       \* a MultiIndex object exists
  seq_,       \* its sequence counter
  seq2item_,  \* its cache: sequence number -> row
  it          \* the table iterator the contract holds

chain == <<rows, uniq, norm, stored>>
vars  == <<rows, uniq, norm, stored, live, seq_, seq2item_, it>>

NoRows == [s \in {} |-> DefaultRow]
Put(f, s, r) == [t \in DOMAIN f \cup {s} |-> IF t = s THEN r ELSE f[t]]
Drop(f, s) == [t \in DOMAIN f \ {s} |-> f[t]]

Iterator(s, r) == [seq |-> s, item |-> r]
NoIterator == Iterator(None, DefaultRow)

\* An iterator after an operation it was not part of.
Held(i) == IF KeepIterators THEN i ELSE NoIterator

has_state_db(s) == s \in DOMAIN rows

Cached(s) == s \in DOMAIN seq2item_

-----------------------------------------------------------------------------
\* The cache.

\* get_item_ptr: the item of a sequence number.  A row that is not on the
\* chain leaves the new item default-constructed.
Item(s) ==
  CASE Cached(s) -> seq2item_[s]
    [] ~Cached(s) /\ has_state_db(s) -> rows[s]
    [] OTHER -> DefaultRow

\* seq2item_ after get_item_ptr(s).
Loaded(s) == Put(seq2item_, s, Item(s))

\* Mutant of Deref: an item that is not in the cache is not loaded.
Deref_unloaded(i) == i.item

\* const_iterator::operator*: an item that is in the cache, this one or
\* another, is taken to be loaded.
Deref(i) == IF ~Cached(i.seq) /\ has_state_db(i.seq) THEN rows[i.seq] ELSE i.item

\* seq2item_ after *i.
DerefCache(i) == IF Cached(i.seq) THEN seq2item_ ELSE Put(seq2item_, i.seq, Deref(i))

-----------------------------------------------------------------------------
\* Construction and destruction: seq_ is loaded and flushed.

Construct ==
  /\ ~live
  /\ live' = TRUE
  /\ seq_' = stored
  /\ UNCHANGED <<chain, seq2item_, it>>

Destroy ==
  /\ live
  /\ live' = FALSE
  /\ stored' = seq_
  /\ seq_' = 0
  /\ seq2item_' = NoRows
  /\ it' = NoIterator
  /\ UNCHANGED <<rows, uniq, norm>>

-----------------------------------------------------------------------------
\* Table operations.

cend == Iterator(seq_, DefaultRow)

Conflict(r) == \E n \in Uniques : uniq[n][r[n]] # None

\* Mutant of emplace: the counter is not advanced.
emplace_same_seq(r) ==
  /\ live
  /\ seq_ < MaxSeq
  /\ IF Conflict(r)
     THEN it' = cend /\ UNCHANGED <<rows, uniq, norm, seq2item_>>
     ELSE /\ uniq' = [n \in Uniques |-> [uniq[n] EXCEPT ![r[n]] = seq_]]
          /\ norm' = [n \in Normals |-> [norm[n] EXCEPT ![r[n]] = Appended(@, seq_)]]
          /\ rows' = Put(rows, seq_, r)
          /\ seq2item_' = Put(seq2item_, seq_, r)
          /\ it' = Iterator(seq_, r)
  /\ UNCHANGED <<stored, live, seq_>>

\* On a conflict the counter is stepped back and nothing is written.
emplace(r) ==
  /\ live
  /\ seq_ < MaxSeq
  /\ IF Conflict(r)
     THEN it' = cend /\ UNCHANGED <<rows, uniq, norm, seq_, seq2item_>>
     ELSE /\ seq_' = seq_ + 1
          /\ uniq' = [n \in Uniques |-> [uniq[n] EXCEPT ![r[n]] = seq_]]
          /\ norm' = [n \in Normals |-> [norm[n] EXCEPT ![r[n]] = Appended(@, seq_)]]
          /\ rows' = Put(rows, seq_, r)
          /\ seq2item_' = Put(seq2item_, seq_, r)
          /\ it' = Iterator(seq_, r)
  /\ UNCHANGED <<stored, live>>

\* Mutant of find: the index entry is not tested for existence.
find_unchecked(n, key) ==
  /\ live
  /\ it' = Iterator(uniq[n][key], Item(uniq[n][key]))
  /\ seq2item_' = Loaded(uniq[n][key])
  /\ UNCHANGED <<chain, live, seq_>>

find(n, key) ==
  /\ live
  /\ IF uniq[n][key] # None
     THEN /\ it' = Iterator(uniq[n][key], Item(uniq[n][key]))
          /\ seq2item_' = Loaded(uniq[n][key])
     ELSE it' = cend /\ UNCHANGED seq2item_
  /\ UNCHANGED <<chain, live, seq_>>

\* The first sequence number from s on that has a row, or the counter.
ScanUp(s) ==
  CHOOSE t \in s .. seq_ :
    /\ \A u \in s .. t - 1 : ~has_state_db(u)
    /\ t < seq_ => has_state_db(t)

\* The iterator cbegin and operator++ build for a sequence number: the cached
\* item, or one that operator* will load.
At(s) == Iterator(s, IF Cached(s) THEN seq2item_[s] ELSE DefaultRow)

cbegin ==
  /\ live
  /\ it' = At(ScanUp(0))
  /\ UNCHANGED <<chain, live, seq_, seq2item_>>

\* Mutant of NextSeq: sequence numbers without a row are not skipped.
NextSeq_dense(s) == IF s = seq_ THEN s ELSE s + 1

\* Where operator++ goes from sequence number s: the next cached item, or the
\* next row on the chain.
NextSeq(s) ==
  CASE s = seq_ -> s
    [] s # seq_ /\ Cached(s + 1) -> s + 1
    [] OTHER -> ScanUp(s + 1)

increment ==
  /\ live
  /\ it.seq \in 0 .. seq_
  /\ it' = IF it.seq = seq_ THEN it ELSE At(NextSeq(it.seq))
  /\ UNCHANGED <<chain, live, seq_, seq2item_>>

\* *it and it->.
dereference ==
  /\ live
  /\ it.seq \in 0 .. seq_ - 1
  /\ it' = [it EXCEPT !.item = Deref(it)]
  /\ seq2item_' = DerefCache(it)
  /\ UNCHANGED <<chain, live, seq_>>

\* Mutant of modify: an indexed column may change.
modify_any_column(c, v) ==
  LET old == Deref(it)
      new == [old EXCEPT ![c] = v]
  IN /\ live
     /\ has_state_db(it.seq)
     /\ rows' = Put(rows, it.seq, new)
     /\ seq2item_' = Put(seq2item_, it.seq, new)
     /\ it' = Held([it EXCEPT !.item = old])
     /\ UNCHANGED <<uniq, norm, stored, live, seq_>>

\* modify: a copy of *position with column c set to v replaces the row, unless
\* the column is indexed and the key changes; then nothing happens.  The
\* caller makes sure that position has a row.
modify(c, v) ==
  LET old == Deref(it)
      new == [old EXCEPT ![c] = v]
  IN /\ live
     /\ has_state_db(it.seq)
     /\ IF \A n \in Names : old[n] = new[n]
        THEN /\ rows' = Put(rows, it.seq, new)
             /\ seq2item_' = Put(seq2item_, it.seq, new)
        ELSE /\ seq2item_' = DerefCache(it)
             /\ UNCHANGED rows
     /\ it' = Held([it EXCEPT !.item = old])
     /\ UNCHANGED <<uniq, norm, stored, live, seq_>>

\* delete_normal_index_db on the sections d: module NormalIndex shows that its
\* search finds the section of a number that is there.
Deleted(d, s) ==
  IF s \in Members(d)
  THEN ErasedFrom(d, CHOOSE t \in DOMAIN d : s \in Members([u \in {t} |-> d[u]]), s)
  ELSE d

\* It does not return when several sections are searched for a number below
\* all of theirs; the invocation then runs out of gas and is rolled back.
Returns(d, s) ==
  has_normal_index_db(d) => Alone(d[HEADSERIAL]) \/ d[HEADSERIAL].vect_seq[1] <= s

\* Mutant of erase: the erased item stays in the cache.
erase_keeps_item ==
  LET r == Deref(it)
  IN /\ live
     /\ has_state_db(it.seq)
     /\ \A n \in Normals : Returns(norm[n][r[n]], it.seq)
     /\ uniq' = [n \in Uniques |-> [uniq[n] EXCEPT ![r[n]] = None]]
     /\ norm' = [n \in Normals |-> [norm[n] EXCEPT ![r[n]] = Deleted(@, it.seq)]]
     /\ rows' = Drop(rows, it.seq)
     /\ seq2item_' = DerefCache(it)
     /\ it' = Held([it EXCEPT !.item = r])
     /\ UNCHANGED <<stored, live, seq_>>

\* erase: the keys are those of *position.
erase ==
  LET r == Deref(it)
  IN /\ live
     /\ has_state_db(it.seq)
     /\ \A n \in Normals : Returns(norm[n][r[n]], it.seq)
     /\ uniq' = [n \in Uniques |-> [uniq[n] EXCEPT ![r[n]] = None]]
     /\ norm' = [n \in Normals |-> [norm[n] EXCEPT ![r[n]] = Deleted(@, it.seq)]]
     /\ rows' = Drop(rows, it.seq)
     /\ seq2item_' = Drop(seq2item_, it.seq)
     /\ it' = Held([it EXCEPT !.item = r])
     /\ UNCHANGED <<stored, live, seq_>>

-----------------------------------------------------------------------------
\* Operations through a normal index.  Its iterators are a key, a serial and a
\* place within the section, looked up afresh at every use.

Positions(d) == {p \in (DOMAIN d) \X (0 .. MAXSIZE - 1) : p[2] < Len(d[p[1]].vect_seq)}

get_seq(d, p) == d[p[1]].vect_seq[p[2] + 1]

\* *position
index_dereference(n, key, p) ==
  /\ live
  /\ seq2item_' = Loaded(get_seq(norm[n][key], p))
  /\ it' = Held(it)
  /\ UNCHANGED <<chain, live, seq_>>

index_modify(n, key, p, c, v) ==
  LET s   == get_seq(norm[n][key], p)
      old == Item(s)
      new == [old EXCEPT ![c] = v]
  IN /\ live
     /\ IF \A m \in Names : old[m] = new[m]
        THEN /\ rows' = Put(rows, s, new)
             /\ seq2item_' = Put(seq2item_, s, new)
        ELSE /\ seq2item_' = Loaded(s)
             /\ UNCHANGED rows
     /\ it' = Held(it)
     /\ UNCHANGED <<uniq, norm, stored, live, seq_>>

\* Index::erase evaluates *position again for every index of the tuple: for the
\* indexes after n it denotes what the deletion from n has left at its place.
\* When nothing is left there, vect_seq is read behind its end, which C++ leaves
\* undefined; such calls are left out.
index_erase(n, key, p) ==
  LET s     == get_seq(norm[n][key], p)
      d     == Deleted(norm[n][key], s)
      later == IF Place(n) = Len(Indices) THEN s ELSE get_seq(d, p)
      KeyOf(m) == IF Place(m) <= Place(n) THEN Item(s)[m] ELSE Item(later)[m]
  IN /\ live
     /\ Place(n) = Len(Indices) \/ p \in Positions(d)
     /\ \A m \in Normals : Returns(norm[m][KeyOf(m)], s)
     /\ uniq' = [m \in Uniques |-> [uniq[m] EXCEPT ![KeyOf(m)] = None]]
     /\ norm' = [m \in Normals |-> [norm[m] EXCEPT ![KeyOf(m)] = Deleted(@, s)]]
     /\ seq2item_' = Drop(Loaded(later), s)
     /\ rows' = Drop(rows, s)
     /\ it' = Held(it)
     /\ UNCHANGED <<stored, live, seq_>>

-----------------------------------------------------------------------------
Init ==
  /\ rows = NoRows
  /\ uniq = [n \in Uniques |-> [k \in Atom |-> None]]
  /\ norm = [n \in Normals |-> [k \in Atom |-> NoSections]]
  /\ stored = 0
  /\ live = FALSE
  /\ seq_ = 0
  /\ seq2item_ = NoRows
  /\ it = NoIterator

TableStep ==
  \/ \E r \in Row : emplace(r)
  \/ \E n \in Uniques, k \in Atom : find(n, k)
  \/ cbegin \/ increment \/ dereference \/ erase
  \/ \E c \in Column, v \in Atom : modify(c, v)

IndexStep ==
  \E n \in Normals, k \in Atom : \E p \in Positions(norm[n][k]) :
    \/ index_dereference(n, k, p)
    \/ \E c \in Column, v \in Atom : index_modify(n, k, p, c, v)
    \/ (AnyIndexErase \/ Place(n) = Len(Indices)) /\ index_erase(n, k, p)

Next == Construct \/ Destroy \/ TableStep \/ IndexStep

Spec == Init /\ [][Next]_vars
-----------------------------------------------------------------------------
\* Properties.

\* The types of the records of the table and of the object's members.
TypeOK ==
  /\ DOMAIN rows \subseteq SeqNo /\ \A s \in DOMAIN rows : rows[s] \in Row
  /\ uniq \in [Uniques -> [Atom -> SeqNo \cup {None}]]
  /\ \A n \in Normals, k \in Atom : Members(norm[n][k]) \subseteq SeqNo
  /\ stored \in SeqNo /\ seq_ \in SeqNo
  /\ live \in BOOLEAN
  /\ DOMAIN seq2item_ \subseteq SeqNo /\ \A s \in DOMAIN seq2item_ : seq2item_[s] \in Row
  /\ it \in [seq : SeqNo \cup {None}, item : Row]

\* Rows and indexes agree: a unique index maps a key to the one row that has
\* it and to nothing else, and a normal index lists exactly the rows that have
\* the key, after every emplace, modify and erase through any iterator.
IndexesAgree ==
  /\ \A n \in Uniques, k \in Atom, s \in SeqNo :
       uniq[n][k] = s <=> s \in DOMAIN rows /\ rows[s][n] = k
  /\ \A n \in Normals, k \in Atom :
       Members(norm[n][k]) = {s \in DOMAIN rows : rows[s][n] = k}

\* What the cache holds is what the chain holds: no ghost of an erased row and
\* no value that modify() has replaced.
CacheCoherent ==
  \A s \in DOMAIN seq2item_ : s \in DOMAIN rows /\ seq2item_[s] = rows[s]

\* *it is the row the iterator stands on, whichever of cbegin, operator++,
\* find and emplace produced it and whatever the cache held at the time.  It holds
\* of an iterator that is used before any other operation; MultiIndexLoaded.cfg shows
\* how one that is kept comes to be taken for loaded.
DereferenceIsRow == has_state_db(it.seq) => Deref(it) = rows[it.seq]

\* The sequence numbers that a loop with operator++ meets from s on.
visit[s \in 0 .. seq_] == IF s = seq_ THEN {} ELSE {s} \cup visit[NextSeq(s)]

\* A loop from cbegin to cend meets the rows of the table, each once.
VisitsAllRows == live => visit[ScanUp(0)] = DOMAIN rows

\* A new row takes a sequence number that no row of any invocation had before:
\* the counter that the destructor flushes is ahead of every row, and it never
\* goes back.
SequenceAdvances ==
  [][ /\ DOMAIN rows' \ DOMAIN rows \subseteq {seq_}
      /\ stored' >= stored
      /\ ~live' => \A s \in DOMAIN rows' : s < stored' ]_vars

\* modify changes the column its lambda changes and no other: the other members of
\* the row keep the values they have on the chain, also when the iterator was
\* used for a modify before.
ModifyKeepsOtherColumns ==
  [][ \A c \in Column, v \in Atom : modify(c, v) =>
        \A d \in Column \ {c} : rows'[it.seq][d] = rows[it.seq][d] ]_vars
=============================================================================
