-------------------------- MODULE MultiIndexProofs --------------------------
(***************************************************************************)
(* Proofs about the table of db/multi_index.hpp for every tuple of indexes *)
(* over every set of columns, every size of a section and every number of  *)
(* rows, of a contract that does not use an iterator after another         *)
(* operation and calls Index::erase on the last index of the tuple only.   *)
(***************************************************************************)
EXTENDS MultiIndex, IndexSectionsProofs

\* The sections of every key of every normal index are well formed.
NormalsWellFormed ==
  \A n \in Normals : DOMAIN norm[n] = Atom /\ \A k \in Atom : WellFormed(norm[n][k])

\* The counter is above every sequence number in use: the object's while there
\* is one, else the one on the chain.
CounterAhead ==
  /\ \A s \in DOMAIN rows : s < IF live THEN seq_ ELSE stored
  /\ live => stored <= seq_

\* The contract's iterator stands on a row or at the end, or there is none.
IteratorOnRow ==
  it.seq = None \/ (live /\ (it.seq = seq_ \/ it.seq \in DOMAIN rows))

\* The inductive invariant.
TableInv ==
  /\ TypeOK
  /\ NormalsWellFormed
  /\ IndexesAgree
  /\ CounterAhead
  /\ CacheCoherent
  /\ DereferenceIsRow
  /\ IteratorOnRow

-----------------------------------------------------------------------------
\* Records, keys and sequence numbers.

LEMMA PutRecord ==
  ASSUME NEW f, NEW s, NEW r
  PROVE /\ DOMAIN Put(f, s, r) = DOMAIN f \cup {s}
        /\ Put(f, s, r)[s] = r
        /\ \A t \in DOMAIN f : t # s => Put(f, s, r)[t] = f[t]
BY DEF Put

LEMMA DropRecord ==
  ASSUME NEW f, NEW s
  PROVE /\ DOMAIN Drop(f, s) = DOMAIN f \ {s}
        /\ \A t \in DOMAIN f : t # s => Drop(f, s)[t] = f[t]
BY DEF Drop

\* The indexed columns of a row hold keys.
LEMMA KeyOfRow ==
  ASSUME NEW r \in Row, NEW n \in Uniques \cup Normals
  PROVE r[n] \in Atom /\ n \in Names /\ n \in Column
<1>1. Uniques \subseteq Names /\ Normals \subseteq Names
  BY DEF Uniques, Names, Normals
<1>2. n \in Column
  BY <1>1, ColumnAssumption
<1> QED
  BY <1>1, <1>2 DEF Row

LEMMA SeqNoNat ==
  /\ MaxSeq \in Nat /\ SeqNo \subseteq Nat /\ None \notin SeqNo /\ 0 \in SeqNo
  /\ \A s \in Nat : s <= MaxSeq => s \in SeqNo
BY MaxSeqAssumption DEF SeqNo, None

\* What the invariant says of a row on the chain.
LEMMA RowFacts ==
  ASSUME TableInv, NEW s \in DOMAIN rows
  PROVE /\ s \in SeqNo /\ s \in Nat /\ s # None
        /\ rows[s] \in Row
        /\ Item(s) = rows[s]
        /\ s < IF live THEN seq_ ELSE stored
<1>1. s \in SeqNo /\ rows[s] \in Row
  BY DEF TableInv, TypeOK
<1>2. s \in Nat /\ s # None
  BY <1>1, SeqNoNat
<1>3. Item(s) = rows[s]
  BY DEF Item, Cached, has_state_db, TableInv, CacheCoherent
<1> QED
  BY <1>1, <1>2, <1>3 DEF TableInv, CounterAhead

\* An item is a row.
LEMMA ItemType ==
  ASSUME TableInv, NEW s
  PROVE Item(s) \in Row
BY ColumnAssumption DEF Item, Cached, has_state_db, TableInv, TypeOK

\* The numbers of a normal index are those of rows.
LEMMA NumberHasRow ==
  ASSUME TableInv, NEW n \in Normals, NEW k \in Atom, NEW p \in Positions(norm[n][k])
  PROVE get_seq(norm[n][k], p) \in DOMAIN rows
<1> DEFINE d == norm[n][k]
<1>1. WellFormed(d)
  BY DEF TableInv, NormalsWellFormed
<1>2. Members(d) = {s \in DOMAIN rows : rows[s][n] = k}
  BY DEF TableInv, IndexesAgree
<1> HIDE DEF d
<1>3. /\ p[1] \in DOMAIN d /\ p[2] \in 0 .. MAXSIZE - 1
      /\ p[2] < Len(d[p[1]].vect_seq)
  <2>1. p \in (DOMAIN d) \X (0 .. MAXSIZE - 1) /\ p[2] < Len(d[p[1]].vect_seq)
    BY DEF Positions, d
  <2> QED
    BY <2>1
<1>4. d[p[1]].vect_seq \in Seq(Nat)
  BY <1>1, <1>3, SectionFields DEF WellFormed, IsIndex
<1>5. p[2] + 1 \in 1 .. Len(d[p[1]].vect_seq)
  BY <1>3, <1>4, SizeAssumption
<1>6. get_seq(d, p) \in Range(d[p[1]].vect_seq)
  BY <1>4, <1>5, SectionRange DEF get_seq
<1>7. get_seq(d, p) \in Members(d)
  BY <1>3, <1>6, MembersOf
<1> QED
  BY <1>2, <1>7 DEF d

\* delete_normal_index_db on the sections of one key.
LEMMA DeletedIsRemoval ==
  ASSUME NEW d, WellFormed(d), NEW s \in Nat
  PROVE WellFormed(Deleted(d, s)) /\ Members(Deleted(d, s)) = Members(d) \ {s}
<1>1. CASE s \notin Members(d)
  BY <1>1 DEF Deleted
<1>2. CASE s \in Members(d)
  <2> DEFINE holds(t) == s \in Members([u \in {t} |-> d[u]])
             t0 == CHOOSE t \in DOMAIN d : holds(t)
  <2>1. ASSUME NEW t \in DOMAIN d PROVE holds(t) <=> s \in Range(d[t].vect_seq)
    <3> DEFINE e == [u \in {t} |-> d[u]]
    <3>1. DOMAIN e = {t} /\ e[t] = d[t]
      OBVIOUS
    <3> HIDE DEF e
    <3>2. s \in Members(e) <=> s \in Range(d[t].vect_seq)
      BY <3>1, MembersOf
    <3> QED
      BY <3>2 DEF e
  <2>2. Deleted(d, s) = ErasedFrom(d, t0, s)
    BY <1>2 DEF Deleted
  <2> HIDE DEF holds
  <2>3. \E t \in DOMAIN d : holds(t)
    BY <1>2, <2>1, MembersOf
  <2>4. t0 \in DOMAIN d /\ holds(t0)
    BY <2>3
  <2> HIDE DEF t0
  <2>5. s \in Range(d[t0].vect_seq)
    BY <2>1, <2>4
  <2>6. /\ WellFormed(ErasedFrom(d, t0, s))
        /\ Members(ErasedFrom(d, t0, s)) = Members(d) \ (Range(d[t0].vect_seq) \cap {s})
    BY <2>4, ErasedIsRemoval
  <2> QED
    BY <2>2, <2>5, <2>6
<1> QED
  BY <1>1, <1>2

\* The scans of cbegin and operator++ end at a sequence number or the counter.
LEMMA ScanUpStops ==
  ASSUME seq_ \in Nat, NEW s \in 0 .. seq_
  PROVE /\ ScanUp(s) \in s .. seq_
        /\ ScanUp(s) = seq_ \/ ScanUp(s) \in DOMAIN rows
        /\ \A u \in s .. ScanUp(s) - 1 : u \notin DOMAIN rows
<1> DEFINE S == {t \in s .. seq_ : t < seq_ => has_state_db(t)}
<1>1. S \in SUBSET Nat /\ seq_ \in S
  OBVIOUS
<1>2. PICK t \in S : \A u \in S : t <= u
  BY <1>1, LeastSerial
<1>3. ASSUME NEW u \in s .. t - 1 PROVE ~has_state_db(u)
  <2>1. u \in s .. seq_ /\ u \notin S
    BY <1>2
  <2> QED
    BY <2>1
<1>4. \E x \in s .. seq_ :
        /\ \A u \in s .. x - 1 : ~has_state_db(u)
        /\ x < seq_ => has_state_db(x)
  BY <1>2, <1>3
<1> QED
  BY <1>4 DEF ScanUp, has_state_db

-----------------------------------------------------------------------------
\* What becomes of rows and indexes.

\* The types of the records on the chain.
ChainTypes ==
  /\ DOMAIN rows \subseteq SeqNo /\ \A s \in DOMAIN rows : rows[s] \in Row
  /\ uniq \in [Uniques -> [Atom -> SeqNo \cup {None}]]
  /\ \A n \in Normals, k \in Atom : Members(norm[n][k]) \subseteq SeqNo

\* The table on the chain, without the counter.
ChainInv == ChainTypes /\ NormalsWellFormed /\ IndexesAgree

\* emplace: a row whose keys no unique index has, under a new number.
LEMMA RowAdded ==
  ASSUME TableInv, live, seq_ < MaxSeq, NEW r \in Row, ~Conflict(r),
         uniq' = [n \in Uniques |-> [uniq[n] EXCEPT ![r[n]] = seq_]],
         norm' = [n \in Normals |-> [norm[n] EXCEPT ![r[n]] = Appended(@, seq_)]],
         rows' = Put(rows, seq_, r)
  PROVE ChainInv'
<1>1. seq_ \in SeqNo /\ seq_ \in Nat
  BY SeqNoNat DEF TableInv, TypeOK
<1>2. /\ DOMAIN rows' = DOMAIN rows \cup {seq_}
      /\ rows'[seq_] = r
      /\ \A t \in DOMAIN rows : t # seq_ => rows'[t] = rows[t]
  BY DEF Put
<1>3. \A s \in DOMAIN rows : s \in Nat /\ s \in SeqNo /\ s < seq_ /\ s # seq_ /\ rows[s] \in Row
  BY <1>1, RowFacts
<1>4. ASSUME NEW n \in Uniques
      PROVE /\ uniq'[n] \in [Atom -> SeqNo \cup {None}]
            /\ uniq'[n][r[n]] = seq_
            /\ uniq[n][r[n]] = None
            /\ r[n] \in Atom
            /\ \A k \in Atom : k # r[n] => uniq'[n][k] = uniq[n][k]
  <2>1. r[n] \in Atom
    BY KeyOfRow
  <2>2. uniq[n] \in [Atom -> SeqNo \cup {None}]
    BY DEF TableInv, TypeOK
  <2>3. uniq'[n] = [uniq[n] EXCEPT ![r[n]] = seq_]
    OBVIOUS
  <2>4. uniq[n][r[n]] = None
    BY DEF Conflict
  <2> QED
    BY <1>1, <2>1, <2>2, <2>3, <2>4
<1>5. ASSUME NEW n \in Uniques, NEW k \in Atom, NEW s \in SeqNo
      PROVE uniq'[n][k] = s <=> s \in DOMAIN rows' /\ rows'[s][n] = k
  <2>1. uniq[n][k] = s <=> s \in DOMAIN rows /\ rows[s][n] = k
    BY DEF TableInv, IndexesAgree
  <2>2. CASE s = seq_
    <3>1. s \notin DOMAIN rows
      BY <1>3, <2>2
    <3>2. uniq[n][k] # s
      BY <2>1, <3>1
    <3> QED
      BY <1>2, <1>4, <2>2, <3>2
  <2>3. CASE s # seq_
    <3>1. s \in DOMAIN rows' <=> s \in DOMAIN rows
      BY <1>2, <2>3
    <3>2. CASE k = r[n]
      <4>1. uniq'[n][k] # s
        BY <1>4, <2>3, <3>2
      <4>2. uniq[n][k] # s
        BY <1>4, <3>2, SeqNoNat
      <4> QED
        BY <1>2, <2>1, <2>3, <3>1, <4>1, <4>2
    <3>3. CASE k # r[n]
      BY <1>2, <1>4, <2>1, <2>3, <3>1, <3>3
    <3> QED
      BY <3>2, <3>3
  <2> QED
    BY <2>2, <2>3
<1>6. ASSUME NEW n \in Normals
      PROVE /\ DOMAIN norm'[n] = Atom
            /\ norm'[n][r[n]] = Appended(norm[n][r[n]], seq_)
            /\ r[n] \in Atom
            /\ \A k \in Atom : k # r[n] => norm'[n][k] = norm[n][k]
  <2>1. r[n] \in Atom /\ DOMAIN norm[n] = Atom
    BY KeyOfRow DEF TableInv, NormalsWellFormed
  <2>2. norm'[n] = [norm[n] EXCEPT ![r[n]] = Appended(norm[n][r[n]], seq_)]
    OBVIOUS
  <2> QED
    BY <2>1, <2>2
<1>7. ASSUME NEW n \in Normals, NEW k \in Atom
      PROVE /\ WellFormed(norm'[n][k])
            /\ Members(norm'[n][k]) = {s \in DOMAIN rows' : rows'[s][n] = k}
  <2>1. /\ WellFormed(norm[n][k])
        /\ Members(norm[n][k]) = {s \in DOMAIN rows : rows[s][n] = k}
    BY DEF TableInv, NormalsWellFormed, IndexesAgree
  <2>2. CASE k = r[n]
    <3>1. \A x \in Members(norm[n][k]) : x < seq_
      BY <1>3, <2>1
    <3>2. /\ WellFormed(Appended(norm[n][k], seq_))
          /\ Members(Appended(norm[n][k], seq_)) = Members(norm[n][k]) \cup {seq_}
      BY <1>1, <2>1, <3>1, AppendedIsAddition
    <3>3. norm'[n][k] = Appended(norm[n][k], seq_)
      BY <1>6, <2>2
    <3>4. {s \in DOMAIN rows' : rows'[s][n] = k} = {s \in DOMAIN rows : rows[s][n] = k} \cup {seq_}
      BY <1>2, <1>3, <2>2
    <3> QED
      BY <2>1, <3>2, <3>3, <3>4
  <2>3. CASE k # r[n]
    <3>1. {s \in DOMAIN rows' : rows'[s][n] = k} = {s \in DOMAIN rows : rows[s][n] = k}
      BY <1>2, <1>3, <2>3
    <3>2. norm'[n][k] = norm[n][k]
      BY <1>6, <2>3
    <3> QED
      BY <2>1, <3>1, <3>2
  <2> QED
    BY <2>2, <2>3
<1>8. DOMAIN rows' \subseteq SeqNo /\ \A s \in DOMAIN rows' : rows'[s] \in Row
  BY <1>1, <1>2, <1>3
<1>9. ChainTypes'
  BY <1>4, <1>7, <1>8 DEF ChainTypes
<1>10. NormalsWellFormed' /\ IndexesAgree'
  BY <1>5, <1>6, <1>7 DEF NormalsWellFormed, IndexesAgree
<1> QED
  BY <1>9, <1>10 DEF ChainInv

\* erase: a row is taken, and its number from the indexes under its keys.
LEMMA RowTaken ==
  ASSUME TableInv, NEW s0 \in DOMAIN rows, NEW r, r = rows[s0],
         uniq' = [n \in Uniques |-> [uniq[n] EXCEPT ![r[n]] = None]],
         norm' = [n \in Normals |-> [norm[n] EXCEPT ![r[n]] = Deleted(@, s0)]],
         rows' = Drop(rows, s0)
  PROVE ChainInv'
<1>1. s0 \in SeqNo /\ s0 \in Nat /\ s0 # None /\ r \in Row
  BY RowFacts
<1>2. /\ DOMAIN rows' = DOMAIN rows \ {s0}
      /\ \A t \in DOMAIN rows : t # s0 => rows'[t] = rows[t]
  BY DropRecord
<1>3. \A s \in DOMAIN rows : s \in SeqNo /\ rows[s] \in Row
  BY RowFacts
<1>4. ASSUME NEW n \in Uniques
      PROVE /\ uniq'[n] \in [Atom -> SeqNo \cup {None}]
            /\ uniq'[n][r[n]] = None
            /\ r[n] \in Atom
            /\ \A k \in Atom : k # r[n] => uniq'[n][k] = uniq[n][k]
  <2>1. r[n] \in Atom
    BY <1>1, KeyOfRow
  <2>2. uniq[n] \in [Atom -> SeqNo \cup {None}]
    BY DEF TableInv, TypeOK
  <2>3. uniq'[n] = [uniq[n] EXCEPT ![r[n]] = None]
    OBVIOUS
  <2> QED
    BY <2>1, <2>2, <2>3
<1>5. ASSUME NEW n \in Uniques, NEW k \in Atom, NEW s \in SeqNo
      PROVE uniq'[n][k] = s <=> s \in DOMAIN rows' /\ rows'[s][n] = k
  <2>1. /\ uniq[n][k] = s <=> s \in DOMAIN rows /\ rows[s][n] = k
        /\ uniq[n][k] = s0 <=> rows[s0][n] = k
    BY <1>1 DEF TableInv, IndexesAgree
  <2>2. CASE k = r[n]
    <3>1. uniq'[n][k] # s
      BY <1>4, <2>2, SeqNoNat
    <3>2. uniq[n][k] = s0
      BY <2>1, <2>2
    <3>3. ~(s \in DOMAIN rows' /\ rows'[s][n] = k)
      BY <1>2, <2>1, <3>2
    <3> QED
      BY <3>1, <3>3
  <2>3. CASE k # r[n]
    <3>1. uniq'[n][k] = uniq[n][k]
      BY <1>4, <2>3
    <3> QED
      BY <1>2, <2>1, <2>3, <3>1
  <2> QED
    BY <2>2, <2>3
<1>6. ASSUME NEW n \in Normals
      PROVE /\ DOMAIN norm'[n] = Atom
            /\ norm'[n][r[n]] = Deleted(norm[n][r[n]], s0)
            /\ r[n] \in Atom
            /\ \A k \in Atom : k # r[n] => norm'[n][k] = norm[n][k]
  <2>1. r[n] \in Atom /\ DOMAIN norm[n] = Atom
    BY <1>1, KeyOfRow DEF TableInv, NormalsWellFormed
  <2>2. norm'[n] = [norm[n] EXCEPT ![r[n]] = Deleted(norm[n][r[n]], s0)]
    OBVIOUS
  <2> QED
    BY <2>1, <2>2
<1>7. ASSUME NEW n \in Normals, NEW k \in Atom
      PROVE /\ WellFormed(norm'[n][k])
            /\ Members(norm'[n][k]) = {s \in DOMAIN rows' : rows'[s][n] = k}
  <2>1. /\ WellFormed(norm[n][k])
        /\ Members(norm[n][k]) = {s \in DOMAIN rows : rows[s][n] = k}
    BY DEF TableInv, NormalsWellFormed, IndexesAgree
  <2>2. CASE k = r[n]
    <3>1. /\ WellFormed(Deleted(norm[n][k], s0))
          /\ Members(Deleted(norm[n][k], s0)) = Members(norm[n][k]) \ {s0}
      BY <1>1, <2>1, DeletedIsRemoval
    <3>2. norm'[n][k] = Deleted(norm[n][k], s0)
      BY <1>6, <2>2
    <3>3. {s \in DOMAIN rows' : rows'[s][n] = k} = {s \in DOMAIN rows : rows[s][n] = k} \ {s0}
      BY <1>2
    <3> QED
      BY <2>1, <3>1, <3>2, <3>3
  <2>3. CASE k # r[n]
    <3>1. {s \in DOMAIN rows' : rows'[s][n] = k} = {s \in DOMAIN rows : rows[s][n] = k}
      BY <1>2, <2>3
    <3>2. norm'[n][k] = norm[n][k]
      BY <1>6, <2>3
    <3> QED
      BY <2>1, <3>1, <3>2
  <2> QED
    BY <2>2, <2>3
<1>8. DOMAIN rows' \subseteq SeqNo /\ \A s \in DOMAIN rows' : rows'[s] \in Row
  BY <1>2, <1>3
<1>9. ChainTypes'
  BY <1>4, <1>7, <1>8 DEF ChainTypes
<1>10. NormalsWellFormed' /\ IndexesAgree'
  BY <1>5, <1>6, <1>7 DEF NormalsWellFormed, IndexesAgree
<1> QED
  BY <1>9, <1>10 DEF ChainInv

\* modify: a row is replaced by one with the same keys.
LEMMA RowChanged ==
  ASSUME TableInv, NEW s0 \in DOMAIN rows, NEW new \in Row,
         \A n \in Names : rows[s0][n] = new[n],
         rows' = Put(rows, s0, new), UNCHANGED <<uniq, norm>>
  PROVE ChainInv'
<1>1. /\ DOMAIN rows' = DOMAIN rows
      /\ rows'[s0] = new
      /\ \A t \in DOMAIN rows : t # s0 => rows'[t] = rows[t]
  BY DEF Put
<1>2. \A n \in Uniques \cup Normals, s \in DOMAIN rows : rows'[s][n] = rows[s][n]
  <2>1. Uniques \subseteq Names /\ Normals \subseteq Names
    BY DEF Uniques, Names, Normals
  <2> QED
    BY <1>1, <2>1
<1>3. ChainTypes'
  BY <1>1 DEF TableInv, TypeOK, ChainTypes
<1>4. NormalsWellFormed'
  BY DEF TableInv, NormalsWellFormed
<1>5. IndexesAgree'
  <2>1. ASSUME NEW n \in Uniques, NEW k \in Atom, NEW s \in SeqNo
        PROVE uniq'[n][k] = s <=> s \in DOMAIN rows' /\ rows'[s][n] = k
    BY <1>1, <1>2 DEF TableInv, IndexesAgree
  <2>2. ASSUME NEW n \in Normals, NEW k \in Atom
        PROVE Members(norm'[n][k]) = {s \in DOMAIN rows' : rows'[s][n] = k}
    BY <1>1, <1>2 DEF TableInv, IndexesAgree
  <2> QED
    BY <2>1, <2>2 DEF IndexesAgree
<1> QED
  BY <1>3, <1>4, <1>5 DEF ChainInv

\* The records stay as they are.
LEMMA ChainKept ==
  ASSUME TableInv, UNCHANGED <<rows, uniq, norm>>
  PROVE ChainInv'
BY DEF TableInv, TypeOK, ChainInv, ChainTypes, NormalsWellFormed, IndexesAgree

-----------------------------------------------------------------------------
\* The invariant, step by step.

\* What is to be shown of a step.
LEMMA InvEstablished ==
  ASSUME ChainInv', stored' \in SeqNo, seq_' \in SeqNo, live' \in BOOLEAN,
         CounterAhead', CacheCoherent',
         it' \in [seq : SeqNo \cup {None}, item : Row],
         DereferenceIsRow', IteratorOnRow'
  PROVE TableInv'
BY DEF ChainInv, ChainTypes, TableInv, TypeOK, CacheCoherent

\* The contract is left without an iterator.
LEMMA IteratorGone ==
  ASSUME it' = NoIterator, ChainInv'
  PROVE /\ it' \in [seq : SeqNo \cup {None}, item : Row]
        /\ DereferenceIsRow' /\ IteratorOnRow'
<1>1. it'.seq = None /\ it'.item = DefaultRow
  BY DEF NoIterator, Iterator
<1>2. None \notin DOMAIN rows'
  BY SeqNoNat DEF ChainInv, ChainTypes
<1>3. it' \in [seq : SeqNo \cup {None}, item : Row]
  BY ColumnAssumption DEF NoIterator, Iterator
<1> QED
  BY <1>1, <1>2, <1>3 DEF DereferenceIsRow, IteratorOnRow, has_state_db

\* The contract gets an iterator to a row or to the end.
LEMMA IteratorPlaced ==
  ASSUME NEW s \in SeqNo, NEW r \in Row, it' = Iterator(s, r), live',
         \/ s \in DOMAIN rows' /\ (s \in DOMAIN seq2item_' => r = rows'[s])
         \/ s = seq_' /\ s \notin DOMAIN rows'
  PROVE /\ it' \in [seq : SeqNo \cup {None}, item : Row]
        /\ DereferenceIsRow' /\ IteratorOnRow'
<1>1. it'.seq = s /\ it'.item = r
  BY DEF Iterator
<1>2. it' \in [seq : SeqNo \cup {None}, item : Row]
  BY DEF Iterator
<1> QED
  BY <1>1, <1>2 DEF DereferenceIsRow, IteratorOnRow, has_state_db, Deref, Cached

\* The sequence counter's number has no row.
LEMMA CounterFree ==
  ASSUME TableInv, live
  PROVE seq_ \in SeqNo /\ seq_ \in Nat /\ seq_ \notin DOMAIN rows
<1>1. seq_ \in SeqNo /\ seq_ \in Nat
  BY SeqNoNat DEF TableInv, TypeOK
<1>2. seq_ \in DOMAIN rows => seq_ < seq_
  BY RowFacts
<1> QED
  BY <1>1, <1>2

\* The cache holds rows as the chain does, with one more of them or one less.
LEMMA CachePut ==
  ASSUME TableInv, NEW s \in DOMAIN rows, UNCHANGED rows,
         seq2item_' = Put(seq2item_, s, rows[s])
  PROVE CacheCoherent'
BY DEF TableInv, CacheCoherent, Put

LEMMA CacheKept ==
  ASSUME TableInv, UNCHANGED <<rows, seq2item_>>
  PROVE CacheCoherent'
BY DEF TableInv, CacheCoherent

LEMMA CacheReplaced ==
  ASSUME TableInv, NEW s, NEW r,
         rows' = Put(rows, s, r), seq2item_' = Put(seq2item_, s, r)
  PROVE CacheCoherent'
BY DEF TableInv, CacheCoherent, Put

LEMMA CacheDropped ==
  ASSUME TableInv, NEW s, rows' = Drop(rows, s), seq2item_' = Drop(seq2item_, s)
  PROVE CacheCoherent'
BY DEF TableInv, CacheCoherent, Drop

\* *it is the row, and it is in the cache afterwards.
LEMMA DerefRow ==
  ASSUME TableInv, it.seq \in DOMAIN rows
  PROVE /\ Deref(it) = rows[it.seq]
        /\ DerefCache(it) = seq2item_ \/ DerefCache(it) = Put(seq2item_, it.seq, rows[it.seq])
<1>1. Deref(it) = rows[it.seq]
  BY DEF TableInv, DereferenceIsRow, has_state_db
<1> QED
  BY <1>1 DEF DerefCache

LEMMA InitInv ==
  ASSUME Init
  PROVE TableInv
<1>1. DOMAIN rows = {} /\ DOMAIN seq2item_ = {}
  BY DEF Init, NoRows
<1>2. \A n \in Normals, k \in Atom : DOMAIN norm[n] = Atom /\ norm[n][k] = NoSections
  BY DEF Init
<1>3. WellFormed(NoSections) /\ Members(NoSections) = {}
  <2>1. DOMAIN NoSections = {}
    BY DEF NoSections
  <2>2. Members(NoSections) = {}
    BY <2>1, MembersOf
  <2>3. WellFormed(NoSections)
    BY <2>1 DEF WellFormed, IsIndex, Ring, Sorted, SerialsLow
  <2> QED
    BY <2>2, <2>3
<1>4. uniq \in [Uniques -> [Atom -> SeqNo \cup {None}]]
  BY DEF Init
<1>5. \A n \in Uniques, k \in Atom : uniq[n][k] = None
  BY DEF Init
<1>6. it \in [seq : SeqNo \cup {None}, item : Row] /\ it.seq = None
  BY ColumnAssumption DEF Init, NoIterator, Iterator
<1>7. TypeOK
  BY <1>1, <1>2, <1>3, <1>4, <1>6, SeqNoNat DEF Init, TypeOK
<1>8. NormalsWellFormed
  <2>1. ASSUME NEW n \in Normals PROVE DOMAIN norm[n] = Atom
    BY DEF Init
  <2> QED
    BY <1>2, <1>3, <2>1 DEF NormalsWellFormed
<1>9. IndexesAgree
  BY <1>1, <1>2, <1>3, <1>5, SeqNoNat DEF IndexesAgree
<1>10. CounterAhead /\ CacheCoherent /\ DereferenceIsRow /\ IteratorOnRow
  BY <1>1, <1>6 DEF Init, CounterAhead, CacheCoherent, DereferenceIsRow, IteratorOnRow, has_state_db
<1> QED
  BY <1>7, <1>8, <1>9, <1>10 DEF TableInv

LEMMA ConstructStep ==
  ASSUME TableInv, Construct
  PROVE TableInv'
<1>1. ChainInv' /\ CacheCoherent'
  BY ChainKept, CacheKept DEF Construct, chain
<1>2. stored' \in SeqNo /\ seq_' \in SeqNo /\ live' \in BOOLEAN
  BY DEF Construct, chain, TableInv, TypeOK
<1>3. CounterAhead'
  <2>1. stored \in Nat
    BY SeqNoNat DEF TableInv, TypeOK
  <2> QED
    BY <2>1 DEF Construct, chain, TableInv, CounterAhead
<1>4. it' \in [seq : SeqNo \cup {None}, item : Row] /\ DereferenceIsRow' /\ IteratorOnRow'
  BY DEF Construct, chain, TableInv, TypeOK, DereferenceIsRow, IteratorOnRow,
         has_state_db, Deref, Cached
<1> QED
  BY <1>1, <1>2, <1>3, <1>4, InvEstablished

LEMMA DestroyStep ==
  ASSUME TableInv, Destroy
  PROVE TableInv'
<1>1. ChainInv'
  BY ChainKept DEF Destroy
<1>2. stored' \in SeqNo /\ seq_' \in SeqNo /\ live' \in BOOLEAN
  BY SeqNoNat DEF Destroy, TableInv, TypeOK
<1>3. CounterAhead'
  BY DEF Destroy, TableInv, CounterAhead
<1>4. CacheCoherent'
  BY DEF Destroy, NoRows, CacheCoherent
<1>5. it' = NoIterator
  BY DEF Destroy
<1> QED
  BY <1>1, <1>2, <1>3, <1>4, <1>5, IteratorGone, InvEstablished

\* Steps that leave the counters and the object's existence as they are.
LEMMA CounterKept ==
  ASSUME TableInv, UNCHANGED <<stored, seq_, live>>, DOMAIN rows' \subseteq DOMAIN rows
  PROVE /\ stored' \in SeqNo /\ seq_' \in SeqNo /\ live' \in BOOLEAN
        /\ CounterAhead'
BY DEF TableInv, TypeOK, CounterAhead

LEMMA EmplaceStep ==
  ASSUME TableInv, NEW r \in Row, emplace(r)
  PROVE TableInv'
<1>1. live /\ seq_ < MaxSeq /\ stored' = stored /\ live' = live
  BY DEF emplace
<1>2. seq_ \in SeqNo /\ seq_ \in Nat /\ seq_ \notin DOMAIN rows
  BY <1>1, CounterFree
<1>3. CASE Conflict(r)
  <2>1. it' = Iterator(seq_, DefaultRow) /\ UNCHANGED <<rows, uniq, norm, seq_, seq2item_>>
    BY <1>3 DEF emplace, cend
  <2>2. ChainInv' /\ CacheCoherent'
    BY <2>1, ChainKept, CacheKept
  <2>3. /\ stored' \in SeqNo /\ seq_' \in SeqNo /\ live' \in BOOLEAN
        /\ CounterAhead'
    BY <1>1, <2>1, CounterKept
  <2>4. /\ it' \in [seq : SeqNo \cup {None}, item : Row]
        /\ DereferenceIsRow' /\ IteratorOnRow'
    BY <1>1, <1>2, <2>1, IteratorPlaced, ColumnAssumption
  <2> QED
    BY <2>2, <2>3, <2>4, InvEstablished
<1>4. CASE ~Conflict(r)
  <2>1. /\ seq_' = seq_ + 1
        /\ uniq' = [n \in Uniques |-> [uniq[n] EXCEPT ![r[n]] = seq_]]
        /\ norm' = [n \in Normals |-> [norm[n] EXCEPT ![r[n]] = Appended(@, seq_)]]
        /\ rows' = Put(rows, seq_, r)
        /\ seq2item_' = Put(seq2item_, seq_, r)
        /\ it' = Iterator(seq_, r)
    BY <1>4 DEF emplace
  <2>2. ChainInv'
    BY <1>1, <1>4, <2>1, RowAdded
  <2>3. CacheCoherent'
    BY <2>1, CacheReplaced
  <2>4. DOMAIN rows' = DOMAIN rows \cup {seq_} /\ rows'[seq_] = r
    BY <2>1 DEF Put
  <2>5. stored' \in SeqNo /\ seq_' \in SeqNo /\ live' \in BOOLEAN
    BY <1>1, <1>2, <2>1, SeqNoNat DEF TableInv, TypeOK
  <2>6. CounterAhead'
    <3>1. stored \in Nat /\ stored <= seq_
      BY <1>1, SeqNoNat DEF TableInv, TypeOK, CounterAhead
    <3>2. \A s \in DOMAIN rows : s \in Nat /\ s < seq_
      BY <1>1, RowFacts
    <3> QED
      BY <1>1, <1>2, <2>1, <2>4, <3>1, <3>2 DEF CounterAhead
  <2>7. /\ it' \in [seq : SeqNo \cup {None}, item : Row]
        /\ DereferenceIsRow' /\ IteratorOnRow'
    BY <1>1, <1>2, <2>1, <2>4, IteratorPlaced
  <2> QED
    BY <2>2, <2>3, <2>5, <2>6, <2>7, InvEstablished
<1> QED
  BY <1>3, <1>4

LEMMA FindStep ==
  ASSUME TableInv, NEW n \in Uniques, NEW k \in Atom, find(n, k)
  PROVE TableInv'
<1>1. live /\ UNCHANGED <<rows, uniq, norm, stored, live, seq_>>
  BY DEF find, chain
<1>2. seq_ \in SeqNo /\ seq_ \notin DOMAIN rows
  BY <1>1, CounterFree
<1>3. ChainInv'
  BY <1>1, ChainKept
<1>4. /\ stored' \in SeqNo /\ seq_' \in SeqNo /\ live' \in BOOLEAN
      /\ CounterAhead'
  BY <1>1, CounterKept
<1>5. CASE uniq[n][k] # None
  <2> DEFINE s == uniq[n][k]
  <2>1. it' = Iterator(s, Item(s)) /\ seq2item_' = Put(seq2item_, s, Item(s))
    BY <1>5 DEF find, Loaded
  <2>2. s \in SeqNo
    BY <1>5 DEF TableInv, TypeOK
  <2>3. s \in DOMAIN rows
    BY <2>2 DEF TableInv, IndexesAgree
  <2> HIDE DEF s
  <2>4. Item(s) = rows[s] /\ rows[s] \in Row
    BY <2>3, RowFacts
  <2>5. CacheCoherent'
    BY <1>1, <2>1, <2>3, <2>4, CachePut
  <2>6. /\ it' \in [seq : SeqNo \cup {None}, item : Row]
        /\ DereferenceIsRow' /\ IteratorOnRow'
    BY <1>1, <2>1, <2>2, <2>3, <2>4, IteratorPlaced
  <2> QED
    BY <1>3, <1>4, <2>5, <2>6, InvEstablished
<1>6. CASE uniq[n][k] = None
  <2>1. it' = Iterator(seq_, DefaultRow) /\ seq2item_' = seq2item_
    BY <1>6 DEF find, cend
  <2>2. CacheCoherent'
    BY <1>1, <2>1, CacheKept
  <2>3. /\ it' \in [seq : SeqNo \cup {None}, item : Row]
        /\ DereferenceIsRow' /\ IteratorOnRow'
    BY <1>1, <1>2, <2>1, IteratorPlaced, ColumnAssumption
  <2> QED
    BY <1>3, <1>4, <2>2, <2>3, InvEstablished
<1> QED
  BY <1>5, <1>6

\* cbegin and operator++ give an iterator with the cached item, if there is one.
LEMMA IteratorAt ==
  ASSUME TableInv, live, UNCHANGED <<rows, uniq, norm, stored, live, seq_, seq2item_>>,
         NEW s \in SeqNo, it' = At(s), s = seq_ \/ s \in DOMAIN rows
  PROVE TableInv'
<1> DEFINE r == IF Cached(s) THEN seq2item_[s] ELSE DefaultRow
<1>1. it' = Iterator(s, r)
  BY DEF At
<1>2. r \in Row /\ (s \in DOMAIN seq2item_ => s \in DOMAIN rows /\ r = rows[s])
  BY ColumnAssumption DEF Cached, TableInv, TypeOK, CacheCoherent
<1> HIDE DEF r
<1>3. seq_ \notin DOMAIN rows
  BY CounterFree
<1>4. /\ it' \in [seq : SeqNo \cup {None}, item : Row]
      /\ DereferenceIsRow' /\ IteratorOnRow'
  BY <1>1, <1>2, <1>3, IteratorPlaced
<1>5. /\ stored' \in SeqNo /\ seq_' \in SeqNo /\ live' \in BOOLEAN
      /\ CounterAhead'
  BY CounterKept
<1>6. ChainInv' /\ CacheCoherent'
  BY ChainKept, CacheKept
<1> QED
  BY <1>4, <1>5, <1>6, InvEstablished

LEMMA CbeginStep ==
  ASSUME TableInv, cbegin
  PROVE TableInv'
<1>1. /\ live /\ it' = At(ScanUp(0))
      /\ UNCHANGED <<rows, uniq, norm, stored, live, seq_, seq2item_>>
  BY DEF cbegin, chain
<1>2. seq_ \in Nat /\ seq_ \in SeqNo
  BY <1>1, CounterFree
<1>3. ScanUp(0) \in 0 .. seq_ /\ (ScanUp(0) = seq_ \/ ScanUp(0) \in DOMAIN rows)
  BY <1>2, ScanUpStops
<1>4. ScanUp(0) \in SeqNo
  BY <1>2, <1>3, MaxSeqAssumption DEF SeqNo
<1> QED
  BY <1>1, <1>3, <1>4, IteratorAt

LEMMA IncrementStep ==
  ASSUME TableInv, increment
  PROVE TableInv'
<1>1. /\ live /\ it.seq \in 0 .. seq_
      /\ UNCHANGED <<rows, uniq, norm, stored, live, seq_, seq2item_>>
      /\ it' = IF it.seq = seq_ THEN it ELSE At(NextSeq(it.seq))
  BY DEF increment, chain
<1>2. seq_ \in Nat /\ seq_ \in SeqNo
  BY <1>1, CounterFree
<1>3. CASE it.seq = seq_
  <2>1. UNCHANGED vars
    BY <1>1, <1>3 DEF vars
  <2> QED
    BY <2>1 DEF vars, TableInv, TypeOK, NormalsWellFormed, IndexesAgree, CounterAhead,
                CacheCoherent, DereferenceIsRow, IteratorOnRow, has_state_db, Deref, Cached
<1>4. CASE it.seq # seq_
  <2> DEFINE s == it.seq + 1
             t == NextSeq(it.seq)
  <2>1. s \in 0 .. seq_
    BY <1>1, <1>2, <1>4
  <2>2. t = IF Cached(s) THEN s ELSE ScanUp(s)
    BY <1>4 DEF NextSeq
  <2>3. Cached(s) => s \in DOMAIN rows /\ s \in SeqNo
    BY DEF Cached, TableInv, TypeOK, CacheCoherent
  <2> HIDE DEF s, t
  <2>4. ScanUp(s) \in s .. seq_ /\ (ScanUp(s) = seq_ \/ ScanUp(s) \in DOMAIN rows)
    BY <1>2, <2>1, ScanUpStops
  <2>5. ScanUp(s) \in SeqNo
    BY <1>2, <2>1, <2>4, MaxSeqAssumption DEF SeqNo
  <2>6. t \in SeqNo /\ (t = seq_ \/ t \in DOMAIN rows)
    BY <2>2, <2>3, <2>4, <2>5
  <2>7. it' = At(t)
    BY <1>1, <1>4 DEF t
  <2> QED
    BY <1>1, <2>6, <2>7, IteratorAt
<1> QED
  BY <1>3, <1>4

LEMMA DereferenceStep ==
  ASSUME TableInv, dereference
  PROVE TableInv'
<1>1. /\ live /\ it.seq \in 0 .. seq_ - 1
      /\ it' = [it EXCEPT !.item = Deref(it)]
      /\ seq2item_' = DerefCache(it)
      /\ UNCHANGED <<rows, uniq, norm, stored, live, seq_>>
  BY DEF dereference, chain
<1>2. seq_ \in Nat
  BY <1>1, CounterFree
<1>3. it.seq \in DOMAIN rows
  BY <1>1, <1>2 DEF TableInv, IteratorOnRow, None
<1>4. /\ Deref(it) = rows[it.seq] /\ rows[it.seq] \in Row /\ it.seq \in SeqNo
      /\ DerefCache(it) = seq2item_ \/ DerefCache(it) = Put(seq2item_, it.seq, rows[it.seq])
  BY <1>3, DerefRow, RowFacts
<1>5. CacheCoherent'
  BY <1>1, <1>3, <1>4, CachePut, CacheKept
<1>6. it' = Iterator(it.seq, rows[it.seq])
  BY <1>1, <1>4 DEF Iterator, TableInv, TypeOK
<1>7. /\ it' \in [seq : SeqNo \cup {None}, item : Row]
      /\ DereferenceIsRow' /\ IteratorOnRow'
  <2> DEFINE s == it.seq
             r == rows[it.seq]
  <2>1. s \in SeqNo /\ r \in Row /\ it' = Iterator(s, r) /\ s \in DOMAIN rows' /\ r = rows'[s]
    BY <1>1, <1>3, <1>4, <1>6
  <2> HIDE DEF s, r
  <2> QED
    BY <1>1, <2>1, IteratorPlaced
<1>8. /\ stored' \in SeqNo /\ seq_' \in SeqNo /\ live' \in BOOLEAN
      /\ CounterAhead' /\ ChainInv'
  BY <1>1, CounterKept, ChainKept
<1> QED
  BY <1>5, <1>7, <1>8, InvEstablished

\* A step that changes one row in a column that is not indexed.
LEMMA ChangeStep ==
  ASSUME TableInv, NEW s \in DOMAIN rows, NEW new \in Row,
         \A n \in Names : rows[s][n] = new[n],
         rows' = Put(rows, s, new), seq2item_' = Put(seq2item_, s, new),
         it' = NoIterator, UNCHANGED <<uniq, norm, stored, live, seq_>>
  PROVE TableInv'
<1>1. ChainInv' /\ CacheCoherent'
  BY RowChanged, CacheReplaced
<1>2. DOMAIN rows' = DOMAIN rows
  BY DEF Put
<1>3. /\ stored' \in SeqNo /\ seq_' \in SeqNo /\ live' \in BOOLEAN
      /\ CounterAhead'
  BY <1>2, CounterKept
<1> QED
  BY <1>1, <1>3, IteratorGone, InvEstablished

\* A step that at most loads a row into the cache.
LEMMA LoadStep ==
  ASSUME TableInv, NEW s \in DOMAIN rows,
         seq2item_' = seq2item_ \/ seq2item_' = Put(seq2item_, s, rows[s]),
         it' = NoIterator, UNCHANGED <<rows, uniq, norm, stored, live, seq_>>
  PROVE TableInv'
<1>1. ChainInv' /\ CacheCoherent'
  BY ChainKept, CacheKept, CachePut
<1>2. /\ stored' \in SeqNo /\ seq_' \in SeqNo /\ live' \in BOOLEAN
      /\ CounterAhead'
  BY CounterKept
<1> QED
  BY <1>1, <1>2, IteratorGone, InvEstablished

\* A step that takes a row from the table, its indexes and the cache.
LEMMA TakeStep ==
  ASSUME TableInv, NEW s \in DOMAIN rows, NEW r, r = rows[s],
         uniq' = [n \in Uniques |-> [uniq[n] EXCEPT ![r[n]] = None]],
         norm' = [n \in Normals |-> [norm[n] EXCEPT ![r[n]] = Deleted(@, s)]],
         rows' = Drop(rows, s),
         \/ seq2item_' = Drop(seq2item_, s)
         \/ seq2item_' = Drop(Put(seq2item_, s, r), s),
         it' = NoIterator, UNCHANGED <<stored, live, seq_>>
  PROVE TableInv'
<1>1. ChainInv'
  BY RowTaken
<1>2. CacheCoherent'
  BY DEF TableInv, CacheCoherent, Put, Drop
<1>3. DOMAIN rows' \subseteq DOMAIN rows
  BY DEF Drop
<1>4. /\ stored' \in SeqNo /\ seq_' \in SeqNo /\ live' \in BOOLEAN
      /\ CounterAhead'
  BY <1>3, CounterKept
<1> QED
  BY <1>1, <1>2, <1>4, IteratorGone, InvEstablished

\* A changed column leaves a row a row.
LEMMA RowUpdate ==
  ASSUME NEW r \in Row, NEW c \in Column, NEW v \in Atom
  PROVE [r EXCEPT ![c] = v] \in Row
BY DEF Row

LEMMA ModifyStep ==
  ASSUME TableInv, ~KeepIterators, NEW c \in Column, NEW v \in Atom, modify(c, v)
  PROVE TableInv'
<1> DEFINE old == Deref(it)
           new == [old EXCEPT ![c] = v]
<1>1. /\ it.seq \in DOMAIN rows /\ it' = NoIterator
      /\ IF \A n \in Names : old[n] = new[n]
         THEN rows' = Put(rows, it.seq, new) /\ seq2item_' = Put(seq2item_, it.seq, new)
         ELSE seq2item_' = DerefCache(it) /\ rows' = rows
      /\ UNCHANGED <<uniq, norm, stored, live, seq_>>
  BY DEF modify, has_state_db, Held
<1>2. /\ old = rows[it.seq] /\ old \in Row
      /\ DerefCache(it) = seq2item_ \/ DerefCache(it) = Put(seq2item_, it.seq, rows[it.seq])
  BY <1>1, DerefRow, RowFacts
<1> HIDE DEF old
<1>3. new \in Row
  BY <1>2, RowUpdate
<1> HIDE DEF new
<1>4. CASE \A n \in Names : old[n] = new[n]
  <2>1. \A n \in Names : rows[it.seq][n] = new[n]
    BY <1>2, <1>4
  <2> QED
    BY <1>1, <1>3, <1>4, <2>1, ChangeStep
<1>5. CASE ~(\A n \in Names : old[n] = new[n])
  BY <1>1, <1>2, <1>5, LoadStep
<1> QED
  BY <1>4, <1>5

LEMMA EraseStep ==
  ASSUME TableInv, ~KeepIterators, erase
  PROVE TableInv'
<1> DEFINE r == Deref(it)
<1>1. /\ it.seq \in DOMAIN rows /\ it' = NoIterator
      /\ uniq' = [n \in Uniques |-> [uniq[n] EXCEPT ![r[n]] = None]]
      /\ norm' = [n \in Normals |-> [norm[n] EXCEPT ![r[n]] = Deleted(@, it.seq)]]
      /\ rows' = Drop(rows, it.seq)
      /\ seq2item_' = Drop(seq2item_, it.seq)
      /\ UNCHANGED <<stored, live, seq_>>
  BY DEF erase, has_state_db, Held
<1>2. r = rows[it.seq]
  BY <1>1, DerefRow
<1> HIDE DEF r
<1> QED
  BY <1>1, <1>2, TakeStep

LEMMA IndexDereferenceStep ==
  ASSUME TableInv, ~KeepIterators,
         NEW n \in Normals, NEW k \in Atom, NEW p \in Positions(norm[n][k]),
         index_dereference(n, k, p)
  PROVE TableInv'
<1> DEFINE s == get_seq(norm[n][k], p)
<1>1. s \in DOMAIN rows
  BY NumberHasRow
<1>2. /\ seq2item_' = Put(seq2item_, s, Item(s)) /\ it' = NoIterator
      /\ UNCHANGED <<rows, uniq, norm, stored, live, seq_>>
  BY DEF index_dereference, Loaded, Held, chain
<1> HIDE DEF s
<1>3. Item(s) = rows[s]
  BY <1>1, RowFacts
<1> QED
  BY <1>1, <1>2, <1>3, LoadStep

LEMMA IndexModifyStep ==
  ASSUME TableInv, ~KeepIterators,
         NEW n \in Normals, NEW k \in Atom, NEW p \in Positions(norm[n][k]),
         NEW c \in Column, NEW v \in Atom, index_modify(n, k, p, c, v)
  PROVE TableInv'
<1> DEFINE s   == get_seq(norm[n][k], p)
           old == Item(s)
           new == [old EXCEPT ![c] = v]
<1>1. s \in DOMAIN rows
  BY NumberHasRow
<1>2. /\ it' = NoIterator
      /\ IF \A m \in Names : old[m] = new[m]
         THEN rows' = Put(rows, s, new) /\ seq2item_' = Put(seq2item_, s, new)
         ELSE seq2item_' = Put(seq2item_, s, old) /\ rows' = rows
      /\ UNCHANGED <<uniq, norm, stored, live, seq_>>
  BY DEF index_modify, Loaded, Held
<1> HIDE DEF s
<1>3. old = rows[s] /\ old \in Row
  BY <1>1, RowFacts
<1> HIDE DEF old
<1>4. new \in Row
  BY <1>3, RowUpdate
<1> HIDE DEF new
<1>5. CASE \A m \in Names : old[m] = new[m]
  BY <1>1, <1>2, <1>3, <1>4, <1>5, ChangeStep
<1>6. CASE ~(\A m \in Names : old[m] = new[m])
  BY <1>1, <1>2, <1>3, <1>6, LoadStep
<1> QED
  BY <1>5, <1>6

LEMMA IndexEraseStep ==
  ASSUME TableInv, ~KeepIterators,
         NEW n \in Normals, NEW k \in Atom, NEW p \in Positions(norm[n][k]),
         Place(n) = Len(Indices), index_erase(n, k, p)
  PROVE TableInv'
<1> DEFINE s == get_seq(norm[n][k], p)
           r == Item(s)
           KeyOf(m) == IF Place(m) <= Place(n) THEN r[m] ELSE Item(s)[m]
<1>1. s \in DOMAIN rows
  BY NumberHasRow
<1>2. /\ it' = NoIterator
      /\ uniq' = [m \in Uniques |-> [uniq[m] EXCEPT ![KeyOf(m)] = None]]
      /\ norm' = [m \in Normals |-> [norm[m] EXCEPT ![KeyOf(m)] = Deleted(@, s)]]
      /\ seq2item_' = Drop(Put(seq2item_, s, Item(s)), s)
      /\ rows' = Drop(rows, s)
      /\ UNCHANGED <<stored, live, seq_>>
  BY DEF index_erase, Loaded, Held
<1>3. \A m : KeyOf(m) = r[m]
  OBVIOUS
<1> HIDE DEF KeyOf
<1>4. /\ uniq' = [m \in Uniques |-> [uniq[m] EXCEPT ![r[m]] = None]]
      /\ norm' = [m \in Normals |-> [norm[m] EXCEPT ![r[m]] = Deleted(@, s)]]
  BY <1>2, <1>3
<1> HIDE DEF s
<1>5. r = rows[s]
  BY <1>1, RowFacts
<1>6. seq2item_' = Drop(Put(seq2item_, s, r), s)
  BY <1>2
<1>7. it' = NoIterator /\ rows' = Drop(rows, s) /\ UNCHANGED <<stored, live, seq_>>
  BY <1>2
<1> HIDE DEF r
<1> QED
  BY <1>1, <1>4, <1>5, <1>6, <1>7, TakeStep

\* Every step keeps the invariant.
LEMMA NextInv ==
  ASSUME ~KeepIterators, ~AnyIndexErase, TableInv, [Next]_vars
  PROVE TableInv'
<1>1. CASE Construct \/ Destroy
  BY <1>1, ConstructStep, DestroyStep
<1>2. CASE TableStep
  <2>1. ASSUME NEW r \in Row, emplace(r) PROVE TableInv'
    BY <2>1, EmplaceStep
  <2>2. ASSUME NEW n \in Uniques, NEW k \in Atom, find(n, k) PROVE TableInv'
    BY <2>2, FindStep
  <2>3. CASE cbegin \/ increment \/ dereference
    BY <2>3, CbeginStep, IncrementStep, DereferenceStep
  <2>4. CASE erase
    BY <2>4, EraseStep
  <2>5. ASSUME NEW c \in Column, NEW v \in Atom, modify(c, v) PROVE TableInv'
    BY <2>5, ModifyStep
  <2> QED
    BY <1>2, <2>1, <2>2, <2>3, <2>4, <2>5 DEF TableStep
<1>3. CASE IndexStep
  <2>1. PICK n \in Normals, k \in Atom : \E p \in Positions(norm[n][k]) :
          \/ index_dereference(n, k, p)
          \/ \E c \in Column, v \in Atom : index_modify(n, k, p, c, v)
          \/ (AnyIndexErase \/ Place(n) = Len(Indices)) /\ index_erase(n, k, p)
    BY <1>3 DEF IndexStep
  <2>2. PICK p \in Positions(norm[n][k]) :
          \/ index_dereference(n, k, p)
          \/ \E c \in Column, v \in Atom : index_modify(n, k, p, c, v)
          \/ (AnyIndexErase \/ Place(n) = Len(Indices)) /\ index_erase(n, k, p)
    BY <2>1
  <2>3. CASE index_dereference(n, k, p)
    BY <2>3, IndexDereferenceStep
  <2>4. ASSUME NEW c \in Column, NEW v \in Atom, index_modify(n, k, p, c, v)
        PROVE TableInv'
    BY <2>4, IndexModifyStep
  <2>5. CASE Place(n) = Len(Indices) /\ index_erase(n, k, p)
    BY <2>5, IndexEraseStep
  <2> QED
    BY <2>2, <2>3, <2>4, <2>5
<1>4. CASE UNCHANGED vars
  BY <1>4 DEF vars, TableInv, TypeOK, NormalsWellFormed, IndexesAgree, CounterAhead,
              CacheCoherent, DereferenceIsRow, IteratorOnRow, has_state_db, Deref, Cached
<1> QED
  BY <1>1, <1>2, <1>3, <1>4 DEF Next

-----------------------------------------------------------------------------
\* The theorems.

\* After every emplace, find, modify, erase, construction and destruction the
\* indexes, the cache, the counter and the contract's iterator agree with the
\* rows on the chain, and every key of a normal index is a sorted ring.
THEOREM TableInvariant ==
  ASSUME ~KeepIterators, ~AnyIndexErase
  PROVE Spec => []TableInv
<1>1. Init => TableInv
  BY InitInv
<1>2. TableInv /\ [Next]_vars => TableInv'
  BY NextInv
<1> QED
  BY <1>1, <1>2, PTL DEF Spec

\* Sequence numbers, keys, items and the iterator stay within their types.
THEOREM TableTypeCorrect ==
  ASSUME ~KeepIterators, ~AnyIndexErase
  PROVE Spec => []TypeOK
<1>1. TableInv => TypeOK
  BY DEF TableInv
<1> QED
  BY <1>1, TableInvariant, PTL

\* After every emplace, modify and erase, each unique index maps a key to the
\* one row that has it, and each normal index lists exactly the rows that have
\* the key.
THEOREM TableIndexesAgree ==
  ASSUME ~KeepIterators, ~AnyIndexErase
  PROVE Spec => []IndexesAgree
<1>1. TableInv => IndexesAgree
  BY DEF TableInv
<1> QED
  BY <1>1, TableInvariant, PTL

\* seq2item_ never holds an erased row or a value that modify() has replaced.
THEOREM TableCacheCoherent ==
  ASSUME ~KeepIterators, ~AnyIndexErase
  PROVE Spec => []CacheCoherent
<1>1. TableInv => CacheCoherent
  BY DEF TableInv
<1> QED
  BY <1>1, TableInvariant, PTL

\* *it is the row on the chain that the iterator stands on.
THEOREM TableDereference ==
  ASSUME ~KeepIterators, ~AnyIndexErase
  PROVE Spec => []DereferenceIsRow
<1>1. TableInv => DereferenceIsRow
  BY DEF TableInv
<1> QED
  BY <1>1, TableInvariant, PTL

\* What a step does to the sequence numbers in use.
LEMMA StepAdvances ==
  ASSUME ~KeepIterators, ~AnyIndexErase, TableInv, TableInv', [Next]_vars
  PROVE /\ DOMAIN rows' \ DOMAIN rows \subseteq {seq_}
        /\ stored' >= stored
        /\ ~live' => \A s \in DOMAIN rows' : s < stored'
<1>1. stored \in Nat /\ stored >= stored
  BY SeqNoNat DEF TableInv, TypeOK
<1>2. ~live' => \A s \in DOMAIN rows' : s < stored'
  BY DEF TableInv, CounterAhead
<1>3. stored' >= stored
  <2>1. CASE Destroy
    <3>1. stored' = seq_ /\ stored <= seq_
      BY <2>1 DEF Destroy, TableInv, CounterAhead
    <3> QED
      BY <3>1, SeqNoNat DEF TableInv, TypeOK
  <2>2. CASE Construct \/ cbegin \/ increment \/ dereference \/ erase \/ UNCHANGED vars
    BY <1>1, <2>2 DEF Construct, cbegin, increment, dereference, erase, chain, vars
  <2>3. ASSUME NEW r \in Row, emplace(r) PROVE stored' = stored
    BY <2>3 DEF emplace
  <2>4. ASSUME NEW n \in Uniques, NEW k \in Atom, find(n, k) PROVE stored' = stored
    BY <2>4 DEF find, chain
  <2>5. ASSUME NEW c \in Column, NEW v \in Atom, modify(c, v) PROVE stored' = stored
    BY <2>5 DEF modify
  <2>6. ASSUME NEW n, NEW k, NEW p, index_dereference(n, k, p) PROVE stored' = stored
    BY <2>6 DEF index_dereference, chain
  <2>7. ASSUME NEW n, NEW k, NEW p, NEW c, NEW v, index_modify(n, k, p, c, v)
        PROVE stored' = stored
    BY <2>7 DEF index_modify
  <2>8. ASSUME NEW n, NEW k, NEW p, index_erase(n, k, p) PROVE stored' = stored
    BY <2>8 DEF index_erase
  <2>9. IndexStep => stored' = stored
    BY <2>6, <2>7, <2>8 DEF IndexStep
  <2> QED
    BY <1>1, <2>1, <2>2, <2>3, <2>4, <2>5, <2>9 DEF Next, TableStep
<1>4. DOMAIN rows' \ DOMAIN rows \subseteq {seq_}
  <2>1. ASSUME NEW r \in Row, emplace(r) PROVE DOMAIN rows' \subseteq DOMAIN rows \cup {seq_}
    BY <2>1 DEF emplace, Put
  <2>2. ASSUME NEW c \in Column, NEW v \in Atom, modify(c, v)
        PROVE DOMAIN rows' \subseteq DOMAIN rows
    BY <2>2 DEF modify, Put, has_state_db
  <2>3. CASE erase
    BY <2>3 DEF erase, Drop
  <2>4. ASSUME NEW n \in Normals, NEW k \in Atom, NEW p \in Positions(norm[n][k]),
               NEW c \in Column, NEW v \in Atom, index_modify(n, k, p, c, v)
        PROVE DOMAIN rows' \subseteq DOMAIN rows
    <3>1. get_seq(norm[n][k], p) \in DOMAIN rows
      BY NumberHasRow
    <3> QED
      BY <2>4, <3>1 DEF index_modify, Put
  <2>5. ASSUME NEW n \in Normals, NEW k \in Atom, NEW p \in Positions(norm[n][k]),
               index_erase(n, k, p)
        PROVE DOMAIN rows' \subseteq DOMAIN rows
    BY <2>5 DEF index_erase, Drop
  <2>6. ASSUME NEW n \in Normals, NEW k \in Atom, NEW p \in Positions(norm[n][k]),
               index_dereference(n, k, p)
        PROVE rows' = rows
    BY <2>6 DEF index_dereference, chain
  <2>7. ASSUME NEW n \in Uniques, NEW k \in Atom, find(n, k) PROVE rows' = rows
    BY <2>7 DEF find, chain
  <2>8. CASE Construct \/ Destroy \/ cbegin \/ increment \/ dereference \/ UNCHANGED vars
    BY <2>8 DEF Construct, Destroy, cbegin, increment, dereference, chain, vars
  <2> QED
    BY <2>1, <2>2, <2>3, <2>4, <2>5, <2>6, <2>7, <2>8 DEF Next, TableStep, IndexStep
<1> QED
  BY <1>2, <1>3, <1>4

\* A new row takes a sequence number that no row had before, across the
\* destruction and construction of the object.
THEOREM TableSequenceAdvances ==
  ASSUME ~KeepIterators, ~AnyIndexErase
  PROVE Spec => SequenceAdvances
<1> DEFINE Advance == /\ DOMAIN rows' \ DOMAIN rows \subseteq {seq_}
                      /\ stored' >= stored
                      /\ ~live' => \A s \in DOMAIN rows' : s < stored'
<1>1. TableInv /\ TableInv' /\ [Next]_vars => [Advance]_vars
  BY StepAdvances
<1>2. SequenceAdvances <=> [][Advance]_vars
  BY DEF SequenceAdvances
<1> HIDE DEF Advance
<1> QED
  BY <1>1, <1>2, TableInvariant, PTL DEF Spec

-----------------------------------------------------------------------------
\* Traversal.

\* operator++ goes up, to the next row or to the end, and passes over no row.
LEMMA NextSeqSkipsNoRow ==
  ASSUME TableInv, live, NEW s \in 0 .. seq_, s # seq_
  PROVE /\ NextSeq(s) \in s + 1 .. seq_
        /\ NextSeq(s) = seq_ \/ NextSeq(s) \in DOMAIN rows
        /\ \A u \in s + 1 .. NextSeq(s) - 1 : u \notin DOMAIN rows
<1>1. seq_ \in Nat /\ s \in Nat /\ s + 1 \in 0 .. seq_
  BY CounterFree
<1>2. NextSeq(s) = IF Cached(s + 1) THEN s + 1 ELSE ScanUp(s + 1)
  BY DEF NextSeq
<1>3. CASE Cached(s + 1)
  <2>1. s + 1 \in DOMAIN rows
    BY <1>3 DEF Cached, TableInv, CacheCoherent
  <2> QED
    BY <1>1, <1>2, <1>3, <2>1
<1>4. CASE ~Cached(s + 1)
  <2> DEFINE t == s + 1
  <2>1. t \in 0 .. seq_
    BY <1>1
  <2> HIDE DEF t
  <2>2. /\ ScanUp(t) \in t .. seq_
        /\ ScanUp(t) = seq_ \/ ScanUp(t) \in DOMAIN rows
        /\ \A u \in t .. ScanUp(t) - 1 : u \notin DOMAIN rows
    BY <1>1, <2>1, ScanUpStops
  <2> QED
    BY <1>2, <1>4, <2>2 DEF t
<1> QED
  BY <1>3, <1>4

\* The numbers from s on that a loop ought to meet.
Ahead(s) == IF s = seq_ THEN {} ELSE {s} \cup {t \in DOMAIN rows : t > s}

\* They are s and those from the next position on.
LEMMA AheadUnfolds ==
  ASSUME TableInv, live, NEW s \in 0 .. seq_, s # seq_
  PROVE Ahead(s) = {s} \cup Ahead(NextSeq(s))
<1> DEFINE t == NextSeq(s)
<1>1. /\ t \in s + 1 .. seq_
      /\ t = seq_ \/ t \in DOMAIN rows
      /\ \A u \in s + 1 .. t - 1 : u \notin DOMAIN rows
  BY NextSeqSkipsNoRow
<1> HIDE DEF t
<1>2. seq_ \in Nat /\ s \in Nat /\ t \in Nat /\ t > s
  BY <1>1, CounterFree
<1>3. \A u \in DOMAIN rows : u \in Nat /\ u < seq_
  BY RowFacts
<1>4. \A u \in DOMAIN rows : u > s <=> u >= t
  <2> TAKE u \in DOMAIN rows
  <2>1. u > s /\ u < t => u \in s + 1 .. t - 1
    BY <1>2, <1>3
  <2> QED
    BY <1>1, <1>2, <1>3, <2>1
<1>5. {u \in DOMAIN rows : u > s} = Ahead(t)
  <2>1. CASE t = seq_
    BY <1>2, <1>3, <1>4, <2>1 DEF Ahead
  <2>2. CASE t # seq_
    BY <1>1, <1>2, <1>3, <1>4, <2>2 DEF Ahead
  <2> QED
    BY <2>1, <2>2
<1> QED
  BY <1>5 DEF Ahead, t

\* The recursion of visit has a solution, and it has only one.
LEMMA VisitIsAhead ==
  ASSUME TableInv, live, NEW s0 \in 0 .. seq_
  PROVE visit[s0] = Ahead(s0)
<1> DEFINE Step(f) == [s \in 0 .. seq_ |-> IF s = seq_ THEN {} ELSE {s} \cup f[NextSeq(s)]]
           a == [s \in 0 .. seq_ |-> Ahead(s)]
<1>1. seq_ \in Nat
  BY CounterFree
<1>2. \A s \in 0 .. seq_ : s # seq_ => NextSeq(s) \in 0 .. seq_ /\ NextSeq(s) > s
  <2> TAKE s \in 0 .. seq_
  <2> HAVE s # seq_
  <2>1. NextSeq(s) \in s + 1 .. seq_
    BY NextSeqSkipsNoRow
  <2> QED
    BY <1>1, <2>1
<1>3. a = Step(a)
  <2>1. ASSUME NEW s \in 0 .. seq_
        PROVE Ahead(s) = IF s = seq_ THEN {} ELSE {s} \cup a[NextSeq(s)]
    <3>1. CASE s = seq_
      BY <3>1 DEF Ahead
    <3>2. CASE s # seq_
      <4>1. a[NextSeq(s)] = Ahead(NextSeq(s))
        BY <1>2, <3>2
      <4> QED
        BY <3>2, <4>1, AheadUnfolds
    <3> QED
      BY <3>1, <3>2
  <2> QED
    BY <2>1
<1>4. visit = CHOOSE f : f = Step(f)
  BY DEF visit
<1> HIDE DEF Step
<1>5. visit = Step(visit)
  BY <1>3, <1>4
<1>6. \A s \in 0 .. seq_ : visit[s] = IF s = seq_ THEN {} ELSE {s} \cup visit[NextSeq(s)]
  BY <1>5 DEF Step
<1>7. visit[seq_] = Ahead(seq_)
  <2>1. seq_ \in 0 .. seq_
    BY <1>1
  <2>2. visit[seq_] = {}
    BY <1>6, <2>1
  <2>3. Ahead(seq_) = {}
    BY DEF Ahead
  <2> QED
    BY <2>2, <2>3
<1> DEFINE W == {m \in Nat : m <= seq_ /\ visit[seq_ - m] # Ahead(seq_ - m)}
<1>8. W = {}
  <2>1. SUFFICES ASSUME W # {} PROVE FALSE
    OBVIOUS
  <2>2. PICK m \in W : \A y \in W : m <= y
    BY <2>1, LeastSerial
  <2> DEFINE s == seq_ - m
  <2>3. m \in Nat /\ m <= seq_ /\ s \in 0 .. seq_ /\ visit[s] # Ahead(s)
    BY <1>1, <2>2
  <2>4. s # seq_
    BY <1>7, <2>3
  <2> HIDE DEF s
  <2> DEFINE t == NextSeq(s)
             l == seq_ - t
  <2>5. t \in 0 .. seq_ /\ t > s
    BY <1>2, <2>3, <2>4
  <2>6. l \in Nat /\ l <= seq_ /\ l < m /\ seq_ - l = t
    BY <1>1, <2>3, <2>5 DEF s
  <2>7. l \notin W
    BY <2>2, <2>6
  <2>8. visit[t] = Ahead(t)
    BY <2>6, <2>7
  <2>9. visit[s] = {s} \cup visit[t]
    BY <1>6, <2>3, <2>4
  <2>10. Ahead(s) = {s} \cup Ahead(t)
    BY <2>3, <2>4, AheadUnfolds
  <2> QED
    BY <2>3, <2>8, <2>9, <2>10
<1>9. seq_ - s0 \in Nat /\ seq_ - s0 <= seq_ /\ seq_ - (seq_ - s0) = s0
  BY <1>1
<1> QED
  BY <1>8, <1>9

\* A loop from cbegin to cend through operator++ meets every row of the table
\* and nothing else, whatever the cache holds.
THEOREM TableVisitsAllRows ==
  ASSUME ~KeepIterators, ~AnyIndexErase
  PROVE Spec => []VisitsAllRows
<1>1. TableInv => VisitsAllRows
  <2> SUFFICES ASSUME TableInv, live PROVE visit[ScanUp(0)] = DOMAIN rows
    BY DEF VisitsAllRows
  <2> DEFINE t == ScanUp(0)
  <2>1. seq_ \in Nat /\ 0 \in 0 .. seq_
    BY CounterFree
  <2>2. /\ t \in 0 .. seq_
        /\ t = seq_ \/ t \in DOMAIN rows
        /\ \A u \in 0 .. t - 1 : u \notin DOMAIN rows
    BY <2>1, ScanUpStops
  <2> HIDE DEF t
  <2>3. \A u \in DOMAIN rows : u \in Nat /\ u < seq_
    BY RowFacts
  <2>4. \A u \in DOMAIN rows : u >= t
    <3> TAKE u \in DOMAIN rows
    <3>1. u < t => u \in 0 .. t - 1
      BY <2>1, <2>2, <2>3
    <3> QED
      BY <2>1, <2>2, <2>3, <3>1
  <2>5. Ahead(t) = DOMAIN rows
    <3>1. CASE t = seq_
      BY <2>1, <2>3, <2>4, <3>1 DEF Ahead
    <3>2. CASE t # seq_
      BY <2>2, <2>3, <2>4, <3>2 DEF Ahead
    <3> QED
      BY <3>1, <3>2
  <2>6. visit[t] = Ahead(t)
    BY <2>2, VisitIsAhead
  <2> QED
    BY <2>5, <2>6 DEF t
<1> QED
  BY <1>1, TableInvariant, PTL
=============================================================================
