---------------------------- MODULE NormalIndex -----------------------------
(***************************************************************************)
(* One key value of a normal (non-unique) index of db/multi_index.hpp: the *)
(* sequence numbers of its rows, kept in the chain state as sections of at *)
(* most MAXSIZE numbers.  Sections are numbered by serials, linked in a    *)
(* ring through previous and next, and the head always has serial 0.       *)
(* Serials of emptied sections leave gaps that the binary search of        *)
(* delete_normal_index_db steps over.                                      *)
(*                                                                         *)
(* The loop of delete_normal_index_db is an action of its own, one step    *)
(* per iteration; nothing else can run between its iterations, which is    *)
(* what pc says.                                                           *)
(***************************************************************************)
EXTENDS IndexSections, FiniteSets

CONSTANTS
  MaxSeq,    \* bound on the sequence numbers handed out
  Word       \* one more than the largest serial a uint64_t holds

ASSUME WordAssumption == MaxSeq \in Nat /\ Word \in Nat /\ Word > MaxSeq + 1

VARIABLES
  db,             \* serial -> section, for the serials with a value in the chain
  next_seq,       \* sequence numbers below it have been handed out
  pc,             \* "idle", or "search" inside delete_normal_index_db
  seq_,           \* the argument of that delete_normal_index_db
  begin_serial,   \* its loop variables
  end_serial

vars == <<db, next_seq, pc, seq_, begin_serial, end_serial>>
loop == <<pc, seq_, begin_serial, end_serial>>

Serial  == 0 .. Word - 1
SeqNo   == 0 .. MaxSeq

-----------------------------------------------------------------------------
\* emplace() hands out increasing sequence numbers; the numbers in between
\* belong to rows with another key value.
append_normal_index_one_db(seq) ==
  /\ pc = "idle"
  /\ seq \in next_seq .. MaxSeq
  /\ db' = Appended(db, seq)
  /\ next_seq' = seq + 1
  /\ UNCHANGED loop

\* The call: the single section is treated at once, several are searched.
\* Callers pass sequence numbers of rows that exist or once existed.
delete_normal_index_db(seq) ==
  /\ pc = "idle"
  /\ seq < next_seq
  /\ \/ /\ ~has_normal_index_db(db)
        /\ UNCHANGED <<db, loop>>
     \/ /\ has_normal_index_db(db)
        /\ Alone(db[HEADSERIAL])
        /\ db' = ErasedFrom(db, HEADSERIAL, seq)
        /\ UNCHANGED loop
     \/ /\ has_normal_index_db(db)
        /\ ~Alone(db[HEADSERIAL])
        /\ pc' = "search"
        /\ seq_' = seq
        /\ begin_serial' = HEADSERIAL
        /\ end_serial' = db[HEADSERIAL].previous
        /\ UNCHANGED db
  /\ UNCHANGED next_seq

Return ==
  /\ pc' = "idle"
  /\ seq_' = 0
  /\ begin_serial' = HEADSERIAL
  /\ end_serial' = HEADSERIAL
  /\ UNCHANGED next_seq

\* The lambdas next_valid and previous_valid scan the serials up to
\* head.previous, and down to the head, for one with a section.
HasNextValid(s) == \E t \in DOMAIN db : t >= s

next_valid(s) == CHOOSE t \in DOMAIN db : t >= s /\ \A u \in DOMAIN db : u >= s => t <= u

previous_valid(s) == CHOOSE t \in DOMAIN db : t <= s /\ \A u \in DOMAIN db : u <= s => u <= t

mid_serial == (begin_serial + end_serial) \div 2

Mid   == next_valid(mid_serial)
Front == db[Mid].vect_seq[1]
Back  == db[Mid].vect_seq[Len(db[Mid].vect_seq)]

\* An iteration in which a section was found at or above the middle.
Iteration == pc = "search" /\ begin_serial <= end_serial /\ HasNextValid(mid_serial)

\* Mutant of SearchUp: the search gives up instead of stepping over a gap.
SearchUp_no_gap ==
  /\ Iteration
  /\ Back < seq_
  /\ IF Mid + 1 \in DOMAIN db
     THEN /\ begin_serial' = Mid + 1
          /\ UNCHANGED <<next_seq, pc, seq_, end_serial>>
     ELSE Return
  /\ UNCHANGED db

SearchUp ==
  /\ Iteration
  /\ Back < seq_
  /\ IF HasNextValid(Mid + 1)
     THEN /\ begin_serial' = next_valid(Mid + 1)
          /\ UNCHANGED <<next_seq, pc, seq_, end_serial>>
     ELSE Return
  /\ UNCHANGED db

\* Mutant of SearchDown: the middle itself is kept in the range.
SearchDown_keeps_mid ==
  /\ Iteration
  /\ Back >= seq_
  /\ Front > seq_
  /\ end_serial' = previous_valid(mid_serial)
  /\ UNCHANGED <<db, next_seq, pc, seq_, begin_serial>>

\* Mutant of SearchDown: previous_valid is not consulted, and a signed serial
\* goes below the head.
SearchDown_signed ==
  /\ Iteration
  /\ Back >= seq_
  /\ Front > seq_
  /\ end_serial' = mid_serial - 1
  /\ UNCHANGED <<db, next_seq, pc, seq_, begin_serial>>

\* mid_serial -= 1 wraps around when the head itself is too large.
SearchDown ==
  /\ Iteration
  /\ Back >= seq_
  /\ Front > seq_
  /\ end_serial' = previous_valid(IF Mid = mid_serial
                                  THEN (mid_serial - 1) % Word ELSE mid_serial)
  /\ UNCHANGED <<db, next_seq, pc, seq_, begin_serial>>

SearchHit ==
  /\ Iteration
  /\ Back >= seq_
  /\ Front <= seq_
  /\ db' = ErasedFrom(db, Mid, seq_)
  /\ Return

\* The loop ends without a section to look at.
SearchMiss ==
  /\ pc = "search"
  /\ begin_serial > end_serial \/ ~HasNextValid(mid_serial)
  /\ Return
  /\ UNCHANGED db

Search == SearchUp \/ SearchDown \/ SearchHit \/ SearchMiss
-----------------------------------------------------------------------------
Init ==
  /\ db = NoSections
  /\ next_seq = 0
  /\ pc = "idle"
  /\ seq_ = 0
  /\ begin_serial = HEADSERIAL
  /\ end_serial = HEADSERIAL

Next ==
  \/ \E seq \in SeqNo : append_normal_index_one_db(seq) \/ delete_normal_index_db(seq)
  \/ Search

Spec == Init /\ [][Next]_vars

\* A call that was made keeps executing.
FairSpec == Spec /\ WF_vars(Search)
-----------------------------------------------------------------------------
\* What is read from the index.

contents == Members(db)

\* The loop of get_normal_index_count_db from section s on.
count[s \in DOMAIN db] ==
  Len(db[s].vect_seq) + IF db[s].next = HEADSERIAL THEN 0 ELSE count[db[s].next]

get_normal_index_count_db == IF has_normal_index_db(db) THEN count[HEADSERIAL] ELSE 0

\* Positions of Index::const_iterator: serial_ and num_.
cend == <<HEADSERIAL, MAXSIZE>>

cbegin == IF has_normal_index_db(db) THEN <<HEADSERIAL, 0>> ELSE cend

get_seq(pos) == db[pos[1]].vect_seq[pos[2] + 1]

\* operator++
Increment(pos) ==
  LET section == db[pos[1]]
  IN IF pos[2] = Len(section.vect_seq) - 1
     THEN IF section.next = HEADSERIAL THEN cend ELSE <<section.next, 0>>
     ELSE <<pos[1], pos[2] + 1>>

\* operator--
Decrement(pos) ==
  LET section == db[pos[1]]
      before  == <<section.previous, Len(db[section.previous].vect_seq) - 1>>
  IN CASE pos[2] = 0 -> IF pos[1] = HEADSERIAL THEN cend ELSE before
       [] pos = cend -> before
       [] OTHER -> <<pos[1], pos[2] - 1>>

\* The positions with a number, and the numbers that a loop with operator++
\* meets from a position up to cend.
Positions ==
  {pos \in (DOMAIN db) \X (0 .. MAXSIZE - 1) : pos[2] < Len(db[pos[1]].vect_seq)}

visit[pos \in Positions \cup {cend}] ==
  IF pos = cend THEN {} ELSE {get_seq(pos)} \cup visit[Increment(pos)]
-----------------------------------------------------------------------------
\* Properties.

\* The types of the sections and of the loop's variables.
TypeOK ==
  /\ DOMAIN db \subseteq Serial
  /\ \A s \in DOMAIN db : db[s] \in Section
  /\ next_seq \in 0 .. MaxSeq + 1
  /\ pc \in {"idle", "search"}
  /\ seq_ \in SeqNo
  /\ begin_serial \in Serial
  /\ end_serial \in Serial

\* Whatever was appended and deleted, the sections form a ring in the order of
\* their serials, which head.previous closes.
Linked == Ring(db)

\* No section on the chain is empty or over MAXSIZE, and numbers increase
\* within a section and from section to section, up to the last one handed out:
\* what the binary search and lower_bound in delete_normal_index_db rely on.
Ordered == Sorted(db) /\ \A x \in contents : x < next_seq

\* A loop from cbegin to cend through operator++ meets the rows of the key, in
\* increasing order and so each once; operator-- retraces it from cend, and
\* count() answers the number of these rows.
TraversalComplete ==
  /\ visit[cbegin] = contents
  /\ \A pos \in Positions : Increment(pos) # cend =>
       /\ get_seq(pos) < get_seq(Increment(pos))
       /\ Decrement(Increment(pos)) = pos
  /\ cbegin # cend =>
       /\ Decrement(cbegin) = cend
       /\ Decrement(cend) \in Positions
       /\ Increment(Decrement(cend)) = cend
  /\ get_normal_index_count_db = Cardinality(contents)

Abs == INSTANCE IndexAbstract WITH
         pending <- IF pc = "search" THEN {seq_} ELSE {}

\* The sectioned list behaves like a set of sequence numbers: a deletion
\* removes its number whenever it is there, wherever the section lies and
\* whatever gaps surround it, and removes nothing else.
ImplementsSet == Abs!Spec

\* delete_normal_index_db returns, for every number that is in the index and
\* for every absent one that is not below all the numbers of the index (for
\* those mid_serial wraps around).
DeleteReturns ==
  (pc = "search" /\ db[HEADSERIAL].vect_seq[1] <= seq_) ~> (pc = "idle")
=============================================================================
