--------------------------- MODULE IndexSections ----------------------------
(***************************************************************************)
(* The sections of one key value of a normal index of db/multi_index.hpp,  *)
(* as values: a section holds up to MAXSIZE sequence numbers and the       *)
(* serials of its neighbours, and an index is a function from the serials  *)
(* that have a record in the chain state to their sections.                *)
(***************************************************************************)
EXTENDS Integers, Sequences, Functions

CONSTANT MAXSIZE   \* sequence numbers in a section (30 in the code)

ASSUME SizeAssumption == MAXSIZE \in Nat \ {0}

HEADSERIAL == 0

Section == [previous : Nat, vect_seq : Seq(Nat), next : Nat]

-----------------------------------------------------------------------------
\* The records of the chain state.

get_normal_index_one_db(d, s) == d[s]

set_normal_index_one_db(d, s, section) ==
  [t \in DOMAIN d \cup {s} |-> IF t = s THEN section ELSE d[t]]

delete_normal_index_one_db(d, s) == [t \in DOMAIN d \ {s} |-> d[t]]

has_normal_index_db(d) == HEADSERIAL \in DOMAIN d

NormalIndexValue(p, v, n) == [previous |-> p, vect_seq |-> v, next |-> n]

Alone(head) == head.previous = HEADSERIAL /\ head.next = HEADSERIAL

-----------------------------------------------------------------------------
\* append_normal_index_one_db

AppendFirst(d, seq) ==
  set_normal_index_one_db(d, HEADSERIAL,
                          NormalIndexValue(HEADSERIAL, <<seq>>, HEADSERIAL))

\* push_back into section s, which has room.
PushBack(d, s, seq) ==
  set_normal_index_one_db(d, s,
    [d[s] EXCEPT !.vect_seq = Append(@, seq)])

\* The head is the only section and is full.
AppendSecond(d, seq) ==
  LET head  == d[HEADSERIAL]
      fresh == HEADSERIAL + 1
      added == set_normal_index_one_db(d, fresh,
                 NormalIndexValue(HEADSERIAL, <<seq>>, HEADSERIAL))
  IN set_normal_index_one_db(added, HEADSERIAL,
       [head EXCEPT !.previous = fresh, !.next = fresh])

\* Mutant of AppendSection: the old last section is not linked to the new one.
AppendSection_unlinked(d, seq) ==
  LET head  == d[HEADSERIAL]
      last  == head.previous
      fresh == last + 1
      added == set_normal_index_one_db(d, fresh,
                 NormalIndexValue(last, <<seq>>, HEADSERIAL))
  IN set_normal_index_one_db(added, HEADSERIAL,
       [head EXCEPT !.previous = fresh])

\* The last of several sections is full.
AppendSection(d, seq) ==
  LET head   == d[HEADSERIAL]
      last   == head.previous
      fresh  == last + 1
      added  == set_normal_index_one_db(d, fresh,
                  NormalIndexValue(last, <<seq>>, HEADSERIAL))
      linked == set_normal_index_one_db(added, last,
                  [d[last] EXCEPT !.next = fresh])
  IN set_normal_index_one_db(linked, HEADSERIAL,
       [head EXCEPT !.previous = fresh])

HasRoom(section) == Len(section.vect_seq) < MAXSIZE

\* Mutant of Appended: the test for a full last section is off by one.
Appended_overfull(d, seq) ==
  LET head == d[HEADSERIAL]
  IN CASE ~has_normal_index_db(d) -> AppendFirst(d, seq)
       [] has_normal_index_db(d) /\ Alone(head) ->
            IF HasRoom(head) THEN PushBack(d, HEADSERIAL, seq)
            ELSE AppendSecond(d, seq)
       [] has_normal_index_db(d) /\ head.previous # HEADSERIAL ->
            IF Len(d[head.previous].vect_seq) <= MAXSIZE
            THEN PushBack(d, head.previous, seq)
            ELSE AppendSection(d, seq)
       [] OTHER -> d

\* The index after appending seq.
Appended(d, seq) ==
  LET head == d[HEADSERIAL]
  IN CASE ~has_normal_index_db(d) -> AppendFirst(d, seq)
       [] has_normal_index_db(d) /\ Alone(head) ->
            IF HasRoom(head) THEN PushBack(d, HEADSERIAL, seq)
            ELSE AppendSecond(d, seq)
       [] has_normal_index_db(d) /\ head.previous # HEADSERIAL ->
            IF HasRoom(d[head.previous]) THEN PushBack(d, head.previous, seq)
            ELSE AppendSection(d, seq)
       [] OTHER -> d

-----------------------------------------------------------------------------
\* delete_normal_index_db

lower_bound(v, seq) ==
  CHOOSE i \in 1 .. Len(v) + 1 :
    /\ \A j \in 1 .. i - 1 : v[j] < seq
    /\ i <= Len(v) => v[i] >= seq

EraseAt(v, i) == [j \in 1 .. Len(v) - 1 |-> IF j < i THEN v[j] ELSE v[j + 1]]

\* A section's numbers once seq is erased; all of them if it is not there.
Remaining(v, seq) ==
  LET i == lower_bound(v, seq)
  IN IF i <= Len(v) /\ v[i] = seq THEN EraseAt(v, i) ELSE v

\* Mutant of HeadReplaced: the new head does not take over the link to the
\* last section.
HeadReplaced_keeps_previous(d) ==
  LET n  == d[HEADSERIAL].next
      nn == d[n].next
      moved == set_normal_index_one_db(
                 delete_normal_index_one_db(d, n), HEADSERIAL, d[n])
  IN IF nn = HEADSERIAL THEN moved
     ELSE set_normal_index_one_db(moved, nn,
            [moved[nn] EXCEPT !.previous = HEADSERIAL])

\* The emptied head is replaced by its successor, whose serial is vacated.
HeadReplaced(d) ==
  LET head  == d[HEADSERIAL]
      n     == head.next
      rest  == delete_normal_index_one_db(delete_normal_index_one_db(d, HEADSERIAL), n)
      moved == set_normal_index_one_db(rest, HEADSERIAL,
                 [d[n] EXCEPT !.previous = head.previous])
      nn    == d[n].next
  IN IF head.previous = n
     THEN set_normal_index_one_db(rest, HEADSERIAL, d[n])
     ELSE set_normal_index_one_db(moved, nn,
            [moved[nn] EXCEPT !.previous = HEADSERIAL])

\* The emptied section s, not the head, is cut out of the ring.
CutOut(d, s) ==
  LET p    == d[s].previous
      n    == d[s].next
      gone == delete_normal_index_one_db(d, s)
      cut  == set_normal_index_one_db(gone, p, [gone[p] EXCEPT !.next = n])
  IN IF p = HEADSERIAL /\ n = HEADSERIAL
     THEN set_normal_index_one_db(gone, HEADSERIAL,
            [gone[HEADSERIAL] EXCEPT !.previous = HEADSERIAL, !.next = HEADSERIAL])
     ELSE set_normal_index_one_db(cut, n, [cut[n] EXCEPT !.previous = p])

\* Section s once it has lost its last number.
Dropped(d, s) ==
  CASE s # HEADSERIAL -> CutOut(d, s)
    [] s = HEADSERIAL /\ Alone(d[s]) -> delete_normal_index_one_db(d, s)
    [] OTHER -> HeadReplaced(d)

\* The index after erasing seq from section s.
ErasedFrom(d, s, seq) ==
  LET v == Remaining(d[s].vect_seq, seq)
  IN IF v = <<>> THEN Dropped(d, s)
     ELSE set_normal_index_one_db(d, s, [d[s] EXCEPT !.vect_seq = v])

-----------------------------------------------------------------------------
\* The sequence numbers of an index.
Members(d) == UNION {Range(d[s].vect_seq) : s \in DOMAIN d}

NoSections == [s \in {} |-> NormalIndexValue(HEADSERIAL, <<>>, HEADSERIAL)]

\* The sections form a ring in the order of their serials: the head exists when
\* any section does, head.previous is the largest serial in use, and next and
\* previous of the others are the nearest serials in use, gaps or no gaps.
Ring(d) ==
  LET last == d[HEADSERIAL].previous
  IN DOMAIN d # {} =>
       /\ HEADSERIAL \in DOMAIN d
       /\ last \in DOMAIN d
       /\ d[last].next = HEADSERIAL
       /\ \A s \in DOMAIN d :
            /\ s <= last
            /\ s # last =>
                 /\ d[s].next \in DOMAIN d
                 /\ d[s].next > s
                 /\ \A t \in DOMAIN d : t <= s \/ t >= d[s].next
            /\ s # HEADSERIAL =>
                 /\ d[s].previous \in DOMAIN d
                 /\ d[s].previous < s
                 /\ \A t \in DOMAIN d : t <= d[s].previous \/ t >= s

\* No section is empty or over MAXSIZE, and numbers increase within a section
\* and from section to section.
Sorted(d) ==
  /\ \A s \in DOMAIN d :
       /\ Len(d[s].vect_seq) \in 1 .. MAXSIZE
       /\ \A i, j \in 1 .. Len(d[s].vect_seq) :
            i < j => d[s].vect_seq[i] < d[s].vect_seq[j]
  /\ \A s, t \in DOMAIN d : s < t =>
       \A x \in Range(d[s].vect_seq), y \in Range(d[t].vect_seq) : x < y
=============================================================================
