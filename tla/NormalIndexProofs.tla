------------------------- MODULE NormalIndexProofs --------------------------
(***************************************************************************)
(* Proofs about one key value of a normal index for every size of a        *)
(* section and every number of rows: its sections stay a sorted ring, and  *)
(* they behave like a set of sequence numbers, which is to say that the    *)
(* binary search of delete_normal_index_db never misses its section.       *)
(***************************************************************************)
EXTENDS NormalIndex, IndexSectionsProofs, FiniteSetTheorems, FunctionTheorems

\* Inside delete_normal_index_db there are sections, end_serial is the serial
\* of one, and a section with the number is within the range still searched.
SearchInRange ==
  pc = "search" =>
    /\ HEADSERIAL \in DOMAIN db
    /\ end_serial \in DOMAIN db
    /\ \A s \in DOMAIN db :
         seq_ \in Range(db[s].vect_seq) => begin_serial <= s /\ s <= end_serial

\* The inductive invariant.
IndexInv == TypeOK /\ Linked /\ Ordered /\ SerialsLow(db) /\ SearchInRange

-----------------------------------------------------------------------------
\* The index as a value.

\* The invariants make the index well formed.
LEMMA IndexWellFormed ==
  ASSUME IndexInv
  PROVE /\ WellFormed(db)
        /\ contents \subseteq Nat
        /\ \A x \in contents : x < next_seq
        /\ \A s \in DOMAIN db : s \in Nat /\ s < Word
        /\ next_seq \in Nat /\ MaxSeq \in Nat /\ Word \in Nat /\ Word > MaxSeq + 1
        /\ seq_ \in Nat
<1>1. /\ next_seq \in Nat /\ MaxSeq \in Nat /\ Word \in Nat /\ Word > MaxSeq + 1
      /\ seq_ \in Nat
  BY WordAssumption DEF IndexInv, TypeOK, SeqNo
<1>2. \A s \in DOMAIN db : s \in Nat /\ s < Word
  BY <1>1 DEF IndexInv, TypeOK, Serial
<1>3. IsIndex(db)
  BY <1>2 DEF IsIndex, IndexInv, TypeOK
<1>4. WellFormed(db)
  BY <1>3 DEF WellFormed, IndexInv, Linked, Ordered
<1>5. contents \subseteq Nat
  BY <1>3, MembersNat DEF contents
<1>6. \A x \in contents : x < next_seq
  BY DEF IndexInv, Ordered
<1> QED
  BY <1>1, <1>2, <1>4, <1>5, <1>6

\* Serials are no larger than sequence numbers, so they never reach Word.
LEMMA SerialsBounded ==
  ASSUME NEW d, WellFormed(d), \A x \in Members(d) : x <= MaxSeq
  PROVE /\ DOMAIN d \subseteq Serial
        /\ \A s \in DOMAIN d : d[s] \in Section
<1>1. ASSUME NEW s \in DOMAIN d PROVE s \in Serial
  <2>1. /\ s \in Nat
        /\ d[s].vect_seq \in Seq(Nat)
        /\ Len(d[s].vect_seq) \in 1 .. MAXSIZE
    BY SectionFields DEF WellFormed, IsIndex, Sorted
  <2>2. d[s].vect_seq # <<>>
    BY <2>1
  <2>3. PICK x \in Range(d[s].vect_seq) : TRUE
    BY <2>1, <2>2, EmptyRange
  <2>4. s <= x /\ x \in Nat
    BY <2>1, <2>3, SectionRange DEF WellFormed, SerialsLow
  <2>5. x <= MaxSeq
    BY <2>3, MembersOf
  <2> QED
    BY <2>1, <2>4, <2>5, WordAssumption DEF Serial
<1> QED
  BY <1>1 DEF WellFormed, IsIndex

-----------------------------------------------------------------------------
\* The lambdas next_valid and previous_valid.

\* next_valid finds the first section at or above s.
LEMMA NextValid ==
  ASSUME IndexInv, NEW s \in Nat, HasNextValid(s)
  PROVE /\ next_valid(s) \in DOMAIN db
        /\ next_valid(s) >= s
        /\ \A u \in DOMAIN db : u >= s => next_valid(s) <= u
<1> DEFINE S == {t \in DOMAIN db : t >= s}
<1>1. S \in SUBSET Nat
  BY IndexWellFormed
<1>2. S # {}
  BY DEF HasNextValid
<1>3. \E t \in S : \A u \in S : t <= u
  BY <1>1, <1>2, LeastSerial
<1>4. \E t \in DOMAIN db : t >= s /\ \A u \in DOMAIN db : u >= s => t <= u
  BY <1>3
<1> QED
  BY <1>4 DEF next_valid

\* previous_valid finds the last section at or below s.
LEMMA PreviousValid ==
  ASSUME IndexInv, NEW s \in Nat, HEADSERIAL \in DOMAIN db
  PROVE /\ previous_valid(s) \in DOMAIN db
        /\ previous_valid(s) <= s
        /\ \A u \in DOMAIN db : u <= s => u <= previous_valid(s)
<1> DEFINE S == {m \in Nat : s - m \in DOMAIN db}
<1>1. S \in SUBSET Nat
  OBVIOUS
<1>2. s \in S
  BY DEF HEADSERIAL
<1>3. PICK m \in S : \A u \in S : m <= u
  BY <1>1, <1>2, LeastSerial
<1>4. s - m \in DOMAIN db /\ s - m <= s
  BY <1>3
<1>5. ASSUME NEW u \in DOMAIN db, u <= s PROVE u <= s - m
  <2>1. u \in Nat
    BY IndexWellFormed
  <2>2. s - u \in Nat /\ s - (s - u) = u
    BY <1>5, <2>1
  <2>3. s - u \in S
    BY <2>2
  <2>4. m <= s - u
    BY <1>3, <2>3
  <2> QED
    BY <1>3, <2>1, <2>4
<1>6. \E t \in DOMAIN db : t <= s /\ \A u \in DOMAIN db : u <= s => u <= t
  BY <1>4, <1>5
<1> QED
  BY <1>6 DEF previous_valid

\* One less than a serial, as an unsigned number.
LEMMA OneLess ==
  ASSUME NEW m \in Nat, m < Word
  PROVE (m - 1) % Word \in Nat /\ (m > 0 => (m - 1) % Word = m - 1)
<1>1. Word \in Nat /\ Word > 1
  BY WordAssumption
<1> QED
  BY <1>1

\* What an iteration of the loop knows of its middle section.
LEMMA MidSection ==
  ASSUME IndexInv, Iteration
  PROVE /\ mid_serial \in Nat /\ mid_serial < Word
        /\ Mid \in DOMAIN db /\ Mid \in Nat /\ Mid >= mid_serial
        /\ \A u \in DOMAIN db : u >= mid_serial => Mid <= u
        /\ Front \in Range(db[Mid].vect_seq)
        /\ Back \in Range(db[Mid].vect_seq)
        /\ \A x \in Range(db[Mid].vect_seq) : x \in Nat /\ Front <= x /\ x <= Back
<1>1. mid_serial \in Nat /\ mid_serial < Word
  <2>1. begin_serial \in 0 .. Word - 1 /\ end_serial \in 0 .. Word - 1 /\ Word \in Nat
    BY WordAssumption DEF IndexInv, TypeOK, Serial
  <2> QED
    BY <2>1 DEF mid_serial
<1>2. HasNextValid(mid_serial)
  BY DEF Iteration
<1> HIDE DEF mid_serial
<1>3. /\ Mid \in DOMAIN db /\ Mid >= mid_serial
      /\ \A u \in DOMAIN db : u >= mid_serial => Mid <= u
  BY <1>1, <1>2, NextValid DEF Mid
<1>4. Mid \in Nat
  BY <1>3, IndexWellFormed
<1> DEFINE v == db[Mid].vect_seq
<1>5. v \in Seq(Nat) /\ Len(v) \in 1 .. MAXSIZE /\ Increasing(v)
  BY <1>3, IndexWellFormed, SectionFields DEF WellFormed, IsIndex, Sorted, Increasing
<1>6. Front = v[1] /\ Back = v[Len(v)]
  BY DEF Front, Back
<1> HIDE DEF v
<1>7. Len(v) \in Nat /\ Len(v) >= 1
  BY <1>5, SizeAssumption
<1>8. Front \in Range(v) /\ Back \in Range(v)
  BY <1>5, <1>6, <1>7, SectionRange
<1>9. ASSUME NEW x \in Range(v) PROVE x \in Nat /\ Front <= x /\ x <= Back
  <2>1. PICK i \in 1 .. Len(v) : v[i] = x
    BY <1>5, SectionRange
  <2>2. x \in Nat /\ Front \in Nat /\ Back \in Nat
    BY <1>5, <1>8, SectionRange
  <2>3. Front <= x
    <3>1. CASE i = 1
      BY <1>6, <2>1, <2>2, <3>1
    <3>2. CASE i > 1
      BY <1>5, <1>6, <1>7, <2>1, <2>2, <3>2 DEF Increasing
    <3> QED
      BY <3>1, <3>2
  <2>4. x <= Back
    <3>1. CASE i = Len(v)
      BY <1>6, <2>1, <2>2, <3>1
    <3>2. CASE i < Len(v)
      BY <1>5, <1>6, <1>7, <2>1, <2>2, <3>2 DEF Increasing
    <3> QED
      BY <1>7, <3>1, <3>2
  <2> QED
    BY <2>2, <2>3, <2>4
<1> QED
  BY <1>1, <1>3, <1>4, <1>8, <1>9 DEF v

\* A number above the middle section lies in a later section.
LEMMA LaterSection ==
  ASSUME IndexInv, Iteration, Back < seq_,
         NEW s \in DOMAIN db, seq_ \in Range(db[s].vect_seq)
  PROVE s > Mid
<1>1. /\ Mid \in DOMAIN db /\ Mid \in Nat /\ Back \in Range(db[Mid].vect_seq)
      /\ Back \in Nat /\ \A x \in Range(db[Mid].vect_seq) : x \in Nat /\ x <= Back
  BY MidSection
<1>2. s \in Nat /\ seq_ \in Nat
  BY IndexWellFormed
<1>3. s # Mid
  BY <1>1, <1>2
<1>4. ~(s < Mid)
  <2>1. s < Mid => seq_ < Back
    BY <1>1 DEF IndexInv, Ordered, Sorted
  <2> QED
    BY <1>1, <1>2, <2>1
<1> QED
  BY <1>1, <1>2, <1>3, <1>4

\* A number below the middle section lies in an earlier section.
LEMMA EarlierSection ==
  ASSUME IndexInv, Iteration, Front > seq_,
         NEW s \in DOMAIN db, seq_ \in Range(db[s].vect_seq)
  PROVE s < Mid
<1>1. /\ Mid \in DOMAIN db /\ Mid \in Nat /\ Front \in Range(db[Mid].vect_seq)
      /\ Front \in Nat /\ \A x \in Range(db[Mid].vect_seq) : x \in Nat /\ Front <= x
  BY MidSection
<1>2. s \in Nat /\ seq_ \in Nat
  BY IndexWellFormed
<1>3. s # Mid
  BY <1>1, <1>2
<1>4. ~(s > Mid)
  <2>1. Mid < s => Front < seq_
    BY <1>1 DEF IndexInv, Ordered, Sorted
  <2> QED
    BY <1>1, <1>2, <2>1
<1> QED
  BY <1>1, <1>2, <1>3, <1>4

-----------------------------------------------------------------------------
\* The invariant, step by step.

\* What is to be shown of a step.
LEMMA InvEstablished ==
  ASSUME WellFormed(db'), \A x \in Members(db') : x < next_seq',
         next_seq' \in 0 .. MaxSeq + 1, pc' \in {"idle", "search"}, seq_' \in SeqNo,
         begin_serial' \in Serial, end_serial' \in Serial, SearchInRange'
  PROVE IndexInv'
<1>1. \A x \in Members(db') : x <= MaxSeq
  <2>1. Members(db') \subseteq Nat
    BY MembersNat DEF WellFormed
  <2> QED
    BY <2>1, WordAssumption
<1>2. DOMAIN db' \subseteq Serial /\ \A s \in DOMAIN db' : db'[s] \in Section
  BY <1>1, SerialsBounded
<1>3. TypeOK'
  BY <1>2 DEF TypeOK
<1> QED
  BY <1>3 DEF IndexInv, WellFormed, Linked, Ordered, contents

\* The head serial is a serial, and zero a sequence number.
LEMMA ZeroInRange ==
  HEADSERIAL \in Serial /\ 0 \in SeqNo
BY WordAssumption DEF HEADSERIAL, Serial, SeqNo

LEMMA InitInv ==
  ASSUME Init
  PROVE IndexInv /\ contents = {}
<1>1. DOMAIN db = {}
  BY DEF Init, NoSections
<1>2. contents = {}
  BY <1>1, MembersOf DEF contents
<1>3. Ring(db) /\ Sorted(db) /\ SerialsLow(db)
  BY <1>1 DEF Ring, Sorted, SerialsLow
<1>4. TypeOK
  BY <1>1, ZeroInRange, WordAssumption DEF Init, TypeOK
<1>5. SearchInRange
  BY DEF Init, SearchInRange
<1> QED
  BY <1>2, <1>3, <1>4, <1>5 DEF IndexInv, Linked, Ordered

LEMMA AppendStep ==
  ASSUME IndexInv, NEW seq \in SeqNo, append_normal_index_one_db(seq)
  PROVE IndexInv' /\ contents' = contents \cup {seq} /\ \A x \in contents : x < seq
<1>1. /\ seq \in Nat /\ seq >= next_seq /\ seq <= MaxSeq
      /\ db' = Appended(db, seq) /\ next_seq' = seq + 1 /\ pc = "idle"
      /\ UNCHANGED loop
  BY IndexWellFormed, WordAssumption DEF append_normal_index_one_db, SeqNo
<1>2. \A x \in contents : x < seq
  BY <1>1, IndexWellFormed
<1>3. WellFormed(db') /\ Members(db') = contents \cup {seq}
  BY <1>1, <1>2, IndexWellFormed, AppendedIsAddition DEF contents
<1>4. \A x \in Members(db') : x < next_seq'
  BY <1>1, <1>2, <1>3, IndexWellFormed
<1>5. next_seq' \in 0 .. MaxSeq + 1
  BY <1>1, WordAssumption
<1>6. IndexInv'
  BY <1>1, <1>3, <1>4, <1>5, InvEstablished
  DEF loop, IndexInv, TypeOK, SearchInRange
<1> QED
  BY <1>2, <1>3, <1>6 DEF contents

\* A call of delete_normal_index_db that returns at once.
LEMMA DeleteAtOnceStep ==
  ASSUME IndexInv, NEW seq \in SeqNo, delete_normal_index_db(seq), UNCHANGED loop
  PROVE IndexInv' /\ contents' = contents \ {seq}
<1>1. /\ pc = "idle" /\ UNCHANGED next_seq /\ seq \in Nat
      /\ pc' = pc /\ seq_' = seq_ /\ begin_serial' = begin_serial /\ end_serial' = end_serial
  BY WordAssumption DEF delete_normal_index_db, SeqNo, loop
<1>2. CASE ~has_normal_index_db(db)
  <2>1. db' = db
    BY <1>1, <1>2 DEF delete_normal_index_db
  <2>2. DOMAIN db = {}
    BY <1>2 DEF has_normal_index_db, IndexInv, Linked, Ring
  <2>3. contents = {} /\ contents' = contents
    BY <2>1, <2>2, MembersOf DEF contents
  <2>4. IndexInv'
    BY <1>1, <2>1 DEF IndexInv, TypeOK, Linked, Ordered, contents, SearchInRange
  <2> QED
    BY <2>3, <2>4
<1>3. CASE has_normal_index_db(db)
  <2>1. /\ HEADSERIAL \in DOMAIN db /\ Alone(db[HEADSERIAL])
        /\ db' = ErasedFrom(db, HEADSERIAL, seq)
    BY <1>1, <1>3 DEF delete_normal_index_db, has_normal_index_db
  <2>2. DOMAIN db = {HEADSERIAL}
    BY <2>1, IndexWellFormed, LastSectionTaken
  <2>3. /\ WellFormed(db')
        /\ Members(db') = contents \ (Range(db[HEADSERIAL].vect_seq) \cap {seq})
    BY <1>1, <2>1, IndexWellFormed, ErasedIsRemoval DEF contents
  <2>4. \A x \in contents : x \in Range(db[HEADSERIAL].vect_seq)
    BY <2>2, MembersOf DEF contents
  <2>5. Members(db') = contents \ {seq}
    BY <2>3, <2>4
  <2>6. \A x \in Members(db') : x < next_seq'
    BY <1>1, <2>5, IndexWellFormed
  <2>7. IndexInv'
    BY <1>1, <2>3, <2>6, InvEstablished DEF IndexInv, TypeOK, SearchInRange
  <2> QED
    BY <2>5, <2>7 DEF contents
<1> QED
  BY <1>2, <1>3

\* A call of delete_normal_index_db that begins to search.
LEMMA DeleteSearchStep ==
  ASSUME IndexInv, NEW seq \in SeqNo, delete_normal_index_db(seq), pc' = "search"
  PROVE IndexInv' /\ contents' = contents /\ pc = "idle" /\ seq_' = seq
<1>1. /\ pc = "idle" /\ seq_' = seq /\ next_seq' = next_seq /\ db' = db
      /\ HEADSERIAL \in DOMAIN db
      /\ begin_serial' = HEADSERIAL /\ end_serial' = db[HEADSERIAL].previous
  BY DEF delete_normal_index_db, loop, has_normal_index_db
<1>2. /\ db[HEADSERIAL].previous \in DOMAIN db
      /\ \A s \in DOMAIN db : s \in Nat /\ s <= db[HEADSERIAL].previous
  BY <1>1, IndexWellFormed DEF WellFormed, Ring
<1>3. SearchInRange'
  BY <1>1, <1>2 DEF SearchInRange, HEADSERIAL
<1>4. TypeOK'
  BY <1>1, <1>2, ZeroInRange DEF IndexInv, TypeOK
<1> QED
  BY <1>1, <1>3, <1>4 DEF IndexInv, Linked, Ordered, contents

\* The call returns without having changed anything.
LEMMA ReturnStep ==
  ASSUME IndexInv, Return, UNCHANGED db
  PROVE IndexInv' /\ contents' = contents
BY ZeroInRange
DEF Return, IndexInv, TypeOK, Linked, Ordered, contents, SearchInRange

LEMMA SearchUpStep ==
  ASSUME IndexInv, SearchUp
  PROVE /\ IndexInv'
        /\ contents' = contents
        /\ \/ pc' = "search" /\ pc = "search" /\ seq_' = seq_
           \/ pc' = "idle" /\ pc = "search" /\ seq_ \notin contents
<1>1. Iteration /\ Back < seq_ /\ db' = db /\ pc = "search"
  BY DEF SearchUp, Iteration
<1>2. Mid \in Nat
  BY <1>1, MidSection
<1>3. \A s \in DOMAIN db : seq_ \in Range(db[s].vect_seq) => s >= Mid + 1
  <2>1. ASSUME NEW s \in DOMAIN db, seq_ \in Range(db[s].vect_seq) PROVE s >= Mid + 1
    <3>1. s > Mid
      BY <1>1, <2>1, LaterSection
    <3> QED
      BY <1>2, <3>1, IndexWellFormed
  <2> QED
    BY <2>1
<1>4. CASE HasNextValid(Mid + 1)
  <2>1. /\ begin_serial' = next_valid(Mid + 1)
        /\ next_seq' = next_seq /\ pc' = pc /\ seq_' = seq_ /\ end_serial' = end_serial
    BY <1>4 DEF SearchUp
  <2>2. /\ next_valid(Mid + 1) \in DOMAIN db
        /\ \A u \in DOMAIN db : u >= Mid + 1 => next_valid(Mid + 1) <= u
    BY <1>2, <1>4, NextValid
  <2>3. SearchInRange'
    BY <1>1, <1>3, <2>1, <2>2 DEF IndexInv, SearchInRange
  <2>4. TypeOK'
    BY <1>1, <2>1, <2>2 DEF IndexInv, TypeOK
  <2> QED
    BY <1>1, <2>1, <2>3, <2>4 DEF IndexInv, Linked, Ordered, contents
<1>5. CASE ~HasNextValid(Mid + 1)
  <2>1. Return
    BY <1>5 DEF SearchUp
  <2>2. seq_ \notin contents
    BY <1>3, <1>5, MembersOf DEF HasNextValid, contents
  <2> QED
    BY <1>1, <2>1, <2>2, ReturnStep DEF Return
<1> QED
  BY <1>4, <1>5

LEMMA SearchDownStep ==
  ASSUME IndexInv, SearchDown
  PROVE /\ IndexInv'
        /\ contents' = contents
        /\ pc' = "search" /\ pc = "search" /\ seq_' = seq_
<1> DEFINE top == IF Mid = mid_serial THEN (mid_serial - 1) % Word ELSE mid_serial
<1>1. /\ Iteration /\ Front > seq_ /\ pc = "search"
      /\ end_serial' = previous_valid(top)
      /\ db' = db /\ next_seq' = next_seq /\ pc' = pc /\ seq_' = seq_
      /\ begin_serial' = begin_serial
  BY DEF SearchDown, Iteration
<1>2. /\ Mid \in Nat /\ Mid \in DOMAIN db /\ mid_serial \in Nat /\ mid_serial < Word
      /\ Mid >= mid_serial
      /\ \A u \in DOMAIN db : u >= mid_serial => Mid <= u
  BY <1>1, MidSection
<1>3. /\ (mid_serial - 1) % Word \in Nat
      /\ mid_serial > 0 => (mid_serial - 1) % Word = mid_serial - 1
  BY <1>2, OneLess
<1>4. top \in Nat
  BY <1>2, <1>3
<1>5. ASSUME NEW s \in DOMAIN db, seq_ \in Range(db[s].vect_seq) PROVE s <= top
  <2>1. s < Mid /\ s \in Nat
    BY <1>1, <1>5, EarlierSection, IndexWellFormed
  <2>2. s < mid_serial
    BY <1>2, <2>1
  <2>3. mid_serial > 0
    BY <1>2, <2>1, <2>2
  <2> QED
    BY <1>2, <1>3, <2>1, <2>2, <2>3
<1> HIDE DEF top
<1>6. HEADSERIAL \in DOMAIN db
  BY <1>1 DEF IndexInv, SearchInRange
<1>7. /\ previous_valid(top) \in DOMAIN db
      /\ \A u \in DOMAIN db : u <= top => u <= previous_valid(top)
  BY <1>4, <1>6, PreviousValid
<1>8. SearchInRange'
  BY <1>1, <1>5, <1>6, <1>7 DEF IndexInv, SearchInRange
<1>9. TypeOK'
  BY <1>1, <1>7 DEF IndexInv, TypeOK
<1> QED
  BY <1>1, <1>8, <1>9 DEF IndexInv, Linked, Ordered, contents

LEMMA SearchHitStep ==
  ASSUME IndexInv, SearchHit
  PROVE IndexInv' /\ contents' = contents \ {seq_} /\ pc' = "idle" /\ pc = "search"
<1>1. /\ Iteration /\ Back >= seq_ /\ Front <= seq_ /\ pc = "search"
      /\ db' = ErasedFrom(db, Mid, seq_) /\ Return
  BY DEF SearchHit, Iteration
<1>2. /\ Mid \in DOMAIN db /\ Mid \in Nat
      /\ Front \in Range(db[Mid].vect_seq) /\ Back \in Range(db[Mid].vect_seq)
      /\ Front \in Nat /\ Back \in Nat
  BY <1>1, MidSection
<1>3. /\ WellFormed(db')
      /\ Members(db') = contents \ (Range(db[Mid].vect_seq) \cap {seq_})
  BY <1>1, <1>2, IndexWellFormed, ErasedIsRemoval DEF contents
<1>4. ASSUME seq_ \in contents PROVE seq_ \in Range(db[Mid].vect_seq)
  <2>1. PICK s \in DOMAIN db : seq_ \in Range(db[s].vect_seq)
    BY <1>4, MembersOf DEF contents
  <2>2. s \in Nat /\ seq_ \in Nat
    BY IndexWellFormed
  <2>3. ~(s < Mid)
    <3>1. s < Mid => seq_ < Front
      BY <1>2, <2>1 DEF IndexInv, Ordered, Sorted
    <3> QED
      BY <1>1, <1>2, <2>2, <3>1
  <2>4. ~(Mid < s)
    <3>1. Mid < s => Back < seq_
      BY <1>2, <2>1 DEF IndexInv, Ordered, Sorted
    <3> QED
      BY <1>1, <1>2, <2>2, <3>1
  <2>5. s = Mid
    BY <1>2, <2>2, <2>3, <2>4
  <2> QED
    BY <2>1, <2>5
<1>5. Members(db') = contents \ {seq_}
  BY <1>3, <1>4
<1>6. /\ pc' = "idle" /\ seq_' = 0 /\ begin_serial' = HEADSERIAL
      /\ end_serial' = HEADSERIAL /\ next_seq' = next_seq
  BY <1>1 DEF Return
<1>7. \A x \in Members(db') : x < next_seq'
  BY <1>5, <1>6, IndexWellFormed
<1>8. IndexInv'
  BY <1>3, <1>6, <1>7, ZeroInRange, InvEstablished DEF IndexInv, TypeOK, SearchInRange
<1> QED
  BY <1>1, <1>5, <1>6, <1>8 DEF contents

LEMMA SearchMissStep ==
  ASSUME IndexInv, SearchMiss
  PROVE /\ IndexInv' /\ contents' = contents /\ pc' = "idle" /\ pc = "search"
        /\ seq_ \notin contents
<1>1. /\ pc = "search" /\ Return /\ db' = db
      /\ begin_serial > end_serial \/ ~HasNextValid(mid_serial)
  BY DEF SearchMiss
<1>2. begin_serial \in Nat /\ end_serial \in Nat /\ end_serial \in DOMAIN db
  BY <1>1, WordAssumption DEF IndexInv, TypeOK, Serial, SearchInRange
<1>3. begin_serial > end_serial
  <2>1. begin_serial <= end_serial => mid_serial <= end_serial
    BY <1>2 DEF mid_serial
  <2>2. mid_serial \in Nat
    BY <1>2 DEF mid_serial
  <2> QED
    BY <1>1, <1>2, <2>1, <2>2 DEF HasNextValid
<1>4. seq_ \notin contents
  <2>1. ASSUME seq_ \in contents PROVE FALSE
    <3>1. PICK s \in DOMAIN db : seq_ \in Range(db[s].vect_seq)
      BY <2>1, MembersOf DEF contents
    <3>2. begin_serial <= s /\ s <= end_serial /\ s \in Nat
      BY <1>1, <3>1, IndexWellFormed DEF IndexInv, SearchInRange
    <3> QED
      BY <1>2, <1>3, <3>2
  <2> QED
    BY <2>1
<1> QED
  BY <1>1, <1>4, ReturnStep DEF Return

\* Every step keeps the invariant.
LEMMA NextInv ==
  ASSUME IndexInv, [Next]_vars
  PROVE IndexInv'
<1>1. ASSUME NEW seq \in SeqNo, append_normal_index_one_db(seq) PROVE IndexInv'
  BY <1>1, AppendStep
<1>2. ASSUME NEW seq \in SeqNo, delete_normal_index_db(seq) PROVE IndexInv'
  <2>1. UNCHANGED loop \/ pc' = "search"
    BY <1>2 DEF delete_normal_index_db
  <2> QED
    BY <1>2, <2>1, DeleteAtOnceStep, DeleteSearchStep
<1>3. CASE SearchUp
  BY <1>3, SearchUpStep
<1>4. CASE SearchDown
  BY <1>4, SearchDownStep
<1>5. CASE SearchHit
  BY <1>5, SearchHitStep
<1>6. CASE SearchMiss
  BY <1>6, SearchMissStep
<1>7. CASE UNCHANGED vars
  BY <1>7 DEF vars, IndexInv, TypeOK, Linked, Ordered, contents, SearchInRange
<1> QED
  BY <1>1, <1>2, <1>3, <1>4, <1>5, <1>6, <1>7 DEF Next, Search

-----------------------------------------------------------------------------
\* The theorems.

\* After every append and in every iteration of delete_normal_index_db the
\* sections are a sorted ring, and a section that holds the number searched for
\* is between begin_serial and end_serial.
THEOREM IndexInvariant == Spec => []IndexInv
<1>1. Init => IndexInv
  BY InitInv
<1>2. IndexInv /\ [Next]_vars => IndexInv'
  BY NextInv
<1> QED
  BY <1>1, <1>2, PTL DEF Spec

\* Serials and the loop's variables stay within their types, for any number of
\* rows: no serial of a section ever reaches the end of uint64_t.
THEOREM IndexTypeCorrect == Spec => []TypeOK
<1>1. IndexInv => TypeOK
  BY DEF IndexInv
<1> QED
  BY <1>1, IndexInvariant, PTL

\* Whatever append_normal_index_one_db and delete_normal_index_db do, the
\* sections of a key form a ring in the order of their serials.
THEOREM IndexLinked == Spec => []Linked
<1>1. IndexInv => Linked
  BY DEF IndexInv
<1> QED
  BY <1>1, IndexInvariant, PTL

\* No section on the chain is empty or over MAXSIZE, and the sequence numbers
\* increase within and across sections, as the binary search and lower_bound of
\* delete_normal_index_db assume.
THEOREM IndexOrdered == Spec => []Ordered
<1>1. IndexInv => Ordered
  BY DEF IndexInv
<1> QED
  BY <1>1, IndexInvariant, PTL

\* Each step of the sectioned list is a step of the set, or leaves it alone.
LEMMA StepImplements ==
  ASSUME IndexInv, [Next]_vars
  PROVE [Abs!Next]_(Abs!vars)
<1>1. ASSUME NEW seq \in SeqNo, append_normal_index_one_db(seq)
      PROVE Abs!Add(seq)
  <2>1. pc = "idle" /\ pc' = "idle"
    BY <1>1 DEF append_normal_index_one_db, loop
  <2> QED
    BY <1>1, <2>1, AppendStep DEF Abs!Add
<1>2. ASSUME NEW seq \in SeqNo, delete_normal_index_db(seq)
      PROVE Abs!Start(seq) \/ Abs!Delete(seq)
  <2>1. CASE UNCHANGED loop
    <3>1. pc = "idle" /\ pc' = "idle"
      BY <1>2, <2>1 DEF delete_normal_index_db, loop
    <3>2. contents' = contents \ {seq}
      BY <1>2, <2>1, DeleteAtOnceStep
    <3> QED
      BY <3>1, <3>2 DEF Abs!Delete
  <2>2. CASE pc' = "search"
    BY <1>2, <2>2, DeleteSearchStep DEF Abs!Start
  <2> QED
    BY <1>2, <2>1, <2>2 DEF delete_normal_index_db
<1>3. seq_ \in SeqNo
  BY DEF IndexInv, TypeOK
<1>4. ASSUME pc = "search", pc' = "search", seq_' = seq_, contents' = contents
      PROVE UNCHANGED Abs!vars
  BY <1>4 DEF Abs!vars
<1>5. ASSUME pc = "search", pc' = "idle", contents' = contents \ {seq_}
      PROVE Abs!Delete(seq_)
  BY <1>5 DEF Abs!Delete
<1>6. ASSUME seq_ \notin contents, contents' = contents
      PROVE contents' = contents \ {seq_}
  BY <1>6
<1>7. CASE SearchUp
  <2>1. Abs!Delete(seq_) \/ UNCHANGED Abs!vars
    BY <1>4, <1>5, <1>6, <1>7, SearchUpStep
  <2> QED
    BY <1>3, <2>1 DEF Abs!Next
<1>8. CASE SearchDown
  BY <1>4, <1>8, SearchDownStep
<1>9. CASE SearchHit
  <2>1. Abs!Delete(seq_)
    BY <1>5, <1>9, SearchHitStep
  <2> QED
    BY <1>3, <2>1 DEF Abs!Next
<1>10. CASE SearchMiss
  <2>1. Abs!Delete(seq_)
    BY <1>5, <1>6, <1>10, SearchMissStep
  <2> QED
    BY <1>3, <2>1 DEF Abs!Next
<1>11. CASE UNCHANGED vars
  BY <1>11 DEF vars, Abs!vars, contents
<1>12. CASE \E seq \in SeqNo : append_normal_index_one_db(seq) \/ delete_normal_index_db(seq)
  BY <1>1, <1>2, <1>12 DEF Abs!Next
<1> QED
  BY <1>7, <1>8, <1>9, <1>10, <1>11, <1>12 DEF Next, Search

\* The sectioned list is a set of sequence numbers: append_normal_index_one_db
\* adds its number, and whichever way the binary search of
\* delete_normal_index_db goes, when it returns its number is gone and no other.
THEOREM IndexImplementsSet == Spec => ImplementsSet
<1>1. Init => Abs!Init
  BY InitInv DEF Init, Abs!Init
<1>2. IndexInv /\ [Next]_vars => [Abs!Next]_(Abs!vars)
  BY StepImplements
<1> QED
  BY <1>1, <1>2, IndexInvariant, PTL DEF Spec, ImplementsSet, Abs!Spec

-----------------------------------------------------------------------------
\* The traversal.

\* The section of a position and where it is in the section.
LEMMA PositionFacts ==
  ASSUME IndexInv, NEW pos \in Positions,
         NEW s, s = pos[1], NEW i, i = pos[2]
  PROVE /\ pos = <<s, i>>
        /\ s \in DOMAIN db /\ s \in Nat
        /\ i \in Nat /\ i < Len(db[s].vect_seq) /\ i < MAXSIZE
        /\ get_seq(pos) = db[s].vect_seq[i + 1]
        /\ get_seq(pos) \in Range(db[s].vect_seq)
        /\ get_seq(pos) \in contents
        /\ get_seq(pos) \in Nat /\ get_seq(pos) < next_seq
        /\ pos # cend
<1>1. /\ pos = <<s, i>> /\ s \in DOMAIN db
      /\ i \in 0 .. MAXSIZE - 1 /\ i < Len(db[s].vect_seq)
  BY DEF Positions
<1>2. /\ s \in Nat /\ db[s].vect_seq \in Seq(Nat)
      /\ Len(db[s].vect_seq) \in Nat
  BY <1>1, IndexWellFormed, SectionFields DEF WellFormed, IsIndex
<1>3. i \in Nat /\ i < MAXSIZE /\ i + 1 \in 1 .. Len(db[s].vect_seq)
  BY <1>1, <1>2, SizeAssumption
<1>4. get_seq(pos) = db[s].vect_seq[i + 1]
  BY <1>1 DEF get_seq
<1>5. get_seq(pos) \in Range(db[s].vect_seq)
  BY <1>2, <1>3, <1>4, SectionRange
<1>6. get_seq(pos) \in contents
  BY <1>1, <1>5, MembersOf DEF contents
<1>7. pos # cend
  BY <1>1, <1>3 DEF cend
<1> QED
  BY <1>1, <1>2, <1>3, <1>4, <1>5, <1>6, <1>7, IndexWellFormed

\* A position with a number, given by its section and its place.
LEMMA PositionOf ==
  ASSUME IndexInv, NEW s \in DOMAIN db, NEW i \in Nat, i < Len(db[s].vect_seq)
  PROVE /\ <<s, i>> \in Positions
        /\ get_seq(<<s, i>>) = db[s].vect_seq[i + 1]
<1>1. Len(db[s].vect_seq) \in 1 .. MAXSIZE
  BY IndexWellFormed DEF WellFormed, Sorted
<1>2. i \in 0 .. MAXSIZE - 1
  BY <1>1, SizeAssumption
<1> QED
  BY <1>2 DEF Positions, get_seq

\* The links of the sections, and the order between their numbers.
LEMMA SectionLinks ==
  ASSUME IndexInv, NEW s \in DOMAIN db
  PROVE /\ HEADSERIAL \in DOMAIN db
        /\ db[s].vect_seq \in Seq(Nat)
        /\ Len(db[s].vect_seq) \in Nat /\ Len(db[s].vect_seq) >= 1
        /\ Len(db[s].vect_seq) <= MAXSIZE
        /\ Increasing(db[s].vect_seq)
        /\ db[s].next = HEADSERIAL => \A t \in DOMAIN db : t <= s
        /\ db[s].next # HEADSERIAL =>
             /\ db[s].next \in DOMAIN db /\ db[s].next > s
             /\ db[db[s].next].previous = s
             /\ \A t \in DOMAIN db : t <= s \/ t >= db[s].next
        /\ \A t \in DOMAIN db : t \in Nat
<1>1. /\ WellFormed(db) /\ \A t \in DOMAIN db : t \in Nat
  BY IndexWellFormed
<1>2. /\ db[s].vect_seq \in Seq(Nat) /\ Len(db[s].vect_seq) \in Nat
      /\ Len(db[s].vect_seq) >= 1 /\ Len(db[s].vect_seq) <= MAXSIZE
      /\ Increasing(db[s].vect_seq)
  BY <1>1, SizeAssumption, SectionFields DEF WellFormed, IsIndex, Sorted, Increasing
<1> DEFINE last == db[HEADSERIAL].previous
<1>3. /\ HEADSERIAL \in DOMAIN db
      /\ last \in DOMAIN db
      /\ db[last].next = HEADSERIAL
      /\ \A t \in DOMAIN db :
           /\ t <= last
           /\ t # last =>
                /\ db[t].next \in DOMAIN db
                /\ db[t].next > t
                /\ \A u \in DOMAIN db : u <= t \/ u >= db[t].next
           /\ t # HEADSERIAL =>
                /\ db[t].previous \in DOMAIN db
                /\ db[t].previous < t
                /\ \A u \in DOMAIN db : u <= db[t].previous \/ u >= t
  BY <1>1 DEF WellFormed, Ring
<1> HIDE DEF last
<1>4. CASE s = last
  BY <1>1, <1>2, <1>3, <1>4
<1>5. CASE s # last
  <2> DEFINE n == db[s].next
  <2>1. /\ n \in DOMAIN db /\ n > s
        /\ \A u \in DOMAIN db : u <= s \/ u >= n
    BY <1>3, <1>5
  <2>2. n # HEADSERIAL
    BY <1>1, <2>1 DEF HEADSERIAL
  <2> DEFINE p == db[n].previous
  <2>3. /\ p \in DOMAIN db /\ p < n
        /\ \A u \in DOMAIN db : u <= p \/ u >= n
    BY <1>3, <2>1, <2>2
  <2> HIDE DEF n, p
  <2>4. p = s
    BY <1>1, <2>1, <2>3
  <2> QED
    BY <1>1, <1>2, <1>3, <2>1, <2>2, <2>4 DEF n, p
<1> QED
  BY <1>4, <1>5

\* The order of two positions is the order of their numbers.
LEMMA NumbersIncrease ==
  ASSUME IndexInv, NEW s \in DOMAIN db, NEW t \in DOMAIN db, s < t,
         NEW x \in Range(db[s].vect_seq), NEW y \in Range(db[t].vect_seq)
  PROVE x < y
BY IndexWellFormed DEF WellFormed, Sorted

\* operator++ goes to the next larger number of the key, or to cend from the
\* largest one, and operator-- goes back.
LEMMA IncrementStep ==
  ASSUME IndexInv, NEW pos \in Positions
  PROVE /\ Increment(pos) \in Positions \cup {cend}
        /\ Increment(pos) = cend => \A x \in contents : x <= get_seq(pos)
        /\ Increment(pos) # cend =>
             /\ get_seq(Increment(pos)) > get_seq(pos)
             /\ \A x \in contents : x <= get_seq(pos) \/ x >= get_seq(Increment(pos))
             /\ Decrement(Increment(pos)) = pos
<1> DEFINE s == pos[1]
           i == pos[2]
           v == db[s].vect_seq
           n == db[s].next
           q == Increment(pos)
<1>1. /\ pos = <<s, i>>
      /\ s \in DOMAIN db /\ s \in Nat
      /\ i \in Nat /\ i < Len(v) /\ i < MAXSIZE
      /\ get_seq(pos) = v[i + 1]
      /\ get_seq(pos) \in Range(v)
      /\ get_seq(pos) \in Nat
      /\ pos # cend
  BY PositionFacts
<1>2. q = IF i = Len(v) - 1
          THEN IF n = HEADSERIAL THEN cend ELSE <<n, 0>>
          ELSE <<s, i + 1>>
  BY <1>1 DEF Increment
<1>3. /\ v \in Seq(Nat) /\ Len(v) \in Nat /\ Len(v) >= 1 /\ Len(v) <= MAXSIZE
      /\ Increasing(v)
      /\ n = HEADSERIAL => \A t \in DOMAIN db : t <= s
      /\ n # HEADSERIAL =>
           /\ n \in DOMAIN db /\ n > s
           /\ db[n].previous = s
           /\ \A t \in DOMAIN db : t <= s \/ t >= n
      /\ \A t \in DOMAIN db : t \in Nat
  BY <1>1, SectionLinks
<1> HIDE DEF s, i, v, n, q
<1>4. MAXSIZE \in Nat
  BY SizeAssumption
<1>5. ASSUME NEW x \in Range(v) PROVE \E j \in 1 .. Len(v) : v[j] = x
  BY <1>3, SectionRange
<1>6. ASSUME NEW x \in contents
      PROVE \E t \in DOMAIN db : x \in Range(db[t].vect_seq)
  BY MembersOf DEF contents
<1>7. contents \subseteq Nat
  BY IndexWellFormed
<1>8. CASE i # Len(v) - 1
  <2>1. q = <<s, i + 1>> /\ i + 1 \in Nat /\ i + 1 < Len(v) /\ i + 2 \in 1 .. Len(v)
        /\ i + 1 \in 1 .. Len(v) /\ i + 1 # MAXSIZE /\ i + 1 # 0 /\ (i + 1) - 1 = i
    BY <1>1, <1>2, <1>3, <1>4, <1>8
  <2>2. q \in Positions /\ get_seq(q) = v[(i + 1) + 1]
    BY <1>1, <2>1, PositionOf DEF v
  <2>3. get_seq(q) = v[i + 2]
    BY <1>1, <2>2
  <2>4. get_seq(q) \in Nat /\ get_seq(q) > get_seq(pos) /\ get_seq(q) \in Range(v)
    BY <1>1, <1>3, <2>1, <2>3, SectionRange DEF Increasing
  <2>5. q # cend
    BY <2>1 DEF cend
  <2>6. ASSUME NEW x \in contents PROVE x <= get_seq(pos) \/ x >= get_seq(q)
    <3>1. PICK t \in DOMAIN db : x \in Range(db[t].vect_seq)
      BY <1>6
    <3>2. CASE t = s
      <4>1. PICK j \in 1 .. Len(v) : v[j] = x
        BY <1>5, <3>1, <3>2 DEF v
      <4>2. j < i + 1 \/ j = i + 1 \/ j = i + 2 \/ i + 2 < j
        BY <1>1, <1>3, <4>1
      <4>3. x \in Nat
        BY <1>7
      <4>4. j < i + 1 => x < get_seq(pos)
        BY <1>1, <1>3, <2>1, <4>1 DEF Increasing
      <4>5. i + 2 < j => get_seq(q) < x
        BY <1>3, <2>1, <2>3, <4>1 DEF Increasing
      <4>6. (j = i + 1 => x = get_seq(pos)) /\ (j = i + 2 => x = get_seq(q))
        BY <1>1, <2>3, <4>1
      <4> QED
        BY <1>1, <2>4, <4>2, <4>3, <4>4, <4>5, <4>6
    <3>3. CASE t < s
      <4>1. x < get_seq(pos)
        BY <1>1, <3>1, <3>3, NumbersIncrease DEF v
      <4> QED
        BY <1>1, <1>7, <4>1
    <3>4. CASE t > s
      <4>1. get_seq(q) < x
        BY <1>1, <1>3, <2>4, <3>1, <3>4, NumbersIncrease DEF v
      <4> QED
        BY <1>7, <2>4, <4>1
    <3> QED
      BY <1>1, <1>3, <3>2, <3>3, <3>4
  <2>7. Decrement(q) = <<s, i>>
    BY <2>1, <2>5 DEF Decrement
  <2> QED
    BY <1>1, <2>2, <2>4, <2>5, <2>6, <2>7 DEF q
<1>9. ASSUME i = Len(v) - 1, NEW x \in Range(v) PROVE x <= get_seq(pos)
  <2>1. PICK j \in 1 .. Len(v) : v[j] = x
    BY <1>5
  <2>2. Len(v) \in 1 .. Len(v) /\ get_seq(pos) = v[Len(v)]
    BY <1>1, <1>3, <1>9
  <2>3. j < Len(v) \/ j = Len(v)
    BY <1>3, <2>1
  <2>4. x \in Nat
    BY <1>3, <2>1
  <2> QED
    BY <1>1, <1>3, <2>1, <2>2, <2>3, <2>4 DEF Increasing
<1>10. ASSUME i = Len(v) - 1, NEW x \in contents,
              NEW t \in DOMAIN db, t <= s, x \in Range(db[t].vect_seq)
       PROVE x <= get_seq(pos)
  <2>1. CASE t = s
    BY <1>9, <1>10, <2>1 DEF v
  <2>2. CASE t < s
    <3>1. x < get_seq(pos)
      BY <1>1, <1>10, <2>2, NumbersIncrease DEF v
    <3> QED
      BY <1>1, <1>7, <3>1
  <2> QED
    BY <1>1, <1>3, <1>10, <2>1, <2>2
<1>11. CASE i = Len(v) - 1 /\ n = HEADSERIAL
  <2>1. q = cend
    BY <1>2, <1>11
  <2>2. ASSUME NEW x \in contents PROVE x <= get_seq(pos)
    <3>1. PICK t \in DOMAIN db : x \in Range(db[t].vect_seq)
      BY <1>6
    <3> QED
      BY <1>3, <1>10, <1>11, <3>1
  <2> QED
    BY <2>1, <2>2 DEF q
<1>12. CASE i = Len(v) - 1 /\ n # HEADSERIAL
  <2> DEFINE w == db[n].vect_seq
  <2>1. q = <<n, 0>>
    BY <1>2, <1>12
  <2>2. n \in DOMAIN db /\ n \in Nat /\ n > s /\ db[n].previous = s
    BY <1>3, <1>12
  <2>3. w \in Seq(Nat) /\ Len(w) \in Nat /\ Len(w) >= 1 /\ Increasing(w)
    BY <2>2, SectionLinks
  <2>4. q \in Positions /\ get_seq(q) = w[0 + 1]
    BY <2>1, <2>2, <2>3, PositionOf
  <2> HIDE DEF w
  <2>5. 1 \in 1 .. Len(w) /\ get_seq(q) = w[1] /\ get_seq(q) \in Nat
        /\ get_seq(q) \in Range(w)
    BY <2>3, <2>4, SectionRange
  <2>6. get_seq(pos) < get_seq(q)
    BY <1>1, <2>2, <2>5, NumbersIncrease DEF v, w
  <2>7. q # cend
    BY <2>4, PositionFacts
  <2>8. ASSUME NEW x \in contents PROVE x <= get_seq(pos) \/ x >= get_seq(q)
    <3>1. PICK t \in DOMAIN db : x \in Range(db[t].vect_seq)
      BY <1>6
    <3>2. CASE t <= s
      BY <1>10, <1>12, <3>1, <3>2
    <3>3. CASE t = n
      <4>1. PICK j \in 1 .. Len(w) : w[j] = x
        BY <2>3, <3>1, <3>3, SectionRange DEF w
      <4>2. j = 1 \/ 1 < j
        BY <2>3
      <4>3. x \in Nat
        BY <1>7
      <4> QED
        BY <2>3, <2>5, <4>1, <4>2, <4>3 DEF Increasing
    <3>4. CASE t > n
      <4>1. get_seq(q) < x
        BY <2>2, <2>5, <3>1, <3>4, NumbersIncrease DEF w
      <4> QED
        BY <1>7, <2>5, <4>1
    <3> QED
      BY <1>1, <1>3, <1>12, <2>2, <3>2, <3>3, <3>4
  <2>9. Decrement(q) = pos
    <3>1. Decrement(q) = <<s, Len(v) - 1>>
      BY <1>12, <2>1, <2>2 DEF Decrement, v
    <3> QED
      BY <1>1, <1>12, <3>1
  <2> QED
    BY <2>4, <2>6, <2>7, <2>8, <2>9, <2>5, <1>1 DEF q
<1> QED
  BY <1>8, <1>11, <1>12

\* cbegin is at the smallest number, operator-- takes cend to the largest.
LEMMA EndsOfTraversal ==
  ASSUME IndexInv, HEADSERIAL \in DOMAIN db
  PROVE /\ cbegin \in Positions
        /\ \A x \in contents : x >= get_seq(cbegin)
        /\ Decrement(cbegin) = cend
        /\ Decrement(cend) \in Positions
        /\ Increment(Decrement(cend)) = cend
<1> DEFINE v == db[HEADSERIAL].vect_seq
           l == db[HEADSERIAL].previous
           w == db[l].vect_seq
<1>1. cbegin = <<HEADSERIAL, 0>>
  BY DEF cbegin, has_normal_index_db
<1>2. v \in Seq(Nat) /\ Len(v) \in Nat /\ Len(v) >= 1 /\ Increasing(v)
      /\ \A t \in DOMAIN db : t \in Nat
  BY SectionLinks
<1>3. cbegin \in Positions /\ get_seq(cbegin) = v[0 + 1]
  BY <1>1, <1>2, PositionOf
<1>4. l \in DOMAIN db /\ db[l].next = HEADSERIAL
  BY IndexWellFormed DEF WellFormed, Ring
<1>5. w \in Seq(Nat) /\ Len(w) \in Nat /\ Len(w) >= 1
  BY <1>4, SectionLinks
<1>6. <<l, Len(w) - 1>> \in Positions
  BY <1>4, <1>5, PositionOf
<1>7. Decrement(cbegin) = cend
  <2>1. cbegin # cend
    BY <1>3, PositionFacts
  <2> QED
    BY <1>1, <2>1 DEF Decrement
<1>8. Decrement(cend) = <<l, Len(w) - 1>>
  BY SizeAssumption DEF Decrement, cend
<1>9. Increment(<<l, Len(w) - 1>>) = cend
  BY <1>4 DEF Increment
<1> HIDE DEF v, l, w
<1>10. 1 \in 1 .. Len(v) /\ get_seq(cbegin) = v[1] /\ get_seq(cbegin) \in Range(v)
       /\ get_seq(cbegin) \in Nat
  BY <1>2, <1>3, SectionRange
<1>11. ASSUME NEW x \in contents PROVE x >= get_seq(cbegin)
  <2>1. PICK t \in DOMAIN db : x \in Range(db[t].vect_seq)
    BY MembersOf DEF contents
  <2>2. x \in Nat
    BY IndexWellFormed
  <2>3. CASE t = HEADSERIAL
    <3>1. PICK j \in 1 .. Len(v) : v[j] = x
      BY <1>2, <2>1, <2>3, SectionRange DEF v
    <3>2. j = 1 \/ 1 < j
      BY <1>2
    <3> QED
      BY <1>2, <1>10, <2>2, <3>1, <3>2 DEF Increasing
  <2>4. CASE t # HEADSERIAL
    <3>1. HEADSERIAL < t
      BY <1>2, <2>4 DEF HEADSERIAL
    <3>2. get_seq(cbegin) < x
      BY <1>10, <2>1, <3>1, NumbersIncrease DEF v
    <3> QED
      BY <1>10, <2>2, <3>2
  <2> QED
    BY <2>3, <2>4
<1> QED
  BY <1>3, <1>6, <1>7, <1>8, <1>9, <1>11

\* The numbers from a position on.
From(pos) == IF pos = cend THEN {} ELSE {x \in contents : x >= get_seq(pos)}

LEMMA FromUnfolds ==
  ASSUME IndexInv, NEW pos \in Positions
  PROVE From(pos) = {get_seq(pos)} \cup From(Increment(pos))
<1> DEFINE a == get_seq(pos)
           q == Increment(pos)
           b == get_seq(q)
<1>1. pos # cend /\ a \in contents /\ a \in Nat
  BY PositionFacts
<1>2. contents \subseteq Nat
  BY IndexWellFormed
<1>3. From(pos) = {x \in contents : x >= a}
  BY <1>1 DEF From
<1>4. CASE q = cend
  <2>1. \A x \in contents : x <= a
    BY <1>4, IncrementStep
  <2>2. From(q) = {}
    BY <1>4 DEF From
  <2> HIDE DEF a, q
  <2>3. \A x \in contents : x >= a <=> x = a
    BY <1>1, <1>2, <2>1
  <2>4. From(pos) = {a}
    BY <1>1, <1>3, <2>3
  <2> QED
    BY <2>2, <2>4 DEF a, q
<1>5. CASE q # cend
  <2>1. b > a /\ q \in Positions /\ \A x \in contents : x <= a \/ x >= b
    BY <1>5, IncrementStep
  <2>2. b \in Nat
    BY <2>1, PositionFacts
  <2>3. From(q) = {x \in contents : x >= b}
    BY <1>5 DEF From
  <2> HIDE DEF a, b, q
  <2>4. \A x \in contents : x >= a <=> x = a \/ x >= b
    BY <1>1, <1>2, <2>1, <2>2
  <2>5. From(pos) = {a} \cup From(q)
    BY <1>1, <1>3, <2>3, <2>4
  <2> QED
    BY <2>5 DEF a, q
<1> QED
  BY <1>4, <1>5

\* The recursion of visit has a solution, and it has only one: a loop with
\* operator++ meets the numbers from its position on.
LEMMA VisitIsFrom ==
  ASSUME IndexInv, NEW p0 \in Positions \cup {cend}
  PROVE visit[p0] = From(p0)
<1> DEFINE Dom == Positions \cup {cend}
           Step(f) == [pos \in Dom |-> IF pos = cend THEN {}
                                       ELSE {get_seq(pos)} \cup f[Increment(pos)]]
           a == [pos \in Dom |-> From(pos)]
<1>1. \A pos \in Dom : pos # cend => pos \in Positions /\ Increment(pos) \in Dom
  BY IncrementStep
<1>2. a = Step(a)
  <2>1. ASSUME NEW pos \in Dom
        PROVE From(pos) = IF pos = cend THEN {} ELSE {get_seq(pos)} \cup a[Increment(pos)]
    <3>1. CASE pos = cend
      BY <3>1 DEF From
    <3>2. CASE pos # cend
      <4>1. a[Increment(pos)] = From(Increment(pos))
        BY <1>1, <3>2
      <4> QED
        BY <1>1, <3>2, <4>1, FromUnfolds
    <3> QED
      BY <3>1, <3>2
  <2> QED
    BY <2>1
<1>3. visit = CHOOSE f : f = Step(f)
  BY DEF visit
<1> HIDE DEF Step
<1>4. visit = Step(visit)
  BY <1>2, <1>3
<1> USE DEF Step
<1>5. \A pos \in Dom : visit[pos] = IF pos = cend THEN {}
                                    ELSE {get_seq(pos)} \cup visit[Increment(pos)]
  BY <1>4
<1> HIDE DEF Step, Dom, a
<1>6. visit[cend] = From(cend)
  <2>1. cend \in Dom
    BY DEF Dom
  <2>2. visit[cend] = {}
    BY <1>5, <2>1
  <2>3. From(cend) = {}
    BY DEF From
  <2> QED
    BY <2>2, <2>3
<1> DEFINE Bad(pos) == pos \in Dom /\ pos # cend /\ visit[pos] # From(pos)
           W == {m \in Nat : \E pos \in Dom : Bad(pos) /\ m = next_seq - get_seq(pos)}
<1>7. \A pos \in Dom : ~Bad(pos)
  <2>1. SUFFICES ASSUME NEW p1 \in Dom, Bad(p1) PROVE FALSE
    OBVIOUS
  <2>2. next_seq \in Nat
    BY IndexWellFormed
  <2>3. \A pos \in Dom : pos # cend =>
          get_seq(pos) \in Nat /\ get_seq(pos) < next_seq
    BY <1>1, PositionFacts
  <2>4. next_seq - get_seq(p1) \in W
    BY <2>1, <2>2, <2>3
  <2>5. PICK m \in W : \A y \in W : m <= y
    BY <2>4, LeastSerial
  <2>6. PICK pos \in Dom : Bad(pos) /\ m = next_seq - get_seq(pos)
    BY <2>5
  <2> DEFINE q == Increment(pos)
  <2>7. pos \in Positions /\ q \in Dom
    BY <1>1, <2>6
  <2>8. visit[pos] = {get_seq(pos)} \cup visit[q]
    BY <1>5, <2>6
  <2>9. From(pos) = {get_seq(pos)} \cup From(q)
    BY <2>7, FromUnfolds
  <2>10. q # cend /\ Bad(q)
    BY <1>6, <2>6, <2>7, <2>8, <2>9
  <2>11. get_seq(q) > get_seq(pos)
    BY <2>7, <2>10, IncrementStep
  <2>12. next_seq - get_seq(q) \in W
    BY <2>2, <2>3, <2>7, <2>10
  <2>13. next_seq - get_seq(q) < m
    BY <2>2, <2>3, <2>6, <2>7, <2>10, <2>11
  <2>14. m <= next_seq - get_seq(q)
    BY <2>5, <2>12
  <2> QED
    BY <2>2, <2>3, <2>5, <2>7, <2>10, <2>13, <2>14
<1>8. p0 \in Dom
  BY DEF Dom
<1> QED
  BY <1>6, <1>7, <1>8

\* A section has as many numbers as its length says.
LEMMA SectionCardinality ==
  ASSUME NEW v \in Seq(Nat), Increasing(v)
  PROVE IsFiniteSet(Range(v)) /\ Cardinality(Range(v)) = Len(v)
<1>1. Len(v) \in Nat /\ v \in [1 .. Len(v) -> Nat]
  OBVIOUS
<1>2. IsFiniteSet(1 .. Len(v)) /\ Cardinality(1 .. Len(v)) = Len(v)
  <2>1. Len(v) \in Int /\ 1 \in Int
    BY <1>1
  <2>2. /\ IsFiniteSet(1 .. Len(v))
        /\ Cardinality(1 .. Len(v)) = IF 1 > Len(v) THEN 0 ELSE Len(v) - 1 + 1
    BY <2>1, FS_Interval
  <2>3. (IF 1 > Len(v) THEN 0 ELSE Len(v) - 1 + 1) = Len(v)
    BY <1>1
  <2> QED
    BY <2>2, <2>3
<1>3. v \in [1 .. Len(v) -> Range(v)]
  BY <1>1 DEF Range
<1>4. v \in Surjection(1 .. Len(v), Range(v))
  BY <1>1, <1>3, Fun_IsSurj DEF Range
<1>5. \A i, j \in 1 .. Len(v) : v[i] = v[j] => i = j
  <2> TAKE i, j \in 1 .. Len(v)
  <2>1. i < j \/ j < i \/ i = j
    BY <1>1
  <2>2. v[i] \in Nat /\ v[j] \in Nat
    BY <1>1
  <2> QED
    BY <2>1, <2>2 DEF Increasing
<1>6. v \in Injection(1 .. Len(v), Range(v))
  BY <1>3, <1>5, Fun_IsInj
<1> QED
  BY <1>2, <1>4, <1>6, FS_Surjection

\* The numbers from section s on.
Behind(s) == {x \in contents : \E t \in DOMAIN db : t >= s /\ x \in Range(db[t].vect_seq)}

\* The loop of get_normal_index_count_db adds up disjoint sections.
LEMMA BehindUnfolds ==
  ASSUME IndexInv, NEW s \in DOMAIN db
  PROVE /\ Cardinality(Behind(s)) \in Nat
        /\ Cardinality(Behind(s)) =
             Len(db[s].vect_seq) +
               IF db[s].next = HEADSERIAL THEN 0 ELSE Cardinality(Behind(db[s].next))
<1> DEFINE v == db[s].vect_seq
           n == db[s].next
<1>1. /\ v \in Seq(Nat) /\ Len(v) \in Nat /\ Increasing(v)
      /\ n = HEADSERIAL => \A t \in DOMAIN db : t <= s
      /\ n # HEADSERIAL =>
           /\ n \in DOMAIN db /\ n > s
           /\ \A t \in DOMAIN db : t <= s \/ t >= n
      /\ \A t \in DOMAIN db : t \in Nat
  BY SectionLinks
<1>2. IsFiniteSet(Range(v)) /\ Cardinality(Range(v)) = Len(v)
  BY <1>1, SectionCardinality
<1>3. Range(v) \subseteq contents
  BY MembersOf DEF contents
<1>4. IsFiniteSet(contents)
  <2>1. /\ contents \in SUBSET Nat /\ next_seq \in Nat
        /\ \A x \in contents : x <= next_seq
    BY IndexWellFormed
  <2> QED
    BY <2>1, FS_BoundedSetOfNaturals
<1>5. \A t : Behind(t) \in SUBSET contents
  BY DEF Behind
<1>6. \A t : IsFiniteSet(Behind(t))
  BY <1>4, <1>5, FS_Subset
<1>7. \A t : Cardinality(Behind(t)) \in Nat
  BY <1>6, FS_CardinalityType
<1>8. CASE n = HEADSERIAL
  <2>1. \A t \in DOMAIN db : t >= s <=> t = s
    BY <1>1, <1>8
  <2>2. Behind(s) = Range(v)
    BY <1>3, <2>1 DEF Behind
  <2> QED
    BY <1>2, <1>7, <1>8, <2>2, <1>1
<1>9. CASE n # HEADSERIAL
  <2>1. \A t \in DOMAIN db : t >= s <=> t = s \/ t >= n
    BY <1>1, <1>9
  <2>2. Behind(s) = Range(v) \cup Behind(n)
    BY <1>3, <2>1 DEF Behind
  <2>3. Range(v) \cap Behind(n) = {}
    <3>1. SUFFICES ASSUME NEW x \in Range(v), x \in Behind(n) PROVE FALSE
      OBVIOUS
    <3>2. PICK t \in DOMAIN db : t >= n /\ x \in Range(db[t].vect_seq)
      BY <3>1 DEF Behind
    <3>3. s < t
      BY <1>1, <1>9, <3>2
    <3>4. x < x
      BY <3>1, <3>2, <3>3, NumbersIncrease
    <3>5. x \in Nat
      BY <1>1, <3>1, SectionRange
    <3> QED
      BY <3>4, <3>5
  <2>4. Cardinality(Range(v) \cap Behind(n)) = 0
    BY <2>3, FS_EmptySet
  <2>5. Cardinality(Range(v) \cup Behind(n)) =
          Cardinality(Range(v)) + Cardinality(Behind(n)) - Cardinality(Range(v) \cap Behind(n))
    BY <1>2, <1>6, FS_Union
  <2> QED
    BY <1>1, <1>2, <1>7, <1>9, <2>2, <2>4, <2>5
<1> QED
  BY <1>8, <1>9

\* The recursion of count has a solution, and it has only one.
LEMMA CountIsCardinality ==
  ASSUME IndexInv, NEW s0 \in DOMAIN db
  PROVE count[s0] = Cardinality(Behind(s0))
<1> DEFINE Step(f) == [s \in DOMAIN db |->
                         Len(db[s].vect_seq) +
                           IF db[s].next = HEADSERIAL THEN 0 ELSE f[db[s].next]]
           a == [s \in DOMAIN db |-> Cardinality(Behind(s))]
<1>1. \A s \in DOMAIN db :
        /\ s \in Nat
        /\ db[s].next # HEADSERIAL => db[s].next \in DOMAIN db /\ db[s].next > s
  BY SectionLinks
<1>2. a = Step(a)
  <2>1. ASSUME NEW s \in DOMAIN db
        PROVE Cardinality(Behind(s)) =
                Len(db[s].vect_seq) +
                  IF db[s].next = HEADSERIAL THEN 0 ELSE a[db[s].next]
    <3>1. db[s].next # HEADSERIAL => a[db[s].next] = Cardinality(Behind(db[s].next))
      BY <1>1
    <3> HIDE DEF a
    <3>2. Cardinality(Behind(s)) =
            Len(db[s].vect_seq) +
              IF db[s].next = HEADSERIAL THEN 0 ELSE Cardinality(Behind(db[s].next))
      BY BehindUnfolds
    <3> QED
      BY <3>1, <3>2
  <2> QED
    BY <2>1
<1>3. count = CHOOSE f : f = Step(f)
  BY DEF count
<1> HIDE DEF Step
<1>4. count = Step(count)
  BY <1>2, <1>3
<1> USE DEF Step
<1>5. \A s \in DOMAIN db :
        count[s] = Len(db[s].vect_seq) +
                     IF db[s].next = HEADSERIAL THEN 0 ELSE count[db[s].next]
  BY <1>4
<1> HIDE DEF Step, a
<1> DEFINE last == db[HEADSERIAL].previous
           Bad(s) == count[s] # Cardinality(Behind(s))
           W == {m \in Nat : \E s \in DOMAIN db : Bad(s) /\ m = last - s}
<1>6. \A s \in DOMAIN db : ~Bad(s)
  <2>1. SUFFICES ASSUME NEW s1 \in DOMAIN db, Bad(s1) PROVE FALSE
    OBVIOUS
  <2>2. last \in Nat /\ \A s \in DOMAIN db : s <= last
    BY <1>1, IndexWellFormed DEF WellFormed, Ring
  <2> HIDE DEF last, Bad
  <2>3. last - s1 \in W
    BY <1>1, <2>1, <2>2
  <2>4. PICK m \in W : \A y \in W : m <= y
    BY <2>3, LeastSerial
  <2>5. PICK s \in DOMAIN db : Bad(s) /\ m = last - s
    BY <2>4
  <2> DEFINE n == db[s].next
  <2>6. count[s] = Len(db[s].vect_seq) + IF n = HEADSERIAL THEN 0 ELSE count[n]
    BY <1>5
  <2>7. Cardinality(Behind(s)) =
          Len(db[s].vect_seq) + IF n = HEADSERIAL THEN 0 ELSE Cardinality(Behind(n))
    BY BehindUnfolds
  <2>8. n # HEADSERIAL /\ Bad(n)
    BY <2>5, <2>6, <2>7 DEF Bad
  <2>9. n \in DOMAIN db /\ n > s /\ n \in Nat /\ s \in Nat
    BY <1>1, <2>8
  <2> HIDE DEF n
  <2>10. last - n \in W /\ last - n < m
    BY <2>2, <2>5, <2>8, <2>9
  <2>11. m <= last - n
    BY <2>4, <2>10
  <2> QED
    BY <2>2, <2>4, <2>9, <2>10, <2>11
<1> QED
  BY <1>6

\* A loop over a key through operator++ meets every row of the key once, in
\* increasing order and across all sections and gaps; operator-- retraces it,
\* and count() answers the number of rows.
THEOREM IndexTraversalComplete == Spec => []TraversalComplete
<1>1. IndexInv => TraversalComplete
  <2> SUFFICES ASSUME IndexInv PROVE TraversalComplete
    OBVIOUS
  <2>1. \A pos \in Positions : Increment(pos) # cend =>
          /\ get_seq(pos) < get_seq(Increment(pos))
          /\ Decrement(Increment(pos)) = pos
    <3> TAKE pos \in Positions
    <3> HAVE Increment(pos) # cend
    <3>1. /\ get_seq(Increment(pos)) > get_seq(pos)
          /\ Increment(pos) \in Positions
          /\ Decrement(Increment(pos)) = pos
      BY IncrementStep
    <3>2. get_seq(Increment(pos)) \in Nat /\ get_seq(pos) \in Nat
      BY <3>1, PositionFacts
    <3> QED
      BY <3>1, <3>2
  <2>2. CASE HEADSERIAL \in DOMAIN db
    <3>1. /\ cbegin \in Positions
          /\ \A x \in contents : x >= get_seq(cbegin)
          /\ Decrement(cbegin) = cend
          /\ Decrement(cend) \in Positions
          /\ Increment(Decrement(cend)) = cend
      BY <2>2, EndsOfTraversal
    <3>2. From(cbegin) = contents
      BY <3>1, PositionFacts DEF From
    <3>3. visit[cbegin] = contents
      BY <3>1, <3>2, VisitIsFrom
    <3>4. \A t \in DOMAIN db : t >= HEADSERIAL
      BY SectionLinks DEF HEADSERIAL
    <3>5. Behind(HEADSERIAL) = contents
      BY <3>4, MembersOf DEF Behind, contents
    <3>6. get_normal_index_count_db = Cardinality(contents)
      BY <2>2, <3>5, CountIsCardinality DEF get_normal_index_count_db, has_normal_index_db
    <3> QED
      BY <2>1, <3>1, <3>3, <3>6 DEF TraversalComplete
  <2>3. CASE HEADSERIAL \notin DOMAIN db
    <3>1. DOMAIN db = {}
      BY <2>3, SectionLinks
    <3>2. contents = {}
      BY <3>1, MembersOf DEF contents
    <3>3. cbegin = cend
      BY <2>3 DEF cbegin, has_normal_index_db
    <3>4. visit[cbegin] = contents
      BY <3>2, <3>3, VisitIsFrom DEF From
    <3>5. get_normal_index_count_db = Cardinality(contents)
      BY <2>3, <3>2, FS_EmptySet DEF get_normal_index_count_db, has_normal_index_db
    <3> QED
      BY <2>1, <3>3, <3>4, <3>5 DEF TraversalComplete
  <2> QED
    BY <2>2, <2>3
<1> QED
  BY <1>1, IndexInvariant, PTL
=============================================================================
