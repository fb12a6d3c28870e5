------------------------ MODULE IndexSectionsProofs -------------------------
(***************************************************************************)
(* What appending to and erasing from the sections of a normal index       *)
(* preserve and return, for every size of a section.                       *)
(***************************************************************************)
EXTENDS IndexSections, SequenceTheorems, WellFoundedInduction, TLAPS

IsIndex(d) == DOMAIN d \subseteq Nat /\ \A s \in DOMAIN d : d[s] \in Section

\* No section has a serial above one of its numbers, so serials are as bounded
\* as the numbers are.
SerialsLow(d) == \A s \in DOMAIN d : \A x \in Range(d[s].vect_seq) : s <= x

Increasing(v) == \A i, j \in 1 .. Len(v) : i < j => v[i] < v[j]

\* The index is as the operations of the index expect it.
WellFormed(d) == IsIndex(d) /\ Ring(d) /\ Sorted(d) /\ SerialsLow(d)

-----------------------------------------------------------------------------
\* Records and sections.

\* Writing a record.
LEMMA SetRecord ==
  ASSUME NEW d, NEW s, NEW x
  PROVE /\ DOMAIN set_normal_index_one_db(d, s, x) = DOMAIN d \cup {s}
        /\ set_normal_index_one_db(d, s, x)[s] = x
        /\ \A t \in DOMAIN d : t # s => set_normal_index_one_db(d, s, x)[t] = d[t]
BY DEF set_normal_index_one_db

\* Deleting a record.
LEMMA DeleteRecord ==
  ASSUME NEW d, NEW s
  PROVE /\ DOMAIN delete_normal_index_one_db(d, s) = DOMAIN d \ {s}
        /\ \A t \in DOMAIN d : t # s => delete_normal_index_one_db(d, s)[t] = d[t]
BY DEF delete_normal_index_one_db

\* The fields of a section.
LEMMA SectionFields ==
  ASSUME NEW x \in Section
  PROVE /\ x.previous \in Nat
        /\ x.next \in Nat
        /\ x.vect_seq \in Seq(Nat)
        /\ x = NormalIndexValue(x.previous, x.vect_seq, x.next)
BY DEF Section, NormalIndexValue

\* A section with other links, or other numbers.
LEMMA SectionUpdate ==
  ASSUME NEW x \in Section, NEW p, NEW v, NEW n
  PROVE /\ [x EXCEPT !.previous = p] = NormalIndexValue(p, x.vect_seq, x.next)
        /\ [x EXCEPT !.next = n] = NormalIndexValue(x.previous, x.vect_seq, n)
        /\ [x EXCEPT !.vect_seq = v] = NormalIndexValue(x.previous, v, x.next)
<1>1. [x EXCEPT !.previous = p] = NormalIndexValue(p, x.vect_seq, x.next)
  BY DEF Section, NormalIndexValue
<1>2. [x EXCEPT !.next = n] = NormalIndexValue(x.previous, x.vect_seq, n)
  BY DEF Section, NormalIndexValue
<1>3. [x EXCEPT !.vect_seq = v] = NormalIndexValue(x.previous, v, x.next)
  BY DEF Section, NormalIndexValue
<1> QED
  BY <1>1, <1>2, <1>3

\* What a section is built from.
LEMMA SectionType ==
  ASSUME NEW p \in Nat, NEW v \in Seq(Nat), NEW n \in Nat
  PROVE /\ NormalIndexValue(p, v, n) \in Section
        /\ NormalIndexValue(p, v, n).previous = p
        /\ NormalIndexValue(p, v, n).vect_seq = v
        /\ NormalIndexValue(p, v, n).next = n
BY DEF Section, NormalIndexValue

\* The numbers of a section are naturals, indexed by their positions.
LEMMA SectionRange ==
  ASSUME NEW v \in Seq(Nat)
  PROVE /\ Range(v) \subseteq Nat
        /\ \A x : x \in Range(v) <=> \E i \in 1 .. Len(v) : v[i] = x
BY DEF Range

\* A number of the index lies in a section.
LEMMA MembersOf ==
  ASSUME NEW d, NEW x
  PROVE x \in Members(d) <=> \E s \in DOMAIN d : x \in Range(d[s].vect_seq)
BY DEF Members

\* The numbers of an index are naturals.
LEMMA MembersNat ==
  ASSUME NEW d, IsIndex(d)
  PROVE Members(d) \subseteq Nat
<1>1. ASSUME NEW s \in DOMAIN d PROVE Range(d[s].vect_seq) \subseteq Nat
  BY SectionFields, SectionRange DEF IsIndex
<1> QED
  BY <1>1, MembersOf

-----------------------------------------------------------------------------
\* The ring.

\* The order of an index depends only on the domain and the links.
LEMMA RingOfLinks ==
  ASSUME NEW d, NEW e, Ring(d), DOMAIN e = DOMAIN d,
         \A t \in DOMAIN d : e[t].previous = d[t].previous /\ e[t].next = d[t].next
  PROVE Ring(e)
BY DEF Ring

\* A section behind the last one extends the ring.
LEMMA RingExtended ==
  ASSUME NEW d, NEW e, IsIndex(d), Ring(d), HEADSERIAL \in DOMAIN d,
         NEW last, last = d[HEADSERIAL].previous,
         DOMAIN e = DOMAIN d \cup {last + 1},
         e[last + 1].previous = last, e[last + 1].next = HEADSERIAL,
         \A t \in DOMAIN d :
           /\ e[t].previous = IF t = HEADSERIAL THEN last + 1 ELSE d[t].previous
           /\ e[t].next = IF t = last THEN last + 1 ELSE d[t].next
  PROVE Ring(e)
<1>1. /\ last \in DOMAIN d /\ last \in Nat
      /\ \A t \in DOMAIN d : t \in Nat /\ t <= last
  BY DEF Ring, IsIndex
<1>2. \A t \in DOMAIN d : d[t].next \in Nat /\ d[t].previous \in Nat
  BY SectionFields DEF IsIndex
<1>3. e[HEADSERIAL].previous = last + 1
  OBVIOUS
<1>4. ASSUME NEW s \in DOMAIN e, s # last + 1
      PROVE /\ e[s].next \in DOMAIN e
            /\ e[s].next > s
            /\ \A t \in DOMAIN e : t <= s \/ t >= e[s].next
  <2>1. CASE s = last
    BY <1>1, <2>1
  <2>2. CASE s # last
    BY <1>1, <1>2, <1>4, <2>2 DEF Ring
  <2> QED
    BY <2>1, <2>2
<1>5. ASSUME NEW s \in DOMAIN e, s # HEADSERIAL
      PROVE /\ e[s].previous \in DOMAIN e
            /\ e[s].previous < s
            /\ \A t \in DOMAIN e : t <= e[s].previous \/ t >= s
  <2>1. CASE s = last + 1
    BY <1>1, <2>1
  <2>2. CASE s # last + 1
    <3>1. s \in DOMAIN d /\ e[s].previous = d[s].previous
      BY <1>5, <2>2
    <3> QED
      BY <1>1, <1>2, <1>5, <3>1 DEF Ring
  <2> QED
    BY <2>1, <2>2
<1> QED
  BY <1>1, <1>3, <1>4, <1>5 DEF Ring

\* Cutting a section that is not the head out of the ring.
LEMMA RingCut ==
  ASSUME NEW d, NEW e, IsIndex(d), Ring(d),
         NEW s \in DOMAIN d, s # HEADSERIAL,
         NEW p, p = d[s].previous, NEW n, n = d[s].next,
         DOMAIN e = DOMAIN d \ {s},
         \A t \in DOMAIN e :
           /\ e[t].previous = IF t = n THEN p ELSE d[t].previous
           /\ e[t].next = IF t = p THEN n ELSE d[t].next
  PROVE Ring(e)
<1> DEFINE last == d[HEADSERIAL].previous
<1>1. /\ last \in DOMAIN d
      /\ \A t \in DOMAIN d : t \in Nat /\ t <= last
      /\ HEADSERIAL \in DOMAIN d
      /\ d[last].next = HEADSERIAL
  BY DEF Ring, IsIndex
<1>2. \A t \in DOMAIN d : d[t].next \in Nat /\ d[t].previous \in Nat
  BY SectionFields DEF IsIndex
<1>3. p \in DOMAIN d /\ p < s /\ \A t \in DOMAIN d : t <= p \/ t >= s
  BY DEF Ring
<1>4. d[p].next = s
  <2>1. p # last /\ p \in Nat /\ s \in Nat
    BY <1>1, <1>3
  <2>2. /\ d[p].next \in DOMAIN d /\ d[p].next > p
        /\ s <= p \/ s >= d[p].next
    BY <1>3, <2>1 DEF Ring
  <2> QED
    BY <1>1, <1>3, <2>1, <2>2
<1>5. CASE s = last
  <2>1. n = HEADSERIAL /\ e[HEADSERIAL].previous = p
    BY <1>1, <1>5 DEF HEADSERIAL
  <2>2. e[p].next = HEADSERIAL /\ p \in DOMAIN e
    BY <1>1, <1>3, <2>1
  <2>3. ASSUME NEW t \in DOMAIN e PROVE t <= p
    BY <1>1, <1>3, <1>5
  <2>4. ASSUME NEW t \in DOMAIN e, t # p
        PROVE /\ e[t].next \in DOMAIN e
              /\ e[t].next > t
              /\ \A u \in DOMAIN e : u <= t \/ u >= e[t].next
    <3>1. e[t].next = d[t].next /\ t < p
      BY <1>1, <1>3, <2>3, <2>4
    <3>2. d[t].next # s
      BY <1>1, <1>3, <1>5, <3>1 DEF Ring
    <3> QED
      BY <3>1, <3>2, <1>1, <1>5 DEF Ring
  <2>5. ASSUME NEW t \in DOMAIN e, t # HEADSERIAL
        PROVE /\ e[t].previous \in DOMAIN e
              /\ e[t].previous < t
              /\ \A u \in DOMAIN e : u <= e[t].previous \/ u >= t
    <3>1. e[t].previous = d[t].previous
      BY <2>1, <2>5
    <3>2. d[t].previous # s
      BY <1>1, <1>5, <2>5 DEF Ring
    <3> QED
      BY <3>1, <3>2, <2>5 DEF Ring
  <2>6. HEADSERIAL \in DOMAIN e
    BY <1>1
  <2> QED
    BY <2>1, <2>2, <2>3, <2>4, <2>5, <2>6 DEF Ring
<1>6. CASE s # last
  <2>1. /\ n \in DOMAIN d /\ n > s
        /\ \A t \in DOMAIN d : t <= s \/ t >= n
    BY <1>6 DEF Ring
  <2>2. e[HEADSERIAL].previous = last /\ last \in DOMAIN e /\ HEADSERIAL \in DOMAIN e
    BY <1>1, <1>6, <2>1 DEF HEADSERIAL
  <2>3. last # p /\ e[last].next = HEADSERIAL
    BY <1>1, <1>3, <1>4, <2>2 DEF HEADSERIAL
  <2>4. ASSUME NEW t \in DOMAIN e, t # last
        PROVE /\ e[t].next \in DOMAIN e
              /\ e[t].next > t
              /\ \A u \in DOMAIN e : u <= t \/ u >= e[t].next
    <3>1. CASE t = p
      BY <1>1, <1>3, <2>1, <3>1
    <3>2. CASE t # p
      <4>1. e[t].next = d[t].next
        BY <3>2
      <4>2. d[t].next # s
        BY <1>1, <1>3, <2>4, <3>2 DEF Ring
      <4> QED
        BY <4>1, <4>2, <2>4 DEF Ring
    <3> QED
      BY <3>1, <3>2
  <2>5. ASSUME NEW t \in DOMAIN e, t # HEADSERIAL
        PROVE /\ e[t].previous \in DOMAIN e
              /\ e[t].previous < t
              /\ \A u \in DOMAIN e : u <= e[t].previous \/ u >= t
    <3>1. CASE t = n
      BY <1>1, <1>3, <2>1, <3>1
    <3>2. CASE t # n
      <4>1. e[t].previous = d[t].previous
        BY <3>2
      <4>2. d[t].previous # s
        <5>1. SUFFICES ASSUME d[t].previous = s PROVE FALSE
          OBVIOUS
        <5>2. s < t /\ (n <= s \/ n >= t)
          BY <2>1, <2>5, <5>1 DEF Ring
        <5>3. t <= s \/ t >= n
          BY <2>1
        <5> QED
          BY <1>1, <2>1, <3>2, <5>2, <5>3
      <4> QED
        BY <4>1, <4>2, <2>5 DEF Ring
    <3> QED
      BY <3>1, <3>2
  <2> QED
    BY <1>1, <2>2, <2>3, <2>4, <2>5 DEF Ring
<1> QED
  BY <1>5, <1>6

\* Replacing the head by its successor.
LEMMA RingHead ==
  ASSUME NEW d, NEW e, IsIndex(d), Ring(d), HEADSERIAL \in DOMAIN d,
         NEW last, last = d[HEADSERIAL].previous,
         NEW n, n = d[HEADSERIAL].next, n # HEADSERIAL,
         DOMAIN e = DOMAIN d \ {n},
         e[HEADSERIAL].previous = IF last = n THEN HEADSERIAL ELSE last,
         e[HEADSERIAL].next = d[n].next,
         \A t \in DOMAIN e : t # HEADSERIAL =>
           /\ e[t].previous = IF t = d[n].next THEN HEADSERIAL ELSE d[t].previous
           /\ e[t].next = d[t].next
  PROVE Ring(e)
<1>1. /\ last \in DOMAIN d
      /\ \A t \in DOMAIN d : t \in Nat /\ t <= last
      /\ d[last].next = HEADSERIAL
  BY DEF Ring, IsIndex
<1>2. HEADSERIAL # last
  BY <1>1
<1>3. /\ n \in DOMAIN d
      /\ \A t \in DOMAIN d : t <= HEADSERIAL \/ t >= n
  BY <1>2 DEF Ring
<1>4. \A t \in DOMAIN e : t \in DOMAIN d /\ (t = HEADSERIAL \/ t > n)
  BY <1>1, <1>3 DEF HEADSERIAL
<1>5. HEADSERIAL \in DOMAIN e
  OBVIOUS
<1>6. CASE last = n
  <2>1. \A t \in DOMAIN e : t = HEADSERIAL
    BY <1>1, <1>4, <1>6
  <2>2. e[HEADSERIAL].previous = HEADSERIAL /\ e[HEADSERIAL].next = HEADSERIAL
    BY <1>1, <1>6
  <2> QED
    BY <1>5, <2>1, <2>2 DEF Ring, HEADSERIAL
<1>7. CASE last # n
  <2> DEFINE m == d[n].next
  <2>1. /\ m \in DOMAIN d /\ m > n
        /\ \A t \in DOMAIN d : t <= n \/ t >= m
    BY <1>3, <1>7 DEF Ring
  <2>2. e[HEADSERIAL].previous = last /\ last \in DOMAIN e /\ last # HEADSERIAL
    BY <1>1, <1>2, <1>7
  <2>3. e[last].next = HEADSERIAL
    BY <1>1, <2>2
  <2>4. ASSUME NEW t \in DOMAIN e, t # last
        PROVE /\ e[t].next \in DOMAIN e
              /\ e[t].next > t
              /\ \A u \in DOMAIN e : u <= t \/ u >= e[t].next
    <3>1. CASE t = HEADSERIAL
      BY <1>1, <1>3, <1>4, <2>1, <3>1 DEF HEADSERIAL
    <3>2. CASE t # HEADSERIAL
      <4>1. t > n /\ e[t].next = d[t].next
        BY <1>4, <3>2
      <4>2. /\ d[t].next \in DOMAIN d /\ d[t].next > t
            /\ \A u \in DOMAIN d : u <= t \/ u >= d[t].next
        BY <1>4, <2>4 DEF Ring
      <4> QED
        BY <1>1, <1>3, <1>4, <4>1, <4>2
    <3> QED
      BY <3>1, <3>2
  <2>5. ASSUME NEW t \in DOMAIN e, t # HEADSERIAL
        PROVE /\ e[t].previous \in DOMAIN e
              /\ e[t].previous < t
              /\ \A u \in DOMAIN e : u <= e[t].previous \/ u >= t
    <3>1. t > n /\ t \in DOMAIN d /\ t \in Nat /\ n \in Nat
      BY <1>1, <1>3, <1>4, <2>5
    <3>2. CASE t = m
      BY <1>1, <1>3, <1>4, <1>5, <2>1, <3>1, <3>2 DEF HEADSERIAL
    <3>3. CASE t # m
      <4>1. e[t].previous = d[t].previous
        BY <2>5, <3>3
      <4>2. /\ d[t].previous \in DOMAIN d /\ d[t].previous < t
            /\ \A u \in DOMAIN d : u <= d[t].previous \/ u >= t
        BY <2>5, <3>1 DEF Ring
      <4>3. m < t
        BY <1>1, <2>1, <3>1, <3>3
      <4>4. m <= d[t].previous
        BY <1>1, <2>1, <4>2, <4>3, <3>1
      <4> QED
        BY <1>1, <2>1, <3>1, <4>1, <4>2, <4>4
    <3> QED
      BY <3>2, <3>3
  <2> QED
    BY <1>1, <1>4, <1>5, <2>2, <2>3, <2>4, <2>5 DEF Ring
<1> QED
  BY <1>6, <1>7

-----------------------------------------------------------------------------
\* The order of the numbers.

\* Moving sections without changing their order, and taking numbers from them,
\* keeps an index sorted.
LEMMA SortedPart ==
  ASSUME NEW d, NEW e, IsIndex(d), Sorted(d), SerialsLow(d), DOMAIN e \subseteq Nat,
         NEW f \in [DOMAIN e -> DOMAIN d],
         \A s, t \in DOMAIN e : s < t => f[s] < f[t],
         \A s \in DOMAIN e :
           /\ s <= f[s]
           /\ Range(e[s].vect_seq) \subseteq Range(d[f[s]].vect_seq)
           /\ Len(e[s].vect_seq) \in 1 .. MAXSIZE
           /\ Increasing(e[s].vect_seq)
  PROVE Sorted(e) /\ SerialsLow(e)
<1>1. ASSUME NEW s \in DOMAIN e, NEW t \in DOMAIN e, s < t,
             NEW x \in Range(e[s].vect_seq), NEW y \in Range(e[t].vect_seq)
      PROVE x < y
  BY <1>1 DEF Sorted
<1>2. ASSUME NEW s \in DOMAIN e, NEW x \in Range(e[s].vect_seq)
      PROVE s <= x
  <2>1. f[s] <= x /\ s <= f[s] /\ f[s] \in DOMAIN d /\ x \in Range(d[f[s]].vect_seq)
    BY DEF SerialsLow
  <2>2. x \in Nat /\ f[s] \in Nat /\ s \in Nat
    BY <2>1, SectionFields, SectionRange DEF IsIndex
  <2> QED
    BY <2>1, <2>2
<1> QED
  BY <1>1, <1>2 DEF Sorted, SerialsLow, Increasing

\* Putting a number above all others behind the last section, or into it,
\* keeps an index sorted.
LEMMA SortedExtended ==
  ASSUME NEW d, NEW e, IsIndex(d), Sorted(d), SerialsLow(d),
         NEW seq \in Nat, \A x \in Members(d) : x < seq,
         NEW l \in Nat, l <= seq, \A t \in DOMAIN d : t <= l,
         DOMAIN e = DOMAIN d \cup {l},
         \A t \in DOMAIN d : t # l => e[t].vect_seq = d[t].vect_seq,
         Range(e[l].vect_seq) \subseteq
           {seq} \cup (IF l \in DOMAIN d THEN Range(d[l].vect_seq) ELSE {}),
         Len(e[l].vect_seq) \in 1 .. MAXSIZE, Increasing(e[l].vect_seq)
  PROVE Sorted(e) /\ SerialsLow(e)
<1>1. ASSUME NEW s \in DOMAIN e, NEW t \in DOMAIN e, s < t,
             NEW x \in Range(e[s].vect_seq), NEW y \in Range(e[t].vect_seq)
      PROVE x < y
  <2>1. s \in Nat /\ t \in Nat /\ t <= l
    BY DEF IsIndex
  <2>2. s # l /\ s \in DOMAIN d /\ x \in Range(d[s].vect_seq)
    BY <1>1, <2>1
  <2>3. x \in Members(d)
    BY <2>2, MembersOf
  <2>4. CASE y = seq
    BY <2>3, <2>4
  <2>5. CASE y # seq
    <3>1. t \in DOMAIN d /\ y \in Range(d[t].vect_seq)
      BY <2>5
    <3> QED
      BY <1>1, <2>2, <3>1 DEF Sorted
  <2> QED
    BY <2>4, <2>5
<1>2. ASSUME NEW s \in DOMAIN e, NEW x \in Range(e[s].vect_seq)
      PROVE s <= x
  BY DEF SerialsLow
<1>3. ASSUME NEW s \in DOMAIN e
      PROVE Len(e[s].vect_seq) \in 1 .. MAXSIZE /\ Increasing(e[s].vect_seq)
  BY DEF Sorted, Increasing
<1> QED
  BY <1>1, <1>2, <1>3 DEF Sorted, SerialsLow, Increasing

-----------------------------------------------------------------------------
\* lower_bound and erase.

\* A set of naturals that is not empty has a least element.
LEMMA LeastSerial ==
  ASSUME NEW S \in SUBSET Nat, S # {}
  PROVE \E x \in S : \A y \in S : x <= y
<1> DEFINE R == OpToRel(<, Nat)
<1>1. IsWellFoundedOn(R, Nat)
  BY NatLessThanWellFounded, Zenon
<1>2. R = {ss \in Nat \X Nat : ss[1] < ss[2]}
  BY DEF OpToRel
<1> HIDE DEF R
<1>3. PICK x \in S : \A y \in S : ~(<<y, x>> \in R)
  BY <1>1, WFMin
<1>4. \A y \in S : ~(y < x)
  BY <1>2, <1>3
<1> QED
  BY <1>4

\* lower_bound finds the first number that is not below seq.
LEMMA LowerBound ==
  ASSUME NEW v \in Seq(Nat), NEW seq \in Nat
  PROVE /\ lower_bound(v, seq) \in 1 .. Len(v) + 1
        /\ \A j \in 1 .. lower_bound(v, seq) - 1 : v[j] < seq
        /\ lower_bound(v, seq) <= Len(v) => v[lower_bound(v, seq)] >= seq
<1> DEFINE S == {i \in 1 .. Len(v) + 1 : i <= Len(v) => v[i] >= seq}
<1>1. Len(v) \in Nat /\ \A i \in 1 .. Len(v) : v[i] \in Nat
  OBVIOUS
<1>2. S \in SUBSET Nat /\ Len(v) + 1 \in S
  BY <1>1
<1>3. PICK i \in S : \A y \in S : i <= y
  BY <1>2, LeastSerial
<1>4. ASSUME NEW j \in 1 .. i - 1 PROVE v[j] < seq
  <2>1. j \in 1 .. Len(v) + 1 /\ j \notin S /\ j <= Len(v)
    BY <1>1, <1>3
  <2> QED
    BY <1>1, <2>1
<1>5. \E k \in 1 .. Len(v) + 1 :
        /\ \A j \in 1 .. k - 1 : v[j] < seq
        /\ k <= Len(v) => v[k] >= seq
  BY <1>3, <1>4
<1> QED
  BY <1>5 DEF lower_bound

\* erase takes out one number and keeps the others in their order.
LEMMA EraseAtProperties ==
  ASSUME NEW v \in Seq(Nat), Increasing(v), NEW i \in 1 .. Len(v)
  PROVE /\ EraseAt(v, i) \in Seq(Nat)
        /\ Len(EraseAt(v, i)) = Len(v) - 1
        /\ Range(EraseAt(v, i)) = Range(v) \ {v[i]}
        /\ Increasing(EraseAt(v, i))
<1> DEFINE e == EraseAt(v, i)
<1>1. Len(v) \in Nat /\ \A j \in 1 .. Len(v) : v[j] \in Nat
  OBVIOUS
<1>2. e \in [1 .. Len(v) - 1 -> Nat]
  BY <1>1 DEF EraseAt
<1>3. e \in Seq(Nat) /\ Len(e) = Len(v) - 1
  <2> DEFINE n == Len(v) - 1
  <2>1. n \in Nat /\ e \in [1 .. n -> Nat]
    BY <1>1, <1>2
  <2> HIDE DEF n, e
  <2>2. e \in Seq(Nat) /\ Len(e) = n
    BY <2>1, SeqDef
  <2> QED
    BY <2>2 DEF n
<1>4. \A j \in 1 .. Len(v) - 1 : e[j] = IF j < i THEN v[j] ELSE v[j + 1]
  BY DEF EraseAt
<1> HIDE DEF e
<1>5. ASSUME NEW j \in 1 .. Len(e), NEW k \in 1 .. Len(e), j < k
      PROVE e[j] < e[k]
  <2>1. j \in 1 .. Len(v) - 1 /\ k \in 1 .. Len(v) - 1
    BY <1>3
  <2>2. \A a, b \in 1 .. Len(v) : a < b => v[a] < v[b]
    BY DEF Increasing
  <2>3. CASE k < i
    <3>1. j \in 1 .. Len(v) /\ k \in 1 .. Len(v) /\ j < i
      BY <1>1, <1>5, <2>1, <2>3
    <3> QED
      BY <1>4, <1>5, <2>1, <2>2, <2>3, <3>1
  <2>4. CASE ~(k < i) /\ j < i
    <3>1. j \in 1 .. Len(v) /\ k + 1 \in 1 .. Len(v) /\ j < k + 1
      BY <1>1, <1>5, <2>1
    <3> QED
      BY <1>4, <2>1, <2>2, <2>4, <3>1
  <2>5. CASE ~(j < i)
    <3>1. j + 1 \in 1 .. Len(v) /\ k + 1 \in 1 .. Len(v) /\ j + 1 < k + 1 /\ ~(k < i)
      BY <1>1, <1>5, <2>1, <2>5
    <3> QED
      BY <1>4, <2>1, <2>2, <2>5, <3>1
  <2> QED
    BY <2>3, <2>4, <2>5
<1>6. ASSUME NEW x \in Range(e) PROVE x \in Range(v) \ {v[i]}
  <2>1. PICK j \in 1 .. Len(v) - 1 : e[j] = x
    BY <1>3, SectionRange
  <2>2. CASE j < i
    <3>1. x = v[j] /\ v[j] < v[i] /\ j \in 1 .. Len(v)
      BY <1>1, <1>4, <2>1, <2>2 DEF Increasing
    <3> QED
      BY <1>1, <3>1, SectionRange
  <2>3. CASE ~(j < i)
    <3>1. x = v[j + 1] /\ v[i] < v[j + 1] /\ j + 1 \in 1 .. Len(v)
      BY <1>1, <1>4, <2>1, <2>3 DEF Increasing
    <3> QED
      BY <1>1, <3>1, SectionRange
  <2> QED
    BY <2>2, <2>3
<1>7. ASSUME NEW x \in Range(v) \ {v[i]} PROVE x \in Range(e)
  <2>1. PICK j \in 1 .. Len(v) : v[j] = x
    BY SectionRange
  <2>2. CASE j < i
    <3>1. j \in 1 .. Len(v) - 1 /\ e[j] = x
      BY <1>1, <1>4, <2>1, <2>2
    <3> QED
      BY <1>3, <3>1, SectionRange
  <2>3. CASE ~(j < i)
    <3>1. j # i
      BY <2>1
    <3>2. j - 1 \in 1 .. Len(v) - 1 /\ ~(j - 1 < i) /\ (j - 1) + 1 = j
      BY <1>1, <2>3, <3>1
    <3>3. e[j - 1] = x
      BY <1>4, <2>1, <3>2
    <3> QED
      BY <1>3, <3>2, <3>3, SectionRange
  <2> QED
    BY <2>2, <2>3
<1>8. Range(e) = Range(v) \ {v[i]}
  BY <1>6, <1>7
<1> QED
  BY <1>3, <1>5, <1>8 DEF e, Increasing

\* The numbers that remain are the numbers of the section without seq, in their
\* order, whether seq was there or not.
LEMMA RemainingProperties ==
  ASSUME NEW v \in Seq(Nat), Increasing(v), NEW seq \in Nat
  PROVE /\ Remaining(v, seq) \in Seq(Nat)
        /\ Len(Remaining(v, seq)) <= Len(v)
        /\ Range(Remaining(v, seq)) = Range(v) \ {seq}
        /\ Increasing(Remaining(v, seq))
<1> DEFINE i == lower_bound(v, seq)
<1>1. /\ i \in 1 .. Len(v) + 1
      /\ \A j \in 1 .. i - 1 : v[j] < seq
      /\ i <= Len(v) => v[i] >= seq
  BY LowerBound
<1>2. Remaining(v, seq) = IF i <= Len(v) /\ v[i] = seq THEN EraseAt(v, i) ELSE v
  BY DEF Remaining
<1> HIDE DEF i
<1>3. Len(v) \in Nat /\ \A j \in 1 .. Len(v) : v[j] \in Nat
  OBVIOUS
<1>4. CASE i <= Len(v) /\ v[i] = seq
  <2>1. i \in 1 .. Len(v)
    BY <1>1, <1>3, <1>4
  <2> QED
    <3>1. /\ EraseAt(v, i) \in Seq(Nat)
          /\ Len(EraseAt(v, i)) = Len(v) - 1
          /\ Range(EraseAt(v, i)) = Range(v) \ {v[i]}
          /\ Increasing(EraseAt(v, i))
      BY <2>1, EraseAtProperties
    <3>2. Remaining(v, seq) = EraseAt(v, i)
      BY <1>2, <1>4
    <3>3. Len(v) - 1 <= Len(v)
      BY <1>3
    <3> QED
      BY <1>4, <3>1, <3>2, <3>3
<1>5. CASE ~(i <= Len(v) /\ v[i] = seq)
  <2>1. ASSUME NEW j \in 1 .. Len(v) PROVE v[j] # seq
    <3>1. CASE j < i
      BY <1>1, <1>3, <3>1
    <3>2. CASE j = i
      BY <1>3, <1>5, <3>2
    <3>3. CASE j > i
      BY <1>1, <1>3, <1>5, <3>3 DEF Increasing
    <3> QED
      BY <1>1, <3>1, <3>2, <3>3
  <2>2. seq \notin Range(v)
    BY <2>1, SectionRange
  <2> QED
    BY <1>2, <1>3, <1>5, <2>2
<1> QED
  BY <1>4, <1>5

\* A section is empty exactly if it has no numbers.
LEMMA EmptyRange ==
  ASSUME NEW v \in Seq(Nat)
  PROVE /\ v = <<>> <=> Range(v) = {}
        /\ v # <<>> => Len(v) >= 1
<1>1. CASE v = <<>>
  <2>1. Len(v) = 0
    BY <1>1
  <2>2. ASSUME NEW x \in Range(v) PROVE FALSE
    <3>1. PICK i \in 1 .. Len(v) : v[i] = x
      BY SectionRange
    <3> QED
      BY <2>1, <3>1
  <2> QED
    BY <1>1, <2>2
<1>2. CASE v # <<>>
  <2>1. Len(v) >= 1
    BY <1>2
  <2>2. v[1] \in Range(v)
    BY <2>1, SectionRange
  <2> QED
    BY <1>2, <2>1, <2>2
<1> QED
  BY <1>1, <1>2

-----------------------------------------------------------------------------
\* Appending.

\* The head is alone exactly if it is its own last section.
LEMMA AloneHead ==
  ASSUME NEW d, Ring(d), HEADSERIAL \in DOMAIN d
  PROVE Alone(d[HEADSERIAL]) <=> d[HEADSERIAL].previous = HEADSERIAL
BY DEF Alone, Ring

\* What the index is after AppendSecond.
LEMMA AppendSecondIs ==
  ASSUME NEW d, IsIndex(d), Ring(d), HEADSERIAL \in DOMAIN d, NEW seq \in Nat,
         d[HEADSERIAL].previous = HEADSERIAL, HEADSERIAL + 1 \notin DOMAIN d
  PROVE LET e == AppendSecond(d, seq)
            last == HEADSERIAL
        IN /\ DOMAIN e = DOMAIN d \cup {last + 1}
           /\ e[last + 1] = NormalIndexValue(last, <<seq>>, HEADSERIAL)
           /\ \A t \in DOMAIN d :
                e[t] = NormalIndexValue(
                         IF t = HEADSERIAL THEN last + 1 ELSE d[t].previous,
                         d[t].vect_seq,
                         IF t = last THEN last + 1 ELSE d[t].next)
<1> DEFINE head  == d[HEADSERIAL]
           fresh == HEADSERIAL + 1
           added == set_normal_index_one_db(d, fresh,
                      NormalIndexValue(HEADSERIAL, <<seq>>, HEADSERIAL))
           hsec  == [head EXCEPT !.previous = fresh, !.next = fresh]
           e     == set_normal_index_one_db(added, HEADSERIAL, hsec)
<1>1. e = AppendSecond(d, seq)
  BY DEF AppendSecond
<1>2. /\ DOMAIN added = DOMAIN d \cup {fresh}
      /\ added[fresh] = NormalIndexValue(HEADSERIAL, <<seq>>, HEADSERIAL)
      /\ \A t \in DOMAIN d : t # fresh => added[t] = d[t]
  BY DEF set_normal_index_one_db
<1>3. hsec = NormalIndexValue(fresh, head.vect_seq, fresh)
  <2>1. head \in Section
    BY DEF IsIndex
  <2> HIDE DEF head, fresh
  <2>2. hsec = [[head EXCEPT !.previous = fresh] EXCEPT !.next = fresh]
    BY <2>1 DEF Section
  <2>3. [head EXCEPT !.previous = fresh] = NormalIndexValue(fresh, head.vect_seq, head.next)
    BY <2>1, SectionUpdate
  <2>4. [NormalIndexValue(fresh, head.vect_seq, head.next) EXCEPT !.next = fresh]
          = NormalIndexValue(fresh, head.vect_seq, fresh)
    BY DEF NormalIndexValue
  <2> QED
    BY <2>2, <2>3, <2>4
<1> HIDE DEF added, hsec
<1>4. /\ DOMAIN e = DOMAIN added \cup {HEADSERIAL}
      /\ e[HEADSERIAL] = hsec
      /\ \A t \in DOMAIN added : t # HEADSERIAL => e[t] = added[t]
  BY DEF set_normal_index_one_db
<1>5. \A t \in DOMAIN d : d[t] = NormalIndexValue(d[t].previous, d[t].vect_seq, d[t].next)
  BY SectionFields DEF IsIndex
<1> HIDE DEF e
<1>6. fresh # HEADSERIAL
  BY DEF HEADSERIAL
<1>7. /\ DOMAIN e = DOMAIN d \cup {fresh}
      /\ e[fresh] = NormalIndexValue(HEADSERIAL, <<seq>>, HEADSERIAL)
  BY <1>2, <1>4, <1>6
<1>8. \A t \in DOMAIN d :
        e[t] = NormalIndexValue(
                 IF t = HEADSERIAL THEN fresh ELSE d[t].previous,
                 d[t].vect_seq,
                 IF t = HEADSERIAL THEN fresh ELSE d[t].next)
  <2> TAKE t \in DOMAIN d
  <2>1. CASE t = HEADSERIAL
    BY <1>3, <1>4, <2>1
  <2>2. CASE t # HEADSERIAL
    BY <1>2, <1>4, <1>5, <2>2
  <2> QED
    BY <2>1, <2>2
<1> QED
  BY <1>1, <1>7, <1>8

\* What the index is after AppendSection.
LEMMA AppendSectionIs ==
  ASSUME NEW d, IsIndex(d), Ring(d), HEADSERIAL \in DOMAIN d, NEW seq \in Nat,
         NEW last \in DOMAIN d, last = d[HEADSERIAL].previous, last # HEADSERIAL,
         last + 1 \notin DOMAIN d
  PROVE LET e == AppendSection(d, seq)
        IN /\ DOMAIN e = DOMAIN d \cup {last + 1}
           /\ e[last + 1] = NormalIndexValue(last, <<seq>>, HEADSERIAL)
           /\ \A t \in DOMAIN d :
                e[t] = NormalIndexValue(
                         IF t = HEADSERIAL THEN last + 1 ELSE d[t].previous,
                         d[t].vect_seq,
                         IF t = last THEN last + 1 ELSE d[t].next)
<1> DEFINE head   == d[HEADSERIAL]
           fresh  == last + 1
           added  == set_normal_index_one_db(d, fresh,
                       NormalIndexValue(last, <<seq>>, HEADSERIAL))
           lsec   == [d[last] EXCEPT !.next = fresh]
           linked == set_normal_index_one_db(added, last, lsec)
           hsec   == [head EXCEPT !.previous = fresh]
           e      == set_normal_index_one_db(linked, HEADSERIAL, hsec)
<1>1. e = AppendSection(d, seq)
  BY DEF AppendSection
<1>2. /\ DOMAIN added = DOMAIN d \cup {fresh}
      /\ added[fresh] = NormalIndexValue(last, <<seq>>, HEADSERIAL)
      /\ \A t \in DOMAIN d : t # fresh => added[t] = d[t]
  BY DEF set_normal_index_one_db
<1>3. /\ hsec = NormalIndexValue(fresh, head.vect_seq, head.next)
      /\ lsec = NormalIndexValue(d[last].previous, d[last].vect_seq, fresh)
  <2>1. head \in Section /\ d[last] \in Section
    BY DEF IsIndex
  <2> HIDE DEF head, fresh
  <2> QED
    BY <2>1, SectionUpdate
<1> HIDE DEF added, hsec, lsec
<1>4. /\ DOMAIN linked = DOMAIN added \cup {last}
      /\ linked[last] = lsec
      /\ \A t \in DOMAIN added : t # last => linked[t] = added[t]
  BY DEF set_normal_index_one_db
<1> HIDE DEF linked
<1>5. /\ DOMAIN e = DOMAIN linked \cup {HEADSERIAL}
      /\ e[HEADSERIAL] = hsec
      /\ \A t \in DOMAIN linked : t # HEADSERIAL => e[t] = linked[t]
  BY DEF set_normal_index_one_db
<1>6. \A t \in DOMAIN d : d[t] = NormalIndexValue(d[t].previous, d[t].vect_seq, d[t].next)
  BY SectionFields DEF IsIndex
<1> HIDE DEF e
<1>7. fresh # HEADSERIAL /\ fresh # last
  BY DEF HEADSERIAL
<1>8. /\ DOMAIN e = DOMAIN d \cup {fresh}
      /\ e[fresh] = NormalIndexValue(last, <<seq>>, HEADSERIAL)
  BY <1>2, <1>4, <1>5, <1>7
<1>9. \A t \in DOMAIN d :
        e[t] = NormalIndexValue(
                 IF t = HEADSERIAL THEN fresh ELSE d[t].previous,
                 d[t].vect_seq,
                 IF t = last THEN fresh ELSE d[t].next)
  <2> TAKE t \in DOMAIN d
  <2>1. CASE t = HEADSERIAL
    BY <1>3, <1>5, <2>1
  <2>2. CASE t = last
    BY <1>3, <1>4, <1>5, <2>2
  <2>3. CASE t # HEADSERIAL /\ t # last
    BY <1>2, <1>4, <1>5, <1>6, <2>3
  <2> QED
    BY <2>1, <2>2, <2>3
<1> QED
  BY <1>1, <1>8, <1>9

\* A section behind the last one.
LEMMA SectionAdded ==
  ASSUME NEW d, WellFormed(d), HEADSERIAL \in DOMAIN d,
         NEW seq \in Nat, \A x \in Members(d) : x < seq,
         NEW last, last = d[HEADSERIAL].previous, NEW e,
         DOMAIN e = DOMAIN d \cup {last + 1},
         e[last + 1] = NormalIndexValue(last, <<seq>>, HEADSERIAL),
         \A t \in DOMAIN d :
           e[t] = NormalIndexValue(
                    IF t = HEADSERIAL THEN last + 1 ELSE d[t].previous,
                    d[t].vect_seq,
                    IF t = last THEN last + 1 ELSE d[t].next)
  PROVE WellFormed(e) /\ Members(e) = Members(d) \cup {seq}
<1>1. IsIndex(d) /\ Ring(d) /\ Sorted(d) /\ SerialsLow(d)
  BY DEF WellFormed
<1>2. /\ last \in DOMAIN d /\ last \in Nat
      /\ \A t \in DOMAIN d : t \in Nat /\ t <= last
  BY <1>1 DEF Ring, IsIndex
<1>3. \A t \in DOMAIN d :
        d[t].next \in Nat /\ d[t].previous \in Nat /\ d[t].vect_seq \in Seq(Nat)
  BY <1>1, SectionFields DEF IsIndex
<1>4. HEADSERIAL \in Nat /\ last + 1 \in Nat /\ <<seq>> \in Seq(Nat)
  BY <1>2 DEF HEADSERIAL
<1>5. /\ e[last + 1] \in Section
      /\ e[last + 1].previous = last
      /\ e[last + 1].next = HEADSERIAL
      /\ e[last + 1].vect_seq = <<seq>>
  <2> DEFINE v == <<seq>>
  <2>1. v \in Seq(Nat) /\ e[last + 1] = NormalIndexValue(last, v, HEADSERIAL)
    BY <1>4
  <2> HIDE DEF v
  <2>2. /\ e[last + 1] \in Section
        /\ e[last + 1].previous = last
        /\ e[last + 1].next = HEADSERIAL
        /\ e[last + 1].vect_seq = v
    BY <1>2, <1>4, <2>1, SectionType
  <2> QED
    BY <2>2 DEF v
<1>6. ASSUME NEW t \in DOMAIN d
      PROVE /\ e[t] \in Section
            /\ e[t].previous = IF t = HEADSERIAL THEN last + 1 ELSE d[t].previous
            /\ e[t].next = IF t = last THEN last + 1 ELSE d[t].next
            /\ e[t].vect_seq = d[t].vect_seq
  <2> DEFINE p == IF t = HEADSERIAL THEN last + 1 ELSE d[t].previous
             n == IF t = last THEN last + 1 ELSE d[t].next
  <2>1. p \in Nat /\ n \in Nat
    BY <1>3, <1>4
  <2>2. e[t] = NormalIndexValue(p, d[t].vect_seq, n)
    OBVIOUS
  <2> HIDE DEF p, n
  <2>3. e[t] \in Section /\ e[t].previous = p /\ e[t].next = n
          /\ e[t].vect_seq = d[t].vect_seq
    BY <1>3, <2>1, <2>2, SectionType
  <2> QED
    BY <2>3 DEF p, n
<1>7. IsIndex(e)
  BY <1>2, <1>4, <1>5, <1>6 DEF IsIndex
<1>8. Ring(e)
  BY <1>1, <1>5, <1>6, RingExtended
<1>9. last + 1 \notin DOMAIN d /\ \A t \in DOMAIN d : t <= last + 1
  BY <1>2
<1>10. Range(e[last + 1].vect_seq) = {seq}
  BY <1>5 DEF Range
<1>11. last + 1 <= seq
  <2>1. Len(d[last].vect_seq) \in 1 .. MAXSIZE
    BY <1>1, <1>2 DEF Sorted
  <2>2. d[last].vect_seq # <<>>
    BY <1>2, <1>3, <2>1
  <2>3. PICK x \in Range(d[last].vect_seq) : TRUE
    BY <1>2, <1>3, <2>2, EmptyRange
  <2>4. last <= x
    BY <1>1, <1>2 DEF SerialsLow
  <2>5. x \in Members(d) /\ x \in Nat
    BY <1>1, <1>2, <2>3, MembersOf, MembersNat
  <2> QED
    BY <1>2, <2>4, <2>5
<1>12. Sorted(e) /\ SerialsLow(e)
  <2>1. Len(e[last + 1].vect_seq) \in 1 .. MAXSIZE /\ Increasing(e[last + 1].vect_seq)
    <3>1. Len(<<seq>>) = 1 /\ Increasing(<<seq>>)
      BY DEF Increasing
    <3>2. 1 \in 1 .. MAXSIZE
      BY SizeAssumption
    <3> QED
      BY <1>5, <3>1, <3>2
  <2>2. \A t \in DOMAIN d : t # last + 1 => e[t].vect_seq = d[t].vect_seq
    BY <1>6
  <2> QED
    BY <1>1, <1>4, <1>9, <1>10, <1>11, <2>1, <2>2, SortedExtended
<1>13. Members(e) = Members(d) \cup {seq}
  <2>1. ASSUME NEW x PROVE x \in Members(e) <=> x \in Members(d) \cup {seq}
    BY <1>6, <1>10, MembersOf
  <2> QED
    BY <2>1
<1> QED
  BY <1>7, <1>8, <1>12, <1>13 DEF WellFormed

\* push_back of a number above all others.
LEMMA AppendNumber ==
  ASSUME NEW v \in Seq(Nat), Increasing(v), NEW seq \in Nat,
         \A x \in Range(v) : x < seq
  PROVE /\ Append(v, seq) \in Seq(Nat)
        /\ Len(Append(v, seq)) = Len(v) + 1
        /\ Range(Append(v, seq)) = Range(v) \cup {seq}
        /\ Increasing(Append(v, seq))
<1> DEFINE w == Append(v, seq)
<1>1. /\ w \in Seq(Nat) /\ Len(w) = Len(v) + 1
      /\ \A i \in 1 .. Len(v) : w[i] = v[i]
      /\ w[Len(v) + 1] = seq
  BY AppendProperties
<1>2. Len(v) \in Nat
  OBVIOUS
<1> HIDE DEF w
<1>3. ASSUME NEW x PROVE x \in Range(w) <=> x \in Range(v) \cup {seq}
  <2>1. ASSUME NEW i \in 1 .. Len(w), w[i] = x PROVE x \in Range(v) \cup {seq}
    <3>1. CASE i = Len(v) + 1
      BY <1>1, <2>1, <3>1
    <3>2. CASE i # Len(v) + 1
      <4>1. i \in 1 .. Len(v) /\ v[i] = x
        BY <1>1, <1>2, <2>1, <3>2
      <4> QED
        BY <4>1, SectionRange
    <3> QED
      BY <3>1, <3>2
  <2>2. ASSUME x \in Range(v) PROVE \E i \in 1 .. Len(w) : w[i] = x
    <3>1. PICK i \in 1 .. Len(v) : v[i] = x
      BY <2>2, SectionRange
    <3> QED
      BY <1>1, <1>2, <3>1
  <2>3. ASSUME x = seq PROVE \E i \in 1 .. Len(w) : w[i] = x
    BY <1>1, <1>2, <2>3
  <2>4. x \in Range(w) <=> \E i \in 1 .. Len(w) : w[i] = x
    BY <1>1, SectionRange
  <2> QED
    BY <2>1, <2>2, <2>3, <2>4
<1>4. ASSUME NEW i \in 1 .. Len(w), NEW j \in 1 .. Len(w), i < j
      PROVE w[i] < w[j]
  <2>1. i \in 1 .. Len(v) /\ w[i] = v[i] /\ v[i] \in Range(v)
    <3>1. i \in 1 .. Len(v)
      BY <1>1, <1>2, <1>4
    <3> QED
      BY <1>1, <3>1, SectionRange
  <2>2. CASE j = Len(v) + 1
    BY <1>1, <2>1, <2>2
  <2>3. CASE j # Len(v) + 1
    <3>1. j \in 1 .. Len(v) /\ w[j] = v[j]
      BY <1>1, <1>2, <2>3
    <3> QED
      BY <1>4, <2>1, <3>1 DEF Increasing
  <2> QED
    BY <2>2, <2>3
<1>5. Range(w) = Range(v) \cup {seq}
  BY <1>3
<1> QED
  BY <1>1, <1>4, <1>5 DEF w, Increasing

\* A number at the end of the last section.
LEMMA NumberAdded ==
  ASSUME NEW d, WellFormed(d), HEADSERIAL \in DOMAIN d,
         NEW seq \in Nat, \A x \in Members(d) : x < seq,
         NEW last \in DOMAIN d, last = d[HEADSERIAL].previous, HasRoom(d[last])
  PROVE /\ WellFormed(PushBack(d, last, seq))
        /\ Members(PushBack(d, last, seq)) = Members(d) \cup {seq}
<1> DEFINE v == d[last].vect_seq
           w == Append(v, seq)
           sec == [d[last] EXCEPT !.vect_seq = w]
           e == set_normal_index_one_db(d, last, sec)
<1>1. e = PushBack(d, last, seq)
  BY DEF PushBack
<1>2. IsIndex(d) /\ Ring(d) /\ Sorted(d) /\ SerialsLow(d)
  BY DEF WellFormed
<1>3. /\ last \in Nat
      /\ \A t \in DOMAIN d : t \in Nat /\ t <= last
  BY <1>2 DEF Ring, IsIndex
<1>4. d[last] \in Section
  BY <1>2 DEF IsIndex
<1>5. /\ d[last].next \in Nat /\ d[last].previous \in Nat /\ v \in Seq(Nat)
      /\ Increasing(v) /\ Len(v) < MAXSIZE /\ Len(v) >= 1
  BY <1>2, <1>4, SectionFields DEF Sorted, Increasing, HasRoom
<1>6. \A x \in Range(v) : x < seq /\ x \in Nat
  BY <1>2, MembersOf, MembersNat
<1> HIDE DEF v
<1>7. /\ w \in Seq(Nat) /\ Len(w) = Len(v) + 1
      /\ Range(w) = Range(v) \cup {seq} /\ Increasing(w)
  BY <1>5, <1>6, AppendNumber
<1> HIDE DEF w
<1>8. sec = NormalIndexValue(d[last].previous, w, d[last].next)
  BY <1>4, SectionUpdate
<1> HIDE DEF sec
<1>9. /\ sec \in Section /\ sec.previous = d[last].previous
      /\ sec.next = d[last].next /\ sec.vect_seq = w
  BY <1>5, <1>7, <1>8 DEF Section, NormalIndexValue
<1>10. /\ DOMAIN e = DOMAIN d
       /\ e[last] = sec
       /\ \A t \in DOMAIN d : t # last => e[t] = d[t]
  BY DEF set_normal_index_one_db
<1> HIDE DEF e
<1>11. IsIndex(e)
  BY <1>2, <1>9, <1>10 DEF IsIndex
<1>12. Ring(e)
  BY <1>2, <1>9, <1>10, RingOfLinks
<1>13. Sorted(e) /\ SerialsLow(e)
  <2>1. Len(e[last].vect_seq) \in 1 .. MAXSIZE /\ Increasing(e[last].vect_seq)
    BY <1>5, <1>7, <1>9, <1>10, SizeAssumption
  <2>2. Range(e[last].vect_seq) = Range(d[last].vect_seq) \cup {seq}
    BY <1>7, <1>9, <1>10 DEF v
  <2>3. last <= seq
    <3>1. PICK x \in Range(v) : TRUE
      BY <1>5, EmptyRange
    <3>2. last <= x
      BY <1>2, <3>1 DEF SerialsLow, v
    <3> QED
      BY <1>3, <1>6, <3>1, <3>2
  <2> QED
    BY <1>2, <1>3, <1>10, <2>1, <2>2, <2>3, SortedExtended
<1>14. Members(e) = Members(d) \cup {seq}
  <2>1. ASSUME NEW x PROVE x \in Members(e) <=> x \in Members(d) \cup {seq}
    BY <1>7, <1>9, <1>10, MembersOf DEF v
  <2> QED
    BY <2>1
<1> QED
  BY <1>1, <1>11, <1>12, <1>13, <1>14 DEF WellFormed

\* The first section.
LEMMA FirstAdded ==
  ASSUME NEW d, WellFormed(d), HEADSERIAL \notin DOMAIN d, NEW seq \in Nat
  PROVE /\ WellFormed(AppendFirst(d, seq))
        /\ Members(AppendFirst(d, seq)) = Members(d) \cup {seq}
<1> DEFINE v == <<seq>>
           sec == NormalIndexValue(HEADSERIAL, v, HEADSERIAL)
           e == set_normal_index_one_db(d, HEADSERIAL, sec)
<1>1. e = AppendFirst(d, seq)
  BY DEF AppendFirst
<1>2. DOMAIN d = {}
  BY DEF WellFormed, Ring
<1>3. v \in Seq(Nat) /\ Len(v) = 1 /\ Range(v) = {seq} /\ Increasing(v)
  BY DEF Range, Increasing
<1> HIDE DEF v
<1>4. /\ sec \in Section /\ sec.previous = HEADSERIAL
      /\ sec.next = HEADSERIAL /\ sec.vect_seq = v
  BY <1>3, SectionType DEF HEADSERIAL
<1> HIDE DEF sec
<1>5. DOMAIN e = {HEADSERIAL} /\ e[HEADSERIAL] = sec
  BY <1>2 DEF set_normal_index_one_db
<1> HIDE DEF e
<1>6. IsIndex(e)
  BY <1>4, <1>5 DEF IsIndex, HEADSERIAL
<1>7. Ring(e)
  BY <1>4, <1>5 DEF Ring, HEADSERIAL
<1>8. Sorted(e) /\ SerialsLow(e)
  <2>1. e[HEADSERIAL].vect_seq = v /\ Len(v) \in 1 .. MAXSIZE
    BY <1>3, <1>4, <1>5, SizeAssumption
  <2>2. ~(HEADSERIAL < HEADSERIAL) /\ HEADSERIAL <= seq
    BY DEF HEADSERIAL
  <2>3. Sorted(e)
    BY <1>3, <1>5, <2>1, <2>2 DEF Sorted, Increasing
  <2>4. SerialsLow(e)
    BY <1>3, <1>5, <2>1, <2>2 DEF SerialsLow
  <2> QED
    BY <2>3, <2>4
<1>9. Members(e) = Members(d) \cup {seq}
  <2>1. ASSUME NEW x PROVE x \in Members(e) <=> x \in Members(d) \cup {seq}
    BY <1>2, <1>3, <1>4, <1>5, MembersOf
  <2> QED
    BY <2>1
<1> QED
  BY <1>1, <1>6, <1>7, <1>8, <1>9 DEF WellFormed

\* append_normal_index_one_db adds its number to a well formed index, wherever
\* the number comes to lie, and leaves it well formed.
THEOREM AppendedIsAddition ==
  ASSUME NEW d, WellFormed(d), NEW seq \in Nat, \A x \in Members(d) : x < seq
  PROVE /\ WellFormed(Appended(d, seq))
        /\ Members(Appended(d, seq)) = Members(d) \cup {seq}
<1>1. CASE HEADSERIAL \notin DOMAIN d
  <2>1. Appended(d, seq) = AppendFirst(d, seq)
    BY <1>1 DEF Appended, has_normal_index_db
  <2> QED
    BY <1>1, <2>1, FirstAdded
<1>2. CASE HEADSERIAL \in DOMAIN d
  <2> DEFINE last == d[HEADSERIAL].previous
  <2>1. /\ IsIndex(d) /\ Ring(d)
        /\ last \in DOMAIN d /\ last \in Nat
        /\ \A t \in DOMAIN d : t \in Nat /\ t <= last
    BY <1>2 DEF WellFormed, Ring, IsIndex
  <2>2. last + 1 \notin DOMAIN d
    BY <2>1
  <2>3. Alone(d[HEADSERIAL]) <=> last = HEADSERIAL
    BY <1>2, <2>1, AloneHead
  <2>4. Appended(d, seq) = IF HasRoom(d[last]) THEN PushBack(d, last, seq)
                           ELSE IF last = HEADSERIAL THEN AppendSecond(d, seq)
                           ELSE AppendSection(d, seq)
    BY <1>2, <2>3 DEF Appended, has_normal_index_db
  <2> HIDE DEF last
  <2>5. CASE HasRoom(d[last])
    BY <1>2, <2>1, <2>4, <2>5, NumberAdded DEF last
  <2>6. CASE ~HasRoom(d[last]) /\ last = HEADSERIAL
    <3> DEFINE e == AppendSecond(d, seq)
    <3>1. /\ DOMAIN e = DOMAIN d \cup {last + 1}
          /\ e[last + 1] = NormalIndexValue(last, <<seq>>, HEADSERIAL)
          /\ \A t \in DOMAIN d :
               e[t] = NormalIndexValue(
                        IF t = HEADSERIAL THEN last + 1 ELSE d[t].previous,
                        d[t].vect_seq,
                        IF t = last THEN last + 1 ELSE d[t].next)
      BY <1>2, <2>1, <2>2, <2>6, AppendSecondIs DEF last
    <3> HIDE DEF e
    <3>2. WellFormed(e) /\ Members(e) = Members(d) \cup {seq}
      BY <1>2, <3>1, SectionAdded DEF last
    <3> QED
      BY <2>4, <2>6, <3>2 DEF e
  <2>7. CASE ~HasRoom(d[last]) /\ last # HEADSERIAL
    <3> DEFINE e == AppendSection(d, seq)
    <3>1. /\ DOMAIN e = DOMAIN d \cup {last + 1}
          /\ e[last + 1] = NormalIndexValue(last, <<seq>>, HEADSERIAL)
          /\ \A t \in DOMAIN d :
               e[t] = NormalIndexValue(
                        IF t = HEADSERIAL THEN last + 1 ELSE d[t].previous,
                        d[t].vect_seq,
                        IF t = last THEN last + 1 ELSE d[t].next)
      BY <1>2, <2>1, <2>2, <2>7, AppendSectionIs DEF last
    <3> HIDE DEF e
    <3>2. WellFormed(e) /\ Members(e) = Members(d) \cup {seq}
      BY <1>2, <3>1, SectionAdded DEF last
    <3> QED
      BY <2>4, <2>7, <3>2 DEF e
  <2> QED
    BY <2>5, <2>6, <2>7
<1> QED
  BY <1>1, <1>2

-----------------------------------------------------------------------------
\* Erasing.

\* Two sections share no number.
LEMMA SectionsDisjoint ==
  ASSUME NEW d, IsIndex(d), Sorted(d), NEW s \in DOMAIN d, NEW t \in DOMAIN d, s # t
  PROVE Range(d[s].vect_seq) \cap Range(d[t].vect_seq) = {}
<1>1. s \in Nat /\ t \in Nat
  BY DEF IsIndex
<1>2. Range(d[s].vect_seq) \subseteq Nat
  BY SectionFields, SectionRange DEF IsIndex
<1>3. ASSUME NEW x \in Range(d[s].vect_seq), x \in Range(d[t].vect_seq) PROVE FALSE
  <2>1. x < x
    BY <1>1, <1>3 DEF Sorted
  <2> QED
    BY <1>2, <2>1
<1> QED
  BY <1>3

\* Taking section s away, and moving others without changing their order.
LEMMA SectionTaken ==
  ASSUME NEW d, WellFormed(d), NEW s \in DOMAIN d,
         NEW e, IsIndex(e), Ring(e),
         NEW f \in [DOMAIN e -> DOMAIN d],
         \A a, b \in DOMAIN e : a < b => f[a] < f[b],
         \A t \in DOMAIN e : t <= f[t] /\ e[t].vect_seq = d[f[t]].vect_seq,
         \A u \in DOMAIN d : u # s <=> \E t \in DOMAIN e : f[t] = u
  PROVE WellFormed(e) /\ Members(e) = Members(d) \ Range(d[s].vect_seq)
<1>1. IsIndex(d) /\ Sorted(d) /\ SerialsLow(d)
  BY DEF WellFormed
<1>2. Sorted(e) /\ SerialsLow(e)
  <2>1. ASSUME NEW t \in DOMAIN e
        PROVE /\ t <= f[t]
              /\ Range(e[t].vect_seq) \subseteq Range(d[f[t]].vect_seq)
              /\ Len(e[t].vect_seq) \in 1 .. MAXSIZE
              /\ Increasing(e[t].vect_seq)
    BY <1>1 DEF Sorted, Increasing
  <2>2. DOMAIN e \subseteq Nat
    BY DEF IsIndex
  <2> QED
    BY <1>1, <2>1, <2>2, SortedPart
<1>3. ASSUME NEW x \in Members(e) PROVE x \in Members(d) \ Range(d[s].vect_seq)
  <2>1. PICK t \in DOMAIN e : x \in Range(e[t].vect_seq)
    BY MembersOf
  <2>2. x \in Range(d[f[t]].vect_seq) /\ f[t] \in DOMAIN d /\ f[t] # s
    BY <2>1
  <2>3. x \notin Range(d[s].vect_seq)
    BY <1>1, <2>2, SectionsDisjoint
  <2> QED
    BY <2>2, <2>3, MembersOf
<1>4. ASSUME NEW x \in Members(d) \ Range(d[s].vect_seq) PROVE x \in Members(e)
  <2>1. PICK u \in DOMAIN d : x \in Range(d[u].vect_seq)
    BY MembersOf
  <2>2. PICK t \in DOMAIN e : f[t] = u
    BY <2>1
  <2> QED
    BY <2>1, <2>2, MembersOf
<1>5. Members(e) = Members(d) \ Range(d[s].vect_seq)
  BY <1>3, <1>4
<1> QED
  BY <1>2, <1>5 DEF WellFormed

\* What the index is after CutOut.
LEMMA CutOutIs ==
  ASSUME NEW d, IsIndex(d), NEW s \in DOMAIN d, s # HEADSERIAL, HEADSERIAL \in DOMAIN d,
         NEW p \in DOMAIN d, p = d[s].previous, p # s,
         NEW n \in DOMAIN d, n = d[s].next, n # s
  PROVE LET e == CutOut(d, s)
        IN /\ DOMAIN e = DOMAIN d \ {s}
           /\ \A t \in DOMAIN e :
                e[t] = NormalIndexValue(IF t = n THEN p ELSE d[t].previous,
                                        d[t].vect_seq,
                                        IF t = p THEN n ELSE d[t].next)
<1> DEFINE gone == delete_normal_index_one_db(d, s)
           psec == [gone[p] EXCEPT !.next = n]
           cut  == set_normal_index_one_db(gone, p, psec)
           nsec == [cut[n] EXCEPT !.previous = p]
           hsec == [gone[HEADSERIAL] EXCEPT !.previous = HEADSERIAL, !.next = HEADSERIAL]
           one  == set_normal_index_one_db(gone, HEADSERIAL, hsec)
           e    == set_normal_index_one_db(cut, n, nsec)
<1>1. CutOut(d, s) = IF p = HEADSERIAL /\ n = HEADSERIAL THEN one ELSE e
  BY DEF CutOut
<1>2. \A t \in DOMAIN d :
        d[t] \in Section /\ d[t] = NormalIndexValue(d[t].previous, d[t].vect_seq, d[t].next)
  BY SectionFields DEF IsIndex
<1>3. DOMAIN gone = DOMAIN d \ {s} /\ \A t \in DOMAIN d : t # s => gone[t] = d[t]
  BY DEF delete_normal_index_one_db
<1> HIDE DEF gone
<1>4. CASE p = HEADSERIAL /\ n = HEADSERIAL
  <2> DEFINE h == d[HEADSERIAL]
  <2>1. h \in Section /\ gone[HEADSERIAL] = h
    BY <1>2, <1>3
  <2> HIDE DEF h
  <2>2. hsec = NormalIndexValue(HEADSERIAL, h.vect_seq, HEADSERIAL)
    <3>1. hsec = [[h EXCEPT !.previous = HEADSERIAL] EXCEPT !.next = HEADSERIAL]
      BY <2>1 DEF Section
    <3>2. [h EXCEPT !.previous = HEADSERIAL] = NormalIndexValue(HEADSERIAL, h.vect_seq, h.next)
      BY <2>1, SectionUpdate
    <3>3. [NormalIndexValue(HEADSERIAL, h.vect_seq, h.next) EXCEPT !.next = HEADSERIAL]
            = NormalIndexValue(HEADSERIAL, h.vect_seq, HEADSERIAL)
      BY DEF NormalIndexValue
    <3> QED
      BY <3>1, <3>2, <3>3
  <2> HIDE DEF hsec
  <2>3. /\ DOMAIN one = DOMAIN gone \cup {HEADSERIAL}
        /\ one[HEADSERIAL] = hsec
        /\ \A t \in DOMAIN gone : t # HEADSERIAL => one[t] = gone[t]
    BY DEF set_normal_index_one_db
  <2> HIDE DEF one
  <2>4. DOMAIN one = DOMAIN d \ {s}
    BY <1>3, <2>3
  <2>5. \A t \in DOMAIN one :
          one[t] = NormalIndexValue(IF t = n THEN p ELSE d[t].previous,
                                    d[t].vect_seq,
                                    IF t = p THEN n ELSE d[t].next)
    <3> TAKE t \in DOMAIN one
    <3>1. CASE t = HEADSERIAL
      BY <1>4, <2>2, <2>3, <3>1 DEF h
    <3>2. CASE t # HEADSERIAL
      BY <1>2, <1>3, <1>4, <2>3, <2>4, <3>2
    <3> QED
      BY <3>1, <3>2
  <2> QED
    BY <1>1, <1>4, <2>4, <2>5
<1>5. CASE ~(p = HEADSERIAL /\ n = HEADSERIAL)
  <2>1. psec = NormalIndexValue(d[p].previous, d[p].vect_seq, n)
    <3>1. gone[p] = d[p] /\ d[p] \in Section
      BY <1>2, <1>3
    <3> QED
      BY <3>1 DEF Section, NormalIndexValue
  <2> HIDE DEF psec
  <2>2. /\ DOMAIN cut = DOMAIN gone \cup {p}
        /\ cut[p] = psec
        /\ \A t \in DOMAIN gone : t # p => cut[t] = gone[t]
    BY DEF set_normal_index_one_db
  <2> HIDE DEF cut
  <2>3. nsec = NormalIndexValue(p, d[n].vect_seq, IF n = p THEN n ELSE d[n].next)
    <3>1. cut[n] = NormalIndexValue(d[n].previous, d[n].vect_seq,
                                    IF n = p THEN n ELSE d[n].next)
      BY <1>2, <1>3, <2>1, <2>2
    <3> QED
      BY <3>1 DEF NormalIndexValue
  <2> HIDE DEF nsec
  <2>4. /\ DOMAIN e = DOMAIN cut \cup {n}
        /\ e[n] = nsec
        /\ \A t \in DOMAIN cut : t # n => e[t] = cut[t]
    BY DEF set_normal_index_one_db
  <2> HIDE DEF e
  <2>5. DOMAIN e = DOMAIN d \ {s}
    BY <1>3, <2>2, <2>4
  <2>6. \A t \in DOMAIN e :
          e[t] = NormalIndexValue(IF t = n THEN p ELSE d[t].previous,
                                  d[t].vect_seq,
                                  IF t = p THEN n ELSE d[t].next)
    <3> TAKE t \in DOMAIN e
    <3>1. CASE t = n
      BY <2>3, <2>4, <3>1
    <3>2. CASE t # n /\ t = p
      BY <2>1, <2>2, <2>4, <2>5, <3>2
    <3>3. CASE t # n /\ t # p
      BY <1>2, <1>3, <2>2, <2>4, <2>5, <3>3
    <3> QED
      BY <3>1, <3>2, <3>3
  <2> QED
    BY <1>1, <1>5, <2>5, <2>6
<1> QED
  BY <1>4, <1>5

\* What the index is after HeadReplaced.
LEMMA HeadReplacedIs ==
  ASSUME NEW d, IsIndex(d), HEADSERIAL \in DOMAIN d,
         NEW last, last = d[HEADSERIAL].previous,
         NEW n \in DOMAIN d, n = d[HEADSERIAL].next, n # HEADSERIAL,
         NEW m, m = d[n].next,
         last = n => d[n].previous = HEADSERIAL /\ m = HEADSERIAL,
         last # n => m \in DOMAIN d /\ m # n /\ m # HEADSERIAL
  PROVE LET e == HeadReplaced(d)
        IN /\ DOMAIN e = DOMAIN d \ {n}
           /\ e[HEADSERIAL] = NormalIndexValue(IF last = n THEN HEADSERIAL ELSE last,
                                               d[n].vect_seq, m)
           /\ \A t \in DOMAIN e : t # HEADSERIAL =>
                e[t] = NormalIndexValue(IF t = m THEN HEADSERIAL ELSE d[t].previous,
                                        d[t].vect_seq, d[t].next)
<1> DEFINE bare  == delete_normal_index_one_db(d, HEADSERIAL)
           rest  == delete_normal_index_one_db(bare, n)
           hsec  == [d[n] EXCEPT !.previous = last]
           moved == set_normal_index_one_db(rest, HEADSERIAL, hsec)
           msec  == [moved[m] EXCEPT !.previous = HEADSERIAL]
           two   == set_normal_index_one_db(rest, HEADSERIAL, d[n])
           e     == set_normal_index_one_db(moved, m, msec)
<1>1. HeadReplaced(d) = IF last = n THEN two ELSE e
  BY DEF HeadReplaced
<1>2. \A t \in DOMAIN d :
        d[t] \in Section /\ d[t] = NormalIndexValue(d[t].previous, d[t].vect_seq, d[t].next)
  BY SectionFields DEF IsIndex
<1>3. /\ DOMAIN rest = DOMAIN d \ {HEADSERIAL, n}
      /\ \A t \in DOMAIN rest : rest[t] = d[t]
  BY DEF delete_normal_index_one_db
<1> HIDE DEF rest
<1>4. CASE last = n
  <2>1. /\ DOMAIN two = DOMAIN rest \cup {HEADSERIAL}
        /\ two[HEADSERIAL] = d[n]
        /\ \A t \in DOMAIN rest : t # HEADSERIAL => two[t] = rest[t]
    BY DEF set_normal_index_one_db
  <2> HIDE DEF two
  <2>2. DOMAIN two = DOMAIN d \ {n}
    BY <1>3, <2>1
  <2>3. two[HEADSERIAL] = NormalIndexValue(HEADSERIAL, d[n].vect_seq, m)
    BY <1>2, <1>4, <2>1
  <2>4. \A t \in DOMAIN two : t # HEADSERIAL =>
          two[t] = NormalIndexValue(IF t = m THEN HEADSERIAL ELSE d[t].previous,
                                    d[t].vect_seq, d[t].next)
    BY <1>2, <1>3, <1>4, <2>1, <2>2
  <2> QED
    BY <1>1, <1>4, <2>2, <2>3, <2>4
<1>5. CASE last # n
  <2>1. hsec = NormalIndexValue(last, d[n].vect_seq, m)
    BY <1>2, SectionUpdate
  <2> HIDE DEF hsec
  <2>2. /\ DOMAIN moved = DOMAIN rest \cup {HEADSERIAL}
        /\ moved[HEADSERIAL] = hsec
        /\ \A t \in DOMAIN rest : t # HEADSERIAL => moved[t] = rest[t]
    BY DEF set_normal_index_one_db
  <2> HIDE DEF moved
  <2>3. msec = NormalIndexValue(HEADSERIAL, d[m].vect_seq, d[m].next)
    <3>1. moved[m] = d[m] /\ d[m] \in Section
      BY <1>2, <1>3, <1>5, <2>2
    <3> QED
      BY <3>1 DEF Section, NormalIndexValue
  <2> HIDE DEF msec
  <2>4. /\ DOMAIN e = DOMAIN moved \cup {m}
        /\ e[m] = msec
        /\ \A t \in DOMAIN moved : t # m => e[t] = moved[t]
    BY DEF set_normal_index_one_db
  <2> HIDE DEF e
  <2>5. DOMAIN e = DOMAIN d \ {n}
    BY <1>3, <1>5, <2>2, <2>4
  <2>6. e[HEADSERIAL] = NormalIndexValue(last, d[n].vect_seq, m)
    BY <1>5, <2>1, <2>2, <2>4
  <2>7. \A t \in DOMAIN e : t # HEADSERIAL =>
          e[t] = NormalIndexValue(IF t = m THEN HEADSERIAL ELSE d[t].previous,
                                  d[t].vect_seq, d[t].next)
    <3> TAKE t \in DOMAIN e
    <3>1. CASE t = m
      BY <2>3, <2>4, <3>1
    <3>2. CASE t # m
      BY <1>2, <1>3, <2>2, <2>4, <2>5, <3>2
    <3> QED
      BY <3>1, <3>2
  <2> QED
    BY <1>1, <1>5, <2>5, <2>6, <2>7
<1> QED
  BY <1>4, <1>5

\* An emptied section leaves the index with its numbers.
LEMMA CutOutTakes ==
  ASSUME NEW d, WellFormed(d), NEW s \in DOMAIN d, s # HEADSERIAL
  PROVE /\ WellFormed(CutOut(d, s))
        /\ Members(CutOut(d, s)) = Members(d) \ Range(d[s].vect_seq)
<1> DEFINE p == d[s].previous
           n == d[s].next
           e == CutOut(d, s)
<1>1. IsIndex(d) /\ Ring(d)
  BY DEF WellFormed
<1>2. HEADSERIAL \in DOMAIN d /\ \A t \in DOMAIN d : t \in Nat
  BY <1>1 DEF Ring, IsIndex
<1>3. p \in DOMAIN d /\ p # s
  BY <1>1, <1>2 DEF Ring
<1>4. n \in DOMAIN d /\ n # s
  BY <1>1, <1>2 DEF Ring
<1>5. /\ DOMAIN e = DOMAIN d \ {s}
      /\ \A t \in DOMAIN e :
           e[t] = NormalIndexValue(IF t = n THEN p ELSE d[t].previous,
                                   d[t].vect_seq,
                                   IF t = p THEN n ELSE d[t].next)
  BY <1>1, <1>2, <1>3, <1>4, CutOutIs
<1> HIDE DEF e
<1>6. ASSUME NEW t \in DOMAIN e
      PROVE /\ e[t] \in Section
            /\ e[t].previous = IF t = n THEN p ELSE d[t].previous
            /\ e[t].next = IF t = p THEN n ELSE d[t].next
            /\ e[t].vect_seq = d[t].vect_seq
  <2> DEFINE pp == IF t = n THEN p ELSE d[t].previous
             nn == IF t = p THEN n ELSE d[t].next
  <2>1. t \in DOMAIN d
    BY <1>5
  <2>2. d[t].previous \in Nat /\ d[t].next \in Nat /\ d[t].vect_seq \in Seq(Nat)
    BY <1>1, <2>1, SectionFields DEF IsIndex
  <2>3. pp \in Nat /\ nn \in Nat /\ e[t] = NormalIndexValue(pp, d[t].vect_seq, nn)
    BY <1>2, <1>3, <1>4, <1>5, <2>2
  <2> HIDE DEF pp, nn
  <2>4. /\ e[t] \in Section /\ e[t].previous = pp
        /\ e[t].next = nn /\ e[t].vect_seq = d[t].vect_seq
    BY <2>2, <2>3, SectionType
  <2> QED
    BY <2>4 DEF pp, nn
<1>7. IsIndex(e)
  BY <1>1, <1>5, <1>6 DEF IsIndex
<1>8. Ring(e)
  <2> HIDE DEF p, n
  <2>1. p = d[s].previous /\ n = d[s].next
    BY DEF p, n
  <2> QED
    BY <1>1, <1>5, <1>6, <2>1, RingCut
<1>9. WellFormed(e) /\ Members(e) = Members(d) \ Range(d[s].vect_seq)
  <2> DEFINE f == [t \in DOMAIN e |-> t]
  <2>1. f \in [DOMAIN e -> DOMAIN d] /\ \A t \in DOMAIN e : f[t] = t /\ t <= f[t]
    BY <1>2, <1>5
  <2> HIDE DEF f
  <2>2. \A a, b \in DOMAIN e : a < b => f[a] < f[b]
    BY <2>1
  <2>3. \A t \in DOMAIN e : t <= f[t] /\ e[t].vect_seq = d[f[t]].vect_seq
    BY <1>6, <2>1
  <2>4. \A u \in DOMAIN d : u # s <=> \E t \in DOMAIN e : f[t] = u
    BY <1>5, <2>1
  <2> QED
    BY <1>7, <1>8, <2>1, <2>2, <2>3, <2>4, SectionTaken
<1> QED
  BY <1>9 DEF e

\* An emptied head leaves the index with its numbers.
LEMMA HeadReplacedTakes ==
  ASSUME NEW d, WellFormed(d), HEADSERIAL \in DOMAIN d, ~Alone(d[HEADSERIAL])
  PROVE /\ WellFormed(HeadReplaced(d))
        /\ Members(HeadReplaced(d)) = Members(d) \ Range(d[HEADSERIAL].vect_seq)
<1> DEFINE last == d[HEADSERIAL].previous
           n == d[HEADSERIAL].next
           m == d[n].next
           e == HeadReplaced(d)
<1>1. IsIndex(d) /\ Ring(d)
  BY DEF WellFormed
<1>2. /\ last \in DOMAIN d /\ last # HEADSERIAL
      /\ d[last].next = HEADSERIAL
      /\ \A t \in DOMAIN d : t \in Nat /\ t <= last
  BY <1>1, AloneHead DEF Ring, IsIndex
<1>3. /\ n \in DOMAIN d /\ n > HEADSERIAL /\ n # HEADSERIAL
      /\ \A t \in DOMAIN d : t <= HEADSERIAL \/ t >= n
  BY <1>1, <1>2 DEF Ring, HEADSERIAL
<1>4. last = n => d[n].previous = HEADSERIAL /\ m = HEADSERIAL
  <2>1. d[n].previous \in DOMAIN d /\ d[n].previous < n
    BY <1>1, <1>3 DEF Ring
  <2>2. d[n].previous = HEADSERIAL
    BY <1>2, <1>3, <2>1 DEF HEADSERIAL
  <2> QED
    BY <1>2, <2>2
<1>5. last # n => m \in DOMAIN d /\ m # n /\ m # HEADSERIAL
  <2> HAVE last # n
  <2>1. m \in DOMAIN d /\ m > n
    BY <1>1, <1>3 DEF Ring
  <2> QED
    BY <1>2, <1>3, <2>1 DEF HEADSERIAL
<1>6. /\ DOMAIN e = DOMAIN d \ {n}
      /\ e[HEADSERIAL] = NormalIndexValue(IF last = n THEN HEADSERIAL ELSE last,
                                          d[n].vect_seq, m)
      /\ \A t \in DOMAIN e : t # HEADSERIAL =>
           e[t] = NormalIndexValue(IF t = m THEN HEADSERIAL ELSE d[t].previous,
                                   d[t].vect_seq, d[t].next)
  BY <1>1, <1>3, <1>4, <1>5, HeadReplacedIs
<1> HIDE DEF e
<1>7. \A t \in DOMAIN d :
        d[t].next \in Nat /\ d[t].previous \in Nat /\ d[t].vect_seq \in Seq(Nat)
  BY <1>1, SectionFields DEF IsIndex
<1>8. /\ e[HEADSERIAL] \in Section
      /\ e[HEADSERIAL].previous = IF last = n THEN HEADSERIAL ELSE last
      /\ e[HEADSERIAL].next = m
      /\ e[HEADSERIAL].vect_seq = d[n].vect_seq
  <2> DEFINE pp == IF last = n THEN HEADSERIAL ELSE last
  <2>1. pp \in Nat /\ m \in Nat /\ d[n].vect_seq \in Seq(Nat)
    BY <1>2, <1>3, <1>7
  <2>2. e[HEADSERIAL] = NormalIndexValue(pp, d[n].vect_seq, m)
    BY <1>6
  <2> HIDE DEF pp
  <2>3. /\ e[HEADSERIAL] \in Section /\ e[HEADSERIAL].previous = pp
        /\ e[HEADSERIAL].next = m /\ e[HEADSERIAL].vect_seq = d[n].vect_seq
    BY <2>1, <2>2, SectionType
  <2> QED
    BY <2>3 DEF pp
<1>9. ASSUME NEW t \in DOMAIN e, t # HEADSERIAL
      PROVE /\ e[t] \in Section
            /\ e[t].previous = IF t = m THEN HEADSERIAL ELSE d[t].previous
            /\ e[t].next = d[t].next
            /\ e[t].vect_seq = d[t].vect_seq
  <2> DEFINE pp == IF t = m THEN HEADSERIAL ELSE d[t].previous
  <2>1. t \in DOMAIN d
    BY <1>6
  <2>2. pp \in Nat /\ e[t] = NormalIndexValue(pp, d[t].vect_seq, d[t].next)
    BY <1>2, <1>6, <1>7, <1>9, <2>1
  <2> HIDE DEF pp
  <2>3. /\ e[t] \in Section /\ e[t].previous = pp
        /\ e[t].next = d[t].next /\ e[t].vect_seq = d[t].vect_seq
    BY <1>7, <2>1, <2>2, SectionType
  <2> QED
    BY <2>3 DEF pp
<1>10. IsIndex(e)
  BY <1>1, <1>6, <1>8, <1>9 DEF IsIndex
<1>11. Ring(e)
  <2> HIDE DEF last, n
  <2>1. last = d[HEADSERIAL].previous /\ n = d[HEADSERIAL].next
    BY DEF last, n
  <2> QED
    BY <1>1, <1>3, <1>6, <1>8, <1>9, <2>1, RingHead
<1>12. WellFormed(e) /\ Members(e) = Members(d) \ Range(d[HEADSERIAL].vect_seq)
  <2> DEFINE f == [t \in DOMAIN e |-> IF t = HEADSERIAL THEN n ELSE t]
  <2>1. /\ f \in [DOMAIN e -> DOMAIN d]
        /\ \A t \in DOMAIN e : f[t] = IF t = HEADSERIAL THEN n ELSE t
    BY <1>3, <1>6
  <2> HIDE DEF f
  <2>2. \A t \in DOMAIN e : t \in Nat /\ (t = HEADSERIAL \/ t > n)
    BY <1>2, <1>3, <1>6 DEF HEADSERIAL
  <2>3. \A a, b \in DOMAIN e : a < b => f[a] < f[b]
    BY <1>2, <1>3, <2>1, <2>2 DEF HEADSERIAL
  <2>4. \A t \in DOMAIN e : t <= f[t] /\ e[t].vect_seq = d[f[t]].vect_seq
    <3> TAKE t \in DOMAIN e
    <3>1. CASE t = HEADSERIAL
      BY <1>2, <1>3, <1>8, <2>1, <3>1
    <3>2. CASE t # HEADSERIAL
      BY <1>9, <2>1, <2>2, <3>2
    <3> QED
      BY <3>1, <3>2
  <2>5. \A u \in DOMAIN d : u # HEADSERIAL <=> \E t \in DOMAIN e : f[t] = u
    BY <1>3, <1>6, <2>1
  <2> QED
    BY <1>10, <1>11, <2>1, <2>3, <2>4, <2>5, SectionTaken
<1> QED
  BY <1>12 DEF e

\* The only section leaves no index behind.
LEMMA LastSectionTaken ==
  ASSUME NEW d, WellFormed(d), HEADSERIAL \in DOMAIN d, Alone(d[HEADSERIAL])
  PROVE /\ DOMAIN d = {HEADSERIAL}
        /\ WellFormed(delete_normal_index_one_db(d, HEADSERIAL))
        /\ Members(delete_normal_index_one_db(d, HEADSERIAL)) = {}
<1> DEFINE e == delete_normal_index_one_db(d, HEADSERIAL)
<1>1. DOMAIN d = {HEADSERIAL}
  <2>1. \A t \in DOMAIN d : t \in Nat /\ t <= HEADSERIAL
    BY DEF WellFormed, Ring, IsIndex, Alone
  <2> QED
    BY <2>1 DEF HEADSERIAL
<1>2. DOMAIN e = {}
  BY <1>1 DEF delete_normal_index_one_db
<1> HIDE DEF e
<1>3. IsIndex(e) /\ Ring(e) /\ SerialsLow(e)
  BY <1>2 DEF IsIndex, Ring, SerialsLow
<1>4. Sorted(e)
  BY <1>2 DEF Sorted
<1>5. Members(e) = {}
  BY <1>2, MembersOf
<1> QED
  BY <1>1, <1>3, <1>4, <1>5 DEF WellFormed, e

\* Dropping an emptied section, whichever it is.
LEMMA DroppedTakes ==
  ASSUME NEW d, WellFormed(d), NEW s \in DOMAIN d
  PROVE /\ WellFormed(Dropped(d, s))
        /\ Members(Dropped(d, s)) = Members(d) \ Range(d[s].vect_seq)
<1>1. CASE s # HEADSERIAL
  BY <1>1, CutOutTakes DEF Dropped
<1>2. CASE s = HEADSERIAL /\ Alone(d[s])
  <2>1. Dropped(d, s) = delete_normal_index_one_db(d, HEADSERIAL)
    BY <1>2 DEF Dropped
  <2>2. /\ DOMAIN d = {HEADSERIAL}
        /\ WellFormed(Dropped(d, s))
        /\ Members(Dropped(d, s)) = {}
    BY <1>2, <2>1, LastSectionTaken
  <2>3. \A x : x \in Members(d) => x \in Range(d[s].vect_seq)
    BY <1>2, <2>2, MembersOf
  <2> QED
    BY <2>2, <2>3
<1>3. CASE s = HEADSERIAL /\ ~Alone(d[s])
  <2>1. Dropped(d, s) = HeadReplaced(d)
    BY <1>3 DEF Dropped
  <2> QED
    BY <1>3, <2>1, HeadReplacedTakes
<1> QED
  BY <1>1, <1>2, <1>3

\* delete_normal_index_db, once it has its section, takes the number out of a
\* well formed index and nothing else, drops the section if it is emptied, and
\* leaves the index well formed.
THEOREM ErasedIsRemoval ==
  ASSUME NEW d, WellFormed(d), NEW s \in DOMAIN d, NEW seq \in Nat
  PROVE /\ WellFormed(ErasedFrom(d, s, seq))
        /\ Members(ErasedFrom(d, s, seq))
             = Members(d) \ (Range(d[s].vect_seq) \cap {seq})
<1> DEFINE v == d[s].vect_seq
           w == Remaining(v, seq)
           sec == [d[s] EXCEPT !.vect_seq = w]
           e == set_normal_index_one_db(d, s, sec)
<1>1. ErasedFrom(d, s, seq) = IF w = <<>> THEN Dropped(d, s) ELSE e
  BY DEF ErasedFrom
<1>2. IsIndex(d) /\ Ring(d) /\ Sorted(d) /\ SerialsLow(d)
  BY DEF WellFormed
<1>3. d[s] \in Section
  BY <1>2 DEF IsIndex
<1>4. /\ d[s].next \in Nat /\ d[s].previous \in Nat /\ v \in Seq(Nat)
      /\ Increasing(v) /\ Len(v) \in 1 .. MAXSIZE
  BY <1>2, <1>3, SectionFields DEF Sorted, Increasing
<1> HIDE DEF v
<1>5. /\ w \in Seq(Nat) /\ Len(w) <= Len(v)
      /\ Range(w) = Range(v) \ {seq} /\ Increasing(w)
  BY <1>4, RemainingProperties
<1> HIDE DEF w
<1>6. CASE w = <<>>
  <2>1. Range(v) \subseteq {seq}
    BY <1>5, <1>6, EmptyRange
  <2>2. Range(v) = Range(v) \cap {seq}
    BY <2>1
  <2>3. /\ WellFormed(Dropped(d, s))
        /\ Members(Dropped(d, s)) = Members(d) \ Range(v)
    BY DroppedTakes DEF v
  <2> QED
    BY <1>1, <1>6, <2>2, <2>3 DEF v
<1>7. CASE w # <<>>
  <2>1. sec = NormalIndexValue(d[s].previous, w, d[s].next)
    BY <1>3, SectionUpdate
  <2> HIDE DEF sec
  <2>2. /\ sec \in Section /\ sec.previous = d[s].previous
        /\ sec.next = d[s].next /\ sec.vect_seq = w
    BY <1>4, <1>5, <2>1 DEF Section, NormalIndexValue
  <2>3. /\ DOMAIN e = DOMAIN d
        /\ e[s] = sec
        /\ \A t \in DOMAIN d : t # s => e[t] = d[t]
    BY DEF set_normal_index_one_db
  <2> HIDE DEF e
  <2>4. IsIndex(e)
    BY <1>2, <2>2, <2>3 DEF IsIndex
  <2>5. Ring(e)
    BY <1>2, <2>2, <2>3, RingOfLinks
  <2>6. Sorted(e) /\ SerialsLow(e)
    <3> DEFINE f == [t \in DOMAIN e |-> t]
    <3>1. f \in [DOMAIN e -> DOMAIN d] /\ \A t \in DOMAIN e : f[t] = t
      BY <2>3
    <3> HIDE DEF f
    <3>2. \A t \in DOMAIN e : t \in Nat
      BY <2>4 DEF IsIndex
    <3>3. ASSUME NEW t \in DOMAIN e
          PROVE /\ t <= f[t]
                /\ Range(e[t].vect_seq) \subseteq Range(d[f[t]].vect_seq)
                /\ Len(e[t].vect_seq) \in 1 .. MAXSIZE
                /\ Increasing(e[t].vect_seq)
      <4>1. CASE t = s
        <5>1. e[t].vect_seq = w /\ d[f[t]].vect_seq = v
          BY <2>2, <2>3, <3>1, <4>1 DEF v
        <5>2. Len(w) \in 1 .. MAXSIZE
          BY <1>4, <1>5, <1>7, EmptyRange, SizeAssumption
        <5>3. t <= f[t]
          BY <3>1, <3>2
        <5> QED
          BY <1>5, <5>1, <5>2, <5>3
      <4>2. CASE t # s
        <5>1. e[t] = d[t] /\ f[t] = t /\ t <= f[t] /\ t \in DOMAIN d
          BY <2>3, <3>1, <3>2, <4>2
        <5> QED
          BY <1>2, <5>1 DEF Sorted, Increasing
      <4> QED
        BY <4>1, <4>2
    <3>4. \A a, b \in DOMAIN e : a < b => f[a] < f[b]
      BY <3>1
    <3>5. DOMAIN e \subseteq Nat
      BY <3>2
    <3> QED
      BY <1>2, <3>1, <3>3, <3>4, <3>5, SortedPart
  <2>7. Members(e) = Members(d) \ (Range(v) \cap {seq})
    <3>1. ASSUME NEW x \in Members(e) PROVE x \in Members(d) \ (Range(v) \cap {seq})
      <4>1. PICK t \in DOMAIN e : x \in Range(e[t].vect_seq)
        BY MembersOf
      <4>2. CASE t = s
        BY <1>5, <2>2, <2>3, <4>1, <4>2, MembersOf DEF v
      <4>3. CASE t # s
        <5>1. t \in DOMAIN d /\ x \in Range(d[t].vect_seq)
          BY <2>3, <4>1, <4>3
        <5>2. x \notin Range(v)
          BY <1>2, <4>3, <5>1, SectionsDisjoint DEF v
        <5> QED
          BY <5>1, <5>2, MembersOf
      <4> QED
        BY <4>2, <4>3
    <3>2. ASSUME NEW x \in Members(d) \ (Range(v) \cap {seq}) PROVE x \in Members(e)
      <4>1. PICK t \in DOMAIN d : x \in Range(d[t].vect_seq)
        BY MembersOf
      <4>2. CASE t = s
        <5>1. x \in Range(e[s].vect_seq)
          BY <1>5, <2>2, <2>3, <4>1, <4>2 DEF v
        <5> QED
          BY <2>3, <5>1, MembersOf
      <4>3. CASE t # s
        <5>1. t \in DOMAIN e /\ x \in Range(e[t].vect_seq)
          BY <2>3, <4>1, <4>3
        <5> QED
          BY <5>1, MembersOf
      <4> QED
        BY <4>2, <4>3
    <3> QED
      BY <3>1, <3>2
  <2> QED
    BY <1>1, <1>7, <2>4, <2>5, <2>6, <2>7 DEF WellFormed, v
<1> QED
  BY <1>6, <1>7
=============================================================================
