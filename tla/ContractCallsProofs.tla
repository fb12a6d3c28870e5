------------------------ MODULE ContractCallsProofs -------------------------
(***************************************************************************)
(* Proofs about cross contract calls and StorageType for every set of      *)
(* contracts, cells and values, every choice of cells and delegations and  *)
(* every depth of calls: the copies that the running contracts hold are    *)
(* one memory with nested transactions.                                    *)
(***************************************************************************)
EXTENDS ContractCalls, SequenceTheorems, WellFoundedInduction, TLAPS

\* All the copies of one cell that running calls hold are equal.
CopiesAgree ==
  \A i, j \in 1 .. Len(stack) :
    stack[i].cell = stack[j].cell => stack[i].t_ = stack[j].t_

\* The inductive invariant.
CallsInv == TypeOK /\ CopiesAgree

-----------------------------------------------------------------------------
\* The innermost holder of a cell.

\* A set of naturals that is not empty has a least element.
LEMMA LeastNatural ==
  ASSUME NEW S \in SUBSET Nat, S # {}
  PROVE \E x \in S : \A y \in S : x <= y
<1> DEFINE R == OpToRel(<, Nat)
<1>1. IsWellFoundedOn(R, Nat)
  BY NatLessThanWellFounded, Zenon
<1>2. R = {ss \in Nat \X Nat : ss[1] < ss[2]}
  BY DEF OpToRel
<1> HIDE DEF R
<1>3. PICK x \in S : \A y \in S : ~(<<y, x>> \in R)
  BY <1>1, WFMin
<1>4. \A y \in S : ~(y < x)
  BY <1>2, <1>3
<1> QED
  BY <1>4

\* A cell that is held has an innermost holder, and Holder is it.
LEMMA HolderIsInnermost ==
  ASSUME NEW s, NEW n \in Nat, NEW k, Holders(s, n, k) # {}
  PROVE /\ Holder(s, n, k) \in Holders(s, n, k)
        /\ \A j \in Holders(s, n, k) : j <= Holder(s, n, k)
<1> DEFINE H == Holders(s, n, k)
           S == {m \in Nat : n - m \in H}
<1>1. H \subseteq 1 .. n
  BY DEF Holders
<1> HIDE DEF H
<1>2. PICK i \in H : TRUE
  BY DEF H
<1>3. n - i \in S
  <2>1. i \in 1 .. n
    BY <1>1
  <2>2. n - i \in Nat /\ n - (n - i) = i
    BY <2>1
  <2> QED
    BY <2>2
<1>4. PICK m \in S : \A y \in S : m <= y
  BY <1>3, LeastNatural
<1>5. n - m \in H /\ m \in Nat
  BY <1>4
<1>6. ASSUME NEW j \in H PROVE j <= n - m
  <2>1. j \in 1 .. n
    BY <1>1
  <2>2. n - j \in Nat /\ n - (n - j) = j
    BY <2>1
  <2>3. n - j \in S
    BY <2>2
  <2>4. m <= n - j
    BY <1>4, <2>3
  <2> QED
    BY <2>1, <2>4, <1>5
<1>7. \E h \in H : \A j \in H : j <= h
  BY <1>5, <1>6
<1> QED
  BY <1>7 DEF Holder, H

\* A frame that holds k, with no holder behind it, is the holder.
LEMMA HolderUnique ==
  ASSUME NEW s, NEW n \in Nat, NEW k, NEW i \in Holders(s, n, k),
         \A j \in Holders(s, n, k) : j <= i
  PROVE Holder(s, n, k) = i
<1>1. Holder(s, n, k) \in Holders(s, n, k) /\ i <= Holder(s, n, k)
  BY HolderIsInnermost
<1>2. Holder(s, n, k) <= i
  BY <1>1
<1> QED
  BY <1>1, <1>2 DEF Holders

\* The outermost n frames alone decide who holds a cell and with which value.
LEMMA HolderOfPrefix ==
  ASSUME NEW s, NEW r, NEW n \in Nat, NEW k,
         \A i \in 1 .. n : s[i].cell = r[i].cell
  PROVE /\ Holders(s, n, k) = Holders(r, n, k)
        /\ Holder(s, n, k) = Holder(r, n, k)
<1>1. Holders(s, n, k) = Holders(r, n, k)
  BY DEF Holders
<1> QED
  BY <1>1 DEF Holder

\* Frames that agree in their cells and copies give the same view of a chain.
LEMMA ViewOfPrefix ==
  ASSUME NEW s, NEW r, NEW n \in Nat, NEW c,
         \A i \in 1 .. n : s[i].cell = r[i].cell /\ s[i].t_ = r[i].t_
  PROVE View(s, c, n) = View(r, c, n)
<1>1. ASSUME NEW k \in Key, Holders(s, n, k) # {}
      PROVE s[Holder(s, n, k)].t_ = r[Holder(r, n, k)].t_
  <2>1. Holder(s, n, k) = Holder(r, n, k) /\ Holder(s, n, k) \in 1 .. n
    BY <1>1, HolderOfPrefix, HolderIsInnermost DEF Holders
  <2> QED
    BY <2>1
<1>2. \A k \in Key : Holders(s, n, k) = Holders(r, n, k)
  BY HolderOfPrefix
<1> QED
  BY <1>1, <1>2 DEF View

\* The last frame is the holder of its cell.
LEMMA LastFrameHolds ==
  ASSUME NEW s, NEW n \in Nat \ {0}, NEW k, s[n].cell = k
  PROVE Holders(s, n, k) # {} /\ Holder(s, n, k) = n
<1>1. n \in Holders(s, n, k) /\ \A j \in Holders(s, n, k) : j <= n
  BY DEF Holders
<1> QED
  BY <1>1, HolderUnique

\* A frame that does not hold a cell does not change who does.
LEMMA OtherCellHolders ==
  ASSUME NEW s, NEW n \in Nat \ {0}, NEW k, s[n].cell # k
  PROVE /\ Holders(s, n, k) = Holders(s, n - 1, k)
        /\ Holder(s, n, k) = Holder(s, n - 1, k)
<1>1. Holders(s, n, k) = Holders(s, n - 1, k)
  BY DEF Holders
<1> QED
  BY <1>1 DEF Holder

-----------------------------------------------------------------------------
\* What a stack of frames shows of the memory when it grows and shrinks.

\* The values of the cells that the running calls found when they began.
Began(s) == [i \in 1 .. Len(s) |-> View(s, s[i].before, i - 1)]

\* A copy, or what the chain has, is a value.
LEMMA ViewType ==
  ASSUME NEW s \in Seq(Frame), NEW c \in Chain, NEW n \in 0 .. Len(s)
  PROVE View(s, c, n) \in [Key -> Value]
<1>1. ASSUME NEW k \in Key, Holders(s, n, k) # {}
      PROVE s[Holder(s, n, k)].t_ \in Value
  <2>1. Holder(s, n, k) \in 1 .. Len(s)
    BY <1>1, HolderIsInnermost DEF Holders
  <2>2. s[Holder(s, n, k)] \in Frame
    BY <2>1, ElementOfSeq
  <2> QED
    BY <2>2 DEF Frame
<1>2. \A k \in Key : has_state(c, k) => c[k] \in Value
  BY DEF Chain, has_state
<1> QED
  BY <1>1, <1>2, DefaultAssumption DEF View

LEMMA BeganType ==
  ASSUME NEW s \in Seq(Frame)
  PROVE Began(s) \in Seq([Key -> Value]) /\ Len(Began(s)) = Len(s)
<1>1. \A i \in 1 .. Len(s) : View(s, s[i].before, i - 1) \in [Key -> Value]
  <2> SUFFICES ASSUME NEW i \in 1 .. Len(s)
               PROVE View(s, s[i].before, i - 1) \in [Key -> Value]
    OBVIOUS
  <2>1. s[i] \in Frame
    BY ElementOfSeq
  <2>2. s[i].before \in Chain /\ i - 1 \in 0 .. Len(s)
    BY <2>1 DEF Frame
  <2> QED
    BY <2>2, ViewType
<1> QED
  BY <1>1 DEF Began

\* A new frame whose copy is the cell's current value changes nothing.
LEMMA PushView ==
  ASSUME NEW s \in Seq(Frame), NEW f \in Frame, NEW c,
         f.t_ = View(s, c, Len(s))[f.cell]
  PROVE View(Append(s, f), c, Len(s) + 1) = View(s, c, Len(s))
<1> DEFINE n == Len(s)
           r == Append(s, f)
<1>1. n \in Nat /\ r[n + 1] = f /\ \A i \in 1 .. n : r[i] = s[i]
  OBVIOUS
<1> HIDE DEF n, r
<1>2. View(r, c, n) = View(s, c, n)
  BY <1>1, ViewOfPrefix
<1>3. ASSUME NEW k \in Key PROVE View(r, c, n + 1)[k] = View(r, c, n)[k]
  <2>1. CASE k = f.cell
    <3>1. Holders(r, n + 1, k) # {} /\ Holder(r, n + 1, k) = n + 1
      BY <1>1, <2>1, LastFrameHolds
    <3>2. View(r, c, n + 1)[k] = f.t_
      BY <3>1, <1>1 DEF View
    <3> QED
      BY <3>2, <2>1, <1>2 DEF n
  <2>2. CASE k # f.cell
    <3>1. n + 1 \in Nat \ {0} /\ n + 1 - 1 = n
      BY <1>1
    <3>2. /\ Holders(r, n + 1, k) = Holders(r, n, k)
          /\ Holder(r, n + 1, k) = Holder(r, n, k)
      BY <3>1, <1>1, <2>2, OtherCellHolders
    <3> QED
      BY <3>2 DEF View
  <2> QED
    BY <2>1, <2>2
<1>4. View(r, c, n + 1) = View(r, c, n)
  BY <1>3 DEF View
<1> QED
  BY <1>2, <1>4 DEF n, r

LEMMA PushBegan ==
  ASSUME NEW s \in Seq(Frame), NEW f \in Frame
  PROVE Began(Append(s, f)) = Append(Began(s), View(s, f.before, Len(s)))
<1> DEFINE n == Len(s)
           r == Append(s, f)
           v == View(s, f.before, n)
<1>1. /\ n \in Nat /\ Len(r) = n + 1 /\ r[n + 1] = f /\ \A i \in 1 .. n : r[i] = s[i]
      /\ r \in Seq(Frame)
  OBVIOUS
<1>2. f.before \in Chain
  BY DEF Frame
<1>3. v \in [Key -> Value]
  BY <1>1, <1>2, ViewType
<1>4. Began(s) \in Seq([Key -> Value]) /\ Len(Began(s)) = n
  BY BeganType
<1>5. \A i \in 1 .. n + 1 : View(r, r[i].before, i - 1) = View(s, r[i].before, i - 1)
  <2> SUFFICES ASSUME NEW i \in 1 .. n + 1
               PROVE View(r, r[i].before, i - 1) = View(s, r[i].before, i - 1)
    OBVIOUS
  <2>1. i - 1 \in Nat /\ \A j \in 1 .. i - 1 : r[j] = s[j]
    BY <1>1
  <2> HIDE DEF r
  <2> QED
    BY <2>1, ViewOfPrefix
<1> HIDE DEF n, r, v
<1>6. /\ Began(r) \in Seq([Key -> Value]) /\ Len(Began(r)) = n + 1
      /\ \A i \in 1 .. n + 1 : Began(r)[i] = View(s, r[i].before, i - 1)
  BY <1>1, <1>5, BeganType DEF Began
<1>7. /\ Append(Began(s), v) \in Seq([Key -> Value])
      /\ Len(Append(Began(s), v)) = n + 1
      /\ \A i \in 1 .. n + 1 :
           Append(Began(s), v)[i] = IF i = n + 1 THEN v ELSE Began(s)[i]
  BY <1>1, <1>3, <1>4, AppendProperties
<1>8. \A i \in 1 .. n + 1 : View(s, r[i].before, i - 1) =
                            IF i = n + 1 THEN v ELSE Began(s)[i]
  <2> SUFFICES ASSUME NEW i \in 1 .. n + 1
               PROVE View(s, r[i].before, i - 1) = IF i = n + 1 THEN v ELSE Began(s)[i]
    OBVIOUS
  <2>1. CASE i = n + 1
    <3>1. r[i] = f /\ i - 1 = n
      BY <2>1, <1>1
    <3> QED
      BY <3>1, <2>1 DEF v
  <2>2. CASE i # n + 1
    <3>1. i \in 1 .. n /\ r[i] = s[i]
      BY <2>2, <1>1
    <3> QED
      BY <3>1, <2>2 DEF Began, n
  <2> QED
    BY <2>1, <2>2
<1>9. Began(r) = Append(Began(s), v)
  BY <1>6, <1>7, <1>8, SeqEqual
<1> QED
  BY <1>9 DEF n, r, v

\* The first m elements of a sequence.
LEMMA PrefixProperties ==
  ASSUME NEW S, NEW q \in Seq(S), NEW m \in 0 .. Len(q)
  PROVE /\ SubSeq(q, 1, m) \in Seq(S)
        /\ Len(SubSeq(q, 1, m)) = m
        /\ \A i \in 1 .. m : SubSeq(q, 1, m)[i] = q[i]
<1>1. \A i \in 1 .. m : q[i] \in S
  BY ElementOfSeq
<1>2. m \in Int /\ m >= 0
  OBVIOUS
<1> QED
  BY <1>1, <1>2, SubSeqProperties

\* The frames below the last one, and what they found.
LEMMA PopBegan ==
  ASSUME NEW s \in Seq(Frame), s # <<>>
  PROVE LET r == SubSeq(s, 1, Len(s) - 1)
        IN /\ r \in Seq(Frame) /\ Len(r) = Len(s) - 1
           /\ \A i \in 1 .. Len(s) - 1 : r[i] = s[i]
           /\ Began(r) = SubSeq(Began(s), 1, Len(Began(s)) - 1)
           /\ Began(s) # <<>>
<1> DEFINE n == Len(s)
           r == SubSeq(s, 1, n - 1)
<1>1. n \in Nat \ {0}
  OBVIOUS
<1>2. /\ r \in Seq(Frame) /\ Len(r) = n - 1
      /\ \A i \in 1 .. n - 1 : r[i] = s[i]
  <2>1. n - 1 \in 0 .. Len(s)
    BY <1>1
  <2> HIDE DEF n
  <2> QED
    BY <2>1, PrefixProperties
<1>3. Began(s) \in Seq([Key -> Value]) /\ Len(Began(s)) = n
  BY BeganType
<1> HIDE DEF n, r
<1>4. /\ SubSeq(Began(s), 1, n - 1) \in Seq([Key -> Value])
      /\ Len(SubSeq(Began(s), 1, n - 1)) = n - 1
      /\ \A i \in 1 .. n - 1 : SubSeq(Began(s), 1, n - 1)[i] = Began(s)[i]
  BY <1>1, <1>3, PrefixProperties
<1>5. \A i \in 1 .. n - 1 : View(r, r[i].before, i - 1) = View(s, s[i].before, i - 1)
  <2> SUFFICES ASSUME NEW i \in 1 .. n - 1
               PROVE View(r, r[i].before, i - 1) = View(s, s[i].before, i - 1)
    OBVIOUS
  <2>1. r[i] = s[i] /\ i - 1 \in Nat /\ \A j \in 1 .. i - 1 : r[j] = s[j]
    BY <1>1, <1>2
  <2> QED
    BY <2>1, ViewOfPrefix
<1>6. /\ Began(r) \in Seq([Key -> Value]) /\ Len(Began(r)) = n - 1
      /\ \A i \in 1 .. n - 1 : Began(r)[i] = View(s, s[i].before, i - 1)
  BY <1>2, <1>5, BeganType DEF Began
<1>7. \A i \in 1 .. n - 1 : Began(s)[i] = View(s, s[i].before, i - 1)
  BY <1>1 DEF Began, n
<1>8. Began(r) = SubSeq(Began(s), 1, n - 1)
  BY <1>4, <1>6, <1>7, SeqEqual
<1> QED
  BY <1>1, <1>2, <1>3, <1>8 DEF n, r

\* Writing the copy of the last frame.
LEMMA AssignFrames ==
  ASSUME NEW s \in Seq(Frame), s # <<>>, NEW v \in Value
  PROVE LET r == [s EXCEPT ![Len(s)].t_ = v]
        IN /\ r \in Seq(Frame) /\ Len(r) = Len(s)
           /\ \A i \in 1 .. Len(s) :
                /\ r[i].cell = s[i].cell /\ r[i].before = s[i].before
                /\ r[i].t_ = IF i = Len(s) THEN v ELSE s[i].t_
<1> DEFINE n == Len(s)
           r == [s EXCEPT ![n].t_ = v]
           f == [s[n] EXCEPT !.t_ = v]
<1>1. n \in 1 .. Len(s) /\ s[n] \in Frame
  BY ElementOfSeq
<1>2. /\ f \in Frame /\ f.t_ = v
      /\ f.cell = s[n].cell /\ f.before = s[n].before
  BY <1>1 DEF Frame
<1>3. r = [s EXCEPT ![n] = f]
  OBVIOUS
<1> HIDE DEF f, r, n
<1>4. /\ r \in Seq(Frame) /\ Len(r) = Len(s)
      /\ \A i \in 1 .. Len(s) : r[i] = IF i = n THEN f ELSE s[i]
  BY <1>1, <1>2, <1>3, ExceptSeq
<1>5. \A i \in 1 .. Len(s) : /\ r[i].cell = s[i].cell /\ r[i].before = s[i].before
                            /\ r[i].t_ = IF i = n THEN v ELSE s[i].t_
  BY <1>2, <1>4
<1> QED
  BY <1>4, <1>5 DEF r, n

\* The memory changes in the cell whose copy the last frame writes, and nothing
\* changes that a running call found.
LEMMA AssignViews ==
  ASSUME NEW s \in Seq(Frame), s # <<>>, NEW v \in Value, NEW c \in Chain,
         NEW r \in Seq(Frame), Len(r) = Len(s),
         \A i \in 1 .. Len(s) :
           /\ r[i].cell = s[i].cell /\ r[i].before = s[i].before
           /\ r[i].t_ = IF i = Len(s) THEN v ELSE s[i].t_
  PROVE /\ View(r, c, Len(s)) = [View(s, c, Len(s)) EXCEPT ![s[Len(s)].cell] = v]
        /\ Began(r) = Began(s)
<1> DEFINE n == Len(s)
<1>1. n \in Nat \ {0} /\ n \in 1 .. Len(s) /\ s[n] \in Frame
  BY ElementOfSeq
<1>2. Len(r) = n
  OBVIOUS
<1>3. \A i \in 1 .. n : /\ r[i].cell = s[i].cell /\ r[i].before = s[i].before
                       /\ r[i].t_ = IF i = n THEN v ELSE s[i].t_
  OBVIOUS
<1> HIDE DEF n
<1>4. \A i \in 1 .. n : View(r, r[i].before, i - 1) = View(s, s[i].before, i - 1)
  <2> SUFFICES ASSUME NEW i \in 1 .. n
               PROVE View(r, r[i].before, i - 1) = View(s, s[i].before, i - 1)
    OBVIOUS
  <2>1. /\ r[i].before = s[i].before /\ i - 1 \in Nat
        /\ \A j \in 1 .. i - 1 : r[j].cell = s[j].cell /\ r[j].t_ = s[j].t_
    BY <1>1, <1>3
  <2>2. View(r, r[i].before, i - 1) = View(s, r[i].before, i - 1)
    BY <2>1, ViewOfPrefix
  <2> QED
    BY <2>1, <2>2
<1>5. Began(r) = Began(s)
  BY <1>2, <1>4 DEF Began, n
<1>6. ASSUME NEW k \in Key
      PROVE View(r, c, n)[k] = IF k = s[n].cell THEN v ELSE View(s, c, n)[k]
  <2>1. Holders(r, n, k) = Holders(s, n, k) /\ Holder(r, n, k) = Holder(s, n, k)
    <3>1. n \in Nat /\ \A i \in 1 .. n : r[i].cell = s[i].cell
      BY <1>1, <1>3
    <3> QED
      BY <3>1, HolderOfPrefix
  <2>2. CASE k = s[n].cell
    <3>1. Holders(s, n, k) # {} /\ Holder(s, n, k) = n
      BY <2>2, <1>1, LastFrameHolds
    <3>2. r[n].t_ = v
      BY <1>1, <1>3
    <3> QED
      BY <2>1, <2>2, <3>1, <3>2 DEF View
  <2>3. CASE k # s[n].cell /\ Holders(s, n, k) # {}
    <3>1. Holder(s, n, k) \in 1 .. n /\ s[Holder(s, n, k)].cell = k
      BY <2>3, <1>1, HolderIsInnermost DEF Holders
    <3>2. r[Holder(s, n, k)].t_ = s[Holder(s, n, k)].t_
      BY <3>1, <2>3, <1>3
    <3> QED
      BY <2>1, <2>3, <3>2 DEF View
  <2>4. CASE k # s[n].cell /\ Holders(s, n, k) = {}
    BY <2>1, <2>4 DEF View
  <2> QED
    BY <2>2, <2>3, <2>4
<1>7. View(r, c, n) = [View(s, c, n) EXCEPT ![s[n].cell] = v]
  <2>1. View(s, c, n) = [k \in Key |-> View(s, c, n)[k]]
    BY DEF View
  <2>2. View(r, c, n) = [k \in Key |-> View(r, c, n)[k]]
    BY DEF View
  <2> QED
    BY <2>1, <2>2, <1>6
<1> QED
  BY <1>5, <1>7 DEF n

\* The last frame writes its copy to the chain and is gone: no cell changes, if
\* the copies that others hold of the same cell are equal to it.
LEMMA ReturnView ==
  ASSUME NEW s \in Seq(Frame), s # <<>>, NEW c \in Chain,
         \A i \in 1 .. Len(s) : s[i].cell = s[Len(s)].cell => s[i].t_ = s[Len(s)].t_
  PROVE View(SubSeq(s, 1, Len(s) - 1), set_state(c, s[Len(s)].cell, s[Len(s)].t_), Len(s) - 1)
          = View(s, c, Len(s))
<1> DEFINE n == Len(s)
           f == s[n]
           d == set_state(c, f.cell, f.t_)
           r == SubSeq(s, 1, n - 1)
<1>1. /\ n \in Nat \ {0} /\ n - 1 \in Nat
      /\ f \in Frame /\ f.t_ \in Value /\ f.cell \in Key
  <2>1. n \in 1 .. Len(s)
    OBVIOUS
  <2>2. f \in Frame
    BY <2>1, ElementOfSeq
  <2> QED
    BY <2>1, <2>2 DEF Frame
<1>2. \A i \in 1 .. n - 1 : r[i] = s[i]
  BY <1>1, PopBegan
<1> HIDE DEF r
<1>3. View(r, d, n - 1) = View(s, d, n - 1)
  BY <1>1, <1>2, ViewOfPrefix
<1>4. \A k \in Key : d[k] = IF k = f.cell THEN f.t_ ELSE c[k]
  BY <1>1 DEF set_state, Chain
<1> HIDE DEF d
<1>5. \A i \in 1 .. n : s[i].cell = f.cell => s[i].t_ = f.t_
  OBVIOUS
<1> HIDE DEF n, f
<1>6. ASSUME NEW k \in Key PROVE View(s, d, n - 1)[k] = View(s, c, n)[k]
  <2>1. CASE k = f.cell
    <3>1. Holders(s, n, k) # {} /\ Holder(s, n, k) = n
      BY <2>1, <1>1, LastFrameHolds DEF f
    <3>2. View(s, c, n)[k] = f.t_
      BY <3>1 DEF View, f
    <3>3. CASE Holders(s, n - 1, k) # {}
      <4>1. Holder(s, n - 1, k) \in 1 .. n /\ s[Holder(s, n - 1, k)].cell = k
        BY <3>3, <1>1, HolderIsInnermost DEF Holders
      <4>2. s[Holder(s, n - 1, k)].t_ = f.t_
        BY <4>1, <2>1, <1>5
      <4> QED
        BY <4>2, <3>2, <3>3 DEF View
    <3>4. CASE Holders(s, n - 1, k) = {}
      BY <3>2, <3>4, <2>1, <1>1, <1>4, AbsentAssumption DEF View, has_state
    <3> QED
      BY <3>3, <3>4
  <2>2. CASE k # f.cell
    <3>1. /\ Holders(s, n, k) = Holders(s, n - 1, k)
          /\ Holder(s, n, k) = Holder(s, n - 1, k)
      BY <2>2, <1>1, OtherCellHolders DEF f
    <3>2. d[k] = c[k]
      BY <2>2, <1>4
    <3> QED
      BY <3>1, <3>2 DEF View, has_state
  <2> QED
    BY <2>1, <2>2
<1>7. View(s, d, n - 1) = View(s, c, n)
  BY <1>6 DEF View
<1> QED
  BY <1>3, <1>7 DEF d, r, n, f

-----------------------------------------------------------------------------
\* The inductive invariant.

LEMMA InitCallsInv == Init => CallsInv
<1> SUFFICES ASSUME Init PROVE CallsInv
  OBVIOUS
<1>1. stack \in Seq(Frame) /\ Len(stack) = 0
  BY DEF Init
<1>2. CopiesAgree
  BY <1>1 DEF CopiesAgree
<1> QED
  BY <1>1, <1>2 DEF Init, CallsInv, TypeOK, Chain

\* The facts about a state that the steps below use.
LEMMA StackFacts ==
  ASSUME CallsInv
  PROVE /\ stack \in Seq(Frame) /\ chain \in Chain /\ Len(stack) \in Nat
        /\ stack # <<>> =>
             /\ Len(stack) \in 1 .. Len(stack) /\ Top \in Frame
             /\ Top.cell \in Key /\ Top.t_ \in Value
             /\ Top.addr \in Contract /\ Top.before \in Chain
<1>1. stack \in Seq(Frame) /\ chain \in Chain
  BY DEF CallsInv, TypeOK
<1>2. Len(stack) \in Nat /\ (stack # <<>> => Len(stack) \in 1 .. Len(stack))
  BY <1>1
<1>3. stack # <<>> => Top \in Frame
  BY <1>1, <1>2, ElementOfSeq DEF Top
<1> QED
  BY <1>1, <1>2, <1>3 DEF Frame

\* A cell that is read finds what the running calls see of it.
LEMMA EnterFindsMemory ==
  ASSUME CallsInv, NEW k \in Key, stack = <<>> \/ Clean(k)
  PROVE Loads(k) = View(stack, chain, Len(stack))[k] /\ Loads(k) \in Value
<1>1. stack \in Seq(Frame) /\ chain \in Chain /\ Len(stack) \in 0 .. Len(stack)
  BY StackFacts
<1>2. ASSUME Holders(stack, Len(stack), k) = {}
      PROVE Loads(k) = View(stack, chain, Len(stack))[k]
  BY <1>2 DEF View, Loads
<1>3. ASSUME Holders(stack, Len(stack), k) # {}
      PROVE Loads(k) = View(stack, chain, Len(stack))[k]
  <2>1. stack # <<>>
    BY <1>1, <1>3 DEF Holders
  <2> QED
    BY <2>1, <1>3 DEF View, Clean
<1>4. View(stack, chain, Len(stack)) \in [Key -> Value]
  BY <1>1, ViewType
<1> QED
  BY <1>2, <1>3, <1>4

\* Entering a contract pushes a frame that holds what the caller sees.
LEMMA EnterPushes ==
  ASSUME CallsInv, NEW a \in Contract, NEW c \in Contract, Enter(a, c),
         stack = <<>> \/ Clean(Cell(a, c))
  PROVE \E f \in Frame :
          /\ stack' = Append(stack, f)
          /\ f.t_ = View(stack, chain, Len(stack))[f.cell]
          /\ f.before = chain
<1> DEFINE k == Cell(a, c)
           f == [addr |-> a, cell |-> k, t_ |-> Loads(k), before |-> chain]
<1>1. Cell(a, c) \in Key
  BY CellAssumption DEF Cell
<1>2. Loads(k) = View(stack, chain, Len(stack))[k] /\ Loads(k) \in Value
  BY <1>1, EnterFindsMemory
<1>3. f \in Frame
  BY <1>1, <1>2, StackFacts DEF Frame
<1>4. stack' = Append(stack, f)
  BY DEF Enter
<1> QED
  BY <1>2, <1>3, <1>4

LEMMA EnterKeepsInv ==
  ASSUME CallsInv, NEW a \in Contract, NEW c \in Contract, Enter(a, c),
         stack = <<>> \/ Clean(Cell(a, c))
  PROVE CallsInv'
<1>1. PICK f \in Frame : /\ stack' = Append(stack, f)
                         /\ f.t_ = View(stack, chain, Len(stack))[f.cell]
  BY EnterPushes
<1>2. stack \in Seq(Frame) /\ Len(stack) \in Nat
  BY StackFacts
<1>3. /\ stack' \in Seq(Frame) /\ Len(stack') = Len(stack) + 1
      /\ stack'[Len(stack) + 1] = f
      /\ \A i \in 1 .. Len(stack) : stack'[i] = stack[i]
  BY <1>1, <1>2, AppendProperties
<1>4. \A i \in 1 .. Len(stack) : stack[i].cell = f.cell => stack[i].t_ = f.t_
  <2> SUFFICES ASSUME NEW i \in 1 .. Len(stack), stack[i].cell = f.cell
               PROVE stack[i].t_ = f.t_
    OBVIOUS
  <2> DEFINE h == Holder(stack, Len(stack), f.cell)
  <2>1. i \in Holders(stack, Len(stack), f.cell)
    BY DEF Holders
  <2>2. h \in 1 .. Len(stack) /\ stack[h].cell = f.cell
    BY <2>1, <1>2, HolderIsInnermost DEF Holders
  <2>3. f.cell \in Key
    BY DEF Frame
  <2>4. stack[h].t_ = f.t_
    BY <2>1, <2>3, <1>1 DEF View
  <2> HIDE DEF h
  <2>5. stack[i].t_ = stack[h].t_
    BY <2>2 DEF CallsInv, CopiesAgree
  <2> QED
    BY <2>4, <2>5
<1>5. CopiesAgree'
  <2> SUFFICES ASSUME NEW i \in 1 .. Len(stack) + 1, NEW j \in 1 .. Len(stack) + 1,
                      stack'[i].cell = stack'[j].cell
               PROVE stack'[i].t_ = stack'[j].t_
    BY <1>3 DEF CopiesAgree
  <2>1. /\ i = Len(stack) + 1 \/ i \in 1 .. Len(stack)
        /\ j = Len(stack) + 1 \/ j \in 1 .. Len(stack)
    BY <1>2
  <2>2. CASE i = Len(stack) + 1 /\ j = Len(stack) + 1
    BY <2>2
  <2>3. CASE i = Len(stack) + 1 /\ j \in 1 .. Len(stack)
    BY <2>3, <1>3, <1>4
  <2>4. CASE i \in 1 .. Len(stack) /\ j = Len(stack) + 1
    BY <2>4, <1>3, <1>4
  <2>5. CASE i \in 1 .. Len(stack) /\ j \in 1 .. Len(stack)
    BY <2>5, <1>3 DEF CallsInv, CopiesAgree
  <2> QED
    BY <2>1, <2>2, <2>3, <2>4, <2>5
<1> QED
  BY <1>3, <1>5 DEF Enter, CallsInv, TypeOK

\* Leaving a contract keeps what the frames below it hold.
LEMMA PopKeepsFrames ==
  ASSUME CallsInv, stack # <<>>, stack' = Callers
  PROVE stack' \in Seq(Frame) /\ CopiesAgree'
<1>1. stack \in Seq(Frame) /\ Len(stack) \in Nat
  BY StackFacts
<1>2. /\ stack' \in Seq(Frame) /\ Len(stack') = Len(stack) - 1
      /\ \A i \in 1 .. Len(stack) - 1 : stack'[i] = stack[i]
  BY <1>1, PopBegan DEF Callers
<1> QED
  BY <1>1, <1>2 DEF CallsInv, CopiesAgree

\* Every step keeps the inductive invariant.
LEMMA StepCallsInv == CallsInv /\ [Next]_vars => CallsInv'
<1> SUFFICES ASSUME CallsInv, [Next]_vars PROVE CallsInv'
  OBVIOUS
<1>1. CASE Rejected
  BY <1>1 DEF Rejected, CallsInv, TypeOK, CopiesAgree
<1>2. CASE Get
  <2>1. seen' \in [op : {"read", "write", "return"}, val : Value]
    BY <1>2, StackFacts DEF Get, Told
  <2> QED
    BY <1>2, <2>1 DEF Get, CallsInv, TypeOK, CopiesAgree
<1>3. CASE Return
  <2>1. seen' \in [op : {"read", "write", "return"}, val : Value]
    BY <1>3, StackFacts DEF Return, Told
  <2>2. chain' \in Chain
    BY <1>3, StackFacts DEF Return, set_state, Chain
  <2> QED
    BY <1>3, <2>1, <2>2, PopKeepsFrames DEF Return, CallsInv, TypeOK
<1>4. CASE Panic
  <2>1. chain' \in Chain
    BY <1>4, StackFacts DEF Panic
  <2> QED
    BY <1>4, <2>1, PopKeepsFrames DEF Panic, CallsInv, TypeOK
<1>5. ASSUME NEW v \in Value, Exclusive, Assign(v) PROVE CallsInv'
  <2>1. stack \in Seq(Frame) /\ stack # <<>> /\ Len(stack) \in 1 .. Len(stack)
    BY <1>5, StackFacts DEF Assign
  <2>2. /\ stack' \in Seq(Frame) /\ Len(stack') = Len(stack)
        /\ \A i \in 1 .. Len(stack) :
             /\ stack'[i].cell = stack[i].cell
             /\ stack'[i].t_ = IF i = Len(stack) THEN v ELSE stack[i].t_
    BY <1>5, <2>1, AssignFrames DEF Assign
  <2>3. \A i \in 1 .. Len(stack) : stack[i].cell = Top.cell => i = Len(stack)
    BY <1>5, <2>1 DEF Exclusive, Holders
  <2>4. CopiesAgree'
    BY <2>1, <2>2, <2>3 DEF CallsInv, CopiesAgree, Top
  <2>5. seen' \in [op : {"read", "write", "return"}, val : Value]
    BY <1>5 DEF Assign, Told
  <2> QED
    BY <1>5, <2>2, <2>4, <2>5 DEF Assign, CallsInv, TypeOK
<1>6. ASSUME NEW c \in Contract, invoke(c) \/ (platon_call(c) /\ Clean(Cell(c, c)))
      PROVE CallsInv'
  BY <1>6, EnterKeepsInv DEF invoke, platon_call
<1>7. ASSUME NEW c \in Contract, platon_delegate_call(c), Clean(Cell(Top.addr, c))
      PROVE CallsInv'
  <2>1. PICK a \in Contract : a = Top.addr
    BY <1>7, StackFacts DEF platon_delegate_call
  <2>2. Enter(a, c) /\ Clean(Cell(a, c))
    BY <1>7, <2>1 DEF platon_delegate_call
  <2> QED
    BY <2>2, EnterKeepsInv
<1>8. CASE UNCHANGED vars
  BY <1>8 DEF vars, CallsInv, TypeOK, CopiesAgree
<1> QED
  BY <1>1, <1>2, <1>3, <1>4, <1>5, <1>6, <1>7, <1>8 DEF Next

\* The inductive invariant holds in every state.
LEMMA CallsInvAlways == Spec => []CallsInv
  BY InitCallsInv, StepCallsInv, PTL DEF Spec

\* The chain, the frames of the running calls and the answers keep their types:
\* no call ever hands on or stores anything but a value, also when a panic has
\* restored the chain.
THEOREM CallsTypeCorrect == Spec => []TypeOK
  BY CallsInvAlways, PTL DEF CallsInv

-----------------------------------------------------------------------------
\* The refinement.

\* The memory that the running calls see, and what each of them found, as the
\* refinement mapping gives them.
MemOf(s, c) == View(s, c, Len(s))
BeganOf(s)  == [i \in DOMAIN s |-> View(s, s[i].before, i - 1)]

LEMMA BeganOfStack ==
  ASSUME NEW s \in Seq(Frame)
  PROVE BeganOf(s) = Began(s) /\ (s # <<>> => Began(s) # <<>>)
<1>1. DOMAIN s = 1 .. Len(s)
  OBVIOUS
<1> QED
  BY <1>1, BeganType DEF BeganOf, Began

\* The initial state shows the default in every cell.
LEMMA InitMemory == Init => Memory!Init
<1> SUFFICES ASSUME Init PROVE Memory!Init
  OBVIOUS
<1>1. stack \in Seq(Frame) /\ Len(stack) = 0 /\ chain \in Chain /\ DOMAIN stack = {}
  BY DEF Init, Chain
<1>2. View(stack, chain, Len(stack)) \in [Key -> Value]
  <2>1. Len(stack) \in 0 .. Len(stack)
    BY <1>1
  <2> QED
    BY <1>1, <2>1, ViewType
<1>3. [i \in DOMAIN stack |-> View(stack, stack[i].before, i - 1)] = <<>>
  BY <1>1
<1> QED
  BY <1>2, <1>3 DEF Init, Memory!Init, Memory!Nothing, Nothing

\* A call that enters is a transaction that begins.
LEMMA EnterBegins ==
  ASSUME CallsInv, NEW a \in Contract, NEW c \in Contract, Enter(a, c),
         stack = <<>> \/ Clean(Cell(a, c))
  PROVE Memory!Begin
<1>1. PICK f \in Frame : /\ stack' = Append(stack, f)
                         /\ f.t_ = View(stack, chain, Len(stack))[f.cell]
                         /\ f.before = chain
  BY EnterPushes
<1>2. stack \in Seq(Frame) /\ stack' \in Seq(Frame) /\ Len(stack') = Len(stack) + 1
  BY <1>1, StackFacts, AppendProperties
<1>3. MemOf(stack', chain') = MemOf(stack, chain)
  BY <1>1, <1>2, PushView DEF MemOf, Enter
<1>4. Began(stack') = Append(Began(stack), MemOf(stack, chain))
  BY <1>1, <1>2, PushBegan DEF MemOf
<1>5. BeganOf(stack') = Append(BeganOf(stack), MemOf(stack, chain))
  BY <1>2, <1>4, BeganOfStack
<1> QED
  BY <1>3, <1>5 DEF Enter, Memory!Begin, Memory!Nothing, Nothing, MemOf, BeganOf

\* The running call sees the value of its cell in its copy.
LEMMA TopSeesCell ==
  ASSUME CallsInv, stack # <<>>
  PROVE MemOf(stack, chain)[Top.cell] = Top.t_
<1>1. /\ Len(stack) \in Nat \ {0} /\ Top.cell \in Key
      /\ stack[Len(stack)].cell = Top.cell
  BY StackFacts DEF Top
<1>2. /\ Holders(stack, Len(stack), Top.cell) # {}
      /\ Holder(stack, Len(stack), Top.cell) = Len(stack)
  BY <1>1, LastFrameHolds
<1> QED
  BY <1>1, <1>2 DEF MemOf, View, Top

LEMMA AssignWrites ==
  ASSUME CallsInv, NEW v \in Value, Assign(v)
  PROVE Top.cell \in Key /\ Memory!Write(Top.cell, v)
<1>1. stack \in Seq(Frame) /\ stack # <<>> /\ chain \in Chain /\ Top.cell \in Key
  BY StackFacts DEF Assign
<1>2. /\ stack' \in Seq(Frame) /\ Len(stack') = Len(stack)
      /\ \A i \in 1 .. Len(stack) :
           /\ stack'[i].cell = stack[i].cell /\ stack'[i].before = stack[i].before
           /\ stack'[i].t_ = IF i = Len(stack) THEN v ELSE stack[i].t_
  BY <1>1, AssignFrames DEF Assign
<1>3. /\ View(stack', chain, Len(stack)) =
           [View(stack, chain, Len(stack)) EXCEPT ![stack[Len(stack)].cell] = v]
      /\ Began(stack') = Began(stack)
  BY <1>1, <1>2, AssignViews
<1>4. MemOf(stack', chain') = [MemOf(stack, chain) EXCEPT ![Top.cell] = v]
  BY <1>2, <1>3 DEF MemOf, Top, Assign
<1>5. BeganOf(stack') = BeganOf(stack) /\ BeganOf(stack) # <<>>
  BY <1>1, <1>2, <1>3, BeganOfStack
<1> QED
  BY <1>1, <1>4, <1>5 DEF Assign, Memory!Write, Memory!Told, Told, MemOf, BeganOf

LEMMA GetReads ==
  ASSUME CallsInv, Get
  PROVE Top.cell \in Key /\ Memory!Read(Top.cell)
<1>1. stack \in Seq(Frame) /\ stack # <<>> /\ Top.cell \in Key
  BY StackFacts DEF Get
<1>2. BeganOf(stack) # <<>>
  BY <1>1, BeganOfStack
<1>3. MemOf(stack, chain)[Top.cell] = Top.t_
  BY <1>1, TopSeesCell
<1> QED
  BY <1>1, <1>2, <1>3 DEF Get, Memory!Read, Memory!Told, Told, MemOf, BeganOf

\* The frames and what they found after a call has ended.
LEMMA PopEnds ==
  ASSUME CallsInv, stack # <<>>, stack' = Callers
  PROVE /\ BeganOf(stack') = SubSeq(BeganOf(stack), 1, Len(BeganOf(stack)) - 1)
        /\ BeganOf(stack) # <<>>
        /\ BeganOf(stack)[Len(BeganOf(stack))] = View(stack', Top.before, Len(stack'))
        /\ Len(stack') = Len(stack) - 1
<1>1. stack \in Seq(Frame) /\ Len(stack) \in Nat \ {0}
  BY StackFacts
<1>2. /\ stack' \in Seq(Frame) /\ Len(stack') = Len(stack) - 1
      /\ \A i \in 1 .. Len(stack) - 1 : stack'[i] = stack[i]
      /\ Began(stack') = SubSeq(Began(stack), 1, Len(Began(stack)) - 1)
      /\ Began(stack) # <<>>
  BY <1>1, PopBegan DEF Callers
<1>3. BeganOf(stack) = Began(stack) /\ BeganOf(stack') = Began(stack')
  BY <1>1, <1>2, BeganOfStack
<1>4. Len(Began(stack)) = Len(stack)
  BY <1>1, BeganType
<1>5. Began(stack)[Len(stack)] = View(stack, Top.before, Len(stack) - 1)
  BY <1>1 DEF Began, Top
<1>6. Len(stack) - 1 \in Nat
  BY <1>1
<1>7. View(stack', Top.before, Len(stack) - 1) = View(stack, Top.before, Len(stack) - 1)
  BY <1>2, <1>6, ViewOfPrefix
<1> QED
  BY <1>2, <1>3, <1>4, <1>5, <1>7

LEMMA ReturnCommits ==
  ASSUME CallsInv, Return
  PROVE Top.cell \in Key /\ Memory!Commit(Top.cell)
<1>1. /\ stack \in Seq(Frame) /\ stack # <<>> /\ chain \in Chain /\ Top.cell \in Key
      /\ Len(stack) \in 1 .. Len(stack)
  BY StackFacts DEF Return
<1>2. \A i \in 1 .. Len(stack) :
        stack[i].cell = stack[Len(stack)].cell => stack[i].t_ = stack[Len(stack)].t_
  BY <1>1 DEF CallsInv, CopiesAgree
<1>3. View(stack', chain', Len(stack) - 1) = View(stack, chain, Len(stack))
  BY <1>1, <1>2, ReturnView DEF Return, Callers, Top
<1>4. /\ BeganOf(stack') = SubSeq(BeganOf(stack), 1, Len(BeganOf(stack)) - 1)
      /\ BeganOf(stack) # <<>> /\ Len(stack') = Len(stack) - 1
  BY PopEnds DEF Return
<1>5. MemOf(stack', chain') = MemOf(stack, chain)
  BY <1>3, <1>4 DEF MemOf
<1>6. MemOf(stack, chain)[Top.cell] = Top.t_
  BY <1>1, TopSeesCell
<1> QED
  BY <1>1, <1>4, <1>5, <1>6 DEF Return, Memory!Commit, Memory!Told, Told, MemOf, BeganOf

LEMMA PanicAborts ==
  ASSUME CallsInv, Panic
  PROVE Memory!Abort
<1>1. /\ BeganOf(stack') = SubSeq(BeganOf(stack), 1, Len(BeganOf(stack)) - 1)
      /\ BeganOf(stack) # <<>>
      /\ BeganOf(stack)[Len(BeganOf(stack))] = View(stack', Top.before, Len(stack'))
  BY PopEnds DEF Panic
<1>2. MemOf(stack', chain') = BeganOf(stack)[Len(BeganOf(stack))]
  BY <1>1 DEF MemOf, Panic
<1> QED
  BY <1>1, <1>2 DEF Panic, Memory!Abort, Memory!Nothing, Nothing, MemOf, BeganOf

\* Every step of the contracts is a step of the memory, or none.
LEMMA StepMemory == CallsInv /\ [Next]_vars => [Memory!Next]_Memory!vars
<1> SUFFICES ASSUME CallsInv, [Next]_vars PROVE [Memory!Next]_Memory!vars
  OBVIOUS
<1>1. CASE Rejected
  <2>1. Memory!Refuse
    BY <1>1 DEF Rejected, Memory!Refuse, Memory!Nothing, Nothing
  <2> QED
    BY <2>1 DEF Memory!Next
<1>2. CASE Get
  BY <1>2, GetReads DEF Memory!Next
<1>3. CASE Return
  BY <1>3, ReturnCommits DEF Memory!Next
<1>4. CASE Panic
  BY <1>4, PanicAborts DEF Memory!Next
<1>5. ASSUME NEW v \in Value, Assign(v) PROVE Memory!Next
  BY <1>5, AssignWrites DEF Memory!Next
<1>6. ASSUME NEW c \in Contract, invoke(c) \/ (platon_call(c) /\ Clean(Cell(c, c)))
      PROVE Memory!Next
  BY <1>6, EnterBegins DEF invoke, platon_call, Memory!Next
<1>7. ASSUME NEW c \in Contract, platon_delegate_call(c), Clean(Cell(Top.addr, c))
      PROVE Memory!Next
  <2>1. PICK a \in Contract : a = Top.addr
    BY <1>7, StackFacts DEF platon_delegate_call
  <2>2. Enter(a, c) /\ Clean(Cell(a, c))
    BY <1>7, <2>1 DEF platon_delegate_call
  <2> QED
    BY <2>2, EnterBegins DEF Memory!Next
<1>8. CASE UNCHANGED vars
  BY <1>8 DEF vars, Memory!vars
<1> QED
  BY <1>1, <1>2, <1>3, <1>4, <1>5, <1>6, <1>7, <1>8 DEF Next

\* The copies that StorageType members hold are invisible: contracts that re-enter
\* a cell only to read it, and only while no running caller has changed its
\* copy, share one memory with nested transactions, for every number of
\* contracts and cells and every depth of calls.
THEOREM CallsImplementCells == Spec => ImplementsCells
  BY InitMemory, StepMemory, CallsInvAlways, PTL DEF Spec, Memory!Spec, ImplementsCells
=============================================================================
