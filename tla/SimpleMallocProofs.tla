------------------------ MODULE SimpleMallocProofs --------------------------
(***************************************************************************)
(* Proofs about simple_malloc.cpp for every size of a page and of the      *)
(* memory, every heap base, every alignment and every sequence of requests *)
(* of sizes that do not wrap: the blocks never overlap, and as long as the *)
(* host grants the pages asked for they lie inside the memory.             *)
(***************************************************************************)
EXTENDS SimpleMalloc, TLAPS

\* An address and a number of bytes that fit behind it without wrapping.
Fits(sz) == sz \in Nat \ {0} /\ MaxPages * PAGE + sz + 2 * ALIGN < WORD

-----------------------------------------------------------------------------
\* Arithmetic.

\* The quotient and the remainder of a division.
LEMMA Division ==
  ASSUME NEW a \in Nat, NEW b \in Nat \ {0}
  PROVE /\ a \div b \in Nat
        /\ b * (a \div b) <= a
        /\ a < b * (a \div b) + b
  OBVIOUS

\* A number below the modulus is its own remainder.
LEMMA SmallModulus ==
  ASSUME NEW a \in Nat, NEW b \in Nat, a < b
  PROVE a % b = a
  OBVIOUS

LEMMA ModulusType ==
  ASSUME NEW a \in Nat, NEW b \in Nat \ {0}
  PROVE a % b \in 0 .. b - 1
  OBVIOUS

\* A product of naturals grows with its factor.
LEMMA ProductMonotone ==
  ASSUME NEW a \in Nat, NEW b \in Nat, NEW c \in Nat, a <= b
  PROVE a * c \in Nat /\ b * c \in Nat /\ a * c <= b * c
<1>1. b - a \in Nat
  OBVIOUS
<1>2. (b - a) * c \in Nat
  BY <1>1
<1>3. b * c = a * c + (b - a) * c
  BY <1>1
<1> QED
  BY <1>2, <1>3

\* align() rounds up, by less than the alignment.
LEMMA AlignBounds ==
  ASSUME NEW p \in Nat
  PROVE align(p) \in Nat /\ p <= align(p) /\ align(p) < p + ALIGN
<1>1. ALIGN \in Nat \ {0}
  BY MemoryAssumption
<1> DEFINE q == (p + ALIGN - 1) \div ALIGN
<1>2. q \in Nat /\ ALIGN * q <= p + ALIGN - 1 /\ p + ALIGN - 1 < ALIGN * q + ALIGN
  BY <1>1, Division
<1>3. align(p) = ALIGN * q
  BY <1>1, <1>2 DEF align
<1> HIDE DEF q
<1>4. ALIGN * q \in Nat
  BY <1>1, <1>2
<1> QED
  BY <1>1, <1>2, <1>3, <1>4

\* The end of a page is aligned: rounding up does not pass it.
LEMMA AlignInPages ==
  ASSUME NEW p \in Nat, NEW k \in Nat, p <= k * PAGE
  PROVE align(p) <= k * PAGE
<1>1. ALIGN \in Nat \ {0} /\ PAGE \in Nat \ {0} /\ PAGE % ALIGN = 0
  BY MemoryAssumption
<1>2. PICK c \in Nat : PAGE = ALIGN * c
  BY <1>1
<1> DEFINE q == (p + ALIGN - 1) \div ALIGN
           m == c * k
<1>3. q \in Nat /\ ALIGN * q <= p + ALIGN - 1
  BY <1>1, Division
<1>4. align(p) = ALIGN * q
  BY <1>1, <1>3 DEF align
<1>5. m \in Nat /\ k * PAGE = ALIGN * m
  BY <1>1, <1>2
<1> HIDE DEF q, m
<1>6. q <= m
  <2> SUFFICES ASSUME m + 1 <= q PROVE FALSE
    BY <1>3, <1>5
  <2>1. (m + 1) * ALIGN <= q * ALIGN
    BY <1>1, <1>3, <1>5, ProductMonotone
  <2>2. (m + 1) * ALIGN = ALIGN * m + ALIGN /\ q * ALIGN = ALIGN * q
    BY <1>1, <1>3, <1>5
  <2> QED
    BY <2>1, <2>2, <1>1, <1>3, <1>5
<1>7. q * ALIGN <= m * ALIGN
  BY <1>1, <1>3, <1>5, <1>6, ProductMonotone
<1> QED
  BY <1>1, <1>3, <1>4, <1>5, <1>7

-----------------------------------------------------------------------------
\* The steps of the allocator.

\* The end of the blocks and the pages counted and held.
Counters ==
  /\ last_ptr \in 0 .. WORD - 1
  /\ next_page \in Nat
  /\ pages \in StartPages .. MaxPages

\* While the call runs, the end of a new block is past the block, unless it
\* begins outside the memory the host may grant.
LEMMA NewEndBounds ==
  ASSUME NEW sz, Fits(sz), Counters, last_ptr <= MaxPages * PAGE
  PROVE /\ RealSize(sz) = sz + ALIGN
        /\ NewEnd(sz) = align(last_ptr + sz + ALIGN)
        /\ NewEnd(sz) \in Nat
        /\ last_ptr + ALIGN + sz <= NewEnd(sz)
<1>1. /\ ALIGN \in Nat \ {0} /\ WORD \in Nat /\ MaxPages * PAGE \in Nat
      /\ sz \in Nat /\ last_ptr \in Nat
      /\ MaxPages * PAGE + sz + 2 * ALIGN < WORD
  BY MemoryAssumption DEF Fits, Counters
<1> DEFINE e == last_ptr + sz + ALIGN
<1>2. RealSize(sz) = sz + ALIGN
  BY <1>1, SmallModulus DEF RealSize
<1>3. e \in Nat /\ e < WORD /\ e + ALIGN < WORD
  BY <1>1
<1>4. (last_ptr + RealSize(sz)) % WORD = e
  <2>1. last_ptr + RealSize(sz) = e
    BY <1>1, <1>2
  <2> QED
    BY <2>1, <1>1, <1>3, SmallModulus
<1> HIDE DEF e
<1>5. align(e) \in Nat /\ e <= align(e) /\ align(e) < WORD
  BY <1>1, <1>3, AlignBounds
<1>6. NewEnd(sz) = align(e)
  BY <1>1, <1>4, <1>5, SmallModulus DEF NewEnd
<1> QED
  BY <1>1, <1>2, <1>5, <1>6 DEF e

\* The end of the blocks stays an address, also when it wraps.
LEMMA NewEndType ==
  ASSUME NEW sz \in Nat, Counters
  PROVE NewEnd(sz) \in 0 .. WORD - 1 /\ PagesNeeded(sz) \in Nat
<1>1. /\ ALIGN \in Nat \ {0} /\ PAGE \in Nat \ {0} /\ WORD \in Nat \ {0}
      /\ last_ptr \in Nat /\ next_page \in Nat
  <2>1. ALIGN \in Nat \ {0} /\ PAGE \in Nat \ {0} /\ WORD \in Nat
    BY MemoryAssumption
  <2> QED
    BY <2>1 DEF Counters
<1>2. RealSize(sz) \in Nat
  BY <1>1, ModulusType DEF RealSize
<1>3. (last_ptr + RealSize(sz)) % WORD \in Nat
  BY <1>1, <1>2, ModulusType
<1>4. align((last_ptr + RealSize(sz)) % WORD) \in Nat
  BY <1>3, AlignBounds
<1>5. NewEnd(sz) \in 0 .. WORD - 1
  BY <1>1, <1>4, ModulusType DEF NewEnd
<1>6. RealSize(sz) \div PAGE \in Nat
  BY <1>1, <1>2, Division
<1> QED
  BY <1>5, <1>6 DEF PagesNeeded

\* The pages asked for hold the block, if the allocator counts the pages right.
LEMMA PagesSuffice ==
  ASSUME NEW sz, Fits(sz), Counters,
         next_page = pages, last_ptr <= pages * PAGE
  PROVE NewEnd(sz) <= (pages + PagesNeeded(sz)) * PAGE
<1>1. /\ ALIGN \in Nat \ {0} /\ PAGE \in Nat \ {0} /\ WORD \in Nat
      /\ MaxPages \in Nat /\ MaxPages * PAGE \in Nat
      /\ sz \in Nat /\ last_ptr \in Nat /\ pages \in Nat /\ pages <= MaxPages
      /\ MaxPages * PAGE + sz + 2 * ALIGN < WORD
  <2>1. StartPages \in Nat /\ MaxPages \in Nat /\ PAGE \in Nat
    BY MemoryAssumption
  <2> QED
    BY <2>1, MemoryAssumption DEF Fits, Counters
<1>2. pages * PAGE \in Nat /\ pages * PAGE <= MaxPages * PAGE
  BY <1>1, ProductMonotone
<1>3. last_ptr <= MaxPages * PAGE
  BY <1>1, <1>2
<1>4. /\ RealSize(sz) = sz + ALIGN
      /\ NewEnd(sz) = align(last_ptr + sz + ALIGN)
      /\ NewEnd(sz) \in Nat
  BY <1>3, NewEndBounds
<1> DEFINE whole == (sz + ALIGN) \div PAGE
<1>5. whole \in Nat /\ PAGE * whole <= sz + ALIGN /\ sz + ALIGN < PAGE * whole + PAGE
  BY <1>1, Division
<1> HIDE DEF whole
<1>6. /\ PAGE * whole \in Nat
      /\ (pages + whole) * PAGE = pages * PAGE + PAGE * whole
      /\ (pages + (whole + 1)) * PAGE = pages * PAGE + PAGE * whole + PAGE
  BY <1>1, <1>5
<1>7. ((pages + whole) * PAGE) % WORD = (pages + whole) * PAGE
  <2>1. (pages + whole) * PAGE \in Nat /\ (pages + whole) * PAGE < WORD
    BY <1>1, <1>2, <1>5, <1>6
  <2> QED
    BY <2>1, <1>1, SmallModulus
<1>8. PagesNeeded(sz) = IF (pages + whole) * PAGE <= NewEnd(sz) THEN whole + 1 ELSE whole
  BY <1>4, <1>7 DEF PagesNeeded, whole
<1>9. CASE (pages + whole) * PAGE <= NewEnd(sz)
  <2>1. last_ptr + sz + ALIGN \in Nat /\ pages + (whole + 1) \in Nat
    BY <1>1, <1>5
  <2>2. last_ptr + sz + ALIGN <= (pages + (whole + 1)) * PAGE
    BY <1>1, <1>2, <1>5, <1>6
  <2>3. align(last_ptr + sz + ALIGN) <= (pages + (whole + 1)) * PAGE
    BY <2>1, <2>2, AlignInPages
  <2> QED
    BY <2>3, <1>4, <1>8, <1>9
<1>10. CASE ~((pages + whole) * PAGE <= NewEnd(sz))
  BY <1>10, <1>1, <1>2, <1>4, <1>6, <1>8
<1> QED
  BY <1>9, <1>10

-----------------------------------------------------------------------------
\* The inductive invariant.  Blocks that were given back or moved away keep their
\* space: the headers tell where it is, and the blocks in use are among them.

\* Each header is cut off behind the space of the one before it, and while the
\* call runs the next one will be, too.
HeadersApart ==
  \A p \in DOMAIN header :
    /\ status = "running" => p + header[p] <= last_ptr
    /\ \A q \in DOMAIN header : p < q => p + header[p] <= q - ALIGN

\* No block in use was given more bytes than its header says.
BlocksInHeaders == \A p \in DOMAIN blocks : blocks[p] <= header[p]

MallocInv == TypeOK /\ HeadersApart /\ BlocksInHeaders /\ InMemory

\* The blocks in use are disjoint because the headers are.
LEMMA HeadersSeparateBlocks == MallocInv => Disjoint
<1> SUFFICES ASSUME MallocInv, NEW p \in DOMAIN blocks
             PROVE /\ status = "running" => p + blocks[p] <= last_ptr
                   /\ \A q \in DOMAIN blocks : p < q => p + blocks[p] <= q - ALIGN
  BY DEF Disjoint
<1>1. /\ p \in DOMAIN header /\ p \in Nat /\ header[p] \in Nat /\ blocks[p] \in Nat
      /\ blocks[p] <= header[p] /\ last_ptr \in Int /\ ALIGN \in Nat
      /\ \A q \in DOMAIN blocks : q \in DOMAIN header /\ q \in Nat
  <2>1. WORD \in Nat /\ ALIGN \in Nat
    BY MemoryAssumption
  <2> QED
    BY <2>1 DEF MallocInv, TypeOK, BlocksInHeaders
<1>2. /\ status = "running" => p + header[p] <= last_ptr
      /\ \A q \in DOMAIN header : p < q => p + header[p] <= q - ALIGN
  BY <1>1 DEF MallocInv, HeadersApart
<1> QED
  BY <1>1, <1>2

\* A new instance satisfies the invariant.
LEMMA FreshInstance ==
  ASSUME NEW base \in Bases
  PROVE align(base) \in 0 .. WORD - 1 /\ align(base) <= StartPages * PAGE
<1>1. /\ StartPages \in Nat /\ MaxPages \in Nat /\ PAGE \in Nat /\ WORD \in Nat
      /\ StartPages <= MaxPages /\ MaxPages * PAGE < WORD
      /\ StartPages * PAGE \in Nat /\ MaxPages * PAGE \in Nat
      /\ base \in Nat /\ base <= StartPages * PAGE
  BY MemoryAssumption
<1>2. StartPages * PAGE <= MaxPages * PAGE
  BY <1>1, ProductMonotone
<1>3. align(base) \in Nat /\ align(base) <= StartPages * PAGE
  BY <1>1, AlignBounds, AlignInPages
<1> QED
  BY <1>1, <1>2, <1>3

\* The requests of a program fit, those of calloc too.
LEMMA RequestFits ==
  ASSUME NEW sz \in Sizes
  PROVE /\ sz # 0 => Fits(sz)
        /\ \A count \in Counts : (count * sz) % WORD # 0 => Fits((count * sz) % WORD)
<1>1. sz \in Nat
  BY MemoryAssumption
<1>2. sz # 0 => Fits(sz)
  BY <1>1, SizeAssumption DEF Fits
<1>3. ASSUME NEW count \in Counts, (count * sz) % WORD # 0
      PROVE Fits((count * sz) % WORD)
  <2>1. /\ count * sz \in Nat /\ WORD \in Nat /\ ALIGN \in Nat /\ MaxPages * PAGE \in Nat
        /\ MaxPages * PAGE + count * sz + 2 * ALIGN < WORD
    BY <1>1, MemoryAssumption, SizeAssumption
  <2>2. (count * sz) % WORD = count * sz
    BY <2>1, SmallModulus
  <2> QED
    BY <2>1, <2>2, <1>3 DEF Fits
<1> QED
  BY <1>2, <1>3

LEMMA InitMallocInv == Init => MallocInv
<1> SUFFICES ASSUME Init PROVE MallocInv
  OBVIOUS
<1>1. last_ptr \in 0 .. WORD - 1 /\ last_ptr <= StartPages * PAGE
  BY FreshInstance DEF Init
<1>2. DOMAIN blocks = {} /\ DOMAIN header = {}
  BY DEF Init, NoBlocks
<1>3. StartPages \in StartPages .. MaxPages /\ StartPages \in Nat
  BY MemoryAssumption
<1> QED
  BY <1>1, <1>2, <1>3 DEF Init, MallocInv, TypeOK, HeadersApart, BlocksInHeaders, InMemory

\* The counters after a request, in every case.
LEMMA AllocateCounters ==
  ASSUME NEW sz, Fits(sz), NEW touched, NEW dead,
         MallocInv, Allocate(sz, touched, dead)
  PROVE /\ Counters'
        /\ pages <= pages'
        /\ refused' \in BOOLEAN
        /\ status' \in {"running", "thrown", "trapped"}
        /\ status' = "running" => last_ptr < MaxPages * PAGE
        /\ ~refused' =>
             /\ ~refused
             /\ next_page' = pages' /\ last_ptr' <= pages' * PAGE
<1> DEFINE n == PagesNeeded(sz)
<1>1. /\ PAGE \in Nat \ {0} /\ WORD \in Nat /\ ALIGN \in Nat
      /\ StartPages \in Nat /\ MaxPages \in Nat /\ MaxPages * PAGE \in Nat
      /\ sz \in Nat
  BY MemoryAssumption DEF Fits
<1>2. Counters /\ last_ptr \in Nat /\ pages \in Nat /\ refused \in BOOLEAN
  BY <1>1 DEF MallocInv, TypeOK, Counters
<1>3. last_ptr' \in 0 .. WORD - 1 /\ n \in Nat
  BY <1>1, <1>2, NewEndType DEF Allocate
<1>4. /\ next_page' = next_page + n
      /\ pages' = (IF n > 0 /\ Granted(n) THEN pages + n ELSE pages)
      /\ refused' = (refused \/ (n > 0 /\ ~Granted(n)))
  BY DEF Allocate
<1>5. status' = CASE n > 0 /\ memory_grow(n) = 0 -> "thrown"
                  [] n = 0 \/ memory_grow(n) # 0 ->
                       IF last_ptr >= pages' * PAGE
                          \/ (last_ptr + ALIGN) + touched > pages' * PAGE
                       THEN "trapped" ELSE "running"
  BY DEF Allocate
<1> HIDE DEF n
<1>6. /\ next_page' \in Nat /\ pages' \in StartPages .. MaxPages /\ pages <= pages'
      /\ pages' \in Nat /\ pages' <= MaxPages
  BY <1>1, <1>2, <1>3, <1>4 DEF Granted, Counters
<1>7. refused' \in BOOLEAN
  BY <1>2, <1>4
<1>8. /\ status' \in {"running", "thrown", "trapped"}
      /\ status' = "running" => last_ptr < pages' * PAGE
  <2>1. pages' * PAGE \in Nat
    BY <1>1, <1>6, ProductMonotone
  <2>2. CASE n > 0 /\ memory_grow(n) = 0
    BY <2>2, <1>5, <1>3
  <2>3. CASE n = 0 \/ memory_grow(n) # 0
    <3>1. status' = IF last_ptr >= pages' * PAGE
                       \/ (last_ptr + ALIGN) + touched > pages' * PAGE
                    THEN "trapped" ELSE "running"
      BY <2>3, <1>5, <1>3
    <3> QED
      BY <3>1, <2>1, <1>2
  <2> QED
    BY <2>2, <2>3, <1>3
<1>9. pages' * PAGE <= MaxPages * PAGE /\ pages' * PAGE \in Nat
  BY <1>1, <1>6, ProductMonotone
<1>10. status' = "running" => last_ptr < MaxPages * PAGE
  BY <1>1, <1>2, <1>8, <1>9
<1>11. ASSUME ~refused'
       PROVE ~refused /\ next_page' = pages' /\ last_ptr' <= pages' * PAGE
  <2>1. ~refused /\ ~(n > 0 /\ ~Granted(n))
    BY <1>11, <1>4
  <2>2. next_page = pages /\ last_ptr <= pages * PAGE
    BY <2>1 DEF MallocInv, InMemory
  <2>3. pages' = pages + n
    BY <2>1, <1>2, <1>3, <1>4
  <2>4. last_ptr' <= (pages + n) * PAGE
    BY <2>2, <1>2, PagesSuffice DEF Allocate, n
  <2> QED
    BY <2>1, <2>2, <2>3, <2>4, <1>4
<1> QED
  BY <1>3, <1>6, <1>7, <1>8, <1>10, <1>11 DEF Counters

\* A request keeps the invariant, whether it is served, refused or trapped.
LEMMA AllocateKeepsInv ==
  ASSUME NEW sz, Fits(sz), NEW touched, NEW dead,
         MallocInv, status = "running", Allocate(sz, touched, dead)
  PROVE MallocInv'
<1> DEFINE p == last_ptr + ALIGN
<1>1. /\ PAGE \in Nat /\ ALIGN \in Nat \ {0} /\ MaxPages * PAGE \in Nat
      /\ sz \in Nat \ {0} /\ WORD \in Nat /\ StartPages \in Nat
  BY MemoryAssumption DEF Fits
<1>2. /\ Counters' /\ pages <= pages'
      /\ refused' \in BOOLEAN
      /\ status' \in {"running", "thrown", "trapped"}
      /\ status' = "running" => last_ptr < MaxPages * PAGE
      /\ ~refused' => ~refused /\ next_page' = pages' /\ last_ptr' <= pages' * PAGE
  BY AllocateCounters
<1>3. /\ Counters /\ last_ptr \in Nat /\ last_ptr' \in Nat /\ p \in Nat
      /\ pages \in Nat /\ pages' \in Nat
  BY <1>1, <1>2 DEF MallocInv, TypeOK, Counters
<1>4. /\ DOMAIN blocks \subseteq DOMAIN header
      /\ \A q \in DOMAIN header :
           q \in Nat /\ header[q] \in Nat \ {0} /\ q + header[q] <= last_ptr
      /\ \A q \in DOMAIN header, r \in DOMAIN header :
           q < r => q + header[q] <= r - ALIGN
      /\ \A q \in DOMAIN blocks : blocks[q] \in Nat \ {0} /\ blocks[q] <= header[q]
  BY DEF MallocInv, TypeOK, HeadersApart, BlocksInHeaders
<1>5. /\ pages' * PAGE \in Nat
      /\ ~refused' => \A q \in DOMAIN blocks : q + blocks[q] <= pages' * PAGE
  <2>1. pages * PAGE \in Nat /\ pages' * PAGE \in Nat /\ pages * PAGE <= pages' * PAGE
    BY <1>1, <1>2, <1>3, ProductMonotone
  <2>2. ~refused => \A q \in DOMAIN blocks : q + blocks[q] <= pages * PAGE
    BY DEF MallocInv, InMemory
  <2> QED
    BY <2>1, <2>2, <1>2, <1>4
<1>6. CASE status' # "running"
  <2>1. header' = header /\ blocks' = blocks
    BY <1>6 DEF Allocate
  <2>2. TypeOK'
    BY <2>1, <1>2, <1>4 DEF TypeOK, Counters
  <2>3. HeadersApart'
    BY <2>1, <1>4, <1>6 DEF HeadersApart
  <2>4. BlocksInHeaders'
    BY <2>1, <1>4 DEF BlocksInHeaders
  <2>5. InMemory'
    BY <2>1, <1>2, <1>5 DEF InMemory
  <2> QED
    BY <2>2, <2>3, <2>4, <2>5 DEF MallocInv
<1>7. CASE status' = "running"
  <2>1. /\ header' = With(header, p, sz)
        /\ blocks' = With([q \in DOMAIN blocks \ dead |-> blocks[q]], p, sz)
    BY <1>7 DEF Allocate
  <2> HIDE DEF p
  <2>2. /\ DOMAIN header' = DOMAIN header \cup {p} /\ header'[p] = sz
        /\ \A q \in DOMAIN header : q # p => header'[q] = header[q]
    BY <2>1 DEF With
  <2>3. /\ DOMAIN blocks' = (DOMAIN blocks \ dead) \cup {p} /\ blocks'[p] = sz
        /\ \A q \in DOMAIN blocks \ dead : q # p => blocks'[q] = blocks[q]
    BY <2>1 DEF With
  <2>4. last_ptr' = NewEnd(sz) /\ p + sz <= last_ptr'
    <3>1. last_ptr <= MaxPages * PAGE
      BY <1>1, <1>2, <1>3, <1>7
    <3> QED
      BY <3>1, <1>1, <1>3, NewEndBounds DEF Allocate, p
  <2>5. \A q \in DOMAIN header : q < p /\ q # p
    BY <1>1, <1>3, <1>4 DEF p
  <2>6. TypeOK'
    BY <2>2, <2>3, <1>1, <1>2, <1>3, <1>4 DEF TypeOK, Counters
  <2>7. HeadersApart'
    <3>1. ASSUME NEW q \in DOMAIN header' PROVE q + header'[q] <= last_ptr'
      BY <2>2, <2>4, <2>5, <1>1, <1>3, <1>4 DEF p
    <3>2. ASSUME NEW q \in DOMAIN header', NEW r \in DOMAIN header', q < r
          PROVE q + header'[q] <= r - ALIGN
      <4>1. CASE r = p
        BY <4>1, <3>2, <2>2, <2>5, <1>1, <1>3, <1>4 DEF p
      <4>2. CASE r # p
        BY <4>2, <3>2, <2>2, <2>5, <1>1, <1>3, <1>4
      <4> QED
        BY <4>1, <4>2
    <3> QED
      BY <3>1, <3>2 DEF HeadersApart
  <2>8. BlocksInHeaders'
    BY <2>2, <2>3, <1>1, <1>4 DEF BlocksInHeaders
  <2>9. InMemory'
    <3>1. ASSUME ~refused', NEW q \in DOMAIN blocks' PROVE q + blocks'[q] <= pages' * PAGE
      <4>1. CASE q = p
        <5>1. last_ptr' <= pages' * PAGE
          BY <3>1, <1>2
        <5>2. p + sz <= pages' * PAGE
          <6> DEFINE top == pages' * PAGE
          <6>1. /\ p \in Nat /\ sz \in Nat /\ last_ptr' \in Nat /\ top \in Nat
                /\ p + sz <= last_ptr' /\ last_ptr' <= top
            BY <5>1, <2>4, <1>1, <1>3, <1>5
          <6> HIDE DEF top
          <6>2. p + sz <= top
            BY <6>1
          <6> QED
            BY <6>2 DEF top
        <5> QED
          BY <5>2, <4>1, <2>3
      <4>2. CASE q # p
        BY <4>2, <3>1, <2>3, <1>5
      <4> QED
        BY <4>1, <4>2
    <3> QED
      BY <3>1, <1>2 DEF InMemory
  <2> QED
    BY <2>6, <2>7, <2>8, <2>9 DEF MallocInv
<1> QED
  BY <1>6, <1>7

\* Every step keeps the inductive invariant.
LEMMA StepMallocInv == MallocInv /\ [Next]_vars => MallocInv'
<1> SUFFICES ASSUME MallocInv, [Next]_vars PROVE MallocInv'
  OBVIOUS
<1>1. CASE Restart
  <2>1. last_ptr' \in 0 .. WORD - 1 /\ last_ptr' <= StartPages * PAGE
    BY <1>1, FreshInstance DEF Restart
  <2>2. DOMAIN blocks' = {} /\ DOMAIN header' = {}
    BY <1>1 DEF Restart, NoBlocks
  <2>3. StartPages \in StartPages .. MaxPages /\ StartPages \in Nat
    BY MemoryAssumption
  <2> QED
    BY <2>1, <2>2, <2>3, <1>1
    DEF Restart, MallocInv, TypeOK, HeadersApart, BlocksInHeaders, InMemory
<1>2. ASSUME UNCHANGED vars PROVE MallocInv'
  BY <1>2 DEF vars, MallocInv, TypeOK, HeadersApart, BlocksInHeaders, InMemory
<1>3. ASSUME NEW sz \in Sizes, malloc(sz) PROVE MallocInv'
  <2>1. CASE sz = 0
    BY <2>1, <1>2, <1>3 DEF malloc
  <2>2. CASE sz # 0
    <3>1. Fits(sz)
      BY <2>2, RequestFits
    <3> QED
      BY <3>1, <2>2, <1>3, AllocateKeepsInv DEF malloc
  <2> QED
    BY <2>1, <2>2
<1>4. ASSUME NEW sz \in Sizes, NEW count \in Counts, calloc(count, sz) PROVE MallocInv'
  <2> DEFINE total == (count * sz) % WORD
  <2>1. CASE total = 0
    BY <2>1, <1>2, <1>4 DEF calloc
  <2>2. CASE total # 0
    <3>1. Fits(total)
      BY <2>2, RequestFits
    <3>2. status = "running" /\ Allocate(total, total, {})
      BY <2>2, <1>4 DEF calloc
    <3> QED
      BY <3>1, <3>2, AllocateKeepsInv
  <2> QED
    BY <2>1, <2>2
<1>5. ASSUME NEW p \in DOMAIN blocks, NEW sz \in Sizes, realloc(p, sz) PROVE MallocInv'
  <2>1. CASE sz = 0
    BY <2>1, <1>2, <1>5 DEF realloc
  <2>2. CASE sz # 0 /\ sz <= header[p]
    <3>1. /\ blocks' = [blocks EXCEPT ![p] = sz]
          /\ UNCHANGED <<last_ptr, next_page, pages, header, refused, status>>
          /\ status = "running"
      BY <2>2, <1>5 DEF realloc
    <3>2. DOMAIN blocks' = DOMAIN blocks /\ blocks'[p] = sz
          /\ \A q \in DOMAIN blocks : q # p => blocks'[q] = blocks[q]
      BY <3>1
    <3>3. sz \in Nat \ {0} /\ p \in DOMAIN header
      BY <2>2, MemoryAssumption DEF MallocInv, TypeOK
    <3>4. TypeOK'
      BY <3>1, <3>2, <3>3 DEF MallocInv, TypeOK
    <3>5. HeadersApart'
      BY <3>1 DEF MallocInv, HeadersApart
    <3>6. BlocksInHeaders'
      BY <3>1, <3>2, <2>2 DEF MallocInv, BlocksInHeaders
    <3>7. InMemory'
      <4>1. /\ \A q \in DOMAIN header : /\ q \in Nat /\ header[q] \in Nat
                                      /\ q + header[q] <= last_ptr
            /\ last_ptr \in Int /\ WORD \in Nat
            /\ StartPages \in Nat /\ pages \in Nat /\ PAGE \in Nat
        BY <3>1, MemoryAssumption DEF MallocInv, TypeOK, HeadersApart
      <4>2. pages * PAGE \in Nat
        BY <4>1, ProductMonotone
      <4>3. ~refused => p + sz <= pages * PAGE
        BY <4>1, <4>2, <3>3, <2>2 DEF MallocInv, InMemory
      <4> QED
        BY <4>3, <3>1, <3>2 DEF MallocInv, InMemory
    <3> QED
      BY <3>4, <3>5, <3>6, <3>7 DEF MallocInv
  <2>3. CASE sz # 0 /\ ~(sz <= header[p])
    <3>1. Fits(sz)
      BY <2>3, RequestFits
    <3>2. status = "running" /\ Allocate(sz, header[p], {p})
      BY <2>3, <1>5 DEF realloc
    <3> QED
      BY <3>1, <3>2, AllocateKeepsInv
  <2> QED
    BY <2>1, <2>2, <2>3
<1>6. ASSUME NEW p \in DOMAIN blocks, free(p) PROVE MallocInv'
  BY <1>6 DEF free, MallocInv, TypeOK, HeadersApart, BlocksInHeaders, InMemory
<1> QED
  BY <1>1, <1>2, <1>3, <1>4, <1>5, <1>6 DEF Next

\* The members of the allocator keep their types, and the pages held stay
\* between the module's and the host's limits.
THEOREM MallocTypeCorrect == Spec => []TypeOK
<1>1. Spec => []MallocInv
  BY InitMallocInv, StepMallocInv, PTL DEF Spec
<1> QED
  BY <1>1, PTL DEF MallocInv

\* No two blocks in use ever overlap each other or each other's headers, for
\* malloc, calloc and both branches of realloc, also after a refused
\* memory.grow, which dsmalloc does not notice.
THEOREM BlocksDisjoint == Spec => []Disjoint
<1>1. Spec => []MallocInv
  BY InitMallocInv, StepMallocInv, PTL DEF Spec
<1> QED
  BY <1>1, HeadersSeparateBlocks, PTL

\* Until the host refuses to grow the memory, dsmalloc's count of the pages is
\* right and every block it hands out lies in the memory.
THEOREM BlocksInMemory == Spec => []InMemory
<1>1. Spec => []MallocInv
  BY InitMallocInv, StepMallocInv, PTL DEF Spec
<1> QED
  BY <1>1, PTL DEF MallocInv
=============================================================================
