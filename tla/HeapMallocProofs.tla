-------------------------- MODULE HeapMallocProofs --------------------------
(***************************************************************************)
(* Proofs about malloc/malloc.cpp for every size of headers, blocks, pages *)
(* and of the initial heap, and every sequence of calls: the headers of    *)
(* every heap stay consistent with the blocks in use, no two blocks        *)
(* overlap, _available_heaps is never indexed past its end, and a block is *)
(* refused only when no free memory would hold it.                         *)
(*                                                                         *)
(* In this order: multiples of a block, what consistent headers are, what  *)
(* the operations of memory do to them, where merge_contiguous stops, the  *)
(* inductive invariant, the chunks in use, the search, all heaps, a lemma  *)
(* for each step, the theorems.                                            *)
(***************************************************************************)
EXTENDS HeapMalloc, NaturalsInduction, WellFoundedInduction, TLAPS

\* x is a number of whole blocks.
Multiple(x) == x % BLOCK = 0

\* A multiple has a quotient, and what has one is a multiple.
LEMMA HasQuotient ==
  ASSUME NEW a \in Int, NEW b \in Int, b > 0, a % b = 0
  PROVE  \E k \in Int : a = k * b
  OBVIOUS

LEMMA OfQuotient ==
  ASSUME NEW k \in Int, NEW b \in Int, b > 0
  PROVE  (k * b) % b = 0 /\ (k * b + b - 1) \div b = k
  OBVIOUS

\* Sums and differences of multiples are multiples, and a positive one is no less
\* than the unit.
LEMMA ModSum ==
  ASSUME NEW a \in Int, NEW c \in Int, NEW b \in Int, b > 0, a % b = 0, c % b = 0
  PROVE  (a + c) % b = 0 /\ (a - c) % b = 0 /\ (a > 0 => a >= b)
<1>1. PICK k \in Int : a = k * b
  BY HasQuotient
<1>2. PICK j \in Int : c = j * b
  BY HasQuotient
<1> DEFINE s == k + j
           d == k - j
<1>3. s \in Int /\ d \in Int
  OBVIOUS
<1>4. a + c = s * b /\ a - c = d * b
  BY ONLY k \in Int, j \in Int, b \in Int, <1>1, <1>2
<1> HIDE DEF s, d
<1>5. (s * b) % b = 0 /\ (d * b) % b = 0
  BY ONLY <1>3, OfQuotient, b \in Int, b > 0
<1>6. a > 0 => k >= 1
  BY ONLY <1>1, k \in Int, b \in Int, b > 0
<1>7. a > 0 => a >= b
  BY ONLY <1>6, <1>1, k \in Int, b \in Int, b > 0
<1> QED
  BY ONLY <1>4, <1>5, <1>7

\* The types of the constants.
LEMMA Constants ==
  /\ MARK \in Int /\ MARK > 0 /\ BLOCK \in Int /\ BLOCK > MARK /\ BLOCK % MARK = 0
  /\ PAGE \in Int /\ PAGE > 0 /\ Multiple(PAGE)
  /\ INITIAL \in Int /\ INITIAL > 0 /\ Multiple(INITIAL)
  /\ HEAPS \in Int /\ HEAPS >= 2
  /\ StartPages \in Nat /\ MaxPages \in Nat /\ StartPages <= MaxPages
  /\ SLACK \in 1 .. PAGE
  BY HeapAssumption DEF Multiple

LEMMA MultipleSum ==
  ASSUME NEW x \in Int, NEW y \in Int, Multiple(x), Multiple(y)
  PROVE  Multiple(x + y) /\ Multiple(x - y)
<1>1. BLOCK \in Int /\ BLOCK > 0
  BY Constants
<1> QED
  BY <1>1, ModSum DEF Multiple

LEMMA MultiplePositive ==
  ASSUME NEW x \in Int, Multiple(x), x > 0
  PROVE  x >= BLOCK
<1>1. BLOCK \in Int /\ BLOCK > 0
  BY Constants
<1> QED
  BY <1>1, ModSum DEF Multiple

LEMMA MultipleZero == Multiple(0)
<1>1. BLOCK \in Int /\ BLOCK > 0
  BY Constants
<1>2. (0 * BLOCK) % BLOCK = 0
  BY ONLY <1>1, OfQuotient, 0 \in Int
<1>3. 0 * BLOCK = 0
  BY ONLY <1>1
<1> QED
  BY <1>2, <1>3 DEF Multiple

\* adjust_to_mem_block rounds up to whole blocks.
LEMMA AdjustedFacts ==
  ASSUME NEW n \in Nat
  PROVE  /\ Adjusted(n) \in Nat /\ Adjusted(n) >= n
         /\ Multiple(Adjusted(n) + MARK)
<1>1. BLOCK \in Int /\ BLOCK > 0 /\ MARK \in Int /\ MARK > 0
  BY Constants
<1> DEFINE a == n + MARK
           r == a % BLOCK
<1>2. a \in Int
  BY <1>1
<1>3. r \in 0 .. BLOCK - 1
  BY ONLY <1>1, <1>2
<1>4. (a - r) % BLOCK = 0
  BY ONLY <1>1, <1>2
<1>5. Adjusted(n) = IF r > 0 THEN n + BLOCK - r ELSE n
  BY DEF Adjusted
<1> HIDE DEF r
<1>6. (BLOCK % BLOCK) = 0
  BY ONLY <1>1
<1>7. ((a - r) + BLOCK) % BLOCK = 0
  BY ONLY <1>1, <1>2, <1>3, <1>4, <1>6, ModSum, a - r \in Int
<1>8. CASE r > 0
  <2>1. Adjusted(n) + MARK = (a - r) + BLOCK
    BY <1>8, <1>5, <1>1, <1>3
  <2> QED
    BY <1>8, <1>5, <1>1, <1>3, <1>7, <2>1 DEF Multiple
<1>9. CASE r = 0
  <2>1. Adjusted(n) + MARK = a - r
    BY <1>9, <1>5, <1>1, <1>3
  <2> QED
    BY <1>9, <1>5, <1>1, <1>3, <1>4, <2>1 DEF Multiple
<1> QED
  BY <1>3, <1>8, <1>9

\* The memory in use ends with a page, so that next_active_heap asks for one page
\* and sbrk gets it if the host grants it.
LEMMA SbrkFacts ==
  ASSUME pages \in StartPages .. MaxPages, sbrk_bytes = pages * PAGE
  PROVE  /\ HeapAdj(sbrk_bytes) = PAGE
         /\ sbrk(PAGE) = IF pages = MaxPages
                         THEN [at |-> Failed, bytes |-> sbrk_bytes, pages |-> pages]
                         ELSE [at |-> sbrk_bytes, bytes |-> sbrk_bytes + PAGE,
                               pages |-> pages + 1]
<1>1. /\ BLOCK \in Int /\ BLOCK > 0 /\ PAGE \in Int /\ PAGE > 0 /\ PAGE % BLOCK = 0
      /\ SLACK \in 1 .. PAGE /\ pages \in Nat /\ MaxPages \in Nat /\ pages <= MaxPages
  BY Constants DEF Multiple
<1>2. (pages * PAGE) % PAGE = 0
  BY ONLY <1>1, OfQuotient
<1>3. HeapAdj(sbrk_bytes) = PAGE
  <2> DEFINE r == (pages * PAGE) % PAGE
  <2>1. r = 0
    BY <1>2
  <2>2. HeapAdj(sbrk_bytes) = IF r <= PAGE - SLACK THEN PAGE - r
                              ELSE 2 * PAGE - ((pages * PAGE) % (2 * PAGE))
    BY DEF HeapAdj
  <2> HIDE DEF r
  <2> QED
    BY <2>1, <2>2, <1>1
<1>4. PICK j \in Int : PAGE = j * BLOCK
  BY <1>1, HasQuotient
<1> DEFINE g == (PAGE + BLOCK - 1) \div BLOCK
           end == sbrk_bytes + g * BLOCK
           desired == (end + PAGE - 1) \div PAGE
<1>5. g = j
  BY ONLY <1>1, <1>4, OfQuotient
<1> HIDE DEF g
<1>6. g * BLOCK = PAGE
  BY ONLY <1>5, <1>4
<1> DEFINE p1 == pages + 1
<1>7. end = p1 * PAGE /\ end = sbrk_bytes + PAGE
  BY <1>1, <1>6
<1> HIDE DEF end
<1>7a. p1 \in Int
  BY <1>1
<1> HIDE DEF p1
<1>8. desired = p1
  BY ONLY <1>1, <1>7, <1>7a, OfQuotient
<1> HIDE DEF desired
<1>9. sbrk(PAGE) = IF desired > pages /\ desired > MaxPages
                   THEN [at |-> Failed, bytes |-> sbrk_bytes, pages |-> pages]
                   ELSE [at |-> sbrk_bytes, bytes |-> end,
                         pages |-> IF desired > pages THEN desired ELSE pages]
  BY DEF sbrk, desired, end, g
<1>10. desired > pages /\ (desired > MaxPages <=> pages = MaxPages) /\ desired = pages + 1
  BY <1>8, <1>1 DEF p1
<1> QED
  BY <1>3, <1>9, <1>10, <1>7

-----------------------------------------------------------------------------
\* One heap.

\* A chunk is made of whole blocks, counted from the start of its heap.
ChunkOK(h, p) ==
  /\ p \in Int /\ h.start + MARK <= p /\ Multiple(p - h.start - MARK)
  /\ h.chunks[p].size \in Nat /\ Multiple(h.chunks[p].size + MARK)
  /\ h.chunks[p].alloc \in BOOLEAN
  /\ End(h, p) <= CutEnd(h)

\* Another chunk or _offset is behind it, and the start of the heap or another
\* chunk before it.
Linked(h, p) ==
  /\ End(h, p) = CutEnd(h) \/ End(h, p) + MARK \in DOMAIN h.chunks
  /\ p = h.start + MARK \/ \E r \in DOMAIN h.chunks : End(h, r) + MARK = p

Apart(h) ==
  \A p, q \in DOMAIN h.chunks : p < q => End(h, p) + MARK <= q

Ended(h) ==
  h.offset > 0 =>
    /\ h.start + MARK \in DOMAIN h.chunks
    /\ \E q \in DOMAIN h.chunks : End(h, q) = CutEnd(h)

HeapTypes(h) ==
  /\ h.start \in Nat \ {0} /\ h.size \in Nat \ {0} /\ h.offset \in Nat
  /\ h.offset <= h.size /\ Multiple(h.size) /\ Multiple(h.offset)

\* The headers of a heap are consistent.
HeapOK(h) ==
  /\ HeapTypes(h)
  /\ \A p \in DOMAIN h.chunks : ChunkOK(h, p) /\ Linked(h, p)
  /\ Apart(h)
  /\ Ended(h)

\* A chunk has some bytes, and it ends after whole blocks.
LEMMA ChunkFacts ==
  ASSUME NEW h, HeapOK(h), NEW p \in DOMAIN h.chunks
  PROVE  /\ p \in Int /\ h.start \in Int /\ h.start + MARK <= p
         /\ h.chunks[p].size \in Nat /\ h.chunks[p].size > 0
         /\ h.chunks[p].alloc \in BOOLEAN
         /\ End(h, p) \in Int /\ p < End(h, p) /\ End(h, p) <= CutEnd(h)
         /\ CutEnd(h) \in Int /\ HeapEnd(h) \in Int /\ CutEnd(h) <= HeapEnd(h)
         /\ Multiple(End(h, p) - h.start) /\ Multiple(p - h.start - MARK)
<1>1. ChunkOK(h, p) /\ HeapTypes(h)
  BY DEF HeapOK
<1>2. MARK \in Int /\ MARK > 0 /\ BLOCK \in Int /\ BLOCK > MARK
  BY Constants
<1> DEFINE s == h.chunks[p].size
           a == s + MARK
           d == p - h.start - MARK
<1>3. /\ s \in Nat /\ p \in Int /\ h.start \in Int /\ h.offset \in Int /\ h.size \in Int
      /\ Multiple(a) /\ Multiple(d) /\ End(h, p) = p + s
  BY <1>1 DEF ChunkOK, HeapTypes, End
<1> HIDE DEF s
<1>4. a \in Int /\ d \in Int /\ a > 0
  BY <1>2, <1>3
<1>5. End(h, p) - h.start = d + a
  BY <1>2, <1>3
<1> HIDE DEF a, d
<1>6. Multiple(d + a) /\ a >= BLOCK
  BY <1>3, <1>4, MultipleSum, MultiplePositive
<1>7. s > 0
  BY <1>6, <1>2, <1>3 DEF a
<1>8. Multiple(d) /\ d = p - h.start - MARK
  BY <1>3 DEF d
<1> QED
  BY <1>1, <1>2, <1>3, <1>5, <1>6, <1>7, <1>8
     DEF ChunkOK, HeapTypes, CutEnd, HeapEnd, s

\* The heap from which a chunk was cut off.
LEMMA CutFacts ==
  ASSUME NEW h, HeapOK(h), NEW n \in Nat, NEW a \in BOOLEAN
  PROVE  LET g == Cut(h, n, a)
             c == CutEnd(h) + MARK
         IN /\ c \in Int /\ c \notin DOMAIN h.chunks
            /\ g.start = h.start /\ g.size = h.size /\ g.offset = h.offset + n + MARK
            /\ DOMAIN g.chunks = DOMAIN h.chunks \cup {c}
            /\ g.chunks[c].size = n /\ g.chunks[c].alloc = a
            /\ \A q \in DOMAIN h.chunks : g.chunks[q] = h.chunks[q] /\ q < c
<1> DEFINE g == Cut(h, n, a)
           c == CutEnd(h) + MARK
<1>1. /\ h.start \in Int /\ h.offset \in Int /\ MARK \in Int /\ MARK > 0
  BY Constants DEF HeapOK, HeapTypes
<1>2. c \in Int
  BY <1>1 DEF CutEnd
<1>3. \A q \in DOMAIN h.chunks : q < c
  <2> TAKE q \in DOMAIN h.chunks
  <2>1. q \in Int /\ End(h, q) \in Int /\ q < End(h, q) /\ End(h, q) <= CutEnd(h) /\ CutEnd(h) \in Int
    BY ChunkFacts
  <2> QED
    BY <2>1, <1>1
<1>4. c \notin DOMAIN h.chunks
  BY <1>2, <1>3
<1>5. /\ g.start = h.start /\ g.size = h.size /\ g.offset = h.offset + n + MARK
      /\ g.chunks = Put(h.chunks, c, Chunk(n, a))
  BY DEF Cut, Heap
<1>6. Chunk(n, a).size = n /\ Chunk(n, a).alloc = a
  BY DEF Chunk
<1> HIDE DEF g, c
<1>7. /\ DOMAIN g.chunks = DOMAIN h.chunks \cup {c} /\ g.chunks[c] = Chunk(n, a)
      /\ \A q \in DOMAIN h.chunks : g.chunks[q] = h.chunks[q]
  BY <1>4, <1>5 DEF Put
<1> QED
  BY <1>2, <1>3, <1>4, <1>5, <1>6, <1>7 DEF g, c

LEMMA CutOK ==
  ASSUME NEW h, HeapOK(h), NEW n \in Nat, NEW a \in BOOLEAN,
         Multiple(n + MARK), h.offset + n + MARK <= h.size
  PROVE  HeapOK(Cut(h, n, a))
<1> DEFINE g == Cut(h, n, a)
           c == CutEnd(h) + MARK
<1>1. /\ c \in Int /\ c \notin DOMAIN h.chunks
      /\ g.start = h.start /\ g.size = h.size /\ g.offset = h.offset + n + MARK
      /\ DOMAIN g.chunks = DOMAIN h.chunks \cup {c}
      /\ g.chunks[c].size = n /\ g.chunks[c].alloc = a
      /\ \A q \in DOMAIN h.chunks : g.chunks[q] = h.chunks[q] /\ q < c
  BY CutFacts
<1>2. /\ MARK \in Int /\ MARK > 0 /\ HeapTypes(h) /\ Apart(h) /\ Ended(h)
      /\ \A p \in DOMAIN h.chunks : ChunkOK(h, p) /\ Linked(h, p)
  BY Constants DEF HeapOK
<1>3. /\ h.start \in Nat \ {0} /\ h.size \in Nat \ {0} /\ h.offset \in Nat
      /\ Multiple(h.offset) /\ Multiple(h.size) /\ CutEnd(h) = h.start + h.offset
      /\ c = CutEnd(h) + MARK
  BY <1>2 DEF HeapTypes, CutEnd
<1> HIDE DEF g, c
<1>4. Multiple(g.offset) /\ g.offset \in Nat /\ g.offset > 0
  <2> DEFINE b == n + MARK
  <2>1. b \in Int /\ Multiple(b) /\ g.offset = h.offset + b /\ b > 0
    BY <1>1, <1>2, <1>3
  <2> HIDE DEF b
  <2>2. h.offset \in Int /\ Multiple(h.offset)
    BY <1>3
  <2>3. Multiple(h.offset + b)
    BY ONLY <2>1, <2>2, MultipleSum
  <2> QED
    BY <2>1, <2>3, <1>3
<1>5. CutEnd(g) = CutEnd(h) + n + MARK /\ CutEnd(g) \in Int /\ CutEnd(h) \in Int
  BY <1>1, <1>2, <1>3 DEF CutEnd
<1>6. HeapTypes(g)
  BY <1>1, <1>3, <1>4 DEF HeapTypes
<1>7. \A q \in DOMAIN h.chunks : End(g, q) = End(h, q)
  BY <1>1 DEF End
<1>8. End(g, c) = c + n /\ End(g, c) = CutEnd(g)
  BY <1>1, <1>2, <1>3, <1>5 DEF End
<1>9. ChunkOK(g, c)
  <2>1. c - g.start - MARK = h.offset
    BY <1>1, <1>2, <1>3
  <2> QED
    BY <1>1, <1>2, <1>3, <1>5, <1>8, <2>1 DEF ChunkOK
<1>10. ASSUME NEW p \in DOMAIN h.chunks PROVE ChunkOK(g, p)
  <2>1. ChunkOK(h, p) /\ g.chunks[p] = h.chunks[p] /\ End(g, p) = End(h, p) /\ End(h, p) \in Int
    BY <1>1, <1>2, <1>7, ChunkFacts
  <2>2. End(g, p) <= CutEnd(g)
    BY <2>1, <1>2, <1>3, <1>5 DEF ChunkOK
  <2> QED
    BY <2>1, <2>2, <1>1 DEF ChunkOK
<1>11. Linked(g, c)
  <2>1. CASE h.offset = 0
    <3>1. c = g.start + MARK
      BY <2>1, <1>1, <1>3
    <3> QED
      BY <3>1, <1>8 DEF Linked
  <2>2. CASE h.offset > 0
    <3>1. PICK q \in DOMAIN h.chunks : End(h, q) = CutEnd(h)
      BY <2>2, <1>2 DEF Ended
    <3>2. End(g, q) + MARK = c /\ q \in DOMAIN g.chunks
      BY <3>1, <1>7, <1>1, <1>3
    <3> QED
      BY <3>2, <1>8 DEF Linked
  <2> QED
    BY <2>1, <2>2, <1>3
<1>12. ASSUME NEW p \in DOMAIN h.chunks PROVE Linked(g, p)
  <2>1. Linked(h, p) /\ End(g, p) = End(h, p)
    BY <1>2, <1>7
  <2>2. End(g, p) + MARK \in DOMAIN g.chunks
    BY <2>1, <1>1, <1>3 DEF Linked
  <2>3. p = g.start + MARK \/ \E r \in DOMAIN g.chunks : End(g, r) + MARK = p
    BY <2>1, <1>1, <1>7 DEF Linked
  <2> QED
    BY <2>2, <2>3 DEF Linked
<1>13. Apart(g)
  <2> SUFFICES ASSUME NEW p \in DOMAIN g.chunks, NEW q \in DOMAIN g.chunks, p < q
               PROVE  End(g, p) + MARK <= q
    BY DEF Apart
  <2>1. CASE p \in DOMAIN h.chunks /\ q \in DOMAIN h.chunks
    BY <2>1, <1>2, <1>7 DEF Apart
  <2>2. CASE p \in DOMAIN h.chunks /\ q = c
    <3>1. End(h, p) \in Int /\ End(h, p) <= CutEnd(h)
      BY <2>2, ChunkFacts
    <3> QED
      BY <2>2, <3>1, <1>7, <1>3, <1>2, <1>5
  <2>3. CASE p = c
    <3>1. q \in DOMAIN h.chunks \/ q = c
      BY <1>1
    <3>2. q \in DOMAIN h.chunks => q \in Int /\ q < c
      BY <1>1, ChunkFacts
    <3> QED
      BY <2>3, <3>1, <3>2, <1>1
  <2> QED
    BY <2>1, <2>2, <2>3, <1>1
<1>14. Ended(g)
  <2>1. g.start + MARK \in DOMAIN g.chunks
    <3>1. CASE h.offset = 0
      BY <3>1, <1>1, <1>3
    <3>2. CASE h.offset > 0
      BY <3>2, <1>1, <1>2 DEF Ended
    <3> QED
      BY <3>1, <3>2, <1>3
  <2> QED
    BY <2>1, <1>1, <1>8 DEF Ended
<1>15. HeapOK(g)
  BY <1>1, <1>6, <1>9, <1>10, <1>11, <1>12, <1>13, <1>14 DEF HeapOK
<1> QED
  BY <1>15 DEF g

\* memory::cleanup_remaining: the heap is full afterwards, and what was in use is.
LEMMA CleanupFacts ==
  ASSUME NEW h, HeapOK(h)
  PROVE  LET g == cleanup_remaining(h)
         IN /\ HeapOK(g) /\ g.offset = g.size /\ g.start = h.start /\ g.size = h.size
            /\ \A q \in DOMAIN h.chunks : q \in DOMAIN g.chunks /\ g.chunks[q] = h.chunks[q]
            /\ \A q \in DOMAIN g.chunks : g.chunks[q].alloc => q \in DOMAIN h.chunks
<1> DEFINE g == cleanup_remaining(h)
           n == h.size - h.offset - MARK
           b == h.size - h.offset
<1>1. /\ h.size \in Int /\ h.offset \in Int /\ h.offset <= h.size
      /\ Multiple(h.size) /\ Multiple(h.offset)
      /\ MARK \in Int /\ MARK > 0 /\ BLOCK \in Int /\ BLOCK > MARK
  BY Constants DEF HeapOK, HeapTypes
<1>2. CASE h.offset = h.size
  <2>1. g = h
    BY <1>2 DEF cleanup_remaining
  <2> QED
    BY <2>1, <1>2
<1>3. CASE h.offset # h.size
  <2> DEFINE no == FALSE
  <2>1. g = Cut(h, n, no)
    BY <1>3 DEF cleanup_remaining
  <2>2. b \in Int /\ b > 0 /\ n + MARK = b /\ n = b - MARK
    BY <1>1, <1>3
  <2>3. Multiple(b)
    BY ONLY <1>1, MultipleSum
  <2> HIDE DEF b
  <2>4. b >= BLOCK
    BY ONLY <2>2, <2>3, MultiplePositive
  <2>5. /\ n \in Nat /\ Multiple(n + MARK) /\ h.offset + n + MARK = h.size
        /\ h.offset + n + MARK <= h.size
    BY <1>1, <2>2, <2>3, <2>4
  <2>5a. no \in BOOLEAN /\ ~no
    OBVIOUS
  <2> HIDE DEF n, g, no
  <2>6. HeapOK(g)
    BY <2>1, <2>5, <2>5a, CutOK
  <2>7. /\ g.start = h.start /\ g.size = h.size /\ g.offset = h.offset + n + MARK
        /\ DOMAIN g.chunks = DOMAIN h.chunks \cup {CutEnd(h) + MARK}
        /\ g.chunks[CutEnd(h) + MARK].alloc = no
        /\ \A q \in DOMAIN h.chunks : g.chunks[q] = h.chunks[q]
    BY <2>1, <2>5, <2>5a, CutFacts
  <2>8. \A q \in DOMAIN g.chunks : g.chunks[q].alloc => q \in DOMAIN h.chunks
    BY <2>7, <2>5a
  <2> QED
    BY <2>5, <2>6, <2>7, <2>8 DEF g
<1> QED
  BY <1>2, <1>3

\* Only the flags of the headers may differ.
LEMMA FlagsOK ==
  ASSUME NEW h, NEW g, HeapOK(h),
         g.start = h.start, g.size = h.size, g.offset = h.offset,
         DOMAIN g.chunks = DOMAIN h.chunks,
         \A q \in DOMAIN h.chunks :
           g.chunks[q].size = h.chunks[q].size /\ g.chunks[q].alloc \in BOOLEAN
  PROVE  HeapOK(g) /\ \A q \in DOMAIN h.chunks : End(g, q) = End(h, q)
<1>1. \A q \in DOMAIN h.chunks : End(g, q) = End(h, q)
  BY DEF End
<1>2. CutEnd(g) = CutEnd(h) /\ HeapTypes(g)
  BY DEF CutEnd, HeapOK, HeapTypes
<1>3. \A q \in DOMAIN g.chunks : ChunkOK(g, q)
  BY <1>1, <1>2 DEF HeapOK, ChunkOK
<1>4. \A q \in DOMAIN g.chunks : Linked(g, q)
  BY <1>1, <1>2 DEF HeapOK, Linked
<1>5. Apart(g)
  BY <1>1 DEF HeapOK, Apart
<1>6. Ended(g)
  BY <1>1, <1>2 DEF HeapOK, Ended
<1> QED
  BY <1>1, <1>2, <1>3, <1>4, <1>5, <1>6 DEF HeapOK

\* A flag is set.
LEMMA FlagFacts ==
  ASSUME NEW h, HeapOK(h), NEW p \in DOMAIN h.chunks,
         NEW c, c.size = h.chunks[p].size, c.alloc \in BOOLEAN,
         NEW g, g = WithChunks(h, Put(h.chunks, p, c))
  PROVE  /\ HeapOK(g)
         /\ g.start = h.start /\ g.size = h.size /\ g.offset = h.offset
         /\ DOMAIN g.chunks = DOMAIN h.chunks /\ g.chunks[p] = c
         /\ \A q \in DOMAIN h.chunks : q # p => g.chunks[q] = h.chunks[q]
<1>1. /\ g.start = h.start /\ g.size = h.size /\ g.offset = h.offset
      /\ g.chunks = Put(h.chunks, p, c)
  BY DEF WithChunks, Heap
<1>2. /\ DOMAIN g.chunks = DOMAIN h.chunks
      /\ g.chunks[p] = c
      /\ \A q \in DOMAIN h.chunks : q # p => g.chunks[q] = h.chunks[q]
  BY <1>1 DEF Put
<1>4. \A q \in DOMAIN h.chunks :
        g.chunks[q].size = h.chunks[q].size /\ g.chunks[q].alloc \in BOOLEAN
  <2> TAKE q \in DOMAIN h.chunks
  <2>1. h.chunks[q].alloc \in BOOLEAN
    BY ChunkFacts
  <2> QED
    BY <2>1, <1>2
<1>5. HeapOK(g)
  BY <1>1, <1>2, <1>4, FlagsOK
<1> QED
  BY <1>1, <1>2, <1>5

\* memory::expand_memory.
LEMMA GrownOK ==
  ASSUME NEW h, HeapOK(h), NEW n \in Nat, Multiple(n)
  PROVE  HeapOK(Heap(h.start, h.size + n, h.offset, h.chunks))
<1> DEFINE g == Heap(h.start, h.size + n, h.offset, h.chunks)
<1>1. /\ g.start = h.start /\ g.size = h.size + n /\ g.offset = h.offset
      /\ g.chunks = h.chunks
  BY DEF Heap
<1>2. h.size \in Int /\ Multiple(h.size) /\ n \in Int
  BY DEF HeapOK, HeapTypes
<1>3. Multiple(h.size + n)
  BY ONLY <1>2, Multiple(n), MultipleSum
<1> HIDE DEF g
<1>4. HeapTypes(g)
  BY <1>1, <1>3 DEF HeapOK, HeapTypes
<1>5. CutEnd(g) = CutEnd(h) /\ \A q \in DOMAIN h.chunks : End(g, q) = End(h, q)
  BY <1>1 DEF End, CutEnd
<1>6. \A q \in DOMAIN g.chunks : ChunkOK(g, q) /\ Linked(g, q)
  BY <1>1, <1>5 DEF HeapOK, ChunkOK, Linked
<1>7. Apart(g) /\ Ended(g)
  BY <1>1, <1>5 DEF HeapOK, Apart, Ended
<1> QED
  BY <1>4, <1>6, <1>7 DEF HeapOK, g

\* A heap without chunks.
LEMMA NewHeapOK ==
  ASSUME NEW s \in Nat \ {0}, NEW n \in Nat \ {0}, Multiple(n)
  PROVE  /\ HeapOK(Heap(s, n, 0, Empty))
         /\ DOMAIN Heap(s, n, 0, Empty).chunks = {}
<1> DEFINE g == Heap(s, n, 0, Empty)
<1>1. g.start = s /\ g.size = n /\ g.offset = 0 /\ g.chunks = Empty
  BY DEF Heap
<1>2. DOMAIN g.chunks = {}
  BY <1>1 DEF Empty
<1> HIDE DEF g
<1>3. HeapTypes(g)
  BY <1>1, MultipleZero DEF HeapTypes
<1>4. Apart(g)
  BY <1>2 DEF Apart
<1>5. Ended(g)
  BY <1>1 DEF Ended
<1>6. HeapOK(g)
  BY ONLY <1>2, <1>3, <1>4, <1>5 DEF HeapOK
<1> QED
  BY ONLY <1>2, <1>6 DEF g

\* The last chunk grows.
LEMMA LastGrows ==
  ASSUME NEW h, HeapOK(h), NEW p \in DOMAIN h.chunks, End(h, p) = CutEnd(h),
         NEW n \in Nat, Multiple(n + MARK), h.chunks[p].size < n,
         p <= HeapEnd(h) - n,
         NEW g, g = Heap(h.start, h.size, h.offset + n - h.chunks[p].size,
                         Put(h.chunks, p, Chunk(n, h.chunks[p].alloc)))
  PROVE  /\ HeapOK(g)
         /\ g.start = h.start /\ g.size = h.size /\ g.offset > h.offset
         /\ DOMAIN g.chunks = DOMAIN h.chunks
         /\ g.chunks[p].alloc = h.chunks[p].alloc /\ g.chunks[p].size = n
         /\ \A q \in DOMAIN h.chunks : q # p => g.chunks[q] = h.chunks[q]
<1>0. g.start = h.start /\ g.size = h.size
  BY DEF Heap
<1>1. /\ g.start = h.start /\ g.size = h.size
      /\ g.offset = h.offset + n - h.chunks[p].size
      /\ g.chunks = Put(h.chunks, p, Chunk(n, h.chunks[p].alloc))
  BY DEF Heap
<1>2. /\ DOMAIN g.chunks = DOMAIN h.chunks
      /\ g.chunks[p] = Chunk(n, h.chunks[p].alloc)
      /\ \A q \in DOMAIN h.chunks : q # p => g.chunks[q] = h.chunks[q]
  BY <1>1 DEF Put
<1>3. g.chunks[p].alloc = h.chunks[p].alloc /\ g.chunks[p].size = n
  BY <1>2 DEF Chunk
<1>4. /\ p \in Int /\ h.chunks[p].size \in Nat /\ h.chunks[p].alloc \in BOOLEAN
      /\ h.start \in Nat \ {0} /\ h.size \in Nat \ {0} /\ h.offset \in Nat /\ h.start + MARK <= p
      /\ Multiple(p - h.start - MARK) /\ MARK \in Int /\ MARK > 0
      /\ Multiple(h.size)
  BY ChunkFacts, Constants DEF HeapOK, HeapTypes
<1>5. g.offset = p + n - h.start /\ CutEnd(g) = p + n /\ CutEnd(h) < p + n
  BY <1>1, <1>4 DEF CutEnd, End
<1>5a. g.offset \in Nat /\ h.offset < g.offset /\ g.offset <= g.size
  BY <1>1, <1>4, <1>5 DEF CutEnd, HeapEnd
<1>6. Multiple(g.offset)
  <2> DEFINE a == n + MARK
             d == p - h.start - MARK
  <2>1. a \in Int /\ d \in Int /\ Multiple(a) /\ Multiple(d) /\ g.offset = d + a
    BY <1>4, <1>5
  <2> HIDE DEF a, d
  <2> QED
    BY ONLY <2>1, MultipleSum
<1>7. HeapTypes(g)
  <2>1. g.start \in Nat \ {0} /\ g.size \in Nat \ {0} /\ Multiple(g.size)
    <3>1. h.start \in Nat \ {0} /\ h.size \in Nat \ {0} /\ Multiple(h.size)
      BY ONLY HeapOK(h), Zenon DEF HeapOK, HeapTypes
    <3> QED
      BY ONLY <3>1, <1>0
  <2> QED
    BY ONLY <2>1, <1>5a, <1>6 DEF HeapTypes
<1>8. End(g, p) = p + n /\ \A q \in DOMAIN h.chunks : q # p => End(g, q) = End(h, q)
  BY ONLY <1>2, <1>3 DEF End
<1>9. \A q \in DOMAIN h.chunks : q # p => q < p /\ q \in Int
  <2> SUFFICES ASSUME NEW q \in DOMAIN h.chunks, q # p, ~(q < p)
               PROVE  FALSE
    BY ChunkFacts
  <2>1. q \in Int /\ p \in Int /\ End(h, p) \in Int /\ End(h, q) \in Int
        /\ q < End(h, q) /\ End(h, q) <= CutEnd(h)
    BY ChunkFacts
  <2>2. End(h, p) + MARK <= q
    <3>1. p < q
      BY ONLY <2>1, q # p, ~(q < p)
    <3> QED
      BY <3>1 DEF HeapOK, Apart
  <2>3. MARK \in Int /\ MARK > 0 /\ End(h, p) = CutEnd(h)
    BY <1>4
  <2> QED
    BY ONLY <2>1, <2>2, <2>3
<1>10. \A q \in DOMAIN g.chunks : ChunkOK(g, q)
  <2> SUFFICES ASSUME NEW q \in DOMAIN h.chunks PROVE ChunkOK(g, q)
    BY <1>2
  <2>1. CASE q = p
    <3>1. n \in Nat /\ Multiple(n + MARK) /\ p + n \in Int
      BY <1>4
    <3>2. End(g, p) <= CutEnd(g)
      BY ONLY <3>1, <1>5, <1>8
    <3> QED
      BY ONLY <2>1, <3>1, <3>2, <1>1, <1>3, <1>4 DEF ChunkOK
  <2>2. CASE q # p
    <3>1. ChunkOK(h, q) /\ End(h, q) \in Int /\ End(h, q) <= CutEnd(h) /\ CutEnd(h) \in Int
      BY ChunkFacts DEF HeapOK
    <3>2. End(g, q) <= CutEnd(g)
      BY <3>1, <2>2, <1>8, <1>5, <1>4
    <3> QED
      BY <3>1, <3>2, <2>2, <1>1, <1>2 DEF ChunkOK
  <2> QED
    BY <2>1, <2>2
<1>11. \A q \in DOMAIN g.chunks : Linked(g, q)
  <2> SUFFICES ASSUME NEW q \in DOMAIN h.chunks PROVE Linked(g, q)
    BY <1>2
  <2>1. q = g.start + MARK \/ \E r \in DOMAIN g.chunks : End(g, r) + MARK = q
    <3>1. CASE \E r \in DOMAIN h.chunks : End(h, r) + MARK = q
      <4>1. PICK r \in DOMAIN h.chunks : End(h, r) + MARK = q
        BY <3>1
      <4>2. r # p
        <5>1. r \in Int /\ End(h, r) \in Int /\ r < End(h, r) /\ q \in Int
          BY ChunkFacts
        <5>2. r < q
          BY <4>1, <5>1, <1>4
        <5> QED
          BY <5>1, <5>2, <1>9, <1>4
      <4> QED
        BY <4>1, <4>2, <1>2, <1>8
    <3>2. q = h.start + MARK \/ \E r \in DOMAIN h.chunks : End(h, r) + MARK = q
      BY DEF HeapOK, Linked
    <3> QED
      BY <3>1, <3>2, <1>1
  <2>2. End(g, q) = CutEnd(g) \/ End(g, q) + MARK \in DOMAIN g.chunks
    <3>1. CASE q = p
      BY <3>1, <1>5, <1>8
    <3>2. CASE q # p
      <4>1. q < p /\ End(h, q) + MARK <= p /\ End(g, q) = End(h, q)
        BY <3>2, <1>9, <1>8 DEF HeapOK, Apart
      <4>2. End(h, q) # CutEnd(h)
        <5>1. p < CutEnd(h) /\ End(h, q) \in Int /\ CutEnd(h) \in Int
          BY ChunkFacts
        <5> QED
          BY <4>1, <5>1, <1>4
      <4>3. End(h, q) + MARK \in DOMAIN h.chunks
        BY <4>2 DEF HeapOK, Linked
      <4> QED
        BY <4>1, <4>3, <1>2
    <3> QED
      BY <3>1, <3>2
  <2> QED
    BY <2>1, <2>2 DEF Linked
<1>12. Apart(g)
  <2> SUFFICES ASSUME NEW r \in DOMAIN h.chunks, NEW q \in DOMAIN h.chunks, r < q
               PROVE  End(g, r) + MARK <= q
    BY <1>2 DEF Apart
  <2>1. r # p
    <3>1. (q = p) \/ (q < p /\ q \in Int)
      BY <1>9, Zenon
    <3> QED
      BY <3>1, <1>4
  <2> QED
    BY <2>1, <1>8 DEF HeapOK, Apart
<1>13. Ended(g)
  <2>1. g.start + MARK \in DOMAIN g.chunks
    <3>1. h.offset > 0
      <4>1. CutEnd(h) \in Int /\ p < CutEnd(h) /\ h.start + MARK <= p
        BY ChunkFacts
      <4> QED
        BY <4>1, <1>4 DEF CutEnd
    <3> QED
      BY <3>1, <1>1, <1>2 DEF HeapOK, Ended
  <2> QED
    BY <2>1, <1>2, <1>5, <1>8 DEF Ended
<1>14. HeapOK(g)
  BY <1>7, <1>10, <1>11, <1>12, <1>13 DEF HeapOK
<1> QED
  BY ONLY <1>1, <1>2, <1>3, <1>5a, <1>14, Zenon

-----------------------------------------------------------------------------
\* merge_contiguous.

\* Every set of natural numbers that is not empty has a least element.
LEMMA LeastNatural ==
  ASSUME NEW S \in SUBSET Nat, S # {}
  PROVE \E x \in S : \A y \in S : x <= y
<1> DEFINE R == OpToRel(<, Nat)
<1>1. IsWellFoundedOn(R, Nat)
  BY NatLessThanWellFounded, Zenon
<1>2. R = {ss \in Nat \X Nat : ss[1] < ss[2]}
  BY DEF OpToRel
<1> HIDE DEF R
<1>3. PICK x \in S : \A y \in S : ~(<<y, x>> \in R)
  BY <1>1, WFMin
<1>4. \A y \in S : ~(y < x)
  BY <1>2, <1>3
<1> QED
  BY <1>4

\* Whole blocks are whole headers.
LEMMA MultipleOfMark ==
  ASSUME NEW x \in Int, Multiple(x)
  PROVE  x % MARK = 0
<1>1. BLOCK \in Int /\ BLOCK > 0 /\ MARK \in Int /\ MARK > 0 /\ BLOCK % MARK = 0
  BY Constants
<1>2. PICK k \in Int : x = k * BLOCK
  BY <1>1, HasQuotient DEF Multiple
<1>3. PICK j \in Int : BLOCK = j * MARK
  BY <1>1, HasQuotient
<1> DEFINE i == k * j
<1>4. i \in Int /\ x = i * MARK
  <2>1. MARK \in Int
    BY <1>1
  <2>2. i \in Int
    BY ONLY k \in Int, j \in Int
  <2>3. k * (j * MARK) = (k * j) * MARK
    BY ONLY k \in Int, j \in Int, <2>1
  <2> QED
    BY ONLY <1>2, <1>3, <2>2, <2>3
<1> HIDE DEF i
<1> QED
  BY ONLY <1>1, <1>4, OfQuotient

\* The end of a heap is one of the places where the loop can arrive.
LEMMA EndsFacts ==
  ASSUME NEW h, HeapOK(h), NEW p \in DOMAIN h.chunks
  PROVE  /\ Ends(h, p) \subseteq Nat /\ HeapEnd(h) \in Ends(h, p)
         /\ \A e \in Ends(h, p) : e >= End(h, p)
<1>1. /\ h.start \in Nat /\ h.size \in Nat /\ h.offset \in Nat /\ h.offset <= h.size
      /\ Multiple(h.size) /\ Multiple(h.offset) /\ MARK \in Int /\ MARK > 0
  BY Constants DEF HeapOK, HeapTypes
<1>2. CutEnd(h) \in Nat /\ HeapEnd(h) \in Nat /\ CutEnd(h) <= HeapEnd(h)
  BY <1>1 DEF CutEnd, HeapEnd
<1>3. p \in Int /\ End(h, p) \in Int /\ p < End(h, p) /\ End(h, p) <= CutEnd(h)
  BY ChunkFacts
<1>4. ASSUME NEW r \in DOMAIN h.chunks, r >= p
      PROVE  End(h, r) \in Nat /\ End(h, r) >= End(h, p)
  <2>1. r \in Int /\ End(h, r) \in Int /\ h.start + MARK <= r /\ r < End(h, r)
    BY ChunkFacts
  <2>2. p < r => End(h, p) + MARK <= r
    BY DEF HeapOK, Apart
  <2>3. r = p \/ p < r
    BY <1>4, <2>1, <1>3
  <2> QED
    BY <2>1, <2>2, <2>3, <1>1, <1>3
<1>5. ASSUME NEW e \in Ends(h, p)
      PROVE  e \in Nat /\ e >= End(h, p)
  <2>1. CASE e \in {End(h, q) : q \in {r \in DOMAIN h.chunks : r >= p}}
    BY <2>1, <1>4
  <2>2. CASE e \in CutEnd(h) .. HeapEnd(h)
    BY <2>2, <1>2, <1>3
  <2> QED
    BY <2>1, <2>2 DEF Ends
<1>6. (HeapEnd(h) - CutEnd(h)) % MARK = 0
  <2>1. HeapEnd(h) - CutEnd(h) = h.size - h.offset
    BY <1>1 DEF HeapEnd, CutEnd
  <2>2. h.size \in Int /\ h.offset \in Int
    BY <1>1
  <2>3. Multiple(h.size - h.offset)
    BY ONLY <1>1, <2>2, MultipleSum
  <2>4. h.size - h.offset \in Int
    BY ONLY <2>2
  <2>5. (h.size - h.offset) % MARK = 0
    BY ONLY <2>3, <2>4, MultipleOfMark
  <2> QED
    BY <2>1, <2>5
<1>7. HeapEnd(h) \in Ends(h, p)
  <2>1. HeapEnd(h) \in CutEnd(h) .. HeapEnd(h)
    BY <1>2
  <2> QED
    BY <2>1, <1>6 DEF Ends
<1> QED
  BY <1>5, <1>7

\* The loop is over somewhere, and Gathered is the first such place.
LEMMA GatheredFacts ==
  ASSUME NEW h, HeapOK(h), NEW p \in DOMAIN h.chunks, NEW n \in Nat,
         NEW e, e = Gathered(h, p, n)
  PROVE  /\ e \in Ends(h, p) /\ e \in Nat /\ e >= End(h, p)
         /\ Stops(h, p, n, e)
         /\ \A d \in Ends(h, p) : d < e => ~Stops(h, p, n, d)
<1> DEFINE S == {d \in Ends(h, p) : Stops(h, p, n, d)}
<1>1. Ends(h, p) \subseteq Nat /\ HeapEnd(h) \in Ends(h, p) /\ HeapEnd(h) \in Nat
  BY EndsFacts
<1>2. HeapEnd(h) \in S
  BY <1>1 DEF Stops
<1>3. S \in SUBSET Nat /\ S # {}
  BY <1>1, <1>2
<1> HIDE DEF S
<1>4. PICK x \in S : \A y \in S : x <= y
  BY <1>3, LeastNatural
<1>5. /\ x \in Ends(h, p) /\ Stops(h, p, n, x)
      /\ \A d \in Ends(h, p) : d < x => ~Stops(h, p, n, d)
  <2>1. x \in Ends(h, p) /\ Stops(h, p, n, x) /\ x \in Nat
    BY <1>3 DEF S
  <2>2. ASSUME NEW d \in Ends(h, p), d < x, Stops(h, p, n, d)
        PROVE  FALSE
    <3>1. d \in S /\ d \in Nat
      BY <2>2, <1>1 DEF S
    <3>2. x <= d
      BY <3>1, <1>4
    <3> QED
      BY <3>1, <3>2, <2>1, <2>2
  <2> QED
    BY <2>1, <2>2
<1>6. /\ e \in Ends(h, p) /\ Stops(h, p, n, e)
      /\ \A d \in Ends(h, p) : d < e => ~Stops(h, p, n, d)
  BY <1>5, Zenon DEF Gathered
<1> QED
  BY <1>1, <1>6, EndsFacts

\* Chunks that are not in order do not exist: one that begins before another one ends
\* with its header before it.
LEMMA Before ==
  ASSUME NEW h, HeapOK(h), NEW p \in DOMAIN h.chunks, NEW q \in DOMAIN h.chunks,
         p < End(h, q)
  PROVE  p <= q
<1>1. p \in Int /\ q \in Int /\ End(h, q) \in Int /\ MARK \in Int /\ MARK > 0
  BY ChunkFacts, Constants
<1>2. q < p => End(h, q) + MARK <= p
  BY DEF HeapOK, Apart
<1> QED
  BY <1>1, <1>2

\* What was gathered inside the heap is the chunk and free chunks behind it.
LEMMA GatheredInside ==
  ASSUME NEW h, HeapOK(h), NEW p \in DOMAIN h.chunks, NEW n \in Nat,
         NEW e, e = Gathered(h, p, n), e <= CutEnd(h)
  PROVE  \E r \in DOMAIN h.chunks : p <= r /\ e = End(h, r)
<1>1. e \in Ends(h, p) /\ e \in Nat
  BY GatheredFacts
<1>2. /\ CutEnd(h) \in Int /\ p \in Int /\ p < End(h, p) /\ End(h, p) <= CutEnd(h)
      /\ End(h, p) \in Int
  BY ChunkFacts
<1>3. CASE e \in {End(h, q) : q \in {r \in DOMAIN h.chunks : r >= p}}
  <2>1. PICK r \in DOMAIN h.chunks : r >= p /\ e = End(h, r)
    BY <1>3
  <2>2. r \in Int
    BY ChunkFacts
  <2> QED
    BY <2>1, <2>2, <1>2
<1>4. CASE e \in CutEnd(h) .. HeapEnd(h)
  <2>1. e = CutEnd(h)
    BY <1>4, <1>1, <1>2, EndsFacts
  <2>2. h.offset > 0
    <3>1. h.start + MARK <= p /\ h.start \in Int /\ h.offset \in Int /\ MARK \in Int /\ MARK > 0
      BY ChunkFacts, Constants DEF HeapOK, HeapTypes
    <3> QED
      BY <3>1, <1>2 DEF CutEnd
  <2>3. PICK r \in DOMAIN h.chunks : End(h, r) = CutEnd(h)
    BY <2>2 DEF HeapOK, Ended
  <2>4. p < End(h, r)
    BY <2>3, <1>2
  <2> QED
    BY <2>1, <2>3, <2>4, Before
<1> QED
  BY <1>1, <1>3, <1>4 DEF Ends

\* The chunks that are gathered behind p are free.
LEMMA GatheredFree ==
  ASSUME NEW h, HeapOK(h), NEW p \in DOMAIN h.chunks, NEW n \in Nat,
         NEW e, e = Gathered(h, p, n), NEW q \in DOMAIN h.chunks, p < q, q < e
  PROVE  ~h.chunks[q].alloc
<1>1. p \in Int /\ q \in Int /\ h.start \in Int /\ h.start + MARK <= p /\ MARK \in Int /\ MARK > 0
  BY ChunkFacts, Constants
<1>2. PICK r \in DOMAIN h.chunks : End(h, r) + MARK = q
  <2>1. q = h.start + MARK \/ \E r \in DOMAIN h.chunks : End(h, r) + MARK = q
    BY DEF HeapOK, Linked
  <2> QED
    BY <2>1, <1>1
<1>3. End(h, r) \in Int /\ r \in Int
  BY ChunkFacts
<1>4. p <= r
  <2>1. q \in Int /\ r < p => End(h, r) + MARK <= p
    BY DEF HeapOK, Apart
  <2> QED
    BY <2>1, <1>1, <1>2, <1>3
<1>5. End(h, r) \in Ends(h, p)
  BY <1>4, <1>3, <1>1 DEF Ends
<1>6. e \in Nat /\ End(h, r) < e
  BY <1>2, <1>3, <1>1, GatheredFacts
<1>7. ~Stops(h, p, n, End(h, r))
  BY <1>5, <1>6, GatheredFacts
<1> QED
  BY <1>7, <1>2 DEF Stops

\* Where it reaches past _offset, it is not more than what is needed.
LEMMA GatheredOutside ==
  ASSUME NEW h, HeapOK(h), NEW p \in DOMAIN h.chunks, NEW n \in Nat, Multiple(n + MARK),
         NEW e, e = Gathered(h, p, n), e > CutEnd(h)
  PROVE  e - p <= n
<1>1. /\ e \in Ends(h, p) /\ e \in Nat
      /\ \A d \in Ends(h, p) : d < e => ~Stops(h, p, n, d)
  BY GatheredFacts
<1>2. /\ CutEnd(h) \in Int /\ HeapEnd(h) \in Int /\ p \in Int /\ MARK \in Int /\ MARK > 0
      /\ h.start \in Int /\ h.offset \in Int /\ Multiple(h.offset)
      /\ Multiple(p - h.start - MARK)
      /\ CutEnd(h) = h.start + h.offset
  BY ChunkFacts, Constants DEF HeapOK, HeapTypes, CutEnd
<1>3. e \in CutEnd(h) .. HeapEnd(h) /\ (e - CutEnd(h)) % MARK = 0
  <2>1. e \notin {End(h, q) : q \in {r \in DOMAIN h.chunks : r >= p}}
    <3> SUFFICES ASSUME NEW q \in DOMAIN h.chunks, e = End(h, q) PROVE FALSE
      OBVIOUS
    <3>1. End(h, q) \in Int /\ End(h, q) <= CutEnd(h)
      BY ChunkFacts
    <3> QED
      BY <3>1, <1>2
  <2> QED
    BY <1>1, <2>1 DEF Ends
<1> SUFFICES ASSUME e - p > n PROVE FALSE
  BY <1>1, <1>2
<1> DEFINE x == e - CutEnd(h)
           d == e - MARK
           a == p - h.start - MARK
           b == n + MARK
           y == h.offset - a
           z == y - b
           w == x + z
<1>4. x \in Int /\ x > 0 /\ x % MARK = 0 /\ MARK % MARK = 0
  BY <1>1, <1>2, <1>3
<1>5. a \in Int /\ b \in Int /\ y \in Int /\ z \in Int /\ w \in Int /\ w = e - p - n
  BY <1>1, <1>2
<1>6. Multiple(a) /\ Multiple(b)
  BY <1>2
<1> HIDE DEF x, a, b
<1>7. x >= MARK /\ (x - MARK) % MARK = 0
  BY ONLY <1>4, <1>2, ModSum
<1>8. Multiple(y)
  BY ONLY <1>2, <1>5, <1>6, MultipleSum
<1> HIDE DEF y
<1>9. Multiple(z)
  BY ONLY <1>5, <1>6, <1>8, MultipleSum
<1> HIDE DEF z
<1>10. z % MARK = 0
  BY ONLY <1>5, <1>9, MultipleOfMark
<1>11. w % MARK = 0
  BY ONLY <1>2, <1>4, <1>5, <1>10, ModSum
<1> HIDE DEF w
<1>12. w >= MARK
  <2>1. w > 0
    BY <1>5, <1>1, <1>2
  <2> QED
    BY ONLY <2>1, <1>2, <1>5, <1>11, ModSum
<1>13. d \in CutEnd(h) .. HeapEnd(h) /\ d - CutEnd(h) = x - MARK /\ d < e
  BY <1>1, <1>2, <1>3, <1>7 DEF x
<1>14. d \in Ends(h, p)
  <2>1. (d - CutEnd(h)) % MARK = 0
    BY <1>13, <1>7
  <2> HIDE DEF d
  <2> QED
    BY <1>13, <2>1 DEF Ends
<1>15. ~(d - p >= n)
  BY <1>1, <1>13, <1>14 DEF Stops
<1> QED
  BY <1>5, <1>12, <1>15, <1>1, <1>2

\* The headers that merge_contiguous writes.
LEMMA CombinedHeaders ==
  ASSUME NEW h, HeapOK(h), NEW p \in DOMAIN h.chunks, NEW n \in Nat,
         NEW e \in Int, e > p, e - p > n => p + n + MARK <= e,
         NEW g, g = Combined(h, p, n, e)
  PROVE  /\ g.start = h.start /\ g.size = h.size /\ g.offset = h.offset
         /\ \A q : q \in DOMAIN g.chunks <=>
                     \/ q \in DOMAIN h.chunks /\ (q <= p \/ q > e)
                     \/ e - p > n /\ q = p + n + MARK
         /\ g.chunks[p].size = (IF e - p > n THEN n ELSE e - p)
         /\ g.chunks[p].alloc = h.chunks[p].alloc
         /\ e - p > n => /\ g.chunks[p + n + MARK].size = e - p - n - MARK
                         /\ ~g.chunks[p + n + MARK].alloc
                         /\ g.chunks[p + n + MARK].alloc \in BOOLEAN
         /\ \A q \in DOMAIN h.chunks : (q < p \/ q > e) => g.chunks[q] = h.chunks[q]
<1> DEFINE K == {r \in DOMAIN h.chunks : r <= p \/ r > e}
           kept == [q \in K |-> h.chunks[q]]
           a == h.chunks[p].alloc
           c == p + n + MARK
           one == Put(kept, p, Chunk(n, a))
           two == Put(one, c, Chunk(e - p - n - MARK, FALSE))
           all == Put(kept, p, Chunk(e - p, a))
<1>1. p \in Int /\ MARK \in Int /\ MARK > 0
  BY ChunkFacts, Constants
<1>2. /\ g.start = h.start /\ g.size = h.size /\ g.offset = h.offset
      /\ g.chunks = IF e - p > n THEN two ELSE all
  BY DEF Combined, WithChunks, Heap
<1>3. p \in K
  BY <1>1
<1>4. /\ DOMAIN one = K /\ one[p] = Chunk(n, a)
      /\ \A q \in K : q # p => one[q] = h.chunks[q]
  BY <1>3 DEF Put
<1>5. /\ DOMAIN all = K /\ all[p] = Chunk(e - p, a)
      /\ \A q \in K : q # p => all[q] = h.chunks[q]
  BY <1>3 DEF Put
<1> HIDE DEF one, all
<1>6. /\ DOMAIN two = K \cup {c} /\ two[c] = Chunk(e - p - n - MARK, FALSE)
      /\ \A q \in K : q # c => two[q] = one[q]
  BY <1>4 DEF Put
<1>7. \A q \in DOMAIN h.chunks : q \in Int
  BY ChunkFacts
<1>8. CASE e - p > n
  <2>1. c \in Int /\ p < c /\ c <= e
    BY <1>8, <1>1
  <2>2. g.chunks = two
    BY <1>2, <1>8
  <2>3. g.chunks[p] = Chunk(n, a) /\ g.chunks[c] = Chunk(e - p - n - MARK, FALSE)
    <3>1. p # c
      BY <2>1, <1>1
    <3> HIDE DEF K, two, c
    <3>2. two[p] = one[p]
      BY <3>1, <1>3, <1>6
    <3>3. one[p] = Chunk(n, a)
      BY <1>4
    <3>4. two[c] = Chunk(e - p - n - MARK, FALSE)
      BY <1>6
    <3> QED
      BY <3>2, <3>3, <3>4, <2>2
  <2>4. \A q \in DOMAIN h.chunks : (q < p \/ q > e) => g.chunks[q] = h.chunks[q]
    <3> SUFFICES ASSUME NEW q \in DOMAIN h.chunks, q < p \/ q > e
                 PROVE  g.chunks[q] = h.chunks[q]
      OBVIOUS
    <3>1. q \in Int
      BY <1>7
    <3>2. q # p /\ q # c /\ q \in K
      BY <3>1, <2>1, <1>1
    <3> HIDE DEF K, two
    <3> QED
      BY <3>2, <2>2, <1>4, <1>6
  <2>5. \A q : q \in DOMAIN g.chunks <=>
                 \/ q \in DOMAIN h.chunks /\ (q <= p \/ q > e)
                 \/ e - p > n /\ q = p + n + MARK
    BY <2>2, <1>6, <1>8
  <2>6. g.chunks[p].size = n /\ g.chunks[p].alloc = a
    BY <2>3 DEF Chunk
  <2>7. /\ g.chunks[c].size = e - p - n - MARK
        /\ g.chunks[c].alloc = FALSE
    BY <2>3 DEF Chunk
  <2> QED
    BY <1>2, <1>8, <2>4, <2>5, <2>6, <2>7
<1>9. CASE ~(e - p > n)
  <2>1. g.chunks = all
    BY <1>2, <1>9
  <2>2. g.chunks[p].size = e - p /\ g.chunks[p].alloc = a
    BY <2>1, <1>5 DEF Chunk
  <2>3. \A q \in DOMAIN h.chunks : (q < p \/ q > e) => g.chunks[q] = h.chunks[q]
    BY <2>1, <1>1, <1>5, <1>7
  <2>4. \A q : q \in DOMAIN g.chunks <=>
                 \/ q \in DOMAIN h.chunks /\ (q <= p \/ q > e)
                 \/ e - p > n /\ q = p + n + MARK
    BY <2>1, <1>5, <1>9
  <2> QED
    BY <1>2, <1>9, <2>2, <2>3, <2>4
<1> QED
  BY <1>8, <1>9

\* The rest behind the bytes needed holds a header and some bytes.
LEMMA RestFits ==
  ASSUME NEW h, HeapOK(h), NEW p \in DOMAIN h.chunks, NEW r \in DOMAIN h.chunks,
         NEW n \in Nat, Multiple(n + MARK), End(h, r) - p > n
  PROVE  p + n + MARK < End(h, r) /\ Multiple(End(h, r) - p - n)
<1> DEFINE x == End(h, r) - h.start
           a == p - h.start - MARK
           b == n + MARK
           y == x - a
           z == y - b
<1>1. /\ h.start \in Int /\ p \in Int /\ End(h, r) \in Int
      /\ Multiple(x) /\ Multiple(a) /\ Multiple(b)
      /\ MARK \in Int /\ MARK > 0 /\ BLOCK \in Int /\ BLOCK > MARK
  BY ChunkFacts, Constants
<1>2. /\ x \in Int /\ a \in Int /\ b \in Int /\ y \in Int /\ z \in Int
      /\ z = End(h, r) - p - n /\ z > 0
  BY <1>1
<1> HIDE DEF x, a, b
<1>3. Multiple(y)
  BY ONLY <1>1, <1>2, MultipleSum
<1> HIDE DEF y
<1>4. Multiple(z)
  BY ONLY <1>1, <1>2, <1>3, MultipleSum
<1> HIDE DEF z
<1>5. z >= BLOCK
  BY ONLY <1>2, <1>4, MultiplePositive
<1> QED
  BY <1>1, <1>2, <1>4, <1>5

\* Where chunk r is the last of those merged into p, the heap stays consistent.
LEMMA CombinedOK ==
  ASSUME NEW h, HeapOK(h), NEW p \in DOMAIN h.chunks, NEW r \in DOMAIN h.chunks, p <= r,
         NEW n \in Nat, Multiple(n + MARK),
         NEW g, g = Combined(h, p, n, End(h, r))
  PROVE  HeapOK(g)
<1> DEFINE e == End(h, r)
           c == p + n + MARK
           s == IF e - p > n THEN n ELSE e - p
           D == DOMAIN h.chunks
           G == DOMAIN g.chunks
<1>1. /\ p \in Int /\ r \in Int /\ e \in Int /\ r < e /\ p < e /\ h.start \in Int
      /\ MARK \in Int /\ MARK > 0 /\ e <= CutEnd(h) /\ CutEnd(h) \in Int
      /\ h.start + MARK <= p /\ c \in Int /\ p < c
  BY ChunkFacts, Constants
<1>2. e - p > n => c < e /\ Multiple(e - p - n)
  BY RestFits
<1> HIDE DEF e
<1>3. /\ g.start = h.start /\ g.size = h.size /\ g.offset = h.offset
      /\ \A q : q \in G <=> \/ q \in D /\ (q <= p \/ q > e)
                            \/ e - p > n /\ q = c
      /\ g.chunks[p].size = s /\ g.chunks[p].alloc = h.chunks[p].alloc
      /\ e - p > n => /\ g.chunks[c].size = e - p - n - MARK
                      /\ g.chunks[c].alloc \in BOOLEAN
      /\ \A q \in D : (q < p \/ q > e) => g.chunks[q] = h.chunks[q]
  <2>1. g = Combined(h, p, n, e)
    BY DEF e
  <2>2. e - p > n => p + n + MARK <= e
    BY <1>1, <1>2
  <2> QED
    BY <1>1, <2>1, <2>2, CombinedHeaders
<1>4. /\ \A q \in D : /\ q \in Int /\ End(h, q) \in Int /\ q < End(h, q)
                      /\ ChunkOK(h, q) /\ Linked(h, q)
      /\ \A q, t \in D : q < t => End(h, q) + MARK <= t
      /\ HeapTypes(h) /\ Ended(h)
  BY ChunkFacts DEF HeapOK, Apart
<1>5. CutEnd(g) = CutEnd(h) /\ HeapTypes(g)
  BY <1>3, <1>4 DEF CutEnd, HeapTypes
<1>6. \A q \in D : (q < p \/ q > e) => End(g, q) = End(h, q)
  BY <1>3 DEF End
<1>7. End(g, p) = p + s /\ s \in Nat /\ (e - p > n => End(g, c) = e) /\ p \in G
  BY <1>1, <1>3 DEF End
\* The chunks behind e begin behind the header that follows e.
<1>8. \A q \in D : q > e => r < q /\ e + MARK <= q
  <2> SUFFICES ASSUME NEW q \in D, q > e PROVE r < q /\ e + MARK <= q
    OBVIOUS
  <2>1. r < q
    BY <1>1, <1>4
  <2> QED
    BY <2>1, <1>4 DEF e
<1>9. e = CutEnd(h) \/ e + MARK \in G
  <2>1. e = CutEnd(h) \/ e + MARK \in D
    BY <1>4 DEF Linked, e
  <2> QED
    BY <2>1, <1>1, <1>3
<1>10. Multiple(p - h.start - MARK) /\ Multiple(e - h.start)
  BY ChunkFacts DEF e
<1> HIDE DEF D, G
<1>11. ChunkOK(g, p)
  <2>1. Multiple(s + MARK)
    <3>1. CASE e - p > n
      BY <3>1
    <3>2. CASE ~(e - p > n)
      <4> DEFINE x == e - h.start
                 a == p - h.start - MARK
      <4>1. x \in Int /\ a \in Int /\ Multiple(x) /\ Multiple(a) /\ s + MARK = x - a
        BY <3>2, <1>1, <1>10
      <4> HIDE DEF x, a
      <4>2. Multiple(x - a)
        BY ONLY <4>1, MultipleSum
      <4> QED
        BY <4>1, <4>2
    <3> QED
      BY <3>1, <3>2
  <2>2. End(g, p) <= CutEnd(g)
    BY <1>1, <1>5, <1>7
  <2>3. g.chunks[p].alloc \in BOOLEAN
    BY <1>3, ChunkFacts
  <2> QED
    BY <1>1, <1>3, <1>7, <1>10, <2>1, <2>2, <2>3 DEF ChunkOK
<1>12. ASSUME e - p > n PROVE ChunkOK(g, c) /\ c \in G /\ End(g, p) + MARK = c
  <2>1. g.chunks[c].size + MARK = e - p - n
    BY <1>1, <1>3, <1>12
  <2>2. g.chunks[c].size \in Nat
    BY <1>1, <1>2, <1>3, <1>12
  <2>3. Multiple(c - g.start - MARK)
    <3> DEFINE a == p - h.start - MARK
               b == n + MARK
    <3>1. a \in Int /\ b \in Int /\ Multiple(a) /\ Multiple(b) /\ c - g.start - MARK = a + b
      BY <1>1, <1>3, <1>10
    <3> HIDE DEF a, b
    <3>2. Multiple(a + b)
      BY ONLY <3>1, MultipleSum
    <3> QED
      BY <3>1, <3>2
  <2>4. g.start + MARK <= c /\ End(g, c) <= CutEnd(g)
    BY <1>1, <1>3, <1>5, <1>7, <1>12
  <2> HIDE DEF c
  <2>5. ChunkOK(g, c)
    BY <2>1, <2>2, <2>3, <2>4, <1>1, <1>2, <1>3, <1>12 DEF ChunkOK
  <2>6. c \in G
    BY <1>3, <1>12
  <2>7. End(g, p) + MARK = c
    BY <1>1, <1>7, <1>12 DEF c
  <2> QED
    BY <2>5, <2>6, <2>7
<1>13. ASSUME NEW q \in D, q < p \/ q > e PROVE ChunkOK(g, q)
  BY <1>13, <1>3, <1>4, <1>5, <1>6 DEF ChunkOK
<1> HIDE DEF s
\* What can be a chunk of g.
<1>14. \A q \in G : \/ q = p
                    \/ q \in D /\ (q < p \/ q > e)
                    \/ e - p > n /\ q = c
  BY <1>1, <1>3, <1>4
<1>15. ASSUME NEW q \in D, q < p \/ q > e
       PROVE  End(g, q) = CutEnd(g) \/ End(g, q) + MARK \in G
  <2>1. End(h, q) = CutEnd(h) \/ End(h, q) + MARK \in D
    BY <1>4 DEF Linked, D
  <2>2. CASE q < p
    <3>1. End(h, q) + MARK <= p
      BY <2>2, <1>4 DEF D
    <3> QED
      BY <2>1, <2>2, <3>1, <1>3, <1>5, <1>6
  <2>3. CASE q > e
    <3>1. End(h, q) + MARK > e
      BY <2>3, <1>1, <1>4
    <3> QED
      BY <2>1, <2>3, <3>1, <1>3, <1>5, <1>6
  <2> QED
    BY <1>15, <2>2, <2>3
<1>16. End(g, p) = CutEnd(g) \/ End(g, p) + MARK \in G
  <2>1. CASE e - p > n
    BY <2>1, <1>12
  <2>2. CASE ~(e - p > n)
    <3>1. End(g, p) = e
      BY <2>2, <1>1, <1>7 DEF s
    <3> QED
      BY <3>1, <1>5, <1>9
  <2> QED
    BY <2>1, <2>2
<1>17. ASSUME NEW q \in D, q < p \/ q > e
       PROVE  q = g.start + MARK \/ \E t \in G : End(g, t) + MARK = q
  <2>1. CASE q = h.start + MARK
    BY <2>1, <1>3
  <2>2. CASE \E t \in D : End(h, t) + MARK = q
    <3>1. PICK t \in D : End(h, t) + MARK = q
      BY <2>2
    <3>2. t \in Int /\ q \in Int /\ t < q /\ End(h, t) \in Int
      BY <3>1, <1>1, <1>4
    <3>3. CASE q < p
      BY <3>1, <3>2, <3>3, <1>1, <1>3, <1>6
    <3>4. CASE q > e /\ t > e
      BY <3>1, <3>4, <1>3, <1>6
    <3>5. CASE q > e /\ ~(t > e)
      <4>1. t = r
        <5>1. r \in D /\ e = End(h, r)
          BY DEF D, e
        <5>2. t < r => End(h, t) + MARK <= r
          BY <5>1, <1>4
        <5>3. r < t => e + MARK <= t
          BY <5>1, <1>4
        <5> QED
          BY <3>1, <3>2, <3>5, <5>2, <5>3, <1>1
      <4>2. q = e + MARK
        BY <4>1, <3>1 DEF e
      <4>3. CASE e - p > n
        BY <4>2, <4>3, <1>7, <1>12
      <4>4. CASE ~(e - p > n)
        <5>1. End(g, p) = e
          BY <4>4, <1>1, <1>7 DEF s
        <5> QED
          BY <4>2, <5>1, <1>7
      <4> QED
        BY <4>3, <4>4
    <3> QED
      BY <1>17, <3>3, <3>4, <3>5
  <2>3. q = h.start + MARK \/ \E t \in D : End(h, t) + MARK = q
    BY <1>4 DEF Linked, D
  <2> QED
    BY <2>1, <2>2, <2>3
<1>18. p = g.start + MARK \/ \E t \in G : End(g, t) + MARK = p
  <2>1. CASE \E t \in D : End(h, t) + MARK = p
    <3>1. PICK t \in D : End(h, t) + MARK = p
      BY <2>1
    <3>2. t < p /\ t \in Int
      BY <3>1, <1>1, <1>4
    <3>3. t \in G /\ End(g, t) = End(h, t)
      BY <3>2, <1>1, <1>3, <1>6
    <3> QED
      BY <3>1, <3>3
  <2>2. p = h.start + MARK \/ \E t \in D : End(h, t) + MARK = p
    BY <1>4 DEF Linked, D
  <2> QED
    BY <2>1, <2>2, <1>3
<1>19. \A q \in G : Linked(g, q)
  <2> TAKE q \in G
  <2>1. CASE q = p
    BY <2>1, <1>16, <1>18 DEF Linked, G
  <2>2. CASE q \in D /\ (q < p \/ q > e)
    BY <2>2, <1>15, <1>17 DEF Linked, G
  <2>3. CASE e - p > n /\ q = c
    <3>1. End(g, c) = e /\ End(g, p) + MARK = c
      BY <2>3, <1>7, <1>12
    <3> HIDE DEF c
    <3> QED
      BY <2>3, <3>1, <1>5, <1>7, <1>9 DEF Linked, G
  <2> QED
    BY <2>1, <2>2, <2>3, <1>14
<1>20. \A q \in G : ChunkOK(g, q)
  <2> TAKE q \in G
  <2> HIDE DEF c
  <2> QED
    BY <1>11, <1>12, <1>13, <1>14
\* The chunks before p, p, the rest and the chunks behind e follow one another.
<1>21. ASSUME NEW q \in G, NEW t \in G, q < t
       PROVE  End(g, q) + MARK <= t
  <2>1. CASE q \in D /\ (q < p \/ q > e)
    <3>1. End(g, q) = End(h, q) /\ q \in Int /\ End(h, q) \in Int
      BY <2>1, <1>4, <1>6
    <3>2. q < p => End(h, q) + MARK <= p
      BY <2>1, <1>4 DEF D
    <3>3. CASE t \in D
      BY <2>1, <3>1, <3>3, <1>4, <1>21
    <3>4. CASE e - p > n /\ t = c
      <4>1. q < p
        BY <2>1, <3>1, <3>4, <1>1, <1>2, <1>21
      <4> QED
        BY <3>1, <3>2, <3>4, <4>1, <1>1
    <3>5. p \in D
      BY DEF D
    <3> QED
      BY <3>3, <3>4, <3>5, <1>14
  <2>2. CASE q = p
    <3>1. End(g, p) \in Int /\ End(g, p) <= e
      BY <1>1, <1>7 DEF s
    <3>2. CASE t \in D /\ (t < p \/ t > e)
      <4>1. t \in Int /\ e + MARK <= t
        BY <3>2, <2>2, <1>21, <1>1, <1>4, <1>8
      <4> QED
        BY <2>2, <3>1, <4>1, <1>1
    <3>3. CASE e - p > n /\ t = c
      BY <2>2, <3>3, <1>12, <1>1
    <3>4. t # p
      BY <2>2, <1>21, <1>1
    <3> QED
      BY <3>2, <3>3, <3>4, <1>14
  <2>3. CASE e - p > n /\ q = c
    <3>1. End(g, q) = e
      BY <2>3, <1>7
    <3>2. t \in D /\ t > e
      <4>1. t # p /\ t # c
        BY <2>3, <1>1, <1>21
      <4>2. t \in D /\ (t < p \/ t > e) /\ t \in Int
        BY <4>1, <1>4, <1>14
      <4> QED
        BY <4>2, <2>3, <1>1, <1>21
    <3> QED
      BY <3>1, <3>2, <1>8
  <2> QED
    BY <2>1, <2>2, <2>3, <1>14
<1>22. Apart(g)
  BY <1>21 DEF Apart, G
<1>23. Ended(g)
  <2> SUFFICES ASSUME h.offset > 0
               PROVE  g.start + MARK \in G /\ \E q \in G : End(g, q) = CutEnd(g)
    BY <1>3 DEF Ended, G
  <2>1. h.start + MARK \in D /\ \E q \in D : End(h, q) = CutEnd(h)
    BY <1>4 DEF Ended, D
  <2>2. g.start + MARK \in G
    BY <2>1, <1>1, <1>3
  <2>3. PICK q \in D : End(h, q) = CutEnd(h)
    BY <2>1
  <2>4. CASE q > e
    <3>1. q \in G /\ End(g, q) = CutEnd(g)
      BY <2>3, <2>4, <1>3, <1>5, <1>6
    <3> QED
      BY <2>2, <3>1
  <2>5. CASE ~(q > e)
    <3>1. e = CutEnd(h)
      <4>1. r \in D /\ e = End(h, r) /\ q \in Int
        BY <1>4 DEF D, e
      <4>2. r < q => e + MARK <= q
        BY <4>1, <1>4
      <4>3. q < r => End(h, q) + MARK <= r
        BY <4>1, <1>4
      <4> QED
        BY <2>3, <2>5, <4>1, <4>2, <4>3, <1>1
    <3>2. CASE e - p > n
      BY <3>1, <3>2, <2>2, <1>5, <1>7, <1>12
    <3>3. CASE ~(e - p > n)
      <4>1. End(g, p) = e
        BY <3>3, <1>1, <1>7 DEF s
      <4> QED
        BY <3>1, <4>1, <2>2, <1>5, <1>7
    <3> QED
      BY <3>2, <3>3
  <2> QED
    BY <2>4, <2>5
<1> QED
  BY <1>5, <1>19, <1>20, <1>22, <1>23 DEF HeapOK, G

-----------------------------------------------------------------------------
\* The inductive invariant.

\* Chunk p of h is allocated.
InUse(h, p) == p \in DOMAIN h.chunks /\ h.chunks[p].alloc

\* Outside of S, the same chunks are allocated in h and in g, with the same bytes.
SameUse(h, g, S) ==
  \A q : q \notin S => /\ InUse(g, q) <=> InUse(h, q)
                       /\ InUse(h, q) => g.chunks[q].size = h.chunks[q].size

\* The heap keeps its place, and stays full.
SameFrame(h, g) ==
  g.start = h.start /\ g.size = h.size /\ (h.offset = h.size => g.offset = g.size)

LiveIn(hs) == {k \in 0 .. HEAPS - 1 : is_init(hs[k])}

\* The heaps hs are consistent, one behind the other, and their allocated chunks
\* are the blocks bl.
Consistent(hs, bl) ==
  /\ DOMAIN hs = 0 .. HEAPS - 1
  /\ \A k \in LiveIn(hs) : HeapOK(hs[k])
  /\ \A j, k \in LiveIn(hs) : j < k => HeapEnd(hs[j]) <= hs[k].start
  /\ \A k \in LiveIn(hs) : \A p \in DOMAIN hs[k].chunks :
       InUse(hs[k], p) => p \in DOMAIN bl /\ bl[p] <= hs[k].chunks[p].size
  /\ \A p \in DOMAIN bl : \E k \in LiveIn(hs) : InUse(hs[k], p)

\* The number of the last heap.
Last == IF is_init(heaps[1]) THEN 1 ELSE 0

\* Where the heaps are.  There are never more than two: the second one begins where
\* the memory ended at the start, and always ends where the memory ends.
Placed ==
  /\ DOMAIN heaps = 0 .. HEAPS - 1
  /\ pages \in StartPages .. MaxPages /\ sbrk_bytes = pages * PAGE
  /\ initial \in Bases
  /\ \A k \in 2 .. HEAPS - 1 : ~is_init(heaps[k])
  /\ ~is_init(heaps[0]) =>
       /\ ~is_init(heaps[1]) /\ pages = StartPages
       /\ actual = 0 /\ active = 0 /\ freeheap = 0
  /\ is_init(heaps[0]) =>
       /\ actual > 0 /\ heaps[0].start = initial
       /\ \/ heaps[0].size = INITIAL /\ (~is_init(heaps[1]) => pages = StartPages)
          \/ /\ ~is_init(heaps[1])
             /\ initial + INITIAL = StartPages * PAGE /\ HeapEnd(heaps[0]) = pages * PAGE
  /\ is_init(heaps[1]) =>
       /\ heaps[1].start = StartPages * PAGE /\ HeapEnd(heaps[1]) = pages * PAGE
       /\ heaps[0].offset = heaps[0].size

\* The last heap is the active one until the memory is exhausted; from then on all
\* heaps are full.
Growing == actual = HEAPS /\ active = Last /\ freeheap = 0
Full ==
  /\ actual = Last + 1 /\ active = actual /\ freeheap \in 0 .. Last
  /\ pages = MaxPages
  /\ \A k \in 0 .. Last : heaps[k].offset = heaps[k].size

Managed == is_init(heaps[0]) => Growing \/ Full

\* The types of the headers, also where a block reaches past _offset, and of the
\* blocks.
TypedHeaps(hs, bl) ==
  /\ \A k \in LiveIn(hs) :
       /\ hs[k].size \in Nat /\ hs[k].offset \in Nat
       /\ \A p \in DOMAIN hs[k].chunks :
            hs[k].chunks[p].size \in Nat /\ hs[k].chunks[p].alloc \in BOOLEAN
  /\ \A p \in DOMAIN bl : p \in Nat \ {NULL} /\ bl[p] \in Nat

Typed ==
  /\ TypedHeaps(heaps, blocks)
  /\ status \in {"ok", "overran", "clobbered"}
  /\ pc \in {"idle", "active", "freed"}

\* No free chunks from p on hold n bytes.
Hopeless(h, p, n) ==
  \A q \in DOMAIN h.chunks :
    p <= q /\ FreeRun(h, p, End(h, q)) => End(h, q) - p < n

\* The heaps that the loop over the freed chunks has left behind.
Visited(k) ==
  IF endheap <= freeheap THEN endheap <= k /\ k < freeheap
  ELSE endheap <= k \/ k < freeheap

\* The call under way, and what its search has shown so far.
Searching ==
  /\ pc # "idle" =>
       /\ status = "ok" /\ ret = Answer(0, NULL) /\ is_init(heaps[0])
       /\ call.size \in Nat \ {0}
       /\ call.ptr = NULL \/ call.ptr \in DOMAIN blocks
  /\ pc = "active" => Growing
  /\ pc = "freed" =>
       /\ Full /\ endheap \in 0 .. Last
       /\ current \in DOMAIN heaps[freeheap].chunks
       /\ \A k \in 0 .. Last : Visited(k) =>
            \A p \in DOMAIN heaps[k].chunks : Hopeless(heaps[k], p, Needed)
       /\ \A p \in DOMAIN heaps[freeheap].chunks :
            p < current => Hopeless(heaps[freeheap], p, Needed)

Refused ==
  (ret.ptr = NULL /\ ret.size > 0) =>
    /\ pages = MaxPages
    /\ \A k \in LiveIn(heaps) : \A p \in DOMAIN heaps[k].chunks :
         Hopeless(heaps[k], p, Adjusted(ret.size))

IInv ==
  /\ Placed /\ Managed /\ Typed /\ Searching /\ Refused
  /\ status # "overran" => Consistent(heaps, blocks)

-----------------------------------------------------------------------------
\* What the operations do to the chunks in use.

\* memory::malloc.
Given(h, n) == Cut(h, n, TRUE)

LEMMA CutUse ==
  ASSUME NEW h, HeapOK(h), NEW n \in Nat, Multiple(n + MARK), HasRoom(h, n),
         NEW c, c = CutEnd(h) + MARK, NEW g, g = Given(h, n)
  PROVE  /\ HeapOK(g) /\ SameFrame(h, g) /\ SameUse(h, g, {c})
         /\ ~InUse(h, c) /\ InUse(g, c) /\ g.chunks[c].size = n
<1> DEFINE yes == TRUE
<1>1. yes \in BOOLEAN /\ g = Cut(h, n, yes)
  BY DEF Given
<1>1a. yes = TRUE
  OBVIOUS
<1> HIDE DEF yes
<1>2. h.offset + n + MARK <= h.size
  BY DEF HasRoom
<1>3. HeapOK(g)
  BY <1>1, <1>2, CutOK
<1>4. /\ c \notin DOMAIN h.chunks
      /\ g.start = h.start /\ g.size = h.size /\ g.offset = h.offset + n + MARK
      /\ DOMAIN g.chunks = DOMAIN h.chunks \cup {c}
      /\ g.chunks[c].size = n /\ g.chunks[c].alloc = yes
      /\ \A q \in DOMAIN h.chunks : g.chunks[q] = h.chunks[q]
  <2> DEFINE d == CutEnd(h) + MARK
             f == Cut(h, n, yes)
  <2>1. /\ d \in Int /\ d \notin DOMAIN h.chunks
        /\ f.start = h.start /\ f.size = h.size /\ f.offset = h.offset + n + MARK
        /\ DOMAIN f.chunks = DOMAIN h.chunks \cup {d}
        /\ f.chunks[d].size = n /\ f.chunks[d].alloc = yes
        /\ \A q \in DOMAIN h.chunks : f.chunks[q] = h.chunks[q] /\ q < d
    BY <1>1, CutFacts
  <2>2. d = c /\ f = g
    BY <1>1
  <2> HIDE DEF d, f
  <2> QED
    BY <2>1, <2>2
<1>5. SameFrame(h, g)
  <2>1. h.offset \in Int /\ h.size \in Int /\ MARK \in Int /\ MARK > 0
    BY Constants DEF HeapOK, HeapTypes
  <2>2. h.offset # h.size
    BY <2>1, <1>2
  <2> QED
    BY <2>2, <1>4 DEF SameFrame
<1>6. SameUse(h, g, {c})
  BY <1>4 DEF SameUse, InUse
<1> QED
  BY <1>1a, <1>3, <1>4, <1>5, <1>6 DEF InUse

\* memory::cleanup_remaining.
LEMMA CleanupUse ==
  ASSUME NEW h, HeapOK(h), NEW g, g = cleanup_remaining(h)
  PROVE  HeapOK(g) /\ SameFrame(h, g) /\ SameUse(h, g, {}) /\ g.offset = g.size
<1>1. /\ HeapOK(g) /\ g.offset = g.size /\ g.start = h.start /\ g.size = h.size
      /\ \A q \in DOMAIN h.chunks : q \in DOMAIN g.chunks /\ g.chunks[q] = h.chunks[q]
      /\ \A q \in DOMAIN g.chunks : g.chunks[q].alloc => q \in DOMAIN h.chunks
  BY CleanupFacts
<1>2. SameUse(h, g, {})
  BY <1>1 DEF SameUse, InUse
<1> QED
  BY <1>1, <1>2 DEF SameFrame

\* A flag is set.
LEMMA FlagUse ==
  ASSUME NEW h, HeapOK(h), NEW p \in DOMAIN h.chunks,
         NEW c, c.size = h.chunks[p].size, c.alloc \in BOOLEAN,
         NEW g, g = WithChunks(h, Put(h.chunks, p, c))
  PROVE  /\ HeapOK(g) /\ SameFrame(h, g) /\ SameUse(h, g, {p})
         /\ p \in DOMAIN g.chunks /\ g.chunks[p] = c
<1>1. /\ HeapOK(g)
      /\ g.start = h.start /\ g.size = h.size /\ g.offset = h.offset
      /\ DOMAIN g.chunks = DOMAIN h.chunks /\ g.chunks[p] = c
      /\ \A q \in DOMAIN h.chunks : q # p => g.chunks[q] = h.chunks[q]
  BY FlagFacts
<1> QED
  BY <1>1 DEF SameFrame, SameUse, InUse

\* memory::free.
LEMMA FreeUse ==
  ASSUME NEW h, HeapOK(h), NEW p \in DOMAIN h.chunks, NEW g, g = mem_free(h, p)
  PROVE  HeapOK(g) /\ SameFrame(h, g) /\ SameUse(h, g, {p}) /\ ~InUse(g, p)
<1> DEFINE c == Chunk(h.chunks[p].size, FALSE)
<1>1. g = WithChunks(h, Put(h.chunks, p, c))
  BY DEF mem_free
<1>2. c.size = h.chunks[p].size /\ c.alloc \in BOOLEAN /\ ~c.alloc
  BY DEF Chunk
<1> HIDE DEF c
<1>3. /\ HeapOK(g) /\ SameFrame(h, g) /\ SameUse(h, g, {p}) /\ g.chunks[p] = c
  BY <1>1, <1>2, FlagUse
<1> QED
  BY <1>2, <1>3 DEF InUse

\* merge_contiguous inside a heap.
LEMMA MergedUse ==
  ASSUME NEW h, HeapOK(h), NEW p \in DOMAIN h.chunks, NEW n \in Nat, Multiple(n + MARK),
         Gathered(h, p, n) <= CutEnd(h), NEW g, g = Merged(h, p, n)
  PROVE  /\ HeapOK(g) /\ SameUse(h, g, {p})
         /\ g.start = h.start /\ g.size = h.size /\ g.offset = h.offset
         /\ p \in DOMAIN g.chunks /\ g.chunks[p].alloc = h.chunks[p].alloc
         /\ g.chunks[p].size = IF Gathered(h, p, n) - p > n THEN n
                               ELSE Gathered(h, p, n) - p
<1> DEFINE e == Gathered(h, p, n)
<1>1. PICK r \in DOMAIN h.chunks : p <= r /\ e = End(h, r)
  BY GatheredInside
<1>2. \A q \in DOMAIN h.chunks : p < q /\ q < e => ~h.chunks[q].alloc
  BY GatheredFree
<1>3. g = Combined(h, p, n, e)
  BY DEF Merged
<1> HIDE DEF e
<1>4. /\ p \in Int /\ r \in Int /\ e \in Int /\ r < e /\ p < e /\ MARK \in Int /\ MARK > 0
  <2>1. p \in Int /\ r \in Int /\ End(h, r) \in Int /\ r < End(h, r) /\ MARK \in Int /\ MARK > 0
    BY ChunkFacts, Constants
  <2> QED
    BY <1>1, <2>1
<1>5. HeapOK(g)
  BY <1>1, <1>3, CombinedOK
<1>6. e - p > n => p + n + MARK < e
  BY <1>1, RestFits
<1>7. /\ g.start = h.start /\ g.size = h.size /\ g.offset = h.offset
      /\ \A q : q \in DOMAIN g.chunks <=>
                  \/ q \in DOMAIN h.chunks /\ (q <= p \/ q > e)
                  \/ e - p > n /\ q = p + n + MARK
      /\ g.chunks[p].size = (IF e - p > n THEN n ELSE e - p)
      /\ g.chunks[p].alloc = h.chunks[p].alloc
      /\ e - p > n => ~g.chunks[p + n + MARK].alloc
      /\ \A q \in DOMAIN h.chunks : (q < p \/ q > e) => g.chunks[q] = h.chunks[q]
  <2>1. e - p > n => p + n + MARK <= e
    BY <1>4, <1>6
  <2> QED
    BY <1>3, <1>4, <2>1, CombinedHeaders
<1>8. \A q \in DOMAIN h.chunks : q \in Int /\ q # e
  <2> TAKE q \in DOMAIN h.chunks
  <2>1. q \in Int
    BY ChunkFacts
  <2>2. r < q => End(h, r) + MARK <= q
    BY DEF HeapOK, Apart
  <2> QED
    BY <2>1, <2>2, <1>1, <1>4
<1>9. SameUse(h, g, {p})
  <2> SUFFICES ASSUME NEW q, q # p
               PROVE  /\ InUse(g, q) <=> InUse(h, q)
                      /\ InUse(h, q) => g.chunks[q].size = h.chunks[q].size
    BY DEF SameUse
  <2>1. CASE InUse(h, q)
    <3>1. q \in DOMAIN h.chunks /\ h.chunks[q].alloc /\ q \in Int /\ q # e
      BY <2>1, <1>8 DEF InUse
    <3>2. ~(p < q /\ q < e)
      BY <3>1, <1>2
    <3>3. q < p \/ q > e
      BY <3>1, <3>2, <1>4
    <3>4. q <= p \/ q > e
      BY <3>1, <3>3, <1>4
    <3>5. q \in DOMAIN g.chunks /\ g.chunks[q] = h.chunks[q]
      BY <3>1, <3>3, <3>4, <1>7
    <3> QED
      BY <2>1, <3>1, <3>5 DEF InUse
  <2>2. CASE InUse(g, q)
    <3>1. q \in DOMAIN g.chunks /\ g.chunks[q].alloc
      BY <2>2 DEF InUse
    <3>2. q \in DOMAIN h.chunks /\ (q <= p \/ q > e)
      BY <3>1, <1>7
    <3>3. q < p \/ q > e
      BY <3>2, <1>4, <1>8
    <3> QED
      BY <2>1, <3>1, <3>2, <3>3, <1>7 DEF InUse
  <2> QED
    BY <2>1, <2>2
<1> QED
  BY <1>4, <1>5, <1>7, <1>9 DEF e

\* A chunk that is merged with enough free ones, and marked.
LEMMA TakenUse ==
  ASSUME NEW h, HeapOK(h), NEW p \in DOMAIN h.chunks, NEW n \in Nat, Multiple(n + MARK),
         Gathered(h, p, n) <= CutEnd(h), Gathered(h, p, n) - p >= n,
         NEW g, g = MarkAlloc(Merged(h, p, n), p)
  PROVE  /\ HeapOK(g) /\ SameFrame(h, g) /\ SameUse(h, g, {p})
         /\ InUse(g, p) /\ g.chunks[p].size = n
<1> DEFINE e == Gathered(h, p, n)
           m == Merged(h, p, n)
           c == Chunk(m.chunks[p].size, TRUE)
<1>1. e \in Nat /\ p \in Int
  BY GatheredFacts, ChunkFacts
<1>2. /\ HeapOK(m) /\ SameUse(h, m, {p})
      /\ m.start = h.start /\ m.size = h.size /\ m.offset = h.offset
      /\ p \in DOMAIN m.chunks
      /\ m.chunks[p].size = IF e - p > n THEN n ELSE e - p
  BY MergedUse
<1>3. /\ g = WithChunks(m, Put(m.chunks, p, c))
      /\ c.size = m.chunks[p].size /\ c.alloc \in BOOLEAN /\ c.alloc
  BY DEF MarkAlloc, Chunk
<1>4. e - p >= n
  OBVIOUS
<1> HIDE DEF e, m, c
<1>5. /\ HeapOK(g) /\ SameFrame(m, g) /\ SameUse(m, g, {p}) /\ InUse(g, p)
      /\ g.chunks[p].size = m.chunks[p].size
  <2>0. /\ HeapOK(m) /\ p \in DOMAIN m.chunks /\ g = WithChunks(m, Put(m.chunks, p, c))
        /\ c.size = m.chunks[p].size /\ c.alloc \in BOOLEAN
    BY <1>2, <1>3
  <2>1. /\ HeapOK(g) /\ SameFrame(m, g) /\ SameUse(m, g, {p})
        /\ p \in DOMAIN g.chunks /\ g.chunks[p] = c
    BY ONLY <2>0, FlagUse
  <2> QED
    BY <2>1, <1>3 DEF InUse
<1>6. SameFrame(h, g)
  BY <1>2, <1>5 DEF SameFrame
<1>7. SameUse(h, g, {p})
  BY <1>2, <1>5 DEF SameUse
<1>8. m.chunks[p].size = n
  BY <1>1, <1>2, <1>4
<1> QED
  BY <1>5, <1>6, <1>7, <1>8

\* memory::realloc_in_place inside a heap.
LEMMA ResizedUse ==
  ASSUME NEW h, HeapOK(h), NEW p, InUse(h, p), NEW n \in Nat, Multiple(n + MARK),
         Resizable(h, p, n), NEW g, g = Resized(h, p, n), ~Overrun(g)
  PROVE  /\ HeapOK(g) /\ SameFrame(h, g) /\ SameUse(h, g, {p})
         /\ InUse(g, p) /\ n <= g.chunks[p].size
<1>1. p \in DOMAIN h.chunks
  BY DEF InUse
<1>2. /\ p \in Int /\ h.chunks[p].size \in Nat /\ End(h, p) \in Int /\ CutEnd(h) \in Int
      /\ h.offset \in Nat /\ h.size \in Nat /\ p < End(h, p)
  BY <1>1, ChunkFacts DEF HeapOK, HeapTypes
<1>3. CASE h.chunks[p].size >= n
  <2>1. g = h
    BY <1>3, <1>2 DEF Resized
  <2> QED
    BY <2>1, <1>3, <1>2 DEF SameFrame, SameUse
<1>4. CASE h.chunks[p].size < n /\ End(h, p) = CutEnd(h)
  <2>1. g = Heap(h.start, h.size, h.offset + n - h.chunks[p].size,
                 Put(h.chunks, p, Chunk(n, h.chunks[p].alloc)))
    BY <1>4, <1>2 DEF Resized
  <2>2. p <= HeapEnd(h) - n
    BY DEF Resizable
  <2>3. /\ HeapOK(g)
        /\ g.start = h.start /\ g.size = h.size /\ g.offset > h.offset
        /\ DOMAIN g.chunks = DOMAIN h.chunks
        /\ g.chunks[p].alloc = h.chunks[p].alloc /\ g.chunks[p].size = n
        /\ \A q \in DOMAIN h.chunks : q # p => g.chunks[q] = h.chunks[q]
    BY <2>1, <2>2, <1>1, <1>4, LastGrows
  <2>4. SameFrame(h, g)
    <3>1. g.offset \in Nat /\ g.offset <= g.size
      BY <2>3 DEF HeapOK, HeapTypes
    <3> QED
      BY <3>1, <2>3, <1>2 DEF SameFrame
  <2>5. SameUse(h, g, {p}) /\ InUse(g, p)
    BY <2>3 DEF SameUse, InUse
  <2> QED
    BY <2>3, <2>4, <2>5
<1>5. CASE h.chunks[p].size < n /\ End(h, p) # CutEnd(h)
  <2> DEFINE e == Gathered(h, p, n)
  <2>1. g = MarkAlloc(Merged(h, p, n), p)
    BY <1>5, <1>2 DEF Resized
  <2>2. e - p >= n
    BY <1>5, <1>2 DEF Resizable
  <2>3. e \in Nat /\ e >= End(h, p)
    BY <1>1, GatheredFacts
  <2>4. e <= CutEnd(h)
    <3> SUFFICES ASSUME e > CutEnd(h) PROVE FALSE
      BY <2>3, <1>2
    <3>1. e - p <= n
      BY <1>1, GatheredOutside
    <3>2. e - p = n /\ e > p
      BY <3>1, <2>2, <2>3, <1>2
    <3> DEFINE m == Combined(h, p, n, e)
    <3>3. g = MarkAlloc(m, p)
      BY <2>1 DEF Merged
    <3>4. /\ m.start = h.start /\ m.offset = h.offset
          /\ p \in DOMAIN m.chunks /\ m.chunks[p].size = e - p
      <4>1. /\ m.start = h.start /\ m.size = h.size /\ m.offset = h.offset
            /\ \A q : q \in DOMAIN m.chunks <=>
                        \/ q \in DOMAIN h.chunks /\ (q <= p \/ q > e)
                        \/ e - p > n /\ q = p + n + MARK
            /\ m.chunks[p].size = (IF e - p > n THEN n ELSE e - p)
        <5>1. e - p > n => p + n + MARK <= e
          BY <3>2, <2>3, <1>2
        <5> HIDE DEF e
        <5> QED
          BY <5>1, <3>2, <2>3, <1>1, CombinedHeaders
      <4> HIDE DEF e, m
      <4> QED
        BY <4>1, <3>2, <2>3, <1>1, <1>2
    <3> HIDE DEF e, m
    <3>5. /\ g.start = m.start /\ g.offset = m.offset /\ p \in DOMAIN g.chunks
          /\ g.chunks[p].size = m.chunks[p].size
      BY <3>3 DEF MarkAlloc, WithChunks, Heap, Put, Chunk
    <3>6. End(g, p) = e /\ CutEnd(g) = CutEnd(h)
      BY <3>4, <3>5, <2>3, <1>2 DEF End, CutEnd
    <3> QED
      BY <3>5, <3>6 DEF Overrun
  <2>5. /\ HeapOK(g) /\ SameFrame(h, g) /\ SameUse(h, g, {p})
        /\ InUse(g, p) /\ g.chunks[p].size = n
    <3>1. Gathered(h, p, n) <= CutEnd(h) /\ Gathered(h, p, n) - p >= n
      BY <2>2, <2>4
    <3>2. HeapOK(h) /\ n \in Nat /\ Multiple(n + MARK)
      OBVIOUS
    <3>3. p \in Int /\ Gathered(h, p, n) \in Int
      BY <1>2, <2>3
    <3> HIDE DEF e
    <3> QED
      BY ONLY <3>1, <3>2, <3>3, <2>1, <1>1, TakenUse
  <2>6. n <= g.chunks[p].size
    BY ONLY <2>5, n \in Nat
  <2> QED
    BY ONLY <2>5, <2>6
<1>6. \/ h.chunks[p].size >= n
      \/ h.chunks[p].size < n /\ End(h, p) = CutEnd(h)
      \/ h.chunks[p].size < n /\ End(h, p) # CutEnd(h)
  BY ONLY <1>2, n \in Nat
<1> QED
  BY <1>3, <1>4, <1>5, <1>6

\* The types of the headers, where a block may reach past _offset.
LEMMA ResizedTypes ==
  ASSUME NEW h, HeapOK(h), NEW p, InUse(h, p), NEW n \in Nat, Multiple(n + MARK),
         Resizable(h, p, n), NEW g, g = Resized(h, p, n)
  PROVE  /\ SameFrame(h, g) /\ g.size \in Nat /\ g.offset \in Nat
         /\ \A q \in DOMAIN g.chunks : g.chunks[q].size \in Nat /\ g.chunks[q].alloc \in BOOLEAN
<1>1. CASE ~Overrun(g)
  <2>1. HeapOK(g) /\ SameFrame(h, g)
    BY <1>1, ResizedUse
  <2> QED
    BY <2>1, ChunkFacts DEF HeapOK, HeapTypes
<1>2. CASE Overrun(g)
  <2>1. p \in DOMAIN h.chunks
    BY DEF InUse
  <2>2. /\ p \in Int /\ h.chunks[p].size \in Nat /\ End(h, p) \in Int /\ CutEnd(h) \in Int
        /\ h.offset \in Nat /\ h.size \in Nat /\ p < End(h, p)
    BY <2>1, ChunkFacts DEF HeapOK, HeapTypes
  <2>3. PICK t \in DOMAIN g.chunks : End(g, t) > CutEnd(g)
    BY <1>2 DEF Overrun
  <2>4. ~HeapOK(g)
    <3> SUFFICES ASSUME HeapOK(g) PROVE FALSE
      OBVIOUS
    <3>1. End(g, t) <= CutEnd(g) /\ End(g, t) \in Int /\ CutEnd(g) \in Int
      BY ChunkFacts
    <3> QED
      BY <3>1, <2>3
  <2>5. h.chunks[p].size < n /\ End(h, p) # CutEnd(h)
    <3>1. ~(h.chunks[p].size >= n)
      <4> SUFFICES ASSUME h.chunks[p].size >= n PROVE FALSE
        OBVIOUS
      <4>1. g = h
        BY <2>2 DEF Resized
      <4> QED
        BY <4>1, <2>4
    <3>2. End(h, p) # CutEnd(h)
      <4> SUFFICES ASSUME End(h, p) = CutEnd(h) PROVE FALSE
        OBVIOUS
      <4>1. h.chunks[p].size < n
        BY <3>1, <2>2
      <4>2. g = Heap(h.start, h.size, h.offset + n - h.chunks[p].size,
                     Put(h.chunks, p, Chunk(n, h.chunks[p].alloc)))
        BY <4>1, <2>2 DEF Resized
      <4>3. p <= HeapEnd(h) - n
        BY DEF Resizable
      <4> QED
        BY <4>1, <4>2, <4>3, <2>1, <2>4, LastGrows
    <3> QED
      BY <3>1, <3>2, <2>2
  <2> DEFINE e == Gathered(h, p, n)
             m == Combined(h, p, n, e)
  <2>6. g = MarkAlloc(m, p)
    BY <2>5, <2>2 DEF Resized, Merged
  <2>7. e \in Nat /\ e >= End(h, p) /\ e - p >= n
    BY <2>1, <2>2, <2>5, GatheredFacts DEF Resizable
  <2>8. e > CutEnd(h)
    <3> SUFFICES ASSUME e <= CutEnd(h) PROVE FALSE
      BY <2>2, <2>7
    <3>1. g = MarkAlloc(Merged(h, p, n), p)
      BY <2>6 DEF Merged
    <3> QED
      BY <3>1, <2>1, <2>4, <2>7, TakenUse
  <2>9. e - p <= n
    BY <2>1, <2>8, GatheredOutside
  <2>10. e > p /\ m = Combined(h, p, n, e)
    BY <2>2, <2>7
  <2> HIDE DEF e, m
  <2>11. /\ m.start = h.start /\ m.size = h.size /\ m.offset = h.offset
         /\ \A q : q \in DOMAIN m.chunks <=>
                     \/ q \in DOMAIN h.chunks /\ (q <= p \/ q > e)
                     \/ e - p > n /\ q = p + n + MARK
         /\ m.chunks[p].size = (IF e - p > n THEN n ELSE e - p)
         /\ m.chunks[p].alloc = h.chunks[p].alloc
         /\ \A q \in DOMAIN h.chunks : (q < p \/ q > e) => m.chunks[q] = h.chunks[q]
    <3>1. e - p > n => p + n + MARK <= e
      BY <2>2, <2>7, <2>9
    <3>2. e \in Int
      BY <2>7
    <3> QED
      BY <3>1, <3>2, <2>1, <2>10, CombinedHeaders
  <2>12. /\ g.start = m.start /\ g.size = m.size /\ g.offset = m.offset
         /\ DOMAIN g.chunks = DOMAIN m.chunks \cup {p}
         /\ g.chunks[p] = Chunk(m.chunks[p].size, TRUE)
         /\ \A q \in DOMAIN m.chunks : q # p => g.chunks[q] = m.chunks[q]
    <3> DEFINE x == Chunk(m.chunks[p].size, TRUE)
    <3>1. /\ g.start = m.start /\ g.size = m.size /\ g.offset = m.offset
          /\ g.chunks = Put(m.chunks, p, x)
      BY <2>6 DEF MarkAlloc, WithChunks, Heap
    <3> HIDE DEF x
    <3>2. /\ DOMAIN g.chunks = DOMAIN m.chunks \cup {p} /\ g.chunks[p] = x
          /\ \A q \in DOMAIN m.chunks : q # p => g.chunks[q] = m.chunks[q]
      BY <3>1 DEF Put
    <3> QED
      BY <3>1, <3>2 DEF x
  <2>13. g.chunks[p].size \in Nat /\ g.chunks[p].alloc \in BOOLEAN
    <3>1. m.chunks[p].size \in Nat
      BY <2>2, <2>7, <2>9, <2>10, <2>11
    <3> QED
      BY <3>1, <2>12 DEF Chunk
  <2>14. ASSUME NEW q \in DOMAIN g.chunks, q # p
         PROVE  g.chunks[q].size \in Nat /\ g.chunks[q].alloc \in BOOLEAN
    <3>1. q \in DOMAIN h.chunks /\ (q <= p \/ q > e)
      BY <2>14, <2>2, <2>7, <2>9, <2>11, <2>12
    <3>2. q \in Int /\ h.chunks[q].size \in Nat /\ h.chunks[q].alloc \in BOOLEAN
      BY <3>1, ChunkFacts
    <3>3. q < p \/ q > e
      BY <3>1, <3>2, <2>2, <2>14
    <3>4. g.chunks[q] = h.chunks[q]
      BY <3>1, <3>3, <2>11, <2>12, <2>14
    <3> QED
      BY <3>2, <3>4
  <2> QED
    BY <2>2, <2>11, <2>12, <2>13, <2>14 DEF SameFrame
<1> QED
  BY <1>1, <1>2

-----------------------------------------------------------------------------
\* The search through the freed chunks.

\* In a full heap nothing is gathered behind _offset.
LEMMA GatheredFull ==
  ASSUME NEW h, HeapOK(h), h.offset = h.size, NEW p \in DOMAIN h.chunks, NEW n \in Nat
  PROVE  Gathered(h, p, n) <= CutEnd(h)
<1> DEFINE e == Gathered(h, p, n)
<1>1. e \in Ends(h, p) /\ e \in Nat
  BY GatheredFacts
<1>2. CutEnd(h) \in Int /\ HeapEnd(h) = CutEnd(h)
  BY ChunkFacts DEF CutEnd, HeapEnd
<1> SUFFICES e <= CutEnd(h)
  OBVIOUS
<1> HIDE DEF e
<1>3. CASE e \in {End(h, q) : q \in {r \in DOMAIN h.chunks : r >= p}}
  BY <1>3, ChunkFacts
<1>4. CASE e \in CutEnd(h) .. HeapEnd(h)
  BY <1>4, <1>2
<1> QED
  BY <1>1, <1>3, <1>4 DEF Ends

\* A free chunk that is merged in vain: what the chunks before it could not hold,
\* they still cannot, and nor can it.
LEMMA MergedInVain ==
  ASSUME NEW h, HeapOK(h), h.offset = h.size, NEW p \in DOMAIN h.chunks,
         ~h.chunks[p].alloc, NEW n \in Nat, Multiple(n + MARK),
         ~(Gathered(h, p, n) - p >= n), NEW g, g = Merged(h, p, n)
  PROVE  /\ HeapOK(g) /\ SameFrame(h, g) /\ SameUse(h, g, {})
         /\ p \in DOMAIN g.chunks /\ Hopeless(g, p, n)
         /\ \A q \in DOMAIN g.chunks :
              q < p => q \in DOMAIN h.chunks /\ (Hopeless(h, q, n) => Hopeless(g, q, n))
<1> DEFINE e == Gathered(h, p, n)
<1>1. e <= CutEnd(h)
  BY GatheredFull
<1>2. /\ HeapOK(g) /\ SameUse(h, g, {p})
      /\ g.start = h.start /\ g.size = h.size /\ g.offset = h.offset
      /\ p \in DOMAIN g.chunks /\ g.chunks[p].alloc = h.chunks[p].alloc
      /\ g.chunks[p].size = IF e - p > n THEN n ELSE e - p
  BY <1>1, MergedUse
<1>3. /\ e \in Nat /\ Stops(h, p, n, e) /\ e >= End(h, p)
  BY GatheredFacts
<1>4. PICK r \in DOMAIN h.chunks : p <= r /\ e = End(h, r)
  BY <1>1, GatheredInside
<1>5. \A q \in DOMAIN h.chunks : p < q /\ q < e => ~h.chunks[q].alloc
  BY GatheredFree
<1>6. g = Combined(h, p, n, e) /\ ~(e - p >= n)
  BY DEF Merged
<1> HIDE DEF e
<1>7. /\ p \in Int /\ p < End(h, p) /\ End(h, p) \in Int /\ MARK \in Int /\ MARK > 0
      /\ CutEnd(h) \in Int /\ HeapEnd(h) = CutEnd(h)
  BY ChunkFacts, Constants DEF HeapEnd, CutEnd
<1>8. e > p /\ ~(e - p > n) /\ e - p < n
  BY <1>3, <1>6, <1>7
<1>9. /\ \A q : q \in DOMAIN g.chunks <=> q \in DOMAIN h.chunks /\ (q <= p \/ q > e)
      /\ \A q \in DOMAIN h.chunks : (q < p \/ q > e) => g.chunks[q] = h.chunks[q]
  <2>1. e \in Int /\ (e - p > n => p + n + MARK <= e)
    BY <1>3, <1>8
  <2>2. /\ \A q : q \in DOMAIN g.chunks <=>
                    \/ q \in DOMAIN h.chunks /\ (q <= p \/ q > e)
                    \/ e - p > n /\ q = p + n + MARK
        /\ \A q \in DOMAIN h.chunks : (q < p \/ q > e) => g.chunks[q] = h.chunks[q]
    BY <2>1, <1>6, <1>8, CombinedHeaders
  <2> QED
    BY <2>2, <1>8
<1>10. End(g, p) = e
  BY <1>2, <1>3, <1>7, <1>8 DEF End
<1>11. \A q \in DOMAIN h.chunks : (q < p \/ q > e) => End(g, q) = End(h, q)
  BY <1>9 DEF End
<1>12. SameFrame(h, g)
  BY <1>2 DEF SameFrame
<1>13. SameUse(h, g, {})
  BY <1>2 DEF SameUse, InUse
<1>14. \A q \in DOMAIN h.chunks : q \in Int /\ End(h, q) \in Int /\ q < End(h, q)
                                  /\ End(h, q) <= CutEnd(h)
  BY ChunkFacts
<1>15. Hopeless(g, p, n)
  <2> SUFFICES ASSUME NEW q \in DOMAIN g.chunks, p <= q, FreeRun(g, p, End(g, q))
               PROVE  End(g, q) - p < n
    BY DEF Hopeless
  <2>1. CASE q = p
    BY <2>1, <1>8, <1>10
  <2>2. CASE q # p
    <3>1. q \in DOMAIN h.chunks /\ q > e /\ q \in Int
      BY <2>2, <1>7, <1>9, <1>14
    <3>2. End(g, q) = End(h, q)
      BY <3>1, <1>11
    <3>3. e + MARK \in DOMAIN h.chunks /\ h.chunks[e + MARK].alloc
      BY <1>3, <1>7, <1>8, <1>14, <3>1 DEF Stops
    <3>4. e + MARK <= q
      <4>1. r < q
        BY <1>4, <1>14, <3>1, <1>3
      <4> QED
        BY <4>1, <1>4, <3>1 DEF HeapOK, Apart
    <3>5. e + MARK \in DOMAIN g.chunks /\ g.chunks[e + MARK] = h.chunks[e + MARK]
      BY <3>3, <1>3, <1>7, <1>9
    <3>6. p <= e + MARK /\ e + MARK < End(g, q)
      BY <3>1, <3>2, <3>4, <1>3, <1>7, <1>8, <1>14
    <3> QED
      BY <3>3, <3>5, <3>6 DEF FreeRun
  <2> QED
    BY <2>1, <2>2
<1>16. ASSUME NEW q \in DOMAIN g.chunks, q < p, Hopeless(h, q, n)
       PROVE  Hopeless(g, q, n)
  <2> SUFFICES ASSUME NEW t \in DOMAIN g.chunks, q <= t, FreeRun(g, q, End(g, t))
               PROVE  End(g, t) - q < n
    BY DEF Hopeless
  <2>1. q \in DOMAIN h.chunks /\ q \in Int /\ t \in DOMAIN h.chunks /\ t \in Int
    BY <1>9, <1>14
  <2>2. PICK s \in DOMAIN h.chunks : End(h, s) = End(g, t) /\ q <= s
    <3>1. CASE t = p
      <4>1. End(h, r) = End(g, t) /\ q <= r
        BY <3>1, <1>4, <1>7, <1>10, <1>14, <1>16, <2>1
      <4> QED
        BY <4>1
    <3>2. CASE t # p
      <4>1. t < p \/ t > e
        BY <3>2, <2>1, <1>7, <1>9
      <4> QED
        BY <4>1, <2>1, <1>11
    <3> QED
      BY <3>1, <3>2
  <2>3. FreeRun(h, q, End(h, s))
    <3> SUFFICES ASSUME NEW u \in DOMAIN h.chunks, q <= u, u < End(h, s)
                 PROVE  ~h.chunks[u].alloc
      BY DEF FreeRun
    <3>1. CASE u \in DOMAIN g.chunks
      <4>1. ~g.chunks[u].alloc
        BY <3>1, <2>2 DEF FreeRun
      <4>2. u = p \/ u < p \/ u > e
        BY <3>1, <1>7, <1>9, <1>14
      <4> QED
        BY <4>1, <4>2, <1>9
    <3>2. CASE u \notin DOMAIN g.chunks
      <4>1. u \in Int /\ ~(u <= p \/ u > e)
        BY <3>2, <1>9, <1>14
      <4>2. u # e
        <5>1. r < u => End(h, r) + MARK <= u
          BY DEF HeapOK, Apart
        <5> QED
          BY <5>1, <4>1, <1>4, <1>7, <1>14, <1>3
      <4>3. p < u /\ u < e
        BY <4>1, <4>2, <1>3, <1>7
      <4> QED
        BY <4>3, <1>5
    <3> QED
      BY <3>1, <3>2
  <2> QED
    BY <2>2, <2>3, <1>16 DEF Hopeless
<1> QED
  BY <1>2, <1>9, <1>12, <1>13, <1>15, <1>16

\* A chunk in use holds nothing.
LEMMA InUseHopeless ==
  ASSUME NEW h, HeapOK(h), NEW p \in DOMAIN h.chunks, h.chunks[p].alloc, NEW n
  PROVE  Hopeless(h, p, n)
<1> SUFFICES ASSUME NEW q \in DOMAIN h.chunks, p <= q, FreeRun(h, p, End(h, q))
             PROVE  FALSE
  BY DEF Hopeless
<1>1. p \in Int /\ q \in Int /\ q < End(h, q) /\ End(h, q) \in Int
  BY ChunkFacts
<1>2. p <= p /\ p < End(h, q)
  BY <1>1
<1> QED
  BY <1>2 DEF FreeRun

\* next_ptr: the next chunk of a full heap, if there is one.
LEMMA NextChunk ==
  ASSUME NEW h, HeapOK(h), h.offset = h.size, NEW p \in DOMAIN h.chunks,
         NEW x, x = End(h, p) + MARK
  PROVE  /\ x < HeapEnd(h) => x \in DOMAIN h.chunks
         /\ x < HeapEnd(h) => \A q \in DOMAIN h.chunks : q < x => q <= p
         /\ x >= HeapEnd(h) => \A q \in DOMAIN h.chunks : q <= p
<1>1. /\ p \in Int /\ End(h, p) \in Int /\ CutEnd(h) \in Int /\ HeapEnd(h) = CutEnd(h)
      /\ MARK \in Int /\ MARK > 0 /\ End(h, p) <= CutEnd(h)
  BY ChunkFacts, Constants DEF HeapEnd, CutEnd
<1>2. End(h, p) = CutEnd(h) \/ x \in DOMAIN h.chunks
  BY DEF HeapOK, Linked
<1>3. ASSUME NEW q \in DOMAIN h.chunks
      PROVE  /\ q \in Int /\ q < CutEnd(h) /\ (p < q => x <= q)
  <2>1. q \in Int /\ End(h, q) \in Int /\ q < End(h, q) /\ End(h, q) <= CutEnd(h)
    BY ChunkFacts
  <2>2. p < q => x <= q
    BY DEF HeapOK, Apart
  <2> QED
    BY <2>1, <2>2, <1>1
<1>4. x < HeapEnd(h) => x \in DOMAIN h.chunks
  BY <1>1, <1>2
<1>5. \A q \in DOMAIN h.chunks : q < x => q <= p
  BY <1>1, <1>3
<1>6. x >= HeapEnd(h) => \A q \in DOMAIN h.chunks : q <= p
  BY <1>1, <1>3
<1> QED
  BY <1>4, <1>5, <1>6

\* Every full heap has a first chunk.
LEMMA FirstChunk ==
  ASSUME NEW h, HeapOK(h), h.offset = h.size, NEW x, x = h.start + MARK
  PROVE  x \in DOMAIN h.chunks /\ \A q \in DOMAIN h.chunks : ~(q < x)
<1>1. x \in DOMAIN h.chunks
  BY DEF HeapOK, HeapTypes, Ended
<1>2. \A q \in DOMAIN h.chunks : q \in Int /\ x <= q /\ x \in Int
  BY <1>1, ChunkFacts
<1> QED
  BY <1>1, <1>2

-----------------------------------------------------------------------------
\* All heaps.

\* An address in two heaps is in the same one.
LEMMA OneHeap ==
  ASSUME NEW hs, NEW bl, Consistent(hs, bl), NEW j \in LiveIn(hs), NEW k \in LiveIn(hs),
         NEW p, is_in_heap(hs[j], p), is_in_heap(hs[k], p), p \in Int
  PROVE  j = k
<1>1. /\ j \in Int /\ k \in Int /\ MARK \in Int /\ MARK > 0
      /\ hs[j].start \in Int /\ hs[j].size \in Int /\ hs[k].start \in Int /\ hs[k].size \in Int
  BY Constants DEF Consistent, LiveIn, HeapOK, HeapTypes
<1>2. /\ j < k => HeapEnd(hs[j]) <= hs[k].start
      /\ k < j => HeapEnd(hs[k]) <= hs[j].start
  BY DEF Consistent
<1> QED
  BY <1>1, <1>2 DEF is_in_heap, HeapEnd

\* A chunk is in its heap.
LEMMA ChunkInHeap ==
  ASSUME NEW h, HeapOK(h), NEW p \in DOMAIN h.chunks
  PROVE  p \in Int /\ p # 0 /\ is_in_heap(h, p)
<1>1. /\ p \in Int /\ h.start \in Nat \ {0} /\ h.start + MARK <= p /\ MARK \in Int /\ MARK > 0
      /\ p < End(h, p) /\ End(h, p) <= CutEnd(h) /\ CutEnd(h) <= HeapEnd(h)
      /\ End(h, p) \in Int /\ CutEnd(h) \in Int /\ HeapEnd(h) \in Int
  BY ChunkFacts, Constants DEF HeapOK, HeapTypes
<1> QED
  BY <1>1 DEF is_in_heap, HeapEnd

\* One heap is replaced by another in the same place.
LEMMA ReplaceFacts ==
  ASSUME NEW hs, NEW bl, Consistent(hs, bl), NEW k \in LiveIn(hs),
         NEW g, HeapOK(g), SameFrame(hs[k], g), NEW gs, gs = [hs EXCEPT ![k] = g]
  PROVE  /\ DOMAIN gs = 0 .. HEAPS - 1 /\ gs[k] = g
         /\ \A j \in 0 .. HEAPS - 1 : j # k => gs[j] = hs[j]
         /\ LiveIn(gs) = LiveIn(hs)
         /\ \A j \in LiveIn(gs) : HeapOK(gs[j])
         /\ \A i, j \in LiveIn(gs) : i < j => HeapEnd(gs[i]) <= gs[j].start
<1>1. DOMAIN hs = 0 .. HEAPS - 1 /\ k \in 0 .. HEAPS - 1
  BY DEF Consistent, LiveIn
<1>2. /\ DOMAIN gs = 0 .. HEAPS - 1 /\ gs[k] = g
      /\ \A j \in 0 .. HEAPS - 1 : j # k => gs[j] = hs[j]
  BY <1>1
<1>3. \A j \in 0 .. HEAPS - 1 : gs[j].start = hs[j].start /\ HeapEnd(gs[j]) = HeapEnd(hs[j])
  BY <1>2 DEF SameFrame, HeapEnd
<1>4. LiveIn(gs) = LiveIn(hs)
  BY <1>3 DEF LiveIn, is_init
<1>5. \A j \in LiveIn(gs) : HeapOK(gs[j])
  BY <1>2, <1>4 DEF Consistent, LiveIn
<1>6. \A i, j \in LiveIn(gs) : i < j => HeapEnd(gs[i]) <= gs[j].start
  BY <1>3, <1>4 DEF Consistent, LiveIn
<1> QED
  BY <1>2, <1>4, <1>5, <1>6

\* The chunks in use stay the same.
LEMMA ConsistentSame ==
  ASSUME NEW hs, NEW bl, Consistent(hs, bl), NEW k \in LiveIn(hs),
         NEW g, HeapOK(g), SameFrame(hs[k], g), SameUse(hs[k], g, {})
  PROVE  Consistent([hs EXCEPT ![k] = g], bl)
<1> DEFINE gs == [hs EXCEPT ![k] = g]
<1>1. /\ DOMAIN gs = 0 .. HEAPS - 1 /\ gs[k] = g
      /\ \A j \in 0 .. HEAPS - 1 : j # k => gs[j] = hs[j]
      /\ LiveIn(gs) = LiveIn(hs)
      /\ \A j \in LiveIn(gs) : HeapOK(gs[j])
      /\ \A i, j \in LiveIn(gs) : i < j => HeapEnd(gs[i]) <= gs[j].start
  BY ReplaceFacts
<1> HIDE DEF gs
<1>2. \A j \in LiveIn(gs) : j \in 0 .. HEAPS - 1
  BY DEF LiveIn
<1>3. \A j \in LiveIn(gs) : \A q :
        /\ InUse(gs[j], q) <=> InUse(hs[j], q)
        /\ InUse(hs[j], q) => gs[j].chunks[q].size = hs[j].chunks[q].size
  BY <1>1, <1>2 DEF SameUse
<1>4. \A j \in LiveIn(gs) : \A p \in DOMAIN gs[j].chunks :
        InUse(gs[j], p) => p \in DOMAIN bl /\ bl[p] <= gs[j].chunks[p].size
  <2> SUFFICES ASSUME NEW j \in LiveIn(gs), NEW p, InUse(gs[j], p)
               PROVE  p \in DOMAIN bl /\ bl[p] <= gs[j].chunks[p].size
    OBVIOUS
  <2>1. InUse(hs[j], p) /\ j \in LiveIn(hs) /\ p \in DOMAIN hs[j].chunks
    BY <1>1, <1>3 DEF InUse
  <2> QED
    BY <2>1, <1>3 DEF Consistent
<1>5. \A p \in DOMAIN bl : \E j \in LiveIn(gs) : InUse(gs[j], p)
  BY <1>1, <1>3 DEF Consistent
<1> QED
  BY <1>1, <1>4, <1>5 DEF Consistent, gs

\* A chunk is given to the program, or keeps being its, with n bytes.
LEMMA ConsistentTaken ==
  ASSUME NEW hs, NEW bl, Consistent(hs, bl), NEW k \in LiveIn(hs),
         NEW g, HeapOK(g), SameFrame(hs[k], g),
         NEW p, SameUse(hs[k], g, {p}), InUse(g, p), NEW n, n <= g.chunks[p].size
  PROVE  Consistent([hs EXCEPT ![k] = g], Put(bl, p, n))
<1> DEFINE gs == [hs EXCEPT ![k] = g]
           cl == Put(bl, p, n)
<1>1. /\ DOMAIN gs = 0 .. HEAPS - 1 /\ gs[k] = g
      /\ \A j \in 0 .. HEAPS - 1 : j # k => gs[j] = hs[j]
      /\ LiveIn(gs) = LiveIn(hs)
      /\ \A j \in LiveIn(gs) : HeapOK(gs[j])
      /\ \A i, j \in LiveIn(gs) : i < j => HeapEnd(gs[i]) <= gs[j].start
  BY ReplaceFacts
<1>2. /\ DOMAIN cl = DOMAIN bl \cup {p} /\ cl[p] = n
      /\ \A q \in DOMAIN bl : q # p => cl[q] = bl[q]
  BY DEF Put
<1> HIDE DEF gs, cl
<1>3. \A j \in LiveIn(gs) : j \in 0 .. HEAPS - 1
  BY DEF LiveIn
<1>4. \A j \in LiveIn(gs) : \A q : q # p =>
        /\ InUse(gs[j], q) <=> InUse(hs[j], q)
        /\ InUse(hs[j], q) => gs[j].chunks[q].size = hs[j].chunks[q].size
  BY <1>1, <1>3 DEF SameUse
\* No other heap has a chunk at p.
<1>5. \A j \in LiveIn(gs) : j # k => p \notin DOMAIN hs[j].chunks
  <2> SUFFICES ASSUME NEW j \in LiveIn(gs), p \in DOMAIN hs[j].chunks PROVE j = k
    OBVIOUS
  <2>1. j \in LiveIn(hs) /\ HeapOK(hs[j])
    BY <1>1 DEF Consistent
  <2>2. p \in Int /\ is_in_heap(hs[j], p)
    BY <2>1, ChunkInHeap
  <2>3. is_in_heap(g, p)
    BY ChunkInHeap DEF InUse
  <2>4. is_in_heap(hs[k], p)
    BY <2>3 DEF is_in_heap, SameFrame
  <2> QED
    BY <2>1, <2>2, <2>4, OneHeap
<1>6. \A j \in LiveIn(gs) : \A q \in DOMAIN gs[j].chunks :
        InUse(gs[j], q) => q \in DOMAIN cl /\ cl[q] <= gs[j].chunks[q].size
  <2> SUFFICES ASSUME NEW j \in LiveIn(gs), NEW q, InUse(gs[j], q)
               PROVE  q \in DOMAIN cl /\ cl[q] <= gs[j].chunks[q].size
    OBVIOUS
  <2>1. CASE q = p
    <3>1. j = k
      BY <2>1, <1>1, <1>3, <1>5 DEF InUse
    <3> QED
      BY <2>1, <3>1, <1>1, <1>2
  <2>2. CASE q # p
    <3>1. InUse(hs[j], q) /\ j \in LiveIn(hs) /\ q \in DOMAIN hs[j].chunks
      BY <2>2, <1>1, <1>4 DEF InUse
    <3> QED
      BY <2>2, <3>1, <1>2, <1>4 DEF Consistent
  <2> QED
    BY <2>1, <2>2
<1>7. \A q \in DOMAIN cl : \E j \in LiveIn(gs) : InUse(gs[j], q)
  <2> SUFFICES ASSUME NEW q \in DOMAIN cl PROVE \E j \in LiveIn(gs) : InUse(gs[j], q)
    OBVIOUS
  <2>1. CASE q = p
    BY <2>1, <1>1
  <2>2. CASE q # p
    <3>1. PICK j \in LiveIn(hs) : InUse(hs[j], q)
      BY <2>2, <1>2 DEF Consistent
    <3> QED
      BY <2>2, <3>1, <1>1, <1>4
  <2> QED
    BY <2>1, <2>2
<1> QED
  BY <1>1, <1>6, <1>7 DEF Consistent, gs, cl

\* A chunk is given back.
LEMMA ConsistentFreed ==
  ASSUME NEW hs, NEW bl, Consistent(hs, bl), NEW k \in LiveIn(hs),
         NEW g, HeapOK(g), SameFrame(hs[k], g),
         NEW p \in DOMAIN hs[k].chunks, SameUse(hs[k], g, {p}), ~InUse(g, p)
  PROVE  Consistent([hs EXCEPT ![k] = g], Without(bl, p))
<1> DEFINE gs == [hs EXCEPT ![k] = g]
           cl == Without(bl, p)
<1>1. /\ DOMAIN gs = 0 .. HEAPS - 1 /\ gs[k] = g
      /\ \A j \in 0 .. HEAPS - 1 : j # k => gs[j] = hs[j]
      /\ LiveIn(gs) = LiveIn(hs)
      /\ \A j \in LiveIn(gs) : HeapOK(gs[j])
      /\ \A i, j \in LiveIn(gs) : i < j => HeapEnd(gs[i]) <= gs[j].start
  BY ReplaceFacts
<1>2. /\ DOMAIN cl = DOMAIN bl \ {p}
      /\ \A q \in DOMAIN cl : cl[q] = bl[q]
  BY DEF Without
<1> HIDE DEF gs, cl
<1>3. \A j \in LiveIn(gs) : j \in 0 .. HEAPS - 1
  BY DEF LiveIn
<1>4. \A j \in LiveIn(gs) : \A q : q # p =>
        /\ InUse(gs[j], q) <=> InUse(hs[j], q)
        /\ InUse(hs[j], q) => gs[j].chunks[q].size = hs[j].chunks[q].size
  BY <1>1, <1>3 DEF SameUse
<1>5. \A j \in LiveIn(gs) : ~InUse(gs[j], p)
  <2> SUFFICES ASSUME NEW j \in LiveIn(gs), InUse(gs[j], p) PROVE FALSE
    OBVIOUS
  <2>1. j # k
    BY <1>1
  <2>2. j \in LiveIn(hs) /\ HeapOK(hs[j]) /\ p \in DOMAIN hs[j].chunks /\ HeapOK(hs[k])
    BY <2>1, <1>1, <1>3 DEF Consistent, InUse
  <2>3. p \in Int /\ is_in_heap(hs[j], p) /\ is_in_heap(hs[k], p)
    BY <2>2, ChunkInHeap
  <2> QED
    BY <2>1, <2>2, <2>3, OneHeap
<1>6. \A j \in LiveIn(gs) : \A q \in DOMAIN gs[j].chunks :
        InUse(gs[j], q) => q \in DOMAIN cl /\ cl[q] <= gs[j].chunks[q].size
  <2> SUFFICES ASSUME NEW j \in LiveIn(gs), NEW q, InUse(gs[j], q)
               PROVE  q \in DOMAIN cl /\ cl[q] <= gs[j].chunks[q].size
    OBVIOUS
  <2>1. q # p
    BY <1>5
  <2>2. InUse(hs[j], q) /\ j \in LiveIn(hs) /\ q \in DOMAIN hs[j].chunks
    BY <2>1, <1>1, <1>4 DEF InUse
  <2> QED
    BY <2>1, <2>2, <1>2, <1>4 DEF Consistent
<1>7. \A q \in DOMAIN cl : \E j \in LiveIn(gs) : InUse(gs[j], q)
  <2> SUFFICES ASSUME NEW q \in DOMAIN cl PROVE \E j \in LiveIn(gs) : InUse(gs[j], q)
    OBVIOUS
  <2>1. PICK j \in LiveIn(hs) : InUse(hs[j], q)
    BY <1>2 DEF Consistent
  <2>2. q # p
    BY <1>2
  <2> QED
    BY <2>1, <2>2, <1>1, <1>4
<1> QED
  BY <1>1, <1>6, <1>7 DEF Consistent, gs, cl

\* The heaps that have been initialized are the ones up to the last.
LEMMA LiveHeaps ==
  ASSUME Placed, Managed
  PROVE  /\ DOMAIN heaps = 0 .. HEAPS - 1 /\ HEAPS \in Int /\ HEAPS >= 2
         /\ Last \in 0 .. 1 /\ actual \in 0 .. HEAPS /\ active \in 0 .. HEAPS
         /\ is_init(heaps[0]) => LiveIn(heaps) = 0 .. Last /\ Last < actual
         /\ ~is_init(heaps[0]) => LiveIn(heaps) = {}
<1>1. HEAPS \in Int /\ HEAPS >= 2
  BY Constants
<1>2. Last \in 0 .. 1 /\ (Last = 1 <=> is_init(heaps[1]))
  BY DEF Last
<1>3. \A k \in 0 .. HEAPS - 1 : k = 0 \/ k = 1 \/ ~is_init(heaps[k])
  BY <1>1 DEF Placed
<1>4. is_init(heaps[0]) => Last < actual /\ actual \in 0 .. HEAPS /\ active \in 0 .. HEAPS
  BY <1>1, <1>2 DEF Managed, Growing, Full
<1>5. is_init(heaps[0]) => LiveIn(heaps) = 0 .. Last
  BY <1>1, <1>2, <1>3 DEF LiveIn
<1>6. ~is_init(heaps[0]) => LiveIn(heaps) = {} /\ actual = 0 /\ active = 0
  BY <1>1, <1>3 DEF LiveIn, Placed
<1> QED
  BY <1>1, <1>2, <1>4, <1>5, <1>6 DEF Placed

\* The heap that free and realloc find for a block is the one that holds it.
LEMMA HeapOfFacts ==
  ASSUME Placed, Managed, Consistent(heaps, blocks), NEW p \in DOMAIN blocks
  PROVE  /\ HeapOf(p) \in LiveIn(heaps) /\ InUse(heaps[HeapOf(p)], p)
         /\ is_init(heaps[0])
<1>1. PICK k \in LiveIn(heaps) : InUse(heaps[k], p)
  BY DEF Consistent
<1>2. is_init(heaps[0]) /\ LiveIn(heaps) = 0 .. Last /\ Last < actual /\ Last \in 0 .. 1
      /\ actual \in Int
  BY <1>1, LiveHeaps
<1>3. HeapOK(heaps[k]) /\ p \in DOMAIN heaps[k].chunks
  BY <1>1 DEF Consistent, InUse
<1>4. p \in Int /\ is_in_heap(heaps[k], p) /\ is_init(heaps[k])
  BY <1>3, ChunkInHeap DEF LiveIn
<1> DEFINE P(i) == /\ is_init(heaps[i]) /\ is_in_heap(heaps[i], p)
                   /\ \A j \in 0 .. i - 1 : ~is_in_heap(heaps[j], p)
<1>5. k \in 0 .. actual - 1 /\ k \in Int
  BY <1>2
<1>6. \A j \in 0 .. k - 1 : ~is_in_heap(heaps[j], p)
  <2> SUFFICES ASSUME NEW j \in 0 .. k - 1, is_in_heap(heaps[j], p) PROVE FALSE
    OBVIOUS
  <2>1. j \in LiveIn(heaps) /\ j # k
    BY <1>2, <1>5
  <2> QED
    BY <2>1, <1>4, OneHeap
<1>7. HeapOf(p) \in 0 .. actual - 1 /\ P(HeapOf(p))
  <2>1. \E i \in 0 .. actual - 1 : P(i)
    BY <1>4, <1>5, <1>6
  <2>2. HeapOf(p) = CHOOSE i \in 0 .. actual - 1 : P(i)
    BY DEF HeapOf
  <2> HIDE DEF P
  <2> QED
    BY <2>1, <2>2, Zenon
<1>8. ~(k < HeapOf(p))
  BY <1>4, <1>5, <1>7
<1>9. ~(HeapOf(p) < k)
  BY <1>5, <1>6, <1>7
<1>10. HeapOf(p) = k
  BY <1>5, <1>7, <1>8, <1>9
<1> QED
  BY <1>1, <1>2, <1>10

-----------------------------------------------------------------------------
\* The steps.

\* Blocks with the same addresses and sizes are the same.
LEMMA ConsistentBlocks ==
  ASSUME NEW hs, NEW bl, NEW cl, Consistent(hs, bl), DOMAIN cl = DOMAIN bl,
         \A p \in DOMAIN bl : cl[p] = bl[p]
  PROVE  Consistent(hs, cl)
  BY DEF Consistent

\* The heaps stay where they are, and full ones full.
LEMMA FrameStep ==
  ASSUME Placed, Managed, DOMAIN heaps' = 0 .. HEAPS - 1,
         \A j \in 0 .. HEAPS - 1 : SameFrame(heaps[j], heaps'[j]),
         UNCHANGED <<memory, initial, actual, active>>,
         freeheap' = freeheap \/ (Full /\ freeheap' \in 0 .. Last)
  PROVE  /\ Placed' /\ Managed' /\ Last' = Last
         /\ Growing => Growing' \/ Full
         /\ Full => Full'
         /\ LiveIn(heaps') = LiveIn(heaps)
<1>1. HEAPS \in Int /\ HEAPS >= 2 /\ Last \in 0 .. 1
  BY LiveHeaps
<1>2. \A j \in 0 .. HEAPS - 1 :
        /\ heaps'[j].start = heaps[j].start /\ heaps'[j].size = heaps[j].size
        /\ is_init(heaps'[j]) <=> is_init(heaps[j])
        /\ HeapEnd(heaps'[j]) = HeapEnd(heaps[j])
        /\ heaps[j].offset = heaps[j].size => heaps'[j].offset = heaps'[j].size
  BY DEF SameFrame, is_init, HeapEnd
<1>3. Last' = Last
  BY <1>1, <1>2 DEF Last
<1>4. LiveIn(heaps') = LiveIn(heaps)
  BY <1>2 DEF LiveIn
<1>5. Full => Full'
  BY <1>1, <1>2, <1>3 DEF Full, memory
<1>6. Growing => Growing' \/ Full
  BY <1>3 DEF Growing
<1>7. is_init(heaps[0]) \/ freeheap' = freeheap
  <2>1. Full => is_init(heaps[0])
    BY <1>1 DEF Full, Placed
  <2> QED
    BY <2>1
<1>8. Placed'
  BY <1>1, <1>2, <1>7 DEF Placed, memory
<1>9. Managed'
  BY <1>1, <1>2, <1>5, <1>6 DEF Managed
<1> QED
  BY <1>3, <1>4, <1>5, <1>6, <1>8, <1>9

\* The types follow from consistency.
LEMMA TypedStep ==
  ASSUME NEW hs, NEW bl, Consistent(hs, bl), \A p \in DOMAIN bl : bl[p] \in Nat
  PROVE  TypedHeaps(hs, bl)
<1>1. ASSUME NEW k \in LiveIn(hs)
      PROVE  /\ hs[k].size \in Nat /\ hs[k].offset \in Nat
             /\ \A p \in DOMAIN hs[k].chunks :
                  hs[k].chunks[p].size \in Nat /\ hs[k].chunks[p].alloc \in BOOLEAN
  <2>1. HeapOK(hs[k])
    BY DEF Consistent
  <2> QED
    BY <2>1, ChunkFacts DEF HeapOK, HeapTypes
<1>2. ASSUME NEW p \in DOMAIN bl PROVE p \in Nat \ {NULL}
  <2>1. PICK k \in LiveIn(hs) : InUse(hs[k], p)
    BY DEF Consistent
  <2>2. HeapOK(hs[k]) /\ p \in DOMAIN hs[k].chunks
    BY <2>1 DEF Consistent, InUse
  <2>3. p \in Int /\ hs[k].start \in Nat \ {0} /\ hs[k].start + MARK <= p /\ MARK \in Int /\ MARK > 0
    BY <2>2, ChunkFacts, Constants DEF HeapOK, HeapTypes
  <2> QED
    BY <2>3 DEF NULL
<1> QED
  BY <1>1, <1>2 DEF TypedHeaps

\* A heap is in the same place as itself.
LEMMA SameFrameSelf ==
  ASSUME NEW h PROVE SameFrame(h, h)
  BY DEF SameFrame

\* malloc ends with chunk p of heap k.
LEMMA AnswerOK ==
  ASSUME IInv, pc # "idle", NEW k \in LiveIn(heaps), NEW g, HeapOK(g),
         SameFrame(heaps[k], g), NEW p, SameUse(heaps[k], g, {p}), InUse(g, p),
         ~InUse(heaps[k], p), Needed <= g.chunks[p].size,
         Answered([heaps EXCEPT ![k] = g], p),
         UNCHANGED <<memory, initial, actual, active, freeheap>>
  PROVE  IInv'
<1> DEFINE hs == [heaps EXCEPT ![k] = g]
           n == call.size
           bl == Put(blocks, p, n)
<1>1. /\ Placed /\ Managed /\ Consistent(heaps, blocks) /\ status = "ok"
      /\ n \in Nat \ {0} /\ (call.ptr = NULL \/ call.ptr \in DOMAIN blocks)
      /\ \A q \in DOMAIN blocks : q \in Nat \ {NULL} /\ blocks[q] \in Nat
  BY DEF IInv, Searching, Typed, TypedHeaps
<1>2. p \in Int /\ p # 0 /\ is_in_heap(g, p) /\ p \in DOMAIN g.chunks
  BY ChunkInHeap DEF InUse
<1>3. n <= g.chunks[p].size
  <2>1. Needed \in Nat /\ Needed >= n
    BY <1>1, AdjustedFacts DEF Needed
  <2>2. g.chunks[p].size \in Nat
    BY <1>2, ChunkFacts
  <2> QED
    BY <1>1, <2>1, <2>2
<1>4. Consistent(hs, bl)
  BY <1>1, <1>3, ConsistentTaken
<1>5. /\ DOMAIN hs = 0 .. HEAPS - 1 /\ hs[k] = g
      /\ \A j \in 0 .. HEAPS - 1 : j # k => hs[j] = heaps[j]
      /\ LiveIn(hs) = LiveIn(heaps)
  <2>1. DOMAIN heaps = 0 .. HEAPS - 1 /\ k \in 0 .. HEAPS - 1
    BY <1>1 DEF Consistent, LiveIn
  <2>2. /\ DOMAIN hs = 0 .. HEAPS - 1 /\ hs[k] = g
        /\ \A j \in 0 .. HEAPS - 1 : j # k => hs[j] = heaps[j]
    BY ONLY <2>1
  <2> HIDE DEF hs
  <2>3. \A j \in 0 .. HEAPS - 1 : hs[j].start = heaps[j].start
    BY ONLY <2>2, SameFrame(heaps[k], g) DEF SameFrame
  <2>4. LiveIn(hs) = LiveIn(heaps)
    BY ONLY <2>3 DEF LiveIn, is_init
  <2> QED
    BY <2>2, <2>4
<1>6. p \notin DOMAIN blocks
  <2> SUFFICES ASSUME p \in DOMAIN blocks PROVE FALSE
    OBVIOUS
  <2>1. PICK j \in LiveIn(heaps) : InUse(heaps[j], p)
    BY <1>1 DEF Consistent
  <2>2. HeapOK(heaps[j]) /\ p \in DOMAIN heaps[j].chunks
    BY <1>1, <2>1 DEF Consistent, InUse
  <2>3. is_in_heap(heaps[j], p)
    BY <2>2, ChunkInHeap
  <2>4. is_in_heap(heaps[k], p)
    BY <1>2 DEF is_in_heap, SameFrame
  <2>5. j = k
    BY <1>1, <1>2, <2>3, <2>4, OneHeap
  <2> QED
    BY <2>1, <2>5
<1>7. /\ DOMAIN bl = DOMAIN blocks \cup {p} /\ bl[p] = n
      /\ \A q \in DOMAIN blocks : bl[q] = blocks[q]
  BY <1>6 DEF Put
<1>8. \A j \in 0 .. HEAPS - 1 : SameFrame(heaps[j], hs[j])
  BY <1>5, SameFrameSelf
<1>9. /\ heaps' = IF call.ptr # NULL THEN mm_free(hs, call.ptr) ELSE hs
      /\ blocks' = Put(Without(blocks, call.ptr), p, n)
      /\ ret' = Answer(n, p) /\ status' = status /\ pc' = "idle"
  BY <1>2 DEF Answered, NULL, Done
<1> HIDE DEF hs, bl
<1>10. /\ DOMAIN blocks' = (DOMAIN blocks \ {call.ptr}) \cup {p} /\ blocks'[p] = n
       /\ \A q \in DOMAIN blocks : q # p /\ q # call.ptr => blocks'[q] = blocks[q]
  BY <1>9 DEF Put, Without
<1>11. /\ Consistent(heaps', blocks') /\ DOMAIN heaps' = 0 .. HEAPS - 1
       /\ \A j \in 0 .. HEAPS - 1 : SameFrame(heaps[j], heaps'[j])
  <2>1. CASE call.ptr = NULL
    <3>1. heaps' = hs
      BY <1>9, <2>1
    <3>2. DOMAIN blocks' = DOMAIN bl /\ \A q \in DOMAIN bl : blocks'[q] = bl[q]
      BY <1>1, <1>6, <1>7, <1>10, <2>1
    <3>3. Consistent(hs, blocks')
      BY <1>4, <3>2, ConsistentBlocks
    <3> QED
      BY <3>1, <3>3, <1>5, <1>8
  <2>2. CASE call.ptr # NULL
    <3> DEFINE t == call.ptr
               i == HeapOf(t)
               f == mem_free(hs[i], t)
               fl == Without(bl, t)
    <3>1. t \in DOMAIN blocks /\ t # p
      BY <1>1, <1>6, <2>2
    <3>2. i \in LiveIn(heaps) /\ InUse(heaps[i], t)
      BY <1>1, <3>1, HeapOfFacts
    <3>3. heaps' = [hs EXCEPT ![i] = f]
      BY <1>9, <2>2 DEF mm_free
    <3>3a. f = mem_free(hs[i], t) /\ fl = Without(bl, t)
      OBVIOUS
    <3> HIDE DEF i, f, fl, t
    <3>4. i \in LiveIn(hs) /\ InUse(hs[i], t) /\ i \in 0 .. HEAPS - 1
      <4>1. i \in LiveIn(hs) /\ i \in 0 .. HEAPS - 1
        BY <3>2, <1>5 DEF LiveIn
      <4>2. CASE i = k
        BY <4>2, <3>1, <3>2, <1>5, <4>1 DEF SameUse
      <4>3. CASE i # k
        BY <4>3, <3>2, <1>5, <4>1
      <4> QED
        BY <4>2, <4>3
    <3>5. HeapOK(hs[i]) /\ t \in DOMAIN hs[i].chunks
      BY <1>4, <3>4 DEF Consistent, InUse
    <3>6. HeapOK(f) /\ SameFrame(hs[i], f) /\ SameUse(hs[i], f, {t}) /\ ~InUse(f, t)
      BY <3>3a, <3>5, FreeUse
    <3>7. Consistent(heaps', fl)
      BY <3>3, <3>3a, <3>4, <3>5, <3>6, <1>4, ConsistentFreed
    <3>8. DOMAIN fl = DOMAIN bl \ {t} /\ \A q \in DOMAIN fl : fl[q] = bl[q]
      BY <3>3a DEF Without
    <3>9. DOMAIN blocks' = DOMAIN fl /\ \A q \in DOMAIN fl : blocks'[q] = fl[q]
      BY <3>1, <3>8, <1>6, <1>7, <1>10 DEF t
    <3>10. Consistent(heaps', blocks')
      BY <3>7, <3>9, ConsistentBlocks
    <3>11. /\ DOMAIN heaps' = 0 .. HEAPS - 1 /\ heaps'[i] = f
           /\ \A j \in 0 .. HEAPS - 1 : j # i => heaps'[j] = hs[j]
      BY <3>3, <3>4, <1>5
    <3>12. \A j \in 0 .. HEAPS - 1 : SameFrame(heaps[j], heaps'[j])
      <4> TAKE j \in 0 .. HEAPS - 1
      <4>1. SameFrame(heaps[j], hs[j])
        BY <1>8
      <4>2. SameFrame(hs[j], heaps'[j])
        BY <3>6, <3>11, SameFrameSelf
      <4> QED
        BY <4>1, <4>2 DEF SameFrame
    <3> QED
      BY <3>10, <3>11, <3>12
  <2> QED
    BY <2>1, <2>2
<1>12. Placed' /\ Managed'
  BY <1>1, <1>11, FrameStep
<1>13. \A q \in DOMAIN blocks' : blocks'[q] \in Nat
  BY <1>1, <1>10
<1>14. Typed'
  BY <1>1, <1>9, <1>11, <1>13, TypedStep DEF Typed
<1>15. Searching'
  BY <1>9 DEF Searching
<1>16. Refused'
  BY <1>2, <1>9 DEF Refused, Answer, NULL
<1> QED
  BY <1>11, <1>12, <1>14, <1>15, <1>16 DEF IInv

\* At the start there is no heap.
LEMMA InitOK == Init => IInv
<1> SUFFICES ASSUME Init PROVE IInv
  OBVIOUS
<1>1. /\ \A k \in 0 .. HEAPS - 1 : ~is_init(heaps[k])
      /\ DOMAIN heaps = 0 .. HEAPS - 1 /\ HEAPS \in Int /\ HEAPS >= 2
  BY Constants DEF Init, NoHeap, Heap, is_init
<1>2. ~is_init(heaps[0]) /\ ~is_init(heaps[1]) /\ LiveIn(heaps) = {}
  BY <1>1 DEF LiveIn
<1>3. DOMAIN blocks = {}
  BY DEF Init, Empty
<1>4. Consistent(heaps, blocks)
  BY <1>1, <1>2, <1>3 DEF Consistent
<1>5. Placed
  BY <1>1, <1>2, Constants DEF Placed, Init
<1>6. Managed
  BY <1>2 DEF Managed
<1>7. Typed
  BY <1>2, <1>3 DEF Typed, TypedHeaps, Init
<1>8. Searching
  BY DEF Searching, Init
<1>9. Refused
  BY DEF Refused, Init, Answer
<1> QED
  BY <1>4, <1>5, <1>6, <1>7, <1>8, <1>9 DEF IInv

LEMMA RestartOK ==
  ASSUME Restart PROVE IInv'
<1>0. PICK base \in Bases : NewInstance(base)
  BY DEF Restart
<1>1. /\ \A k \in 0 .. HEAPS - 1 : ~is_init(heaps'[k])
      /\ DOMAIN heaps' = 0 .. HEAPS - 1 /\ HEAPS \in Int /\ HEAPS >= 2
  BY <1>0, Constants DEF NewInstance, NoHeap, Heap, is_init
<1>2. ~is_init(heaps'[0]) /\ ~is_init(heaps'[1]) /\ LiveIn(heaps') = {}
  BY <1>1 DEF LiveIn
<1>3. DOMAIN blocks' = {}
  BY <1>0 DEF NewInstance, Empty
<1>4. Consistent(heaps', blocks')
  BY <1>1, <1>2, <1>3 DEF Consistent
<1>5. Placed'
  BY <1>0, <1>1, <1>2, Constants DEF Placed, NewInstance
<1>6. Managed'
  BY <1>2 DEF Managed
<1>7. Typed'
  BY <1>0, <1>2, <1>3 DEF Typed, TypedHeaps, NewInstance, Done
<1>8. Searching'
  BY <1>0 DEF Searching, NewInstance, Done
<1>9. Refused'
  BY <1>0 DEF Refused, NewInstance, Answer
<1> QED
  BY <1>4, <1>5, <1>6, <1>7, <1>8, <1>9 DEF IInv

\* A call begins in an instance where everything is in order.
Orderly == pc = "idle" /\ status = "ok"

\* A call that ends without having looked at the heaps.
LEMMA NothingOK ==
  ASSUME IInv, Orderly, Nothing PROVE IInv'
<1>1. Placed'
  BY DEF IInv, Placed, Nothing, memory
<1>2. Managed'
  BY DEF IInv, Managed, Growing, Full, Last, Nothing, memory
<1>3. Typed' /\ (status' # "overran" => Consistent(heaps', blocks'))
  BY DEF IInv, Typed, Nothing, search
<1>4. Searching'
  BY DEF Searching, Nothing, search, Orderly
<1>5. Refused'
  BY DEF Refused, Nothing, Answer
<1> QED
  BY <1>1, <1>2, <1>3, <1>4, <1>5 DEF IInv

\* A call that ends with the heaps in their places.
LEMMA IdleOK ==
  ASSUME IInv, UNCHANGED <<memory, initial, actual, active, freeheap>>, pc' = "idle",
         DOMAIN heaps' = 0 .. HEAPS - 1,
         \A j \in 0 .. HEAPS - 1 : SameFrame(heaps[j], heaps'[j]),
         TypedHeaps(heaps', blocks'), status' \in {"ok", "overran", "clobbered"},
         status' # "overran" => Consistent(heaps', blocks'),
         ret'.ptr # NULL \/ ~(ret'.size > 0)
  PROVE  IInv'
<1>1. Placed /\ Managed
  BY DEF IInv
<1>2. Placed' /\ Managed'
  BY <1>1, FrameStep
<1>3. Typed'
  BY DEF Typed
<1>4. Searching'
  BY DEF Searching
<1>5. Refused'
  BY DEF Refused
<1> QED
  BY <1>2, <1>3, <1>4, <1>5 DEF IInv

LEMMA FreeOK ==
  ASSUME IInv, Orderly, NEW p \in DOMAIN blocks, free(p)
  PROVE  IInv'
<1> DEFINE k == HeapOf(p)
           g == mem_free(heaps[k], p)
<1>1. /\ Placed /\ Managed /\ Consistent(heaps, blocks) /\ status = "ok"
      /\ \A q \in DOMAIN blocks : blocks[q] \in Nat
  BY DEF IInv, Typed, TypedHeaps, Orderly
<1>2. k \in LiveIn(heaps) /\ InUse(heaps[k], p)
  BY <1>1, HeapOfFacts
<1>3. g = mem_free(heaps[k], p) /\ heaps' = [heaps EXCEPT ![k] = g]
  BY DEF free, mm_free
<1>4. /\ blocks' = Without(blocks, p) /\ ret' = Answer(0, NULL) /\ status' = status
      /\ pc' = "idle" /\ UNCHANGED <<memory, initial, actual, active, freeheap>>
  BY DEF free, Orderly, search
<1> HIDE DEF k, g
<1>5. HeapOK(heaps[k]) /\ p \in DOMAIN heaps[k].chunks
  BY <1>1, <1>2 DEF Consistent, InUse
<1>6. HeapOK(g) /\ SameFrame(heaps[k], g) /\ SameUse(heaps[k], g, {p}) /\ ~InUse(g, p)
  BY <1>3, <1>5, FreeUse
<1>7. Consistent(heaps', blocks')
  BY <1>1, <1>2, <1>3, <1>4, <1>5, <1>6, ConsistentFreed
<1>8. /\ DOMAIN heaps' = 0 .. HEAPS - 1 /\ heaps'[k] = g
      /\ \A j \in 0 .. HEAPS - 1 : j # k => heaps'[j] = heaps[j]
  BY <1>2, <1>3, <1>1 DEF Placed, LiveIn
<1>9. \A j \in 0 .. HEAPS - 1 : SameFrame(heaps[j], heaps'[j])
  BY <1>6, <1>8, SameFrameSelf
<1>10. \A q \in DOMAIN blocks' : blocks'[q] \in Nat
  BY <1>1, <1>4 DEF Without
<1>11. TypedHeaps(heaps', blocks')
  BY <1>7, <1>10, TypedStep
<1> QED
  BY <1>1, <1>4, <1>7, <1>8, <1>9, <1>11, IdleOK DEF Answer

\* What is known while malloc is under way.
LEMMA Calling ==
  ASSUME IInv, pc # "idle"
  PROVE  /\ Placed /\ Managed /\ Consistent(heaps, blocks) /\ status = "ok"
         /\ is_init(heaps[0]) /\ LiveIn(heaps) = 0 .. Last /\ Last \in 0 .. 1
         /\ \A k \in 0 .. Last : HeapOK(heaps[k])
         /\ Needed \in Nat /\ Needed >= call.size /\ Multiple(Needed + MARK)
         /\ \A p \in DOMAIN blocks : blocks[p] \in Nat
<1>1. /\ Placed /\ Managed /\ Consistent(heaps, blocks) /\ status = "ok"
      /\ is_init(heaps[0]) /\ call.size \in Nat
      /\ \A p \in DOMAIN blocks : blocks[p] \in Nat
  BY DEF IInv, Searching, Typed, TypedHeaps
<1>2. LiveIn(heaps) = 0 .. Last /\ Last \in 0 .. 1
  BY <1>1, LiveHeaps
<1>3. \A k \in 0 .. Last : HeapOK(heaps[k])
  BY <1>1, <1>2 DEF Consistent
<1>4. Needed \in Nat /\ Needed >= call.size /\ Multiple(Needed + MARK)
  BY <1>1, AdjustedFacts DEF Needed
<1> QED
  BY <1>1, <1>2, <1>3, <1>4

LEMMA AllocateOK ==
  ASSUME IInv, Allocate PROVE IInv'
<1> DEFINE h == heaps[active]
           g == Cut(h, Needed, TRUE)
           p == CutEnd(h) + MARK
<1>1. /\ pc # "idle" /\ HasRoom(h, Needed) /\ Answered([heaps EXCEPT ![active] = g], p)
      /\ UNCHANGED <<memory, initial, actual, active, freeheap>>
  BY DEF Allocate
<1>2. active = Last
  BY DEF Allocate, IInv, Searching, Growing
<1>3. active \in LiveIn(heaps) /\ HeapOK(h) /\ Needed \in Nat /\ Multiple(Needed + MARK)
  BY <1>1, <1>2, Calling
<1>4. h = heaps[active] /\ p = CutEnd(h) + MARK /\ g = Given(h, Needed)
  BY DEF Given
<1>4a. HasRoom(h, Needed)
  BY DEF Allocate
<1> HIDE DEF h, g, p
<1>5. /\ HeapOK(g) /\ SameFrame(h, g) /\ SameUse(h, g, {p})
      /\ ~InUse(h, p) /\ InUse(g, p) /\ g.chunks[p].size = Needed
  BY ONLY <1>3, <1>4, <1>4a, CutUse
<1>6. Needed <= g.chunks[p].size
  BY <1>3, <1>5
<1> QED
  BY <1>1, <1>3, <1>4, <1>5, <1>6, AnswerOK

LEMMA TakenOK ==
  ASSUME IInv, Taken PROVE IInv'
<1> DEFINE h == heaps[freeheap]
           g == MarkAlloc(Merged(h, current, Needed), current)
<1>1. /\ pc # "idle" /\ Found /\ Answered([heaps EXCEPT ![freeheap] = g], current)
      /\ UNCHANGED <<memory, initial, actual, active, freeheap>>
  BY DEF Taken
<1>2. freeheap \in 0 .. Last /\ h.offset = h.size /\ current \in DOMAIN h.chunks
  BY DEF Taken, IInv, Searching, Full
<1>3. freeheap \in LiveIn(heaps) /\ HeapOK(h) /\ Needed \in Nat /\ Multiple(Needed + MARK)
  BY <1>1, <1>2, Calling
<1>4. ~InUse(h, current) /\ Gathered(h, current, Needed) - current >= Needed
  BY <1>1 DEF Found, InUse
<1>5. h = heaps[freeheap] /\ g = MarkAlloc(Merged(h, current, Needed), current)
  OBVIOUS
<1> HIDE DEF h, g
<1>6. Gathered(h, current, Needed) <= CutEnd(h)
  BY <1>2, <1>3, GatheredFull
<1>7. /\ HeapOK(g) /\ SameFrame(h, g) /\ SameUse(h, g, {current})
      /\ InUse(g, current) /\ g.chunks[current].size = Needed
  BY <1>2, <1>3, <1>4, <1>5, <1>6, TakenUse
<1>8. Needed <= g.chunks[current].size
  BY <1>3, <1>7
<1> QED
  BY <1>1, <1>3, <1>4, <1>5, <1>7, <1>8, AnswerOK

\* realloc that succeeds in place.
LEMMA InPlaceOK ==
  ASSUME IInv, Orderly, NEW p \in DOMAIN blocks, NEW size \in Nat, NEW k, k = HeapOf(p),
         NEW h, h = Resized(heaps[k], p, Adjusted(size)),
         Resizable(heaps[k], p, Adjusted(size)),
         heaps' = [heaps EXCEPT ![k] = h], blocks' = Put(blocks, p, size),
         ret' = Answer(size, p), status' = IF Overrun(h) THEN "overran" ELSE "ok",
         UNCHANGED <<memory, initial, actual, active, freeheap, search>>
  PROVE  IInv'
<1> DEFINE n == Adjusted(size)
<1>1. /\ Placed /\ Managed /\ Consistent(heaps, blocks) /\ TypedHeaps(heaps, blocks)
      /\ pc' = "idle"
  BY DEF IInv, Typed, Orderly, search
<1>2. k \in LiveIn(heaps) /\ InUse(heaps[k], p)
  BY <1>1, HeapOfFacts
<1>3. HeapOK(heaps[k]) /\ k \in 0 .. HEAPS - 1 /\ DOMAIN heaps = 0 .. HEAPS - 1
  BY <1>1, <1>2 DEF Consistent, LiveIn
<1>4. n \in Nat /\ n >= size /\ Multiple(n + MARK)
  BY AdjustedFacts
<1>5. h = Resized(heaps[k], p, n) /\ Resizable(heaps[k], p, n)
  OBVIOUS
<1> HIDE DEF n
<1>6. /\ SameFrame(heaps[k], h) /\ h.size \in Nat /\ h.offset \in Nat
      /\ \A q \in DOMAIN h.chunks : h.chunks[q].size \in Nat /\ h.chunks[q].alloc \in BOOLEAN
  BY ONLY <1>2, <1>3, <1>4, <1>5, ResizedTypes
<1>7. /\ DOMAIN heaps' = 0 .. HEAPS - 1 /\ heaps'[k] = h
      /\ \A j \in 0 .. HEAPS - 1 : j # k => heaps'[j] = heaps[j]
  BY <1>3
<1>8. \A j \in 0 .. HEAPS - 1 : SameFrame(heaps[j], heaps'[j])
  BY <1>6, <1>7, SameFrameSelf
<1>9. /\ \A q \in DOMAIN blocks' : q \in Nat \ {NULL} /\ blocks'[q] \in Nat
      /\ p \in Nat \ {NULL}
  BY <1>1 DEF TypedHeaps, Put
<1>10. TypedHeaps(heaps', blocks')
  <2>1. \A j \in 0 .. HEAPS - 1 : heaps'[j].start = heaps[j].start
    BY <1>8 DEF SameFrame
  <2>2. LiveIn(heaps') = LiveIn(heaps)
    BY <2>1 DEF LiveIn, is_init
  <2>3. ASSUME NEW j \in LiveIn(heaps')
        PROVE  /\ heaps'[j].size \in Nat /\ heaps'[j].offset \in Nat
               /\ \A q \in DOMAIN heaps'[j].chunks :
                    /\ heaps'[j].chunks[q].size \in Nat
                    /\ heaps'[j].chunks[q].alloc \in BOOLEAN
    <3>1. CASE j = k
      BY <3>1, <1>6, <1>7
    <3>2. CASE j # k
      <4>1. j \in LiveIn(heaps) /\ heaps'[j] = heaps[j]
        BY <3>2, <2>2, <1>7 DEF LiveIn
      <4> QED
        BY <4>1, <1>1 DEF TypedHeaps
    <3> QED
      BY <3>1, <3>2
  <2> QED
    BY <2>3, <1>9 DEF TypedHeaps
<1>11. status' # "overran" => Consistent(heaps', blocks')
  <2> SUFFICES ASSUME status' # "overran" PROVE Consistent(heaps', blocks')
    OBVIOUS
  <2>1. ~Overrun(h)
    OBVIOUS
  <2>2. HeapOK(h) /\ SameUse(heaps[k], h, {p}) /\ InUse(h, p) /\ n <= h.chunks[p].size
    BY ONLY <1>2, <1>3, <1>4, <1>5, <2>1, ResizedUse
  <2>3. size <= h.chunks[p].size
    <3>1. h.chunks[p].size \in Nat
      BY <1>6, <2>2 DEF InUse
    <3> QED
      BY <3>1, <1>4, <2>2
  <2> QED
    BY <1>1, <1>2, <1>6, <2>2, <2>3, ConsistentTaken
<1>12. status' \in {"ok", "overran", "clobbered"}
  OBVIOUS
<1>13. ret'.ptr # NULL
  BY <1>9 DEF Answer
<1> QED
  BY <1>1, <1>7, <1>8, <1>10, <1>11, <1>12, <1>13, IdleOK

\* malloc begins: with the first heap, with the last one, or with the freed chunks.
LEMMA EnterOK ==
  ASSUME IInv, Orderly, NEW op, NEW t, t = NULL \/ t \in DOMAIN blocks,
         NEW size \in Nat \ {0}, Enter(op, t, size)
  PROVE  IInv'
<1>1. /\ Placed /\ Managed /\ Consistent(heaps, blocks) /\ status = "ok"
      /\ TypedHeaps(heaps, blocks) /\ \A q \in DOMAIN blocks : blocks[q] \in Nat
  BY DEF IInv, Typed, TypedHeaps, Orderly
<1>2. /\ call'.size = size /\ call'.ptr = t /\ ret' = Answer(0, NULL)
      /\ actual' = IF actual = 0 THEN HEAPS ELSE actual
      /\ UNCHANGED <<memory, initial, active, freeheap, blocks, status>>
  BY DEF Enter
<1>3. HEAPS \in Int /\ HEAPS >= 2 /\ Last \in 0 .. 1 /\ DOMAIN heaps = 0 .. HEAPS - 1
  BY <1>1, LiveHeaps
<1>4. Refused'
  BY <1>2 DEF Refused, Answer
<1>5. /\ status' = "ok" /\ call'.size \in Nat \ {0}
      /\ call'.ptr = NULL \/ call'.ptr \in DOMAIN blocks'
  BY <1>1, <1>2
<1>6. CASE ~is_init(heaps[0])
  <2>1. actual = 0 /\ active = 0 /\ freeheap = 0 /\ pages = StartPages
        /\ LiveIn(heaps) = {} /\ initial \in Bases
    BY <1>1, <1>6, LiveHeaps DEF Placed
  <2> DEFINE g == Heap(initial, INITIAL, 0, Empty)
  <2>2. actual' = HEAPS /\ heaps' = [heaps EXCEPT ![0] = g] /\ pc' = "active"
    BY <2>1, <1>2, <1>3, <1>6 DEF Enter
  <2>3. g.start = initial /\ g.size = INITIAL /\ initial \in Nat \ {0}
    BY <2>1, HeapAssumption DEF Heap
  <2>4. HeapOK(g) /\ DOMAIN g.chunks = {}
    BY <2>3, Constants, NewHeapOK
  <2> HIDE DEF g
  <2>5. /\ DOMAIN heaps' = 0 .. HEAPS - 1 /\ heaps'[0] = g
        /\ \A j \in 0 .. HEAPS - 1 : j # 0 => heaps'[j] = heaps[j]
    BY <2>2, <1>3
  <2>6. is_init(heaps'[0]) /\ \A j \in 0 .. HEAPS - 1 : j # 0 => ~is_init(heaps'[j])
    BY <2>1, <2>3, <2>5 DEF LiveIn, is_init, NULL
  <2>7. LiveIn(heaps') = {0} /\ ~is_init(heaps'[1])
    BY <2>6, <1>3 DEF LiveIn
  <2>8. DOMAIN blocks' = {}
    BY <1>1, <1>2, <2>1 DEF Consistent
  <2>9. Consistent(heaps', blocks')
    BY <2>4, <2>5, <2>7, <2>8 DEF Consistent
  <2>10. Placed'
    <3>1. \A j \in 2 .. HEAPS - 1 : ~is_init(heaps'[j])
      BY <2>6, <1>3
    <3> QED
      BY <1>1, <1>2, <1>3, <2>1, <2>2, <2>3, <2>5, <2>6, <2>7, <3>1 DEF Placed, memory
  <2>11. Growing'
    BY <1>2, <2>1, <2>2, <2>7 DEF Growing, Last
  <2>12. TypedHeaps(heaps', blocks')
    BY <2>8, <2>9, TypedStep
  <2>13. Managed' /\ Searching'
    BY <1>2, <1>5, <2>2, <2>6, <2>11 DEF Managed, Searching
  <2> QED
    BY <1>4, <1>5, <2>2, <2>9, <2>10, <2>12, <2>13 DEF IInv, Typed
<1>7. CASE is_init(heaps[0])
  <2>1. LiveIn(heaps) = 0 .. Last /\ actual > 0 /\ actual \in 0 .. HEAPS /\ Last < actual
    BY <1>1, <1>7, LiveHeaps DEF Placed
  <2>2. actual' = actual
    BY <1>2, <2>1
  <2>3. heaps' = heaps
    BY <1>7 DEF Enter
  <2>4. Placed' /\ Managed' /\ Last' = Last /\ (Full => Full')
    <3>1. /\ DOMAIN heaps' = 0 .. HEAPS - 1
          /\ \A j \in 0 .. HEAPS - 1 : SameFrame(heaps[j], heaps'[j])
      BY <2>3, <1>3, SameFrameSelf
    <3> QED
      BY <1>1, <1>2, <2>2, <3>1, FrameStep
  <2>5. TypedHeaps(heaps', blocks') /\ Consistent(heaps', blocks')
    BY <1>1, <1>2, <2>3
  <2>6. CASE Growing
    <3>1. Growing'
      BY <2>6, <1>2, <2>2, <2>4 DEF Growing
    <3>2. pc' = "active"
      BY <2>6, <2>1, <2>2, <1>3 DEF Growing, Enter
    <3>3. Searching'
      BY <1>2, <1>5, <1>7, <2>3, <3>1, <3>2 DEF Searching
    <3> QED
      BY <1>4, <1>5, <2>4, <2>5, <3>2, <3>3 DEF IInv, Typed
  <2>7. CASE Full
    <3>1. ~(active < actual') /\ freeheap \in 0 .. Last /\ freeheap \in Int
      BY <2>7, <2>1, <2>2, <1>3 DEF Full
    <3>2. pc' = "freed" /\ endheap' = freeheap /\ current' = heaps[freeheap].start + MARK
      BY <3>1 DEF Enter, SearchBegins
    <3>3. HeapOK(heaps[freeheap]) /\ heaps[freeheap].offset = heaps[freeheap].size
      BY <1>1, <2>1, <2>7, <3>1 DEF Consistent, Full
    <3>4. /\ current' \in DOMAIN heaps[freeheap].chunks
          /\ \A q \in DOMAIN heaps[freeheap].chunks : ~(q < current')
      BY <3>2, <3>3, FirstChunk
    <3>5. \A k \in 0 .. Last : ~Visited(k)'
      BY <1>2, <3>1, <3>2 DEF Visited
    <3>6. Full' /\ freeheap' = freeheap
      BY <1>2, <2>4, <2>7
    <3>7. Searching'
      BY <1>2, <1>5, <1>7, <2>3, <2>4, <3>1, <3>2, <3>4, <3>5, <3>6 DEF Searching
    <3> QED
      BY <1>4, <1>5, <2>4, <2>5, <3>2, <3>7 DEF IInv, Typed
  <2> QED
    BY <1>1, <1>7, <2>6, <2>7 DEF Managed
<1> QED
  BY <1>6, <1>7

\* The last heap may grow.
LEMMA ConsistentGrown ==
  ASSUME NEW hs, NEW bl, Consistent(hs, bl), NEW k \in LiveIn(hs),
         \A j \in LiveIn(hs) : j <= k,
         NEW g, HeapOK(g), g.start = hs[k].start, g.chunks = hs[k].chunks,
         NEW gs, gs = [hs EXCEPT ![k] = g]
  PROVE  Consistent(gs, bl) /\ LiveIn(gs) = LiveIn(hs)
<1>1. /\ DOMAIN hs = 0 .. HEAPS - 1 /\ k \in 0 .. HEAPS - 1 /\ k \in Int
      /\ \A j \in LiveIn(hs) : j \in 0 .. HEAPS - 1 /\ j \in Int
  BY DEF Consistent, LiveIn
<1>2. /\ DOMAIN gs = 0 .. HEAPS - 1 /\ gs[k] = g
      /\ \A j \in 0 .. HEAPS - 1 : j # k => gs[j] = hs[j]
  BY <1>1
<1>3. /\ \A j \in 0 .. HEAPS - 1 : gs[j].start = hs[j].start /\ gs[j].chunks = hs[j].chunks
      /\ \A j \in 0 .. HEAPS - 1 : j # k => HeapEnd(gs[j]) = HeapEnd(hs[j])
  BY <1>2
<1>4. LiveIn(gs) = LiveIn(hs)
  BY <1>3 DEF LiveIn, is_init
<1>5. \A j \in LiveIn(gs) : HeapOK(gs[j])
  BY <1>1, <1>2, <1>4 DEF Consistent
<1>6. \A i, j \in LiveIn(gs) : i < j => HeapEnd(gs[i]) <= gs[j].start
  <2> SUFFICES ASSUME NEW i \in LiveIn(gs), NEW j \in LiveIn(gs), i < j
               PROVE  HeapEnd(gs[i]) <= gs[j].start
    OBVIOUS
  <2>1. i # k /\ i \in 0 .. HEAPS - 1 /\ j \in 0 .. HEAPS - 1
    BY <1>1, <1>4
  <2> QED
    BY <2>1, <1>3, <1>4 DEF Consistent
<1>7. \A j \in LiveIn(gs) : \A p :
        (InUse(gs[j], p) <=> InUse(hs[j], p)) /\ gs[j].chunks = hs[j].chunks
  BY <1>1, <1>3, <1>4 DEF InUse
<1>8. \A j \in LiveIn(gs) : \A p \in DOMAIN gs[j].chunks :
        InUse(gs[j], p) => p \in DOMAIN bl /\ bl[p] <= gs[j].chunks[p].size
  BY <1>4, <1>7 DEF Consistent
<1>9. \A p \in DOMAIN bl : \E j \in LiveIn(gs) : InUse(gs[j], p)
  BY <1>4, <1>7 DEF Consistent
<1> QED
  BY <1>2, <1>4, <1>5, <1>6, <1>8, <1>9 DEF Consistent

\* Another heap, behind the others and without chunks.
LEMMA ConsistentAdded ==
  ASSUME NEW hs, NEW bl, Consistent(hs, bl), NEW k \in 0 .. HEAPS - 1,
         NEW g, HeapOK(g), DOMAIN g.chunks = {},
         \A j \in LiveIn(hs) : j < k /\ HeapEnd(hs[j]) <= g.start,
         NEW gs, gs = [hs EXCEPT ![k] = g]
  PROVE  Consistent(gs, bl) /\ LiveIn(gs) = LiveIn(hs) \cup {k}
<1>1. /\ DOMAIN hs = 0 .. HEAPS - 1 /\ k \in Int
      /\ \A j \in LiveIn(hs) : j \in 0 .. HEAPS - 1 /\ j \in Int /\ j # k
  BY DEF Consistent, LiveIn
<1>2. /\ DOMAIN gs = 0 .. HEAPS - 1 /\ gs[k] = g
      /\ \A j \in 0 .. HEAPS - 1 : j # k => gs[j] = hs[j]
  BY <1>1
<1>3. is_init(g)
  BY DEF is_init, HeapOK, HeapTypes, NULL
<1>4. LiveIn(gs) = LiveIn(hs) \cup {k}
  BY <1>1, <1>2, <1>3 DEF LiveIn
<1>5. \A j \in LiveIn(gs) : HeapOK(gs[j])
  BY <1>1, <1>2, <1>4 DEF Consistent
<1>6. \A i, j \in LiveIn(gs) : i < j => HeapEnd(gs[i]) <= gs[j].start
  <2> SUFFICES ASSUME NEW i \in LiveIn(gs), NEW j \in LiveIn(gs), i < j
               PROVE  HeapEnd(gs[i]) <= gs[j].start
    OBVIOUS
  <2>0. i # k
    <3>1. j = k \/ (j < k /\ j \in Int)
      BY <1>1, <1>4
    <3> QED
      BY <3>1, <1>1
  <2>1. i \in LiveIn(hs) /\ gs[i] = hs[i]
    BY <2>0, <1>1, <1>2, <1>4
  <2>2. CASE j = k
    BY <2>1, <2>2, <1>2
  <2>3. CASE j # k
    <3>1. j \in LiveIn(hs) /\ gs[j] = hs[j]
      BY <2>3, <1>1, <1>2, <1>4
    <3> QED
      BY <2>1, <3>1 DEF Consistent
  <2> QED
    BY <2>2, <2>3
<1>7. \A j \in LiveIn(gs) : \A p \in DOMAIN gs[j].chunks :
        InUse(gs[j], p) => p \in DOMAIN bl /\ bl[p] <= gs[j].chunks[p].size
  <2> SUFFICES ASSUME NEW j \in LiveIn(gs), NEW p \in DOMAIN gs[j].chunks, InUse(gs[j], p)
               PROVE  p \in DOMAIN bl /\ bl[p] <= gs[j].chunks[p].size
    OBVIOUS
  <2>1. j \in LiveIn(hs) /\ gs[j] = hs[j]
    BY <1>1, <1>2, <1>4
  <2> QED
    BY <2>1 DEF Consistent
<1>8. \A p \in DOMAIN bl : \E j \in LiveIn(gs) : InUse(gs[j], p)
  <2> SUFFICES ASSUME NEW p \in DOMAIN bl PROVE \E j \in LiveIn(gs) : InUse(gs[j], p)
    OBVIOUS
  <2>1. PICK j \in LiveIn(hs) : InUse(hs[j], p)
    BY DEF Consistent
  <2> QED
    BY <2>1, <1>1, <1>2, <1>4
<1> QED
  BY <1>2, <1>4, <1>5, <1>6, <1>7, <1>8 DEF Consistent

\* The memory is exhausted: the rest of the last heap is freed, and the search
\* begins.
LEMMA ExhaustedOK ==
  ASSUME IInv, pc = "active", Exhausted, pages = MaxPages, UNCHANGED memory,
         UNCHANGED <<initial, freeheap, blocks, ret, status>>
  PROVE  IInv'
<1> DEFINE g == cleanup_remaining(heaps[active])
<1>1. Growing /\ ret = Answer(0, NULL) /\ call.size \in Nat \ {0}
      /\ (call.ptr = NULL \/ call.ptr \in DOMAIN blocks)
  BY DEF IInv, Searching
<1>2. /\ Placed /\ Managed /\ Consistent(heaps, blocks) /\ status = "ok"
      /\ is_init(heaps[0]) /\ LiveIn(heaps) = 0 .. Last /\ Last \in 0 .. 1
      /\ \A p \in DOMAIN blocks : blocks[p] \in Nat
  BY Calling
<1>3. /\ active = Last /\ active \in LiveIn(heaps) /\ freeheap = 0 /\ HeapOK(heaps[active])
      /\ DOMAIN heaps = 0 .. HEAPS - 1 /\ active \in 0 .. HEAPS - 1
      /\ HEAPS \in Int /\ HEAPS >= 2
  BY <1>1, <1>2, Constants DEF Growing, Consistent, LiveIn
<1>4. /\ g = cleanup_remaining(heaps[active]) /\ heaps' = [heaps EXCEPT ![active] = g]
      /\ active' = active + 1 /\ actual' = active + 1 /\ call' = call
      /\ pc' = "freed" /\ endheap' = freeheap /\ current' = heaps[freeheap].start + MARK
  BY DEF Exhausted, SearchBegins
<1> HIDE DEF g
<1>5. HeapOK(g) /\ SameFrame(heaps[active], g) /\ SameUse(heaps[active], g, {})
      /\ g.offset = g.size
  BY <1>3, <1>4, CleanupUse
<1>6. Consistent(heaps', blocks')
  BY <1>2, <1>3, <1>4, <1>5, ConsistentSame
<1>7. /\ DOMAIN heaps' = 0 .. HEAPS - 1 /\ heaps'[active] = g
      /\ \A j \in 0 .. HEAPS - 1 : j # active => heaps'[j] = heaps[j]
  BY <1>3, <1>4
<1>8. \A j \in 0 .. HEAPS - 1 :
        /\ heaps'[j].start = heaps[j].start /\ heaps'[j].size = heaps[j].size
        /\ heaps[j].offset = heaps[j].size => heaps'[j].offset = heaps'[j].size
  BY <1>5, <1>7 DEF SameFrame
<1>9. \A j \in 0 .. HEAPS - 1 :
        /\ is_init(heaps'[j]) <=> is_init(heaps[j])
        /\ HeapEnd(heaps'[j]) = HeapEnd(heaps[j])
  BY <1>8 DEF is_init, HeapEnd
<1>10. Last' = Last /\ LiveIn(heaps') = LiveIn(heaps)
  BY <1>3, <1>9 DEF Last, LiveIn
<1>11. Placed'
  BY <1>2, <1>3, <1>4, <1>7, <1>8, <1>9 DEF Placed, memory
<1>12. \A k \in 0 .. Last : heaps'[k].offset = heaps'[k].size
  <2> SUFFICES ASSUME NEW k \in 0 .. Last PROVE heaps'[k].offset = heaps'[k].size
    OBVIOUS
  <2>1. CASE k = Last
    BY <2>1, <1>3, <1>5, <1>7
  <2>2. CASE k # Last
    <3>1. k = 0 /\ is_init(heaps[1])
      BY <2>2, <1>2 DEF Last
    <3> QED
      BY <3>1, <1>2, <1>3, <1>8 DEF Placed
  <2> QED
    BY <2>1, <2>2
<1>13. Full'
  BY <1>2, <1>3, <1>4, <1>10, <1>12 DEF Full, memory
<1>14. HeapOK(heaps'[0]) /\ current' = heaps'[0].start + MARK /\ freeheap' = 0
       /\ heaps'[0].offset = heaps'[0].size
  <2>1. 0 \in LiveIn(heaps') /\ 0 \in 0 .. HEAPS - 1 /\ 0 \in 0 .. Last
    BY <1>2, <1>3, <1>10
  <2>2. HeapOK(heaps'[0])
    BY <2>1, <1>6 DEF Consistent
  <2> QED
    BY <2>1, <2>2, <1>3, <1>4, <1>8, <1>12
<1>15. /\ current' \in DOMAIN heaps'[0].chunks
       /\ \A q \in DOMAIN heaps'[0].chunks : ~(q < current')
  BY <1>14, FirstChunk
<1>16. \A k \in 0 .. Last : ~Visited(k)'
  BY <1>2, <1>3, <1>4, <1>14 DEF Visited
<1>17. Searching'
  <2>1. is_init(heaps'[0])
    BY <1>2, <1>3, <1>9
  <2>2. 0 \in 0 .. Last'
    BY <1>2, <1>10
  <2> QED
    BY <1>1, <1>2, <1>3, <1>4, <1>10, <1>13, <1>14, <1>15, <1>16, <2>1, <2>2 DEF Searching
<1>18. TypedHeaps(heaps', blocks')
  BY <1>2, <1>6, TypedStep
<1>19. Managed' /\ Refused'
  BY <1>1, <1>13 DEF Managed, Refused, Answer
<1> QED
  BY <1>2, <1>4, <1>6, <1>11, <1>17, <1>18, <1>19 DEF IInv, Typed

\* The last heap is extended by a page.
LEMMA ExpandedOK ==
  ASSUME IInv, pc = "active", Expanded(PAGE), pages < MaxPages, pages' = pages + 1,
         sbrk_bytes' = sbrk_bytes + PAGE, HeapEnd(heaps[active]) = sbrk_bytes,
         UNCHANGED <<initial, freeheap, blocks, ret, status>>
  PROVE  IInv'
<1> DEFINE h == heaps[active]
           g == Heap(h.start, h.size + PAGE, h.offset, h.chunks)
<1>1. Growing /\ ret = Answer(0, NULL) /\ call.size \in Nat \ {0}
      /\ (call.ptr = NULL \/ call.ptr \in DOMAIN blocks)
  BY DEF IInv, Searching
<1>2. /\ Placed /\ Managed /\ Consistent(heaps, blocks) /\ status = "ok"
      /\ is_init(heaps[0]) /\ LiveIn(heaps) = 0 .. Last /\ Last \in 0 .. 1
      /\ \A p \in DOMAIN blocks : blocks[p] \in Nat
  BY Calling
<1>3. /\ active = Last /\ active \in LiveIn(heaps) /\ HeapOK(h)
      /\ DOMAIN heaps = 0 .. HEAPS - 1 /\ active \in 0 .. HEAPS - 1
      /\ HEAPS \in Int /\ HEAPS >= 2
  BY <1>1, <1>2, Constants DEF Growing, Consistent, LiveIn
<1>4. /\ heaps' = [heaps EXCEPT ![active] = g]
      /\ UNCHANGED <<actual, active, pc, call>>
  BY DEF Expanded, search
<1>5. HeapOK(g)
  BY <1>3, Constants, GrownOK
<1>6. g.start = h.start /\ g.chunks = h.chunks /\ g.size = h.size + PAGE
      /\ h = heaps[active]
  BY DEF Heap
<1>7. /\ h.start \in Int /\ h.size \in Int /\ PAGE \in Int /\ PAGE > 0
      /\ pages \in Int /\ StartPages \in Int /\ MaxPages \in Int
      /\ StartPages <= pages /\ sbrk_bytes = pages * PAGE
  <2>1. h.start \in Int /\ h.size \in Int
    BY ONLY <1>3 DEF HeapOK, HeapTypes
  <2>2. pages \in StartPages .. MaxPages /\ sbrk_bytes = pages * PAGE
    BY ONLY <1>2 DEF Placed
  <2> QED
    BY ONLY <2>1, <2>2, Constants
<1> HIDE DEF h, g
<1>8. Consistent(heaps', blocks') /\ LiveIn(heaps') = LiveIn(heaps)
  <2>1. \A j \in LiveIn(heaps) : j <= active
    BY <1>2, <1>3
  <2>2. g.start = heaps[active].start /\ g.chunks = heaps[active].chunks
        /\ blocks' = blocks
    BY <1>6
  <2>3. Consistent(heaps, blocks) /\ active \in LiveIn(heaps)
    BY <1>2, <1>3
  <2>4. heaps' = [heaps EXCEPT ![active] = g]
    BY <1>4
  <2>5. Consistent(heaps', blocks) /\ LiveIn(heaps') = LiveIn(heaps)
    BY ONLY <1>5, <2>1, <2>2, <2>3, <2>4, ConsistentGrown
  <2> QED
    BY <2>2, <2>5
<1>9. /\ DOMAIN heaps' = 0 .. HEAPS - 1 /\ heaps'[active] = g
      /\ \A j \in 0 .. HEAPS - 1 : j # active => heaps'[j] = heaps[j]
  BY <1>3, <1>4
<1>10. \A j \in 0 .. HEAPS - 1 :
         heaps'[j].start = heaps[j].start /\ (is_init(heaps'[j]) <=> is_init(heaps[j]))
  BY <1>6, <1>9 DEF is_init
<1>11. Last' = Last
  BY <1>3, <1>10 DEF Last
<1>12. HeapEnd(g) = sbrk_bytes + PAGE /\ sbrk_bytes + PAGE = (pages + 1) * PAGE
  <2>1. HeapEnd(g) = HeapEnd(h) + PAGE
    BY <1>6, <1>7 DEF HeapEnd
  <2> QED
    BY <2>1, <1>6, <1>7
<1>13. pages' \in StartPages .. MaxPages /\ sbrk_bytes' = pages' * PAGE
       /\ initial' = initial /\ initial \in Bases
  BY <1>2, <1>7, <1>12 DEF Placed
<1>14. is_init(heaps'[0]) /\ heaps'[0].start = initial /\ actual' > 0
       /\ actual > 0
  BY <1>2, <1>3, <1>4, <1>10 DEF Placed
<1>15. ASSUME Last = 0 PROVE Placed'
  <2>1. ~is_init(heaps[1]) /\ heaps'[0] = g /\ h = heaps[0]
    BY <1>3, <1>6, <1>9, <1>15 DEF Last
  <2>2. initial + INITIAL = StartPages * PAGE
    <3>1. CASE heaps[0].size = INITIAL /\ pages = StartPages
      <4>1. HeapEnd(heaps[0]) = initial + INITIAL
        BY <3>1, <1>2 DEF Placed, HeapEnd
      <4> QED
        BY <4>1, <3>1, <2>1, <1>6, <1>7
    <3> QED
      BY <3>1, <2>1, <1>2 DEF Placed
  <2>3. HeapEnd(heaps'[0]) = pages' * PAGE
    BY <2>1, <1>12
  <2>4. ~is_init(heaps'[1])
    BY <2>1, <1>3, <1>10
  <2>5. \A k \in 2 .. HEAPS - 1 : ~is_init(heaps'[k])
    BY <1>2, <1>3, <1>10 DEF Placed
  <2> QED
    BY <1>9, <1>13, <1>14, <2>2, <2>3, <2>4, <2>5 DEF Placed
<1>16. ASSUME Last = 1 PROVE Placed'
  <2>1. is_init(heaps[1]) /\ heaps'[1] = g /\ heaps'[0] = heaps[0]
    BY <1>3, <1>9, <1>16 DEF Last
  <2>2. is_init(heaps'[1]) /\ heaps'[1].start = StartPages * PAGE
        /\ HeapEnd(heaps'[1]) = pages' * PAGE /\ heaps'[0].offset = heaps'[0].size
        /\ heaps'[0].size = INITIAL
    BY <2>1, <1>2, <1>3, <1>10, <1>12 DEF Placed
  <2>3. \A k \in 2 .. HEAPS - 1 : ~is_init(heaps'[k])
    BY <1>2, <1>3, <1>10 DEF Placed
  <2> QED
    BY <1>9, <1>13, <1>14, <2>2, <2>3 DEF Placed
<1>17. Placed'
  BY <1>2, <1>15, <1>16
<1>18. Growing'
  BY <1>1, <1>4, <1>11 DEF Growing
<1>19. TypedHeaps(heaps', blocks')
  BY <1>2, <1>8, TypedStep
<1>20. Managed' /\ Refused' /\ Searching'
  BY <1>1, <1>2, <1>4, <1>14, <1>18 DEF Managed, Refused, Answer, Searching
<1> QED
  BY <1>2, <1>4, <1>8, <1>17, <1>19, <1>20 DEF IInv, Typed

\* The second heap begins: it is the page where the memory ended at the start.
LEMMA FollowedOK ==
  ASSUME IInv, pc = "active", Followed(sbrk_bytes, PAGE), pages < MaxPages,
         pages' = pages + 1, sbrk_bytes' = sbrk_bytes + PAGE,
         HeapEnd(heaps[active]) # sbrk_bytes,
         UNCHANGED <<initial, freeheap, blocks, ret, status>>
  PROVE  IInv'
<1> DEFINE g == cleanup_remaining(heaps[0])
           hs == [heaps EXCEPT ![0] = g]
           f == Heap(sbrk_bytes, PAGE, 0, Empty)
<1>1. Growing /\ ret = Answer(0, NULL) /\ call.size \in Nat \ {0}
      /\ (call.ptr = NULL \/ call.ptr \in DOMAIN blocks)
  BY DEF IInv, Searching
<1>2. /\ Placed /\ Managed /\ Consistent(heaps, blocks) /\ status = "ok"
      /\ is_init(heaps[0]) /\ LiveIn(heaps) = 0 .. Last /\ Last \in 0 .. 1
      /\ \A p \in DOMAIN blocks : blocks[p] \in Nat
  BY Calling
<1>3. /\ active = Last /\ DOMAIN heaps = 0 .. HEAPS - 1 /\ HEAPS \in Int /\ HEAPS >= 2
      /\ 0 \in 0 .. HEAPS - 1 /\ 1 \in 0 .. HEAPS - 1 /\ sbrk_bytes = pages * PAGE
  BY <1>1, <1>2, Constants DEF Growing, Placed
<1>4. Last = 0 /\ ~is_init(heaps[1])
  BY <1>2, <1>3 DEF Placed, Last
<1>5. heaps[0].size = INITIAL /\ pages = StartPages /\ heaps[0].start = initial
      /\ initial \in Bases /\ actual > 0
  BY <1>2, <1>3, <1>4 DEF Placed
<1>6. /\ initial \in Nat \ {0} /\ initial + INITIAL <= StartPages * PAGE /\ INITIAL \in Int
      /\ INITIAL > 0 /\ PAGE \in Int /\ PAGE > 0 /\ StartPages \in Nat /\ MaxPages \in Nat
  BY <1>5, HeapAssumption
<1>7. StartPages * PAGE \in Int /\ StartPages * PAGE > 0
  BY <1>6
<1>8. sbrk_bytes \in Nat \ {0} /\ sbrk_bytes = StartPages * PAGE
  BY <1>3, <1>5, <1>7
<1>9. HeapOK(f) /\ DOMAIN f.chunks = {}
  BY <1>6, <1>8, Constants, NewHeapOK
<1>10. f.start = sbrk_bytes /\ f.size = PAGE
  BY DEF Heap
<1>11. HeapEnd(f) = (pages + 1) * PAGE
  BY <1>3, <1>5, <1>6, <1>10 DEF HeapEnd
<1>12. heaps' = [hs EXCEPT ![1] = f] /\ active' = 1 /\ UNCHANGED <<actual, pc, call>>
  BY <1>3, <1>4 DEF Followed, search
<1>13. g = cleanup_remaining(heaps[0]) /\ hs = [heaps EXCEPT ![0] = g]
  OBVIOUS
<1> HIDE DEF g, hs, f
<1>14. 0 \in LiveIn(heaps) /\ LiveIn(heaps) = {0} /\ HeapOK(heaps[0])
  BY <1>2, <1>4 DEF Consistent
<1>15. HeapOK(g) /\ SameFrame(heaps[0], g) /\ SameUse(heaps[0], g, {}) /\ g.offset = g.size
  BY <1>13, <1>14, CleanupUse
<1>16. Consistent(hs, blocks)
  BY <1>2, <1>13, <1>14, <1>15, ConsistentSame
<1>17. /\ DOMAIN hs = 0 .. HEAPS - 1 /\ hs[0] = g
       /\ \A j \in 0 .. HEAPS - 1 : j # 0 => hs[j] = heaps[j]
  BY <1>3, <1>13
<1>18. g.start = initial /\ g.size = INITIAL /\ LiveIn(hs) = {0}
  <2>1. g.start = heaps[0].start /\ g.size = heaps[0].size
    BY <1>15 DEF SameFrame
  <2>2. \A j \in 0 .. HEAPS - 1 : hs[j].start = heaps[j].start
    BY <2>1, <1>17
  <2>3. LiveIn(hs) = LiveIn(heaps)
    BY <2>2 DEF LiveIn, is_init
  <2> QED
    BY <2>1, <2>3, <1>5, <1>14
<1>19. Consistent(heaps', blocks)
  <2>1. \A j \in LiveIn(hs) : j < 1 /\ HeapEnd(hs[j]) <= f.start
    BY <1>6, <1>8, <1>10, <1>17, <1>18 DEF HeapEnd
  <2> QED
    BY <1>3, <1>9, <1>12, <1>16, <2>1, ConsistentAdded
<1>20. /\ DOMAIN heaps' = 0 .. HEAPS - 1 /\ heaps'[0] = g /\ heaps'[1] = f
       /\ \A j \in 2 .. HEAPS - 1 : heaps'[j] = heaps[j]
  BY <1>3, <1>12, <1>17
<1>21. is_init(heaps'[0]) /\ is_init(heaps'[1]) /\ \A j \in 2 .. HEAPS - 1 : ~is_init(heaps'[j])
  <2>1. \A j \in 2 .. HEAPS - 1 : ~is_init(heaps[j])
    BY <1>2 DEF Placed
  <2> QED
    BY <2>1, <1>6, <1>8, <1>10, <1>18, <1>20 DEF is_init, NULL
<1>22. Placed'
  <2>1. pages' \in StartPages .. MaxPages /\ sbrk_bytes' = pages' * PAGE
    BY <1>3, <1>5, <1>6
  <2> QED
    BY <2>1, <1>5, <1>8, <1>10, <1>11, <1>12, <1>15, <1>18, <1>20, <1>21 DEF Placed
<1>23. Growing'
  BY <1>1, <1>12, <1>21 DEF Growing, Last
<1>24. TypedHeaps(heaps', blocks')
  BY <1>2, <1>19, TypedStep
<1>25. Managed' /\ Refused' /\ Searching'
  BY <1>1, <1>2, <1>12, <1>21, <1>23 DEF Managed, Refused, Answer, Searching
<1> QED
  BY <1>2, <1>12, <1>19, <1>22, <1>24, <1>25 DEF IInv, Typed

LEMMA NextHeapOK ==
  ASSUME IInv, next_active_heap PROVE IInv'
<1>1. /\ pc = "active" /\ UNCHANGED <<initial, freeheap, blocks, ret, status>>
      /\ pages \in StartPages .. MaxPages /\ sbrk_bytes = pages * PAGE
  BY DEF IInv, Placed, next_active_heap
<1>2. /\ pages \in Int /\ MaxPages \in Int /\ pages <= MaxPages /\ PAGE \in Int /\ PAGE > 0
      /\ pages >= 0 /\ sbrk_bytes # Failed
  <2>1. pages \in Int /\ MaxPages \in Int /\ pages <= MaxPages /\ PAGE \in Int /\ PAGE > 0
        /\ pages >= 0
    BY <1>1, Constants
  <2>2. pages * PAGE >= 0
    BY ONLY <2>1
  <2> QED
    BY <1>1, <2>1, <2>2 DEF Failed
<1> DEFINE b == sbrk(PAGE)
<1>3. HeapAdj(sbrk_bytes) = PAGE
  BY <1>1, SbrkFacts
<1>4. b = IF pages = MaxPages
          THEN [at |-> Failed, bytes |-> sbrk_bytes, pages |-> pages]
          ELSE [at |-> sbrk_bytes, bytes |-> sbrk_bytes + PAGE, pages |-> pages + 1]
  BY <1>1, SbrkFacts
<1>5. /\ sbrk_bytes' = b.bytes /\ pages' = b.pages
      /\ \/ b.at = Failed /\ Exhausted
         \/ b.at # Failed /\ expand_memory(heaps[active], b.at) /\ Expanded(PAGE)
         \/ b.at # Failed /\ ~expand_memory(heaps[active], b.at) /\ Followed(b.at, PAGE)
  BY <1>3 DEF next_active_heap
<1> HIDE DEF b
<1>6. CASE pages = MaxPages
  <2>1. b.at = Failed /\ b.bytes = sbrk_bytes /\ b.pages = pages
    BY <1>4, <1>6
  <2>2. Exhausted /\ UNCHANGED memory
    BY <2>1, <1>5 DEF memory
  <2> QED
    BY <2>2, <1>1, <1>6, ExhaustedOK
<1>7. CASE pages # MaxPages
  <2>1. b.at = sbrk_bytes /\ b.bytes = sbrk_bytes + PAGE /\ b.pages = pages + 1
    BY <1>4, <1>7
  <2>2. pages < MaxPages /\ pages' = pages + 1 /\ sbrk_bytes' = sbrk_bytes + PAGE
    BY <2>1, <1>2, <1>5, <1>7
  <2>3. \/ HeapEnd(heaps[active]) = sbrk_bytes /\ Expanded(PAGE)
        \/ HeapEnd(heaps[active]) # sbrk_bytes /\ Followed(sbrk_bytes, PAGE)
    BY <2>1, <1>2, <1>5 DEF expand_memory
  <2>4. CASE HeapEnd(heaps[active]) = sbrk_bytes /\ Expanded(PAGE)
    BY <2>2, <2>4, <1>1, ExpandedOK
  <2>5. CASE HeapEnd(heaps[active]) # sbrk_bytes /\ Followed(sbrk_bytes, PAGE)
    BY <2>2, <2>5, <1>1, FollowedOK
  <2> QED
    BY <2>3, <2>4, <2>5
<1> QED
  BY <1>6, <1>7

\* What the search makes of the heap it is in, before it goes on from its chunk.
LEMMA SearchedFacts ==
  ASSUME NEW h, HeapOK(h), h.offset = h.size, NEW p \in DOMAIN h.chunks, NEW n \in Nat,
         Multiple(n + MARK),
         ~(~h.chunks[p].alloc /\ Gathered(h, p, n) - p >= n),
         \A q \in DOMAIN h.chunks : q < p => Hopeless(h, q, n),
         NEW g, g = IF h.chunks[p].alloc THEN h ELSE Merged(h, p, n)
  PROVE  /\ HeapOK(g) /\ SameFrame(h, g) /\ SameUse(h, g, {}) /\ p \in DOMAIN g.chunks
         /\ \A q \in DOMAIN g.chunks : q <= p => Hopeless(g, q, n)
<1>0. \A q \in DOMAIN h.chunks : q \in Int
  BY ChunkFacts
<1>1. CASE h.chunks[p].alloc
  <2>1. g = h
    BY <1>1
  <2>2. Hopeless(h, p, n)
    BY <1>1, InUseHopeless
  <2>3. SameUse(h, h, {})
    BY DEF SameUse
  <2>4. \A q \in DOMAIN h.chunks : q <= p => q = p \/ q < p
    BY <1>0
  <2>5. \A q \in DOMAIN h.chunks : q <= p => Hopeless(h, q, n)
    BY <2>2, <2>4
  <2> QED
    BY <2>1, <2>3, <2>5, SameFrameSelf
<1>2. CASE ~h.chunks[p].alloc
  <2>1. g = Merged(h, p, n) /\ ~(Gathered(h, p, n) - p >= n)
    BY <1>2
  <2>2. /\ HeapOK(g) /\ SameFrame(h, g) /\ SameUse(h, g, {})
        /\ p \in DOMAIN g.chunks /\ Hopeless(g, p, n)
        /\ \A q \in DOMAIN g.chunks :
             q < p => q \in DOMAIN h.chunks /\ (Hopeless(h, q, n) => Hopeless(g, q, n))
    BY <1>2, <2>1, MergedInVain
  <2>3. \A q \in DOMAIN g.chunks : q \in Int
    BY <2>2, ChunkFacts
  <2>4. \A q \in DOMAIN g.chunks : q <= p => q = p \/ q < p
    BY <2>2, <2>3
  <2>5. \A q \in DOMAIN g.chunks : q <= p => Hopeless(g, q, n)
    BY <2>2, <2>4
  <2> QED
    BY <2>2, <2>5
<1> QED
  BY <1>1, <1>2

LEMMA PassedOK ==
  ASSUME IInv, Passed PROVE IInv'
<1> DEFINE h == heaps[freeheap]
           g == IF h.chunks[current].alloc THEN h ELSE Merged(h, current, Needed)
           hs == [heaps EXCEPT ![freeheap] = g]
           next == End(g, current) + MARK
           k == IF freeheap + 1 = actual THEN 0 ELSE freeheap + 1
           n == Needed
<1>1. /\ pc = "freed" /\ ~Found /\ UNCHANGED <<memory, initial, actual, active>>
      /\ \/ /\ next < HeapEnd(h)
            /\ heaps' = hs /\ current' = next
            /\ UNCHANGED <<freeheap, pc, call, endheap, blocks, ret, status>>
         \/ /\ next >= HeapEnd(h) /\ k # endheap
            /\ heaps' = hs /\ freeheap' = k /\ current' = hs[k].start + MARK
            /\ UNCHANGED <<pc, call, endheap, blocks, ret, status>>
         \/ /\ next >= HeapEnd(h) /\ k = endheap
            /\ freeheap' = k /\ Answered(hs, NULL)
  BY DEF Passed
<1>2. /\ Full /\ endheap \in 0 .. Last /\ current \in DOMAIN h.chunks
      /\ \A j \in 0 .. Last : Visited(j) =>
           \A p \in DOMAIN heaps[j].chunks : Hopeless(heaps[j], p, n)
      /\ \A p \in DOMAIN h.chunks : p < current => Hopeless(h, p, n)
      /\ ret = Answer(0, NULL) /\ call.size \in Nat \ {0}
      /\ (call.ptr = NULL \/ call.ptr \in DOMAIN blocks)
  BY <1>1 DEF IInv, Searching
<1>3. /\ Placed /\ Managed /\ Consistent(heaps, blocks) /\ status = "ok"
      /\ is_init(heaps[0]) /\ LiveIn(heaps) = 0 .. Last /\ Last \in 0 .. 1
      /\ n \in Nat /\ Multiple(n + MARK) /\ n = Adjusted(call.size)
      /\ \A p \in DOMAIN blocks : blocks[p] \in Nat
  BY <1>1, Calling DEF Needed
<1>4. /\ freeheap \in 0 .. Last /\ actual = Last + 1 /\ pages = MaxPages
      /\ h.offset = h.size /\ \A j \in 0 .. Last : heaps[j].offset = heaps[j].size
  BY <1>2 DEF Full
<1>5. /\ freeheap \in LiveIn(heaps) /\ freeheap \in 0 .. HEAPS - 1 /\ HeapOK(h)
      /\ DOMAIN heaps = 0 .. HEAPS - 1 /\ \A j \in 0 .. Last : j \in 0 .. HEAPS - 1
  BY <1>3, <1>4 DEF Consistent, LiveIn
<1>6. ~(~h.chunks[current].alloc /\ Gathered(h, current, n) - current >= n)
  BY <1>1 DEF Found
<1>7. /\ g = IF h.chunks[current].alloc THEN h ELSE Merged(h, current, n)
      /\ hs = [heaps EXCEPT ![freeheap] = g] /\ h = heaps[freeheap]
      /\ next = End(g, current) + MARK
      /\ k = IF freeheap + 1 = actual THEN 0 ELSE freeheap + 1
      /\ n = Needed
  OBVIOUS
<1> HIDE DEF h, g, hs, next, k, n
<1>8. /\ HeapOK(g) /\ SameFrame(h, g) /\ SameUse(h, g, {}) /\ current \in DOMAIN g.chunks
      /\ \A q \in DOMAIN g.chunks : q <= current => Hopeless(g, q, n)
  <2>1. n \in Nat /\ Multiple(n + MARK)
    BY <1>3
  <2>2. h.offset = h.size /\ current \in DOMAIN h.chunks /\ HeapOK(h)
    BY <1>2, <1>4, <1>5
  <2>3. \A p \in DOMAIN h.chunks : p < current => Hopeless(h, p, n)
    BY <1>2
  <2>4. g = IF h.chunks[current].alloc THEN h ELSE Merged(h, current, n)
    BY <1>7
  <2> QED
    BY ONLY <2>1, <2>2, <2>3, <2>4, <1>6, SearchedFacts
<1>9. Consistent(hs, blocks)
  BY <1>3, <1>5, <1>7, <1>8, ConsistentSame
<1>10. /\ DOMAIN hs = 0 .. HEAPS - 1 /\ hs[freeheap] = g
       /\ \A j \in 0 .. HEAPS - 1 : j # freeheap => hs[j] = heaps[j]
  BY <1>5, <1>7
<1>11. \A j \in 0 .. HEAPS - 1 : SameFrame(heaps[j], hs[j])
  BY <1>7, <1>8, <1>10, SameFrameSelf
<1>12. g.offset = g.size /\ HeapEnd(g) = HeapEnd(h)
  BY <1>4, <1>8 DEF SameFrame, HeapEnd
<1>13. /\ next < HeapEnd(h) => next \in DOMAIN g.chunks
       /\ next < HeapEnd(h) => \A q \in DOMAIN g.chunks : q < next => q <= current
       /\ next >= HeapEnd(h) => \A q \in DOMAIN g.chunks : q <= current
  BY <1>7, <1>8, <1>12, NextChunk
<1>14. k \in 0 .. Last /\ k \in Int /\ endheap \in Int /\ freeheap \in Int
  BY <1>2, <1>3, <1>4, <1>7
<1>15. \A j \in 0 .. Last : j # freeheap /\ Visited(j) =>
         \A p \in DOMAIN hs[j].chunks : Hopeless(hs[j], p, n)
  BY <1>2, <1>5, <1>10
<1>16. TypedHeaps(hs, blocks)
  BY <1>3, <1>9, TypedStep
<1>17. CASE /\ next < HeapEnd(h) /\ heaps' = hs /\ current' = next
            /\ UNCHANGED <<freeheap, pc, call, endheap, blocks, ret, status>>
  <2>1. Placed' /\ Managed' /\ Last' = Last /\ Full' /\ LiveIn(heaps') = LiveIn(heaps)
    BY <1>1, <1>2, <1>3, <1>10, <1>11, <1>17, FrameStep
  <2>2. /\ current' \in DOMAIN heaps'[freeheap].chunks
        /\ \A p \in DOMAIN heaps'[freeheap].chunks :
             p < current' => Hopeless(heaps'[freeheap], p, n)
    BY <1>8, <1>10, <1>13, <1>17
  <2>3. \A j \in 0 .. Last : Visited(j)' => Visited(j) /\ j # freeheap
    BY <1>14, <1>17 DEF Visited
  <2>4. \A j \in 0 .. Last : Visited(j)' =>
          \A p \in DOMAIN heaps'[j].chunks : Hopeless(heaps'[j], p, n)
    BY <2>3, <1>15, <1>17
  <2>5. is_init(heaps'[0]) /\ Needed' = n
    <3>1. 0 \in LiveIn(heaps')
      BY <2>1, <1>3
    <3> QED
      BY <3>1, <1>7, <1>17 DEF LiveIn, Needed
  <2>6. Searching'
    BY <1>1, <1>2, <1>3, <1>17, <2>1, <2>2, <2>4, <2>5 DEF Searching
  <2>7. Typed' /\ Consistent(heaps', blocks') /\ Refused'
    BY <1>1, <1>2, <1>3, <1>9, <1>16, <1>17 DEF Typed, Refused, Answer
  <2> QED
    BY <2>1, <2>6, <2>7 DEF IInv
<1>18. CASE /\ next >= HeapEnd(h) /\ k # endheap
            /\ heaps' = hs /\ freeheap' = k /\ current' = hs[k].start + MARK
            /\ UNCHANGED <<pc, call, endheap, blocks, ret, status>>
  <2>1. Placed' /\ Managed' /\ Last' = Last /\ Full' /\ LiveIn(heaps') = LiveIn(heaps)
    BY <1>1, <1>2, <1>3, <1>10, <1>11, <1>14, <1>18, FrameStep
  <2>2. HeapOK(heaps'[k]) /\ heaps'[k].offset = heaps'[k].size
        /\ current' = heaps'[k].start + MARK
    <3>1. k \in LiveIn(hs) /\ k \in 0 .. Last'
      BY <2>1, <1>3, <1>14, <1>18
    <3> QED
      BY <3>1, <2>1, <1>9, <1>18 DEF Consistent, Full
  <2>3. /\ current' \in DOMAIN heaps'[k].chunks
        /\ \A q \in DOMAIN heaps'[k].chunks : ~(q < current')
    BY <2>2, FirstChunk
  <2>4. \A j \in 0 .. Last : Visited(j)' => Visited(j) \/ j = freeheap
    BY <1>2, <1>3, <1>4, <1>7, <1>14, <1>18 DEF Visited
  <2>5. \A p \in DOMAIN hs[freeheap].chunks : Hopeless(hs[freeheap], p, n)
    BY <1>8, <1>10, <1>13, <1>18
  <2>6. \A j \in 0 .. Last : Visited(j)' =>
          \A p \in DOMAIN heaps'[j].chunks : Hopeless(heaps'[j], p, n)
    BY <2>4, <2>5, <1>15, <1>18
  <2>7. is_init(heaps'[0]) /\ Needed' = n
    <3>1. 0 \in LiveIn(heaps')
      BY <2>1, <1>3
    <3> QED
      BY <3>1, <1>7, <1>18 DEF LiveIn, Needed
  <2>8. Searching'
    BY <1>1, <1>2, <1>3, <1>18, <2>1, <2>3, <2>6, <2>7 DEF Searching
  <2>9. Typed' /\ Consistent(heaps', blocks') /\ Refused'
    BY <1>1, <1>2, <1>3, <1>9, <1>16, <1>18 DEF Typed, Refused, Answer
  <2> QED
    BY <2>1, <2>8, <2>9 DEF IInv
<1>19. CASE next >= HeapEnd(h) /\ k = endheap /\ freeheap' = k /\ Answered(hs, NULL)
  <2>1. /\ heaps' = hs /\ blocks' = blocks /\ ret' = Answer(call.size, NULL)
        /\ status' \in {"ok", "clobbered"} /\ pc' = "idle"
    BY <1>3, <1>19 DEF Answered, Done
  <2>2. Placed' /\ Managed' /\ LiveIn(heaps') = LiveIn(heaps)
    BY <1>1, <1>2, <1>3, <1>10, <1>11, <1>14, <1>19, <2>1, FrameStep
  <2>3. \A j \in 0 .. Last : Visited(j) \/ j = freeheap
    BY <1>2, <1>3, <1>4, <1>7, <1>14, <1>19 DEF Visited
  <2>4. \A p \in DOMAIN hs[freeheap].chunks : Hopeless(hs[freeheap], p, n)
    BY <1>8, <1>10, <1>13, <1>19
  <2>5. \A j \in 0 .. Last : \A p \in DOMAIN hs[j].chunks : Hopeless(hs[j], p, n)
    BY <2>3, <2>4, <1>15
  <2>6. Refused'
    <3>1. pages' = MaxPages /\ Adjusted(ret'.size) = n
      BY <2>1, <1>1, <1>3, <1>4 DEF memory, Answer
    <3> QED
      BY <3>1, <2>1, <2>2, <2>5, <1>3 DEF Refused
  <2>7. Typed' /\ Consistent(heaps', blocks') /\ Searching'
    BY <2>1, <1>9, <1>16 DEF Typed, Searching
  <2> QED
    BY <2>2, <2>6, <2>7 DEF IInv
<1> QED
  BY <1>1, <1>17, <1>18, <1>19

-----------------------------------------------------------------------------
\* The theorems.

LEMMA Unchanged ==
  ASSUME IInv, UNCHANGED vars PROVE IInv'
<1>1. /\ heaps' = heaps /\ blocks' = blocks /\ pages' = pages /\ sbrk_bytes' = sbrk_bytes
      /\ initial' = initial /\ actual' = actual /\ active' = active /\ freeheap' = freeheap
      /\ pc' = pc /\ call' = call /\ endheap' = endheap /\ current' = current
      /\ ret' = ret /\ status' = status
  BY DEF vars, memory, search
<1>2. Placed' /\ Managed'
  BY <1>1 DEF IInv, Placed, Managed, Growing, Full, Last
<1>3. Typed' /\ Refused' /\ (status' # "overran" => Consistent(heaps', blocks'))
  BY <1>1 DEF IInv, Typed, Refused
<1>4. Searching'
  BY <1>1 DEF IInv, Searching, Growing, Full, Last, Visited, Needed
<1> QED
  BY <1>2, <1>3, <1>4 DEF IInv

\* Every step of the allocator keeps the invariant.
LEMMA StepOK ==
  ASSUME IInv, [Next]_vars PROVE IInv'
<1>0. Sizes \subseteq Nat /\ Counts \subseteq Nat \ {0}
  BY HeapAssumption
<1>1. CASE Restart
  BY <1>1, RestartOK
<1>ready. ASSUME status # "overran", Ready PROVE Orderly
  BY <1>ready DEF IInv, Typed, Ready, Orderly
<1>2. ASSUME status # "overran", NEW size \in Sizes, malloc(size) PROVE IInv'
  <2>0. Orderly
    BY <1>2, <1>ready DEF malloc
  <2>1. CASE Nothing
    BY <2>0, <2>1, NothingOK
  <2>2. CASE size > 0 /\ Enter("malloc", NULL, size)
    BY <2>0, <2>2, <1>0, EnterOK
  <2> QED
    BY <1>2, <2>1, <2>2 DEF malloc
<1>3. ASSUME status # "overran", NEW size \in Sizes, NEW count \in Counts,
             calloc(count, size)
      PROVE IInv'
  <2>0. Orderly
    BY <1>3, <1>ready DEF calloc
  <2>1. CASE Nothing
    BY <2>0, <2>1, NothingOK
  <2>2. CASE count * size > 0 /\ Enter("calloc", NULL, count * size)
    <3>1. count * size \in Nat \ {0}
      BY <2>2, <1>0
    <3> QED
      BY <2>0, <2>2, <3>1, EnterOK
  <2> QED
    BY <1>3, <2>1, <2>2 DEF calloc
<1>4. ASSUME status # "overran", NEW size \in Sizes, NEW p \in DOMAIN blocks,
             realloc(p, size)
      PROVE IInv'
  <2> DEFINE k == HeapOf(p)
             h == Resized(heaps[k], p, Adjusted(size))
  <2>1. k = HeapOf(p) /\ h = Resized(heaps[k], p, Adjusted(size))
    OBVIOUS
  <2>0. Orderly
    BY <1>4, <1>ready DEF realloc
  <2>2. /\ size > 0 /\ size \in Nat
        /\ \/ /\ Resizable(heaps[k], p, Adjusted(size))
              /\ heaps' = [heaps EXCEPT ![k] = h]
              /\ blocks' = Put(blocks, p, size)
              /\ ret' = Answer(size, p)
              /\ status' = IF Overrun(h) THEN "overran" ELSE "ok"
              /\ UNCHANGED <<memory, initial, actual, active, freeheap, search>>
           \/ Enter("realloc", p, size)
    BY <1>0, <1>4, <2>0 DEF realloc, Orderly
  <2> HIDE DEF k, h
  <2>3. CASE Enter("realloc", p, size)
    BY <2>0, <2>2, <2>3, EnterOK
  <2>4. CASE ~Enter("realloc", p, size)
    BY <2>0, <2>1, <2>2, <2>4, InPlaceOK
  <2> QED
    BY <2>3, <2>4
<1>5. ASSUME status # "overran", NEW p \in DOMAIN blocks, free(p) PROVE IInv'
  <2>1. Orderly
    BY <1>5, <1>ready DEF free
  <2> QED
    BY <1>5, <2>1, FreeOK
<1>6. CASE Allocate
  BY <1>6, AllocateOK
<1>7. CASE next_active_heap
  BY <1>7, NextHeapOK
<1>8. CASE Taken
  BY <1>8, TakenOK
<1>9. CASE Passed
  BY <1>9, PassedOK
<1>10. CASE UNCHANGED vars
  BY <1>10, Unchanged
<1> QED
  BY <1>1, <1>2, <1>3, <1>4, <1>5, <1>6, <1>7, <1>8, <1>9, <1>10 DEF Next, Call

\* The invariant behind the other theorems: at every step of every call of malloc,
\* calloc, realloc and free the heaps lie one behind the other, the headers of each
\* are consistent with the blocks in use, the last heap is the active one until the
\* memory is exhausted and all are full from then on, and the chunks that the search
\* has passed hold nothing that is large enough.
THEOREM HeapInvariant == Spec => []IInv
<1>1. Init => IInv
  BY InitOK
<1>2. IInv /\ [Next]_vars => IInv'
  BY StepOK
<1> QED
  BY <1>1, <1>2, PTL DEF Spec

\* The heaps of the properties are the heaps that have been initialized.
LEMMA HeapsAreLive ==
  ASSUME Placed, NEW h \in Heaps
  PROVE  \E k \in LiveIn(heaps) : h = heaps[k]
  BY DEF Heaps, LiveIn, Placed

LEMMA InvTypeOK ==
  ASSUME IInv PROVE TypeOK
<1>1. Placed /\ Managed /\ Typed /\ Searching
  BY DEF IInv
<1>2. /\ DOMAIN heaps = 0 .. HEAPS - 1 /\ HEAPS \in Int /\ HEAPS >= 2
      /\ Last \in 0 .. 1 /\ actual \in 0 .. HEAPS /\ active \in 0 .. HEAPS
      /\ is_init(heaps[0]) => LiveIn(heaps) = 0 .. Last /\ Last < actual
  BY <1>1, LiveHeaps
<1>3. /\ freeheap \in 0 .. HEAPS - 1 /\ (freeheap > 0 => freeheap < actual)
      /\ (active = HEAPS => actual = HEAPS)
  <2>1. CASE ~is_init(heaps[0])
    BY <2>1, <1>1, <1>2 DEF Placed
  <2>2. CASE is_init(heaps[0])
    BY <2>2, <1>1, <1>2 DEF Managed, Growing, Full
  <2> QED
    BY <2>1, <2>2
<1>4. pc = "active" => active < actual /\ is_init(heaps[active])
  <2> SUFFICES ASSUME pc = "active" PROVE active < actual /\ is_init(heaps[active])
    OBVIOUS
  <2>1. is_init(heaps[0]) /\ active = Last
    BY <1>1 DEF Searching, Growing
  <2>2. active \in LiveIn(heaps) /\ Last < actual
    BY <2>1, <1>2
  <2> QED
    BY <2>1, <2>2 DEF LiveIn
<1>5. pc = "freed" => /\ freeheap < actual /\ is_init(heaps[freeheap])
                      /\ current \in DOMAIN heaps[freeheap].chunks
  <2> SUFFICES ASSUME pc = "freed"
               PROVE  /\ freeheap < actual /\ is_init(heaps[freeheap])
                      /\ current \in DOMAIN heaps[freeheap].chunks
    OBVIOUS
  <2>1. is_init(heaps[0]) /\ freeheap \in 0 .. Last /\ actual = Last + 1
        /\ current \in DOMAIN heaps[freeheap].chunks
    BY <1>1 DEF Searching, Full
  <2>2. freeheap \in LiveIn(heaps) /\ freeheap < actual
    BY <2>1, <1>2
  <2> QED
    BY <2>1, <2>2 DEF LiveIn
<1>6. \A h \in Heaps : h.size \in Nat /\ h.offset \in Nat /\
        \A p \in DOMAIN h.chunks : h.chunks[p].size \in Nat /\ h.chunks[p].alloc \in BOOLEAN
  <2> TAKE h \in Heaps
  <2>1. PICK k \in LiveIn(heaps) : h = heaps[k]
    BY <1>1, HeapsAreLive
  <2> QED
    BY <2>1, <1>1 DEF Typed, TypedHeaps
<1>7. /\ \A p \in DOMAIN blocks : p \in Nat \ {NULL} /\ blocks[p] \in Nat
      /\ pc \in {"idle", "active", "freed"} /\ status \in {"ok", "overran", "clobbered"}
      /\ pages \in StartPages .. MaxPages /\ sbrk_bytes = pages * PAGE
  BY <1>1 DEF Typed, TypedHeaps, Placed
<1> QED
  BY <1>2, <1>3, <1>4, <1>5, <1>6, <1>7 DEF TypeOK

LEMMA InvAccounted ==
  ASSUME IInv PROVE Accounted
<1> SUFFICES ASSUME status # "overran"
             PROVE  /\ \A h \in Heaps : Tiled(h)
                    /\ \A h \in Heaps : \A p \in DOMAIN h.chunks :
                         h.chunks[p].alloc => p \in DOMAIN blocks /\ blocks[p] <= h.chunks[p].size
                    /\ \A p \in DOMAIN blocks :
                         \E h \in Heaps : p \in DOMAIN h.chunks /\ h.chunks[p].alloc
  BY DEF Accounted
<1>1. Placed /\ Consistent(heaps, blocks)
  BY DEF IInv
<1>2. ASSUME NEW h \in Heaps PROVE Tiled(h)
  <2>1. PICK k \in LiveIn(heaps) : h = heaps[k]
    BY <1>1, HeapsAreLive
  <2>2. HeapOK(h)
    BY <2>1, <1>1 DEF Consistent
  <2>3. h.offset <= h.size /\ (h.offset > 0 => h.start + MARK \in DOMAIN h.chunks)
    BY <2>2 DEF HeapOK, HeapTypes, Ended
  <2>4. ASSUME NEW p \in DOMAIN h.chunks
        PROVE  /\ h.start + MARK <= p /\ End(h, p) <= CutEnd(h)
               /\ End(h, p) = CutEnd(h) \/ End(h, p) + MARK \in DOMAIN h.chunks
               /\ \A q \in DOMAIN h.chunks : p < q => End(h, p) + MARK <= q
    BY <2>2 DEF HeapOK, ChunkOK, Linked, Apart
  <2> QED
    BY <2>3, <2>4 DEF Tiled
<1>3. ASSUME NEW h \in Heaps, NEW p \in DOMAIN h.chunks, h.chunks[p].alloc
      PROVE  p \in DOMAIN blocks /\ blocks[p] <= h.chunks[p].size
  <2>1. PICK k \in LiveIn(heaps) : h = heaps[k]
    BY <1>1, HeapsAreLive
  <2>2. InUse(heaps[k], p) /\ p \in DOMAIN heaps[k].chunks
    BY <1>3, <2>1 DEF InUse
  <2> QED
    BY <2>1, <2>2, <1>1 DEF Consistent
<1>4. ASSUME NEW p \in DOMAIN blocks
      PROVE  \E h \in Heaps : p \in DOMAIN h.chunks /\ h.chunks[p].alloc
  <2>1. PICK k \in LiveIn(heaps) : InUse(heaps[k], p)
    BY <1>1 DEF Consistent
  <2>2. heaps[k] \in Heaps
    BY <1>1 DEF Heaps, LiveIn, Placed
  <2> QED
    BY <2>1, <2>2 DEF InUse
<1> QED
  BY <1>2, <1>3, <1>4

\* A block lies in its chunk, and the chunk in its heap.
LEMMA BlockPlace ==
  ASSUME Placed, Consistent(heaps, blocks), NEW p \in DOMAIN blocks, blocks[p] \in Nat
  PROVE  \E k \in LiveIn(heaps) :
           /\ HeapOK(heaps[k]) /\ p \in DOMAIN heaps[k].chunks /\ p \in Int
           /\ heaps[k].start \in Int /\ heaps[k].start + MARK <= p
           /\ End(heaps[k], p) \in Int /\ HeapEnd(heaps[k]) \in Int
           /\ p + blocks[p] <= End(heaps[k], p) /\ End(heaps[k], p) <= HeapEnd(heaps[k])
<1>1. PICK k \in LiveIn(heaps) : InUse(heaps[k], p)
  BY DEF Consistent
<1>2. HeapOK(heaps[k]) /\ p \in DOMAIN heaps[k].chunks /\ blocks[p] <= heaps[k].chunks[p].size
  BY <1>1 DEF Consistent, InUse
<1>3. /\ p \in Int /\ heaps[k].start \in Int /\ heaps[k].start + MARK <= p
      /\ heaps[k].chunks[p].size \in Nat /\ End(heaps[k], p) \in Int
      /\ End(heaps[k], p) <= CutEnd(heaps[k]) /\ CutEnd(heaps[k]) <= HeapEnd(heaps[k])
      /\ CutEnd(heaps[k]) \in Int /\ HeapEnd(heaps[k]) \in Int
  BY <1>2, ChunkFacts
<1>4. End(heaps[k], p) <= HeapEnd(heaps[k])
  BY <1>3
<1>5. p + blocks[p] <= End(heaps[k], p)
  BY <1>2, <1>3 DEF End
<1> QED
  BY <1>2, <1>3, <1>4, <1>5

LEMMA InvDisjoint ==
  ASSUME IInv PROVE Disjoint
<1> SUFFICES ASSUME status # "overran", NEW p \in DOMAIN blocks
             PROVE  /\ \/ initial + MARK <= p /\ p + blocks[p] <= initial + INITIAL
                       \/ StartPages * PAGE + MARK <= p
                       \/ initial + INITIAL = StartPages * PAGE /\ initial + MARK <= p
                    /\ p + blocks[p] <= pages * PAGE
                    /\ \A q \in DOMAIN blocks : p < q => p + blocks[p] + MARK <= q
  BY DEF Disjoint
<1>1. /\ Placed /\ Managed /\ Consistent(heaps, blocks)
      /\ \A q \in DOMAIN blocks : blocks[q] \in Nat
  BY DEF IInv, Typed, TypedHeaps
<1>2. PICK k \in LiveIn(heaps) :
        /\ HeapOK(heaps[k]) /\ p \in DOMAIN heaps[k].chunks /\ p \in Int
        /\ heaps[k].start \in Int /\ heaps[k].start + MARK <= p
        /\ End(heaps[k], p) \in Int /\ HeapEnd(heaps[k]) \in Int
        /\ p + blocks[p] <= End(heaps[k], p) /\ End(heaps[k], p) <= HeapEnd(heaps[k])
  BY <1>1, BlockPlace
<1>3. p + blocks[p] \in Int /\ p + blocks[p] <= HeapEnd(heaps[k]) /\ MARK \in Int /\ MARK > 0
  BY <1>1, <1>2, Constants
<1>4. /\ initial \in Nat /\ INITIAL \in Nat /\ initial + INITIAL <= StartPages * PAGE
      /\ StartPages * PAGE \in Int /\ pages * PAGE \in Int
      /\ StartPages * PAGE <= pages * PAGE
  <2>1. /\ StartPages \in Nat /\ pages \in Nat /\ StartPages <= pages /\ PAGE \in Nat
        /\ initial \in Nat /\ INITIAL \in Nat /\ initial + INITIAL <= StartPages * PAGE
    BY <1>1, HeapAssumption DEF Placed
  <2>2. PICK d \in Nat : pages = StartPages + d
    <3>1. pages - StartPages \in Nat /\ pages = StartPages + (pages - StartPages)
      BY <2>1
    <3> QED
      BY <3>1
  <2>3. pages * PAGE = StartPages * PAGE + d * PAGE /\ d * PAGE \in Nat
    BY ONLY <2>1, <2>2
  <2>4. StartPages * PAGE \in Int
    BY ONLY <2>1
  <2> QED
    BY <2>1, <2>3, <2>4
<1>5. /\ \/ initial + MARK <= p /\ p + blocks[p] <= initial + INITIAL
         \/ StartPages * PAGE + MARK <= p
         \/ initial + INITIAL = StartPages * PAGE /\ initial + MARK <= p
      /\ p + blocks[p] <= pages * PAGE
  <2>0. is_init(heaps[0]) /\ (k = 0 \/ k = 1) /\ (k = 1 => is_init(heaps[1]))
    <3>1. LiveIn(heaps) # {}
      BY <1>2
    <3>2. is_init(heaps[0]) /\ k \in 0 .. Last /\ Last \in 0 .. 1
      BY <3>1, <1>1, LiveHeaps
    <3> QED
      BY <3>2, <1>2 DEF LiveIn
  <2>1. CASE k = 0 /\ heaps[0].size = INITIAL
    <3>1. heaps[0].start = initial /\ HeapEnd(heaps[0]) = initial + INITIAL
      BY <2>0, <2>1, <1>1 DEF Placed, HeapEnd
    <3> QED
      BY <3>1, <2>1, <1>2, <1>3, <1>4
  <2>2. CASE k = 0 /\ initial + INITIAL = StartPages * PAGE /\ HeapEnd(heaps[0]) = pages * PAGE
    <3>1. heaps[0].start = initial
      BY <2>0, <1>1 DEF Placed
    <3> QED
      BY <3>1, <2>2, <1>2, <1>3, <1>4
  <2>3. CASE k = 1
    <3>1. heaps[1].start = StartPages * PAGE /\ HeapEnd(heaps[1]) = pages * PAGE
      BY <2>0, <2>3, <1>1 DEF Placed
    <3> QED
      BY <3>1, <2>3, <1>2, <1>3, <1>4
  <2> QED
    BY <2>0, <2>1, <2>2, <2>3, <1>1 DEF Placed
<1>6. ASSUME NEW q \in DOMAIN blocks, p < q PROVE p + blocks[p] + MARK <= q
  <2>1. PICK j \in LiveIn(heaps) :
          /\ HeapOK(heaps[j]) /\ q \in DOMAIN heaps[j].chunks /\ q \in Int
          /\ heaps[j].start \in Int /\ heaps[j].start + MARK <= q
          /\ End(heaps[j], q) \in Int /\ HeapEnd(heaps[j]) \in Int
          /\ q + blocks[q] <= End(heaps[j], q) /\ End(heaps[j], q) <= HeapEnd(heaps[j])
    BY <1>1, BlockPlace
  <2>2. q + blocks[q] \in Int /\ q <= HeapEnd(heaps[j])
    BY <1>1, <2>1
  <2>3. CASE j = k
    <3>1. End(heaps[k], p) + MARK <= q
      BY <1>2, <1>6, <2>1, <2>3 DEF HeapOK, Apart
    <3> QED
      BY <3>1, <1>2, <1>3, <2>1
  <2>4. CASE k < j
    <3>1. HeapEnd(heaps[k]) <= heaps[j].start
      BY <1>1, <1>2, <2>1, <2>4 DEF Consistent
    <3> QED
      BY <3>1, <1>2, <1>3, <2>1
  <2>5. CASE j < k
    <3>1. HeapEnd(heaps[j]) <= heaps[k].start
      BY <1>1, <1>2, <2>1, <2>5 DEF Consistent
    <3> QED
      BY <3>1, <1>2, <1>3, <1>6, <2>1, <2>2
  <2>6. j \in Int /\ k \in Int
    BY <1>1, <1>2, <2>1, Constants DEF LiveIn
  <2> QED
    BY <2>3, <2>4, <2>5, <2>6
<1> QED
  BY <1>5, <1>6

LEMMA InvRefusalJustified ==
  ASSUME IInv PROVE RefusalJustified
<1> SUFFICES ASSUME ret.ptr = NULL, ret.size > 0
             PROVE  /\ pages = MaxPages
                    /\ \A h \in Heaps : \A p, q \in DOMAIN h.chunks :
                         p <= q /\ FreeRun(h, p, End(h, q)) => End(h, q) - p < Adjusted(ret.size)
  BY DEF RefusalJustified
<1>1. /\ Placed /\ pages = MaxPages
      /\ \A k \in LiveIn(heaps) : \A p \in DOMAIN heaps[k].chunks :
           Hopeless(heaps[k], p, Adjusted(ret.size))
  BY DEF IInv, Refused
<1>2. ASSUME NEW h \in Heaps, NEW p \in DOMAIN h.chunks
      PROVE  Hopeless(h, p, Adjusted(ret.size))
  BY <1>1, HeapsAreLive
<1> QED
  BY <1>1, <1>2 DEF Hopeless

\* The members have their types: _available_heaps is never indexed past its end, and
\* malloc_from_freed is always at a chunk of an initialized heap.
THEOREM HeapTypeCorrect == Spec => []TypeOK
  BY HeapInvariant, InvTypeOK, PTL

\* Following the headers of a heap leads exactly to _offset, and the chunks marked
\* as allocated are exactly those of the blocks in use, each large enough, whatever
\* malloc, calloc, realloc and free have split, merged, moved and given back.
THEOREM HeapAccounted == Spec => []Accounted
  BY HeapInvariant, InvAccounted, PTL

\* No block that malloc, calloc or realloc has handed out overlaps another one, the
\* header of one, or memory outside of the heaps.
THEOREM HeapBlocksDisjoint == Spec => []Disjoint
  BY HeapInvariant, InvDisjoint, PTL

\* malloc returns null only when the host refuses another page and no adjacent free
\* chunks of any heap would hold the bytes.
THEOREM HeapRefusalJustified == Spec => []RefusalJustified
  BY HeapInvariant, InvRefusalJustified, PTL
=============================================================================
