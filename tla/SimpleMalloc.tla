---------------------------- MODULE SimpleMalloc ----------------------------
(***************************************************************************)
(* The allocator that contracts are linked with                            *)
(* (platonlib/malloc/simple_malloc.cpp): blocks are cut off the end of the *)
(* linear memory one after the other, each behind a header that holds the  *)
(* size asked for, and are never given back.  The memory grows by whole    *)
(* pages as the end passes them.                                           *)
(*                                                                         *)
(* Addresses and sizes are 32 bit: arithmetic is modulo WORD.  The wasm    *)
(* instructions memory.size and memory.grow are external, and so is the    *)
(* trap of a store outside the memory.                                     *)
(***************************************************************************)
EXTENDS Integers, FiniteSets

CONSTANTS
  WORD,        \* 2^32
  PAGE,        \* wasm_page_size
  ALIGN,       \* align_amt, and with it the size of a header
  Bases,       \* values of __heap_base
  StartPages,  \* the memory the module starts with
  MaxPages,    \* the memory the host grants
  Sizes,       \* the sizes asked for
  Counts,      \* the numbers of elements asked of calloc
  MaxBlocks    \* bound on the number of blocks

ASSUME MemoryAssumption ==
  /\ ALIGN \in Nat \ {0} /\ PAGE \in Nat \ {0} /\ PAGE % ALIGN = 0
  /\ WORD \in Nat /\ WORD % PAGE = 0
  /\ StartPages \in Nat /\ MaxPages \in Nat /\ StartPages <= MaxPages
  /\ MaxPages * PAGE < WORD
  /\ Bases \subseteq 1 .. StartPages * PAGE
  /\ Sizes \subseteq Nat /\ Counts \subseteq Nat \ {0}

\* No request is so large that an address or a size wraps.
ASSUME SizeAssumption ==
  \A sz \in Sizes :
    /\ MaxPages * PAGE + sz + 2 * ALIGN < WORD
    /\ \A count \in Counts : MaxPages * PAGE + count * sz + 2 * ALIGN < WORD

VARIABLES
  last_ptr,    \* the end of the blocks
  next_page,   \* the pages the allocator believes it has
  pages,       \* the pages the memory has
  blocks,      \* what the program got: address -> size asked for
  header,      \* the headers in memory: address of the block -> size
  refused,     \* the host has refused to grow the memory
  status       \* "running", "thrown" (platon_throw) or "trapped" (a store outside)

vars == <<last_ptr, next_page, pages, blocks, header, refused, status>>

\* align(ptr, align_amt)
align(p) == ((p + ALIGN - 1) \div ALIGN) * ALIGN

NoBlocks == [p \in {} |-> 0]

With(f, p, n) == [q \in DOMAIN f \cup {p} |-> IF q = p THEN n ELSE f[q]]

\* dsmalloc() in a new instance of the module, one per call of a contract.
Init ==
  /\ \E base \in Bases : last_ptr = align(base)
  /\ next_page = StartPages
  /\ pages = StartPages
  /\ blocks = NoBlocks
  /\ header = NoBlocks
  /\ refused = FALSE
  /\ status = "running"

\* The call is over; the next one starts from scratch.
Restart ==
  /\ \E base \in Bases : last_ptr' = align(base)
  /\ next_page' = StartPages
  /\ pages' = StartPages
  /\ blocks' = NoBlocks
  /\ header' = NoBlocks
  /\ refused' = FALSE
  /\ status' = "running"

-----------------------------------------------------------------------------
\* dsmalloc::operator()

RealSize(sz) == (sz + ALIGN) % WORD

NewEnd(sz) == align((last_ptr + RealSize(sz)) % WORD) % WORD

\* Mutant of PagesNeeded: the pages that lie wholly inside the block are not
\* counted.
PagesNeeded_one(sz) ==
  IF (next_page * PAGE) % WORD <= NewEnd(sz) THEN 1 ELSE 0

\* The whole pages of the block, and one more if the end has passed them all.
PagesNeeded(sz) ==
  LET whole == RealSize(sz) \div PAGE
  IN IF ((next_page + whole) * PAGE) % WORD <= NewEnd(sz) THEN whole + 1 ELSE whole

Granted(n) == pages + n <= MaxPages

\* memory.grow: the old size, or -1 when the host refuses.
memory_grow(n) == IF Granted(n) THEN pages ELSE WORD - 1

\* A block for sz # 0 bytes, its size stored in the header before it; the
\* function then fills its first bytes (touched of them), and the program no
\* longer uses the blocks in dead.  The allocator tests for a failed memory.grow
\* by comparing its answer with 0.
Allocate(sz, touched, dead) ==
  LET n == PagesNeeded(sz)
      p == last_ptr + ALIGN
      Outside == last_ptr >= pages' * PAGE \/ p + touched > pages' * PAGE
  IN /\ Cardinality(DOMAIN header) < MaxBlocks
     /\ last_ptr' = NewEnd(sz)
     /\ next_page' = next_page + n
     /\ pages' = IF n > 0 /\ Granted(n) THEN pages + n ELSE pages
     /\ refused' = (refused \/ (n > 0 /\ ~Granted(n)))
     /\ status' = CASE n > 0 /\ memory_grow(n) = 0 -> "thrown"
                    [] n = 0 \/ memory_grow(n) # 0 ->
                         IF Outside THEN "trapped" ELSE "running"
     /\ IF status' = "running"
        THEN /\ header' = With(header, p, sz)
             /\ blocks' = With([q \in DOMAIN blocks \ dead |-> blocks[q]], p, sz)
        ELSE UNCHANGED <<header, blocks>>

-----------------------------------------------------------------------------
\* The C functions.  Size 0 gets a null pointer and changes nothing.

malloc(sz) ==
  /\ status = "running"
  /\ IF sz = 0 THEN UNCHANGED vars ELSE Allocate(sz, 0, {})

calloc(count, sz) ==
  /\ status = "running"
  /\ LET total == (count * sz) % WORD
     IN IF total = 0 THEN UNCHANGED vars ELSE Allocate(total, total, {})

\* Mutant of realloc: the block is thought to be as large as its header and it.
realloc_in_place(p, sz) ==
  /\ status = "running"
  /\ IF sz = 0 THEN UNCHANGED vars
     ELSE IF sz <= header[p] + ALIGN
          THEN /\ blocks' = [blocks EXCEPT ![p] = sz]
               /\ UNCHANGED <<last_ptr, next_page, pages, header, refused, status>>
          ELSE Allocate(sz, header[p], {p})

\* Mutant of realloc: size 0 is not tested for, and the block goes on with no bytes.
realloc_to_nothing(p, sz) ==
  /\ status = "running"
  /\ IF sz <= header[p]
     THEN /\ blocks' = [blocks EXCEPT ![p] = sz]
          /\ UNCHANGED <<last_ptr, next_page, pages, header, refused, status>>
     ELSE Allocate(sz, header[p], {p})

\* In place if the header says that the block is large enough; otherwise the
\* contents are copied to a new block.
realloc(p, sz) ==
  /\ status = "running"
  /\ IF sz = 0 THEN UNCHANGED vars
     ELSE IF sz <= header[p]
          THEN /\ blocks' = [blocks EXCEPT ![p] = sz]
               /\ UNCHANGED <<last_ptr, next_page, pages, header, refused, status>>
          ELSE Allocate(sz, header[p], {p})

\* free does nothing; the program stops using the block.
free(p) ==
  /\ status = "running"
  /\ blocks' = [q \in DOMAIN blocks \ {p} |-> blocks[q]]
  /\ UNCHANGED <<last_ptr, next_page, pages, header, refused, status>>

Next ==
  \/ Restart
  \/ \E sz \in Sizes :
       \/ malloc(sz) \/ \E count \in Counts : calloc(count, sz)
       \/ \E p \in DOMAIN blocks : realloc(p, sz)
  \/ \E p \in DOMAIN blocks : free(p)

Spec == Init /\ [][Next]_vars
-----------------------------------------------------------------------------
\* Properties.

\* The types of the allocator's members and of the memory.
TypeOK ==
  /\ last_ptr \in 0 .. WORD - 1
  /\ next_page \in Nat
  /\ pages \in StartPages .. MaxPages
  /\ DOMAIN blocks \subseteq DOMAIN header
  /\ \A p \in DOMAIN header : p \in Nat /\ header[p] \in Nat \ {0}
  /\ \A p \in DOMAIN blocks : blocks[p] \in Nat \ {0}
  /\ refused \in BOOLEAN
  /\ status \in {"running", "thrown", "trapped"}

\* No two blocks in use overlap each other or each other's headers, and as long
\* as the call runs none reaches past last_ptr, where the next one will be cut
\* off, whatever was allocated, reallocated in place or moved before, also once
\* the host has refused to grow the memory.
Disjoint ==
  \A p \in DOMAIN blocks :
    /\ status = "running" => p + blocks[p] <= last_ptr
    /\ \A q \in DOMAIN blocks :
         p < q => p + blocks[p] <= q - ALIGN

\* As long as the host grants the pages that are asked for, the pages counted by
\* the allocator are the pages of the memory, and every block lies inside it.
InMemory ==
  ~refused =>
    /\ next_page = pages
    /\ last_ptr <= pages * PAGE
    /\ \A p \in DOMAIN blocks : p + blocks[p] <= pages * PAGE

\* simple_malloc.cpp:58: a contract that gets no more memory ends with "failed
\* to allocate pages".
RefusalThrows == refused => status = "thrown"
=============================================================================
