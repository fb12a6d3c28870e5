----------------------------- MODULE HeapMalloc -----------------------------
(***************************************************************************)
(* The allocator of platonlib/malloc/malloc.cpp: up to HEAPS heaps, each a *)
(* piece of the linear memory cut into chunks of a header (its size and    *)
(* whether it is allocated) and the bytes handed out.  Chunks are cut off  *)
(* the end of the active heap; when it is full the memory grows by a page, *)
(* which extends the heap if it is adjacent and starts another one if not. *)
(* Only when the host refuses a page are the freed chunks looked at.       *)
(*                                                                         *)
(* The headers of a heap are a function from the address that the program  *)
(* sees of a chunk to what its header says; memory behind _offset has never*)
(* been written and reads as zero.  Each iteration of the loops of malloc  *)
(* is a step: pc says which loop is under way, "active" the one over the   *)
(* active heap and the next ones, "freed" the one over the freed chunks.   *)
(* The constants are scaled down; memory.size and memory.grow are external.*)
(***************************************************************************)
EXTENDS Integers, FiniteSets

CONSTANTS
  MARK,        \* _size_marker, 4
  BLOCK,       \* _mem_block, 8
  PAGE,        \* wasm_page_size, 65536
  SLACK,       \* what must be left of a page to use it, 1024
  INITIAL,     \* _initial_heap_size, 8192
  HEAPS,       \* _heaps_size, 16
  Bases,       \* addresses of _initial_heap
  StartPages,  \* the memory the module starts with
  MaxPages,    \* the memory the host grants
  Sizes,       \* the sizes asked for
  Counts,      \* the numbers of elements asked of calloc
  MaxBlocks    \* bound on the number of blocks in use

\* Sizes are far from the top of the 32 bits, and the memory stays below 2^31.
ASSUME HeapAssumption ==
  /\ MARK \in Nat \ {0} /\ BLOCK \in Nat /\ BLOCK > MARK /\ BLOCK % MARK = 0
  /\ PAGE \in Nat \ {0} /\ PAGE % BLOCK = 0
  /\ INITIAL \in Nat \ {0} /\ INITIAL % BLOCK = 0
  /\ SLACK \in 1 .. PAGE
  /\ HEAPS \in Nat /\ HEAPS >= 2
  /\ StartPages \in Nat /\ MaxPages \in Nat /\ StartPages <= MaxPages
  /\ \A b \in Bases : b \in Nat \ {0} /\ b + INITIAL <= StartPages * PAGE
  /\ Sizes \subseteq Nat /\ Counts \subseteq Nat \ {0} /\ MaxBlocks \in Nat

VARIABLES
  pages,       \* memory.size
  sbrk_bytes,  \* the end of the memory that sbrk has given out
  initial,     \* the address of _initial_heap
  heaps,       \* _available_heaps
  actual,      \* _heaps_actual_size
  active,      \* _active_heap
  freeheap,    \* _active_free_heap
  pc,          \* "idle", or the loop of malloc under way
  call,        \* the call under way: the function, its block and its size
  endheap,     \* end_free_heap
  current,     \* the chunk that malloc_from_freed looks at
  blocks,      \* what the program got: address -> size asked for
  ret,         \* the size last asked for and the address answered
  status       \* "ok", "overran" (a block reaches past _offset) or "clobbered"
               \* (calloc has cleared memory from address 0 on)

memory == <<pages, sbrk_bytes>>
search == <<pc, call, endheap, current>>
vars == <<memory, initial, heaps, actual, active, freeheap, search, blocks, ret,
          status>>

NULL == 0
Failed == -1

\* f with c at p, and f without p.
Put(f, p, c) == [q \in DOMAIN f \cup {p} |-> IF q = p THEN c ELSE f[q]]
Without(f, p) == [q \in DOMAIN f \ {p} |-> f[q]]
Empty == [p \in {} |-> 0]

-----------------------------------------------------------------------------
\* memory: one heap.

Heap(start, size, offset, chunks) ==
  [start |-> start, size |-> size, offset |-> offset, chunks |-> chunks]

Chunk(n, a) == [size |-> n, alloc |-> a]

NoHeap == Heap(NULL, 0, 0, Empty)

is_init(h) == h.start # NULL

is_in_heap(h, p) == p >= h.start + MARK /\ p < h.start + h.size

\* The addresses behind a heap, behind what is cut off it, and behind a chunk.
HeapEnd(h) == h.start + h.size
CutEnd(h) == h.start + h.offset
End(h, p) == p + h.chunks[p].size

\* The heap with other headers.
WithChunks(h, c) == Heap(h.start, h.size, h.offset, c)

MarkAlloc(h, p) == WithChunks(h, Put(h.chunks, p, Chunk(h.chunks[p].size, TRUE)))

\* memory::free.
mem_free(h, p) == WithChunks(h, Put(h.chunks, p, Chunk(h.chunks[p].size, FALSE)))

\* A chunk of n bytes is cut off at _offset.
Cut(h, n, a) ==
  Heap(h.start, h.size, h.offset + n + MARK,
       Put(h.chunks, CutEnd(h) + MARK, Chunk(n, a)))

\* memory::malloc gives a chunk at _offset if the heap has the bytes.
HasRoom(h, n) == h.offset + n + MARK <= h.size

\* memory::cleanup_remaining: the rest of the heap becomes a free chunk.
cleanup_remaining(h) ==
  IF h.offset = h.size THEN h ELSE Cut(h, h.size - h.offset - MARK, FALSE)

\* Where the loop of merge_contiguous can arrive from chunk p: at the end of one of
\* the chunks from p on and, as the zeros behind _offset look like free chunks
\* without bytes, at any header's place behind it.
Ends(h, p) ==
  {End(h, q) : q \in {r \in DOMAIN h.chunks : r >= p}} \cup
  {e \in CutEnd(h) .. HeapEnd(h) : (e - CutEnd(h)) % MARK = 0}

\* The loop is over at e: there is enough, or the heap ends, or a chunk in use
\* follows.
Stops(h, p, needed, e) ==
  \/ e - p >= needed
  \/ e >= HeapEnd(h)
  \/ e + MARK \in DOMAIN h.chunks /\ h.chunks[e + MARK].alloc

\* Mutant of Gathered: only one free neighbour is taken.
Gathered_one(h, p, needed) ==
  LET q == End(h, p) + MARK
  IN IF q \in DOMAIN h.chunks /\ ~h.chunks[q].alloc THEN End(h, q) ELSE End(h, p)

\* The end of what merge_contiguous gathers: the first place where its loop is over.
Gathered(h, p, needed) ==
  CHOOSE e \in Ends(h, p) :
    /\ Stops(h, p, needed, e)
    /\ \A d \in Ends(h, p) : d < e => ~Stops(h, p, needed, d)

\* merge_contiguous: chunk p becomes what was gathered, at most needed bytes, and
\* the rest of it a free chunk.
Combined(h, p, needed, e) ==
  LET kept == [q \in {r \in DOMAIN h.chunks : r <= p \/ r > e} |-> h.chunks[q]]
      a == h.chunks[p].alloc
  IN WithChunks(h,
       IF e - p > needed
       THEN Put(Put(kept, p, Chunk(needed, a)),
                p + needed + MARK, Chunk(e - p - needed - MARK, FALSE))
       ELSE Put(kept, p, Chunk(e - p, a)))

Merged(h, p, needed) == Combined(h, p, needed, Gathered(h, p, needed))

\* memory::realloc_in_place succeeds: the bytes are inside the heap, and the chunk
\* has them, or is the last one, or can be merged with free ones behind it.
Resizable(h, p, n) ==
  /\ p <= HeapEnd(h) - n
  /\ \/ h.chunks[p].size >= n
     \/ End(h, p) = CutEnd(h)
     \/ Gathered(h, p, n) - p >= n

\* What it does.  A block that shrinks keeps its chunk: only the bytes behind the
\* new size are overwritten, with the header of a chunk that no walk over the heap
\* ever meets.
Resized(h, p, n) ==
  CASE h.chunks[p].size >= n -> h
    [] h.chunks[p].size < n /\ End(h, p) = CutEnd(h) ->
         Heap(h.start, h.size, h.offset + n - h.chunks[p].size,
              Put(h.chunks, p, Chunk(n, h.chunks[p].alloc)))
    [] h.chunks[p].size < n /\ End(h, p) # CutEnd(h) ->
         MarkAlloc(Merged(h, p, n), p)

\* Some block reaches past the place where the next chunk is cut off.
Overrun(h) == \E p \in DOMAIN h.chunks : End(h, p) > CutEnd(h)

-----------------------------------------------------------------------------
\* sbrk and the steps of memory_manager.

\* Mutant of sbrk: it is not looked whether the memory has really grown.
sbrk_unchecked(n) ==
  LET end == sbrk_bytes + ((n + BLOCK - 1) \div BLOCK) * BLOCK
      desired == (end + PAGE - 1) \div PAGE
  IN [at |-> sbrk_bytes, bytes |-> end,
      pages |-> IF desired > pages /\ desired <= MaxPages THEN desired ELSE pages]

\* sbrk: the end of the memory in use is moved, and the memory grown by the pages
\* this takes, or nothing happens.
sbrk(n) ==
  LET end == sbrk_bytes + ((n + BLOCK - 1) \div BLOCK) * BLOCK
      desired == (end + PAGE - 1) \div PAGE
  IN IF desired > pages /\ desired > MaxPages
     THEN [at |-> Failed, bytes |-> sbrk_bytes, pages |-> pages]
     ELSE [at |-> sbrk_bytes, bytes |-> end,
           pages |-> IF desired > pages THEN desired ELSE pages]

\* What next_active_heap asks for: the rest of the page, or with too little left
\* of it the next one as well.
HeapAdj(end) ==
  IF end % PAGE <= PAGE - SLACK
  THEN PAGE - (end % PAGE)
  ELSE 2 * PAGE - (end % (2 * PAGE))

\* Mutant of expand_memory: any piece of memory is taken for the adjacent one.
expand_memory_any(h, at) == TRUE

expand_memory(h, at) == HeapEnd(h) = at

\* adjust_to_mem_block: a chunk with its header is a multiple of BLOCK.
Adjusted(n) ==
  LET remainder == (n + MARK) % BLOCK
  IN IF remainder > 0 THEN n + BLOCK - remainder ELSE n

\* The bytes that the call under way looks for.
Needed == Adjusted(call.size)

\* The heap that an address belongs to: the first initialized one that holds it.
HeapOf(p) ==
  CHOOSE k \in 0 .. actual - 1 :
    /\ is_init(heaps[k]) /\ is_in_heap(heaps[k], p)
    /\ \A j \in 0 .. k - 1 : ~is_in_heap(heaps[j], p)

\* memory_manager::free, in the heaps hs.
mm_free(hs, p) == [hs EXCEPT ![HeapOf(p)] = mem_free(hs[HeapOf(p)], p)]

NoCall == [op |-> "none", ptr |-> NULL, size |-> 0]

\* No call is under way any more.
Done == pc' = "idle" /\ call' = NoCall /\ endheap' = 0 /\ current' = NULL

Answer(size, p) == [size |-> size, ptr |-> p]

\* Mutant of Answered: realloc does not give the old block back.
Answered_kept(hs, p) ==
  /\ heaps' = hs
  /\ blocks' = IF p = NULL THEN blocks
               ELSE Put(Without(blocks, call.ptr), p, call.size)
  /\ ret' = Answer(call.size, p)
  /\ status' = IF call.op = "calloc" /\ p = NULL THEN "clobbered" ELSE status
  /\ Done

\* malloc returns p, with the heaps hs, to the function that has called it: realloc
\* frees the block it has copied, which stays when there is no other; calloc clears
\* the bytes whether there is a block or not.
Answered(hs, p) ==
  /\ heaps' = IF call.ptr # NULL /\ p # NULL THEN mm_free(hs, call.ptr) ELSE hs
  /\ blocks' = IF p = NULL THEN blocks
               ELSE Put(Without(blocks, call.ptr), p, call.size)
  /\ ret' = Answer(call.size, p)
  /\ status' = IF call.op = "calloc" /\ p = NULL THEN "clobbered" ELSE status
  /\ Done

\* The loop over the freed chunks begins, at the heap that the last one ended with.
SearchBegins ==
  /\ pc' = "freed"
  /\ endheap' = freeheap
  /\ current' = heaps[freeheap].start + MARK

\* memory_manager::malloc up to its loops, for a size that is not 0.
Enter(op, p, size) ==
  /\ call' = [op |-> op, ptr |-> p, size |-> size]
  /\ ret' = Answer(0, NULL)
  /\ actual' = IF actual = 0 THEN HEAPS ELSE actual
  /\ \/ /\ active < actual'
        /\ heaps' = IF active = 0 /\ ~is_init(heaps[0])
                    THEN [heaps EXCEPT ![0] = Heap(initial, INITIAL, 0, Empty)]
                    ELSE heaps
        /\ pc' = "active" /\ UNCHANGED <<endheap, current>>
     \/ /\ active >= actual'
        /\ SearchBegins /\ UNCHANGED heaps
  /\ UNCHANGED <<memory, initial, active, freeheap, blocks, status>>

\* The active heap has the bytes.
Allocate ==
  /\ pc = "active"
  /\ HasRoom(heaps[active], Needed)
  /\ Answered([heaps EXCEPT ![active] = Cut(heaps[active], Needed, TRUE)],
              CutEnd(heaps[active]) + MARK)
  /\ UNCHANGED <<memory, initial, actual, active, freeheap>>

\* next_active_heap without more memory: all heaps are full.
Exhausted ==
  /\ heaps' = [heaps EXCEPT ![active] = cleanup_remaining(heaps[active])]
  /\ active' = active + 1
  /\ actual' = active + 1
  /\ SearchBegins
  /\ UNCHANGED call

\* The active heap is extended by adj bytes.
Expanded(adj) ==
  /\ LET h == heaps[active]
     IN heaps' = [heaps EXCEPT ![active] =
                    Heap(h.start, h.size + adj, h.offset, h.chunks)]
  /\ UNCHANGED <<actual, active, search>>

\* Another heap follows, of the adj bytes from at on.
Followed(at, adj) ==
  /\ heaps' = [heaps EXCEPT ![active] = cleanup_remaining(heaps[active]),
                            ![active + 1] = Heap(at, adj, 0, Empty)]
  /\ active' = active + 1
  /\ UNCHANGED <<actual, search>>

\* The active heap does not have the bytes.
next_active_heap ==
  /\ pc = "active"
  /\ ~HasRoom(heaps[active], Needed)
  /\ LET adj == HeapAdj(sbrk_bytes)
         b == sbrk(adj)
     IN /\ sbrk_bytes' = b.bytes /\ pages' = b.pages
        /\ \/ b.at = Failed /\ Exhausted
           \/ b.at # Failed /\ expand_memory(heaps[active], b.at) /\ Expanded(adj)
           \/ b.at # Failed /\ ~expand_memory(heaps[active], b.at) /\ Followed(b.at, adj)
  /\ UNCHANGED <<initial, freeheap, blocks, ret, status>>

\* malloc_from_freed is at a free chunk that is, with the free chunks behind it,
\* large enough.
Found ==
  LET h == heaps[freeheap]
  IN /\ ~h.chunks[current].alloc
     /\ Gathered(h, current, Needed) - current >= Needed

\* It takes the chunk.
Taken ==
  /\ pc = "freed" /\ Found
  /\ Answered([heaps EXCEPT ![freeheap] =
                 MarkAlloc(Merged(heaps[freeheap], current, Needed), current)],
              current)
  /\ UNCHANGED <<memory, initial, actual, active, freeheap>>

\* It goes on to the next chunk; chunks merged in vain stay merged.  From the last
\* chunk malloc goes on to the next heap, once round all of them.
Passed ==
  LET h == heaps[freeheap]
      searched == IF h.chunks[current].alloc THEN h ELSE Merged(h, current, Needed)
      hs == [heaps EXCEPT ![freeheap] = searched]
      next == End(searched, current) + MARK
      k == IF freeheap + 1 = actual THEN 0 ELSE freeheap + 1
  IN /\ pc = "freed" /\ ~Found
     /\ \/ /\ next < HeapEnd(h)
           /\ heaps' = hs /\ current' = next
           /\ UNCHANGED <<freeheap, pc, call, endheap, blocks, ret, status>>
        \/ /\ next >= HeapEnd(h) /\ k # endheap
           /\ heaps' = hs /\ freeheap' = k /\ current' = hs[k].start + MARK
           /\ UNCHANGED <<pc, call, endheap, blocks, ret, status>>
        \/ /\ next >= HeapEnd(h) /\ k = endheap
           /\ freeheap' = k /\ Answered(hs, NULL)
     /\ UNCHANGED <<memory, initial, actual, active>>

-----------------------------------------------------------------------------
\* The C functions.

NewInstance(base) ==
  /\ pages' = StartPages /\ sbrk_bytes' = StartPages * PAGE /\ initial' = base
  /\ heaps' = [k \in 0 .. HEAPS - 1 |-> NoHeap]
  /\ actual' = 0 /\ active' = 0 /\ freeheap' = 0
  /\ blocks' = Empty /\ ret' = Answer(0, NULL) /\ status' = "ok"
  /\ Done

Init ==
  /\ pages = StartPages /\ sbrk_bytes = StartPages * PAGE /\ initial \in Bases
  /\ heaps = [k \in 0 .. HEAPS - 1 |-> NoHeap]
  /\ actual = 0 /\ active = 0 /\ freeheap = 0
  /\ pc = "idle" /\ call = NoCall /\ endheap = 0 /\ current = NULL
  /\ blocks = Empty /\ ret = Answer(0, NULL) /\ status = "ok"

\* The call of the contract is over, or has trapped; the next one has a new instance.
Restart == \E base \in Bases : NewInstance(base)

\* A call may begin.  What happens after calloc has cleared memory from address 0
\* on, where the program's data and the allocator's own lie, is not modelled.
Ready == pc = "idle" /\ status # "clobbered"

\* A function returns without having looked at the heaps.
Nothing ==
  /\ ret' = Answer(0, NULL)
  /\ UNCHANGED <<memory, initial, heaps, actual, active, freeheap, search, blocks,
                 status>>

\* realloc of a null pointer is the same.
malloc(size) ==
  /\ Ready
  /\ Cardinality(DOMAIN blocks) < MaxBlocks
  /\ \/ size = 0 /\ Nothing
     \/ size > 0 /\ Enter("malloc", NULL, size)

calloc(count, size) ==
  /\ Ready
  /\ Cardinality(DOMAIN blocks) < MaxBlocks
  /\ \/ count * size = 0 /\ Nothing
     \/ count * size > 0 /\ Enter("calloc", NULL, count * size)

free(p) ==
  /\ Ready
  /\ heaps' = mm_free(heaps, p)
  /\ blocks' = Without(blocks, p)
  /\ ret' = Answer(0, NULL)
  /\ UNCHANGED <<memory, initial, actual, active, freeheap, search, status>>

\* memory_manager::realloc of a block, for a size that is not 0: in place, or in
\* another block that malloc looks for.
realloc(p, size) ==
  LET k == HeapOf(p)
      h == Resized(heaps[k], p, Adjusted(size))
  IN /\ Ready
     /\ size > 0
     /\ \/ /\ Resizable(heaps[k], p, Adjusted(size))
           /\ heaps' = [heaps EXCEPT ![k] = h]
           /\ blocks' = Put(blocks, p, size)
           /\ ret' = Answer(size, p)
           /\ status' = IF Overrun(h) THEN "overran" ELSE status
           /\ UNCHANGED <<memory, initial, actual, active, freeheap, search>>
        \/ /\ ~Resizable(heaps[k], p, Adjusted(size))
           /\ Enter("realloc", p, size)

\* Any step but the end of the instance.
Call ==
  \/ \E size \in Sizes :
       \/ malloc(size)
       \/ \E count \in Counts : calloc(count, size)
       \/ \E p \in DOMAIN blocks : realloc(p, size)
  \/ \E p \in DOMAIN blocks : free(p)   \* also realloc to size 0
  \/ Allocate \/ next_active_heap \/ Taken \/ Passed

AnyNext == Restart \/ Call

\* Any contract.
AnySpec == Init /\ [][AnyNext]_vars

\* The contract makes no call in an instance where a block has overrun _offset.
Next == Restart \/ (status # "overran" /\ Call)

Spec == Init /\ [][Next]_vars
-----------------------------------------------------------------------------
\* Properties.

Heaps == {heaps[k] : k \in {j \in DOMAIN heaps : is_init(heaps[j])}}

\* The types of the members.  _active_heap passes the last heap only when the
\* memory is exhausted, so that _available_heaps is never indexed past its end, and
\* malloc_from_freed is always at a chunk of an initialized heap.
TypeOK ==
  /\ pages \in StartPages .. MaxPages
  /\ sbrk_bytes = pages * PAGE
  /\ DOMAIN heaps = 0 .. HEAPS - 1
  /\ actual \in 0 .. HEAPS /\ active \in 0 .. HEAPS /\ freeheap \in 0 .. HEAPS - 1
  /\ freeheap > 0 => freeheap < actual
  /\ active = HEAPS => actual = HEAPS
  /\ pc = "active" => active < actual /\ is_init(heaps[active])
  /\ pc = "freed" =>
       /\ freeheap < actual /\ is_init(heaps[freeheap])
       /\ current \in DOMAIN heaps[freeheap].chunks
  /\ \A h \in Heaps : h.size \in Nat /\ h.offset \in Nat /\
       \A p \in DOMAIN h.chunks : h.chunks[p].size \in Nat /\ h.chunks[p].alloc \in BOOLEAN
  /\ \A p \in DOMAIN blocks : p \in Nat \ {NULL} /\ blocks[p] \in Nat
  /\ pc \in {"idle", "active", "freed"}
  /\ status \in {"ok", "overran", "clobbered"}

\* Following the headers from the start of the heap leads from chunk to chunk
\* exactly to _offset, and meets every chunk.
Tiled(h) ==
  /\ h.offset <= h.size
  /\ h.offset > 0 => h.start + MARK \in DOMAIN h.chunks
  /\ \A p \in DOMAIN h.chunks :
       /\ h.start + MARK <= p /\ End(h, p) <= CutEnd(h)
       /\ End(h, p) = CutEnd(h) \/ End(h, p) + MARK \in DOMAIN h.chunks
       /\ \A q \in DOMAIN h.chunks : p < q => End(h, p) + MARK <= q

\* The headers are the truth: following them from the start of a heap leads exactly
\* to _offset, and the chunks marked as allocated are those of the blocks in use,
\* each with the bytes that were asked for.  So nothing the program has freed, or
\* left behind in a realloc, is lost, and nothing in use can be handed out again.
Accounted ==
  status # "overran" =>
    /\ \A h \in Heaps : Tiled(h)
    /\ \A h \in Heaps : \A p \in DOMAIN h.chunks :
         h.chunks[p].alloc => p \in DOMAIN blocks /\ blocks[p] <= h.chunks[p].size
    /\ \A p \in DOMAIN blocks :
         \E h \in Heaps : p \in DOMAIN h.chunks /\ h.chunks[p].alloc

\* A block with its header lies inside the memory, outside of what the program
\* has besides _initial_heap, and overlaps no other block or its header, whichever
\* heap they are in and however they were split, merged and moved.
Disjoint ==
  status # "overran" =>
    \A p \in DOMAIN blocks :
      /\ \/ initial + MARK <= p /\ p + blocks[p] <= initial + INITIAL
         \/ StartPages * PAGE + MARK <= p
         \/ initial + INITIAL = StartPages * PAGE /\ initial + MARK <= p
      /\ p + blocks[p] <= pages * PAGE
      /\ \A q \in DOMAIN blocks : p < q => p + blocks[p] + MARK <= q

\* The blocks in use are apart, with their headers, whatever calls were made before.
\* merge_contiguous is to gather "contiguous free memory" only (malloc.cpp:471),
\* and realloc_in_place to grow into the rest of the heap only if the block is "the
\* last allocated buffer" (malloc.cpp:339), so that this holds of any contract.
BlocksApart ==
  \A p, q \in DOMAIN blocks : p < q => p + blocks[p] + MARK <= q

\* The chunks from p to the address e are all free.
FreeRun(h, p, e) ==
  \A q \in DOMAIN h.chunks : p <= q /\ q < e => ~h.chunks[q].alloc

\* A block is refused only when the host gives no more memory and no heap has
\* adjacent free chunks that would hold it: freed memory is always found again,
\* also when the freed chunks are small and have to be merged.
RefusalJustified ==
  (ret.ptr = NULL /\ ret.size > 0) =>
    /\ pages = MaxPages
    /\ \A h \in Heaps : \A p, q \in DOMAIN h.chunks :
         p <= q /\ FreeRun(h, p, End(h, q)) => End(h, q) - p < Adjusted(ret.size)
=============================================================================
