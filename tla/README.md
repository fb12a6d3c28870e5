# PlatON-CDT: TLA+ models, checks and proofs

PlatON-CDT is a C++ toolkit for writing smart contracts that run as wasm on the
PlatON chain. Its own code is `libraries/platonlib` (the contract library) and
two tools, `tools/platon-cpp` (a clang driver) and `tools/platon-test` (a host
for unit tests); boost, libc and libc++ are vendored. This directory models the
part of platonlib that keeps state: storage, containers, contract calls and
their encoding, ownership and memory.

A contract runs single-threaded, one wasm instance per call. What makes the
library hard is not threads but *copies*: containers read the chain when they
are constructed or asked, keep a copy, and write it back from their destructors;
a revert runs no destructor; iterators hold copies of copies; a call may come
back into a contract whose caller is still running. The models are about the
orders in which these copies are made, changed and written, and about the two
places where bytes are cut up by hand: RLP and the allocators.

## Inventory

All paths are under `src/libraries/platonlib/include/platon/` unless they start
with `src/`.

| Component | State | Operations | Interacts with | What can go wrong | Correct means |
|---|---|---|---|---|---|
| Chain state (`storage.hpp`) | key-value records | set, get, del, has | host | `get_state` leaves its argument alone when there is no record | present iff length not 0 |
| `db::Map` (`db/map.hpp`) | `map_`, `modify_` | insert, insert_const, get_const, at, `[]`, erase, contains, flush, destructor | chain state | reads behind an erased key; write-through against deferred writes; references handed out | a table committed or rolled back as a whole |
| `db::Array` (`db/array.hpp`) | `cache_` | at, `[]`, get_const, set_const, iterators, destructor | chain state | position arithmetic, unchecked positions, stale cache | same, and loops visit all |
| Normal index (`db/multi_index.hpp` 150-429) | sections in a ring | append, delete, count, iterate | chain state | gaps, head replacement, full sections, wrap-around in the binary search | a set; ring linked and ordered; search ends |
| `db::MultiIndex` (rest of the file) | rows, indexes, `seq2item_`, `seq_`, iterators | emplace, find, iterate, modify, erase, also through an index | chain state, normal index, StorageType | stale iterators, iterator used after its section shifted, ghosts in the cache, reused numbers | rows, indexes and cache agree |
| `StorageType` (`storagetype.hpp`) | `t_`, the cell | load, access, flush | chain state | unconditional flush of an old copy | one memory |
| Dispatcher (`dispatcher.hpp`), cross calls (`cross_call.hpp`) | the call stack | invoke, call, delegate call, return, panic | StorageType, host | re-entrancy; failure of a nested call after its own calls succeeded | calls nest like transactions |
| Authority (`authority.hpp`) | owner cell, white list | set_owner, owner, is_owner, Add, Delete, Exists | StorageType | texts that are no addresses; queries that write | the owner is one cell that queries leave alone; list is a set |
| Allocator (`src/libraries/platonlib/malloc/simple_malloc.cpp`) | `last_ptr`, `next_page`, headers | malloc, calloc, realloc, free | wasm memory | page boundaries, refused growth, wrapping sizes | blocks disjoint and inside the memory |
| Second allocator (`src/libraries/platonlib/malloc/malloc.cpp`) | heaps, chunk headers, `_offset`, `_active_heap`, `_active_free_heap` | malloc, calloc, realloc, free, sbrk | wasm memory | merging and splitting of chunks, heaps that are not adjacent, exhausted memory | chunks account for the heap; freed memory is found again |
| RLP writer (`RLP.h`, `rlp_size.hpp`, `src/libraries/platonlib/src/RLP.cpp`) | `m_out`, `m_listStack`; `size_`, `pending_` | append, appendList, appendRaw, appendPrefix, clear, out | host's encoders | an item that closes several lists; sizes at the bounds of the format | the bytes are the encoding, their number is known before |
| RLP reader (same files) | `m_data`, the cache of the last item; an iterator | constructor, `[]`, loops, conversions | | indexes in any order; lengths cut short or not canonical | reading inverts writing; one encoding per value |
| Input of a call (`dispatcher.hpp`, `cross_call.hpp`) | the input | cross_call_args, get_para, `_invoke` | RLP | any bytes may arrive | a call arrives as it was made |
| Addresses, names, Energon, events, create/destroy, printing, tools | mostly none | codecs and wrappers | | | not modelled, see below |

`PROJECT.json` lists the components with their sources, and the hazards with
their lines and the properties that watch them.

## Modules

| Module | Models | Remarks |
|---|---|---|
| `ChainState` | `storage.hpp` | `Fresh` is what an uninitialised `Value v;` may hold; `get_state` answers a set |
| `MapAbstract` | - | a table with commit and abort; the abstract specification of Map, Array, WhiteList and of the owner's cell |
| `DbMap` | `db/map.hpp` | `Spec` allows every contract, `CarefulSpec` those that do not use get_const, at or insert_const on a key they erased |
| `DbArray` | `db/array.hpp` | `Key` also holds positions past the end; a loop is an iterator of one of four kinds |
| `DbArrayProofs` | - | theorems about `DbArray` |
| `IndexSections` | append and the deletion of one number as operators on sections | shared by the next two |
| `IndexSectionsProofs` | - | what these operators return and preserve |
| `IndexAbstract` | - | a set of numbers with a pending deletion |
| `NormalIndex` | one key of one normal index | one action per iteration of the search loop |
| `NormalIndexProofs` | - | theorems about `NormalIndex` |
| `MultiIndex`, `MCMultiIndex` | the table | `MCMultiIndex` gives the index tuple and the members |
| `MultiIndexProofs` | - | theorems about `MultiIndex` |
| `Cells` | - | one memory under nested transactions |
| `ContractCalls`, `MCContractCalls` | StorageType, dispatcher, cross calls | a frame holds the address, the cell, the copy `t_` and the chain a panic restores |
| `ContractCallsProofs` | - | theorems about `ContractCalls` |
| `Authority` | `authority.hpp` | an account stands for its own text; `Invalid` is a text `make_address` refuses |
| `TableProofs`, `MCTables` | - | theorems about `DbMap` and `Authority`, which both extend; `MCTables` lets one of them move while the other is in its initial state, since they share nothing |
| `SimpleMalloc` | `simple_malloc.cpp` | arithmetic modulo `WORD` |
| `SimpleMallocProofs` | - | theorems about `SimpleMalloc` |
| `HeapMalloc` | `malloc.cpp` | the headers of a heap are a function from the addresses of its chunks; the bytes between `_offset` and the end of a heap read as zero |
| `HeapMallocProofs` | - | theorems about `HeapMalloc` |
| `RlpItem` | the item format: lengths, conversions, integers as bytes | a byte is a number below `BASE`; `Enc` is the reference encoding; the encoders are the host's |
| `RlpStream` | RLPStream and RLPSize | `open` holds the values written, as trees, for the properties to compare with |
| `Rlp` | RLP, `operator[]`, the iterator | on what a stream wrote, or on any bytes |
| `Dispatch`, `MCRlp` | the input of a call, from cross_call_args to the method | a method is a number, the hash of its name |

Correspondence. Variables keep the names of the members (`map_`, `modify_`,
`cache_`, `seq2item_`, `seq_`, `t_`, `last_ptr`, `next_page`, `begin_serial`...),
actions those of the methods. A key or value is one model value: RLP encoding
is injective as far as these components can see, and a stored value is never
empty because of its `value_prefix` byte. `bracket_assign` is `map[k] = v`: at()
followed by an assignment through the reference; the same action is a later
assignment through a reference that is still held. `ret` and `seen` record the
last operation and its answer, so that a refinement compares answers too and no
operation can pass for another. The host's rollback after a panic is external
code, modelled from how the library relies on it.

In `HeapMalloc` the operators on a heap `h` are the methods of `memory` (`HasRoom` and
`Cut` are its malloc, `Resizable` and `Resized` its realloc_in_place, `Gathered` and
`Combined` its merge_contiguous), and malloc of `memory_manager` is a sequence of steps.
`Enter` begins it; with `pc = "active"` each iteration of the loop over the heaps is an
`Allocate` or a `next_active_heap`; with `pc = "freed"` malloc_from_freed takes the chunk
it is at (`Taken`) or goes on (`Passed`). `Answered` is the return to malloc, calloc or
realloc and what these do with the answer. The loop of merge_contiguous only reads until
it writes one or two headers at its end, so it is one step: it stops at the first
place in `Ends` where its condition fails. In the RLP modules a
function that calls platon_throw answers `Bad`, and the action that called it ends the
call (`status = "thrown"`). A container or structure is `appendList(n)` and its
elements, as in the templates of `rlp_extend.hpp` and the macros of
`rlp_serialize.hpp`; RLPSize gets its `list_end` when the last element is written.
`RlpItem`, `RlpStream`, `Rlp`, `Dispatch` extend one another, so that the `rlp` run
checks writer, reader and dispatcher together: bytes that a stream produced are opened
by a reader, and a call made by one contract is decoded by another.

Operators named `X_something` with a comment "Mutant of X" are wrong variants of
X. They are used nowhere in the specifications; substituting one for X must make
the property listed with it fail (`mutants` in `PROJECT.json`), which shows that
the property depends on that code.

## Runs

| Run | Checks | Result |
|---|---|---|
| `tables` | of `DbMap`: `TypeOK`, `CacheTracked`, `ContainsIsDurable`, `ImplementsTable`; of `Authority`: `OwnerIsCell`, `WhiteListIsSet` | hold for careful contracts; all but `ImplementsTable` are proved for every contract |
| `db_map_erase` | `DeniedKeyReadsFresh` | violated: get_const and at answer an erased value that contains denies |
| `db_array` | `TypeOK`, `LoopVisitsAll`, `ImplementsTable` | hold for every contract |
| `normal_index` | `TypeOK`, `Linked`, `Ordered`, `TraversalComplete`, `ImplementsSet`, `DeleteReturns` | hold; the last needs its hypothesis, see below |
| `multi_index` | `TypeOK`, `IndexesAgree`, `CacheCoherent`, `DereferenceIsRow`, `VisitsAllRows`, `SequenceAdvances` | hold for contracts that take a new iterator after each operation and erase through the last index only |
| `multi_index_erase` | `IndexesAgree` | violated by Index::erase on an index that is not the last: with two rows of the same age it deletes the other row's unique key |
| `contract_calls` | `TypeOK`, `ImplementsCells` | hold for contracts that re-enter a cell only to read it while no caller has changed its copy |
| `simple_malloc` | `TypeOK`, `Disjoint`, `InMemory` | hold for requests that do not wrap |
| `simple_malloc_refused` | `RefusalThrows` | violated: a failed memory.grow answers -1 and is compared with 0; the block outside the memory goes to calloc, whose memset traps |
| `heap_malloc` | `TypeOK`, `Accounted`, `Disjoint`, `RefusalJustified` | hold up to a realloc that takes memory behind `_offset`, see below |
| `heap_malloc_overrun` | `BlocksApart` | violated: the malloc after such a realloc hands out a block inside the block that grew |
| `rlp` | `StreamIsEncoding`, `SizeIsLength`, `IndexIsItem`, `LoopVisitsItems`, `Canonical`, `IntsExact`, `CallArrives`, `DispatchExact` | hold; RLPSize may be less than the length for a hash of zeros and for raw pieces |

The runs marked violated are findings; `PROJECT.json` quotes the line of the
repository each contradicts.

Five more configurations are kept for the conditions of the next section. They are not
among the runs; in each TLC finds a short counterexample to what a line of the
repository says (`tlc -config X.cfg M`).

| Configuration, module | Property | Contradicts | Counterexample |
|---|---|---|---|
| `DbMapInsertConst.cfg`, `DbMap` | `InsertedIsKept` | `db/map.hpp` 88, "@return true Inserted successfully" | erase, insert_const, destructor: the flush of the erase deletes what insert_const wrote |
| `MultiIndexModify.cfg`, `MCMultiIndex` | `ModifyKeepsOtherColumns` | `db/multi_index.hpp` 1254, "lambda function that updates the target object" | two modifications through one iterator: the second takes back the first |
| `MultiIndexLoaded.cfg`, `MCMultiIndex` | `IndexesAgree` | `db/multi_index.hpp` 1316, "erase data based on iterator" | cbegin, a dereference through an index, erase: the keys of an empty row are taken out of the indexes, those of the erased row stay |
| `AuthorityNoOwner.cfg`, `Authority` | `OnlyOwnerIsOwner` | `authority.hpp` 82, "true if the input address is owner, false otherwise" | is_owner of a text that is no address answers true in a contract without an owner |
| `RlpData.cfg`, `MCRlp` | `DataHasNoItems` | `RLP.h` 159, "or RLP() otherwise" | operator[] of data cuts its payload into items |

### The conditions under which the passing runs hold

* `CarefulSpec` of `DbMap`: on a key it has erased a contract uses insert or
  `map[k] = v` before it uses get_const, at or insert_const. `db_map_erase` shows
  why the reads are excluded, `DbMapInsertConst.cfg` why insert_const is: after an
  erase it writes to the chain, and the flush of the erase deletes what it wrote.
* `KeepIterators = FALSE` in `MultiIndex`: the contract forgets a table iterator
  when it performs another operation. Two configurations set it to TRUE. In
  `MultiIndexModify.cfg` the iterator has a copy of the row from before another modify
  (line 1286). In `MultiIndexLoaded.cfg` the iterator has an item that was never read:
  operator* (line 885) takes it for loaded because the row's number is in the cache,
  where another iterator has put an item of its own.
* `AnyIndexErase = FALSE`: `multi_index_erase` sets it to TRUE, with an index tuple
  in which the unique index is the last. The unit test that erases through an index
  does so on tables where the damage cannot be seen. When the deletion empties the
  section, the code reads behind the end of a vector; the model leaves that case out
  (the guard of `index_erase`), so that what is found does not rest on undefined
  behaviour.
* `modify` and `erase` of `MultiIndex` require a position that exists, as the
  comment in the code does.
* `Clean` and `Exclusive` in `ContractCalls` are conditions on contracts, not tests in
  the code: without them a nested call reads a stale copy, or the caller's flush
  overwrites what the nested call wrote. The counter `seq_` of a MultiIndex is such a
  cell. No line of the repository says what a contract may expect of a call that comes
  back, so there is nothing a run could contradict; the condition is the statement of
  what is safe.
* `OwnerIsCell` takes a yes of is_owner for a statement about the address that its text
  *denotes*, and a text that is no address denotes `Address()`, as in the code. That
  this is not what the comment of is_owner says is shown by `AuthorityNoOwner.cfg`.
* `status` in `HeapMalloc`. A realloc that merges the chunks behind a block
  (`malloc.cpp` line 468) walks on over the zero bytes behind `_offset` as if they were
  free chunks; the block then reaches past `_offset`, where the next malloc is cut off
  (`"overran"`). `Spec` makes no further call in that instance and claims nothing of the
  state; `AnySpec`, in `heap_malloc_overrun`, goes on. A calloc that is refused clears
  memory from address 0 on (`"clobbered"`, line 536), the program's own data among it;
  what follows is not modelled.
* Requests to the allocators are far from 2^32, and pointers given to realloc and free
  are those of blocks in use.
* `MethodAssumption` of `Dispatch`: the hashes of a contract's method names differ and
  none is 0. Nothing in `name.hpp` or `dispatcher.hpp` checks this.

### Bounds

* `DbMap`: two keys, two values, both of them possible contents of an
  uninitialised variable. Keys do not interact except through commit and revert;
  the proofs need no bound.
* `DbArray`: N = 2 and one position past the end; the proofs need no bound.
* `NormalIndex`: `MAXSIZE = 2` instead of 30 and numbers up to 7, so that four
  sections can exist, any of them emptied and the head replaced repeatedly; two
  numbers per section are enough for a section to be full, partly erased and
  empty. `Word = 16` is larger than every serial, so that only the wrap-around
  below zero is reached.
* `MultiIndex`: `MAXSIZE = 1`, counter up to 4, two values per member, members
  `name` (unique), `age` and `sex` (normal), `city` (not indexed). The configurations that
  look for a violation have two indexes; `multi_index_erase` has the normal one first and
  `MAXSIZE = 2`, so that two rows share a section.
* `ContractCalls`: two contracts with three cells between them, calls nested three deep, so that
  a contract can be reached again through another one.
* `Authority`: two accounts and the zero address.
* `SimpleMalloc`: pages of 32 bytes, four pages, three blocks; sizes below, at
  and above a page and a heap base at the very end of the first page.
* `HeapMalloc`: headers of 1, chunks in multiples of 2, pages and initial heap of 8
  bytes, one page to grow, three blocks. One initial heap ends the memory, so that the
  page extends it, the other does not, so that there are two heaps. Three blocks and a
  heap of four to eight chunks are enough for a free chunk with neighbours free and in
  use on either side, for merges that fail and for exhausted memory.
* `Rlp`: the format is scaled to `BASE = 12` with the bounds at 2 and 7, lengths up to
  three bytes of which a size_t holds two, so that every kind of first byte exists and
  lengths that do not fit do too. All 271453 strings of up to five bytes are read; what is
  written has up to four values and two open lists, with payloads on both sides of every
  bound; indexes up to 4 go past the end of the lists. `RlpData.cfg` reads up to three.
* `Dispatch`: three methods with none, one and two parameters.

### Fairness

Only `DeleteReturns` is a liveness property. `FairSpec` of `NormalIndex` assumes
weak fairness of the loop of delete_normal_index_db: a function that was called
keeps executing, since nothing else runs in the instance. The property needs its
hypothesis: for an absent number below all numbers of an index with several
sections, `mid_serial -= 1` wraps around (line 342) and the loop never ends
within any gas limit. `MultiIndex` therefore treats such a deletion as a call
that is rolled back (`Returns`). Table operations on existing rows never make
that call in the passing runs.

## Proofs

`TableProofs` proves of `DbMap`, for every set of keys and values and every `Fresh`:

* `TypeCorrect`: `Spec => []TypeOK`;
* `CacheIsTracked`: `Spec => []CacheTracked`;
* `ContainsIsDurableAlways`: `Spec => []ContainsIsDurable`;
* `MapImplementsTable`: `CarefulSpec => ImplementsTable`.

They rest on the assumptions of `ChainState` (`Absent` is not a value, `Fresh` is
a nonempty set of values) and on the inductive invariant `MapInv`, the
conjunction of `TypeOK`, `CacheTracked` and `Quiescent`. `CacheTracked` is needed
because contains() and flush() look at different members: a cached key outside
`modify_` would be reported and not written. `Quiescent` (no object, no cache) is
needed for the refinement: between invocations the table is the chain, and Begin
must not change it. The refinement maps the abstract contents to `Flushed`, the
chain with the cache laid over it, so flush() and the destructor do not change
the contents; it goes action by action, with the case of an erased key excluded
by the guard of `CarefulNext`.

`DbArrayProofs` proves, for every size `N` and every set of positions, values and
`Fresh`:

* `ArrayTypeCorrect`: `Spec => []TypeOK`;
* `ArrayLoopVisitsAll`: `Spec => []LoopVisitsAll`;
* `ArrayImplementsTable`: `Spec => ImplementsTable`.

They add `ArrayAssumption` (`N` is positive and all positions below it are keys).
The inductive invariant `ArrayInv` is `TypeOK`, `Quiescent` and `LoopTracked`: the
iterator stays between begin and end of its kind and its position tells which
elements were visited. `LoopTracked` is needed for all three theorems, because only
it shows that operator* stays inside the array (`RoundInArray`). The refinement
has no careful contracts: Array has no erase, so the cache is always the newest
value of an element.

`IndexSectionsProofs` proves what the operators on the sections of one key do, for
every section size, every shape of the ring and every gap between the serials:

* `AppendedIsAddition`: appending a number above all others adds it and nothing else;
* `ErasedIsRemoval`: erasing a number from a section removes it and nothing else;

and both leave the index `WellFormed`: sections (`IsIndex`) linked into one ring in the
order of their serials (`Ring`), neither empty nor over `MAXSIZE` and with increasing
numbers (`Sorted`), and with serials no larger than their numbers (`SerialsLow`). There
is one lemma for each way the ring changes: a section behind the last one
(`RingExtended`), a section cut out (`RingCut`), the head replaced by its successor
(`RingHead`). `SerialsLow` is what bounds the serials, so that they do not reach `Word`:
a new serial is one more than the largest in use, and the number appended is larger
than the numbers of that section.

`NormalIndexProofs` proves, for every `MAXSIZE`, `MaxSeq` and `Word` above `MaxSeq + 1`:

* `IndexTypeCorrect`, `IndexLinked`, `IndexOrdered`: `Spec => []TypeOK`, `[]Linked`, `[]Ordered`;
* `IndexImplementsSet`: `Spec => ImplementsSet`;
* `IndexTraversalComplete`: `Spec => []TraversalComplete`.

The inductive invariant `IndexInv` is `TypeOK`, `Linked`, `Ordered`, `SerialsLow` and
`SearchInRange`: while delete_normal_index_db searches, a section with its number lies
between `begin_serial` and `end_serial`. `SearchInRange` is the invariant of the binary
search: next_valid and previous_valid step over gaps, and the order of the numbers
across sections (`LaterSection`, `EarlierSection`) tells which half may be discarded;
without it nothing would say that a search that ends has not missed its number. The
traversal rests on `IncrementStep` (operator++ goes to the next larger number, from the
largest to cend, and operator-- goes back). What the loops compute, `visit` and `count`,
are recursive functions; each is shown to be the only solution of its recursion by
exhibiting the solution (the numbers from a position on; the cardinality of the numbers
from a section on) and taking a counterexample nearest to the end.

`MultiIndexProofs` proves, for every tuple of indexes over every set of columns, every
section size and every bound on the counter, of contracts that take a new iterator after
each operation and erase through the last index only (`~KeepIterators` and
`~AnyIndexErase`, the hypotheses of each theorem and the condition of the run
`multi_index`):

* `TableTypeCorrect`, `TableIndexesAgree`, `TableCacheCoherent`, `TableDereference`,
  `TableVisitsAllRows`: the five invariants of the run;
* `TableSequenceAdvances`: its action property.

The inductive invariant `TableInv` adds to the invariants of the run `NormalsWellFormed`
(each key of each normal index is `WellFormed`, so that the theorems about sections
apply), `CounterAhead` (the counter, in memory or on the chain, is above every row:
otherwise emplace could append below a number or reuse one) and `IteratorOnRow` (the
contract's iterator stands on a row or at the end: otherwise modify and erase through
it would not meet the row that the indexes were built from).

`ContractCallsProofs` proves, for every set of contracts, cells and values, every choice
of cells and delegations and every depth:

* `CallsTypeCorrect`: `Spec => []TypeOK`;
* `CallsImplementCells`: `Spec => ImplementsCells`.

The inductive invariant `CallsInv` is `TypeOK` and `CopiesAgree`: all the copies of a
cell on the stack are equal. That is what the conditions `Clean` and `Exclusive` on
contracts buy, and with it a destructor's flush writes what every caller already sees.
The refinement takes the value of a cell from the innermost call that holds it.

`TableProofs` proves of `Authority`, for every set of accounts:

* `OwnerImplementsCell`: `AuthoritySpec => OwnerIsCell`;
* `WhiteListImplementsSet`: `AuthoritySpec => WhiteListIsSet`.

They assume `TextAssumption`: accounts, the zero address, the texts that are no addresses
and a missing value differ. The inductive invariant `AuthorityInv` is the types and
`AuthorityQuiescent`: between invocations the owner's cell, the white list and its cell
are what a revert restores. Both refinements need it at Begin, which takes a new
snapshot and must not change what is committed.

`SimpleMallocProofs` proves, for every page size, memory, heap base, alignment and every
set of requests that do not wrap (`MemoryAssumption`, `SizeAssumption`):

* `MallocTypeCorrect`, `BlocksDisjoint`, `BlocksInMemory`: `Spec => []TypeOK`,
  `[]Disjoint`, `[]InMemory`.

The inductive invariant `MallocInv` is about headers instead of blocks (`HeadersApart`),
because free and realloc leave headers behind that later calls still rely on, and
`BlocksInHeaders` relates the two. The proof showed that a block may reach past
`last_ptr` once the call has trapped: the sum that trapped was already stored and may
have wrapped. `Disjoint` claims this only of a running call.

`HeapMallocProofs` proves, for every size of headers, blocks, pages and of the initial
heap, every place of that heap, every limit of the memory and every sequence of calls
(`HeapAssumption`: a block is larger than a header and a multiple of it, pages and the
initial heap are whole blocks, there are at least two heaps, the initial heap is inside
the memory):

* `HeapInvariant`: `Spec => []IInv`, the inductive invariant;
* `HeapTypeCorrect`, `HeapAccounted`, `HeapBlocksDisjoint`, `HeapRefusalJustified`:
  `Spec => []TypeOK`, `[]Accounted`, `[]Disjoint`, `[]RefusalJustified`.

`IInv` has six parts, and none of the four properties is inductive without the others:

* `Consistent` (while no block has overrun `_offset`, and `Spec` makes no call from such
  a state, see `Orderly`): the headers of every heap are whole
  blocks, linked in both directions from its start to `_offset` and apart from each other
  (`HeapOK`), the heaps lie one behind the other, and the allocated chunks are the blocks
  in use. Whole blocks are needed because the rest that merge_contiguous splits off must
  have room for its header.
* `Placed`: there are never more than two heaps. The second begins where the memory ended
  at the start and always ends where the memory ends, since next_active_heap always asks
  for whole pages; so every later page extends it. That is why `_available_heaps` with
  its 16 places is never indexed past its end.
* `Managed`: either the last heap is the active one (`Growing`), or the memory is exhausted
  and every heap is cut up to its end (`Full`). The comment in malloc_from_freed
  (`malloc.cpp` line 287) says that it "was designed to only be called after _heap was
  completely allocated" and its assertion is commented out; `Full` shows that this is
  so. It is what keeps merge_contiguous from walking over zeros there: in a full heap it
  stops at the end of a chunk.
* `Typed`: the types of the headers, claimed also of an overrun heap.
* `Searching`: the heaps that the loop over the freed chunks has left, and the chunks of
  the current heap before `current`, are `Hopeless`: no run of free chunks from them on
  has the bytes. The loop merges chunks in vain and goes on, so this must survive
  merges further on and the removal of headers; the lemmas on `Hopeless` show that a merge
  changes neither what is free nor where the runs end.
* `Refused`: the same of all chunks once a request was refused.

merge_contiguous stops at the least of a set of places (`Gathered`); that there is one
follows from the order of the natural numbers (`LeastNatural`), without an induction over
the heap.

Only model-checked, for the stated bounds:

* `DeleteReturns`, a liveness property under fairness;
* the RLP modules and `Dispatch`: encoding and decoding are recursive operators over data,
  about which the prover can do no induction;
* the four runs and five configurations that end in a violation, where a counterexample is what there is to show.

## Not modelled, and why

* Hex, bech32, names: functions from texts to numbers without state. `Authority` needs
  of them only whether a text is accepted, `Dispatch` only that numbers differ.
* Energon is a number with `+=`; events are macros around RLPStream and one host call.
* float and double in RLP (the integer of the same bits); containers and structures
  beyond their lists, among them that fetch of a structure does not compare the number
  of items and reads missing trailing ones from an empty RLP; the capacity of
  BytesBuffer, and with it the reserve of cross_call_args (`cross_call.hpp` 36-39), which
  does not count the header of its list: the buffer grows when it is too small.
* Scalar operators of StorageType: each is an access to `t_`. (`operator=` has no
  return statement, `operator!=` compares for equality, postfix `++` answers the
  new value.)
* `operator==` of the iterators of Array and `operator--` of the iterator of
  MultiIndex do not compile when they are used.
* Gas, balances, contract creation and destruction: decided by the host.
* platon-cpp: a driver around LLVM. platon-test: a host for tests.

## Plan

Done: `ChainState`, `MapAbstract`, `DbMap`, `DbArray`,
`IndexSections`, `IndexAbstract`, `NormalIndex`, `MultiIndex`, `Cells`,
`ContractCalls`, `Authority`, `SimpleMalloc`, `HeapMalloc`, `RlpItem`, `RlpStream`,
`Rlp`, `Dispatch`; the proofs of all safety properties and refinements of the runs but
those of `rlp`.

To model, in this order:

1. Composition: a contract with a Map, a MultiIndex and a StorageType member under
   `ContractCalls`, so that destructor order and re-entrancy meet the containers.
2. bech32 (convertbits and the checksum) as functions over bounded inputs; the host
   functions of platon-test (`core/chain.go`).

To prove:

1. `MultiIndex` with a weaker condition on iterators: with `KeepIterators` TLC finds
   `CacheCoherent`, `VisitsAllRows` and `IndexesAgree` violated. What may survive is
   `IndexesAgree` for contracts that keep only iterators they have dereferenced, to be
   found out with TLC first.
