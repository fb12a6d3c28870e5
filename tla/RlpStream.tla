----------------------------- MODULE RlpStream ------------------------------
(***************************************************************************)
(* Writing RLP: RLPStream (RLP.h, RLP.cpp), whose lists are opened with    *)
(* the number of their items and closed by the last one, and RLPSize       *)
(* (rlp_size.hpp), which adds up beforehand what a stream will take.  The  *)
(* containers, tuples and structures of rlp_extend.hpp and                 *)
(* rlp_serialize.hpp are an appendList and their elements.                 *)
(***************************************************************************)
EXTENDS RlpItem

CONSTANTS
  Payloads,   \* byte strings that are written
  Ints,       \* integers that are written
  Hashes,     \* hashes that are written
  Raws,       \* sequences of values written in one piece by appendRaw
  PrefixSet,  \* what is put in front with appendPrefix
  Counts,     \* the numbers of items of a list
  MaxItems,   \* bound on the values written, lists included
  MaxDepth    \* bound on the lists that are open

VARIABLES
  m_out,        \* the bytes written
  m_listStack,  \* the open lists: items missing and where the list starts
  size_,        \* RLPSize: the size of what is outside of any list
  pending_,     \* RLPSize: the sizes of the open lists
  open,         \* what the program has written: the values outside of any list
                \* and the open lists, each with the items it is to have
  prefix,       \* the bytes put in front
  exact,        \* RLPSize was told of everything, and of no zero hash
  status        \* "writing", "reading" or "thrown"

streamVars == <<m_out, m_listStack, size_, pending_, open, prefix, exact, status>>

-----------------------------------------------------------------------------
\* RLPStream

\* Mutant of noteAppended: the list that is closed counts as many items as the
\* ones that closed it.
noteAppended_many(out, stack, n) ==
  LET RECURSIVE note(_, _)
      note(o, s) ==
        IF s = <<>> THEN [out |-> o, stack |-> s, ok |-> TRUE]
        ELSE LET t == Last(s)
             IN IF t.missing < n THEN [out |-> o, stack |-> s, ok |-> FALSE]
                ELSE IF t.missing > n
                THEN [out |-> o, stack |-> [s EXCEPT ![Len(s)].missing = @ - n],
                      ok |-> TRUE]
                ELSE note(SubSeq(o, 1, t.pos) \o
                            platon_rlp_list(SubSeq(o, t.pos + 1, Len(o))), Front(s))
  IN note(out, stack)

\* noteAppended: n items more in the innermost list.  A list that is complete gets
\* its header and is one item more in the list around it.
noteAppended(out, stack, n) ==
  LET RECURSIVE note(_, _, _)
      counted(o, s, t, k) ==
        IF t.missing < k THEN [out |-> o, stack |-> s, ok |-> FALSE]
        ELSE IF t.missing > k
        THEN [out |-> o, stack |-> [s EXCEPT ![Len(s)].missing = @ - k], ok |-> TRUE]
        ELSE note(SubSeq(o, 1, t.pos) \o platon_rlp_list(SubSeq(o, t.pos + 1, Len(o))),
                  Front(s), 1)
      note(o, s, k) ==
        IF k = 0 \/ s = <<>> THEN [out |-> o, stack |-> s, ok |-> TRUE]
        ELSE counted(o, s, Last(s), k)
  IN note(out, stack, n)

-----------------------------------------------------------------------------
\* RLPSize

\* n bytes more in the innermost list.
Sized(sz, n) ==
  IF sz.pending = <<>> THEN [sz EXCEPT !.size = @ + n]
  ELSE [sz EXCEPT !.pending[Len(sz.pending)] = @ + n]

\* Mutant of HeaderSize: the longest length in one byte is taken for one in two.
HeaderSize_off(n, count) == IF n <= count THEN 1 ELSE bytesRequired(n) + 1

HeaderSize(n, count) == IF n < count THEN 1 ELSE bytesRequired(n) + 1

\* operator<< with ListFlag::End.
list_end(sz) ==
  LET ended(n) == Sized([sz EXCEPT !.pending = Front(@)], n + HeaderSize(n, ListImmLenCount))
  IN ended(Last(sz.pending))

\* append of bytes and of strings.
SizeOfBytes(s) ==
  IF Len(s) = 1 /\ s[1] < DataImmLenStart THEN 1
  ELSE Len(s) + HeaderSize(Len(s), DataImmLenCount)

\* append(bigint).
SizeOfInt(v) ==
  IF v < DataImmLenStart THEN 1
  ELSE bytesRequired(v) + HeaderSize(bytesRequired(v), DataImmLenCount)

ZeroHash == [i \in 1 .. HashLen |-> 0]

\* append(FixedHash): a zero hash is expected to be written as no bytes.
SizeOfHash(h) ==
  IF h = ZeroHash THEN 1 ELSE HashLen + HeaderSize(HashLen, DataImmLenCount)

-----------------------------------------------------------------------------
\* What the program has written.

\* The values ts more in the innermost list, and the lists closed that have all
\* their items: what is open then and how many were closed.
Grown(o, ts) ==
  LET RECURSIVE close(_, _)
      closed(x, top, k) ==
        IF Len(x) = 1 \/ Len(top.items) < top.want THEN [open |-> x, closed |-> k]
        ELSE close([Front(x) EXCEPT ![Len(x) - 1].items = Append(@, ListOf(top.items))],
                   k + 1)
      close(x, k) == closed(x, Last(x), k)
  IN close([o EXCEPT ![Len(o)].items = @ \o ts], 0)

\* The values written, those inside of lists and the lists included.
Written ==
  LET RECURSIVE nodes(_)
      nodes(ts) ==
        FoldLeft(LAMBDA n, t : n + 1 + (IF "data" \in DOMAIN t THEN 0 ELSE nodes(t.items)),
                 0, ts)
  IN FoldLeft(LAMBDA n, l : n + 1 + nodes(l.items), -1, open)

Empty ==
  /\ m_out = <<>> /\ m_listStack = <<>>
  /\ size_ = 0 /\ pending_ = <<>>
  /\ open = <<[want |-> 0, items |-> <<>>]>>
  /\ prefix = <<>> /\ exact = TRUE
  /\ status = "writing"

\* A stream and an RLPSize are constructed anew, in this state of the call.
Fresh(s) ==
  /\ m_out' = <<>> /\ m_listStack' = <<>>
  /\ size_' = 0 /\ pending_' = <<>>
  /\ open' = <<[want |-> 0, items |-> <<>>]>>
  /\ prefix' = <<>> /\ exact' = TRUE
  /\ status' = s

-----------------------------------------------------------------------------
\* The operations.

\* Bytes b are appended that encode the values ts; RLPSize expects n bytes.  When
\* containers end with them, RLPSize gets their list_end.
Write(b, ts, n, e) ==
  LET RECURSIVE ended(_, _)
      ended(sz, k) == IF k = 0 THEN sz ELSE ended(list_end(sz), k - 1)
  IN /\ status = "writing"
     /\ Written < MaxItems
     /\ \E r \in {noteAppended(m_out \o b, m_listStack, Len(ts))} :
          IF ~r.ok THEN Fresh("thrown")
          ELSE \E g \in {Grown(open, ts)} :
               \E sz \in {ended(Sized([size |-> size_, pending |-> pending_], n),
                               g.closed)} :
                 /\ m_out' = r.out /\ m_listStack' = r.stack
                 /\ size_' = sz.size /\ pending_' = sz.pending
                 /\ open' = g.open /\ exact' = (exact /\ e)
                 /\ UNCHANGED <<prefix, status>>

append_bytes(s) == Write(platon_rlp_bytes(s), <<DataOf(s)>>, SizeOfBytes(s), TRUE)

append_int(v) ==
  Write(platon_rlp_u128(v), <<DataOf(value_to_bytes(v))>>, SizeOfInt(v), TRUE)

append_hash(h) ==
  Write(platon_rlp_bytes(h), <<DataOf(h)>>, SizeOfHash(h), h # ZeroHash)

\* appendRaw with the number of items it holds; RLPSize is not told of them.
appendRaw(ts) == Write(EncAll(ts), ts, 0, FALSE)

\* appendList of bytes that are the items of a list already.
appendList_bytes(ts) == Write(platon_rlp_list(EncAll(ts)), <<ListOf(ts)>>, 0, FALSE)

\* appendList(_items), and list_start of RLPSize or AppendEmptyList.
appendList(n) ==
  IF n = 0 THEN Write(platon_rlp_list(<<>>), <<ListOf(<<>>)>>, 1, TRUE)
  ELSE /\ status = "writing"
       /\ Written < MaxItems /\ Len(m_listStack) < MaxDepth
       /\ m_listStack' = Append(m_listStack, [missing |-> n, pos |-> Len(m_out)])
       /\ pending_' = Append(pending_, 0)
       /\ open' = Append(open, [want |-> n, items |-> <<>>])
       /\ UNCHANGED <<m_out, size_, prefix, exact, status>>

\* appendPrefix throws while a list is open.  Its callers in storage.hpp and
\* create.hpp use it before they write anything else.
appendPrefix(b) ==
  /\ status = "writing"
  /\ m_out = <<>>
  /\ IF m_listStack # <<>> THEN Fresh("thrown")
     ELSE /\ m_out' = b /\ prefix' = b
          /\ UNCHANGED <<m_listStack, size_, pending_, open, exact, status>>

clear == status = "writing" /\ Fresh("writing")

Writing ==
  \/ \E s \in Payloads : append_bytes(s)
  \/ \E v \in Ints : append_int(ZigZag(v)) \/ (v >= 0 /\ append_int(v))
  \/ \E h \in Hashes : append_hash(h)
  \/ \E ts \in Raws : appendRaw(ts) \/ appendList_bytes(ts)
  \/ \E n \in Counts : appendList(n)
  \/ \E b \in PrefixSet : appendPrefix(b)
  \/ clear

-----------------------------------------------------------------------------
\* Properties of the writer.

\* The bytes of a stream are the encoding of the values written to it, those of
\* the open lists behind each other without headers, and the stack says where each
\* open list starts and how many items it lacks, whatever mixture of nested lists,
\* empty lists and pieces of several items was appended, also while a list is open.
StreamIsEncoding ==
  LET RECURSIVE all(_)
      all(k) == IF k = 0 THEN prefix ELSE all(k - 1) \o EncAll(open[k].items)
  IN /\ m_out = all(Len(open))
     /\ Len(m_listStack) = Len(open) - 1
     /\ \A k \in DOMAIN m_listStack :
          /\ m_listStack[k].pos = Len(all(k))
          /\ m_listStack[k].missing = open[k + 1].want - Len(open[k + 1].items)

\* What RLPSize adds up beforehand is the length of what the stream then holds,
\* so that the memory reserved for it suffices; it is never more, and less only
\* when a hash of zeros or a raw piece was written.
SizeIsLength ==
  LET n == Len(prefix) + size_ + FoldLeft(LAMBDA a, b : a + b, 0, pending_)
  IN n <= Len(m_out) /\ (exact => n = Len(m_out))
=============================================================================
