-------------------------------- MODULE Rlp ---------------------------------
(***************************************************************************)
(* Reading RLP (class RLP and its iterator, RLP.h and RLP.cpp), on its own *)
(* and together with RlpStream: what a stream has written, or bytes that   *)
(* come from outside, is taken apart with operator[], which remembers the  *)
(* last item it was asked for, and with range-based for loops, in any      *)
(* order and down to any depth.                                            *)
(***************************************************************************)
EXTENDS RlpStream

CONSTANTS
  MaxInput,   \* bound on the length of bytes from outside
  MaxIndex,   \* bound on the indexes asked for
  Widths      \* the bytes of the integer types

VARIABLES
  rlp,        \* m_data
  cache,      \* m_lastIndex, m_lastEnd and m_lastItem
  asked,      \* the index last given to operator[] and the item answered
  it,         \* an iterator: where m_currentItem is, its size, and m_remaining
  seen        \* the items the loop has visited

readVars == <<rlp, cache, asked, it, seen>>
rlpVars == <<streamVars, readVars>>

\* (size_t)-1
NoIndex == BASE ^ SIZEOF - 1

NoCache == [index |-> NoIndex, end |-> 0, item |-> <<>>]
NoAnswer == [i |-> NoIndex, item |-> <<>>]
NoLoop == [at |-> 0, size |-> 0, remaining |-> 0]

\* An RLP that is constructed from d.
Constructed(d) ==
  /\ rlp' = d
  /\ cache' = NoCache /\ asked' = NoAnswer /\ it' = NoLoop /\ seen' = <<>>

RlpInit ==
  /\ Empty
  /\ rlp = <<>> /\ cache = NoCache /\ asked = NoAnswer /\ it = NoLoop /\ seen = <<>>

\* platon_throw: the call is over.
Throw == Fresh("thrown") /\ Constructed(<<>>)

\* RLP(d): d is one item, or the contract ends.
Open(d) == IF Accepts(d) THEN Fresh("reading") /\ Constructed(d) ELSE Throw

Inputs == UNION {[1 .. n -> 0 .. BASE - 1] : n \in 0 .. MaxInput}

\* Bytes from outside: the input of a call, or what another contract returned.
Receive ==
  /\ status = "writing" /\ m_out = <<>> /\ m_listStack = <<>>
  /\ \E d \in Inputs : Open(d)

\* out(): the bytes are read again, without the prefix.
out ==
  /\ status = "writing"
  /\ IF m_listStack # <<>> THEN Throw
     ELSE Open(SubSeq(m_out, Len(prefix) + 1, Len(m_out)))

-----------------------------------------------------------------------------
\* operator[]

\* The bytes of p from offset n on.
From(p, n) == SubSeq(p, n + 1, Len(p))

\* Mutant of Restarted: the end of the item asked for last is kept.
Restarted_end(p) ==
  LET n == sizeAsEncoded(p)
  IN [index |-> 0, end |-> IF cache.index = NoIndex THEN n ELSE cache.end,
      item |-> SubSeq(p, 1, n), ok |-> n # Bad]

\* An index before the cached one: from the first item on.
Restarted(p) ==
  LET first(n) == [index |-> 0, end |-> n, item |-> SubSeq(p, 1, n), ok |-> n # Bad]
  IN first(sizeAsEncoded(p))

\* The loop: forward from the item in the cache, until there is none.
Forward(c, p, i) ==
  LET RECURSIVE go(_)
      next(x, rest, n) ==
        IF n = Bad THEN [x EXCEPT !.ok = FALSE]
        ELSE go([index |-> x.index + 1, end |-> x.end + n,
                 item |-> SubSeq(rest, 1, n), ok |-> TRUE])
      go(x) ==
        IF ~x.ok \/ x.index >= i \/ x.item = <<>> THEN x
        ELSE next(x, From(p, x.end), sizeAsEncoded(From(p, x.end)))
  IN go(c)

\* Where the loop starts.
Cached(p, i) ==
  IF i < cache.index THEN Restarted(p)
  ELSE [index |-> cache.index, end |-> cache.end, item |-> cache.item, ok |-> TRUE]

subscript(i) ==
  /\ status = "reading"
  /\ \E p \in {payload(rlp)} : \E c \in {Forward(Cached(p, i), p, i)} :
       IF ~c.ok THEN Throw
       ELSE /\ cache' = [index |-> c.index, end |-> c.end, item |-> c.item]
            /\ asked' = [i |-> i, item |-> c.item]
            /\ UNCHANGED <<streamVars, rlp, it, seen>>

\* The item answered is an RLP of its own.
Descend ==
  /\ status = "reading"
  /\ asked.item # <<>>
  /\ Constructed(asked.item)
  /\ UNCHANGED streamVars

-----------------------------------------------------------------------------
\* The iterator.

EndOf(d) == [at |-> Len(d), size |-> 0, remaining |-> 0]

\* begin() == end() compares the place and the size of the item.
AtEnd == it.at = Len(rlp) /\ it.size = 0

begin ==
  /\ status = "reading"
  /\ \E p \in {payload(rlp)} : \E n \in {sizeAsEncoded(p)} :
       IF isList(rlp) /\ n = Bad THEN Throw
       ELSE /\ it' = IF isList(rlp)
                     THEN [at |-> payloadOffset(rlp), size |-> n,
                           remaining |-> Len(p) - n]
                     ELSE EndOf(rlp)
            /\ seen' = <<>>
            /\ UNCHANGED <<streamVars, rlp, cache, asked>>

\* Mutant of Advanced: what remains is not reduced.
Advanced_same(x) ==
  LET n == sizeAsEncoded(SubSeq(rlp, x.at + x.size + 1, Len(rlp)))
  IN IF x.remaining > 0 /\ n > 0
     THEN [x EXCEPT !.at = @ + x.size, !.size = n]
     ELSE [at |-> x.at + x.size, size |-> 0, remaining |-> 0]

\* operator++ where it does not throw: the next item of what remains.
Advanced(x) ==
  LET next == x.at + x.size
      item(n) == [at |-> next, size |-> n, remaining |-> x.remaining - n]
  IN IF x.remaining = 0 THEN item(0)
     ELSE item(sizeAsEncoded(SubSeq(rlp, next + 1, next + x.remaining)))

\* One round of a loop: the item is visited, then operator++.
Visit ==
  /\ status = "reading"
  /\ it # NoLoop /\ ~AtEnd
  /\ \E x \in {Advanced(it)} :
       IF x.size = Bad THEN Throw
       ELSE /\ seen' = Append(seen, SubSeq(rlp, it.at + 1, it.at + it.size))
            /\ it' = x
            /\ UNCHANGED <<streamVars, rlp, cache, asked>>

\* One operation of a writer or of a reader.
RlpStep ==
  \/ Writing /\ UNCHANGED readVars
  \/ Receive \/ out
  \/ \E i \in 0 .. MaxIndex : subscript(i)
  \/ Descend \/ begin \/ Visit
-----------------------------------------------------------------------------
\* Properties.

\* The items of a list.
ItemsOf(d) == Cut(payload(d)).items

\* operator[] answers the item at the index, and nothing past the last one, in
\* whatever order it was asked before: the cache of the last item never makes it
\* miss or repeat one.
IndexIsItem ==
  asked.i # NoIndex /\ isList(rlp) =>
    \E c \in {ItemsOf(rlp)} :
      asked.item = IF asked.i < Len(c) THEN c[asked.i + 1] ELSE <<>>

\* RLP.h:159: operator[] answers "the list item @a _i if isList() and @a _i <
\* listItems(), or RLP() otherwise": data has no items.
DataHasNoItems == asked.i # NoIndex /\ ~isList(rlp) => asked.item = <<>>

\* A loop over a list visits its items in their order, each once, and is at its
\* end when it has visited them all; the iterator is always inside the list.
LoopVisitsItems ==
  status = "reading" /\ it # NoLoop =>
    /\ it.at + it.size + it.remaining = Len(rlp)
    /\ isList(rlp) => \E c \in {ItemsOf(rlp)} :
                        IsPrefix(seen, c) /\ (AtEnd <=> Len(seen) = Len(c))
    /\ ~isList(rlp) => AtEnd

\* There is one encoding of a value: bytes that can be read are the encoding of
\* the value that is read, so that what is not canonical (a longer length than
\* needed, a prefix where none is needed, bytes left over or missing) is refused.
\* A stream whose lists are closed is read as the value that was written.
Canonical ==
  /\ rlp # <<>> /\ AllGood(rlp) => Enc(Value(rlp)) = rlp
  /\ (status = "writing" /\ Len(open) = 1 /\ Len(open[1].items) = 1) =>
       \E d \in {SubSeq(m_out, Len(prefix) + 1, Len(m_out))} :
         Accepts(d) /\ AllGood(d) /\ Value(d) = open[1].items[1]

\* An item converted to an unsigned integer gives the integer whose encoding it is,
\* or throws; one that fits is never refused, whatever its width.  A signed
\* integer that fits its type survives, and so does an amount that is passed to
\* the host as bytes (value_to_bytes), zero included.  Data read as a hash has its
\* bytes at the end, as the number of the same value has.
IntsExact ==
  /\ rlp # <<>> => \A w \in Widths :
       /\ toInt(rlp, w) # Bad => platon_rlp_u128(toInt(rlp, w)) = rlp
       /\ toInt(rlp, WIDE) \in 0 .. BASE ^ w - 1 => toInt(rlp, w) = toInt(rlp, WIDE)
  /\ rlp # <<>> /\ toHash(rlp) # <<>> =>
       /\ Len(toHash(rlp)) = HashLen
       /\ IsSuffix(payload(rlp), toHash(rlp))
       /\ fromBigEndian(toHash(rlp), HashLen) = fromBigEndian(payload(rlp), HashLen)
  /\ (status = "writing" /\ Written = 0) =>
       \A w \in Widths, v \in -(BASE ^ WIDE \div 2) .. BASE ^ WIDE - 1 :
         /\ v \in -(BASE ^ w \div 2) .. BASE ^ w \div 2 - 1 =>
              toSignedInt(platon_rlp_u128(ZigZag(v)), w) = v
         /\ v \in 0 .. BASE ^ w - 1 =>
              /\ toInt(platon_rlp_u128(v), w) = v
              /\ fromBigEndian(value_to_bytes(v), w) = v
=============================================================================
