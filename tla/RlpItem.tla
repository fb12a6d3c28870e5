------------------------------ MODULE RlpItem -------------------------------
(***************************************************************************)
(* The format of RLP (platonlib RLP.h, RLP.cpp, common.h): what the first  *)
(* bytes of an item say of it, the conversions of an item to a value, and  *)
(* the encoding of values.  A byte is a number below BASE and the bounds   *)
(* between the kinds of first byte are scaled with it; the functions that  *)
(* encode are imported from the host, and external.                        *)
(***************************************************************************)
EXTENDS Integers, Sequences, SequencesExt

CONSTANTS
  BASE,             \* 256, and even
  DataImmLenStart,  \* c_rlpDataImmLenStart, 0x80
  ListStart,        \* c_rlpListStart, 0xc0
  MaxLengthBytes,   \* c_rlpMaxLengthBytes, 8
  SIZEOF,           \* the bytes of a size_t, 4
  WIDE,             \* the bytes of the widest integer, 16
  HashLen           \* the bytes of a FixedHash

DataImmLenCount == ListStart - DataImmLenStart - MaxLengthBytes
DataIndLenZero  == DataImmLenStart + DataImmLenCount - 1
ListImmLenCount == BASE - ListStart - MaxLengthBytes
ListIndLenZero  == ListStart + ListImmLenCount - 1

ASSUME RlpAssumption ==
  /\ BASE % 2 = 0 /\ DataImmLenStart > 0
  /\ DataImmLenCount >= 2 /\ ListImmLenCount >= 1
  /\ SIZEOF \in 1 .. MaxLengthBytes /\ WIDE \in Nat \ {0} /\ HashLen >= 2

\* The answer of a function that calls platon_throw, which ends the contract.
Bad == -1

-----------------------------------------------------------------------------
\* Integers as bytes.

\* value_to_bytes: the big endian bytes of v, as many as it needs.
RECURSIVE value_to_bytes(_)
value_to_bytes(v) ==
  IF v = 0 THEN <<>> ELSE Append(value_to_bytes(v \div BASE), v % BASE)

bytesRequired(v) == Len(value_to_bytes(v))

\* fromBigEndian into an integer of w bytes.
fromBigEndian(b, w) == FoldLeft(LAMBDA n, x : (n * BASE + x) % BASE ^ w, 0, b)

\* append(int128_t): signed integers are written with the sign as lowest bit.
ZigZag(v) == IF v >= 0 THEN 2 * v ELSE -2 * v - 1

-----------------------------------------------------------------------------
\* Reading: d holds the bytes of an item and perhaps more.

isNull(d) == d = <<>>
isSingleByte(d) == ~isNull(d) /\ d[1] < DataImmLenStart
isData(d) == ~isNull(d) /\ d[1] < ListStart
isList(d) == ~isNull(d) /\ d[1] >= ListStart

\* requireGood does not throw: a single byte that needs no prefix has none.
Good(d) ==
  ~isNull(d) /\ (d[1] = DataImmLenStart + 1 => Len(d) >= 2 /\ d[2] >= DataImmLenStart)

\* We have to be able to add payloadOffset to length without overflow.
LengthLimit == BASE ^ SIZEOF - 1 - BASE

\* Mutant of IndirectLength: short payloads may have a long prefix.
IndirectLength_any(d, k, least) ==
  IF Len(d) <= k \/ k > SIZEOF THEN Bad
  ELSE LET n == fromBigEndian(SubSeq(d, 2, k + 1), SIZEOF)
       IN IF d[2] = 0 \/ n >= LengthLimit THEN Bad ELSE n

\* A length in the k bytes behind the first, of a payload that is too long to have
\* its length in the first byte.
IndirectLength(d, k, least) ==
  IF Len(d) <= k \/ k > SIZEOF THEN Bad
  ELSE LET within(n) == IF n < least \/ n >= LengthLimit THEN Bad ELSE n
       IN IF d[2] = 0 THEN Bad ELSE within(fromBigEndian(SubSeq(d, 2, k + 1), SIZEOF))

lengthSize(d) ==
  CASE isData(d) /\ d[1] > DataIndLenZero -> d[1] - DataIndLenZero
    [] isList(d) /\ d[1] > ListIndLenZero -> d[1] - ListIndLenZero
    [] OTHER -> 0

length(d) ==
  CASE isNull(d) -> 0
    [] ~isNull(d) /\ ~Good(d) -> Bad
    [] Good(d) /\ isSingleByte(d) -> 1
    [] Good(d) /\ ~isSingleByte(d) ->
         IF lengthSize(d) = 0
         THEN d[1] - (IF isData(d) THEN DataImmLenStart ELSE ListStart)
         ELSE IndirectLength(d, lengthSize(d),
                             IF isData(d) THEN DataImmLenCount ELSE ListImmLenCount)

payloadOffset(d) == IF isSingleByte(d) THEN 0 ELSE 1 + lengthSize(d)

actualSize(d) ==
  CASE isNull(d) -> 0
    [] isSingleByte(d) -> 1
    [] ~isNull(d) /\ ~isSingleByte(d) ->
         LET behind(n) == IF n = Bad THEN Bad ELSE payloadOffset(d) + n
         IN behind(length(d))

\* The size of the first item of d, which must not be cut short.
sizeAsEncoded(d) ==
  LET within(n) == IF n > Len(d) THEN Bad ELSE n IN within(actualSize(d))

\* The constructor of RLP with VeryStrict: d is exactly one item.
Accepts(d) == actualSize(d) = Len(d)

\* payload() of an RLP.  Every way to construct one checks that all of the item is
\* there, so that length() does not throw and the payload is inside.
payload(d) == SubSeq(d, payloadOffset(d) + 1, payloadOffset(d) + length(d))

\* The loop of items(): the items of a payload, up to the first one that is bad.
RECURSIVE Cut(_)
Cut(p) ==
  IF p = <<>> THEN [ok |-> TRUE, items |-> <<>>]
  ELSE LET before(n, rest) == [ok |-> rest.ok, items |-> <<SubSeq(p, 1, n)>> \o rest.items]
           first(n) == IF n = Bad THEN [ok |-> FALSE, items |-> <<>>]
                       ELSE before(n, Cut(SubSeq(p, n + 1, Len(p))))
       IN first(sizeAsEncoded(p))

\* itemCount
itemCount(d) ==
  IF ~isList(d) THEN 0
  ELSE LET counted(c) == IF c.ok THEN Len(c.items) ELSE Bad IN counted(Cut(payload(d)))

-----------------------------------------------------------------------------
\* Conversions of an item, with the flags Strict.

\* Mutant of isInt: leading zeros are allowed.
isInt_zeros(d) == isData(d) /\ d # <<0>>

\* isInt of an item that is all there: no leading zero.
isInt(d) ==
  CASE isSingleByte(d) -> d[1] # 0
    [] isData(d) /\ ~isSingleByte(d) -> d[1] = DataImmLenStart \/ payload(d)[1] # 0
    [] ~isData(d) -> FALSE

\* toInt<_T> for an unsigned integer of w bytes.
toInt(d, w) ==
  LET read(p) == IF Len(p) > w THEN Bad ELSE fromBigEndian(p, w)
  IN IF ~Good(d) THEN Bad
     ELSE IF isInt(d) THEN read(payload(d)) ELSE Bad

\* static_cast to a signed integer of w bytes.
Narrowed(v, w) ==
  LET r == v % BASE ^ w IN IF 2 * r < BASE ^ w THEN r ELSE r - BASE ^ w

\* toSignedInt<_T>, of an item that toInt<uint128_t> converts.
toSignedInt(d, w) ==
  LET signed(u) == IF u % 2 = 0 THEN u \div 2 ELSE -((u + 1) \div 2)
  IN Narrowed(signed(toInt(d, WIDE)), w)

\* toHash: data that is too short is filled up with zeros at the front.  Throws
\* where the answer is <<>>.
toHash(d) ==
  IF ~Good(d) \/ ~isData(d) THEN <<>>
  ELSE LET p == payload(d)
       IN IF Len(p) > HashLen THEN <<>>
          ELSE [i \in 1 .. HashLen - Len(p) |-> 0] \o p

-----------------------------------------------------------------------------
\* Encoding, by the host.

Header(n, start, count) ==
  LET b == value_to_bytes(n)
  IN IF n < count THEN <<start + n>> ELSE <<start + count - 1 + Len(b)>> \o b

platon_rlp_bytes(s) ==
  IF Len(s) = 1 /\ s[1] < DataImmLenStart THEN s
  ELSE Header(Len(s), DataImmLenStart, DataImmLenCount) \o s

platon_rlp_list(p) == Header(Len(p), ListStart, ListImmLenCount) \o p

platon_rlp_u128(v) == platon_rlp_bytes(value_to_bytes(v))

\* What is encoded: bytes or a list.
DataOf(b) == [data |-> b]
ListOf(t) == [items |-> t]

\* The reference: the encoding of a value.
RECURSIVE Enc(_)
Enc(t) ==
  IF "data" \in DOMAIN t THEN platon_rlp_bytes(t.data)
  ELSE platon_rlp_list(FoldLeft(LAMBDA b, x : b \o Enc(x), <<>>, t.items))

EncAll(ts) == FoldLeft(LAMBDA b, x : b \o Enc(x), <<>>, ts)

\* Everything inside d can be read.
RECURSIVE AllGood(_)
AllGood(d) ==
  \/ isData(d)
  \/ /\ isList(d)
     /\ \E c \in {Cut(payload(d))} :
          c.ok /\ \A i \in DOMAIN c.items : AllGood(c.items[i])

\* The value read from d when everything inside it can be read.
RECURSIVE Value(_)
Value(d) ==
  IF isData(d) THEN DataOf(payload(d))
  ELSE LET values(c) == ListOf([i \in DOMAIN c |-> Value(c[i])])
       IN values(Cut(payload(d)).items)
=============================================================================
