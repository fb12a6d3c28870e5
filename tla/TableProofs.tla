---------------------------- MODULE TableProofs -----------------------------
(***************************************************************************)
(* Proofs about two components that the abstract table of MapAbstract      *)
(* describes.                                                              *)
(*                                                                         *)
(* db/map.hpp, for every set of keys and values: the members keep their    *)
(* types, no cached value escapes flush(), contains() tells what will be   *)
(* durable, and for careful contracts the cache implements the table.      *)
(*                                                                         *)
(* authority.hpp, for every set of accounts: asking for the owner leaves   *)
(* the owner alone, is_owner() says yes only to the owner, and the white   *)
(* list is a set of addresses that is committed or forgotten as a whole    *)
(* with the invocation.                                                    *)
(***************************************************************************)
EXTENDS DbMap, Authority, TLAPS

\* The inductive invariant: the types, the tracking of cached keys, and the
\* state between two invocations.
MapInv == TypeOK /\ CacheTracked /\ Quiescent

\* The operations on one key, spelled out, for the case splits below.
LEMMA NextCases ==
  ASSUME Next
  PROVE \/ Construct \/ flush \/ Destroy \/ Revert
        \/ \E k \in Key : \/ erase(k) \/ contains(k) \/ get_const(k) \/ at(k)
                          \/ \E v \in Value : \/ insert(k, v)
                                              \/ bracket_assign(k, v)
                                              \/ insert_const(k, v)
  BY DEF Next, Lifecycle, Common, ReadBehind

\* A careful contract is a contract.
LEMMA CarefulIsContract == CarefulNext => Next
  BY DEF CarefulNext, Next

\* What Lookup answers is a Value.
LEMMA LookupType ==
  ASSUME TypeOK, NEW k \in Key, NEW v \in Lookup(k)
  PROVE v \in Value
  BY FreshAssumption DEF TypeOK, Chain, Lookup, Cached, get_state, has_state

\* The chain flush() leaves behind is a chain.
LEMMA FlushedType ==
  ASSUME TypeOK
  PROVE Flushed \in Chain
  BY DEF TypeOK, Chain, Flushed

LEMMA InitMapInv == Init => MapInv
  BY DEF Init, MapInv, TypeOK, CacheTracked, Quiescent, Cached, Chain, NoKeys,
         Results

\* Every step keeps the inductive invariant.
LEMMA StepMapInv == MapInv /\ [Next]_vars => MapInv'
<1> SUFFICES ASSUME MapInv, [Next]_vars PROVE MapInv'
  OBVIOUS
<1> USE DEF MapInv
<1>1. CASE Construct
  BY <1>1 DEF Construct, TypeOK, CacheTracked, Quiescent, Cached, Chain, NoKeys,
              Results
<1>2. CASE flush
  BY <1>2, FlushedType DEF flush, TypeOK, CacheTracked, Quiescent, Cached
<1>3. CASE Destroy
  BY <1>3, FlushedType DEF Destroy, TypeOK, CacheTracked, Quiescent, Cached,
                           Chain, NoKeys, Results
<1>4. CASE Revert
  BY <1>4 DEF Revert, TypeOK, CacheTracked, Quiescent, Cached, Chain, NoKeys,
              Results
<1>5. ASSUME NEW k \in Key, erase(k) PROVE MapInv'
  BY <1>5 DEF erase, Answer, TypeOK, CacheTracked, Quiescent, Cached, Chain,
              Results
<1>6. ASSUME NEW k \in Key, contains(k) PROVE MapInv'
  <2>1. IsMember(k) \in BOOLEAN
    BY DEF IsMember, Cached, has_state
  <2>2. ret' \in Results
    BY <1>6, <2>1 DEF contains, Answer, Results
  <2> QED
    BY <1>6, <2>2 DEF contains, TypeOK, CacheTracked, Quiescent, Cached
<1>7. ASSUME NEW k \in Key, get_const(k) PROVE MapInv'
  <2>1. PICK v \in Lookup(k) : ret' = Answer("get_const", k, v)
    BY <1>7 DEF get_const
  <2>2. ret' \in Results
    BY <2>1, LookupType DEF Answer, Results
  <2> QED
    BY <1>7, <2>2 DEF get_const, TypeOK, CacheTracked, Quiescent, Cached
<1>8. ASSUME NEW k \in Key, at(k) PROVE MapInv'
  <2>1. PICK v \in Lookup(k) :
          /\ map_' = [map_ EXCEPT ![k] = v]
          /\ modify_' = IF Cached(k) THEN modify_ ELSE modify_ \cup {k}
          /\ ret' = Answer("at", k, v)
    BY <1>8 DEF at
  <2>2. v \in Value
    BY LookupType
  <2>3. ret' \in Results
    BY <2>1, <2>2 DEF Answer, Results
  <2>4. TypeOK'
    BY <1>8, <2>1, <2>2, <2>3 DEF at, TypeOK, Chain
  <2>5. CacheTracked'
    BY <2>1 DEF TypeOK, Chain, CacheTracked, Cached
  <2> QED
    BY <1>8, <2>4, <2>5 DEF at, Quiescent
<1>9. ASSUME NEW k \in Key, NEW v \in Value, insert(k, v) PROVE MapInv'
  BY <1>9 DEF insert, Answer, TypeOK, CacheTracked, Quiescent, Cached, Chain,
              Results
<1>10. ASSUME NEW k \in Key, NEW v \in Value, bracket_assign(k, v) PROVE MapInv'
  BY <1>10 DEF bracket_assign, Answer, TypeOK, CacheTracked, Quiescent, Cached,
               Chain, Results
<1>11. ASSUME NEW k \in Key, NEW v \in Value, insert_const(k, v) PROVE MapInv'
  BY <1>11 DEF insert_const, set_state, Answer, TypeOK, CacheTracked, Quiescent,
               Cached, Chain, Results
<1>12. CASE UNCHANGED vars
  BY <1>12 DEF vars, TypeOK, CacheTracked, Quiescent, Cached
<1> QED
  BY NextCases, <1>1, <1>2, <1>3, <1>4, <1>5, <1>6, <1>7, <1>8, <1>9, <1>10,
     <1>11, <1>12

\* The members of Map keep their types, whatever the contract does.
THEOREM TypeCorrect == Spec => []TypeOK
<1>1. MapInv => TypeOK
  BY DEF MapInv
<1> QED
  BY InitMapInv, StepMapInv, <1>1, PTL DEF Spec

\* map.hpp never caches a value that flush() would miss: the destructor writes
\* every change made through insert, at, operator[] or a held reference.
THEOREM CacheIsTracked == Spec => []CacheTracked
<1>1. MapInv => CacheTracked
  BY DEF MapInv
<1> QED
  BY InitMapInv, StepMapInv, <1>1, PTL DEF Spec

\* contains() answers exactly what the destructor will make durable, also for
\* keys erased, loaded or written through in the same invocation.
THEOREM ContainsIsDurableAlways == Spec => []ContainsIsDurable
<1>1. MapInv => ContainsIsDurable
  BY DEF MapInv, TypeOK, CacheTracked, ContainsIsDurable, IsMember, Flushed,
         Cached, has_state, Chain
<1> QED
  BY InitMapInv, StepMapInv, <1>1, PTL DEF Spec
-----------------------------------------------------------------------------
\* Overlaying the cache after a change of key k only changes key k.
LEMMA OverlayPut ==
  ASSUME TypeOK, NEW k \in Key, NEW v \in Value \cup {Absent},
         map_' = [map_ EXCEPT ![k] = v], modify_' = modify_ \cup {k},
         UNCHANGED chain
  PROVE Flushed' = [Flushed EXCEPT ![k] = v]
  BY DEF TypeOK, Chain, Flushed

\* While k is not erased, reading k reads the overlay.
LEMMA LookupIsOverlay ==
  ASSUME MapInv, NEW k \in Key, ~Erased(k)
  PROVE Lookup(k) = IF Flushed[k] = Absent THEN Fresh ELSE {Flushed[k]}
  BY DEF MapInv, TypeOK, Chain, CacheTracked, Erased, Cached, Lookup, Flushed,
         get_state, has_state

\* The step simulation: every step of a careful contract is a step of the
\* table or leaves it alone.
LEMMA StepRefines == MapInv /\ MapInv' /\ [CarefulNext]_vars => [Abs!Next]_(Abs!vars)
<1> SUFFICES ASSUME MapInv, MapInv', [CarefulNext]_vars PROVE [Abs!Next]_(Abs!vars)
  OBVIOUS
<1> USE DEF MapInv
<1>0. Flushed \in Chain /\ TypeOK
  BY FlushedType
<1>1. CASE Construct
  <2>1. Flushed' = chain /\ Flushed = chain
    BY <1>1 DEF Construct, Flushed, TypeOK, Chain, Quiescent
  <2> QED
    BY <1>1, <2>1 DEF Construct, Quiescent, Abs!Next, Abs!Begin, Abs!None, None
<1>2. CASE flush
  <2>1. Flushed' = Flushed
    BY <1>2 DEF flush, Flushed
  <2> QED
    BY <1>2, <2>1 DEF flush, Abs!vars
<1>3. CASE Destroy
  <2>1. Flushed' = Flushed
    BY <1>3, <1>0 DEF Destroy, Flushed, Chain
  <2> QED
    BY <1>3, <2>1 DEF Destroy, Abs!Next, Abs!Commit, Abs!None, None
<1>4. CASE Revert
  <2>1. Flushed' = saved
    BY <1>4 DEF Revert, Flushed, TypeOK, Chain
  <2> QED
    BY <1>4, <2>1 DEF Revert, Abs!Next, Abs!Abort, Abs!None, None
<1>5. ASSUME NEW k \in Key, erase(k) PROVE Abs!Next
  <2>1. Flushed' = [Flushed EXCEPT ![k] = Absent]
    BY <1>5, OverlayPut DEF erase
  <2> QED
    BY <1>5, <2>1 DEF erase, Abs!Next, Abs!Remove, Abs!Answer, Answer
<1>6. ASSUME NEW k \in Key, contains(k) PROVE Abs!Next
  <2>1. Flushed' = Flushed
    BY <1>6 DEF contains, Flushed
  <2>2. IsMember(k) <=> Flushed[k] # Absent
    BY DEF TypeOK, CacheTracked, IsMember, Flushed, Cached, has_state
  <2>3. IsMember(k) = (Flushed[k] # Absent)
    BY <2>2 DEF IsMember, Cached, has_state
  <2>4. Abs!Test(k)
    BY <1>6, <2>1, <2>3 DEF contains, Abs!Test, Abs!Answer, Answer
  <2> QED
    BY <2>4 DEF Abs!Next
<1>7. ASSUME NEW k \in Key, get_const(k), ~Erased(k) PROVE Abs!Next
  <2>1. Flushed' = Flushed
    BY <1>7 DEF get_const, Flushed
  <2>2. Abs!Get(k)
    BY <1>7, <2>1, LookupIsOverlay DEF get_const, Abs!Get, Abs!Answer, Answer
  <2> QED
    BY <2>2 DEF Abs!Next
<1>8. ASSUME NEW k \in Key, at(k), ~Erased(k) PROVE Abs!Next
  <2>1. PICK v \in Lookup(k) :
          /\ map_' = [map_ EXCEPT ![k] = v]
          /\ modify_' = IF Cached(k) THEN modify_ ELSE modify_ \cup {k}
          /\ ret' = Answer("at", k, v)
    BY <1>8 DEF at
  <2>2. v \in Value
    BY LookupType
  <2>3. modify_' = modify_ \cup {k}
    BY <2>1 DEF CacheTracked
  <2>4. Flushed' = [Flushed EXCEPT ![k] = v]
    BY <1>8, <2>1, <2>2, <2>3, OverlayPut DEF at
  <2>5. Abs!GetOrCreate(k)
    BY <1>8, <2>1, <2>4, LookupIsOverlay DEF at, Abs!GetOrCreate, Abs!Answer,
                                             Answer
  <2> QED
    BY <2>5 DEF Abs!Next
<1>9. ASSUME NEW k \in Key, NEW v \in Value, insert(k, v) PROVE Abs!Next
  <2>1. Flushed' = [Flushed EXCEPT ![k] = v]
    BY <1>9, OverlayPut DEF insert
  <2> QED
    BY <1>9, <2>1 DEF insert, Abs!Next, Abs!Put, Abs!Answer, Answer
<1>10. ASSUME NEW k \in Key, NEW v \in Value, bracket_assign(k, v) PROVE Abs!Next
  <2>1. modify_' = modify_ \cup {k}
    BY <1>10 DEF bracket_assign, CacheTracked
  <2>2. Flushed' = [Flushed EXCEPT ![k] = v]
    BY <1>10, <2>1, OverlayPut DEF bracket_assign
  <2> QED
    BY <1>10, <2>2 DEF bracket_assign, Abs!Next, Abs!Put, Abs!Answer, Answer
<1>11. ASSUME NEW k \in Key, NEW v \in Value, insert_const(k, v), ~Erased(k)
       PROVE Abs!Next
  <2>1. Flushed' = [Flushed EXCEPT ![k] = v]
    BY <1>11, <1>0 DEF insert_const, set_state, Flushed, Erased, Cached, TypeOK,
                       Chain, CacheTracked
  <2> QED
    BY <1>11, <2>1 DEF insert_const, Abs!Next, Abs!Put, Abs!Answer, Answer
<1>12. CASE UNCHANGED vars
  BY <1>12 DEF vars, Abs!vars, Flushed
<1> QED
  BY <1>1, <1>2, <1>3, <1>4, <1>5, <1>6, <1>7, <1>8, <1>9, <1>10, <1>11, <1>12
  DEF CarefulNext, Lifecycle, Common, ReadBehind

\* For contracts that do not read behind an erased key, db::Map implements the
\* abstract table: reads answer the last write, ~Map() commits everything the
\* invocation did and a revert commits nothing of it.
THEOREM MapImplementsTable == CarefulSpec => ImplementsTable
<1>1. Init => Abs!Init
  BY DEF Init, Abs!Init, Abs!None, None, Flushed, Chain, NoKeys
<1>2. MapInv /\ [CarefulNext]_vars => MapInv'
  BY StepMapInv, CarefulIsContract
<1> QED
  BY InitMapInv, <1>1, <1>2, StepRefines, PTL DEF CarefulSpec, ImplementsTable,
                                                  Abs!Spec

-----------------------------------------------------------------------------
\* Authority.

\* What the cells, the copy and the invocation hold.
AuthorityTypes ==
  /\ cell \in Address \cup {Unset}
  /\ list \subseteq Address
  /\ whitelist_ \subseteq Address
  /\ call \in [caller : Account, origin : Account] \cup {Idle}
  /\ kept \in [cell : Address \cup {Unset}, list : SUBSET Address]

\* Between two invocations the copy, the cell and what a revert would restore
\* are the same.
AuthorityQuiescent ==
  ~Running => whitelist_ = kept.list /\ list = kept.list /\ cell = kept.cell

AuthorityInv == AuthorityTypes /\ AuthorityQuiescent

\* The texts that stand for something else than an address are no addresses.
LEMMA AddressesApart ==
  /\ Zero \in Address
  /\ Unset \notin Address /\ Empty \notin Address
  /\ Invalid \notin Address /\ Invalid # Empty
  BY TextAssumption DEF Address

\* A text denotes an address.
LEMMA DenotedType ==
  ASSUME NEW t \in Text, NEW whom \in Address
  PROVE Denoted(t, whom) \in Address
  BY AddressesApart DEF Denoted, Text

\* The owner is an address, and writing it back does not change it.
LEMMA OwnerWrittenBack ==
  ASSUME AuthorityTypes
  PROVE Owner \in Address /\ (cell' = Owner => Owner' = Owner)
  BY AddressesApart DEF AuthorityTypes, Owner, OwnerIn

LEMMA InitAuthorityInv == AuthorityInit => AuthorityInv
  BY AddressesApart DEF AuthorityInit, AuthorityInv, AuthorityTypes,
                        AuthorityQuiescent, Running

\* Every step keeps the inductive invariant.
LEMMA StepAuthorityInv ==
  AuthorityInv /\ [AuthorityNext]_authorityVars => AuthorityInv'
<1> SUFFICES ASSUME AuthorityInv, [AuthorityNext]_authorityVars PROVE AuthorityInv'
  OBVIOUS
<1> USE DEF AuthorityInv
<1>1. ASSUME NEW caller \in Account, NEW origin \in Account, Begin(caller, origin)
      PROVE AuthorityInv'
  <2>1. call' \in [caller : Account, origin : Account] /\ call' # Idle
    BY <1>1, TextAssumption DEF Begin, Idle
  <2>2. AuthorityTypes'
    BY <1>1, <2>1 DEF Begin, AuthorityTypes
  <2> QED
    BY <1>1, <2>1, <2>2 DEF Begin, AuthorityQuiescent, Running
<1>2. ASSUME NEW t \in Text, set_owner(t) PROVE AuthorityInv'
  <2>1. Denoted(t, call.caller) \in Address
    BY <1>2, DenotedType DEF set_owner, AuthorityTypes, Running,
                             Address
  <2> QED
    BY <1>2, <2>1 DEF set_owner, AuthorityTypes, AuthorityQuiescent,
                      Running, listVars, callVars
<1>3. ASSUME NEW t \in Text, is_owner(t) PROVE AuthorityInv'
  BY <1>3, OwnerWrittenBack DEF is_owner, AuthorityTypes, AuthorityQuiescent,
                                Running, listVars, callVars
<1>4. CASE owner
  BY <1>4, OwnerWrittenBack DEF owner, AuthorityTypes, AuthorityQuiescent,
                                Running, listVars, callVars
<1>5. ASSUME NEW t \in Text, Add(t) \/ Delete(t) \/ Exists(t)
      PROVE  AuthorityInv'
  BY <1>5 DEF Add, Delete, Exists, Parses, AuthorityTypes,
              AuthorityQuiescent, Running, ownerVars, callVars
<1>6. ASSUME NEW t \in Text, Refused(t) PROVE AuthorityInv'
  BY <1>6 DEF Refused, AuthorityTypes, AuthorityQuiescent,
              Running, listVars, callVars
<1>7. CASE End
  BY <1>7 DEF End, AuthorityTypes, AuthorityQuiescent, Running
<1>8. CASE Rollback
  BY <1>8 DEF Rollback, AuthorityTypes, AuthorityQuiescent, Running
<1>9. CASE UNCHANGED authorityVars
  BY <1>9 DEF authorityVars, ownerVars, listVars, callVars,
              AuthorityTypes, AuthorityQuiescent, Running
<1> QED
  BY <1>1, <1>2, <1>3, <1>4, <1>5, <1>6, <1>7, <1>8, <1>9 DEF AuthorityNext

\* The inductive invariant holds in every state.
LEMMA AuthorityInvAlways == AuthoritySpec => []AuthorityInv
  BY InitAuthorityInv, StepAuthorityInv, PTL DEF AuthoritySpec

-----------------------------------------------------------------------------
\* The owner as a cell.

LEMMA InitOwnerCell == AuthorityInit => OwnerCell!Init
<1> SUFFICES ASSUME AuthorityInit PROVE OwnerCell!Init
  OBVIOUS
<1>1. Owner = Zero /\ OwnerIn(kept.cell) = Zero /\ asked = NoReply /\ ~Running
  BY DEF AuthorityInit, Owner, OwnerIn, Running
<1>2. Zero \in Address
  BY AddressesApart
<1> QED
  BY <1>1, <1>2 DEF OwnerCell!Init, OwnerCell!None, NoReply

\* An operation that tells of the owner there is, is a read of the cell.
LEMMA OwnerRead ==
  ASSUME AuthorityInv, Running, UNCHANGED <<call, kept>>, Owner' = Owner,
         asked' # NoReply, asked'.op # "set_owner", Told' = Owner
  PROVE OwnerCell!Get("platonowner")
<1> DEFINE cells == [k \in {"platonowner"} |-> Owner]
<1>1. Owner \in Address
  BY OwnerWrittenBack DEF AuthorityInv
<1>2. cells["platonowner"] = Owner /\ Owner # Unset
  BY <1>1, AddressesApart
<1>3. UNCHANGED <<cells, [k \in {"platonowner"} |-> OwnerIn(kept.cell)], Running>>
  BY DEF Running, OwnerIn
<1> QED
  BY <1>2, <1>3 DEF OwnerCell!Get, OwnerCell!Answer

\* Every step of the contract is one of the cell's, or none.
LEMMA StepOwnerCell ==
  AuthorityInv /\ [AuthorityNext]_authorityVars
           => [OwnerCell!Next]_(OwnerCell!vars)
<1> SUFFICES ASSUME AuthorityInv, [AuthorityNext]_authorityVars
             PROVE [OwnerCell!Next]_(OwnerCell!vars)
  OBVIOUS
<1>0. Owner \in Address
  BY OwnerWrittenBack DEF AuthorityInv
<1>1. ASSUME NEW caller \in Account, NEW origin \in Account, Begin(caller, origin)
      PROVE OwnerCell!Begin
  <2>1. Owner' = Owner /\ OwnerIn(kept.cell)' = OwnerIn(kept.cell)
    BY <1>1 DEF Begin, AuthorityInv, AuthorityQuiescent, Owner, OwnerIn
  <2>2. ~Running /\ Running' /\ asked' = NoReply
    BY <1>1, TextAssumption DEF Begin, Running, Idle
  <2> QED
    BY <2>1, <2>2 DEF OwnerCell!Begin, OwnerCell!None, NoReply
<1>2. ASSUME NEW t \in Text, set_owner(t)
      PROVE \E a \in Address : OwnerCell!Put("platonowner", a)
  <2> DEFINE a == Denoted(t, call.caller)
  <2>1. Running /\ cell' = a /\ UNCHANGED <<call, kept>>
    BY <1>2 DEF set_owner, callVars
  <2>2. asked'.op = "set_owner" /\ asked'.val = a /\ asked' # NoReply
    BY <1>2 DEF set_owner, Reply, NoReply
  <2>3. a \in Address
    BY <2>1, DenotedType DEF AuthorityInv, AuthorityTypes, Running, Address
  <2> HIDE DEF a
  <2>4. Owner' = a /\ Told' = a
    BY <2>1, <2>2, <2>3, AddressesApart DEF Owner, OwnerIn, Told
  <2>5. OwnerCell!Put("platonowner", a)
    BY <2>1, <2>2, <2>4 DEF OwnerCell!Put, OwnerCell!Answer, Running, OwnerIn
  <2> QED
    BY <2>3, <2>5
<1>3. ASSUME NEW t \in Text, is_owner(t) PROVE OwnerCell!Get("platonowner")
  <2>1. Running /\ Owner' = Owner /\ UNCHANGED <<call, kept>>
    BY <1>3, OwnerWrittenBack DEF is_owner, callVars, AuthorityInv
  <2>2. /\ asked'.op = "is_owner" /\ asked'.key = t /\ asked' # NoReply
        /\ asked'.val = (Owner = Denoted(t, call.origin))
    BY <1>3 DEF is_owner, Reply, NoReply
  <2>3. Denoted(asked.key, call.origin)' = Denoted(t, call.origin)
    BY <2>1, <2>2 DEF Denoted
  <2>4. CASE Owner = Denoted(t, call.origin)
    <3>1. asked'.val
      BY <2>2, <2>4, Zenon
    <3>2. Told' = Denoted(t, call.origin)
      BY <2>2, <2>3, <3>1 DEF Told
    <3> QED
      BY <2>1, <2>2, <2>4, <3>2, OwnerRead
  <2>5. CASE Owner # Denoted(t, call.origin)
    <3>1. ~asked'.val
      BY <2>2, <2>5, Zenon
    <3>2. Told' = Owner
      BY <2>1, <2>2, <3>1 DEF Told
    <3> QED
      BY <2>1, <2>2, <3>2, OwnerRead
  <2> QED
    BY <2>4, <2>5
<1>4. CASE owner
  <2>1. Running /\ Owner' = Owner /\ UNCHANGED <<call, kept>>
    BY <1>4, OwnerWrittenBack DEF owner, callVars, AuthorityInv
  <2>2. asked'.op = "owner" /\ asked'.val = Owner /\ asked' # NoReply
    BY <1>4 DEF owner, Reply, NoReply
  <2>3. Told' = Owner
    BY <2>2 DEF Told
  <2> QED
    BY <2>1, <2>2, <2>3, OwnerRead DEF OwnerCell!Next
<1>5. ASSUME NEW t \in Text, Refused(t) PROVE OwnerCell!Get("platonowner")
  <2>1. Running /\ Owner' = Owner /\ UNCHANGED <<call, kept>>
    BY <1>5 DEF Refused, callVars, Owner
  <2>2. asked'.op = "exists" /\ asked' # NoReply
    BY <1>5 DEF Refused, Reply, NoReply
  <2>3. Told' = Owner
    BY <2>1, <2>2 DEF Told
  <2> QED
    BY <2>1, <2>2, <2>3, OwnerRead
<1>6. ASSUME NEW t \in Text, Add(t) \/ Delete(t) \/ Exists(t)
      PROVE UNCHANGED OwnerCell!vars
  <2>1. UNCHANGED <<cell, asked, call, kept>>
    BY <1>6 DEF Add, Delete, Exists, ownerVars, callVars
  <2>2. Owner' = Owner
    BY <2>1 DEF Owner
  <2>3. Told' = Told
    BY <2>1, <2>2 DEF Told, Denoted
  <2> QED
    BY <2>1, <2>2, <2>3 DEF OwnerCell!vars, Running
<1>7. CASE End
  <2>1. Owner' = Owner /\ OwnerIn(kept.cell)' = Owner /\ Running /\ ~Running'
    BY <1>7 DEF End, Owner, OwnerIn, Running
  <2>2. asked' = NoReply
    BY <1>7 DEF End
  <2> QED
    BY <2>1, <2>2 DEF OwnerCell!Next, OwnerCell!Commit, OwnerCell!None, NoReply
<1>8. CASE Rollback
  <2>1. /\ Owner' = OwnerIn(kept.cell) /\ OwnerIn(kept.cell)' = OwnerIn(kept.cell)
        /\ Running /\ ~Running'
    BY <1>8 DEF Rollback, Owner, OwnerIn, Running
  <2>2. asked' = NoReply
    BY <1>8 DEF Rollback
  <2> QED
    BY <2>1, <2>2 DEF OwnerCell!Next, OwnerCell!Abort, OwnerCell!None, NoReply
<1>9. CASE UNCHANGED authorityVars
  <2>1. UNCHANGED <<cell, asked, call, kept>>
    BY <1>9 DEF authorityVars, ownerVars, callVars
  <2>2. Owner' = Owner
    BY <2>1 DEF Owner
  <2>3. Told' = Told
    BY <2>1, <2>2 DEF Told, Denoted
  <2> QED
    BY <2>1, <2>2, <2>3 DEF OwnerCell!vars, Running
<1> QED
  BY <1>1, <1>2, <1>3, <1>4, <1>5, <1>6, <1>7, <1>8, <1>9
  DEF AuthorityNext, OwnerCell!Next

\* The owner is one cell for every contract and sequence of invocations: only
\* set_owner changes it, the queries answer it although they write it back, and a
\* revert restores it.
THEOREM OwnerImplementsCell == AuthoritySpec => OwnerIsCell
  BY InitOwnerCell, StepOwnerCell, AuthorityInvAlways, PTL
  DEF AuthoritySpec, OwnerCell!Spec, OwnerIsCell

-----------------------------------------------------------------------------
\* The white list as a table.

LEMMA InitTable == AuthorityInit => Table!Init
<1> SUFFICES ASSUME AuthorityInit PROVE Table!Init
  OBVIOUS
<1> QED
  BY DEF AuthorityInit, Table!Init, Table!None, NoReply, Running

\* Every step of the contract is one of the table's, or none.
LEMMA StepTable ==
  AuthorityInv /\ AuthorityInv' /\ [AuthorityNext]_authorityVars
           => [Table!Next]_(Table!vars)
<1> SUFFICES ASSUME AuthorityInv, AuthorityInv', [AuthorityNext]_authorityVars
             PROVE [Table!Next]_(Table!vars)
  OBVIOUS
<1>1. ASSUME NEW caller \in Account, NEW origin \in Account, Begin(caller, origin)
      PROVE Table!Begin
  <2>1. whitelist_' = whitelist_ /\ kept'.list = kept.list
    BY <1>1 DEF Begin, AuthorityInv, AuthorityQuiescent
  <2>2. ~Running /\ Running'
    BY <1>1, TextAssumption DEF Begin, Running, Idle
  <2> QED
    BY <1>1, <2>1, <2>2 DEF Begin, Table!Begin, Table!None,
                            NoReply
<1>2. ASSUME NEW t \in Text, Add(t)
      PROVE t \in Address /\ Table!Put(t, TRUE)
  BY <1>2 DEF Add, Parses, Table!Put, Table!Answer,
              Reply, callVars, Running
<1>3. ASSUME NEW t \in Text, Delete(t)
      PROVE t \in Address /\ Table!Remove(t)
  BY <1>3 DEF Delete, Parses, Table!Remove, Table!Answer,
              Reply, callVars, Running
<1>4. ASSUME NEW t \in Text, Exists(t)
      PROVE t \in Address /\ Table!Test(t)
  <2> DEFINE contents == [a \in Address |-> IF a \in whitelist_ THEN TRUE ELSE Unset]
  <2>1. /\ t \in Address /\ Running
        /\ reply' = Reply("contains", t, t \in whitelist_)
        /\ UNCHANGED <<call, kept, whitelist_>>
    BY <1>4 DEF Exists, Parses, callVars
  <2>2. (t \in whitelist_) = (contents[t] # Unset)
    <3>1. contents[t] = IF t \in whitelist_ THEN TRUE ELSE Unset
      BY <2>1
    <3> HIDE DEF contents
    <3>2. CASE t \in whitelist_
      BY <3>1, <3>2, TextAssumption
    <3>3. CASE t \notin whitelist_
      BY <3>1, <3>3
    <3> QED
      BY <3>2, <3>3
  <2> HIDE DEF contents
  <2>3. reply' = Reply("contains", t, contents[t] # Unset)
    BY <2>1, <2>2
  <2> QED
    BY <2>1, <2>3 DEF Table!Test, Table!Answer, Reply, contents,
                      Running
<1>5. ASSUME NEW t \in Text, set_owner(t) \/ is_owner(t) \/ Refused(t)
      PROVE UNCHANGED Table!vars
  BY <1>5 DEF set_owner, is_owner, Refused, listVars,
              callVars, Table!vars, Running
<1>6. CASE owner
  BY <1>6 DEF owner, listVars, callVars, Table!vars,
              Running
<1>7. CASE End
  BY <1>7 DEF End, Table!Next, Table!Commit, Table!None,
              NoReply, Running
<1>8. CASE Rollback
  BY <1>8 DEF Rollback, Table!Next, Table!Abort, Table!None,
              NoReply, Running
<1>9. CASE UNCHANGED authorityVars
  BY <1>9 DEF authorityVars, listVars, callVars, Table!vars,
              Running
<1> QED
  BY <1>1, <1>2, <1>3, <1>4, <1>5, <1>6, <1>7, <1>8, <1>9 DEF AuthorityNext,
                                                              Table!Next

\* The white list is a set of addresses: Add, Delete and Exists are put, remove
\* and test, and the invocation commits or forgets the changes as a whole.
THEOREM WhiteListImplementsSet == AuthoritySpec => WhiteListIsSet
  BY InitTable, StepTable, AuthorityInvAlways, PTL DEF AuthoritySpec,
                                                       Table!Spec,
                                                       WhiteListIsSet
=============================================================================
