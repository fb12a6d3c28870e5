----------------------------- MODULE Authority ------------------------------
(***************************************************************************)
(* include/platon/authority.hpp: the owner of a contract, kept in the cell *)
(* "platonowner", and a WhiteList member.                                  *)
(*                                                                         *)
(* set_owner, owner and is_owner each make a StorageType of their own,     *)
(* which loads the cell when the function starts and writes it when the    *)
(* function returns, also when the function only reads it.  The WhiteList  *)
(* is a member of the contract: loaded when the invocation starts, written *)
(* when it ends.                                                           *)
(*                                                                         *)
(* Its names differ from those of DbMap, so that one module can extend both*)
(* and prove of both that they implement the table of MapAbstract.         *)
(***************************************************************************)
CONSTANTS
  Account,   \* addresses of accounts and contracts, the zero address excepted
  Zero,      \* Address(): twenty zero bytes
  Invalid,   \* a text that make_address refuses
  Empty,     \* the empty text
  Unset     \* a cell without a value

\* The texts that are no addresses, and no value, are told apart from addresses.
ASSUME TextAssumption ==
  /\ Zero \notin Account
  /\ {Invalid, Empty, Unset} \cap (Account \cup {Zero}) = {}
  /\ Invalid # Empty
  /\ Unset # TRUE

VARIABLES
  cell,         \* "platonowner" in the chain state
  list,         \* the white list's cell in the chain state
  whitelist_,   \* the WhiteList member's copy
  call,         \* the caller and the origin of the running invocation, or Idle
  kept,         \* cell and list when the invocation started
  asked,        \* the last operation on the owner and its answer
  reply         \* the last operation on the white list and its answer

ownerVars == <<cell, asked>>
listVars  == <<list, whitelist_, reply>>
callVars  == <<call, kept>>

authorityVars == <<ownerVars, listVars, callVars>>

Address == Account \cup {Zero}

\* Texts given to the functions; an account stands for its own text.
Text == Address \cup {Invalid, Empty}

Idle == [caller |-> Zero, origin |-> Zero]

Running == call # Idle

NoReply == [op |-> "none"]

Reply(op, t, v) == [op |-> op, key |-> t, val |-> v]

AuthorityInit ==
  /\ cell = Unset
  /\ list = {}
  /\ whitelist_ = {}
  /\ call = Idle
  /\ kept = [cell |-> cell, list |-> list]
  /\ asked = NoReply
  /\ reply = NoReply

\* The origin signed the transaction; the caller is the origin or a contract.
Begin(caller, origin) ==
  /\ ~Running
  /\ call' = [caller |-> caller, origin |-> origin]
  /\ kept' = [cell |-> cell, list |-> list]
  /\ whitelist_' = list
  /\ asked' = NoReply
  /\ reply' = NoReply
  /\ UNCHANGED <<cell, list>>

-----------------------------------------------------------------------------
\* The owner.

\* The address a text denotes; whom denotes the caller or the origin when the
\* text is empty.  A refused text leaves the default constructed address.
Denoted(t, whom) ==
  CASE t = Empty   -> whom
    [] t = Invalid -> Zero
    [] OTHER       -> t

\* StorageType::Init of the cell: a cell without a value gives Address().
OwnerIn(c) == IF c = Unset THEN Zero ELSE c

Owner == OwnerIn(cell)

set_owner(t) ==
  /\ Running
  /\ cell' = Denoted(t, call.caller)
  /\ asked' = Reply("set_owner", t, Denoted(t, call.caller))
  /\ UNCHANGED <<listVars, callVars>>

owner ==
  /\ Running
  /\ cell' = Owner
  /\ asked' = Reply("owner", Empty, Owner)
  /\ UNCHANGED <<listVars, callVars>>

\* Mutant of is_owner: = instead of == in the comparison with the copy.
is_owner_assigns(t) ==
  /\ Running
  /\ cell' = Denoted(t, call.origin)
  /\ asked' = Reply("is_owner", t, TRUE)
  /\ UNCHANGED <<listVars, callVars>>

is_owner(t) ==
  /\ Running
  /\ cell' = Owner
  /\ asked' = Reply("is_owner", t, Owner = Denoted(t, call.origin))
  /\ UNCHANGED <<listVars, callVars>>

-----------------------------------------------------------------------------
\* The white list.  make_address refuses the texts Invalid and Empty.

Parses(t) == t \in Address

Add(t) ==
  /\ Running
  /\ Parses(t)
  /\ whitelist_' = whitelist_ \cup {t}
  /\ reply' = Reply("put", t, TRUE)
  /\ UNCHANGED <<ownerVars, callVars, list>>

\* Mutant of Delete: the copy is not changed.
Delete_nothing(t) ==
  /\ Running
  /\ Parses(t)
  /\ reply' = Reply("erase", t, Unset)
  /\ UNCHANGED <<ownerVars, callVars, list, whitelist_>>

Delete(t) ==
  /\ Running
  /\ Parses(t)
  /\ whitelist_' = whitelist_ \ {t}
  /\ reply' = Reply("erase", t, Unset)
  /\ UNCHANGED <<ownerVars, callVars, list>>

Exists(t) ==
  /\ Running
  /\ Parses(t)
  /\ reply' = Reply("contains", t, t \in whitelist_)
  /\ UNCHANGED <<ownerVars, callVars, list, whitelist_>>

\* A refused text: Add and Delete do nothing, Exists answers false.
Refused(t) ==
  /\ Running
  /\ ~Parses(t)
  /\ asked' = Reply("exists", t, FALSE)
  /\ UNCHANGED <<cell, listVars, callVars>>

-----------------------------------------------------------------------------
\* The contract object, and its WhiteList with it, is destroyed.
End ==
  /\ Running
  /\ list' = whitelist_
  /\ kept' = [cell |-> cell, list |-> whitelist_]
  /\ call' = Idle
  /\ asked' = NoReply
  /\ reply' = NoReply
  /\ UNCHANGED <<cell, whitelist_>>

\* platon_revert, platon_panic
Rollback ==
  /\ Running
  /\ cell' = kept.cell
  /\ list' = kept.list
  /\ whitelist_' = kept.list
  /\ call' = Idle
  /\ asked' = NoReply
  /\ reply' = NoReply
  /\ UNCHANGED kept

AuthorityNext ==
  \/ \E caller, origin \in Account : Begin(caller, origin)
  \/ \E t \in Text :
       \/ set_owner(t) \/ is_owner(t)
       \/ Add(t) \/ Delete(t) \/ Exists(t) \/ Refused(t)
  \/ owner \/ End \/ Rollback

AuthoritySpec == AuthorityInit /\ [][AuthorityNext]_authorityVars
-----------------------------------------------------------------------------
\* Properties.

Table == INSTANCE MapAbstract WITH
           Key       <- Address,
           Value     <- {TRUE},
           Fresh     <- {TRUE},
           Absent    <- Unset,
           contents  <- [a \in Address |-> IF a \in whitelist_ THEN TRUE ELSE Unset],
           committed <- [a \in Address |-> IF a \in kept.list THEN TRUE ELSE Unset],
           open      <- Running,
           ret       <- reply

\* The white list is a set of addresses that the invocation changes as a whole
\* when it ends and leaves alone when it is reverted; texts that are not
\* addresses never get in.
WhiteListIsSet == Table!Spec

\* What the last operation tells about the owner: set_owner and owner name an
\* address, a yes of is_owner names the address that the text denotes, and from
\* the other answers nothing more can be learnt than the owner there is.
Told ==
  CASE asked.op \in {"set_owner", "owner"} -> asked.val
    [] asked.op = "is_owner" /\ asked.val -> Denoted(asked.key, call.origin)
    [] OTHER -> Owner

OwnerCell == INSTANCE MapAbstract WITH
               Key       <- {"platonowner"},
               Value     <- Address,
               Fresh     <- {Zero},
               Absent    <- Unset,
               contents  <- [k \in {"platonowner"} |-> Owner],
               committed <- [k \in {"platonowner"} |-> OwnerIn(kept.cell)],
               open      <- Running,
               ret       <- IF asked = NoReply THEN NoReply
                            ELSE [op  |-> IF asked.op = "set_owner" THEN "put"
                                          ELSE "get_const",
                                  key |-> "platonowner",
                                  val |-> Told]

\* The owner is one cell that only set_owner changes, kept when the invocation ends
\* and restored when it is reverted, although each of set_owner, owner and is_owner
\* loads the cell into a copy of its own and writes the copy back: the queries
\* answer the owner set last, in this or an earlier invocation, and leave it alone.
OwnerIsCell == OwnerCell!Spec

\* What the comment of is_owner says, "true if the input address is owner, false
\* otherwise" (for an empty text, the transaction's origin).
OnlyOwnerIsOwner ==
  asked # NoReply /\ asked.op = "is_owner" /\ asked.val =>
    asked.key = Owner \/ (asked.key = Empty /\ Owner = call.origin)
=============================================================================
