------------------------------ MODULE Dispatch ------------------------------
(***************************************************************************)
(* The input of a contract call: cross_call_args (cross_call.hpp) writes   *)
(* the method's number and the arguments as an RLP list; PLATON_DISPATCH   *)
(* and get_para (dispatcher.hpp) take it apart.  The same dispatcher also  *)
(* meets whatever bytes somebody sends.                                    *)
(*                                                                         *)
(* A method is known by the hash of its name (name.hpp), here a number; it *)
(* is assumed that the names of a contract's methods have different hashes *)
(* other than 0.                                                           *)
(***************************************************************************)
EXTENDS Rlp

CONSTANTS
  Methods,   \* the number of each method and the types of its parameters
  IntArgs,   \* integers passed as arguments
  NUMBER,    \* the bytes of a method's number, 8
  NoCall

ASSUME MethodAssumption ==
  /\ NUMBER \in 1 .. WIDE
  /\ \A m \in DOMAIN Methods :
       /\ m \in 1 .. BASE ^ NUMBER - 1
       /\ \A k \in DOMAIN Methods[m] : Methods[m][k] \in {"uint", "bytes"}
  /\ \A n \in IntArgs : n \in 0 .. BASE ^ NUMBER - 1

VARIABLES
  sent,      \* the call that the input was made for, or NoCall
  ran        \* the call that was executed, or NoCall

callVars == <<sent, ran>>
vars == <<rlpVars, callVars>>

IntArg(n)   == [int |-> n]
BytesArg(b) == [bytes |-> b]

Call(m, args) == [method |-> m, args |-> args]

\* The calls of a method with arguments of its types.
CallsOf(m) ==
  {Call(m, a) : a \in
    {x \in [DOMAIN Methods[m] -> {IntArg(n) : n \in IntArgs} \cup
                                 {BytesArg(b) : b \in Payloads}] :
       \A k \in DOMAIN x : ("int" \in DOMAIN x[k]) = (Methods[m][k] = "uint")}}

EncodedArg(a) ==
  IF "int" \in DOMAIN a THEN platon_rlp_u128(a.int) ELSE platon_rlp_bytes(a.bytes)

\* A stream that is told of n items and gets these.
Streamed(n, items) ==
  LET RECURSIVE put(_, _)
      put(s, k) ==
        IF k > Len(items) \/ ~s.ok THEN s
        ELSE put(noteAppended(s.out \o items[k], s.stack, 1), k + 1)
  IN put([out |-> <<>>, stack |-> <<[missing |-> n, pos |-> 0]>>, ok |-> TRUE], 1)

\* Mutant of cross_call_args: the method is not counted.
cross_call_args_short(c) ==
  Streamed(Len(c.args), <<platon_rlp_u128(c.method)>> \o
                        [k \in DOMAIN c.args |-> EncodedArg(c.args[k])])

\* cross_call_args: the method and the arguments, one list.
cross_call_args(c) ==
  Streamed(Len(c.args) + 1, <<platon_rlp_u128(c.method)>> \o
                            [k \in DOMAIN c.args |-> EncodedArg(c.args[k])])

\* A contract calls another one, whose RLP is constructed from the input; out()
\* throws when the list is open.
platon_call(c) ==
  /\ status = "writing" /\ m_out = <<>> /\ m_listStack = <<>>
  /\ sent = NoCall
  /\ sent' = c
  /\ \E s \in {cross_call_args(c)} :
       IF s.ok /\ s.stack = <<>> THEN Open(s.out) ELSE Throw
  /\ UNCHANGED ran

-----------------------------------------------------------------------------
\* fetch of an argument: an integer that is none throws, a list where bytes are
\* expected is read as no bytes.
Fetched(type, d) ==
  IF type = "uint" THEN IntArg(toInt(d, NUMBER))
  ELSE BytesArg(IF isData(d) THEN payload(d) ELSE <<>>)

\* The item at index i for an RLP that is asked in ascending order.
ItemAt(d, i) == Forward(Restarted(payload(d)), payload(d), i)

\* Mutant of get_para: the number of arguments is not compared.
get_para_uncounted(d, types) ==
  [ok |-> TRUE, args |-> [k \in DOMAIN types |-> Fetched(types[k], ItemAt(d, k).item)]]

\* get_para: as many items as the method has parameters, besides its number.
get_para(d, types) ==
  IF itemCount(d) - 1 # Len(types) THEN [ok |-> FALSE, args |-> <<>>]
  ELSE LET checked(a) == [ok |-> \A k \in DOMAIN a : a[k] # IntArg(Bad), args |-> a]
       IN checked([k \in DOMAIN types |-> Fetched(types[k], ItemAt(d, k).item)])

\* _invoke, up to the method that is executed.
_invoke ==
  /\ status = "reading"
  /\ cache = NoCache /\ it = NoLoop /\ ran = NoCall
  /\ \E first \in {ItemAt(rlp, 0)} : \E method \in {toInt(first.item, NUMBER)} :
       IF first.ok /\ method \in DOMAIN Methods
       THEN \E para \in {get_para(rlp, Methods[method])} :
              IF para.ok THEN ran' = Call(method, para.args) /\ UNCHANGED rlpVars
              ELSE Throw /\ UNCHANGED ran
       ELSE Throw /\ UNCHANGED ran
  /\ UNCHANGED sent

\* The call is over, and another one begins.
Finish ==
  /\ status # "writing"
  /\ Fresh("writing") /\ Constructed(<<>>)
  /\ sent' = NoCall /\ ran' = NoCall

Init == RlpInit /\ sent = NoCall /\ ran = NoCall

Next ==
  \/ ran = NoCall /\ sent = NoCall /\ RlpStep /\ UNCHANGED callVars
  \/ \E m \in DOMAIN Methods : \E c \in CallsOf(m) : platon_call(c)
  \/ _invoke
  \/ Finish

Spec == Init /\ [][Next]_vars
-----------------------------------------------------------------------------
\* Properties.

\* A call that is made with cross_call_args for a method of the contract is
\* executed by its dispatcher with the very arguments, and never refused.
CallArrives ==
  sent # NoCall => status # "thrown" /\ (ran # NoCall => ran = sent)

\* Whatever the input, a method is executed only for a list that has its number
\* and one item for each parameter, and with what those items say: an integer is
\* the one encoded, bytes are the bytes, or nothing where the item is a list.
DispatchExact ==
  ran # NoCall =>
    /\ isList(rlp)
    /\ \E c \in {ItemsOf(rlp)} :
         /\ Len(c) = Len(ran.args) + 1
         /\ c[1] = platon_rlp_u128(ran.method)
         /\ \A k \in DOMAIN ran.args :
              \/ c[k + 1] = EncodedArg(ran.args[k])
              \/ isList(c[k + 1]) /\ ran.args[k] = BytesArg(<<>>)
=============================================================================
