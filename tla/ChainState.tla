----------------------------- MODULE ChainState -----------------------------
(***************************************************************************)
(* The key-value state of the chain as storage.hpp sees it.  The host      *)
(* functions platon_set_state, platon_get_state and                        *)
(* platon_get_state_length are external: a key without a value has length  *)
(* 0, and writing length 0 removes the value.  A stored value always       *)
(* starts with value_prefix (0xfe), so a present value never has length 0  *)
(* and "present" and "length # 0" are the same thing.                      *)
(***************************************************************************)
CONSTANTS
  Key,      \* keys of one table, after the table's prefix is stripped
  Value,    \* the values a table stores
  Absent,   \* no value (length 0)
  Fresh     \* what a declaration `Value v;` may hold: one value when Value is
            \* a class with a default constructor, any value when it is a
            \* scalar, because the scalar is left uninitialised

ASSUME AbsentAssumption == Absent \notin Value
ASSUME FreshAssumption  == Fresh \subseteq Value /\ Fresh # {}

Chain == [Key -> Value \cup {Absent}]

set_state(c, k, v) == [c EXCEPT ![k] = v]

del_state(c, k) == [c EXCEPT ![k] = Absent]

has_state(c, k) == c[k] # Absent

\* Mutant of get_state: the length is not tested, so "no value" is decoded.
get_state_unchecked(c, k) == {c[k]}

\* The values `Value v; get_state(k, v);` may leave in v: get_state does not
\* touch v when the length is 0.
get_state(c, k) == IF has_state(c, k) THEN {c[k]} ELSE Fresh
=============================================================================
