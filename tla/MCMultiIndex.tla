---------------------------- MODULE MCMultiIndex ----------------------------
(***************************************************************************)
(* Instances of MultiIndex for TLC: tables with a unique index and one or  *)
(* two normal indexes, with and without members that are not indexed.      *)
(***************************************************************************)
EXTENDS MultiIndex

UniqueOnly(n) == [name |-> n, unique |-> TRUE]
Normal(n)     == [name |-> n, unique |-> FALSE]

\* The layout of the header's example: name is unique, age is not.
NameAge == <<UniqueOnly("name"), Normal("age")>>

\* Two normal indexes.
NameAgeSex == <<UniqueOnly("name"), Normal("age"), Normal("sex")>>

\* The same with the normal index first: C++ lets the tuple have any order.
AgeName == <<Normal("age"), UniqueOnly("name")>>

\* Member 'city' is not indexed; with NameAge neither is 'sex'.
MemberFields == {"name", "age", "sex", "city"}

EmptyMember == [c \in MemberFields |-> 0]

\* All members are indexed with NameAge, so that modify changes nothing.
KeyFields == {"name", "age"}

EmptyKeys == [c \in KeyFields |-> 0]
=============================================================================
