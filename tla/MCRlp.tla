------------------------------- MODULE MCRlp --------------------------------
(***************************************************************************)
(* An instance of Dispatch for TLC: payloads on both sides of every bound  *)
(* of the format, among them one whose length takes two bytes.             *)
(***************************************************************************)
EXTENDS Dispatch

Zeros(n) == [i \in 1 .. n |-> 0]

\* Nothing, one byte below and above the bound, the first length that is not in
\* the first byte, and one of two bytes.
SomePayloads == {<<>>, <<1>>, <<2>>, <<0, 0>>, Zeros(12)}

SomeHashes == {Zeros(2), <<0, 1>>}

\* Two items, and a list.
SomeRaws == {<<DataOf(<<1>>), ListOf(<<DataOf(<<>>)>>)>>, <<ListOf(<<>>)>>}

OneByte == {<<11>>}

SomeInts == {-1, 0, 13}

\* A method without parameters, one with an integer, one with both types.
SomeMethods == 1 :> <<"bytes", "uint">> @@ 2 :> <<>> @@ 11 :> <<"uint">>
=============================================================================
