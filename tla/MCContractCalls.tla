-------------------------- MODULE MCContractCalls ---------------------------
(***************************************************************************)
(* Two contracts for TLC, each with one StorageType member of a name of    *)
(* its own.  A also delegates to B's code, which then uses the cell        *)
(* <<"A", "total">>.                                                       *)
(***************************************************************************)
EXTENDS ContractCalls

Contracts == {"A", "B"}

OwnKeys == Contracts \X {"count", "total"}

OwnCell ==
  [p \in Contracts \X Contracts |->
     <<p[1], IF p[2] = "A" THEN "count" ELSE "total">>]

AToB == {<<"A", "B">>}
=============================================================================
