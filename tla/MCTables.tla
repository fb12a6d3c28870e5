------------------------------ MODULE MCTables ------------------------------
(***************************************************************************)
(* DbMap and Authority, the two components that TableProofs is about, for  *)
(* TLC.  They share no variable and no key of the chain, so that letting   *)
(* them interleave would only multiply their states: a behaviour here is   *)
(* one of either, which the other one lets pass in its initial state.      *)
(***************************************************************************)
EXTENDS DbMap, Authority

TablesInit == Init /\ AuthorityInit

MapNext == AuthorityInit /\ CarefulNext /\ UNCHANGED authorityVars

OwnerNext == Init /\ chain = NoKeys /\ AuthorityNext /\ UNCHANGED vars

TablesNext == MapNext \/ OwnerNext

TablesSpec == TablesInit /\ [][TablesNext]_<<vars, authorityVars>>
=============================================================================
