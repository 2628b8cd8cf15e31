------------------------------- MODULE MCViews ------------------------------
(***************************************************************************)
(* Views on the instances of MCServer.                                     *)
(***************************************************************************)
EXTENDS Views, MCServer
=============================================================================
