--------------------------- MODULE MCFileServing ---------------------------
(***************************************************************************)
(* Readers over the events of MCRelayStore.                                *)
(***************************************************************************)
EXTENDS FileServing, MCRelayStore
=============================================================================
