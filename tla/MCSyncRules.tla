----------------------------- MODULE MCSyncRules -----------------------------
(***************************************************************************)
(* The rules over a small instance: four addresses, one of them gmail and  *)
(* one an example.  The removal fuse has a floor of one and a share of one *)
(* half: a group of one or two is held to the floor, one of three or four  *)
(* to the share, which lets two go and never more.                         *)
(***************************************************************************)
EXTENDS SyncRulesReference
=============================================================================
