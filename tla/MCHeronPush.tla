---------------------------- MODULE MCHeronPush ----------------------------
(***************************************************************************)
(* Small instances of HeronPush for TLC: the rows and the bounds are given *)
(* in the .cfg.                                                            *)
(***************************************************************************)
EXTENDS HeronPush
=============================================================================
