--------------------------- MODULE MCLabelOutbox ---------------------------
(***************************************************************************)
(* Small instances of LabelOutbox for TLC: the labels, the outboxes and    *)
(* the bounds are given in each .cfg.                                      *)
(***************************************************************************)
EXTENDS LabelOutbox, TLC

\* Labels are told apart by nothing but their rows.
Symmetry == Permutations(Labels)
=============================================================================
