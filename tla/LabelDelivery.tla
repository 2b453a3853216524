---------------------------- MODULE LabelDelivery ----------------------------
(***************************************************************************)
(* What the outbox promises of each label, with no rows, loops or requests *)
(* in it (labels.py:1, "Outbox-style label emission").  A label is asked   *)
(* for once and may then be put in force, more than once for all anybody   *)
(* knows; it is confirmed only after that, taken back only on an           *)
(* operator's word, and the operator can name only labels that were in     *)
(* force.  LabelOutbox implements this for any number of outboxes, with    *)
(* timeouts, crashes and requests that arrive late.                        *)
(***************************************************************************)
CONSTANT Labels

VARIABLES
  asked,       \* somebody wants the label
  given,       \* it has been put in force at least once
  confirmed,   \* the table says that it was
  retracted,   \* an operator wants it taken back
  live         \* it is in force

vars == <<asked, given, confirmed, retracted, live>>

Init == asked = {} /\ given = {} /\ confirmed = {} /\ retracted = {} /\ live = {}

Ask(l) ==
  /\ asked' = asked \cup {l}
  /\ UNCHANGED <<given, confirmed, retracted, live>>

PutInForce(l) ==
  /\ l \in asked
  /\ live' = live \cup {l} /\ given' = given \cup {l}
  /\ UNCHANGED <<asked, confirmed, retracted>>

Confirm(l) ==
  /\ l \in given
  /\ confirmed' = confirmed \cup {l}
  /\ UNCHANGED <<asked, given, retracted, live>>

\* A second outbox may overwrite "emitted" with what became of its own attempt.
Forget(l) ==
  /\ confirmed' = confirmed \ {l}
  /\ UNCHANGED <<asked, given, retracted, live>>

Retract(ls) ==
  /\ ls \subseteq confirmed
  /\ retracted' = retracted \cup ls
  /\ UNCHANGED <<asked, given, confirmed, live>>

TakeBack(l) ==
  /\ l \in retracted
  /\ live' = live \ {l}
  /\ UNCHANGED <<asked, given, confirmed, retracted>>

Next ==
  \/ \E l \in Labels : Ask(l) \/ PutInForce(l) \/ Confirm(l) \/ Forget(l) \/ TakeBack(l)
  \/ \E ls \in SUBSET Labels : Retract(ls)

Spec == Init /\ [][Next]_vars
=============================================================================
