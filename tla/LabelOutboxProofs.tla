--------------------------- MODULE LabelOutboxProofs ---------------------------
(***************************************************************************)
(* What holds of LabelOutbox for any labels, any number of outboxes and    *)
(* any bounds: types, that an emitted label is in force until it is        *)
(* negated, and that only labels that were given are taken back.           *)
(***************************************************************************)
EXTENDS LabelOutbox, FiniteSetTheorems, TLAPS

\* A row of the table is a label and a flag.
LEMMA RowsAreKeys ==
  /\ \A l \in Labels, neg \in BOOLEAN : Row(l, neg) \in Keys /\ Row(l, neg)[1] = l /\ Row(l, neg)[2] = neg
  /\ \A k \in Keys : k[1] \in Labels /\ k[2] \in BOOLEAN /\ k = Row(k[1], k[2])
  BY DEF Keys, Row

\* Rows can be counted: ids are numbers.
LEMMA IdsAreNumbers == LastId \in Nat
<1>1. IsFiniteSet(BOOLEAN)
  <2>1. BOOLEAN = {TRUE} \cup {FALSE}
    OBVIOUS
  <2>2. IsFiniteSet({TRUE}) /\ IsFiniteSet({FALSE})
    BY FS_Singleton, Zenon
  <2>3. IsFiniteSet({TRUE} \cup {FALSE})
    BY <2>2, FS_Union
  <2> QED BY <2>1, <2>3, Zenon
<1>2. IsFiniteSet(Keys)
  BY <1>1, LabelsFinite, FS_Product DEF Keys
<1>3. IsFiniteSet({k \in Keys : status[k] # "none"})
  BY <1>2, FS_Subset
<1> QED BY <1>3, FS_CardinalityType DEF LastId

-----------------------------------------------------------------------------
(* Types. *)

LEMMA TypeInit == Init => TypeOK
  BY BoundTypes DEF Init, TypeOK, Statuses

LEMMA TypeStep == TypeOK /\ [Next]_vars => TypeOK'
<1> SUFFICES ASSUME TypeOK, [Next]_vars PROVE TypeOK'
  OBVIOUS
<1>1. ASSUME NEW p \in Procs, NEW l \in Labels, EnqueueLabel(p, l) PROVE TypeOK'
  <2>1. Row(l, FALSE) \in Keys
    BY RowsAreKeys
  <2>2. LastId + 1 \in Nat
    BY IdsAreNumbers
  <2>3. (IF emit[p] THEN "pending" ELSE "shadow") \in Statuses
    BY DEF Statuses
  <2>4. status' \in [Keys -> Statuses]
    BY <1>1, <2>1, <2>3 DEF TypeOK, EnqueueLabel
  <2>5. id' \in [Keys -> Nat]
    BY <1>1, <2>1, <2>2 DEF TypeOK, EnqueueLabel
  <2> QED BY <1>1, <2>4, <2>5 DEF TypeOK, EnqueueLabel, loop, ozone, bounds
<1>2. ASSUME NEW ls \in SUBSET Labels, Negate(ls) PROVE TypeOK'
  <2>1. Negatable(ls) \subseteq Labels /\ IsFiniteSet(Negatable(ls))
    BY LabelsFinite, FS_Subset DEF Negatable
  <2>2. Cardinality(Negatable(ls)) \in Nat
    BY <2>1, FS_CardinalityType
  <2>3. LastId + 1 .. LastId + Cardinality(Negatable(ls)) \subseteq Nat
    BY <2>2, IdsAreNumbers
  <2>4. status' \in [Keys -> Statuses]
    BY <1>2 DEF TypeOK, Negate, Statuses
  <2>5. id' \in [Keys -> Nat]
    BY <1>2, <2>3 DEF TypeOK, Negate
  <2>6. scripts' \in Nat
    BY <1>2 DEF TypeOK, Negate
  <2> QED BY <1>2, <2>4, <2>5, <2>6 DEF TypeOK, Negate, loop, ozone
<1>3. ASSUME NEW ls \in SUBSET Labels, Promote(ls) PROVE TypeOK'
  BY <1>3 DEF TypeOK, Promote, Statuses, loop, ozone
<1>4. ASSUME NEW o \in Outboxes, ClaimPending(o) PROVE TypeOK'
  BY <1>4 DEF TypeOK, ClaimPending, PendingKeys, rows, ozone, bounds
<1>5. ASSUME NEW o \in Outboxes, Send(o) PROVE TypeOK'
  BY <1>5, NoKeyIsNoRow DEF TypeOK, Send, rows, ozone, bounds
<1>6. ASSUME NEW o \in Outboxes, OzoneApplies(o) PROVE TypeOK'
  <2>1. cur[o] \in Keys
    BY <1>6 DEF TypeOK, OzoneApplies
  <2>2. live' \subseteq Labels /\ applied' \in [Keys -> Nat]
    BY <1>6, <2>1, RowsAreKeys DEF TypeOK, OzoneApplies, Apply
  <2> QED BY <1>6, <2>1, <2>2 DEF TypeOK, OzoneApplies, rows, bounds
<1>7. ASSUME NEW o \in Outboxes, OzoneRejects(o) PROVE TypeOK'
  BY <1>7 DEF TypeOK, OzoneRejects, rows, ozone, bounds
<1>8. ASSUME NEW k \in Keys, StrayApplies(k) PROVE TypeOK'
  <2>1. live' \subseteq Labels /\ applied' \in [Keys -> Nat]
    BY <1>8, RowsAreKeys DEF TypeOK, StrayApplies, Apply
  <2>2. stray' \in [Keys -> Nat]
    BY <1>8 DEF TypeOK, StrayApplies
  <2> QED BY <1>8, <2>1, <2>2 DEF TypeOK, StrayApplies, rows, loop, bounds
<1>9. ASSUME NEW k \in Keys, StrayVanishes(k) PROVE TypeOK'
  BY <1>9 DEF TypeOK, StrayVanishes, rows, loop, bounds
<1>10. ASSUME NEW o \in Outboxes, MarkEmitted(o) \/ MarkFailed(o) PROVE TypeOK'
  BY <1>10 DEF TypeOK, MarkEmitted, MarkFailed, Record, Statuses, ozone, bounds
<1>11. ASSUME NEW o \in Outboxes, Crash(o) PROVE TypeOK'
  BY <1>11 DEF TypeOK, Crash, Abort, rows
<1>12. ASSUME NEW p \in Procs, Restart(p) PROVE TypeOK'
  <2>1. CASE p \in Outboxes
    BY <1>12, <2>1 DEF TypeOK, Restart, Abort, rows
  <2>2. CASE p \notin Outboxes
    BY <1>12, <2>2 DEF TypeOK, Restart, rows, loop, ozone
  <2> QED BY <2>1, <2>2
<1>13. CASE UNCHANGED vars
  BY <1>13 DEF TypeOK, vars, rows, loop, ozone, bounds
<1> QED BY <1>1, <1>2, <1>3, <1>4, <1>5, <1>6, <1>7, <1>8, <1>9, <1>10, <1>11, <1>12, <1>13
        DEF Next, Deliver

\* Types are right in every reachable state, and a loop that is past its claim has
\* a row or a batch (deliver_pending).
THEOREM OutboxTypes == Spec => []TypeOK
  BY TypeInit, TypeStep, PTL DEF Spec

-----------------------------------------------------------------------------
(* The argument for the two safety theorems.  A request exists only for a  *)
(* row that exists, so before a negation row is written nothing can take   *)
(* the label back; and a row is marked emitted only by a loop that was     *)
(* answered, so an emitted label has been applied.                         *)

\* Rows in a batch, at hand or on the wire are rows of the table.
RequestsHaveRows ==
  /\ \A k \in Keys : stray[k] > 0 => status[k] # "none"
  /\ \A o \in Outboxes : \A k \in claimed[o] : status[k] # "none"
  /\ \A o \in Outboxes : cur[o] # NoKey => status[cur[o]] # "none"

AnsweredWasApplied == \A o \in Outboxes : pc[o] = "ok" => applied[cur[o]] > 0

EmittedWasApplied == \A k \in Keys : status[k] = "emitted" => applied[k] > 0

AppliedIsLive ==
  \A l \in Labels :
    applied[Row(l, FALSE)] > 0 /\ status[Row(l, TRUE)] = "none" => l \in live

IInv ==
  /\ TypeOK /\ RequestsHaveRows /\ AnsweredWasApplied /\ EmittedWasApplied
  /\ NegationFollowsLabel /\ AppliedIsLive

LEMMA InvInit == Init => IInv
<1> SUFFICES ASSUME Init PROVE IInv
  OBVIOUS
<1>1. TypeOK
  BY TypeInit
<1>2. RequestsHaveRows /\ AnsweredWasApplied /\ EmittedWasApplied
  BY DEF Init, RequestsHaveRows, AnsweredWasApplied, EmittedWasApplied
<1>3. NegationFollowsLabel /\ AppliedIsLive
  <2> SUFFICES ASSUME NEW l \in Labels
               PROVE  status[Row(l, TRUE)] = "none" /\ ~(applied[Row(l, FALSE)] > 0)
    BY DEF NegationFollowsLabel, AppliedIsLive
  <2>1. Row(l, FALSE) \in Keys /\ Row(l, TRUE) \in Keys
    BY RowsAreKeys
  <2>2. status[Row(l, TRUE)] = "none" /\ applied[Row(l, FALSE)] = 0
    BY <2>1 DEF Init
  <2> QED BY <2>2
<1> QED BY <1>1, <1>2, <1>3 DEF IInv

\* Scripts and services only add rows, and none of them is born emitted.
LEMMA WritersKeepInv ==
  ASSUME IInv,
         \/ \E p \in Procs, l \in Labels : EnqueueLabel(p, l)
         \/ \E ls \in SUBSET Labels : Negate(ls) \/ Promote(ls)
  PROVE  /\ RequestsHaveRows' /\ AnsweredWasApplied' /\ EmittedWasApplied'
         /\ NegationFollowsLabel' /\ AppliedIsLive'
<1>1. UNCHANGED <<pc, claimed, cur, stray, live, applied>>
  BY DEF EnqueueLabel, Negate, Promote, loop, ozone
<1>2. \A k \in Keys : status[k] # "none" => status'[k] # "none"
  <2>1. ASSUME NEW p \in Procs, NEW l \in Labels, EnqueueLabel(p, l)
        PROVE  \A k \in Keys : status[k] # "none" => status'[k] # "none"
    BY <2>1, RowsAreKeys DEF EnqueueLabel, IInv, TypeOK
  <2>2. ASSUME NEW ls \in SUBSET Labels, Negate(ls) \/ Promote(ls)
        PROVE  \A k \in Keys : status[k] # "none" => status'[k] # "none"
    BY <2>2 DEF Negate, Promote
  <2> QED BY <2>1, <2>2
<1>3. \A k \in Keys : status'[k] = "emitted" => status[k] = "emitted"
  <2>1. ASSUME NEW p \in Procs, NEW l \in Labels, EnqueueLabel(p, l)
        PROVE  \A k \in Keys : status'[k] = "emitted" => status[k] = "emitted"
    BY <2>1, RowsAreKeys DEF EnqueueLabel, IInv, TypeOK
  <2>2. ASSUME NEW ls \in SUBSET Labels, Negate(ls) \/ Promote(ls)
        PROVE  \A k \in Keys : status'[k] = "emitted" => status[k] = "emitted"
    BY <2>2 DEF Negate, Promote
  <2> QED BY <2>1, <2>2
<1>4. \A l \in Labels : status'[Row(l, TRUE)] # "none" =>
        status[Row(l, TRUE)] # "none" \/ status[Row(l, FALSE)] = "emitted"
  <2> SUFFICES ASSUME NEW l \in Labels, status'[Row(l, TRUE)] # "none"
               PROVE  status[Row(l, TRUE)] # "none" \/ status[Row(l, FALSE)] = "emitted"
    OBVIOUS
  <2>1. Row(l, TRUE) \in Keys /\ Row(l, TRUE)[1] = l /\ Row(l, TRUE)[2] = TRUE
    BY RowsAreKeys
  <2>2. ASSUME NEW p \in Procs, NEW m \in Labels, EnqueueLabel(p, m)
        PROVE  status[Row(l, TRUE)] # "none"
    <3>1. Row(m, FALSE) # Row(l, TRUE)
      BY DEF Row
    <3> QED BY <2>1, <2>2, <3>1 DEF EnqueueLabel, IInv, TypeOK
  <2>3. ASSUME NEW ls \in SUBSET Labels, Negate(ls)
        PROVE  status[Row(l, TRUE)] # "none" \/ status[Row(l, FALSE)] = "emitted"
    BY <2>1, <2>3 DEF Negate, Negatable
  <2>4. ASSUME NEW ls \in SUBSET Labels, Promote(ls) PROVE status[Row(l, TRUE)] # "none"
    BY <2>1, <2>4 DEF Promote, Promotable
  <2> QED BY <2>2, <2>3, <2>4
<1>5. RequestsHaveRows'
  BY <1>1, <1>2 DEF RequestsHaveRows, IInv, TypeOK
<1>6. AnsweredWasApplied' /\ EmittedWasApplied'
  BY <1>1, <1>3 DEF AnsweredWasApplied, EmittedWasApplied, IInv
<1>7. NegationFollowsLabel'
  BY <1>1, <1>4, RowsAreKeys DEF NegationFollowsLabel, EmittedWasApplied, IInv
<1>8. AppliedIsLive'
  BY <1>1, <1>2, RowsAreKeys DEF AppliedIsLive, IInv
<1> QED BY <1>5, <1>6, <1>7, <1>8

\* Applying a row that exists keeps the invariant's facts about Ozone.
LEMMA ApplyKeepsLive ==
  ASSUME IInv, NEW k \in Keys, status[k] # "none", Apply(k), UNCHANGED status
  PROVE  /\ EmittedWasApplied' /\ NegationFollowsLabel' /\ AppliedIsLive'
         /\ applied'[k] > 0 /\ \A j \in Keys : applied[j] > 0 => applied'[j] > 0
<1>1. /\ applied'[k] > 0 /\ \A j \in Keys : applied[j] > 0 => applied'[j] > 0
      /\ \A j \in Keys \ {k} : applied'[j] = applied[j]
  BY DEF Apply, IInv, TypeOK
<1>2. EmittedWasApplied' /\ NegationFollowsLabel'
  BY <1>1, RowsAreKeys DEF EmittedWasApplied, NegationFollowsLabel, IInv
<1>3. AppliedIsLive'
  <2> SUFFICES ASSUME NEW l \in Labels, applied'[Row(l, FALSE)] > 0, status[Row(l, TRUE)] = "none"
               PROVE  l \in live'
    BY DEF AppliedIsLive
  <2>1. Row(l, FALSE) \in Keys /\ Row(l, TRUE) \in Keys /\ k = Row(k[1], k[2]) /\ k[2] \in BOOLEAN
    BY RowsAreKeys
  <2>2. CASE k = Row(l, FALSE)
    BY <2>2 DEF Apply, Row
  <2>3. CASE k # Row(l, FALSE)
    <3>1. l \in live
      BY <1>1, <2>1, <2>3 DEF AppliedIsLive, IInv
    <3>2. k # Row(l, TRUE)
      OBVIOUS
    <3>3. ~k[2] \/ k[1] # l
      <4>1. CASE k[2] = TRUE
        BY <2>1, <3>2, <4>1
      <4>2. CASE k[2] = FALSE
        BY <4>2
      <4> QED BY <2>1, <4>1, <4>2
    <3> QED BY <3>1, <3>3 DEF Apply
  <2> QED BY <2>2, <2>3
<1> QED BY <1>1, <1>2, <1>3

\* The loop's own steps send rows that exist, mark what was answered, and never
\* un-write a row.
LEMMA LoopKeepsInv ==
  ASSUME IInv, NEW o \in Outboxes, Deliver(o)
  PROVE  /\ RequestsHaveRows' /\ AnsweredWasApplied' /\ EmittedWasApplied'
         /\ NegationFollowsLabel' /\ AppliedIsLive'
<1>1. CASE ClaimPending(o)
  <2>1. UNCHANGED <<status, cur, stray, live, applied>>
    BY <1>1 DEF ClaimPending, rows, ozone
  <2>2. /\ \A q \in Outboxes : \A k \in claimed'[q] : status[k] # "none"
        /\ \A q \in Outboxes : pc'[q] = "ok" => pc[q] = "ok"
    BY <1>1 DEF ClaimPending, PendingKeys, IInv, TypeOK, RequestsHaveRows
  <2> QED BY <2>1, <2>2 DEF IInv, RequestsHaveRows, AnsweredWasApplied,
             EmittedWasApplied, NegationFollowsLabel, AppliedIsLive
<1>2. CASE Send(o)
  <2>1. UNCHANGED <<status, stray, live, applied>>
    BY <1>2 DEF Send, rows, ozone
  <2>2. /\ \A q \in Outboxes : \A k \in claimed'[q] : status[k] # "none"
        /\ \A q \in Outboxes : cur'[q] # NoKey => status[cur'[q]] # "none"
        /\ \A q \in Outboxes : pc'[q] = "ok" => pc[q] = "ok" /\ cur'[q] = cur[q]
    BY <1>2 DEF Send, IInv, TypeOK, RequestsHaveRows
  <2> QED BY <2>1, <2>2 DEF IInv, RequestsHaveRows, AnsweredWasApplied,
             EmittedWasApplied, NegationFollowsLabel, AppliedIsLive
<1>3. CASE OzoneApplies(o)
  <2>1. cur[o] \in Keys /\ status[cur[o]] # "none"
    BY <1>3 DEF OzoneApplies, IInv, TypeOK, RequestsHaveRows
  <2>2. UNCHANGED <<status, claimed, cur, stray>>
    BY <1>3 DEF OzoneApplies, rows
  <2>3. /\ EmittedWasApplied' /\ NegationFollowsLabel' /\ AppliedIsLive'
        /\ applied'[cur[o]] > 0 /\ \A j \in Keys : applied[j] > 0 => applied'[j] > 0
    BY <1>3, <2>1, <2>2, ApplyKeepsLive DEF OzoneApplies
  <2>4. RequestsHaveRows'
    BY <2>2 DEF RequestsHaveRows, IInv
  <2>5. AnsweredWasApplied'
    <3>1. \A q \in Outboxes \ {o} : pc'[q] = pc[q]
      BY <1>3 DEF OzoneApplies, IInv, TypeOK
    <3>2. \A q \in Outboxes : pc[q] = "ok" => cur[q] \in Keys
      BY DEF IInv, TypeOK
    <3> QED BY <2>2, <2>3, <3>1, <3>2 DEF AnsweredWasApplied, IInv
  <2> QED BY <2>3, <2>4, <2>5
<1>4. CASE OzoneRejects(o)
  <2>1. UNCHANGED <<status, claimed, cur, stray, live, applied>>
    BY <1>4 DEF OzoneRejects, rows, ozone
  <2>2. \A q \in Outboxes : pc'[q] = "ok" => pc[q] = "ok"
    BY <1>4 DEF OzoneRejects, IInv, TypeOK
  <2> QED BY <2>1, <2>2 DEF IInv, RequestsHaveRows, AnsweredWasApplied,
             EmittedWasApplied, NegationFollowsLabel, AppliedIsLive
<1>5. CASE MarkEmitted(o) \/ MarkFailed(o)
  <2>1. UNCHANGED <<claimed, stray, live, applied>>
    BY <1>5 DEF MarkEmitted, MarkFailed, Record, ozone
  <2>2. cur[o] \in Keys /\ status[cur[o]] # "none"
    BY <1>5 DEF MarkEmitted, MarkFailed, IInv, TypeOK, RequestsHaveRows
  <2>3. \A k \in Keys : status'[k] = "none" <=> status[k] = "none"
    BY <1>5, <2>2 DEF MarkEmitted, MarkFailed, Record, IInv, TypeOK
  <2>4. \A q \in Outboxes : /\ cur'[q] # NoKey => cur'[q] = cur[q]
                            /\ pc'[q] = "ok" => pc[q] = "ok" /\ cur'[q] = cur[q]
    BY <1>5 DEF MarkEmitted, MarkFailed, Record, IInv, TypeOK
  <2>5. RequestsHaveRows'
    BY <2>1, <2>3, <2>4 DEF RequestsHaveRows, IInv, TypeOK
  <2>6. AnsweredWasApplied'
    BY <2>1, <2>4 DEF AnsweredWasApplied, IInv
  <2>7. EmittedWasApplied'
    <3>1. \A k \in Keys \ {cur[o]} : status'[k] = status[k]
      BY <1>5 DEF MarkEmitted, MarkFailed, Record, IInv, TypeOK
    <3>2. status'[cur[o]] = "emitted" => applied[cur[o]] > 0
      BY <1>5, <2>2 DEF MarkEmitted, MarkFailed, Record, IInv, TypeOK, AnsweredWasApplied
    <3> QED BY <2>1, <3>1, <3>2 DEF EmittedWasApplied, IInv
  <2>8. NegationFollowsLabel' /\ AppliedIsLive'
    BY <2>1, <2>3, RowsAreKeys DEF NegationFollowsLabel, AppliedIsLive, IInv
  <2> QED BY <2>5, <2>6, <2>7, <2>8
<1> QED BY <1>1, <1>2, <1>3, <1>4, <1>5 DEF Deliver

\* Dropping a batch forgets rows or leaves a request for one on the wire.
LEMMA AbortKeepsInv ==
  ASSUME IInv, NEW o \in Outboxes, Abort(o)
  PROVE  /\ RequestsHaveRows' /\ AnsweredWasApplied' /\ EmittedWasApplied'
         /\ NegationFollowsLabel' /\ AppliedIsLive'
<1>1. UNCHANGED <<status, live, applied>>
  BY DEF Abort, rows
<1>2. \A q \in Outboxes : /\ claimed'[q] \subseteq claimed[q]
                          /\ cur'[q] # NoKey => cur'[q] = cur[q]
                          /\ pc'[q] = "ok" => pc[q] = "ok" /\ cur'[q] = cur[q]
  BY DEF Abort, IInv, TypeOK
<1>3. \A k \in Keys : stray'[k] > 0 => status[k] # "none"
  <2>1. CASE pc[o] = "wait"
    <3>1. cur[o] \in Keys /\ status[cur[o]] # "none"
      BY <2>1 DEF IInv, TypeOK, RequestsHaveRows
    <3>2. \A k \in Keys \ {cur[o]} : stray'[k] = stray[k]
      BY <2>1 DEF Abort, IInv, TypeOK
    <3> QED BY <3>1, <3>2 DEF IInv, RequestsHaveRows
  <2>2. CASE pc[o] # "wait"
    BY <2>2 DEF Abort, IInv, RequestsHaveRows
  <2> QED BY <2>1, <2>2
<1>4. RequestsHaveRows'
  BY <1>1, <1>2, <1>3 DEF RequestsHaveRows, IInv
<1> QED BY <1>1, <1>2, <1>4 DEF IInv, AnsweredWasApplied, EmittedWasApplied,
           NegationFollowsLabel, AppliedIsLive

LEMMA InvStep == IInv /\ [Next]_vars => IInv'
<1> SUFFICES ASSUME IInv, [Next]_vars PROVE IInv'
  OBVIOUS
<1>1. TypeOK'
  BY TypeStep DEF IInv
<1> DEFINE Rest == /\ RequestsHaveRows /\ AnsweredWasApplied /\ EmittedWasApplied
                   /\ NegationFollowsLabel /\ AppliedIsLive
<1>2. ASSUME NEW p \in Procs, NEW l \in Labels, EnqueueLabel(p, l) PROVE Rest'
  BY <1>2, WritersKeepInv
<1>3. ASSUME NEW ls \in SUBSET Labels, Negate(ls) \/ Promote(ls) PROVE Rest'
  BY <1>3, WritersKeepInv
<1>4. ASSUME NEW o \in Outboxes, Deliver(o) PROVE Rest'
  BY <1>4, LoopKeepsInv
<1>5. ASSUME NEW o \in Outboxes, Crash(o) PROVE Rest'
  BY <1>5, AbortKeepsInv DEF Crash
<1>6. ASSUME NEW k \in Keys, StrayApplies(k) PROVE Rest'
  <2>1. UNCHANGED <<status, pc, claimed, cur>> /\ status[k] # "none"
    BY <1>6 DEF StrayApplies, rows, loop, IInv, RequestsHaveRows
  <2>2. /\ EmittedWasApplied' /\ NegationFollowsLabel' /\ AppliedIsLive'
        /\ \A j \in Keys : applied[j] > 0 => applied'[j] > 0
    BY <1>6, <2>1, ApplyKeepsLive DEF StrayApplies
  <2>3. RequestsHaveRows'
    BY <1>6, <2>1 DEF StrayApplies, RequestsHaveRows, IInv, TypeOK
  <2>4. AnsweredWasApplied'
    <3>1. \A q \in Outboxes : pc[q] = "ok" => cur[q] \in Keys
      BY DEF IInv, TypeOK
    <3> QED BY <2>1, <2>2, <3>1 DEF AnsweredWasApplied, IInv
  <2> QED BY <2>2, <2>3, <2>4
<1>7. ASSUME NEW k \in Keys, StrayVanishes(k) PROVE Rest'
  <2>1. UNCHANGED <<status, pc, claimed, cur, live, applied>>
    BY <1>7 DEF StrayVanishes, rows, loop
  <2>2. \A j \in Keys : stray'[j] > 0 => stray[j] > 0
    BY <1>7 DEF StrayVanishes, IInv, TypeOK
  <2> QED BY <2>1, <2>2 DEF IInv, RequestsHaveRows, AnsweredWasApplied,
             EmittedWasApplied, NegationFollowsLabel, AppliedIsLive
<1>8. ASSUME NEW p \in Procs, Restart(p) PROVE Rest'
  <2>1. CASE p \in Outboxes
    BY <1>8, <2>1, AbortKeepsInv DEF Restart
  <2>2. CASE p \notin Outboxes
    <3>1. UNCHANGED <<status, pc, claimed, cur, stray, live, applied>>
      BY <1>8, <2>2 DEF Restart, rows, loop, ozone
    <3> QED BY <3>1 DEF IInv, RequestsHaveRows, AnsweredWasApplied,
               EmittedWasApplied, NegationFollowsLabel, AppliedIsLive
  <2> QED BY <2>1, <2>2
<1>9. ASSUME UNCHANGED vars PROVE Rest'
  <2>1. UNCHANGED <<status, pc, claimed, cur, stray, live, applied>>
    BY <1>9 DEF vars, rows, loop, ozone
  <2>2. RequestsHaveRows' /\ AnsweredWasApplied' /\ EmittedWasApplied'
    BY <2>1 DEF IInv, RequestsHaveRows, AnsweredWasApplied, EmittedWasApplied
  <2>3. NegationFollowsLabel' /\ AppliedIsLive'
    BY <2>1 DEF IInv, NegationFollowsLabel, AppliedIsLive
  <2> QED BY <2>2, <2>3
<1> HIDE DEF Rest
<1>10. ASSUME Next PROVE Rest'
  BY <1>2, <1>3, <1>4, <1>5, <1>6, <1>7, <1>8, <1>10 DEF Next
<1>11. Rest'
  BY <1>9, <1>10
<1> QED BY <1>1, <1>11 DEF IInv, Rest

LEMMA InvHolds == Spec => []IInv
  BY InvInit, InvStep, PTL DEF Spec

-----------------------------------------------------------------------------
\* What the table calls emitted is in force at Ozone until a negation row is
\* written, however many outboxes run and whatever times out or crashes
\* (labels.py, _mark_emitted).
THEOREM EmittedStaysLive == Spec => []EmittedIsLive
<1>1. IInv => EmittedIsLive
  BY RowsAreKeys DEF IInv, EmittedWasApplied, AppliedIsLive, EmittedIsLive
<1> QED BY <1>1, InvHolds, PTL

\* Ozone is asked to take back only labels it was given (negate_labels.py, negate).
THEOREM NegationsFollow == Spec => []NegationFollowsLabel
<1>1. IInv => NegationFollowsLabel
  BY DEF IInv
<1> QED BY <1>1, InvHolds, PTL

-----------------------------------------------------------------------------
(* The refinement: every step of the outbox, of a script or of the network *)
(* is one step of LabelDelivery, or none.                                  *)

abstract == <<Asked, Given, Confirmed, Retracted, live>>

\* The abstract state is read off status, applied and live.
LEMMA AbstractUnchanged ==
  ASSUME UNCHANGED <<status, applied, live>> PROVE UNCHANGED abstract
  BY DEF abstract, Asked, Given, Confirmed, Retracted

\* A request that takes effect puts its label in force, or takes it back.
LEMMA ApplyDelivers ==
  ASSUME IInv, NEW k \in Keys, status[k] # "none", Apply(k), UNCHANGED status
  PROVE  Delivery!Next
<1> DEFINE l == k[1]
<1>1. l \in Labels /\ k[2] \in BOOLEAN /\ k = Row(l, k[2])
  BY RowsAreKeys
<1>2. UNCHANGED <<Asked, Confirmed, Retracted>>
  BY DEF Asked, Confirmed, Retracted
<1>3. \A j \in Keys : applied'[j] = IF j = k THEN applied[j] + 1 ELSE applied[j]
  BY DEF Apply, IInv, TypeOK
<1>4. CASE ~k[2]
  <2>1. k = Row(l, FALSE) /\ l \in Asked
    BY <1>1, <1>4 DEF Asked
  <2>2. live' = live \cup {l}
    BY <1>4 DEF Apply
  <2>3. Given' = Given \cup {l}
    <3>1. \A m \in Labels : Row(m, FALSE) \in Keys /\ (Row(m, FALSE) = k <=> m = l)
      BY <2>1, RowsAreKeys DEF Row
    <3>2. applied[k] + 1 > 0
      BY DEF IInv, TypeOK
    <3> QED BY <1>3, <3>1, <3>2, <1>1 DEF Given
  <2> QED BY <1>1, <1>2, <2>1, <2>2, <2>3 DEF Delivery!Next, Delivery!PutInForce
<1>5. CASE k[2]
  <2>1. k = Row(l, TRUE) /\ l \in Retracted
    BY <1>1, <1>5 DEF Retracted
  <2>2. live' = live \ {l}
    BY <1>5 DEF Apply
  <2>3. UNCHANGED Given
    <3>1. \A m \in Labels : Row(m, FALSE) \in Keys /\ Row(m, FALSE) # k
      BY <2>1, RowsAreKeys DEF Row
    <3> QED BY <1>3, <3>1 DEF Given
  <2> QED BY <1>1, <1>2, <2>1, <2>2, <2>3 DEF Delivery!Next, Delivery!TakeBack
<1> QED BY <1>1, <1>4, <1>5

\* Recording an outcome confirms a label that was in force, forgets a confirmation,
\* or is about a negation.
LEMMA RecordDelivers ==
  ASSUME IInv, NEW o \in Outboxes, MarkEmitted(o) \/ MarkFailed(o)
  PROVE  Delivery!Next \/ UNCHANGED abstract
<1> DEFINE k == cur[o]
           l == k[1]
<1>1. k \in Keys /\ status[k] # "none" /\ l \in Labels /\ k[2] \in BOOLEAN /\ k = Row(l, k[2])
  BY RowsAreKeys DEF MarkEmitted, MarkFailed, IInv, TypeOK, RequestsHaveRows
<1>2. UNCHANGED <<applied, live>>
  BY DEF MarkEmitted, MarkFailed, Record, ozone
<1>3. UNCHANGED Given
  BY <1>2 DEF Given
<1>4. \E outcome \in {"emitted", "failed"} :
        /\ \A j \in Keys : status'[j] = IF j = k THEN outcome ELSE status[j]
        /\ outcome = "emitted" => applied[k] > 0
  BY <1>1 DEF MarkEmitted, MarkFailed, Record, IInv, TypeOK, AnsweredWasApplied
<1>5. UNCHANGED <<Asked, Retracted>>
  <2>1. \A j \in Keys : status'[j] = "none" <=> status[j] = "none"
    BY <1>1, <1>4
  <2> QED BY <2>1, RowsAreKeys DEF Asked, Retracted
<1>6. CASE k[2]
  <2>1. \A m \in Labels : Row(m, FALSE) \in Keys /\ Row(m, FALSE)[2] = FALSE
    BY RowsAreKeys
  <2>2. UNCHANGED Confirmed
    BY <1>4, <1>6, <2>1 DEF Confirmed
  <2> QED BY <1>2, <1>3, <1>5, <2>2 DEF abstract
<1>7. CASE ~k[2]
  <2>1. \A m \in Labels : Row(m, FALSE) \in Keys /\ (Row(m, FALSE) = k <=> m = l)
    BY <1>1, <1>7, RowsAreKeys DEF Row
  <2>2. CASE status'[k] = "emitted"
    <3>1. l \in Given
      BY <1>1, <1>4, <2>1, <2>2 DEF Given
    <3>2. Confirmed' = Confirmed \cup {l}
      BY <1>1, <1>4, <2>1, <2>2 DEF Confirmed
    <3> QED BY <1>1, <1>2, <1>3, <1>5, <3>1, <3>2 DEF Delivery!Next, Delivery!Confirm
  <2>3. CASE status'[k] # "emitted"
    <3>1. Confirmed' = Confirmed \ {l}
      BY <1>1, <1>4, <2>1, <2>3 DEF Confirmed
    <3> QED BY <1>1, <1>2, <1>3, <1>5, <3>1 DEF Delivery!Next, Delivery!Forget
  <2> QED BY <2>2, <2>3
<1> QED BY <1>1, <1>6, <1>7

\* Writing rows asks for a label, retracts confirmed ones, or changes nothing of this.
LEMMA WritersDeliver ==
  ASSUME IInv,
         \/ \E p \in Procs, l \in Labels : EnqueueLabel(p, l)
         \/ \E ls \in SUBSET Labels : Negate(ls) \/ Promote(ls)
  PROVE  Delivery!Next \/ UNCHANGED abstract
<1>1. ASSUME NEW p \in Procs, NEW l \in Labels, EnqueueLabel(p, l) PROVE Delivery!Next
  <2>1. UNCHANGED <<applied, live>> /\ UNCHANGED Given
    BY <1>1 DEF EnqueueLabel, ozone, Given
  <2>2. \A j \in Keys : status'[j] = IF j = Row(l, FALSE) THEN (IF emit[p] THEN "pending" ELSE "shadow")
                                     ELSE status[j]
    BY <1>1 DEF EnqueueLabel, IInv, TypeOK
  <2>3. /\ \A m \in Labels : /\ Row(m, FALSE) \in Keys /\ Row(m, TRUE) \in Keys
                             /\ Row(m, FALSE) = Row(l, FALSE) <=> m = l
                             /\ Row(m, TRUE) # Row(l, FALSE)
        /\ status[Row(l, FALSE)] = "none"
    BY <1>1, RowsAreKeys DEF Row, EnqueueLabel
  <2>4. Asked' = Asked \cup {l}
    BY <2>2, <2>3 DEF Asked
  <2>5. Confirmed' = Confirmed /\ Retracted' = Retracted
    BY <2>2, <2>3 DEF Confirmed, Retracted
  <2> QED BY <2>1, <2>4, <2>5 DEF Delivery!Next, Delivery!Ask
<1>2. ASSUME NEW ls \in SUBSET Labels, Negate(ls) PROVE Delivery!Next
  <2> DEFINE N == Negatable(ls)
  <2>1. UNCHANGED <<applied, live>> /\ UNCHANGED Given
    BY <1>2 DEF Negate, ozone, Given
  <2>2. N \subseteq Confirmed /\ N \in SUBSET Labels
    BY DEF Negatable, Confirmed
  <2>3. \A m \in Labels : /\ status'[Row(m, FALSE)] = status[Row(m, FALSE)]
                          /\ status'[Row(m, TRUE)] = IF m \in N THEN "pending" ELSE status[Row(m, TRUE)]
    BY <1>2, RowsAreKeys DEF Negate
  <2>4. Asked' = Asked /\ Confirmed' = Confirmed
    BY <2>3 DEF Asked, Confirmed
  <2>5. Retracted' = Retracted \cup N
    BY <2>2, <2>3 DEF Retracted
  <2> QED BY <2>1, <2>2, <2>4, <2>5 DEF Delivery!Next, Delivery!Retract
<1>3. ASSUME NEW ls \in SUBSET Labels, Promote(ls) PROVE UNCHANGED abstract
  <2>1. UNCHANGED <<applied, live>> /\ UNCHANGED Given
    BY <1>3 DEF Promote, ozone, Given
  <2>2. \A j \in Keys : status'[j] = status[j] \/ (status[j] = "shadow" /\ status'[j] = "pending")
    BY <1>3 DEF Promote, Promotable
  <2>3. \A m \in Labels : Row(m, FALSE) \in Keys /\ Row(m, TRUE) \in Keys
    BY RowsAreKeys
  <2>4. Asked' = Asked /\ Confirmed' = Confirmed /\ Retracted' = Retracted
    BY <2>2, <2>3 DEF Asked, Confirmed, Retracted
  <2> QED BY <2>1, <2>4 DEF abstract
<1> QED BY <1>1, <1>2, <1>3

LEMMA DeliveryInit == Init => Delivery!Init
<1> SUFFICES ASSUME Init PROVE Delivery!Init
  OBVIOUS
<1>1. (\A k \in Keys : status[k] = "none" /\ applied[k] = 0) /\ live = {}
  BY DEF Init
<1>2. \A l \in Labels : Row(l, FALSE) \in Keys /\ Row(l, TRUE) \in Keys
  BY RowsAreKeys
<1>3. Asked = {} /\ Retracted = {}
  BY <1>1, <1>2 DEF Asked, Retracted
<1>4. Confirmed = {}
  BY <1>1, <1>2 DEF Confirmed
<1>5. Given = {}
  <2>1. \A l \in Labels : ~(applied[Row(l, FALSE)] > 0)
    <3>1. TAKE l \in Labels
    <3>2. applied[Row(l, FALSE)] = 0
      BY <1>1, <1>2
    <3> QED BY <3>2
  <2> QED BY <2>1, Zenon DEF Given
<1> QED BY <1>1, <1>3, <1>4, <1>5 DEF Delivery!Init

LEMMA DeliveryStep == IInv /\ [Next]_vars => [Delivery!Next]_(Delivery!vars)
<1> SUFFICES ASSUME IInv, [Next]_vars PROVE Delivery!Next \/ UNCHANGED abstract
  BY DEF Delivery!vars, abstract
<1>1. ASSUME NEW o \in Outboxes, Deliver(o) PROVE Delivery!Next \/ UNCHANGED abstract
  <2>1. CASE ClaimPending(o) \/ Send(o) \/ OzoneRejects(o)
    <3>1. UNCHANGED <<status, applied, live>>
      BY <2>1 DEF ClaimPending, Send, OzoneRejects, rows, ozone
    <3> QED BY <3>1, AbstractUnchanged
  <2>2. CASE OzoneApplies(o)
    <3>1. cur[o] \in Keys /\ status[cur[o]] # "none" /\ Apply(cur[o]) /\ UNCHANGED status
      BY <2>2 DEF OzoneApplies, rows, IInv, TypeOK, RequestsHaveRows
    <3> QED BY <3>1, ApplyDelivers
  <2>3. CASE MarkEmitted(o) \/ MarkFailed(o)
    BY <2>3, RecordDelivers
  <2> QED BY <1>1, <2>1, <2>2, <2>3 DEF Deliver
<1>2. ASSUME NEW o \in Outboxes, Crash(o) PROVE UNCHANGED abstract
  BY <1>2, AbstractUnchanged DEF Crash, Abort, rows
<1>3. ASSUME NEW p \in Procs, Restart(p) PROVE UNCHANGED abstract
  <2>1. UNCHANGED <<status, applied, live>>
    BY <1>3 DEF Restart, Abort, rows, ozone
  <2> QED BY <2>1, AbstractUnchanged
<1>4. ASSUME NEW k \in Keys, StrayApplies(k) PROVE Delivery!Next
  BY <1>4, ApplyDelivers DEF StrayApplies, rows, IInv, RequestsHaveRows
<1>5. ASSUME NEW k \in Keys, StrayVanishes(k) PROVE UNCHANGED abstract
  BY <1>5, AbstractUnchanged DEF StrayVanishes, rows
<1>6. ASSUME UNCHANGED vars PROVE UNCHANGED abstract
  BY <1>6, AbstractUnchanged DEF vars, rows, ozone
<1>7. ASSUME NEW p \in Procs, NEW l \in Labels, EnqueueLabel(p, l)
      PROVE  Delivery!Next \/ UNCHANGED abstract
  BY <1>7, WritersDeliver
<1>8. ASSUME NEW ls \in SUBSET Labels, Negate(ls) \/ Promote(ls)
      PROVE  Delivery!Next \/ UNCHANGED abstract
  BY <1>8, WritersDeliver
<1>9. CASE Next
  BY <1>1, <1>2, <1>3, <1>4, <1>5, <1>7, <1>8, <1>9 DEF Next
<1> QED BY <1>6, <1>9

\* The outbox of labels.py, with any number of workers, scripts, timeouts, crashes
\* and late requests, delivers labels as LabelDelivery says.
THEOREM OutboxDelivers == Spec => DeliversLabels
<1>1. Spec => Delivery!Spec
  BY InvHolds, DeliveryInit, DeliveryStep, PTL DEF Spec, Delivery!Spec
<1> QED BY <1>1 DEF DeliversLabels
=============================================================================
