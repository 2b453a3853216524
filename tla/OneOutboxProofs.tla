--------------------------- MODULE OneOutboxProofs ---------------------------
(***************************************************************************)
(* What holds of LabelOutbox when one worker process runs, as              *)
(* docker-compose.yml has it: the table and Ozone then tell one story of   *)
(* every row, but for the rows an attempt at which was left unrecorded.    *)
(* Any number of labels, faults, restarts and scripts.                     *)
(***************************************************************************)
EXTENDS LabelOutboxProofs

OneOutbox == \A o, q \in Outboxes : o = q

\* With one outbox, what the loop has in hand is still to be settled.
InHandIsPending ==
  \A o \in Outboxes :
    /\ \A k \in claimed[o] : status[k] = "pending"
    /\ cur[o] # NoKey => status[cur[o]] = "pending" /\ cur[o] \notin claimed[o]

StrayIsLost == \A k \in Keys : stray[k] > 0 => k \in lost

\* A row none of whose attempts was lost has been applied once if it is emitted
\* or about to be, and never otherwise.
Answered(k) == \E o \in Outboxes : pc[o] = "ok" /\ cur[o] = k
AppliedAsRecorded ==
  \A k \in Keys \ lost :
    applied[k] = IF status[k] = "emitted" \/ Answered(k) THEN 1 ELSE 0

NegatedWasEmitted ==
  \A l \in Labels : status[Row(l, TRUE)] # "none" => status[Row(l, FALSE)] = "emitted"

\* A label whose negation was applied, and no request for which was lost, is not in
\* force.
TakenBackIsGone ==
  \A l \in Labels :
    Row(l, FALSE) \notin lost /\ Row(l, TRUE) \notin lost /\ applied[Row(l, TRUE)] > 0
      => l \notin live

OneInv ==
  /\ InHandIsPending /\ StrayIsLost /\ AppliedAsRecorded /\ NegatedWasEmitted
  /\ TakenBackIsGone
-----------------------------------------------------------------------------
LEMMA OneInit == Init => OneInv
<1> SUFFICES ASSUME Init PROVE OneInv
  OBVIOUS
<1>1. InHandIsPending /\ StrayIsLost /\ AppliedAsRecorded
  BY DEF Init, InHandIsPending, StrayIsLost, AppliedAsRecorded, Answered
<1>2. \A l \in Labels : status[Row(l, TRUE)] = "none" /\ applied[Row(l, TRUE)] = 0
  BY RowsAreKeys DEF Init
<1>3. NegatedWasEmitted
  BY <1>2 DEF NegatedWasEmitted
<1>4. TakenBackIsGone
  <2> SUFFICES ASSUME NEW l \in Labels PROVE ~(applied[Row(l, TRUE)] > 0)
    BY DEF TakenBackIsGone
  <2>1. applied[Row(l, TRUE)] = 0
    BY <1>2
  <2> QED BY <2>1
<1> QED BY <1>1, <1>3, <1>4 DEF OneInv

\* What a service or a script may do to the table: start rows, let shadow rows go,
\* mirror emitted ones.
LEMMA WritersRespectOutcomes ==
  ASSUME TypeOK,
         \/ \E p \in Procs, l \in Labels : EnqueueLabel(p, l)
         \/ \E ls \in SUBSET Labels : Negate(ls) \/ Promote(ls)
  PROVE  /\ UNCHANGED <<loop, ozone, lost>>
         /\ \A k \in Keys : status[k] \in {"pending", "emitted", "failed"} => status'[k] = status[k]
         /\ \A k \in Keys : status'[k] \in {"emitted", "failed"} => status[k] = status'[k]
         /\ \A l \in Labels : status'[Row(l, TRUE)] # "none" =>
              status[Row(l, TRUE)] # "none" \/ status[Row(l, FALSE)] = "emitted"
<1>1. ASSUME NEW p \in Procs, NEW l \in Labels, EnqueueLabel(p, l)
      PROVE  /\ status[Row(l, FALSE)] = "none" /\ Row(l, FALSE) \in Keys
             /\ \A k \in Keys \ {Row(l, FALSE)} : status'[k] = status[k]
             /\ status'[Row(l, FALSE)] \in {"pending", "shadow"}
             /\ \A m \in Labels : Row(m, TRUE) \in Keys \ {Row(l, FALSE)}
             /\ UNCHANGED <<loop, ozone, lost>>
  <2>1. \A m \in Labels : Row(m, TRUE) # Row(l, FALSE)
    BY DEF Row
  <2> QED BY <1>1, <2>1, RowsAreKeys DEF EnqueueLabel, TypeOK
<1>2. ASSUME NEW ls \in SUBSET Labels, Negate(ls)
      PROVE  /\ \A k \in Keys :
                  \/ status'[k] = status[k]
                  \/ /\ status[k] = "none" /\ status'[k] = "pending"
                     /\ k[2] /\ status[Row(k[1], FALSE)] = "emitted"
             /\ UNCHANGED <<loop, ozone, lost>>
  BY <1>2, RowsAreKeys DEF Negate, Negatable
<1>3. ASSUME NEW ls \in SUBSET Labels, Promote(ls)
      PROVE  /\ \A k \in Keys :
                  status'[k] = status[k] \/ (status[k] = "shadow" /\ status'[k] = "pending")
             /\ UNCHANGED <<loop, ozone, lost>>
  BY <1>3 DEF Promote, Promotable
<1>4. CASE \E p \in Procs, l \in Labels : EnqueueLabel(p, l)
  BY <1>1, <1>4
<1>5. CASE \E ls \in SUBSET Labels : Negate(ls)
  BY <1>2, <1>5, RowsAreKeys
<1>6. CASE \E ls \in SUBSET Labels : Promote(ls)
  BY <1>3, <1>6, RowsAreKeys
<1> QED BY <1>4, <1>5, <1>6

LEMMA WritersKeepOne ==
  ASSUME IInv, OneInv,
         \/ \E p \in Procs, l \in Labels : EnqueueLabel(p, l)
         \/ \E ls \in SUBSET Labels : Negate(ls) \/ Promote(ls)
  PROVE  OneInv'
<1>1. /\ UNCHANGED <<pc, claimed, cur, stray, live, applied, lost>>
      /\ \A k \in Keys : status[k] \in {"pending", "emitted", "failed"} => status'[k] = status[k]
      /\ \A k \in Keys : status'[k] \in {"emitted", "failed"} => status[k] = status'[k]
      /\ \A l \in Labels : status'[Row(l, TRUE)] # "none" =>
           status[Row(l, TRUE)] # "none" \/ status[Row(l, FALSE)] = "emitted"
  BY WritersRespectOutcomes DEF IInv, loop, ozone
<1>2. InHandIsPending'
  BY <1>1 DEF IInv, TypeOK, OneInv, InHandIsPending
<1>3. StrayIsLost' /\ TakenBackIsGone'
  BY <1>1 DEF OneInv, StrayIsLost, TakenBackIsGone
<1>4. AppliedAsRecorded'
  BY <1>1 DEF OneInv, AppliedAsRecorded, Answered
<1>5. NegatedWasEmitted'
  BY <1>1, RowsAreKeys DEF OneInv, NegatedWasEmitted
<1> QED BY <1>2, <1>3, <1>4, <1>5 DEF OneInv

\* The loop's steps.  With no other loop, the row at hand is pending until this one
\* records what Ozone answered.
LEMMA LoopKeepsOne ==
  ASSUME OneOutbox, IInv, OneInv, NEW o \in Outboxes, Deliver(o) PROVE OneInv'
<1>0. \A q \in Outboxes : q = o
  BY DEF OneOutbox
<1>1. CASE ClaimPending(o)
  <2>1. UNCHANGED <<status, cur, stray, live, applied, lost>> /\ pc[o] = "idle" /\ pc'[o] = "next"
    BY <1>1 DEF ClaimPending, rows, ozone, IInv, TypeOK
  <2>2. cur[o] = NoKey
    BY <2>1 DEF IInv, TypeOK
  <2>3. InHandIsPending'
    BY <1>0, <1>1, <2>1, <2>2 DEF ClaimPending, PendingKeys, InHandIsPending, IInv, TypeOK
  <2>4. AppliedAsRecorded'
    BY <1>0, <2>1 DEF OneInv, AppliedAsRecorded, Answered
  <2> QED BY <2>1, <2>3, <2>4 DEF OneInv, StrayIsLost, NegatedWasEmitted, TakenBackIsGone
<1>2. CASE Send(o)
  <2>1. UNCHANGED <<status, stray, live, applied, lost>> /\ pc[o] = "next" /\ pc'[o] = "wait"
    BY <1>2 DEF Send, rows, ozone, IInv, TypeOK
  <2>2. InHandIsPending'
    BY <1>0, <1>2, <2>1 DEF Send, OneInv, InHandIsPending, IInv, TypeOK
  <2>3. AppliedAsRecorded'
    BY <1>0, <2>1 DEF OneInv, AppliedAsRecorded, Answered
  <2> QED BY <2>1, <2>2, <2>3 DEF OneInv, StrayIsLost, NegatedWasEmitted, TakenBackIsGone
<1>3. CASE OzoneApplies(o)
  <2> DEFINE k == cur[o]
  <2>1. /\ UNCHANGED <<status, claimed, cur, stray, lost>>
        /\ pc[o] = "wait" /\ pc'[o] = "ok" /\ k \in Keys /\ status[k] = "pending"
    BY <1>3 DEF OzoneApplies, rows, IInv, TypeOK, OneInv, InHandIsPending
  <2>2. /\ applied'[k] = applied[k] + 1 /\ \A j \in Keys \ {k} : applied'[j] = applied[j]
        /\ live' = IF k[2] THEN live \ {k[1]} ELSE live \cup {k[1]}
    BY <1>3, <2>1 DEF OzoneApplies, Apply, IInv, TypeOK
  <2>3. ~ \E q \in Outboxes : pc[q] = "ok"
    BY <1>0, <2>1
  <2>4. AppliedAsRecorded'
    <3>1. \A j \in Keys : Answered(j)' <=> j = k
      BY <1>0, <2>1 DEF Answered
    <3>2. \A j \in Keys \ lost : applied[j] = IF status[j] = "emitted" THEN 1 ELSE 0
      BY <2>3 DEF OneInv, AppliedAsRecorded, Answered
    <3> QED BY <2>1, <2>2, <3>1, <3>2 DEF AppliedAsRecorded
  <2>5. TakenBackIsGone'
    <3> SUFFICES ASSUME NEW l \in Labels, Row(l, FALSE) \notin lost, Row(l, TRUE) \notin lost,
                        applied'[Row(l, TRUE)] > 0
                 PROVE  l \notin live'
      BY <2>1 DEF TakenBackIsGone
    <3>1. Row(l, FALSE) \in Keys /\ Row(l, TRUE) \in Keys /\ k = Row(k[1], k[2]) /\ k[2] \in BOOLEAN
      BY <2>1, RowsAreKeys
    <3>2. CASE k = Row(l, TRUE)
      <4>1. k[1] = l /\ k[2]
        BY <3>2, RowsAreKeys
      <4> QED BY <2>2, <4>1
    <3>3. CASE k = Row(l, FALSE)
      <4>1. status[Row(l, TRUE)] = "none"
        BY <2>1, <3>3 DEF OneInv, NegatedWasEmitted
      <4>2. applied[Row(l, TRUE)] = 0
        BY <2>3, <3>1, <4>1 DEF OneInv, AppliedAsRecorded, Answered
      <4>3. Row(l, TRUE) \in Keys \ {k}
        BY <3>1, <3>3 DEF Row
      <4>4. applied'[Row(l, TRUE)] = 0
        BY <2>2, <4>2, <4>3
      <4> QED BY <4>4
    <3>4. CASE k # Row(l, TRUE) /\ k # Row(l, FALSE)
      <4>1. l \notin live
        BY <2>2, <3>1, <3>4 DEF OneInv, TakenBackIsGone
      <4>2. k[1] # l
        BY <3>1, <3>4
      <4> QED BY <2>2, <4>1, <4>2
    <3> QED BY <3>2, <3>3, <3>4
  <2>6. InHandIsPending'
    BY <2>1 DEF OneInv, InHandIsPending
  <2> QED BY <2>1, <2>4, <2>5, <2>6 DEF OneInv, StrayIsLost, NegatedWasEmitted
<1>4. CASE OzoneRejects(o)
  <2>1. UNCHANGED <<status, claimed, cur, stray, live, applied, lost>> /\ pc[o] = "wait" /\ pc'[o] = "error"
    BY <1>4 DEF OzoneRejects, rows, ozone, IInv, TypeOK
  <2>2. AppliedAsRecorded'
    BY <1>0, <2>1 DEF OneInv, AppliedAsRecorded, Answered
  <2> QED BY <2>1, <2>2 DEF OneInv, InHandIsPending, StrayIsLost, NegatedWasEmitted, TakenBackIsGone
<1>5. CASE MarkEmitted(o) \/ MarkFailed(o)
  <2> DEFINE k == cur[o]
  <2>1. /\ UNCHANGED <<claimed, stray, live, applied, lost>>
        /\ k \in Keys /\ status[k] = "pending" /\ cur'[o] = NoKey /\ pc'[o] \in {"idle", "next"}
        /\ \A j \in Keys \ {k} : status'[j] = status[j]
        /\ (pc[o] = "ok" /\ status'[k] = "emitted") \/ (pc[o] = "error" /\ status'[k] = "failed")
    <3>1. k \in Keys /\ status[k] = "pending" /\ pc[o] \in {"ok", "error"}
      BY <1>5 DEF MarkEmitted, MarkFailed, IInv, TypeOK, OneInv, InHandIsPending
    <3>2. \E outcome \in {"emitted", "failed"} :
            Record(o, outcome) /\ (outcome = "emitted" <=> pc[o] = "ok")
      BY <1>5 DEF MarkEmitted, MarkFailed
    <3> QED BY <3>1, <3>2 DEF Record, ozone, IInv, TypeOK
  <2>2. InHandIsPending'
    BY <1>0, <2>1 DEF OneInv, InHandIsPending, IInv, TypeOK
  <2>3. AppliedAsRecorded'
    <3>1. \A j \in Keys : ~Answered(j)' /\ (Answered(j) <=> j = k /\ pc[o] = "ok")
      BY <1>0, <2>1 DEF Answered
    <3> QED BY <2>1, <3>1 DEF OneInv, AppliedAsRecorded
  <2>4. NegatedWasEmitted'
    <3> SUFFICES ASSUME NEW l \in Labels, status'[Row(l, TRUE)] # "none"
                 PROVE  status'[Row(l, FALSE)] = "emitted"
      BY DEF NegatedWasEmitted
    <3>1. Row(l, FALSE) \in Keys /\ Row(l, TRUE) \in Keys
      BY RowsAreKeys
    <3>2. status[Row(l, FALSE)] = "emitted"
      BY <2>1, <3>1 DEF OneInv, NegatedWasEmitted
    <3> QED BY <2>1, <3>1, <3>2
  <2> QED BY <2>1, <2>2, <2>3, <2>4 DEF OneInv, StrayIsLost, TakenBackIsGone
<1> QED BY <1>1, <1>2, <1>3, <1>4, <1>5 DEF Deliver

\* An abandoned batch: the row at hand joins the lost ones, request or no request.
LEMMA AbortKeepsOne ==
  ASSUME OneOutbox, IInv, OneInv, NEW o \in Outboxes, Abort(o) PROVE OneInv'
<1>1. /\ UNCHANGED <<status, live, applied>> /\ lost \subseteq lost'
      /\ pc'[o] = "idle" /\ claimed'[o] = {} /\ cur'[o] = NoKey
      /\ cur[o] # NoKey => cur[o] \in lost'
  BY DEF Abort, rows, IInv, TypeOK
<1>2. InHandIsPending'
  BY <1>1 DEF OneOutbox, InHandIsPending
<1>3. StrayIsLost'
  <2>1. CASE pc[o] = "wait"
    <3>1. cur[o] \in Keys /\ \A k \in Keys \ {cur[o]} : stray'[k] = stray[k]
      BY <2>1 DEF Abort, IInv, TypeOK
    <3> QED BY <1>1, <3>1, NoKeyIsNoRow DEF OneInv, StrayIsLost
  <2>2. CASE pc[o] # "wait"
    BY <1>1, <2>2 DEF Abort, OneInv, StrayIsLost
  <2> QED BY <2>1, <2>2
<1>4. AppliedAsRecorded'
  <2> SUFFICES ASSUME NEW k \in Keys \ lost'
               PROVE  applied[k] = IF status[k] = "emitted" THEN 1 ELSE 0
    BY <1>1 DEF OneOutbox, AppliedAsRecorded, Answered
  <2>1. k \notin lost /\ k # cur[o]
    BY <1>1, NoKeyIsNoRow
  <2> QED BY <2>1 DEF OneOutbox, OneInv, AppliedAsRecorded, Answered
<1> QED BY <1>1, <1>2, <1>3, <1>4 DEF OneInv, NegatedWasEmitted, TakenBackIsGone

\* A request nobody waits for belongs to a lost row, of which nothing is claimed.
LEMMA StraysKeepOne ==
  ASSUME IInv, OneInv, NEW k \in Keys, StrayApplies(k) \/ StrayVanishes(k) PROVE OneInv'
<1>1. /\ UNCHANGED <<status, pc, claimed, cur, lost>> /\ k \in lost
      /\ \A j \in Keys : stray'[j] > 0 => stray[j] > 0
      /\ \A j \in Keys \ {k} : applied'[j] = applied[j]
      /\ live' \ {k[1]} = live \ {k[1]}
  BY DEF StrayApplies, StrayVanishes, Apply, rows, loop, IInv, TypeOK, OneInv, StrayIsLost
<1>2. TakenBackIsGone'
  <2> SUFFICES ASSUME NEW l \in Labels, Row(l, FALSE) \notin lost, Row(l, TRUE) \notin lost,
                      applied'[Row(l, TRUE)] > 0
               PROVE  l \notin live'
    BY <1>1 DEF TakenBackIsGone
  <2>1. Row(l, TRUE) \in Keys \ {k} /\ k[1] # l
    <3>1. k = Row(k[1], TRUE) \/ k = Row(k[1], FALSE)
      BY RowsAreKeys
    <3> QED BY <1>1, <3>1, RowsAreKeys
  <2> QED BY <1>1, <2>1 DEF OneInv, TakenBackIsGone
<1>3. AppliedAsRecorded'
  BY <1>1 DEF OneInv, AppliedAsRecorded, Answered
<1> QED BY <1>1, <1>2, <1>3 DEF OneInv, InHandIsPending, StrayIsLost, NegatedWasEmitted

LEMMA OneStep == ASSUME OneOutbox PROVE IInv /\ OneInv /\ [Next]_vars => OneInv'
<1> SUFFICES ASSUME IInv, OneInv, [Next]_vars PROVE OneInv'
  OBVIOUS
<1>1. CASE \E p \in Procs, l \in Labels : EnqueueLabel(p, l)
  BY <1>1, WritersKeepOne
<1>2. CASE \E ls \in SUBSET Labels : Negate(ls) \/ Promote(ls)
  BY <1>2, WritersKeepOne
<1>3. CASE \E o \in Outboxes : Deliver(o)
  BY <1>3, LoopKeepsOne
<1>4. CASE \E o \in Outboxes : Crash(o)
  BY <1>4, AbortKeepsOne DEF Crash
<1>5. CASE \E k \in Keys : StrayApplies(k) \/ StrayVanishes(k)
  BY <1>5, StraysKeepOne
<1>6. ASSUME UNCHANGED <<rows, loop, ozone, lost>> PROVE OneInv'
  <2>1. UNCHANGED <<status, pc, claimed, cur, stray, live, applied, lost>>
    BY <1>6 DEF rows, loop, ozone
  <2> QED BY <2>1 DEF OneInv, InHandIsPending, StrayIsLost, AppliedAsRecorded, Answered,
             NegatedWasEmitted, TakenBackIsGone
<1>7. CASE \E p \in Procs : Restart(p)
  <2>1. PICK p \in Procs : Restart(p)
    BY <1>7
  <2>2. CASE p \in Outboxes
    BY <2>1, <2>2, AbortKeepsOne DEF Restart
  <2>3. CASE p \notin Outboxes
    BY <1>6, <2>1, <2>3 DEF Restart
  <2> QED BY <2>2, <2>3
<1>8. CASE UNCHANGED vars
  BY <1>6, <1>8 DEF vars
<1> QED BY <1>1, <1>2, <1>3, <1>4, <1>5, <1>7, <1>8 DEF Next

LEMMA OneHolds == ASSUME OneOutbox PROVE Spec => [](IInv /\ OneInv)
<1>1. Init => IInv /\ OneInv
  BY InvInit, OneInit
<1>2. (IInv /\ OneInv) /\ [Next]_vars => (IInv /\ OneInv)'
  BY InvStep, OneStep
<1> QED BY <1>1, <1>2, PTL DEF Spec

-----------------------------------------------------------------------------
\* With one outbox, Ozone applies a row a second time only if an attempt at it was
\* left unrecorded (deliver_pending: a crash or a timeout before the commit).
THEOREM RowsAppliedOnce == ASSUME OneOutbox PROVE Spec => []AppliedOnce
<1>1. IInv /\ OneInv => AppliedOnce
  BY DEF OneInv, AppliedAsRecorded, AppliedOnce
<1> QED BY <1>1, OneHolds, PTL

\* With one outbox, a row recorded as failed had no effect on Ozone unless an earlier
\* attempt at it was left unrecorded (_mark_failed).
THEOREM FailuresHadNoEffect == ASSUME OneOutbox PROVE Spec => []FailedHadNoEffect
<1>1. ASSUME IInv, OneInv PROVE FailedHadNoEffect
  <2> SUFFICES ASSUME NEW k \in Keys, status[k] = "failed", applied[k] > 0, k \notin lost PROVE FALSE
    BY DEF FailedHadNoEffect
  <2>1. ~Answered(k)
    BY <1>1, NoKeyIsNoRow DEF Answered, OneInv, InHandIsPending
  <2> QED BY <1>1, <2>1 DEF OneInv, AppliedAsRecorded
<1> QED BY <1>1, OneHolds, PTL

\* With one outbox, a label whose negation is recorded as emitted is out of force at
\* Ozone, unless an attempt at either row was left unrecorded (negate_labels).
THEOREM NegatedIsGone == ASSUME OneOutbox PROVE Spec => []RetractedIsGone
<1>1. ASSUME IInv, OneInv PROVE RetractedIsGone
  <2> SUFFICES ASSUME NEW l \in Labels, status[Row(l, TRUE)] = "emitted", l \in live,
                      Row(l, TRUE) \notin lost, Row(l, FALSE) \notin lost
               PROVE  FALSE
    BY DEF RetractedIsGone
  <2>1. applied[Row(l, TRUE)] > 0
    BY <1>1, RowsAreKeys DEF IInv, EmittedWasApplied
  <2> QED BY <1>1, <2>1 DEF OneInv, TakenBackIsGone
<1> QED BY <1>1, OneHolds, PTL

\* With one outbox, a recorded outcome is never reconsidered: not by a promotion, a
\* negation, a restart or a row that is still in a batch.
THEOREM OutcomesAreFinal == ASSUME OneOutbox PROVE Spec => OutcomeIsFinal
<1> DEFINE Final == \A k \in Keys : status[k] \in {"emitted", "failed"} => status'[k] = status[k]
<1>1. ASSUME IInv, OneInv, [Next]_vars PROVE Final
  <2>1. CASE UNCHANGED status
    BY <2>1
  <2>2. CASE \/ \E p \in Procs, l \in Labels : EnqueueLabel(p, l)
             \/ \E ls \in SUBSET Labels : Negate(ls) \/ Promote(ls)
    BY <1>1, <2>2, WritersRespectOutcomes DEF IInv
  <2>3. CASE \E o \in Outboxes : MarkEmitted(o) \/ MarkFailed(o)
    <3>1. PICK o \in Outboxes : MarkEmitted(o) \/ MarkFailed(o)
      BY <2>3
    <3>2. cur[o] \in Keys /\ status[cur[o]] = "pending"
      BY <1>1, <3>1 DEF MarkEmitted, MarkFailed, IInv, TypeOK, OneInv, InHandIsPending
    <3> QED BY <1>1, <3>1, <3>2 DEF MarkEmitted, MarkFailed, Record, IInv, TypeOK
  <2> QED BY <1>1, <2>1, <2>2, <2>3 DEF Next, Deliver, ClaimPending, Send, OzoneApplies,
             OzoneRejects, Crash, Restart, Abort, StrayApplies, StrayVanishes, rows, vars
<1>2. IInv /\ OneInv /\ [Next]_vars => [Final]_vars
  BY <1>1
<1> QED BY <1>2, OneHolds, PTL DEF Spec, OutcomeIsFinal
=============================================================================
