------------------------------ MODULE LabelOutbox ------------------------------
(***************************************************************************)
(* The outbox that carries labels to Ozone (labels.py, ozone/client.py),   *)
(* the operator scripts that write into it (ops/negate_labels.py,          *)
(* ops/promote_shadow.py), and the EMIT_LABELS switch each process reads   *)
(* when it starts.  A row of labels_emitted is named by its unique key     *)
(* <<label, neg>>, a label being a (post, value) pair.                     *)
(*                                                                         *)
(* Claiming a batch is a transaction that commits at once, so its row      *)
(* locks are gone when the requests are made; each request's outcome is    *)
(* recorded by a transaction of its own.  A request whose client gave up   *)
(* or died is still on the wire: Ozone may apply it later, or never.       *)
(***************************************************************************)
EXTENDS Naturals, FiniteSets

CONSTANTS
  Labels,           \* (post, value) pairs
  Outboxes,         \* worker processes: each runs one outbox loop
  Consumer,         \* the consumer process
  NoKey,            \* no row at hand
  Limit,            \* batch of deliver_pending
  MaxFaults,        \* bound: requests timed out, processes or transactions lost
  MaxRestarts,      \* bound: restarts with the other value of EMIT_LABELS
  MaxScripts        \* bound: runs of negate_labels and of promote_shadow

Keys == Labels \X BOOLEAN   \* <<label, neg>>
Procs == Outboxes \cup {Consumer}

ASSUME ProcessesDiffer == Consumer \notin Outboxes
ASSUME NoKeyIsNoRow == NoKey \notin Keys
ASSUME LabelsFinite == IsFiniteSet(Labels)
ASSUME BoundTypes ==
  Limit \in Nat \ {0} /\ MaxFaults \in Nat /\ MaxRestarts \in Nat /\ MaxScripts \in Nat

VARIABLES
  status, id,       \* labels_emitted: status ("none": no such row) and id of every key
  emit,             \* settings.emit_labels of every process
  pc, claimed, cur, \* outboxes: program counter, rows of the batch still to send, row at hand
  stray,            \* requests on the wire that no client waits for, per row
  live,             \* Ozone: labels in force
  applied, lost,    \* history: times Ozone applied a row; rows with an unrecorded attempt
  faults, restarts, scripts

rows == <<status, id>>
loop == <<pc, claimed, cur>>
ozone == <<stray, live, applied>>
bounds == <<faults, restarts, scripts>>
vars == <<rows, emit, loop, ozone, lost, bounds>>

Statuses == {"none", "shadow", "pending", "emitted", "failed"}
Row(l, neg) == <<l, neg>>

\* Mutant: failed rows are taken again.
UnsettledKeys == {k \in Keys : status[k] \in {"pending", "failed"}}

PendingKeys == {k \in Keys : status[k] = "pending"}
LastId == Cardinality({k \in Keys : status[k] # "none"})
-----------------------------------------------------------------------------
(* Rows are written by the services and by the scripts. *)

\* enqueue_label, in the consumer or in a worker: INSERT ... ON CONFLICT DO NOTHING.
EnqueueLabel(p, l) ==
  /\ status[Row(l, FALSE)] = "none"
  /\ status' = [status EXCEPT ![Row(l, FALSE)] = IF emit[p] THEN "pending" ELSE "shadow"]
  /\ id' = [id EXCEPT ![Row(l, FALSE)] = LastId + 1]
  /\ UNCHANGED <<emit, loop, ozone, lost, bounds>>

\* Mutant: WHERE status='emitted' is missing.
NegatableAny(ls) == {l \in ls : status[Row(l, FALSE)] # "none" /\ status[Row(l, TRUE)] = "none"}

\* negate --val: a mirrored row for every emitted label of the chosen values.
Negatable(ls) == {l \in ls : status[Row(l, FALSE)] = "emitted" /\ status[Row(l, TRUE)] = "none"}

Negate(ls) ==
  /\ scripts > 0 /\ Negatable(ls) # {}
  /\ status' = [k \in Keys |-> IF k[2] /\ k[1] \in Negatable(ls) THEN "pending" ELSE status[k]]
  /\ \E f \in [Negatable(ls) -> LastId + 1 .. LastId + Cardinality(Negatable(ls))] :
       /\ \A l, m \in Negatable(ls) : f[l] = f[m] => l = m
       /\ id' = [k \in Keys |-> IF k[2] /\ k[1] \in Negatable(ls) THEN f[k[1]] ELSE id[k]]
  /\ scripts' = scripts - 1
  /\ UNCHANGED <<emit, loop, ozone, lost, faults, restarts>>

\* Mutant: WHERE status = 'shadow' is missing.
PromotableAny(ls) == {k \in Keys : k[1] \in ls /\ status[k] # "none"}

\* promote [--val]: what accumulated in shadow mode goes to the outbox.
Promotable(ls) == {k \in Keys : k[1] \in ls /\ status[k] = "shadow"}

Promote(ls) ==
  /\ scripts > 0 /\ Promotable(ls) # {}
  /\ status' = [k \in Keys |-> IF k \in Promotable(ls) THEN "pending" ELSE status[k]]
  /\ scripts' = scripts - 1
  /\ UNCHANGED <<id, emit, loop, ozone, lost, faults, restarts>>
-----------------------------------------------------------------------------
(* deliver_pending. *)

\* Mutants: "if not rows: return 0" is missing; rows are marked when they are claimed.
ClaimNothing(o) ==
  /\ pc[o] = "idle" /\ pc' = [pc EXCEPT ![o] = "next"]
  /\ claimed' = [claimed EXCEPT ![o] = PendingKeys]
  /\ UNCHANGED <<rows, emit, cur, ozone, lost, bounds>>

ClaimMarks(o) ==
  /\ pc[o] = "idle" /\ PendingKeys # {} /\ pc' = [pc EXCEPT ![o] = "next"]
  /\ claimed' = [claimed EXCEPT ![o] = PendingKeys]
  /\ status' = [k \in Keys |-> IF k \in PendingKeys THEN "emitted" ELSE status[k]]
  /\ UNCHANGED <<id, emit, cur, ozone, lost, bounds>>

\* _claim_pending: the oldest pending rows, at most Limit; the commit unlocks them.
ClaimPending(o) ==
  /\ pc[o] = "idle"
  /\ \E S \in SUBSET PendingKeys :
       /\ S # {} /\ Cardinality(S) <= Limit
       /\ Cardinality(S) = Limit \/ S = PendingKeys
       /\ \A k \in S, j \in PendingKeys \ S : id[k] < id[j]
       /\ claimed' = [claimed EXCEPT ![o] = S]
  /\ pc' = [pc EXCEPT ![o] = "next"]
  /\ UNCHANGED <<rows, emit, cur, ozone, lost, bounds>>

\* emit_label: the request is on the wire.
Send(o) ==
  /\ pc[o] = "next"
  /\ \E k \in claimed[o] :
       /\ \A j \in claimed[o] : id[k] <= id[j]
       /\ cur' = [cur EXCEPT ![o] = k]
       /\ claimed' = [claimed EXCEPT ![o] = @ \ {k}]
  /\ pc' = [pc EXCEPT ![o] = "wait"]
  /\ UNCHANGED <<rows, emit, ozone, lost, bounds>>

\* Mutant: neg is not handed to emit_label.
ApplyIgnoresNeg(k) ==
  /\ live' = live \cup {k[1]}
  /\ applied' = [applied EXCEPT ![k] = @ + 1]

\* Ozone: createLabelVals puts a label in force, negateLabelVals takes it back.
Apply(k) ==
  /\ live' = IF k[2] THEN live \ {k[1]} ELSE live \cup {k[1]}
  /\ applied' = [applied EXCEPT ![k] = @ + 1]

OzoneApplies(o) ==
  /\ pc[o] = "wait"
  /\ Apply(cur[o])
  /\ pc' = [pc EXCEPT ![o] = "ok"]
  /\ UNCHANGED <<rows, emit, claimed, cur, stray, lost, bounds>>

\* Mutant: emit_label turns a timeout into an OzoneError.
TimeoutIsRejection(o) ==
  /\ pc[o] = "wait"
  /\ pc' = [pc EXCEPT ![o] = "error"]
  /\ stray' = [stray EXCEPT ![cur[o]] = @ + 1]
  /\ UNCHANGED <<rows, emit, claimed, cur, live, applied, lost, bounds>>

\* status_code >= 400: OzoneError.
OzoneRejects(o) ==
  /\ pc[o] = "wait"
  /\ pc' = [pc EXCEPT ![o] = "error"]
  /\ UNCHANGED <<rows, emit, claimed, cur, ozone, lost, bounds>>

\* Requests nobody waits for.
StrayApplies(k) ==
  /\ stray[k] > 0
  /\ stray' = [stray EXCEPT ![k] = @ - 1]
  /\ Apply(k)
  /\ UNCHANGED <<rows, emit, loop, lost, bounds>>

StrayVanishes(k) ==
  /\ stray[k] > 0
  /\ stray' = [stray EXCEPT ![k] = @ - 1]
  /\ UNCHANGED <<rows, emit, loop, live, applied, lost, bounds>>

\* The row is recorded and the loop goes on to the next of the batch.
Record(o, outcome) ==
  /\ status' = [status EXCEPT ![cur[o]] = outcome]
  /\ pc' = [pc EXCEPT ![o] = IF claimed[o] = {} THEN "idle" ELSE "next"]
  /\ cur' = [cur EXCEPT ![o] = NoKey]
  /\ UNCHANGED <<id, emit, claimed, ozone, lost, bounds>>

MarkEmitted(o) == pc[o] = "ok" /\ Record(o, "emitted")

\* Mutants: an error is retried forever; an error counts as delivered.
MarkFailedRetries(o) == pc[o] = "error" /\ Record(o, "pending")
MarkFailedAsEmitted(o) == pc[o] = "error" /\ Record(o, "emitted")

MarkFailed(o) == pc[o] = "error" /\ Record(o, "failed")

\* The loop drops its batch; a request it was waiting for is left on the wire.
Abort(o) ==
  /\ pc' = [pc EXCEPT ![o] = "idle"]
  /\ claimed' = [claimed EXCEPT ![o] = {}]
  /\ cur' = [cur EXCEPT ![o] = NoKey]
  /\ stray' = IF pc[o] = "wait" THEN [stray EXCEPT ![cur[o]] = @ + 1] ELSE stray
  /\ lost' = IF cur[o] = NoKey THEN lost ELSE lost \cup {cur[o]}
  /\ UNCHANGED <<rows, live, applied>>

\* A transport error escapes deliver_pending, and so does a failure to record an
\* outcome: outbox_loop logs it and claims anew.
Crash(o) ==
  /\ faults > 0 /\ pc[o] # "idle"
  /\ faults' = faults - 1
  /\ Abort(o)
  /\ UNCHANGED <<emit, restarts, scripts>>

\* The operator changes EMIT_LABELS and restarts a process.
Restart(p) ==
  /\ restarts > 0
  /\ restarts' = restarts - 1
  /\ emit' = [emit EXCEPT ![p] = ~@]
  /\ IF p \in Outboxes THEN Abort(p) ELSE UNCHANGED <<rows, loop, ozone, lost>>
  /\ UNCHANGED <<faults, scripts>>
-----------------------------------------------------------------------------
Init ==
  /\ status = [k \in Keys |-> "none"] /\ id = [k \in Keys |-> 0]
  /\ emit \in {[p \in Procs |-> b] : b \in BOOLEAN}
  /\ pc = [o \in Outboxes |-> "idle"]
  /\ claimed = [o \in Outboxes |-> {}] /\ cur = [o \in Outboxes |-> NoKey]
  /\ stray = [k \in Keys |-> 0] /\ live = {}
  /\ applied = [k \in Keys |-> 0] /\ lost = {}
  /\ faults = MaxFaults /\ restarts = MaxRestarts /\ scripts = MaxScripts

Deliver(o) ==
  \/ ClaimPending(o) \/ Send(o) \/ OzoneApplies(o) \/ OzoneRejects(o)
  \/ MarkEmitted(o) \/ MarkFailed(o)

Next ==
  \/ \E p \in Procs : Restart(p) \/ \E l \in Labels : EnqueueLabel(p, l)
  \/ \E ls \in SUBSET Labels : Negate(ls) \/ Promote(ls)
  \/ \E o \in Outboxes : Deliver(o) \/ Crash(o)
  \/ \E k \in Keys : StrayApplies(k) \/ StrayVanishes(k)

Spec == Init /\ [][Next]_vars

\* The outbox loops run and Ozone answers; nothing else has to happen.
FairSpec == Spec /\ \A o \in Outboxes : WF_vars(Deliver(o))
-----------------------------------------------------------------------------
\* Every variable has its type; a loop past its claim has a row or a batch.
TypeOK ==
  /\ status \in [Keys -> Statuses] /\ id \in [Keys -> Nat]
  /\ emit \in [Procs -> BOOLEAN]
  /\ pc \in [Outboxes -> {"idle", "next", "wait", "ok", "error"}]
  /\ claimed \in [Outboxes -> SUBSET Keys] /\ cur \in [Outboxes -> Keys \cup {NoKey}]
  /\ \A o \in Outboxes : /\ pc[o] = "next" => claimed[o] # {}
                         /\ pc[o] \in {"wait", "ok", "error"} <=> cur[o] # NoKey
  /\ stray \in [Keys -> Nat] /\ live \subseteq Labels
  /\ applied \in [Keys -> Nat] /\ lost \subseteq Keys
  /\ faults \in Nat /\ restarts \in Nat /\ scripts \in Nat

\* What the table calls emitted is in force at Ozone until somebody negates it,
\* through timeouts, crashes and however many outboxes.
EmittedIsLive ==
  \A l \in Labels :
    status[Row(l, FALSE)] = "emitted" /\ status[Row(l, TRUE)] = "none" => l \in live

\* Ozone is asked to take back only labels it was given: negate_labels mirrors
\* emitted rows only (negate_labels.py:40).
NegationFollowsLabel ==
  \A l \in Labels : status[Row(l, TRUE)] # "none" => applied[Row(l, FALSE)] > 0

\* A label whose negation is recorded as emitted is not in force, unless one of
\* its requests was given up or left unrecorded (and may have been repeated late).
RetractedIsGone ==
  \A l \in Labels :
    status[Row(l, TRUE)] = "emitted" /\ l \in live => \E neg \in BOOLEAN : Row(l, neg) \in lost

\* A row recorded as failed had no effect on Ozone, unless an attempt at it was
\* left unrecorded before the one that failed.
FailedHadNoEffect ==
  \A k \in Keys : status[k] = "failed" /\ applied[k] > 0 => k \in lost

\* Ozone applies a row twice only if an attempt at it was left unrecorded
\* (labels.py:10: the next run picks the row up again).
AppliedOnce == \A k \in Keys : applied[k] > 1 => k \in lost

\* An outcome, once recorded, is never reconsidered: not by a promotion, not by a
\* row still in some batch.
OutcomeIsFinal ==
  [][\A k \in Keys : status[k] \in {"emitted", "failed"} => status'[k] = status[k]]_vars

\* Every pending row gets an outcome, whatever was lost on the way.
PendingIsSettled ==
  \A k \in Keys : status[k] = "pending" ~> status[k] \in {"emitted", "failed"}
-----------------------------------------------------------------------------
(* What all this comes to for a label.                                     *)

Asked == {l \in Labels : status[Row(l, FALSE)] # "none"}
Given == {l \in Labels : applied[Row(l, FALSE)] > 0}
Confirmed == {l \in Labels : status[Row(l, FALSE)] = "emitted"}
Retracted == {l \in Labels : status[Row(l, TRUE)] # "none"}

Delivery == INSTANCE LabelDelivery WITH
  asked <- Asked, given <- Given, confirmed <- Confirmed, retracted <- Retracted

\* The outbox delivers labels as LabelDelivery says: whatever is repeated, lost or
\* late, nothing is in force that nobody asked for, nothing is confirmed that was
\* never in force, and nothing is taken back that no operator named.
DeliversLabels == Delivery!Spec
=============================================================================
