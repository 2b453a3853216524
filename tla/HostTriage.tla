------------------------------ MODULE HostTriage ------------------------------
(***************************************************************************)
(* Triage of link hosts in snubstack: the consumer and the resolver route  *)
(* posts by the state of their host (consumer/routing.py), fetch loops     *)
(* claim queued hosts, classify them and back-label the buffered posts     *)
(* (worker/main.py, queue.py), a sweep closes the race between the two     *)
(* (worker/reconcile.py), and operators seed hosts or drain the queue      *)
(* (ops/seed.py, ops/drain_unfetchable.py).                                *)
(*                                                                         *)
(* All of them are PostgreSQL transactions at READ COMMITTED.  The         *)
(* variables domains, queue, pending and labels are the committed tables.  *)
(* A transaction is a sequence of actions, one per statement whose         *)
(* snapshot or row lock another process can tell apart; what it has        *)
(* written but not committed sits in variables of its own, and the rows it *)
(* has locked are read off those variables.                                *)
(***************************************************************************)
EXTENDS Naturals, FiniteSets

CONSTANTS
  Hosts, Posts,
  Platforms,            \* label values a host can carry
  NoPlatform, NoHost,   \* SQL NULL, and "no host claimed"
  Consumer, Resolver,   \* the two loops that call route()
  Workers,              \* the fetch loops of the worker process
  Inbox,                \* Inbox[r]: the batches of <<post, host>> pairs r will route
  RuleOf,               \* RuleOf[h]: the platform a domain_match rule gives h
  Scores,               \* confidences, in percent, of the HTML detectors
  AutoPromote, Review,  \* the two thresholds of decide_state
  MaxAttempts,          \* settings.fetch_max_attempts
  Threshold,            \* --threshold of drain_unfetchable
  Batch,                \* BATCH of the sweep
  SlowFetch,            \* TRUE: a fetch may outlive the LOCK_FOR window
  MaxTime,              \* bound: enqueued_at times that are told apart
  MaxFaults,            \* bound: crashes and exceptions
  MaxSeeds,             \* bound: runs of ops.seed
  MaxDrains             \* bound: runs of ops.drain_unfetchable

Routers == {Consumer, Resolver}
Times == 1 .. MaxTime

ASSUME ProcessesDiffer ==
  /\ Consumer # Resolver
  /\ Routers \cap Workers = {}
  /\ {"drain", "seed"} \cap (Routers \cup Workers) = {}
ASSUME NullsAreNotValues == NoPlatform \notin Platforms /\ NoHost \notin Hosts
ASSUME InboxType == Inbox \in [Routers -> SUBSET SUBSET (Posts \X Hosts)]
\* process_one routes the posts that waited for one short URL, to its one resolved host.
ASSUME ResolverRoutesOneHost == \A b \in Inbox[Resolver] : \A p, q \in b : p[2] = q[2]
ASSUME RuleType == RuleOf \in [Hosts -> Platforms \cup {NoPlatform}]
ASSUME NumberTypes ==
  /\ Scores \subseteq Nat
  /\ {AutoPromote, Review, Batch, MaxTime, MaxFaults, MaxSeeds, MaxDrains} \subseteq Nat
  /\ {MaxAttempts, Threshold} \subseteq Nat \ {0}
  /\ SlowFetch \in BOOLEAN

VARIABLES
  domains, queue, pending, labels,  \* tables: domains, fetch_queue, pending_posts, labels_emitted
  inbox,                            \* batches not routed yet
  rpc, batch, todo, cur, started,   \* routers: program counter, batch, pairs left, current pair, NOW()
  newQueue, newDomains, newPosts, newLabels,  \* routers: rows inserted, not committed
  wpc, host, verdict, backlog,      \* fetch loops: program counter, claimed host, verdict, rows read
  sweeping, swept,                  \* sweep: between SELECT and DELETE, rows read
  dpc, marked, dropped,             \* drain: program counter, domains marked, rows dropped
  lines, seeded,                    \* seed: lines of the file to come, rows written
  faults, seeds, drains,            \* how much of each bound is left
  wasRed                            \* history: <<h, platform>> of every committed red state

tables     == <<domains, queue, pending, labels, wasRed>>
routerVars == <<inbox, rpc, batch, todo, cur, started, newQueue, newDomains, newPosts, newLabels>>
workerVars == <<wpc, host, verdict, backlog>>
sweepVars  == <<sweeping, swept>>
drainVars  == <<dpc, marked, dropped, drains>>
seedVars   == <<lines, seeded, seeds>>
vars == <<tables, routerVars, workerVars, sweepVars, drainVars, faults, seedVars>>
-----------------------------------------------------------------------------
(* Rows. *)

\* ck_domains_state, and "absent" for a host with no row.
DomainStates == {"absent", "pending", "red", "green", "pending_review", "unknown", "unfetchable"}
DomainRow == [state : DomainStates, platform : Platforms \cup {NoPlatform}]
NoDomain == [state |-> "absent", platform |-> NoPlatform]

\* attempts is only ever compared with the two thresholds: it saturates above them.
AttemptCap == MaxAttempts + Threshold
QueueRow == [queued : BOOLEAN, at : Nat, attempts : 0..AttemptCap, locked : BOOLEAN]
NoRow == [queued |-> FALSE, at |-> 0, attempts |-> 0, locked |-> FALSE]
NewRow(t) == [queued |-> TRUE, at |-> t, attempts |-> 0, locked |-> FALSE]
\* Mutant: claims are not counted.
BumpNever(n) == n
Bump(n) == IF n < AttemptCap THEN n + 1 ELSE n

NoVerdict == [platform |-> NoPlatform, confidence |-> 0]
Verdict == {NoVerdict} \cup [platform : Platforms, confidence : Nat]

PendingOf(h) == {row \in pending : row[2] = h}

\* Every statement that writes domains also extends the history.
SetDomains(d) ==
  /\ domains' = d
  /\ wasRed' = wasRed \cup {<<h, d[h].platform>> : h \in {g \in Hosts : d[g].state = "red"}}
-----------------------------------------------------------------------------
(* Row locks: the rows a transaction has written and not yet committed. *)

HoldsDomain(t, h) ==
  \/ t \in Routers /\ h \in newDomains[t]
  \/ t \in Workers /\ wpc[t] = "commit" /\ host[t] = h
  \/ t = "drain" /\ h \in marked
  \/ t = "seed" /\ h \in seeded

HoldsQueueRow(t, h) == t \in Workers /\ wpc[t] = "giveup" /\ host[t] = h
HoldsQueueInsert(t, h) == t \in Routers /\ h \in newQueue[t]

Txns == Routers \cup Workers \cup {"drain", "seed"}
DomainFree(h) == \A t \in Txns : ~HoldsDomain(t, h)
QueueRowFree(h) == \A t \in Txns : ~HoldsQueueRow(t, h)
QueueInsertFree(h) == QueueRowFree(h) /\ \A t \in Txns : ~HoldsQueueInsert(t, h)
-----------------------------------------------------------------------------
(* route(): one transaction routes a batch of <<post, host>> pairs.  The   *)
(* consumer's batch is one post and its hosts, the resolver's is the posts *)
(* that waited for one short URL.  The pairs are taken in any order.       *)

\* NOW() is when a transaction began: later than every time that is still known.
KnownTimes == {queue[h].at : h \in Hosts} \cup {started[r] : r \in Routers}

Begin(r) ==
  /\ rpc[r] = "idle"
  /\ \E b \in inbox[r] :
       /\ inbox' = [inbox EXCEPT ![r] = @ \ {b}]
       /\ batch' = [batch EXCEPT ![r] = b]
       /\ todo' = [todo EXCEPT ![r] = b]
  /\ rpc' = [rpc EXCEPT ![r] = "route"]
  /\ \E now \in Times :
       /\ now - 1 \in KnownTimes /\ \A t \in KnownTimes : t < now
       /\ started' = [started EXCEPT ![r] = now]
  /\ UNCHANGED <<domains, queue, pending, labels, wasRed, cur, newQueue, newDomains, newPosts,
                 newLabels,
                 workerVars, sweepVars, drainVars, faults, seedVars>>

\* SELECT state, platform FROM domains: the transaction sees its own insert.
Lookup(r, h) ==
  IF h \in newDomains[r] THEN [state |-> "pending", platform |-> NoPlatform] ELSE domains[h]

\* Mutant: "if platform:", without looking at the state.
RouteKnownByPlatform(r) ==
  /\ rpc[r] = "route"
  /\ \E pair \in todo[r] :
       LET row == Lookup(r, pair[2]) IN
       /\ row.state # "absent"
       /\ todo' = [todo EXCEPT ![r] = @ \ {pair}]
       /\ newLabels' = [newLabels EXCEPT ![r] =
            IF row.platform # NoPlatform THEN @ \cup {<<pair[1], row.platform>>} ELSE @]
       /\ newPosts' = [newPosts EXCEPT ![r] =
            IF row.state \in {"pending", "pending_review"} THEN @ \cup {pair} ELSE @]
  /\ UNCHANGED <<tables, inbox, rpc, batch, cur, started, newQueue, newDomains,
                 workerVars, sweepVars, drainVars, faults, seedVars>>

\* The row exists: label, buffer or drop, all of it private until commit.
RouteKnown(r) ==
  /\ rpc[r] = "route"
  /\ \E pair \in todo[r] :
       LET row == Lookup(r, pair[2]) IN
       /\ row.state # "absent"
       /\ todo' = [todo EXCEPT ![r] = @ \ {pair}]
       /\ newLabels' = [newLabels EXCEPT ![r] =
            IF row.state = "red" /\ row.platform # NoPlatform
              THEN @ \cup {<<pair[1], row.platform>>} ELSE @]
       /\ newPosts' = [newPosts EXCEPT ![r] =
            IF row.state \in {"pending", "pending_review"} THEN @ \cup {pair} ELSE @]
  /\ UNCHANGED <<tables, inbox, rpc, batch, cur, started, newQueue, newDomains,
                 workerVars, sweepVars, drainVars, faults, seedVars>>

\* No row: route() goes on to three inserts, deciding by what it has just read.
RouteUnknown(r) ==
  /\ rpc[r] = "route"
  /\ \E pair \in todo[r] :
       /\ Lookup(r, pair[2]).state = "absent"
       /\ cur' = [cur EXCEPT ![r] = pair]
       /\ todo' = [todo EXCEPT ![r] = @ \ {pair}]
  /\ rpc' = [rpc EXCEPT ![r] = "enqueue"]
  /\ UNCHANGED <<tables, inbox, batch, started, newQueue, newDomains, newPosts, newLabels,
                 workerVars, sweepVars, drainVars, faults, seedVars>>

\* enqueue_host: ON CONFLICT DO NOTHING, after waiting for whoever has the key locked.
EnqueueHost(r) ==
  /\ rpc[r] = "enqueue"
  /\ LET h == cur[r][2] IN
     /\ QueueInsertFree(h)
     /\ newQueue' = [newQueue EXCEPT ![r] = IF queue[h].queued THEN @ ELSE @ \cup {h}]
  /\ rpc' = [rpc EXCEPT ![r] = "buffer"]
  /\ UNCHANGED <<tables, inbox, batch, todo, cur, started, newDomains, newPosts, newLabels,
                 workerVars, sweepVars, drainVars, faults, seedVars>>

\* Mutant: ON CONFLICT (host) DO UPDATE SET state = 'pending'.
BufferNewOverwrites(r) ==
  /\ rpc[r] = "buffer" /\ DomainFree(cur[r][2])
  /\ newPosts' = [newPosts EXCEPT ![r] = @ \cup {cur[r]}]
  /\ newDomains' = [newDomains EXCEPT ![r] = @ \cup {cur[r][2]}]
  /\ rpc' = [rpc EXCEPT ![r] = "route"]
  /\ cur' = [cur EXCEPT ![r] = <<>>]
  /\ UNCHANGED <<tables, inbox, batch, todo, started, newQueue, newLabels,
                 workerVars, sweepVars, drainVars, faults, seedVars>>

\* _buffer, then INSERT INTO domains ... 'pending' ON CONFLICT DO NOTHING.
BufferNew(r) ==
  /\ rpc[r] = "buffer"
  /\ LET h == cur[r][2] IN
     /\ DomainFree(h)
     /\ newPosts' = [newPosts EXCEPT ![r] = @ \cup {cur[r]}]
     /\ newDomains' = [newDomains EXCEPT ![r] =
          IF domains[h].state = "absent" THEN @ \cup {h} ELSE @]
  /\ rpc' = [rpc EXCEPT ![r] = "route"]
  /\ cur' = [cur EXCEPT ![r] = <<>>]
  /\ UNCHANGED <<tables, inbox, batch, todo, started, newQueue, newLabels,
                 workerVars, sweepVars, drainVars, faults, seedVars>>

ClearRouter(r) ==
  /\ rpc' = [rpc EXCEPT ![r] = "idle"]
  /\ batch' = [batch EXCEPT ![r] = {}]
  /\ todo' = [todo EXCEPT ![r] = {}]
  /\ cur' = [cur EXCEPT ![r] = <<>>]
  /\ started' = [started EXCEPT ![r] = 0]
  /\ newQueue' = [newQueue EXCEPT ![r] = {}]
  /\ newDomains' = [newDomains EXCEPT ![r] = {}]
  /\ newPosts' = [newPosts EXCEPT ![r] = {}]
  /\ newLabels' = [newLabels EXCEPT ![r] = {}]

\* The whole batch becomes visible at once; labels are unique per (post, value).
CommitRoute(r) ==
  /\ rpc[r] = "route" /\ todo[r] = {}
  /\ queue' = [h \in Hosts |-> IF h \in newQueue[r] THEN NewRow(started[r]) ELSE queue[h]]
  /\ SetDomains([h \in Hosts |->
       IF h \in newDomains[r] THEN [state |-> "pending", platform |-> NoPlatform] ELSE domains[h]])
  /\ pending' = pending \cup newPosts[r]
  /\ labels' = labels \cup newLabels[r]
  /\ ClearRouter(r)
  /\ UNCHANGED <<inbox, workerVars, sweepVars, drainVars, faults, seedVars>>

\* Rollback.  An exception ends the consumer process and Jetstream is joined live
\* again, so its event is gone; the resolver's short URL is claimed again later.
RollbackRoute(r) ==
  /\ rpc[r] # "idle"
  /\ inbox' = [inbox EXCEPT ![r] = IF r = Resolver THEN @ \cup {batch[r]} ELSE @]
  /\ ClearRouter(r)
  /\ UNCHANGED <<tables, workerVars, sweepVars, drainVars, seedVars>>
-----------------------------------------------------------------------------
(* The fetch loops: claim, fetch with no transaction open, then record.    *)

\* Mutant: locked_until is not looked at.
ClaimableIgnoresLock == {h \in Hosts : queue[h].queued /\ QueueRowFree(h)}

Claimable == {h \in Hosts : queue[h].queued /\ ~queue[h].locked /\ QueueRowFree(h)}
Claimed(row) == [row EXCEPT !.locked = TRUE, !.attempts = Bump(row.attempts)]

\* Mutant: the claim does not set locked_until.
ClaimOneUnlocked(w) ==
  /\ wpc[w] = "idle"
  /\ \E h \in Claimable :
       /\ \A g \in Claimable : queue[h].at <= queue[g].at
       /\ queue' = [queue EXCEPT ![h] = [@ EXCEPT !.attempts = Bump(@)]]
       /\ host' = [host EXCEPT ![w] = h]
  /\ wpc' = [wpc EXCEPT ![w] = "fetch"]
  /\ UNCHANGED <<domains, pending, labels, wasRed, routerVars, verdict, backlog,
                 sweepVars, drainVars, faults, seedVars>>

\* claim_one: ORDER BY enqueued_at FOR UPDATE SKIP LOCKED LIMIT 1.
ClaimOne(w) ==
  /\ wpc[w] = "idle"
  /\ \E h \in Claimable :
       /\ \A g \in Claimable : queue[h].at <= queue[g].at
       /\ queue' = [queue EXCEPT ![h] = Claimed(queue[h])]
       /\ host' = [host EXCEPT ![w] = h]
  /\ wpc' = [wpc EXCEPT ![w] = "fetch"]
  /\ UNCHANGED <<domains, pending, labels, wasRed, routerVars, verdict, backlog,
                 sweepVars, drainVars, faults, seedVars>>

\* classify_domain's rule needs no fetch; else the best HTML verdict, or none.
VerdictsFor(h) ==
  IF RuleOf[h] # NoPlatform
    THEN {[platform |-> RuleOf[h], confidence |-> 100]}
    ELSE {NoVerdict} \cup [platform : Platforms, confidence : Scores]

Classify(w) ==
  /\ wpc[w] = "fetch"
  /\ \E v \in VerdictsFor(host[w]) : verdict' = [verdict EXCEPT ![w] = v]
  /\ wpc' = [wpc EXCEPT ![w] = "finish"]
  /\ UNCHANGED <<tables, routerVars, host, backlog, sweepVars, drainVars, faults, seedVars>>

\* fetch_html raised FetchError.
FetchError(w) ==
  /\ wpc[w] = "fetch" /\ RuleOf[host[w]] = NoPlatform
  /\ wpc' = [wpc EXCEPT ![w] = "fail"]
  /\ UNCHANGED <<tables, routerVars, host, verdict, backlog, sweepVars, drainVars, faults, seedVars>>

\* Mutant: a state that ck_domains_state does not allow.
DecideStateReview(v) ==
  IF v = NoVerdict \/ v.confidence < Review THEN "green"
  ELSE IF v.confidence >= AutoPromote THEN "red" ELSE "review"

DecideState(v) ==
  CASE v = NoVerdict -> "green"
    [] v # NoVerdict /\ v.confidence >= AutoPromote -> "red"
    [] v # NoVerdict /\ v.confidence < AutoPromote /\ v.confidence >= Review -> "pending_review"
    [] OTHER -> "green"

Release(w) ==
  /\ wpc' = [wpc EXCEPT ![w] = "idle"]
  /\ host' = [host EXCEPT ![w] = NoHost]
  /\ verdict' = [verdict EXCEPT ![w] = NoVerdict]
  /\ backlog' = [backlog EXCEPT ![w] = {}]

\* fail(): UPDATE ... RETURNING attempts, and 0 when the row is gone.
Attempts(h) == IF queue[h].queued THEN queue[h].attempts ELSE 0
GivesUp(h) == Attempts(h) >= MaxAttempts

\* Mutant: every failure drops the buffered posts.
FailDropsPosts(w) ==
  /\ wpc[w] = "fail" /\ QueueRowFree(host[w]) /\ ~GivesUp(host[w])
  /\ queue' = [queue EXCEPT ![host[w]] = [@ EXCEPT !.locked = queue[host[w]].queued]]
  /\ pending' = pending \ PendingOf(host[w])
  /\ Release(w)
  /\ UNCHANGED <<domains, labels, wasRed, routerVars, sweepVars, drainVars, faults, seedVars>>

\* Below the limit the backoff is the whole transaction.
Fail(w) ==
  /\ wpc[w] = "fail" /\ QueueRowFree(host[w]) /\ ~GivesUp(host[w])
  /\ queue' = [queue EXCEPT ![host[w]] = [@ EXCEPT !.locked = queue[host[w]].queued]]
  /\ Release(w)
  /\ UNCHANGED <<domains, pending, labels, wasRed, routerVars,
                 sweepVars, drainVars, faults, seedVars>>

\* At the limit the row stays locked by this transaction while it goes on.
FailForGood(w) ==
  /\ wpc[w] = "fail" /\ QueueRowFree(host[w]) /\ GivesUp(host[w])
  /\ wpc' = [wpc EXCEPT ![w] = "giveup"]
  /\ UNCHANGED <<tables, routerVars, host, verdict, backlog, sweepVars, drainVars, faults, seedVars>>

\* Mutant: the give-up path completes the row without marking the domain.
MarkUnfetchableForgotten(w) ==
  /\ wpc[w] = "giveup" /\ DomainFree(host[w])
  /\ pending' = pending \ PendingOf(host[w])
  /\ queue' = [queue EXCEPT ![host[w]] = NoRow]
  /\ Release(w)
  /\ UNCHANGED <<domains, labels, wasRed, routerVars, sweepVars, drainVars, faults, seedVars>>

\* _mark_unfetchable (which leaves platform alone), _drop_pending, complete, commit.
MarkUnfetchable(w) ==
  /\ wpc[w] = "giveup" /\ DomainFree(host[w])
  /\ SetDomains([domains EXCEPT ![host[w]] = [@ EXCEPT !.state = "unfetchable"]])
  /\ pending' = pending \ PendingOf(host[w])
  /\ queue' = [queue EXCEPT ![host[w]] = NoRow]
  /\ Release(w)
  /\ UNCHANGED <<labels, routerVars, sweepVars, drainVars, faults, seedVars>>

\* _update_domain takes the lock on the domains row; _backlabel_pending's SELECT.
UpdateDomain(w) ==
  /\ wpc[w] = "finish" /\ DomainFree(host[w])
  /\ backlog' = [backlog EXCEPT ![w] =
       IF DecideState(verdict[w]) = "red" THEN PendingOf(host[w]) ELSE {}]
  /\ wpc' = [wpc EXCEPT ![w] = "commit"]
  /\ UNCHANGED <<tables, routerVars, host, verdict, sweepVars, drainVars, faults, seedVars>>

\* Label what the SELECT returned, DELETE by host, complete, commit.
CommitVerdict(w) ==
  LET h == host[w]
      v == verdict[w]
      s == DecideState(v)
  IN
  /\ wpc[w] = "commit"
  /\ queue[h].queued => QueueRowFree(h)
  /\ SetDomains([domains EXCEPT ![h] = [state |-> s, platform |-> v.platform]])
  /\ labels' = labels \cup {<<row[1], v.platform>> : row \in backlog[w]}
  /\ pending' = IF s \in {"red", "green"} THEN pending \ PendingOf(h) ELSE pending
  /\ queue' = [queue EXCEPT ![h] = NoRow]
  /\ Release(w)
  /\ UNCHANGED <<routerVars, sweepVars, drainVars, faults, seedVars>>

\* Any other exception, or the end of the process: the claim stays on the row.
RollbackWorker(w) ==
  /\ wpc[w] # "idle"
  /\ Release(w)
  /\ UNCHANGED <<tables, routerVars, sweepVars, drainVars, seedVars>>

\* Time passes locked_until.  Unless SlowFetch, that is after the claim's work is over.
LockExpires(h) ==
  /\ queue[h].queued /\ queue[h].locked
  /\ SlowFetch \/ \A w \in Workers : host[w] # h
  /\ queue' = [queue EXCEPT ![h] = [@ EXCEPT !.locked = FALSE]]
  /\ UNCHANGED <<domains, pending, labels, wasRed, routerVars, workerVars,
                 sweepVars, drainVars, faults, seedVars>>
-----------------------------------------------------------------------------
(* sweep_tick: a SELECT with a LIMIT, then a DELETE without one.           *)

\* Mutants: the sweep takes posts that await review, or forgets 'unfetchable'.
SettledWithReview == {"red", "green", "unfetchable", "pending_review"}
SettledBefore0006 == {"red", "green"}
Settled == {"red", "green", "unfetchable"}
\* Mutant: the sweep's SELECT has no condition on the state.
RedRowsAnyState == {row \in pending : domains[row[2]].platform # NoPlatform}
RedRows == {row \in pending : domains[row[2]].state = "red" /\ domains[row[2]].platform # NoPlatform}

SweepSelect ==
  /\ ~sweeping
  /\ \E rows \in SUBSET RedRows :
       /\ Cardinality(rows) <= Batch
       /\ Cardinality(rows) = Batch \/ rows = RedRows
       /\ swept' = {<<row[1], domains[row[2]].platform>> : row \in rows}
  /\ sweeping' = TRUE
  /\ UNCHANGED <<tables, routerVars, workerVars, drainVars, faults, seedVars>>

SweepDelete ==
  /\ sweeping
  /\ labels' = labels \cup swept
  /\ pending' = {row \in pending : domains[row[2]].state \notin Settled}
  /\ sweeping' = FALSE
  /\ swept' = {}
  /\ UNCHANGED <<domains, queue, wasRed, routerVars, workerVars, drainVars, faults, seedVars>>

RollbackSweep ==
  /\ sweeping
  /\ sweeping' = FALSE
  /\ swept' = {}
  /\ UNCHANGED <<tables, routerVars, workerVars, drainVars, seedVars>>
-----------------------------------------------------------------------------
(* Operator scripts. *)

\* ops.seed: one transaction for the file, one statement per line, and each row
\* stays locked until the commit.  The file may have its lines in any order.
SeedFirst(h) ==
  /\ seeds > 0 /\ seeded = {} /\ DomainFree(h)
  /\ lines' \in SUBSET (Hosts \ {h}) /\ seeded' = {h}
  /\ seeds' = seeds - 1
  /\ UNCHANGED <<tables, routerVars, workerVars, sweepVars, drainVars, faults>>

SeedLine(h) ==
  /\ h \in lines /\ DomainFree(h)
  /\ lines' = lines \ {h} /\ seeded' = seeded \cup {h}
  /\ UNCHANGED <<tables, routerVars, workerVars, sweepVars, drainVars, faults, seeds>>

\* One --state for all; COALESCE keeps the platform if --platform is left out.
Seeded(s, p) ==
  [h \in Hosts |->
     IF h \in seeded
     THEN [state |-> s, platform |-> IF p # NoPlatform THEN p ELSE domains[h].platform]
     ELSE domains[h]]

SeedCommit(s, p) ==
  /\ seeded # {} /\ lines = {}
  /\ SetDomains(Seeded(s, p))
  /\ seeded' = {}
  /\ UNCHANGED <<queue, pending, labels, routerVars, workerVars, sweepVars, drainVars,
                 faults, lines, seeds>>

RollbackSeed ==
  /\ seeded # {}
  /\ lines' = {} /\ seeded' = {}
  /\ UNCHANGED <<tables, routerVars, workerVars, sweepVars, drainVars, seeds>>

\* Mutant: the threshold is off by one.
ChronicEarly == {h \in Hosts : queue[h].queued /\ queue[h].attempts + 1 >= Threshold}
Chronic == {h \in Hosts : queue[h].queued /\ queue[h].attempts >= Threshold}

\* drain(): three statements, each over the queue as it finds it.
DrainMark ==
  /\ dpc = "idle" /\ drains > 0
  /\ \A h \in Chronic : DomainFree(h)
  /\ marked' = Chronic
  /\ dpc' = "drop"
  /\ drains' = drains - 1
  /\ UNCHANGED <<tables, routerVars, workerVars, sweepVars, dropped, faults, seedVars>>

DrainDrop ==
  /\ dpc = "drop"
  /\ dropped' = {row \in pending : row[2] \in Chronic}
  /\ dpc' = "delete"
  /\ UNCHANGED <<tables, routerVars, workerVars, sweepVars, marked, drains, faults, seedVars>>

DrainDelete ==
  /\ dpc = "delete"
  /\ \A h \in Chronic : QueueRowFree(h)
  /\ SetDomains([h \in Hosts |->
       IF h \in marked THEN [domains[h] EXCEPT !.state = "unfetchable"] ELSE domains[h]])
  /\ pending' = pending \ dropped
  /\ queue' = [h \in Hosts |-> IF h \in Chronic THEN NoRow ELSE queue[h]]
  /\ dpc' = "idle" /\ marked' = {} /\ dropped' = {}
  /\ UNCHANGED <<labels, routerVars, workerVars, sweepVars, drains, faults, seedVars>>

RollbackDrain ==
  /\ dpc # "idle"
  /\ dpc' = "idle" /\ marked' = {} /\ dropped' = {}
  /\ UNCHANGED <<tables, routerVars, workerVars, sweepVars, drains, seedVars>>
-----------------------------------------------------------------------------
(* PostgreSQL's deadlock detector aborts one transaction of a wait cycle.  *)

NeedsDomain(t, h) ==
  \/ t \in Routers /\ rpc[t] = "buffer" /\ cur[t][2] = h
  \/ t \in Workers /\ wpc[t] \in {"finish", "giveup"} /\ host[t] = h
  \/ t = "seed" /\ h \in lines

NeedsQueueRow(t, h) ==
  \/ t \in Routers /\ rpc[t] = "enqueue" /\ cur[t][2] = h
  \/ t \in Workers /\ wpc[t] \in {"fail", "commit"} /\ host[t] = h
  \/ t = "drain" /\ dpc = "delete" /\ h \in Chronic

\* u waits for a row that t has locked.
Blocks(t, u) ==
  \E h \in Hosts :
    \/ NeedsDomain(u, h) /\ HoldsDomain(t, h)
    \/ NeedsQueueRow(u, h) /\ HoldsQueueRow(t, h)
    \/ NeedsQueueRow(u, h) /\ u \in Routers /\ HoldsQueueInsert(t, h)

Waiting == {u \in Txns : \E t \in Txns \ {u} : Blocks(t, u)}

\* Each is on a cycle of waits through the others: no part of S could go on if the
\* rest of S did not.
Deadlocked(S) ==
  /\ Cardinality(S) > 1
  /\ \A T \in (SUBSET S) \ {{}, S} : \E u \in T, t \in S \ T : Blocks(t, u)

Rollback(t) ==
  \/ t \in Routers /\ RollbackRoute(t)
  \/ t \in Workers /\ RollbackWorker(t)
  \/ t = "drain" /\ RollbackDrain
  \/ t = "seed" /\ RollbackSeed

DeadlockVictim ==
  \E S \in SUBSET Waiting : Deadlocked(S) /\ \E t \in S : Rollback(t) /\ UNCHANGED faults

\* A crash, a lost connection or an exception nobody expected.
Fault ==
  /\ faults > 0 /\ faults' = faults - 1
  /\ (\E t \in Txns : Rollback(t)) \/ RollbackSweep
-----------------------------------------------------------------------------
Init ==
  /\ domains = [h \in Hosts |-> NoDomain]
  /\ queue = [h \in Hosts |-> NoRow]
  /\ pending = {} /\ labels = {} /\ wasRed = {}
  /\ inbox = Inbox
  /\ rpc = [r \in Routers |-> "idle"]
  /\ batch = [r \in Routers |-> {}]
  /\ todo = [r \in Routers |-> {}]
  /\ cur = [r \in Routers |-> <<>>] /\ started = [r \in Routers |-> 0]
  /\ newQueue = [r \in Routers |-> {}]
  /\ newDomains = [r \in Routers |-> {}]
  /\ newPosts = [r \in Routers |-> {}]
  /\ newLabels = [r \in Routers |-> {}]
  /\ wpc = [w \in Workers |-> "idle"]
  /\ host = [w \in Workers |-> NoHost]
  /\ verdict = [w \in Workers |-> NoVerdict]
  /\ backlog = [w \in Workers |-> {}]
  /\ sweeping = FALSE /\ swept = {}
  /\ dpc = "idle" /\ marked = {} /\ dropped = {} /\ lines = {} /\ seeded = {}
  /\ faults = MaxFaults /\ seeds = MaxSeeds /\ drains = MaxDrains

RouterStep(r) ==
  RouteKnown(r) \/ RouteUnknown(r) \/ EnqueueHost(r) \/ BufferNew(r) \/ CommitRoute(r)

\* The transaction that records a fetch: its statements wait for row locks.
Record(w) ==
  Fail(w) \/ FailForGood(w) \/ MarkUnfetchable(w) \/ UpdateDomain(w) \/ CommitVerdict(w)

WorkerStep(w) == ClaimOne(w) \/ Classify(w) \/ FetchError(w) \/ Record(w)

\* The rest of the script once it has begun.
SeedStep ==
  \/ \E h \in Hosts : SeedLine(h)
  \/ \E s \in {"red", "green"}, p \in Platforms \cup {NoPlatform} : SeedCommit(s, p)

Seed == SeedStep \/ \E h \in Hosts : SeedFirst(h)

Next ==
  \/ \E r \in Routers : Begin(r) \/ RouterStep(r)
  \/ \E w \in Workers : WorkerStep(w)
  \/ \E h \in Hosts : LockExpires(h)
  \/ SweepSelect \/ SweepDelete
  \/ Seed
  \/ DeadlockVictim \/ Fault

\* The services and ops.seed.
Spec == Init /\ [][Next]_vars

\* The same with ops.drain_unfetchable run beside them.
OpsNext == Next \/ DrainMark \/ DrainDrop \/ DrainDelete
OpsSpec == Init /\ [][OpsNext]_vars

\* The loops, time and the deadlock detector never stop, and a transaction that
\* waits for a row lock gets it in its turn (hence SF: others may take the lock
\* in between).  A new post, a fault or an operator need not come.
Fairness ==
  /\ \A r \in Routers : SF_vars(RouterStep(r))
  /\ \A w \in Workers : WF_vars(WorkerStep(w)) /\ SF_vars(Record(w))
  /\ \A h \in Hosts : WF_vars(LockExpires(h))
  /\ WF_vars(SweepSelect) /\ WF_vars(SweepDelete)
  /\ WF_vars(DeadlockVictim) /\ SF_vars(SeedStep)

FairSpec == Spec /\ Fairness
-----------------------------------------------------------------------------
Pairs == Posts \X Hosts

TypeTables ==
  /\ domains \in [Hosts -> DomainRow] /\ queue \in [Hosts -> QueueRow]
  /\ pending \subseteq Pairs /\ labels \subseteq Posts \X Platforms
  /\ wasRed \subseteq Hosts \X (Platforms \cup {NoPlatform})

TypeRouters ==
  /\ inbox \in [Routers -> SUBSET SUBSET Pairs]
  /\ rpc \in [Routers -> {"idle", "route", "enqueue", "buffer"}]
  /\ batch \in [Routers -> SUBSET Pairs] /\ todo \in [Routers -> SUBSET Pairs]
  /\ cur \in [Routers -> Pairs \cup {<<>>}] /\ started \in [Routers -> Nat]
  /\ \A r \in Routers : rpc[r] \in {"enqueue", "buffer"} => cur[r] \in Pairs
  /\ newQueue \in [Routers -> SUBSET Hosts] /\ newDomains \in [Routers -> SUBSET Hosts]
  /\ newPosts \in [Routers -> SUBSET Pairs]
  /\ newLabels \in [Routers -> SUBSET (Posts \X Platforms)]

TypeWorkers ==
  /\ wpc \in [Workers -> {"idle", "fetch", "fail", "giveup", "finish", "commit"}]
  /\ host \in [Workers -> Hosts \cup {NoHost}]
  /\ \A w \in Workers : wpc[w] # "idle" => host[w] \in Hosts
  /\ verdict \in [Workers -> Verdict] /\ backlog \in [Workers -> SUBSET Pairs]
  /\ \A w \in Workers : backlog[w] # {} => wpc[w] = "commit" /\ verdict[w].platform \in Platforms

TypeRest ==
  /\ sweeping \in BOOLEAN /\ swept \subseteq Posts \X Platforms
  /\ dpc \in {"idle", "drop", "delete"} /\ marked \subseteq Hosts /\ dropped \subseteq Pairs
  /\ lines \subseteq Hosts /\ seeded \subseteq Hosts /\ (lines # {} => seeded # {})
  /\ faults \in Nat /\ seeds \in Nat /\ drains \in Nat

\* Every variable has its type; a process inside a transaction knows its row, and
\* a fetch loop that holds posts to label has a platform for them.
TypeOK == TypeTables /\ TypeRouters /\ TypeWorkers /\ TypeRest

\* A host the program says is being looked at is in the fetch queue, whatever
\* stale read a router acted on: route() relies on it when it buffers a post of
\* a 'pending' host without queueing anything (routing.py:94).
PendingIsQueued == \A h \in Hosts : domains[h].state = "pending" => queue[h].queued

\* A buffered post is deleted only once its host is decided: never while the
\* host is pending, nor while it awaits human review (reconcile.py:10).
DropNeedsDecision ==
  [][\A row \in pending \ pending' :
       domains'[row[2]].state \in {"red", "green", "unfetchable"}]_vars

\* A post is labelled only with a platform that one of its own links' hosts
\* carried while it was red, whichever of the four paths wrote the label.
LabelNeedsRed ==
  \A label \in labels :
    \E r \in Routers : \E b \in Inbox[r] : \E pair \in b :
      pair[1] = label[1] /\ <<pair[2], label[2]>> \in wasRed

\* A host that has been decided is never reopened: a router acting on a stale
\* "no such row" must not write 'pending' over the decision (migration 0004).
NeverReopened ==
  [][\A h \in Hosts : domains'[h].state \in {"absent", "pending"} =>
       domains[h].state \in {"absent", "pending"}]_vars

\* A host becomes unfetchable only after as many claims as the give-up path or
\* the drain asks for, though both read the count in one statement and write the
\* domain in another.
UnfetchableIsEarned ==
  [][\A h \in Hosts :
       domains'[h].state = "unfetchable" /\ domains[h].state # "unfetchable" =>
         queue[h].attempts >= MaxAttempts \/ queue[h].attempts >= Threshold]_vars

\* Two fetch loops never work on one host while fetches end within LOCK_FOR:
\* "locked_until keeps other loops off the row during the fetch window"
\* (worker/main.py:117).
OneFetcherPerHost ==
  \A v, w \in Workers : v # w /\ host[v] # NoHost => host[v] # host[w]

\* The services lock hosts and queue rows in orders of their own and never wait for
\* each other in a circle, of two or more; a deadlock takes a seed, which locks hosts
\* in the order of its file.
DeadlockTakesSeed == \A S \in SUBSET Waiting : Deadlocked(S) => "seed" \in S

\* A buffered post does not stay buffered, unless its host waits for a human.
BufferedIsSettled ==
  \A row \in Pairs :
    row \in pending ~> (row \notin pending \/ domains[row[2]].state = "pending_review")

\* Every host in the fetch queue leaves it.
QueueDrains == \A h \in Hosts : queue[h].queued ~> ~queue[h].queued
-----------------------------------------------------------------------------
(* What the services and the seed come to, transaction by transaction.     *)

LinkPairs == {pair \in Posts \X Hosts : \E r \in Routers : \E b \in Inbox[r] : pair \in b}

Lifecycle == INSTANCE HostLifecycle WITH Links <- LinkPairs, buffered <- pending, everRed <- wasRed

\* Every committed step of routers, fetch loops, sweep and seed is a step of
\* HostLifecycle, though each acts on what it read some statements earlier.
TriageIsLifecycle == Lifecycle!Spec
-----------------------------------------------------------------------------
(* What documents and comments say of the program, and the runs refute. *)

\* A buffered post of a red host is deleted, by the back-label or by the sweep, only
\* when it has its label ("they're either now labeled or never will be",
\* reconcile.py:8; "back-labels buffered posts", README.md:13).
RedPostsAreLabelled ==
  [][\A row \in pending \ pending' :
       domains'[row[2]].state = "red" /\ domains'[row[2]].platform # NoPlatform =>
         <<row[1], domains'[row[2]].platform>> \in labels']_vars

\* "For every host in fetch_queue whose attempts >= --threshold, writes a domain
\* row with state='unfetchable' ... and deletes it from fetch_queue"
\* (drain_unfetchable.py:3): no host is deleted without being marked.
DrainMarksWhatItDeletes ==
  [][DrainDelete =>
       \A h \in Hosts : queue[h].queued /\ ~queue'[h].queued => domains'[h].state = "unfetchable"]_vars
=============================================================================
