# snubstack, in TLA+

snubstack watches the Bluesky firehose for posts that link to newsletter
platforms and labels them through an Ozone moderation service. This directory
models the parts of it whose correctness depends on the order in which its
processes and transactions run, checks them with TLC, and proves what matters
most with TLAPS.

Line numbers are those of `src/snubstack/…` in the repository (so
`worker/main.py:78` is `src/snubstack/worker/main.py`, line 78).

## 1. Inventory

### Processes and shared state

Two long-running Python processes and a few operator scripts share one
PostgreSQL database; there is no other channel between them. Every transaction
runs at READ COMMITTED: each *statement* sees what is committed when it starts,
and an INSERT or UPDATE waits for a transaction that holds the same key or row.
Most of what can go wrong comes from these two facts.

| Component | Source | State it keeps | Operations | Talks to |
|---|---|---|---|---|
| Jetstream client | `consumer/jetstream.py` | a websocket, no cursor | `stream_post_commits`: connect, yield, reconnect with backoff | consumer loop |
| URL extraction, normalisation | `consumer/extract.py`, `urls.py` | none | facets and embeds to URLs to hosts | consumer loop, resolver |
| Consumer loop | `consumer/main.py` | one transaction per post | `main`; ends on any exception, restarted by its container | routing |
| Routing | `consumer/routing.py` | `domains`, `pending_posts`, reads the shortener cache | `route_url`, `route` | queues, outbox |
| Fetch queue | `queue.py` | `fetch_queue` (`enqueued_at`, `attempts`, `locked_until`) | `enqueue_host`, `claim_one`, `complete`, `fail` | routing, fetch loops |
| Fetch loops | `worker/main.py` | `domains`, `pending_posts`, `labels_emitted` | `process_one`, `_backlabel_pending`, `_mark_unfetchable` | queue, classification, outbox |
| Classification | `worker/classify.py`, `detectors/`, `worker/fetcher.py` | none | rules on hosts, scores on HTML, `decide_state` | the web |
| Reconcile sweep | `worker/reconcile.py` | none of its own | `sweep_tick` | `pending_posts`, outbox |
| Label outbox | `labels.py` | `labels_emitted` (`status`, `neg`) | `enqueue_label`, `deliver_pending`, `outbox_loop` | Ozone client |
| Ozone client | `ozone/client.py` | a session | `emit_label` | Ozone |
| Shortener queue, cache, buffer | `shorteners.py` | `shortener_queue`, `shortener_resolutions`, `shortener_pending` | `lookup`, `enqueue`, `buffer_post`, `claim_one`, `cache_resolution`, `take_buffered`, `complete` | routing, resolver |
| Resolver loop | `worker/resolver.py` | as above | `process_one` | the web, routing |
| Operator scripts | `ops/` | none | `seed`, `drain_unfetchable`, `negate_labels`, `promote_shadow` | all tables |
| Heron reports | `heron/` | `heron_push_state`, a cached token | `push_loop`: snapshot, time series, bookmark; `ingest` with one retry on 401 | Heron, `labels_emitted` |
| Schema, configuration | `models.py`, `migrations/`, `config.py`, `db.py` | the tables, the settings | migrations, start-up | everything |

### The life of a post

The consumer looks each link's host up in `domains`. A red host labels the post
at once; a pending one buffers it in `pending_posts`; an unknown one is queued,
buffered and entered as `pending`; any other state drops it. A fetch loop claims
the host, commits, fetches and classifies it with no transaction open, then
records the verdict, labels the buffered posts of a red host and deletes the
buffered posts of a red or green one; after `fetch_max_attempts` failures the
host becomes `unfetchable` and its posts are dropped. The sweep picks up posts
that were buffered meanwhile. A label is a row of `labels_emitted`, `pending`
when `EMIT_LABELS` is on and `shadow` when it is off; the outbox sends pending
rows to Ozone. A short link takes a detour: it is queued and the post buffered
until the resolver has followed it, and then routed as before.

### What is hard here, and what makes each part correct

- **Routing and triage.** Two routers may meet one unknown host at once, and
  while a fetch loop decides it. A host shown as `pending` must be in the queue,
  or nobody ever looks at it; a decision must not be overwritten by `pending`;
  posts must not be deleted before their host is decided; labels must be
  justified. `domains` and `fetch_queue` are locked in different orders on
  different paths, so deadlocks have to be ruled out or survived.
- **Claims that expire.** Both queues lend a row for `LOCK_FOR` and never check
  at the end whether they still own it.
- **Delivery.** A request to Ozone and the record of its outcome cannot be one
  atomic step. A timeout, a crash or a restart between them repeats a request, and
  a repeated request can arrive after the label was negated.
- **Short links.** `lookup`, `enqueue` and `buffer_post` are three statements
  that race the resolver's `cache_resolution`, `take_buffered` and `complete`.
- **Reports.** Snapshot, time series and bookmark are three transactions and two
  requests. Rows are stamped before they are visible, and what is behind the
  bookmark is never looked at again. The time series must get every label once,
  and where the code cannot promise that, only the labels it cannot promise it for
  may be missing or double.
- **The stream.** There is no cursor: what is sent while nobody is connected is
  lost, an exception ends the process with all it has not read, and a clean close
  ends the stream. What does get through must get through whole, once and in order,
  and the consumer must come back.
- **Links.** The spelling of a host must not decide which rule it meets.

The complete list, by line, with the properties that cover each entry, is
`hazards` in `PROJECT.json`.

## 2. Plan

| # | Module | Status | What it is for |
|---|---|---|---|
| 1 | `HostTriage` (+ `MCHostTriage`, `HostTriageProofs`) | done | routers, fetch queue and loops, sweep, seed, drain |
| 2 | `LabelOutbox` (+ `MCLabelOutbox`, `LabelOutboxProofs`, `OneOutboxProofs`) | done | outbox, Ozone, `negate_labels`, `promote_shadow`, `EMIT_LABELS` |
| 3 | `Shorteners` (+ `MCShorteners`, `ShortenersProofs`, `ShortenerPathProofs`) | done | `route_url`, the resolver and their three tables |
| 4 | `HeronPush` (+ `MCHeronPush`, `HeronPushProofs`) | done | push window, ingest before bookmark, crash between them, 401 and refresh |
| 5 | `PostLinks` | done | `urls.py`, `extract.py`, `domain_match.py`: pure operators |
| 6 | `FirehoseConsumer` (+ `MCFirehoseConsumer`, `FirehoseConsumerProofs`) | done | reconnection without a cursor, clean close, an exception that ends the process; uses 5 |
| 7 | `HostLifecycle` (+ `HostLifecycleProofs`) | done | abstract specification of hosts, buffered posts and labels; `HostTriage` implements it |
| 8 | `LabelDelivery` | done | abstract specification of a label (wanted, in force, taken back); `LabelOutbox` implements it |

How they compose: 6 hands posts to 1 and 3 (what its `log` holds is their `Inbox`
and `Links`); 3 hands resolved links to 1 (its `routed` is the resolver's `Inbox`
of 1); 1 hands labels to 2 (its `labels` are the `Labels` of 2); 4 reads what 2
marks emitted. Nothing flows back along any of these, which is why they can be
checked apart: each takes any input that the one before it can give.

Every safety property that a passing run checks is also stated by a theorem
(section 5); what is left to TLC alone is liveness.

## 3. How the models correspond to the code

Shared conventions:

- The tables in the database are variables; what a transaction has written but
  not committed is in variables of its own, from which the row locks it holds are
  read off. A transaction is one action per statement *that another process can
  tell apart*: a statement that only touches private rows, and the last statement
  of a transaction together with its commit, share an action. Statements that
  can wait for a lock have the lock's freedom as a guard.
- An exception, a lost connection or a crash at any point is a rollback (`Fault`,
  `Crash`), bounded by `MaxFaults`.
- Rows that matter only as a set are a set: two identical `pending_posts` rows
  are one, and the unique `(post, value)` of `labels_emitted` is a set of pairs.
- HTTP exchanges are reduced to their answers.

### `HostTriage`

| Variables | Code |
|---|---|
| `domains`, `queue`, `pending`, `labels` | committed `domains`, `fetch_queue`, `pending_posts`, `labels_emitted` |
| `inbox`, `rpc`, `batch`, `todo`, `cur`, `started`, `new…` | one transaction of the consumer (`consumer/main.py`) or of the resolver's dispatch |
| `wpc`, `host`, `verdict`, `backlog` | locals of `process_one` |
| `sweeping`, `swept` | between the two statements of `sweep_tick` |
| `dpc`, `marked`, `dropped` | between the three statements of `drain` |
| `started` | `NOW()`, which is the start of the transaction and later than any time still on record |
| `lines`, `seeded` | one run of `load`: lines to come, rows written and locked |
| `wasRed` | history |

| Actions | Code |
|---|---|
| `Begin`, `RouteKnown`, `RouteUnknown`, `EnqueueHost`, `BufferNew`, `CommitRoute`, `RollbackRoute` | `route`, `_buffer`, `enqueue_host`, `session.begin()` |
| `ClaimOne`, `LockExpires` | `claim_one`: oldest first, `SKIP LOCKED`, `locked_until` |
| `Classify`, `FetchError` | `classify_domain`, `fetch_html` |
| `Fail`, `FailForGood`, `MarkUnfetchable` | `fail`, then `_mark_unfetchable`, `_drop_pending`, `complete` |
| `UpdateDomain`, `CommitVerdict`, `RollbackWorker` | `_update_domain`, `_backlabel_pending`, `_drop_pending`, `complete` |
| `SweepSelect`, `SweepDelete`, `RollbackSweep` | `sweep_tick` |
| `SeedFirst`, `SeedLine`, `SeedCommit`, `RollbackSeed` | `ops/seed.py` `load`: a statement per line, one commit |
| `DrainMark`, `DrainDrop`, `DrainDelete`, `RollbackDrain` | `ops/drain_unfetchable.py` `drain` |
| `DeadlockVictim` | PostgreSQL aborts one transaction of a wait cycle, of any length |

Abstractions. `attempts` is only compared with two thresholds, so it saturates
above both. The verdict of a fetched page is any that the detectors can give
(`Scores` has one value for each side of the two thresholds that matters).
`locked_until` is a flag that time clears. A verdict's `platform` and its
`label_val` are one value, as in every detector. The `(post, value)` key of
`labels_emitted` can make two transactions wait for each other; that wait is not
modelled, the abort it may end in is an instance of `Fault`. The lines of a seed
file are hosts as `route` writes them. Of times, only the order matters, and only
while some row or transaction still bears them: `MaxTime` values suffice. The pairs of a batch are routed in any order. The drain's first
statement waits for all the rows it will lock at once. Locks of deleted rows are
taken with the commit that follows, which commutes with the statements between.

### `LabelOutbox`

A row is named by its unique key `<<label, neg>>`. `status` and `id` are the
table; `emit` is the setting each process read when it started; `pc`, `claimed`
and `cur` are the locals of `deliver_pending`; `stray` holds requests whose client
gave up and which Ozone may still apply; `live` is what is in force at Ozone;
`applied` and `lost` are history.

| Actions | Code |
|---|---|
| `EnqueueLabel` | `enqueue_label` (`ON CONFLICT DO NOTHING`) |
| `ClaimPending` | `_claim_pending`; its commit releases the locks (`labels.py:110`) |
| `Send`, `OzoneApplies`, `OzoneRejects` | `emit_label` and its answer; an answer of 400 or more is taken to have had no effect |
| `MarkEmitted`, `MarkFailed` | `_mark_emitted`, `_mark_failed` |
| `Crash`, `Abort` | `outbox_loop` logs whatever escapes and starts again; a killed process |
| `Restart` | an operator changes `EMIT_LABELS` and restarts a process |
| `Negate`, `Promote` | `ops/negate_labels.py`, `ops/promote_shadow.py` |
| `StrayApplies`, `StrayVanishes` | the network |

Rows become visible in the order of their ids.

### `Shorteners`

`cache`, `queue` and `locked`, and `buffered` are the three tables. A process
walks `<<post, url, hops>>` items (`todo`) with the actions `Route`, `Follow`,
`Drop`, `Miss`, `EnqueueAndBuffer`, which are `route_url`; the consumer adds
`Begin` and `CommitConsumer`, the resolver `Claim`, `Resolve`, `CacheAndTake` and
`CommitResolver`, which are `process_one`. A walk that ends at a host outside
the shorteners is `routed`, where `HostTriage` begins. `Leads` says where the
network leads a URL; `Resolve` may also return an error. The order of claims is
left open, which allows more than `ORDER BY enqueued_at` does.

### `HostLifecycle` and `LabelDelivery`

Each is what a component comes to when transactions are single steps and nothing
is stale, late or repeated. The refinement mappings are in `HostTriage`
(`buffered <- pending`, `everRed <- wasRed`) and in `LabelOutbox` (`Asked`, `Given`,
`Confirmed`, `Retracted`, from the rows' statuses and from what Ozone applied).

| Concrete step | Abstract step |
|---|---|
| `CommitRoute` | `Arrive`: new hosts come under triage, posts wait for known hosts, labels are justified |
| `CommitVerdict`, `MarkUnfetchable` | `Decide`: what waits for the host goes, labelled if red |
| `SweepDelete` | `Settle` |
| `SeedCommit` | `Override` |
| `EnqueueLabel` / `OzoneApplies`, `StrayApplies` | `Ask` / `PutInForce` or `TakeBack` |
| `MarkEmitted`, `MarkFailed` | `Confirm` or `Forget` (a second outbox overwrites) |
| `Negate` | `Retract` |
| all others | a stutter |

`HostLifecycle` does not say that a red host's posts are labelled when they go:
the code does not do that (`late_post`).

### `HeronPush`

| Variables | Code |
|---|---|
| `row`, `at` | `labels_emitted`: pending, stamped but not committed, emitted; `delivered_at` |
| `mark` | `heron_push_state.last_pushed_at` |
| `pc`, `report`, `data`, `now` | locals of `_push_once` and `ingest` |
| `token`, `retried` | `HeronClient._token`, and whether `ingest` is in its second attempt |
| `counts`, `series`, `stray` | Heron: the snapshot, the time series, requests nobody waits for |
| `late`, `marks`, `unsaved`, `again` | history |

| Actions | Code |
|---|---|
| `Stamp`, `CommitStamp`, `RollbackStamp` | `_mark_emitted` (`labels.py:81`) |
| `PushCounts`, `TakeNow`, `PushTimeseries`, `Save` | `_push_counts`, `_push_timeseries` |
| `GetToken`, `TokenAges`, `Accepted`, `Unauthorised`, `RefusedAgain` | `_get_token`, `ingest` |
| `Fails` | any other exception: `push_loop` logs it and sleeps; a worker that is killed |
| `Revoke`, `StrayApplies`, `StrayVanishes`, `Tick` | Heron, the network, the clock |

A row is one label; Heron's grouping by hour, value and host is left out, since rows
are only ever added up. Pushes do not wait for an hour: any two may be as close as
they like. The worker's clock does not run backwards.

### `PostLinks` and `FirehoseConsumer`

A host is the sequence of its labels, so that the suffix rules and `www.` are what
they are in the code; lower case, tracking keys and the labels IDNA refuses are
constants. A link is what `urlsplit` gives, less what `normalize` only copies.

`feed` is everything that happens on the network; `wire` is what the open
connection has sent and the process has not read; `gone` is what never reached
the tables. `Connect`, `ConnectFails`, `WaitIsOver`, `StreamEnds` are
`stream_post_commits`; `Skip`, `Read`, `RouteUrl`, `Commit`, `Choke`, `Crash` are
`main`; `Restart` is `restart: unless-stopped`. A routed link is only logged, in
commit order: its effect is the business of `HostTriage` and `Shorteners`. A message
has the fields the code looks at; `walks` says that `iter_urls` does not raise on it.

## 4. Runs

| Run | Question | Bounds, and why they suffice |
|---|---|---|
| `triage_safety` | Do tables, labels and deletions agree, does one loop have a host at a time, do the services ever deadlock by themselves, when fetches end within `LOCK_FOR`? | both routers, 2 hosts (one fetched, one decided by a rule), a post with two links, 2 loops, 1 crash, 1 seed of one or two lines: every pair of processes can meet on a host, a transaction can hold one host while it waits for another, and a seed closes cycles of two and three |
| `triage_live` | Is triage a `HostLifecycle`, when fetches outlive `LOCK_FOR` too? Does every host leave the queue, every buffered post get settled? | 1 host, 2 posts so that one can arrive at any point of the other's triage, 2 loops, 2 platforms so that their verdicts can differ, 1 crash, 2 attempts |
| `triage_ops` | What holds beside `drain_unfetchable`? | 1 host met by both routers, 2 loops, 1 drain, 1 crash |
| `late_post` | Is every post of a red host labelled before it is deleted? (No.) | 1 host, 2 posts |
| `drain_race` | Does the drain mark what it deletes? (No.) | 1 host |
| `outbox_one` | One outbox: do the table and Ozone agree, does every pending row get an outcome? | 2 labels (so a batch can lose its second row), batch of 2, 2 faults (an attempt lost and its retry lost too), 1 restart, 2 scripts (a promotion and a negation) |
| `outbox_two` | Is it still a `LabelDelivery` with two worker processes? | 2 labels, batch of 1, 1 fault, 1 script |
| `short_chain` | Does every accepted link end somewhere, and does every queued URL get an answer? | a URL that leads to another, one that leads to itself, a post at each, 1 hop (so that a walk can be too long), 2 resolvers that outlive their locks, 1 fault |
| `short_orphan` | Is every buffered post dispatched in the end? (No.) | 2 posts of one link |
| `heron` | Which labels can the time series count twice, or never? Does it get all the others? | 2 rows, so that a window can hold one, both or none; 3 times, so that a stamp can be before, on and after a bookmark; 2 faults (a lost answer and what becomes of it); 2 revoked tokens, so that a retry can be refused |
| `consumer` | Is every post routed whole, once, in order, or lost for a reason? Does the consumer come back? | 3 messages of 5 shapes, so that there is one before, in and after what goes wrong; 2 faults |
| `clean_close` | Does the process come back by itself? (No.) | 1 message, no fault |

The passing runs reach between 43 thousand (`triage_live`) and 1.6 million (`heron`)
distinct states.

Deadlock is checked in the triage, Heron and consumer runs (the sweep, the push
and the consumer never stop). In the outbox and shortener runs it is not: once
inbox, faults and scripts are used up and nothing is pending, the system rightly
idles. `outbox_two` uses symmetry of labels and outboxes, `triage_safety` of fetch
loops; the liveness runs use none. Every bound is a constant: `MaxFaults`,
`MaxSeeds`, `MaxDrains`, `MaxRestarts`, `MaxScripts`, `MaxRevokes`, `MaxClock`,
`MaxTime`, `MaxMessages`, `Inbox`, `Links`, `MaxHops`, and `AttemptCap`. `MaxTime`
is never reached: a fifth time adds no state.

### Fairness

Loops have weak fairness: `_fetch_loop`, `sweep_loop`, `resolver_loop`,
`outbox_loop` and `push_loop` catch what their bodies raise and go on for ever, and
time passes, so locks expire. Transactions that wait for a row lock have strong
fairness: PostgreSQL queues waiters and hands the lock over in turn, so a
transaction that is enabled again and again is not passed over for ever. New
posts, faults, restarts by an operator and scripts need not happen. Fetches and
resolutions end (HTTP clients have timeouts), and Ozone and Heron answer or the
attempt counts as a fault. Faults are bounded: the claims are of what happens once
they stop. In particular an exception other than `FetchError` at every attempt is
outside the claim; the code would retry such a host for ever, because `attempts` is
only compared in `fail()`'s caller. The consumer has two specifications: `FairSpec`,
in which its container is restarted whatever its exit status
(`docker-compose.yml:70`), and `ProcessSpec`, in which the process is on its own.
Closing the connection is never fair, so `ComesBack` says no more than that a
consumer without a connection gets one.

### What the failing runs show

Each is a behaviour of the code that disagrees with what it says of itself.

- `late_post`: `_backlabel_pending` selects the buffered posts of a host and
  then deletes by host. A post committed in between is deleted unlabelled, so the
  sweep that was written for late posts never sees it. `sweep_tick` has the same
  gap between its own two statements.
- `drain_race`: the three statements of `drain` see three sets of hosts. One that
  is claimed in between reaches the threshold, and leaves the queue without being
  marked: a host that stays `pending` for ever and is buffered for ever. This is
  why `PendingIsQueued` is claimed of the services and not beside the drain.
- `short_orphan`: a post whose lookup precedes the resolver's answer and whose
  commit follows `take_buffered` stays in `shortener_pending`; the URL is no longer
  queued and later posts find the cached answer.
- `clean_close`: `async for raw in ws` ends without an exception when the server
  closes the connection with a handshake. The attempt has then succeeded,
  `AsyncRetrying` is done, and the comment "exponential backoff and reconnect"
  (`consumer/jetstream.py:44`) describes what only the container's restart does.

## 5. Proofs

Everything below holds for every value of the constants that meets the named
assumptions: any number of hosts, posts, loops, outboxes, resolvers, rows and
faults. Most of the assumptions are of the kind "processes differ, NULLs are not
values, numbers are naturals, sets of labels are finite". These say more:

| Assumption | Why the code justifies it |
|---|---|
| `ResolverRoutesOneHost` (`HostTriage`) | the resolver dispatches the posts of one short URL, to the one URL it leads to (`worker/resolver.py:59`) |
| `RulesInPairs` (`PostLinks`) | `RULES` has each domain with and without the match for its subdomains, and none begins with `www` (`detectors/domain_match.py`) |
| `MessageTypes` (`FirehoseConsumer`) | what `iter_urls` yields is a list of URLs, and the host of one is a list of labels |
| `SlowFetch = FALSE`, in two theorems | a request has `fetch_timeout_seconds` (10 s), a lock lasts 5 minutes (`worker/main.py:28`) |
| `OneOutbox`, in four theorems | `docker-compose.yml` runs one worker |

The last two are hypotheses of the theorems that need them, not of the modules:
`triage_live`, `triage_ops` and `outbox_two` check the other cases.

| Theorem | States |
|---|---|
| `HostTriageProofs!TypeCorrect` | `OpsSpec => []TypeOK` |
| `HostTriageProofs!PendingStaysQueued` | `Spec => []PendingIsQueued` |
| `HostTriageProofs!DecidedStaysDecided` | `OpsSpec => NeverReopened` |
| `HostTriageProofs!LabelsNeedRed` | `OpsSpec => []LabelNeedsRed` |
| `HostLifecycleProofs!TriageImplementsLifecycle` | `Spec => TriageIsLifecycle` |
| `LabelOutboxProofs!OutboxTypes` | `Spec => []TypeOK` |
| `LabelOutboxProofs!EmittedStaysLive` | `Spec => []EmittedIsLive` |
| `LabelOutboxProofs!NegationsFollow` | `Spec => []NegationFollowsLabel` |
| `LabelOutboxProofs!OutboxDelivers` | `Spec => DeliversLabels` |
| `ShortenersProofs!ShortenerTypes` | `Spec => []TypeOK` |
| `ShortenersProofs!BufferedForQueued` | `Spec => []UnresolvedIsQueued` |
| `HostTriageProofs!DroppedWhenDecided` | `Spec => DropNeedsDecision` |
| `HostTriageProofs!UnfetchableAfterEnough` | `OpsSpec => UnfetchableIsEarned` |
| `HostTriageProofs!OneLoopPerHost` | `Spec => []OneFetcherPerHost`, if fetches end within `LOCK_FOR` |
| `HostTriageProofs!OnlySeedsDeadlock` | `Spec => []DeadlockTakesSeed`, if fetches end within `LOCK_FOR` |
| `OneOutboxProofs!RowsAppliedOnce` | `Spec => []AppliedOnce`, with one outbox |
| `OneOutboxProofs!FailuresHadNoEffect` | `Spec => []FailedHadNoEffect`, with one outbox |
| `OneOutboxProofs!NegatedIsGone` | `Spec => []RetractedIsGone`, with one outbox |
| `OneOutboxProofs!OutcomesAreFinal` | `Spec => OutcomeIsFinal`, with one outbox |
| `ShortenerPathProofs!LinksNeverVanish` | `Spec => []NothingVanishes` |
| `ShortenerPathProofs!RoutedToItsLinks` | `Spec => []RoutedWhereItLeads` |
| `HeronPushProofs!PushTyped` | `Spec => []TypeOK` |
| `HeronPushProofs!TwiceOnlyIfUnsaved` | `Spec => []CountedTwiceOnlyIfUnsaved` |
| `HeronPushProofs!MissedOnlyInFlight` | `Spec => []MissedOnlyIfLateOrOnBookmark` |
| `HeronPushProofs!RetriesWithFreshToken` | `Spec => []RefusedTwiceOnlyIfRevokedAgain` |
| `HeronPushProofs!CountsOnlyGrow` | `Spec => PushKeepsCounts` |
| `FirehoseConsumerProofs!ConsumerTyped` | `Spec => []TypeOK` |
| `FirehoseConsumerProofs!PostsInOrder` | `Spec => []RoutedInOrder` |
| `FirehoseConsumerProofs!PostsWholeOrGone` | `Spec => []RoutedWholeOrGone` |
| `FirehoseConsumerProofs!EverySpellingClassified` | `Spec => []SpellingHidesNoRule` |

**PendingStaysQueued.** `PendingIsQueued` is not inductive: `CommitRoute` writes
`pending` for hosts whose queue row may be its own or somebody else's. `IInv`
adds that a queued or claimed host has a row in `domains`; that what a router has
inserted is in no committed table and in one router only, and its domain row
never without its queue row; and that between the two inserts the queue row of a
still unknown host is the router's own. The last is the heart of it: `enqueue_host`
waits for whoever inserts the same key, and by then either that transaction has
committed (and the host is known) or it has aborted (and the key is free). A seed
that commits while a router is between its inserts must not touch the router's
hosts: that is the lock invariant below, carried along.

**DecidedStaysDecided** rests on locks alone: two transactions never hold one
key of `domains`, and a key held by an insert belongs to a row that does not exist.

**LabelsNeedRed** follows a label back from where it is committed to where it was
read: a router's private labels and the sweep's rows were read from a red row of
`domains`, which the history variable `wasRed` remembers whatever the row has
become since; a fetch loop's backlog is labelled by the transaction that turns its
host red. For the link between post and host, every row a process holds or has
buffered is one of the links it was given.

**TriageImplementsLifecycle** maps every commit that writes `domains`,
`pending_posts` or `labels_emitted` to an abstract step, and everything else to a
stutter. The abstract guards speak of the tables at the commit; the code decided
some statements earlier. The invariants above bridge that: a router's inserts are of
hosts that are still absent (locks), a claimed host still has a row, what the
sweep and the routers are about to write is still justified (`wasRed`), and, new
here, a router's post waits for a host that has a row or gets one in the same
commit. No step takes a host's row away, which keeps the last one.

**EmittedStaysLive, NegationsFollow.** Requests exist only for rows that exist, so
nothing can take a label back before its negation row is written; a row is marked
emitted only by a loop that was answered, so it has been applied. The two facts
hold each other up with `NegationFollowsLabel`, and make one invariant.

**OutboxDelivers** uses the same invariant: a request in flight belongs to a row, a
row that Ozone applied was asked for, and only a row recorded as emitted has a
negation.

**BufferedForQueued.** What a transaction is about to buffer is for a URL that is
queued, that it has queued itself, or that is answered; a URL leaves the queue
only with its answer.

**DroppedWhenDecided.** Rows leave `pending_posts` in three steps. Two write the
decision with the deletion; the third, the sweep's, reads the state when it deletes.

**UnfetchableAfterEnough.** The give-up path and the drain read `attempts` in one
statement and write the state in another, so the count must stand meanwhile
(`EarnInv`): the give-up path keeps its row locked since `fail`, so that no other
loop can finish the host; the drain holds the domain, which a loop needs before it
can; and a row that is there is not inserted anew. Claims only add to a count. This
does not need fetches to be short.

**OneLoopPerHost.** `FetchInv`: a host in a loop's hands has a locked queue row.
Claims skip locked rows, no router inserts a row that is there (an invariant of
`PendingStaysQueued`), nobody but the loop that has the host deletes its row, and
the lock outlives the fetch.

**OnlySeedsDeadlock.** From the claim as a lock it follows that a loop waits for
nobody but a seed: no other loop has its host, and its domain row exists, so that no
router holds that key. The two routers are left. One of them, the resolver, asks for
one host only (`ResolverAsksForOne`), so to wait in a circle each would have to hold
the same key. This is why the consumer may insert the hosts of a post in any order.

**One outbox.** `OneInv` adds to the invariant above that what the loop has in its
batch or in hand is pending (nobody else settles it), that a request nobody waits
for belongs to a row in `lost`, and that any other row was applied exactly once if
it is emitted or answered, and never otherwise. With a second outbox the first of
these is false, and `outbox_two` shows what remains.

**LinksNeverVanish, RoutedToItsLinks.** `OnPath(u)`, where a URL leads, is the least
set with `u` that is closed under `Leads`, so that what holds of `u` and is handed
on holds of all of it, and short URLs may lead in circles. `PathInv` says where each
accepted post is: buffered or routed at a URL on its link's path, in a transaction
that will commit it there, or on a walk whose hop count is the number of hops behind
it. A walk that is dropped has therefore made `MaxHops + 1` hops, and its link is
too long a chain. Buffered posts are taken only in the transaction that dispatches
them, so that a rollback puts them back.

**The Heron push.** `PushInv` has a part for each thing the push relies on while
labels are stamped and committed beside it. What Heron was sent is delivered, so it
is not stamped again. A row in the series is behind the bookmark, or in the push
that is about to move it there, or in one that died before (hence
`TwiceOnlyIfUnsaved`). A window read after `now` was taken has every row from one
bookmark to the next but those whose stamp was not yet committed, and those on a
bookmark (hence `MissedOnlyInFlight`). No request on the wire knows more labels than
the snapshot at hand (hence `CountsOnlyGrow`). A refused retry bears a token that
was fetched after the first was refused.

**The consumer.** `OrderInv` places each post in the log, in hand or on the wire, all
before the next. `WholeInv` says that the transaction has the links of the URLs
routed so far and that what left the wire is in the log, in hand or gone. Both
speak of positions in the firehose, so that no induction over data is needed.

**EverySpellingClassified** is about pure operators: folding keeps a host's labels
but for their case, `www.` is taken off once, and neither changes below which rule's
domain the host is, given `RulesInPairs`. The first matching rule is then one of
those over the folded spelling, and there is one if there is any.

Only model-checked: liveness (`BufferedIsSettled`, the two `QueueDrains`,
`PendingIsSettled`, `EmittedIsCharted`, `ComesBack`), since the prover has neither
fairness nor `ENABLED`. `OneFetcherPerHost` is false with slow fetches, and the four
one-outbox properties are false of two: there the theorems' hypotheses are needed.

## 6. Not modelled

- The search of a fetched page for signals (`detectors/substack.py`) is replaced by
  any verdict it could give: it is a sum over substring tests. `worker/fetcher.py`
  is its answer or its error; its rate limit is not modelled.
- Paths, ports, users and fragments of URLs, and the grouping of Heron's rows.
- How long waits are: backoff, `LOCK_FOR`, the hour between pushes. That the attempt
  counter of `jetstream.py:22` is never reset, so that waits grow to a minute, is
  listed as a hazard.
- Two worker processes at once, except for the outbox and the resolver:
  `docker-compose.yml` runs one.
- Migrations as steps, engine and session construction, logging, HTTP bodies: they
  keep no state the properties speak of. `shorteners.fail` is never called.
  `--dry-run` and the printing of the scripts change nothing.
