------------------------------ MODULE HeronPush ------------------------------
(***************************************************************************)
(* The hourly reports to Heron (heron/push.py, heron/client.py) beside the *)
(* outbox loop that stamps the rows they report.  One push is a snapshot   *)
(* that overwrites Heron's counts, then the labels delivered since the     *)
(* bookmark, appended to Heron's time series, then the bookmark itself.    *)
(* The three are separate transactions, and whatever one of them raises    *)
(* ends the push.                                                          *)
(*                                                                         *)
(* A row is stamped with the time before its UPDATE commits.  Stamps and   *)
(* the push's own "now" are read from the same clock, the worker's.  A     *)
(* request whose client gave up may reach Heron later, or never.           *)
(***************************************************************************)
EXTENDS Naturals, FiniteSets

CONSTANTS
  Rows,             \* rows of labels_emitted with neg = false
  NoMark,           \* no row in heron_push_state
  MaxClock,         \* bound: ticks of the clock
  MaxFaults,        \* bound: requests or transactions that fail
  MaxRevokes        \* bound: tokens that Heron revokes

Times == 1 .. MaxClock

ASSUME NoMarkIsNoTime == NoMark \notin Nat
ASSUME BoundTypes == MaxClock \in Nat \ {0} /\ MaxFaults \in Nat /\ MaxRevokes \in Nat

VARIABLES
  clock,            \* the worker's clock
  row, at,          \* labels_emitted: how far a row is, and its delivered_at
  mark,             \* heron_push_state.last_pushed_at
  pc, report, data, now, \* the push: program counter, report at hand, its rows, window's end
  token, retried,   \* the client: cached token, second attempt of a request
  counts, series,   \* Heron: rows in the snapshot; times a row is in the series
  stray,            \* requests on the wire that no client waits for
  late, marks, unsaved, again, \* history, see Slips, Save, Fails and Revoke
  faults, revokes

outbox == <<clock, row, at>>
push == <<pc, report, data, now>>
client == <<token, retried>>
heron == <<counts, series, stray>>
history == <<late, marks, unsaved, again>>
vars == <<outbox, mark, push, client, heron, history, faults, revokes>>

Emitted == {r \in Rows : row[r] = "emitted"}
-----------------------------------------------------------------------------
(* The outbox loop, one row at a time. *)

\* _mark_emitted: delivered_at is evaluated, the UPDATE is not committed yet.
Stamp(r) ==
  /\ row[r] = "pending" /\ \A q \in Rows : row[q] # "stamped"
  /\ clock < MaxClock
  /\ row' = [row EXCEPT ![r] = "stamped"]
  /\ at' = [at EXCEPT ![r] = clock]
  /\ UNCHANGED <<clock, mark, push, client, heron, history, faults, revokes>>

CommitStamp(r) ==
  /\ row[r] = "stamped"
  /\ row' = [row EXCEPT ![r] = "emitted"]
  /\ UNCHANGED <<clock, at, mark, push, client, heron, history, faults, revokes>>

RollbackStamp(r) ==
  /\ row[r] = "stamped" /\ faults > 0
  /\ faults' = faults - 1
  /\ row' = [row EXCEPT ![r] = "pending"]
  /\ UNCHANGED <<clock, at, mark, push, client, heron, history, revokes>>

Tick ==
  /\ clock < MaxClock
  /\ clock' = clock + 1
  /\ UNCHANGED <<row, at, mark, push, client, heron, history, faults, revokes>>

\* push_loop sleeps until the next push; the locals of the last one are gone.
Asleep ==
  /\ pc' = "asleep" /\ report' = "counts" /\ data' = {} /\ now' = 0
  /\ retried' = FALSE
-----------------------------------------------------------------------------
(* The client: ingest and its token. *)

\* Mutant: no token is fetched when there is none.
GetTokenCached ==
  /\ pc = "auth"
  /\ pc' = "put"
  /\ UNCHANGED <<outbox, mark, report, data, now, client, heron, history, faults, revokes>>

\* _get_token: the cached token, or a new one.
GetToken ==
  /\ pc = "auth"
  /\ token' = IF token = "none" THEN "valid" ELSE token
  /\ pc' = "put"
  /\ UNCHANGED <<outbox, mark, report, data, now, retried, heron, history, faults, revokes>>

\* A minute before it expires a token is no longer used; an attempt under way has
\* its token already.
TokenAges ==
  /\ pc # "put" /\ token # "none"
  /\ token' = "none"
  /\ UNCHANGED <<outbox, mark, push, retried, heron, history, faults, revokes>>

\* Heron revokes the token; "again" remembers that this was during a retry.
Revoke ==
  /\ token = "valid" /\ revokes > 0
  /\ token' = "revoked"
  /\ revokes' = revokes - 1
  /\ again' = (again \/ retried)
  /\ UNCHANGED <<outbox, mark, push, retried, heron, late, marks, unsaved, faults>>

Ingest(what, rows) ==
  /\ counts' = IF what = "counts" THEN rows ELSE counts
  /\ series' = IF what = "series"
               THEN [r \in Rows |-> series[r] + IF r \in rows THEN 1 ELSE 0] ELSE series

Accepted ==
  /\ pc = "put" /\ token = "valid"
  /\ Ingest(report, data)
  /\ pc' = IF report = "counts" THEN "now" ELSE "save"
  /\ UNCHANGED <<outbox, mark, report, data, now, client, stray, history, faults, revokes>>

\* Mutant: the retry goes out with the token that was refused.
UnauthorisedKeepsToken ==
  /\ pc = "put" /\ token = "revoked" /\ ~retried
  /\ retried' = TRUE
  /\ pc' = "auth"
  /\ UNCHANGED <<outbox, mark, report, data, now, token, heron, history, faults, revokes>>

\* 401: once, with a new token.
Unauthorised ==
  /\ pc = "put" /\ token = "revoked" /\ ~retried
  /\ token' = "none" /\ retried' = TRUE
  /\ pc' = "auth"
  /\ UNCHANGED <<outbox, mark, report, data, now, heron, history, faults, revokes>>

\* The second time it is a HeronError, which ends the push.
RefusedAgain ==
  /\ pc = "put" /\ token = "revoked" /\ retried
  /\ Asleep
  /\ UNCHANGED <<outbox, mark, token, heron, history, faults, revokes>>

StrayApplies(s) ==
  /\ stray' = stray \ {s}
  /\ Ingest(s.report, s.data)
  /\ UNCHANGED <<outbox, mark, push, client, history, faults, revokes>>

StrayVanishes(s) ==
  /\ stray' = stray \ {s}
  /\ UNCHANGED <<outbox, mark, push, client, counts, series, history, faults, revokes>>
-----------------------------------------------------------------------------
(* One push. *)

\* Mutant: the snapshot is of what came since the bookmark.
RecentlyEmitted == {r \in Emitted : mark = NoMark \/ at[r] > mark}
Countable == Emitted

\* An ingest call begins, with its first attempt.
Begins(what, rows) ==
  /\ report' = what /\ data' = rows
  /\ retried' = FALSE /\ again' = FALSE

\* An hour has passed, or the worker has started: _push_counts.
PushCounts ==
  /\ pc = "asleep"
  /\ Begins("counts", Countable)
  /\ pc' = "auth"
  /\ UNCHANGED <<outbox, mark, now, token, heron, late, marks, unsaved, faults, revokes>>

TakeNow ==
  /\ pc = "now"
  /\ now' = clock
  /\ pc' = "select"
  /\ UNCHANGED <<outbox, mark, report, data, client, heron, history, faults, revokes>>

\* Mutants: BETWEEN includes both ends; only full hours; the first window is empty.
WindowBetween == {r \in Emitted : at[r] <= now /\ (mark = NoMark \/ at[r] >= mark)}
WindowLags == {r \in Emitted : at[r] + 1 < now /\ (mark = NoMark \/ at[r] > mark)}
WindowNeedsBookmark == {r \in Emitted : at[r] < now /\ mark # NoMark /\ at[r] > mark}

Window == {r \in Emitted : at[r] < now /\ (mark = NoMark \/ at[r] > mark)}

\* Rows stamped inside the window and not committed yet: this push does not see
\* them, and the next one begins where this one ended.
Slips == {r \in Rows : row[r] = "stamped" /\ at[r] < now}

PushTimeseries ==
  /\ pc = "select"
  /\ Begins("series", Window)
  /\ pc' = IF Window = {} THEN "save" ELSE "auth"
  /\ late' = late \cup Slips
  /\ UNCHANGED <<outbox, mark, now, token, heron, marks, unsaved, faults, revokes>>

Save ==
  /\ pc = "save"
  /\ mark' = now /\ marks' = marks \cup {now}
  /\ Asleep
  /\ UNCHANGED <<outbox, token, heron, late, unsaved, again, faults, revokes>>

OnTheWire ==
  IF pc = "put" THEN {[report |-> report, data |-> data, nr |-> faults]} ELSE {}

\* Any exception: an answer of 400 or more, no answer, no database, a killed worker
\* (whose client is gone with its token).  The rows of a series whose append may
\* have been applied and whose bookmark is not saved are remembered in "unsaved".
Fails ==
  /\ pc # "asleep" /\ faults > 0
  /\ faults' = faults - 1
  /\ Asleep
  /\ token' \in {token, "none"}
  /\ stray' \in {stray} \cup {stray \cup {r} : r \in OnTheWire}
  /\ unsaved' = IF report = "series" /\ (pc = "save" \/ stray' # stray)
                THEN unsaved \cup data ELSE unsaved
  /\ UNCHANGED <<outbox, mark, counts, series, late, marks, again, revokes>>
-----------------------------------------------------------------------------
Init ==
  /\ clock = 1 /\ row = [r \in Rows |-> "pending"] /\ at = [r \in Rows |-> 0]
  /\ mark = NoMark
  /\ pc = "asleep" /\ report = "counts" /\ data = {} /\ now = 0
  /\ token = "none" /\ retried = FALSE
  /\ counts = {} /\ series = [r \in Rows |-> 0] /\ stray = {}
  /\ late = {} /\ marks = {} /\ unsaved = {} /\ again = FALSE
  /\ faults = MaxFaults /\ revokes = MaxRevokes

Push ==
  \/ PushCounts \/ GetToken \/ Accepted \/ Unauthorised \/ RefusedAgain
  \/ TakeNow \/ PushTimeseries \/ Save

Next ==
  \/ \E r \in Rows : Stamp(r) \/ CommitStamp(r) \/ RollbackStamp(r)
  \/ Tick \/ TokenAges \/ Revoke \/ Push \/ Fails
  \/ \E s \in stray : StrayApplies(s) \/ StrayVanishes(s)

Spec == Init /\ [][Next]_vars

\* push_loop runs for ever, Heron answers, transactions end and time passes.
FairSpec ==
  Spec /\ WF_vars(Push) /\ WF_vars(Tick) /\ \A r \in Rows : WF_vars(CommitStamp(r))
-----------------------------------------------------------------------------
Requests == [report : {"counts", "series"}, data : SUBSET Rows, nr : Nat]

\* Every variable has its type; a push that saves has taken its "now", and a
\* request goes out with a token.
TypeOK ==
  /\ clock \in Times /\ row \in [Rows -> {"pending", "stamped", "emitted"}]
  /\ at \in [Rows -> {0} \cup Times] /\ mark \in {NoMark} \cup Times
  /\ pc \in {"asleep", "auth", "put", "now", "select", "save"}
  /\ report \in {"counts", "series"} /\ data \subseteq Rows /\ now \in {0} \cup Times
  /\ token \in {"none", "valid", "revoked"} /\ retried \in BOOLEAN
  /\ pc = "put" => token # "none"
  /\ pc \in {"select", "save"} => now > 0
  /\ counts \subseteq Rows /\ series \in [Rows -> Nat] /\ stray \subseteq Requests
  /\ late \subseteq Rows /\ marks \subseteq Times /\ unsaved \subseteq Rows /\ again \in BOOLEAN
  /\ faults \in Nat /\ revokes \in Nat

\* A label is in the time series twice only if a push that may have appended it
\* did not live to save its bookmark.
CountedTwiceOnlyIfUnsaved == \A r \in Rows : series[r] > 1 => r \in unsaved

\* A delivered label behind the bookmark is in the time series, unless it was
\* stamped before the push took its "now" and committed after the push looked, or
\* bears the very time of a bookmark ("> last" and "< now" both exclude it).
MissedOnlyIfLateOrOnBookmark ==
  \A r \in Emitted :
    mark # NoMark /\ at[r] <= mark /\ series[r] = 0 => r \in late \/ at[r] \in marks

\* A second 401 in one ingest means that the token fetched for the retry was itself
\* revoked (client.py:85: "force refresh and retry once").
RefusedTwiceOnlyIfRevokedAgain == pc = "put" /\ token = "revoked" /\ retried => again

\* A push never takes a label out of Heron's counts: only a request that was given
\* up and arrives late overwrites newer counts by older ones.
PushKeepsCounts == [][Accepted => counts \subseteq counts']_vars

\* Every delivered label reaches the time series, whatever failed on the way, with
\* the exceptions of MissedOnlyIfLateOrOnBookmark.
EmittedIsCharted ==
  \A r \in Rows :
    row[r] = "emitted" ~> series[r] > 0 \/ r \in late \/ at[r] \in marks
=============================================================================
