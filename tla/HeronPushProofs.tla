--------------------------- MODULE HeronPushProofs ---------------------------
(***************************************************************************)
(* Proofs about HeronPush, for any rows, any length of the clock and any   *)
(* number of failures and revoked tokens: the types, and the four safety   *)
(* properties that its run checks.                                         *)
(*                                                                         *)
(* The invariant says what the push may rely on between its transactions,  *)
(* while the outbox loop stamps and commits rows beside it: that whatever  *)
(* Heron was sent is still delivered (SentAreEmitted), that a row in the   *)
(* series is behind the bookmark unless a push died between the two        *)
(* (ChartedIsBehind), that a window misses nothing but rows in flight      *)
(* (WindowCovers), and that no request left on the wire knows more than    *)
(* the snapshot at hand (SnapshotIsNewest).                                *)
(***************************************************************************)
EXTENDS HeronPush, TLAPS

\* The report at hand is the series exactly from its window to its bookmark.
ReportFitsPc ==
  /\ pc \in {"asleep", "now", "select"} => report = "counts"
  /\ pc = "save" => report = "series"

\* The bookmark is a remembered one, and not ahead of the clock nor of the "now" of
\* the push that will replace it.
MarkIsPast ==
  /\ now <= clock
  /\ mark # NoMark =>
       /\ mark \in marks /\ mark <= clock
       /\ report = "series" \/ pc = "select" => mark <= now

\* What was sent to Heron, is on the wire or has arrived, is delivered: such a row
\* is never stamped again.
SentAreEmitted ==
  /\ data \subseteq Emitted /\ counts \subseteq Emitted
  /\ \A s \in stray : s.data \subseteq Emitted
  /\ \A r \in Rows : series[r] > 0 => r \in Emitted

\* A request for the series that nobody waits for belongs to an unsaved push.
StrayIsUnsaved == \A s \in stray : s.report = "series" => s.data \subseteq unsaved

\* A row in the series is behind the bookmark, or about to be, or unsaved.
ChartedIsBehind ==
  \A r \in Rows : series[r] > 0 =>
    \/ r \in unsaved
    \/ mark # NoMark /\ at[r] < mark
    \/ pc = "save" /\ r \in data

\* The rows of a window are older than its end; before the append they are not in
\* the series, unless unsaved, and after it they are.
WindowAppends ==
  report = "series" => \A r \in data :
    /\ at[r] < now
    /\ pc = "save" => series[r] > 0
    /\ pc # "save" => series[r] = 0 \/ r \in unsaved

\* Every row stamped between bookmark and "now" is in the window or slipped past it.
WindowCovers ==
  report = "series" => \A r \in Rows :
    row[r] # "pending" /\ at[r] < now /\ (mark = NoMark \/ at[r] > mark) => r \in data \cup late

\* MissedOnlyIfLateOrOnBookmark, for rows whose commit is still to come as well.
NothingMissed ==
  \A r \in Rows :
    row[r] # "pending" /\ mark # NoMark /\ at[r] <= mark =>
      series[r] > 0 \/ r \in late \/ at[r] \in marks

\* A snapshot at hand has every row that Heron counts or may still be told to.
SnapshotIsNewest ==
  report = "counts" /\ pc \in {"auth", "put"} =>
    counts \subseteq data /\ \A s \in stray : s.report = "counts" => s.data \subseteq data

\* A revoked token in a retry was revoked during the retry.
RetryIsFresh == retried /\ token = "revoked" => again

PushInv ==
  /\ ReportFitsPc /\ MarkIsPast /\ SentAreEmitted /\ StrayIsUnsaved
  /\ ChartedIsBehind /\ WindowAppends /\ WindowCovers /\ NothingMissed
  /\ SnapshotIsNewest /\ RetryIsFresh /\ CountedTwiceOnlyIfUnsaved
-----------------------------------------------------------------------------
(* Types. *)

\* A series is of a window that ends after the clock began, whence the "now" of Save.
TypeInv == TypeOK /\ (report = "series" => now > 0)

LEMMA InitTypes == Init => TypeInv
<1> SUFFICES ASSUME Init PROVE TypeInv
  OBVIOUS
<1>1. clock \in Times /\ mark \in {NoMark} \cup Times /\ now \in {0} \cup Times
  BY BoundTypes DEF Init, Times
<1>2. row \in [Rows -> {"pending", "stamped", "emitted"}] /\ at \in [Rows -> {0} \cup Times]
  BY DEF Init
<1>3. counts \subseteq Rows /\ series \in [Rows -> Nat] /\ stray \subseteq Requests
  BY DEF Init
<1>4. retried \in BOOLEAN /\ again \in BOOLEAN
  BY DEF Init
<1>5. faults \in Nat /\ revokes \in Nat
  BY BoundTypes DEF Init
<1>6. QED
  BY <1>1, <1>2, <1>3, <1>4, <1>5 DEF Init, TypeOK, TypeInv

\* A step of the outbox loop or of the clock.
LEMMA OutboxTypes ==
  ASSUME TypeInv,
         (\E r \in Rows : Stamp(r) \/ CommitStamp(r) \/ RollbackStamp(r)) \/ Tick
  PROVE  TypeInv'
<1> USE BoundTypes DEF TypeInv, TypeOK, Times, Requests, push, client, heron, history
<1>1. CASE Tick
  BY <1>1 DEF Tick
<1>2. ASSUME NEW r \in Rows, Stamp(r) PROVE TypeInv'
  BY <1>2 DEF Stamp
<1>3. ASSUME NEW r \in Rows, CommitStamp(r) PROVE TypeInv'
  BY <1>3 DEF CommitStamp
<1>4. ASSUME NEW r \in Rows, RollbackStamp(r) PROVE TypeInv'
  BY <1>4 DEF RollbackStamp
<1> QED
  BY <1>1, <1>2, <1>3, <1>4

LEMMA IngestTypes ==
  ASSUME TypeInv, NEW what \in {"counts", "series"}, NEW rows \in SUBSET Rows, Ingest(what, rows)
  PROVE  counts' \subseteq Rows /\ series' \in [Rows -> Nat]
  BY DEF TypeInv, TypeOK, Ingest

\* A step of the client, or of a request nobody waits for.
LEMMA ClientTypes ==
  ASSUME TypeInv,
         \/ GetToken \/ TokenAges \/ Revoke \/ Accepted \/ Unauthorised \/ RefusedAgain
         \/ \E s \in stray : StrayApplies(s) \/ StrayVanishes(s)
  PROVE  TypeInv'
<1> USE BoundTypes DEF TypeInv, TypeOK, Times, outbox, push, client, heron, history
<1>1. CASE GetToken
  BY <1>1 DEF GetToken
<1>2. CASE TokenAges
  BY <1>2 DEF TokenAges
<1>3. CASE Revoke
  BY <1>3 DEF Revoke
<1>4. CASE Accepted
  <2>1. counts' \subseteq Rows /\ series' \in [Rows -> Nat]
    BY <1>4, IngestTypes DEF Accepted
  <2> QED
    BY <1>4, <2>1 DEF Accepted
<1>5. CASE Unauthorised
  BY <1>5 DEF Unauthorised
<1>6. CASE RefusedAgain
  BY <1>6 DEF RefusedAgain, Asleep
<1>7. ASSUME NEW s \in stray, StrayApplies(s) PROVE TypeInv'
  <2>1. counts' \subseteq Rows /\ series' \in [Rows -> Nat]
    BY <1>7, IngestTypes DEF StrayApplies, Requests
  <2> QED
    BY <1>7, <2>1 DEF StrayApplies
<1>8. ASSUME NEW s \in stray, StrayVanishes(s) PROVE TypeInv'
  BY <1>8 DEF StrayVanishes
<1> QED
  BY <1>1, <1>2, <1>3, <1>4, <1>5, <1>6, <1>7, <1>8

\* A step of the push itself, or its failure.
LEMMA PushTypes ==
  ASSUME TypeInv, PushCounts \/ TakeNow \/ PushTimeseries \/ Save \/ Fails
  PROVE  TypeInv'
<1> USE BoundTypes DEF TypeInv, TypeOK, Times, outbox, push, client, heron, history
<1>1. CASE PushCounts
  BY <1>1 DEF PushCounts, Begins, Countable, Emitted
<1>2. CASE TakeNow
  BY <1>2 DEF TakeNow
<1>3. CASE PushTimeseries
  BY <1>3 DEF PushTimeseries, Begins, Window, Emitted, Slips
<1>4. CASE Save
  <2>1. now \in Times
    BY <1>4 DEF Save
  <2>2. mark' \in {NoMark} \cup Times /\ marks' \subseteq Times
    BY <1>4, <2>1 DEF Save
  <2>3. pc' = "asleep" /\ report' = "counts" /\ data' = {} /\ now' = 0 /\ retried' = FALSE
    BY <1>4 DEF Save, Asleep
  <2> QED
    BY <1>4, <2>2, <2>3 DEF Save
<1>5. CASE Fails
  <2>1. OnTheWire \subseteq Requests
    BY DEF OnTheWire, Requests
  <2>2. stray' \subseteq Requests /\ unsaved' \subseteq Rows
    BY <1>5, <2>1 DEF Fails
  <2>3. pc' = "asleep" /\ report' = "counts" /\ data' = {} /\ now' = 0 /\ retried' = FALSE
    BY <1>5 DEF Fails, Asleep
  <2>4. faults' \in Nat /\ token' \in {"none", "valid", "revoked"}
    BY <1>5 DEF Fails
  <2> QED
    BY <1>5, <2>2, <2>3, <2>4 DEF Fails
<1> QED
  BY <1>1, <1>2, <1>3, <1>4, <1>5

LEMMA StepTypes == TypeInv /\ [Next]_vars => TypeInv'
<1> SUFFICES ASSUME TypeInv, [Next]_vars PROVE TypeInv'
  OBVIOUS
<1>1. CASE UNCHANGED vars
  BY <1>1 DEF TypeInv, TypeOK, vars, outbox, push, client, heron, history
<1>2. CASE Next
  BY <1>2, OutboxTypes, ClientTypes, PushTypes DEF Next, Push
<1> QED
  BY <1>1, <1>2

\* TypeOK: every variable keeps its type, a push that saves has taken its "now",
\* and a request goes out with a token (push.py, client.py).
THEOREM PushTyped == Spec => []TypeOK
<1>1. TypeInv => TypeOK
  BY DEF TypeInv
<1> QED
  BY InitTypes, StepTypes, <1>1, PTL DEF Spec
-----------------------------------------------------------------------------
(* The invariant, beside the outbox loop. *)

LEMMA InitPushInv == Init => PushInv
<1> SUFFICES ASSUME Init PROVE PushInv
  OBVIOUS
<1>1. ReportFitsPc /\ MarkIsPast /\ SentAreEmitted /\ StrayIsUnsaved
  BY DEF Init, ReportFitsPc, MarkIsPast, SentAreEmitted, StrayIsUnsaved
<1>2. ChartedIsBehind /\ WindowAppends /\ WindowCovers /\ NothingMissed /\ SnapshotIsNewest
  BY DEF Init, ChartedIsBehind, WindowAppends, WindowCovers, NothingMissed, SnapshotIsNewest
<1>3. RetryIsFresh /\ CountedTwiceOnlyIfUnsaved
  BY DEF Init, RetryIsFresh, CountedTwiceOnlyIfUnsaved
<1> QED
  BY <1>1, <1>2, <1>3 DEF PushInv

\* The outbox loop takes no row back that is delivered, and moves no stamp but that
\* of a row that is not stamped yet, to the time it is.
LEMMA OutboxMoves ==
  ASSUME TypeInv, NEW r \in Rows, Stamp(r) \/ CommitStamp(r) \/ RollbackStamp(r)
  PROVE  /\ Emitted \subseteq Emitted'
         /\ \A q \in Emitted : at'[q] = at[q]
         /\ \A q \in Rows : row'[q] # "pending" =>
              \/ row[q] # "pending" /\ at'[q] = at[q]
              \/ row'[q] = "stamped" /\ at'[q] = clock
         /\ UNCHANGED <<clock, mark, push, client, heron, history, revokes>>
<1> USE DEF TypeInv, TypeOK, Emitted
<1>1. CASE Stamp(r)
  BY <1>1 DEF Stamp
<1>2. CASE CommitStamp(r)
  BY <1>2 DEF CommitStamp
<1>3. CASE RollbackStamp(r)
  BY <1>3 DEF RollbackStamp
<1> QED
  BY <1>1, <1>2, <1>3

LEMMA OutboxKeepsInv ==
  ASSUME TypeInv, PushInv,
         NEW r \in Rows, Stamp(r) \/ CommitStamp(r) \/ RollbackStamp(r)
  PROVE  PushInv'
<1>1. /\ Emitted \subseteq Emitted'
      /\ \A q \in Emitted : at'[q] = at[q]
      /\ \A q \in Rows : row'[q] # "pending" =>
           \/ row[q] # "pending" /\ at'[q] = at[q]
           \/ row'[q] = "stamped" /\ at'[q] = clock
      /\ UNCHANGED <<clock, mark, push, client, heron, history, revokes>>
  BY OutboxMoves
<1> USE <1>1 DEF push, client, heron, history
<1>2. ReportFitsPc' /\ StrayIsUnsaved' /\ SnapshotIsNewest' /\ RetryIsFresh'
      /\ CountedTwiceOnlyIfUnsaved'
  BY DEF PushInv, ReportFitsPc, StrayIsUnsaved, SnapshotIsNewest, RetryIsFresh,
         CountedTwiceOnlyIfUnsaved
<1>3. MarkIsPast'
  BY DEF PushInv, MarkIsPast
<1>4. SentAreEmitted'
  BY DEF PushInv, SentAreEmitted
<1>5. ChartedIsBehind'
  BY DEF PushInv, ChartedIsBehind, SentAreEmitted
<1>6. WindowAppends'
  BY DEF PushInv, WindowAppends, SentAreEmitted
<1>7. WindowCovers'
  BY DEF PushInv, WindowCovers, MarkIsPast, TypeInv, TypeOK, Times
<1>8. NothingMissed'
  BY NoMarkIsNoTime DEF PushInv, NothingMissed, MarkIsPast, TypeInv, TypeOK, Times
<1> QED
  BY <1>2, <1>3, <1>4, <1>5, <1>6, <1>7, <1>8 DEF PushInv

LEMMA TickKeepsInv == ASSUME TypeInv, PushInv, Tick PROVE PushInv'
<1> USE DEF Tick, push, client, heron, history
<1>1. MarkIsPast'
  BY NoMarkIsNoTime DEF PushInv, MarkIsPast, TypeInv, TypeOK, Times
<1>2. Emitted' = Emitted
  BY DEF Emitted
<1> QED
  BY <1>1, <1>2 DEF PushInv, ReportFitsPc, SentAreEmitted, StrayIsUnsaved, ChartedIsBehind,
     WindowAppends, WindowCovers, NothingMissed, SnapshotIsNewest, RetryIsFresh,
     CountedTwiceOnlyIfUnsaved
-----------------------------------------------------------------------------
(* The invariant, in the client and on the wire. *)

\* A token comes, ages, is revoked or refused: no report moves.
LEMMA TokenKeepsInv ==
  ASSUME TypeInv, PushInv, GetToken \/ TokenAges \/ Revoke \/ Unauthorised
  PROVE  PushInv'
<1>1. UNCHANGED <<clock, row, at, mark, report, data, now, counts, series, stray, late, marks, unsaved>>
  BY DEF GetToken, TokenAges, Revoke, Unauthorised, outbox, push, client, heron, history
<1>2. \/ pc' = pc
      \/ pc \in {"auth", "put"} /\ pc' \in {"auth", "put"}
  BY DEF GetToken, TokenAges, Revoke, Unauthorised, push
<1>3. RetryIsFresh'
  <2>1. CASE GetToken
    BY <2>1 DEF GetToken, history, PushInv, RetryIsFresh
  <2>2. CASE TokenAges
    BY <2>2 DEF TokenAges, RetryIsFresh
  <2>3. CASE Revoke
    BY <2>3 DEF Revoke, RetryIsFresh
  <2>4. CASE Unauthorised
    BY <2>4 DEF Unauthorised, RetryIsFresh
  <2> QED
    BY <2>1, <2>2, <2>3, <2>4
<1>4. Emitted' = Emitted
  BY <1>1 DEF Emitted
<1>5. ReportFitsPc' /\ MarkIsPast' /\ SentAreEmitted' /\ StrayIsUnsaved' /\ SnapshotIsNewest'
  BY <1>1, <1>2, <1>4 DEF PushInv, ReportFitsPc, MarkIsPast, SentAreEmitted, StrayIsUnsaved,
     SnapshotIsNewest
<1>6. ChartedIsBehind' /\ WindowAppends' /\ WindowCovers' /\ NothingMissed'
      /\ CountedTwiceOnlyIfUnsaved'
  BY <1>1, <1>2 DEF PushInv, ChartedIsBehind, WindowAppends, WindowCovers, NothingMissed,
     CountedTwiceOnlyIfUnsaved
<1> QED
  BY <1>3, <1>5, <1>6 DEF PushInv

\* The push is over: all that was said of its report is said no more.
LEMMA AsleepKeepsInv ==
  ASSUME TypeInv, PushInv, Asleep,
         UNCHANGED <<outbox, mark, counts, series, late, marks>>,
         unsaved \subseteq unsaved', pc = "save" => data \subseteq unsaved',
         SentAreEmitted', StrayIsUnsaved'
  PROVE  PushInv'
<1> USE DEF Asleep, outbox, TypeInv, TypeOK
<1>1. ReportFitsPc' /\ SnapshotIsNewest' /\ WindowAppends' /\ WindowCovers'
  BY DEF ReportFitsPc, SnapshotIsNewest, WindowAppends, WindowCovers
<1>2. MarkIsPast'
  BY DEF PushInv, MarkIsPast, Times
<1>3. RetryIsFresh'
  BY DEF RetryIsFresh
<1>4. ChartedIsBehind' /\ NothingMissed' /\ CountedTwiceOnlyIfUnsaved'
  BY DEF PushInv, ChartedIsBehind, NothingMissed, CountedTwiceOnlyIfUnsaved
<1> QED
  BY <1>1, <1>2, <1>3, <1>4 DEF PushInv

LEMMA RefusalKeepsInv == ASSUME TypeInv, PushInv, RefusedAgain PROVE PushInv'
<1>1. SentAreEmitted'
  BY DEF RefusedAgain, Asleep, outbox, heron, Emitted, PushInv, SentAreEmitted
<1>2. StrayIsUnsaved'
  BY DEF RefusedAgain, heron, history, PushInv, StrayIsUnsaved
<1> QED
  BY <1>1, <1>2, AsleepKeepsInv DEF RefusedAgain, heron, history

\* What an answered request adds to the series, row by row.
LEMMA IngestAdds ==
  ASSUME TypeInv, NEW what \in {"counts", "series"}, NEW rows \in SUBSET Rows,
         Ingest(what, rows), NEW r \in Rows
  PROVE  /\ series'[r] = IF what = "series" /\ r \in rows THEN series[r] + 1 ELSE series[r]
         /\ series[r] \in Nat
         /\ counts' = IF what = "counts" THEN rows ELSE counts
  BY DEF TypeInv, TypeOK, Ingest

LEMMA AcceptedKeepsInv == ASSUME TypeInv, PushInv, Accepted PROVE PushInv'
<1>1. /\ pc = "put" /\ pc' = IF report = "counts" THEN "now" ELSE "save"
      /\ report \in {"counts", "series"} /\ data \in SUBSET Rows
      /\ UNCHANGED <<clock, row, at, mark, report, data, now, token, retried, stray>>
      /\ UNCHANGED <<late, marks, unsaved, again>>
  BY DEF Accepted, TypeInv, TypeOK, outbox, client, history
<1>2. \A r \in Rows :
        /\ series'[r] = IF report = "series" /\ r \in data THEN series[r] + 1 ELSE series[r]
        /\ series[r] \in Nat
        /\ counts' = IF report = "counts" THEN data ELSE counts
  BY <1>1, IngestAdds DEF Accepted
<1>3. counts' = IF report = "counts" THEN data ELSE counts
  BY <1>1 DEF Accepted, Ingest
<1>4. ReportFitsPc' /\ MarkIsPast' /\ StrayIsUnsaved' /\ SnapshotIsNewest' /\ RetryIsFresh'
  BY <1>1 DEF PushInv, ReportFitsPc, MarkIsPast, StrayIsUnsaved, SnapshotIsNewest, RetryIsFresh
<1>5. Emitted' = Emitted
  BY <1>1 DEF Emitted
<1>6. SentAreEmitted'
  BY <1>1, <1>2, <1>3, <1>5 DEF PushInv, SentAreEmitted
<1>7. ChartedIsBehind'
  BY <1>1, <1>2 DEF PushInv, ChartedIsBehind
<1>8. WindowAppends'
  BY <1>1, <1>2 DEF PushInv, WindowAppends
<1>9. WindowCovers' /\ NothingMissed'
  BY <1>1, <1>2 DEF PushInv, WindowCovers, NothingMissed
<1>10. CountedTwiceOnlyIfUnsaved'
  BY <1>1, <1>2 DEF PushInv, WindowAppends, CountedTwiceOnlyIfUnsaved
<1> QED
  BY <1>4, <1>6, <1>7, <1>8, <1>9, <1>10 DEF PushInv

LEMMA StrayKeepsInv ==
  ASSUME TypeInv, PushInv, NEW s \in stray, StrayApplies(s) \/ StrayVanishes(s)
  PROVE  PushInv'
<1>1. /\ s.report \in {"counts", "series"} /\ s.data \in SUBSET Rows
      /\ stray' = stray \ {s}
      /\ UNCHANGED <<clock, row, at, mark, pc, report, data, now, token, retried>>
      /\ UNCHANGED <<late, marks, unsaved, again>>
  BY DEF StrayApplies, StrayVanishes, TypeInv, TypeOK, Requests, outbox, push, client, history
<1>2. \A r \in Rows :
        /\ series[r] \in Nat
        /\ \/ series'[r] = series[r]
           \/ s.report = "series" /\ r \in s.data /\ series'[r] = series[r] + 1
  BY <1>1, IngestAdds DEF StrayApplies, StrayVanishes, TypeInv, TypeOK
<1>3. counts' = counts \/ (s.report = "counts" /\ counts' = s.data)
  <2>1. CASE StrayApplies(s)
    BY <2>1, <1>1 DEF StrayApplies, Ingest
  <2>2. CASE StrayVanishes(s)
    BY <2>2 DEF StrayVanishes
  <2> QED
    BY <2>1, <2>2
<1>4. \A r \in s.data : s.report = "series" => r \in unsaved
  BY DEF PushInv, StrayIsUnsaved
<1>5. Emitted' = Emitted
  BY <1>1 DEF Emitted
<1>6. ReportFitsPc' /\ MarkIsPast' /\ StrayIsUnsaved' /\ RetryIsFresh'
  BY <1>1 DEF PushInv, ReportFitsPc, MarkIsPast, StrayIsUnsaved, RetryIsFresh
<1>7. SentAreEmitted' /\ SnapshotIsNewest'
  BY <1>1, <1>2, <1>3, <1>5 DEF PushInv, SentAreEmitted, SnapshotIsNewest
<1>8. ChartedIsBehind' /\ CountedTwiceOnlyIfUnsaved'
  BY <1>1, <1>2, <1>4 DEF PushInv, ChartedIsBehind, CountedTwiceOnlyIfUnsaved
<1>9. WindowAppends'
  <2> SUFFICES ASSUME report = "series", NEW r \in data
               PROVE  /\ at[r] < now
                      /\ pc = "save" => series'[r] > 0
                      /\ pc # "save" => series'[r] = 0 \/ r \in unsaved
    BY <1>1 DEF WindowAppends
  <2> QED
    BY <1>1, <1>2, <1>4 DEF PushInv, WindowAppends, TypeInv, TypeOK
<1>10. WindowCovers' /\ NothingMissed'
  BY <1>1, <1>2 DEF PushInv, WindowCovers, NothingMissed
<1> QED
  BY <1>6, <1>7, <1>8, <1>9, <1>10 DEF PushInv
-----------------------------------------------------------------------------
(* The invariant, from push to push. *)

LEMMA PushCountsKeepsInv == ASSUME TypeInv, PushInv, PushCounts PROVE PushInv'
<1>1. /\ pc = "asleep" /\ pc' = "auth" /\ report' = "counts" /\ data' = Emitted
      /\ retried' = FALSE
      /\ UNCHANGED <<clock, row, at, mark, now, counts, series, stray, late, marks, unsaved>>
  BY DEF PushCounts, Begins, Countable, outbox, heron
<1>2. report = "counts"
  BY <1>1 DEF PushInv, ReportFitsPc
<1>3. Emitted' = Emitted
  BY <1>1 DEF Emitted
<1>4. SentAreEmitted' /\ SnapshotIsNewest'
  BY <1>1, <1>3 DEF PushInv, SentAreEmitted, SnapshotIsNewest
<1>5. ReportFitsPc' /\ MarkIsPast' /\ StrayIsUnsaved' /\ RetryIsFresh'
  BY <1>1 DEF PushInv, ReportFitsPc, MarkIsPast, StrayIsUnsaved, RetryIsFresh
<1>6. ChartedIsBehind' /\ WindowAppends' /\ WindowCovers' /\ NothingMissed'
      /\ CountedTwiceOnlyIfUnsaved'
  BY <1>1 DEF PushInv, ChartedIsBehind, WindowAppends, WindowCovers, NothingMissed,
     CountedTwiceOnlyIfUnsaved
<1> QED
  BY <1>4, <1>5, <1>6 DEF PushInv

LEMMA TakeNowKeepsInv == ASSUME TypeInv, PushInv, TakeNow PROVE PushInv'
<1>1. /\ pc = "now" /\ pc' = "select" /\ now' = clock
      /\ UNCHANGED <<clock, row, at, mark, report, data, token, retried>>
      /\ UNCHANGED <<counts, series, stray, late, marks, unsaved, again>>
  BY DEF TakeNow, outbox, client, heron, history
<1>2. report = "counts"
  BY <1>1 DEF PushInv, ReportFitsPc
<1>3. MarkIsPast'
  BY <1>1, <1>2 DEF PushInv, MarkIsPast, TypeInv, TypeOK, Times
<1>4. Emitted' = Emitted
  BY <1>1 DEF Emitted
<1> QED
  BY <1>1, <1>2, <1>3, <1>4 DEF PushInv, ReportFitsPc, SentAreEmitted, StrayIsUnsaved,
     ChartedIsBehind, WindowAppends, WindowCovers, NothingMissed, SnapshotIsNewest,
     RetryIsFresh, CountedTwiceOnlyIfUnsaved

\* What the window takes is not in the series yet, and what it leaves out is not
\* committed: both because the bookmark is where the last window ended.
LEMMA PushTimeseriesKeepsInv == ASSUME TypeInv, PushInv, PushTimeseries PROVE PushInv'
<1>1. /\ pc = "select" /\ pc' \in {"save", "auth"} /\ (pc' = "save" => Window = {})
      /\ report' = "series" /\ data' = Window /\ retried' = FALSE
      /\ late' = late \cup Slips
      /\ UNCHANGED <<clock, row, at, mark, now, counts, series, stray, marks, unsaved>>
  BY DEF PushTimeseries, Begins, outbox, heron
<1>2. Emitted' = Emitted
  BY <1>1 DEF Emitted
<1>3. ReportFitsPc' /\ MarkIsPast' /\ StrayIsUnsaved' /\ SnapshotIsNewest' /\ RetryIsFresh'
  BY <1>1 DEF PushInv, ReportFitsPc, MarkIsPast, StrayIsUnsaved, SnapshotIsNewest, RetryIsFresh
<1>4. SentAreEmitted'
  BY <1>1, <1>2 DEF PushInv, SentAreEmitted, Window
<1>5. ChartedIsBehind' /\ NothingMissed' /\ CountedTwiceOnlyIfUnsaved'
  BY <1>1 DEF PushInv, ChartedIsBehind, NothingMissed, CountedTwiceOnlyIfUnsaved
<1>6. WindowAppends'
  <2> SUFFICES ASSUME NEW r \in Window
               PROVE  at[r] < now /\ (series[r] = 0 \/ r \in unsaved)
    BY <1>1 DEF WindowAppends
  <2>1. r \in Rows /\ at[r] < now /\ (mark = NoMark \/ at[r] > mark) /\ series[r] \in Nat
    BY DEF Window, Emitted, TypeInv, TypeOK
  <2>2. mark # NoMark => ~(at[r] < mark)
    BY <2>1 DEF TypeInv, TypeOK, Times
  <2> QED
    BY <1>1, <2>1, <2>2 DEF PushInv, ChartedIsBehind
<1>7. WindowCovers'
  <2> SUFFICES ASSUME NEW r \in Rows, row[r] # "pending", at[r] < now,
                      mark = NoMark \/ at[r] > mark
               PROVE  r \in Window \cup Slips
    BY <1>1 DEF WindowCovers
  <2> QED
    BY DEF Window, Slips, Emitted, TypeInv, TypeOK
<1> QED
  BY <1>3, <1>4, <1>5, <1>6, <1>7 DEF PushInv

\* The bookmark moves to the end of the window: behind it is what was behind the old
\* one, what the window had, what slipped past it, and what bears its very time.
LEMMA SaveKeepsInv == ASSUME TypeInv, PushInv, Save PROVE PushInv'
<1>1. /\ pc = "save" /\ pc' = "asleep" /\ report' = "counts" /\ data' = {} /\ now' = 0
      /\ retried' = FALSE /\ mark' = now /\ marks' = marks \cup {now}
      /\ UNCHANGED <<clock, row, at, counts, series, stray, late, unsaved>>
  BY DEF Save, Asleep, outbox, heron
<1>2. report = "series"
  BY <1>1 DEF PushInv, ReportFitsPc
<1>3. now \in Nat /\ now <= clock /\ clock \in Nat /\ (mark # NoMark => mark \in Nat /\ mark <= now)
      /\ now # NoMark /\ \A r \in Rows : at[r] \in Nat /\ series[r] \in Nat
  BY <1>2, NoMarkIsNoTime DEF PushInv, MarkIsPast, TypeInv, TypeOK, Times
<1>4. Emitted' = Emitted
  BY <1>1 DEF Emitted
<1>5. ReportFitsPc' /\ StrayIsUnsaved' /\ SnapshotIsNewest' /\ RetryIsFresh'
      /\ CountedTwiceOnlyIfUnsaved'
  BY <1>1 DEF PushInv, ReportFitsPc, StrayIsUnsaved, SnapshotIsNewest, RetryIsFresh,
     CountedTwiceOnlyIfUnsaved
<1>6. MarkIsPast' /\ WindowAppends' /\ WindowCovers'
  BY <1>1, <1>3 DEF MarkIsPast, WindowAppends, WindowCovers
<1>7. SentAreEmitted'
  BY <1>1, <1>4 DEF PushInv, SentAreEmitted
<1>8. ChartedIsBehind'
  BY <1>1, <1>2, <1>3 DEF PushInv, ChartedIsBehind, WindowAppends
<1>9. NothingMissed'
  <2> SUFFICES ASSUME NEW r \in Rows, row[r] # "pending", at[r] <= now
               PROVE  series[r] > 0 \/ r \in late \/ at[r] \in marks \cup {now}
    BY <1>1 DEF NothingMissed
  <2>1. CASE at[r] = now
    BY <2>1
  <2>2. CASE mark # NoMark /\ at[r] <= mark
    BY <2>2 DEF PushInv, NothingMissed
  <2>3. CASE at[r] < now /\ (mark = NoMark \/ at[r] > mark)
    <3>1. r \in data \cup late
      BY <2>3, <1>2 DEF PushInv, WindowCovers
    <3> QED
      BY <3>1, <1>1, <1>2 DEF PushInv, WindowAppends
  <2> QED
    BY <1>3, <2>1, <2>2, <2>3
<1> QED
  BY <1>5, <1>6, <1>7, <1>8, <1>9 DEF PushInv

LEMMA FailsKeepsInv == ASSUME TypeInv, PushInv, Fails PROVE PushInv'
<1>1. /\ Asleep /\ UNCHANGED <<outbox, mark, counts, series, late, marks>>
      /\ unsaved' = IF report = "series" /\ (pc = "save" \/ stray' # stray)
                    THEN unsaved \cup data ELSE unsaved
  BY DEF Fails
<1>2. \A s \in stray' : s \in stray \/ (stray' # stray /\ s.report = report /\ s.data = data)
  BY DEF Fails, OnTheWire
<1>3. Emitted' = Emitted
  BY <1>1 DEF Emitted, outbox
<1>4. SentAreEmitted'
  BY <1>1, <1>2, <1>3 DEF PushInv, SentAreEmitted, Asleep
<1>5. StrayIsUnsaved'
  BY <1>1, <1>2 DEF PushInv, StrayIsUnsaved
<1>6. pc = "save" => data \subseteq unsaved'
  BY <1>1 DEF PushInv, ReportFitsPc
<1> QED
  BY <1>1, <1>4, <1>5, <1>6, AsleepKeepsInv
-----------------------------------------------------------------------------
LEMMA StepKeepsInv == TypeInv /\ PushInv /\ [Next]_vars => PushInv'
<1> SUFFICES ASSUME TypeInv, PushInv, [Next]_vars PROVE PushInv'
  OBVIOUS
<1>1. CASE UNCHANGED vars
  BY <1>1 DEF vars, outbox, push, client, heron, history, PushInv, ReportFitsPc, MarkIsPast,
     SentAreEmitted, StrayIsUnsaved, ChartedIsBehind, WindowAppends, WindowCovers,
     NothingMissed, SnapshotIsNewest, RetryIsFresh, CountedTwiceOnlyIfUnsaved, Emitted
<1>2. CASE Next
  BY <1>2, OutboxKeepsInv, TickKeepsInv, TokenKeepsInv, RefusalKeepsInv, AcceptedKeepsInv,
     StrayKeepsInv, PushCountsKeepsInv, TakeNowKeepsInv, PushTimeseriesKeepsInv,
     SaveKeepsInv, FailsKeepsInv DEF Next, Push
<1> QED
  BY <1>1, <1>2

LEMMA PushInvariant == Spec => [](TypeInv /\ PushInv)
  BY InitTypes, InitPushInv, StepTypes, StepKeepsInv, PTL DEF Spec

\* CountedTwiceOnlyIfUnsaved: a label is in the time series twice only if a push that
\* may have appended it did not live to save its bookmark (push.py: append, then
\* bookmark, in two transactions).
THEOREM TwiceOnlyIfUnsaved == Spec => []CountedTwiceOnlyIfUnsaved
<1>1. PushInv => CountedTwiceOnlyIfUnsaved
  BY DEF PushInv
<1> QED
  BY PushInvariant, <1>1, PTL

\* MissedOnlyIfLateOrOnBookmark: a delivered label behind the bookmark is in the time
\* series, unless it was in flight when the push looked or bears a bookmark's time.
THEOREM MissedOnlyInFlight == Spec => []MissedOnlyIfLateOrOnBookmark
<1>1. TypeInv /\ PushInv => MissedOnlyIfLateOrOnBookmark
  BY DEF TypeInv, TypeOK, PushInv, NothingMissed, MissedOnlyIfLateOrOnBookmark, Emitted
<1> QED
  BY PushInvariant, <1>1, PTL

\* RefusedTwiceOnlyIfRevokedAgain: the one retry of ingest is enough unless Heron
\* revokes the new token as well (client.py: "force refresh and retry once").
THEOREM RetriesWithFreshToken == Spec => []RefusedTwiceOnlyIfRevokedAgain
<1>1. PushInv => RefusedTwiceOnlyIfRevokedAgain
  BY DEF PushInv, RetryIsFresh, RefusedTwiceOnlyIfRevokedAgain
<1> QED
  BY PushInvariant, <1>1, PTL

\* PushKeepsCounts: an accepted push takes no label out of Heron's counts, whatever
\* older snapshot has arrived late in the meantime (push.py, _push_counts).
THEOREM CountsOnlyGrow == Spec => PushKeepsCounts
<1>1. TypeInv /\ PushInv /\ [Next]_vars => [Accepted => counts \subseteq counts']_vars
  <2> SUFFICES ASSUME TypeInv, PushInv, Accepted PROVE counts \subseteq counts'
    OBVIOUS
  <2> QED
    BY DEF Accepted, Ingest, PushInv, SnapshotIsNewest, TypeInv, TypeOK
<1> QED
  BY PushInvariant, <1>1, PTL DEF Spec, PushKeepsCounts
=============================================================================
