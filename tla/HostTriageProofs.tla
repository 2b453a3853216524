--------------------------- MODULE HostTriageProofs ---------------------------
(***************************************************************************)
(* Theorems about HostTriage, for any sets of hosts, posts, platforms and  *)
(* fetch loops, any inbox, any thresholds and any number of faults, seeds  *)
(* and drains.  OneLoopPerHost and OnlySeedsDeadlock also assume that a    *)
(* fetch ends within the lock's life (LOCK_FOR, worker/main.py:28), since  *)
(* a second loop may claim the host of one that does not.                  *)
(***************************************************************************)
EXTENDS HostTriage, FiniteSetTheorems, TLAPS

USE DEF Pairs

-----------------------------------------------------------------------------
(* Rows and helpers have their types. *)

LEMMA CapIsNat == AttemptCap \in Nat
  BY NumberTypes DEF AttemptCap

LEMMA RowTypes ==
  /\ NoDomain \in DomainRow /\ NoRow \in QueueRow /\ NoVerdict \in Verdict
  /\ \A t \in Nat : NewRow(t) \in QueueRow
  BY CapIsNat DEF NoDomain, DomainRow, DomainStates, NoRow, QueueRow, NoVerdict, Verdict, NewRow

LEMMA BumpType == ASSUME NEW n \in 0..AttemptCap PROVE Bump(n) \in 0..AttemptCap
  BY CapIsNat DEF Bump

LEMMA VerdictsForType == ASSUME NEW h \in Hosts PROVE VerdictsFor(h) \subseteq Verdict
<1>1. CASE RuleOf[h] # NoPlatform
  <2>1. RuleOf[h] \in Platforms
    BY <1>1, RuleType
  <2>2. [platform |-> RuleOf[h], confidence |-> 100] \in [platform : Platforms, confidence : Nat]
    BY <2>1
  <2>. QED
    BY <1>1, <2>2 DEF VerdictsFor, Verdict
<1>2. CASE RuleOf[h] = NoPlatform
  <2>1. [platform : Platforms, confidence : Scores] \subseteq [platform : Platforms, confidence : Nat]
    BY NumberTypes
  <2>. QED
    BY <1>2, <2>1 DEF VerdictsFor, Verdict
<1>. QED
  BY <1>1, <1>2

LEMMA RedHasPlatform ==
  ASSUME NEW v \in Verdict, DecideState(v) = "red" PROVE v.platform \in Platforms
  BY DEF DecideState, Verdict

LEMMA DecideStateType ==
  ASSUME NEW v PROVE DecideState(v) \in {"red", "green", "pending_review"}
  BY DEF DecideState

\* Writing well-typed rows keeps both the table and its history well typed.
LEMMA SetDomainsType ==
  ASSUME NEW d \in [Hosts -> DomainRow], SetDomains(d),
         wasRed \subseteq Hosts \X (Platforms \cup {NoPlatform})
  PROVE  /\ domains' \in [Hosts -> DomainRow]
         /\ wasRed' \subseteq Hosts \X (Platforms \cup {NoPlatform})
  BY DEF SetDomains, DomainRow

LEMMA SeededType ==
  ASSUME TypeOK, NEW s \in {"red", "green"}, NEW p \in Platforms \cup {NoPlatform}
  PROVE  Seeded(s, p) \in [Hosts -> DomainRow]
  BY DEF Seeded, TypeOK, TypeTables, DomainRow, DomainStates

LEMMA DomainsWritten == ASSUME NEW d, SetDomains(d) PROVE domains' = d
  BY DEF SetDomains

LEMMA FaultsRollBack ==
  ASSUME DeadlockVictim \/ Fault PROVE RollbackSweep \/ \E t \in Txns : Rollback(t)
<1>1. Waiting \subseteq Txns
  BY DEF Waiting
<1>. QED
  BY <1>1 DEF DeadlockVictim, Fault

LEMMA LookupType ==
  ASSUME TypeOK, NEW r \in Routers, NEW h \in Hosts PROVE Lookup(r, h) \in DomainRow
  BY DEF Lookup, TypeOK, TypeTables, DomainRow, DomainStates

LEMMA ReleaseType ==
  ASSUME TypeWorkers, NEW w \in Workers, Release(w) PROVE TypeWorkers'
  BY RowTypes DEF Release, TypeWorkers

LEMMA ClearRouterType ==
  ASSUME TypeRouters, NEW r \in Routers, ClearRouter(r), inbox' \in [Routers -> SUBSET SUBSET Pairs]
  PROVE  TypeRouters'
  BY DEF ClearRouter, TypeRouters
-----------------------------------------------------------------------------
(* Groups of variables that a step leaves alone keep their types. *)

LEMMA TypesUnchanged ==
  /\ TypeTables /\ UNCHANGED tables => TypeTables'
  /\ TypeRouters /\ UNCHANGED routerVars => TypeRouters'
  /\ TypeWorkers /\ UNCHANGED workerVars => TypeWorkers'
  /\ TypeRest /\ UNCHANGED <<sweepVars, drainVars, faults, seedVars>> => TypeRest'
<1>1. TypeTables /\ UNCHANGED tables => TypeTables'
  BY DEF TypeTables, tables
<1>2. TypeRouters /\ UNCHANGED routerVars => TypeRouters'
  BY DEF TypeRouters, routerVars
<1>3. TypeWorkers /\ UNCHANGED workerVars => TypeWorkers'
  BY DEF TypeWorkers, workerVars
<1>4. TypeRest /\ UNCHANGED <<sweepVars, drainVars, faults, seedVars>> => TypeRest'
  BY DEF TypeRest, sweepVars, drainVars, seedVars
<1>. QED
  BY <1>1, <1>2, <1>3, <1>4

LEMMA RouterKeepsTypes ==
  ASSUME TypeOK, NEW r \in Routers, Begin(r) \/ RouterStep(r)
  PROVE  TypeOK'
<1>. USE DEF TypeOK
<1>a. r \in {Consumer, Resolver}
  BY DEF Routers
<1>1. CASE Begin(r)
  <2>1. TypeTables'
    BY <1>1 DEF Begin, TypeTables
  <2>2. TypeRouters'
    BY <1>1, NumberTypes DEF Begin, TypeRouters, Times
  <2>. QED
    BY <1>1, <2>1, <2>2, TypesUnchanged DEF Begin
<1>2. CASE RouteKnown(r)
  <2>1. PICK pair \in todo[r] : RouteKnown(r)!2!(pair)
    BY <1>2 DEF RouteKnown
  <2>2. pair \in Pairs
    BY DEF TypeRouters
  <2>3. Lookup(r, pair[2]) \in DomainRow
    BY <2>2, LookupType
  <2>4. newLabels' \in [Routers -> SUBSET (Posts \X Platforms)]
    BY <2>1, <2>2, <2>3 DEF TypeRouters, DomainRow
  <2>5. newPosts' \in [Routers -> SUBSET Pairs] /\ todo' \in [Routers -> SUBSET Pairs]
    BY <2>1, <2>2 DEF TypeRouters
  <2>6. TypeRouters'
    BY <1>2, <2>4, <2>5 DEF RouteKnown, TypeRouters
  <2>. QED
    BY <1>2, <2>6, TypesUnchanged DEF RouteKnown
<1>3. CASE RouteUnknown(r)
  <2>1. TypeRouters'
    BY <1>3 DEF RouteUnknown, TypeRouters
  <2>. QED
    BY <1>3, <2>1, TypesUnchanged DEF RouteUnknown
<1>4. CASE EnqueueHost(r)
  <2>1. cur[r] \in Pairs
    BY <1>4 DEF EnqueueHost, TypeRouters
  <2>2. TypeRouters'
    BY <1>4, <2>1 DEF EnqueueHost, TypeRouters
  <2>. QED
    BY <1>4, <2>2, TypesUnchanged DEF EnqueueHost
<1>5. CASE BufferNew(r)
  <2>1. cur[r] \in Pairs
    BY <1>5 DEF BufferNew, TypeRouters
  <2>2. TypeRouters'
    BY <1>5, <2>1 DEF BufferNew, TypeRouters
  <2>. QED
    BY <1>5, <2>2, TypesUnchanged DEF BufferNew
<1>6. CASE CommitRoute(r)
  <2>1. started[r] \in Nat
    BY DEF TypeRouters
  <2>2. queue' \in [Hosts -> QueueRow]
    BY <1>6, <2>1, RowTypes DEF CommitRoute, TypeTables
  <2>3. [h \in Hosts |-> IF h \in newDomains[r]
           THEN [state |-> "pending", platform |-> NoPlatform] ELSE domains[h]]
        \in [Hosts -> DomainRow]
    BY DEF TypeTables, DomainRow, DomainStates
  <2>4. TypeTables'
    BY <1>6, <2>2, <2>3, SetDomainsType DEF CommitRoute, TypeTables, TypeRouters
  <2>5. TypeRouters'
    BY <1>6, ClearRouterType DEF CommitRoute, TypeRouters
  <2>. QED
    BY <1>6, <2>4, <2>5, TypesUnchanged DEF CommitRoute
<1>. QED
  BY <1>1, <1>2, <1>3, <1>4, <1>5, <1>6 DEF RouterStep

LEMMA WorkerKeepsTypes ==
  ASSUME TypeOK, NEW w \in Workers, WorkerStep(w)
  PROVE  TypeOK'
<1>. USE DEF TypeOK
<1>1. CASE ClaimOne(w)
  <2>1. PICK h \in Claimable :
          /\ queue' = [queue EXCEPT ![h] = Claimed(queue[h])]
          /\ host' = [host EXCEPT ![w] = h]
    BY <1>1 DEF ClaimOne
  <2>2. h \in Hosts /\ queue[h] \in QueueRow
    BY DEF Claimable, TypeTables
  <2>3. Bump(queue[h].attempts) \in 0..AttemptCap
    BY <2>2, BumpType DEF QueueRow
  <2>4. Claimed(queue[h]) \in QueueRow
    BY <2>2, <2>3 DEF QueueRow, Claimed
  <2>5. queue' \in [Hosts -> QueueRow]
    BY <2>1, <2>2, <2>4 DEF TypeTables
  <2>6. TypeTables'
    BY <1>1, <2>5 DEF ClaimOne, TypeTables
  <2>7. TypeWorkers'
    BY <1>1, <2>1, <2>2 DEF ClaimOne, TypeWorkers
  <2>. QED
    BY <1>1, <2>6, <2>7, TypesUnchanged DEF ClaimOne
<1>2. CASE Classify(w)
  <2>1. host[w] \in Hosts
    BY <1>2 DEF Classify, TypeWorkers
  <2>2. PICK v \in VerdictsFor(host[w]) : verdict' = [verdict EXCEPT ![w] = v]
    BY <1>2 DEF Classify
  <2>3. v \in Verdict
    BY <2>1, VerdictsForType
  <2>4. TypeWorkers'
    BY <1>2, <2>2, <2>3 DEF Classify, TypeWorkers
  <2>. QED
    BY <1>2, <2>4, TypesUnchanged DEF Classify
<1>3. CASE FetchError(w)
  <2>1. TypeWorkers'
    BY <1>3 DEF FetchError, TypeWorkers
  <2>. QED
    BY <1>3, <2>1, TypesUnchanged DEF FetchError
<1>4. CASE Fail(w)
  <2>1. host[w] \in Hosts /\ queue[host[w]] \in QueueRow
    BY <1>4 DEF Fail, TypeWorkers, TypeTables
  <2>2. [queue[host[w]] EXCEPT !.locked = queue[host[w]].queued] \in QueueRow
    BY <2>1 DEF QueueRow
  <2>3. queue' \in [Hosts -> QueueRow]
    BY <1>4, <2>1, <2>2 DEF Fail, TypeTables
  <2>4. TypeTables'
    BY <1>4, <2>3 DEF Fail, TypeTables
  <2>. QED
    BY <1>4, <2>4, ReleaseType, TypesUnchanged DEF Fail
<1>5. CASE FailForGood(w)
  <2>1. TypeWorkers'
    BY <1>5 DEF FailForGood, TypeWorkers
  <2>. QED
    BY <1>5, <2>1, TypesUnchanged DEF FailForGood
<1>6. CASE MarkUnfetchable(w)
  <2>1. host[w] \in Hosts /\ domains[host[w]] \in DomainRow
    BY <1>6 DEF MarkUnfetchable, TypeWorkers, TypeTables
  <2>2. [domains EXCEPT ![host[w]] = [@ EXCEPT !.state = "unfetchable"]] \in [Hosts -> DomainRow]
    BY <2>1 DEF TypeTables, DomainRow, DomainStates
  <2>3. TypeTables'
    BY <1>6, <2>1, <2>2, SetDomainsType, RowTypes DEF MarkUnfetchable, TypeTables
  <2>. QED
    BY <1>6, <2>3, ReleaseType, TypesUnchanged DEF MarkUnfetchable
<1>7. CASE UpdateDomain(w)
  <2>1. DecideState(verdict[w]) = "red" => verdict[w].platform \in Platforms
    BY RedHasPlatform DEF TypeWorkers
  <2>2. PendingOf(host[w]) \subseteq Pairs
    BY DEF PendingOf, TypeTables
  <2>3. TypeWorkers'
    BY <1>7, <2>1, <2>2 DEF UpdateDomain, TypeWorkers
  <2>. QED
    BY <1>7, <2>3, TypesUnchanged DEF UpdateDomain
<1>8. CASE CommitVerdict(w)
  <2>1. host[w] \in Hosts /\ verdict[w] \in Verdict
    BY <1>8 DEF CommitVerdict, TypeWorkers
  <2>2. [state |-> DecideState(verdict[w]), platform |-> verdict[w].platform] \in DomainRow
    BY <2>1, DecideStateType DEF Verdict, NoVerdict, DomainRow, DomainStates
  <2>3. [domains EXCEPT ![host[w]] =
           [state |-> DecideState(verdict[w]), platform |-> verdict[w].platform]]
        \in [Hosts -> DomainRow]
    BY <2>1, <2>2 DEF TypeTables
  <2>4. labels' \subseteq Posts \X Platforms
    BY <1>8 DEF CommitVerdict, TypeTables, TypeWorkers
  <2>5. TypeTables'
    BY <1>8, <2>1, <2>3, <2>4, SetDomainsType, RowTypes DEF CommitVerdict, TypeTables
  <2>. QED
    BY <1>8, <2>5, ReleaseType, TypesUnchanged DEF CommitVerdict
<1>. QED
  BY <1>1, <1>2, <1>3, <1>4, <1>5, <1>6, <1>7, <1>8 DEF WorkerStep, Record

LEMMA SweepKeepsTypes ==
  ASSUME TypeOK, SweepSelect \/ SweepDelete
  PROVE  TypeOK'
<1>. USE DEF TypeOK
<1>1. CASE SweepSelect
  <2>1. PICK rows \in SUBSET RedRows :
          swept' = {<<row[1], domains[row[2]].platform>> : row \in rows}
    BY <1>1 DEF SweepSelect
  <2>2. \A row \in rows : row \in Pairs /\ domains[row[2]].platform \in Platforms
    BY DEF RedRows, TypeTables, DomainRow
  <2>3. TypeRest'
    BY <1>1, <2>1, <2>2 DEF SweepSelect, TypeRest, drainVars, seedVars
  <2>. QED
    BY <1>1, <2>3, TypesUnchanged DEF SweepSelect
<1>2. CASE SweepDelete
  <2>1. TypeTables' /\ TypeRest'
    BY <1>2 DEF SweepDelete, TypeTables, TypeRest, drainVars, seedVars
  <2>. QED
    BY <1>2, <2>1, TypesUnchanged DEF SweepDelete
<1>. QED
  BY <1>1, <1>2

LEMMA RollbackKeepsTypes ==
  ASSUME TypeOK, faults' \in Nat, RollbackSweep \/ \E t \in Txns : Rollback(t)
  PROVE  TypeOK'
<1>. USE DEF TypeOK
<1>1. ASSUME NEW r \in Routers, RollbackRoute(r) PROVE TypeOK'
  <2>1. inbox' \in [Routers -> SUBSET SUBSET Pairs]
    BY <1>1 DEF RollbackRoute, TypeRouters
  <2>2. TypeRouters'
    BY <1>1, <2>1, ClearRouterType DEF RollbackRoute
  <2>3. TypeRest'
    BY <1>1 DEF RollbackRoute, TypeRest, sweepVars, drainVars, seedVars
  <2>. QED
    BY <1>1, <2>2, <2>3, TypesUnchanged DEF RollbackRoute
<1>2. ASSUME NEW w \in Workers, RollbackWorker(w) PROVE TypeOK'
  <2>1. TypeRest'
    BY <1>2 DEF RollbackWorker, TypeRest, sweepVars, drainVars, seedVars
  <2>. QED
    BY <1>2, <2>1, ReleaseType, TypesUnchanged DEF RollbackWorker
<1>3. CASE RollbackDrain
  <2>1. TypeRest'
    BY <1>3 DEF RollbackDrain, TypeRest, sweepVars, seedVars
  <2>. QED
    BY <1>3, <2>1, TypesUnchanged DEF RollbackDrain
<1>4. CASE RollbackSweep
  <2>1. TypeRest'
    BY <1>4 DEF RollbackSweep, TypeRest, drainVars, seedVars
  <2>. QED
    BY <1>4, <2>1, TypesUnchanged DEF RollbackSweep
<1>5. CASE RollbackSeed
  <2>1. TypeRest'
    BY <1>5 DEF RollbackSeed, TypeRest, sweepVars, drainVars
  <2>. QED
    BY <1>5, <2>1, TypesUnchanged DEF RollbackSeed
<1>. QED
  BY <1>1, <1>2, <1>3, <1>4, <1>5 DEF Rollback

LEMMA OperatorsKeepTypes ==
  ASSUME TypeOK, Seed \/ DrainMark \/ DrainDrop \/ DrainDelete
  PROVE  TypeOK'
<1>. USE DEF TypeOK
<1>1. CASE Seed
  <2>1. ASSUME NEW h \in Hosts, SeedFirst(h) PROVE TypeOK'
    <3>1. TypeRest'
      BY <2>1 DEF SeedFirst, TypeRest, sweepVars, drainVars
    <3>. QED
      BY <2>1, <3>1, TypesUnchanged DEF SeedFirst
  <2>2. ASSUME NEW h \in Hosts, SeedLine(h) PROVE TypeOK'
    <3>1. TypeRest'
      BY <2>2 DEF SeedLine, TypeRest, sweepVars, drainVars
    <3>. QED
      BY <2>2, <3>1, TypesUnchanged DEF SeedLine
  <2>3. ASSUME NEW s \in {"red", "green"}, NEW p \in Platforms \cup {NoPlatform}, SeedCommit(s, p)
        PROVE  TypeOK'
    <3>1. TypeTables'
      BY <2>3, SeededType, SetDomainsType DEF SeedCommit, TypeTables
    <3>2. TypeRest'
      BY <2>3 DEF SeedCommit, TypeRest, sweepVars, drainVars
    <3>. QED
      BY <2>3, <3>1, <3>2, TypesUnchanged DEF SeedCommit
  <2>. QED
    BY <1>1, <2>1, <2>2, <2>3 DEF Seed, SeedStep
<1>2. CASE DrainMark
  <2>1. TypeRest'
    BY <1>2 DEF DrainMark, TypeRest, sweepVars, Chronic, seedVars
  <2>. QED
    BY <1>2, <2>1, TypesUnchanged DEF DrainMark
<1>3. CASE DrainDrop
  <2>1. TypeRest'
    BY <1>3 DEF DrainDrop, TypeRest, TypeTables, sweepVars, seedVars
  <2>. QED
    BY <1>3, <2>1, TypesUnchanged DEF DrainDrop
<1>4. CASE DrainDelete
  <2>1. [h \in Hosts |-> IF h \in marked THEN [domains[h] EXCEPT !.state = "unfetchable"] ELSE domains[h]]
        \in [Hosts -> DomainRow]
    BY DEF TypeTables, DomainRow, DomainStates
  <2>2. TypeTables'
    BY <1>4, <2>1, SetDomainsType, RowTypes DEF DrainDelete, TypeTables
  <2>3. TypeRest'
    BY <1>4 DEF DrainDelete, TypeRest, sweepVars, seedVars
  <2>. QED
    BY <1>4, <2>2, <2>3, TypesUnchanged DEF DrainDelete
<1>. QED
  BY <1>1, <1>2, <1>3, <1>4

LEMMA InitTypes == Init => TypeOK
<1>. SUFFICES ASSUME Init PROVE TypeOK
  OBVIOUS
<1>1. TypeTables
  BY RowTypes DEF Init, TypeTables
<1>2. TypeRouters
  BY InboxType DEF Init, TypeRouters
<1>3. TypeWorkers
  BY RowTypes DEF Init, TypeWorkers
<1>4. TypeRest
  BY NumberTypes DEF Init, TypeRest
<1>. QED
  BY <1>1, <1>2, <1>3, <1>4 DEF TypeOK

LEMMA StepKeepsTypes == TypeOK /\ [OpsNext]_vars => TypeOK'
<1>. SUFFICES ASSUME TypeOK, [OpsNext]_vars PROVE TypeOK'
  OBVIOUS
<1>1. CASE \E r \in Routers : Begin(r) \/ RouterStep(r)
  BY <1>1, RouterKeepsTypes
<1>2. CASE \E w \in Workers : WorkerStep(w)
  BY <1>2, WorkerKeepsTypes
<1>3. CASE \E h \in Hosts : LockExpires(h)
  <2>1. PICK h \in Hosts : LockExpires(h)
    BY <1>3
  <2>2. TypeTables'
    BY <2>1 DEF LockExpires, TypeOK, TypeTables, QueueRow
  <2>. QED
    BY <2>1, <2>2, TypesUnchanged DEF LockExpires, TypeOK
<1>4. CASE SweepSelect \/ SweepDelete
  BY <1>4, SweepKeepsTypes
<1>5. CASE Seed \/ DrainMark \/ DrainDrop \/ DrainDelete
  BY <1>5, OperatorsKeepTypes
<1>6. CASE DeadlockVictim \/ Fault
  <2>1. faults' \in Nat
    BY <1>6 DEF DeadlockVictim, Fault, TypeOK, TypeRest
  <2>. QED
    BY <1>6, <2>1, RollbackKeepsTypes, FaultsRollBack
<1>7. CASE UNCHANGED vars
  BY <1>7, TypesUnchanged DEF vars, TypeOK
<1>. QED
  BY <1>1, <1>2, <1>3, <1>4, <1>5, <1>6, <1>7 DEF OpsNext, Next

\* Type correctness of every table and every process, with the operators' scripts
\* running beside the services.
THEOREM TypeCorrect == OpsSpec => []TypeOK
<1>1. Init => TypeOK
  BY InitTypes
<1>2. TypeOK /\ [OpsNext]_vars => TypeOK'
  BY StepKeepsTypes
<1>. QED
  BY <1>1, <1>2, PTL DEF OpsSpec

LEMMA NextIsOpsNext == [Next]_vars => [OpsNext]_vars
  BY DEF OpsNext
-----------------------------------------------------------------------------
(* NeverReopened, with the drain: the key a router holds in domains is held *)
(* by nobody else, and is the key of a row that does not exist yet.         *)

OneHolder ==
  \A h \in Hosts : \A t, u \in Txns : HoldsDomain(t, h) /\ HoldsDomain(u, h) => t = u

HeldInsertsAreAbsent ==
  \A r \in Routers : \A h \in newDomains[r] : domains[h].state = "absent"

LockInv == OneHolder /\ HeldInsertsAreAbsent

\* A transaction that commits what it has locked, or a statement that waited for
\* the row, writes no row that a router is inserting.
LEMMA WriteHeldOrFree ==
  ASSUME LockInv,
         \A h \in Hosts : \A t \in Txns : HoldsDomain(t, h)' => HoldsDomain(t, h),
         \A r \in Routers : newDomains'[r] \subseteq newDomains[r] /\ newDomains[r] \subseteq Hosts,
         \A h \in Hosts : domains'[h] # domains[h] =>
           \A r \in Routers : h \notin newDomains'[r]
  PROVE  LockInv'
<1>1. OneHolder'
  BY DEF LockInv, OneHolder, Txns, Routers
<1>2. HeldInsertsAreAbsent'
  BY DEF LockInv, HeldInsertsAreAbsent
<1>. QED
  BY <1>1, <1>2 DEF LockInv

\* A transaction locks rows that were free.
LEMMA TakeFreeLock ==
  ASSUME LockInv, NEW u \in Txns, UNCHANGED domains,
         \A h \in Hosts : \A t \in Txns :
           HoldsDomain(t, h)' => HoldsDomain(t, h) \/ (t = u /\ DomainFree(h)),
         \A r \in Routers : newDomains'[r] \subseteq Hosts /\
           \A h \in newDomains'[r] : h \in newDomains[r] \/ domains[h].state = "absent"
  PROVE  LockInv'
<1>1. OneHolder'
  BY DEF LockInv, OneHolder, DomainFree, Txns, Routers
<1>2. HeldInsertsAreAbsent'
  BY DEF LockInv, HeldInsertsAreAbsent
<1>. QED
  BY <1>1, <1>2 DEF LockInv

\* Steps that leave domains and the locks on it alone.
LEMMA LocksUntouched ==
  ASSUME TypeOK, LockInv, UNCHANGED <<domains, newDomains, marked, seeded>>,
         \A w \in Workers : wpc'[w] = "commit" => wpc[w] = "commit" /\ host'[w] = host[w]
  PROVE  LockInv'
<1>1. \A h \in Hosts : \A t \in Txns : HoldsDomain(t, h)' => HoldsDomain(t, h)
  BY DEF HoldsDomain
<1>2. \A r \in Routers : newDomains[r] \subseteq Hosts
  BY DEF TypeOK, TypeRouters
<1>. QED
  BY <1>1, <1>2, WriteHeldOrFree

\* What a seed has locked no router is inserting.
LEMMA SeededIsHeld ==
  ASSUME LockInv, NEW h \in Hosts, h \in seeded, NEW r \in Routers PROVE h \notin newDomains[r]
  BY ProcessesDiffer DEF LockInv, OneHolder, HoldsDomain, Txns

LEMMA RouterKeepsLocks ==
  ASSUME TypeOK, LockInv, NEW r \in Routers, Begin(r) \/ RouterStep(r)
  PROVE  LockInv'
<1>1. CASE Begin(r) \/ RouteKnown(r) \/ RouteUnknown(r) \/ EnqueueHost(r)
  <2>1. UNCHANGED <<domains, newDomains, marked, seeded, wpc, host>>
    BY <1>1 DEF Begin, RouteKnown, RouteUnknown, EnqueueHost, tables, workerVars, drainVars, seedVars
  <2>. QED
    BY <2>1, LocksUntouched
<1>2. CASE BufferNew(r)
  <2>. DEFINE g == cur[r][2]
  <2>1. g \in Hosts /\ DomainFree(g) /\ UNCHANGED <<domains, marked, seeded, wpc, host>>
    BY <1>2 DEF BufferNew, tables, workerVars, drainVars, seedVars, TypeOK, TypeRouters
  <2>2. \A s \in Routers : /\ s # r => newDomains'[s] = newDomains[s]
                          /\ newDomains'[s] \subseteq Hosts
                          /\ \A h \in newDomains'[s] : h \in newDomains[s] \/ (s = r /\ h = g /\ domains[h].state = "absent")
    BY <1>2, <2>1 DEF BufferNew, TypeOK, TypeRouters
  <2>3. \A h \in Hosts : \A t \in Txns : HoldsDomain(t, h)' => HoldsDomain(t, h) \/ (t = r /\ DomainFree(h))
    BY <2>1, <2>2 DEF HoldsDomain
  <2>. QED
    BY <2>1, <2>2, <2>3, TakeFreeLock DEF Txns
<1>3. CASE CommitRoute(r)
  <2>1. /\ newDomains' = [newDomains EXCEPT ![r] = {}]
        /\ UNCHANGED <<marked, seeded, wpc, host>>
    BY <1>3 DEF CommitRoute, ClearRouter, workerVars, drainVars, seedVars
  <2>2. \A h \in Hosts : domains'[h] # domains[h] => h \in newDomains[r]
    BY <1>3, DomainsWritten DEF CommitRoute, TypeOK, TypeTables
  <2>3. \A s \in Routers : newDomains'[s] \subseteq newDomains[s] /\ newDomains[s] \subseteq Hosts
                          /\ (newDomains'[s] # {} => s # r)
    BY <2>1 DEF TypeOK, TypeRouters
  <2>4. \A h \in Hosts : \A t \in Txns : HoldsDomain(t, h)' => HoldsDomain(t, h)
    BY <2>1, <2>3 DEF HoldsDomain
  <2>5. \A h \in Hosts : h \in newDomains[r] => \A s \in Routers : h \notin newDomains'[s]
    BY <2>3 DEF LockInv, OneHolder, HoldsDomain, Txns
  <2>. QED
    BY <2>2, <2>3, <2>4, <2>5, WriteHeldOrFree
<1>. QED
  BY <1>1, <1>2, <1>3 DEF RouterStep

LEMMA WorkerKeepsLocks ==
  ASSUME TypeOK, LockInv, NEW w \in Workers, WorkerStep(w)
  PROVE  LockInv'
<1>1. CASE ClaimOne(w) \/ Classify(w) \/ FetchError(w) \/ Fail(w) \/ FailForGood(w)
  <2>1. UNCHANGED <<domains, newDomains, marked, seeded>>
    BY <1>1 DEF ClaimOne, Classify, FetchError, Fail, FailForGood, tables, routerVars, drainVars, seedVars
  <2>2. \A v \in Workers : wpc'[v] = "commit" => wpc[v] = "commit" /\ host'[v] = host[v]
    <3>1. wpc'[w] # "commit"
      BY <1>1 DEF ClaimOne, Classify, FetchError, Fail, FailForGood, Release, TypeOK, TypeWorkers
    <3>2. \A v \in Workers \ {w} : wpc'[v] = wpc[v] /\ host'[v] = host[v]
      BY <1>1 DEF ClaimOne, Classify, FetchError, Fail, FailForGood, Release, TypeOK, TypeWorkers
    <3>. QED
      BY <3>1, <3>2
  <2>. QED
    BY <2>1, <2>2, LocksUntouched
<1>2. CASE UpdateDomain(w)
  <2>1. /\ UNCHANGED <<domains, newDomains, marked, seeded, host>> /\ DomainFree(host[w])
        /\ wpc' = [wpc EXCEPT ![w] = "commit"]
    BY <1>2 DEF UpdateDomain, tables, routerVars, drainVars, seedVars
  <2>2. \A h \in Hosts : \A t \in Txns : HoldsDomain(t, h)' => HoldsDomain(t, h) \/ (t = w /\ DomainFree(h))
    BY <2>1 DEF HoldsDomain, TypeOK, TypeWorkers
  <2>3. \A r \in Routers : newDomains[r] \subseteq Hosts
    BY DEF TypeOK, TypeRouters
  <2>. QED
    BY <2>1, <2>2, <2>3, TakeFreeLock DEF Txns
<1>3. CASE MarkUnfetchable(w) \/ CommitVerdict(w)
  <2>1. host[w] \in Hosts /\ UNCHANGED <<newDomains, marked, seeded>> /\ Release(w)
    BY <1>3 DEF MarkUnfetchable, CommitVerdict, routerVars, drainVars, seedVars, TypeOK, TypeWorkers
  <2>2. \A h \in Hosts \ {host[w]} : domains'[h] = domains[h]
    BY <1>3, DomainsWritten DEF MarkUnfetchable, CommitVerdict, TypeOK, TypeTables
  <2>3. \A r \in Routers : host[w] \notin newDomains[r]
    <3>1. CASE MarkUnfetchable(w)
      BY <3>1 DEF MarkUnfetchable, DomainFree, HoldsDomain, Txns
    <3>2. CASE CommitVerdict(w)
      BY <2>1, <3>2, ProcessesDiffer DEF CommitVerdict, LockInv, OneHolder, HoldsDomain, Txns
    <3>. QED
      BY <1>3, <3>1, <3>2
  <2>4. \A h \in Hosts : \A t \in Txns : HoldsDomain(t, h)' => HoldsDomain(t, h)
    BY <2>1 DEF HoldsDomain, Release, TypeOK, TypeWorkers
  <2>5. \A r \in Routers : newDomains[r] \subseteq Hosts
    BY DEF TypeOK, TypeRouters
  <2>. QED
    BY <2>1, <2>2, <2>3, <2>4, <2>5, WriteHeldOrFree
<1>. QED
  BY <1>1, <1>2, <1>3 DEF WorkerStep, Record

LEMMA OperatorsKeepLocks ==
  ASSUME TypeOK, LockInv, Seed \/ DrainMark \/ DrainDrop \/ DrainDelete
  PROVE  LockInv'
<1>0. \A r \in Routers : newDomains[r] \subseteq Hosts
  BY DEF TypeOK, TypeRouters
<1>1. CASE Seed
  <2>1. ASSUME NEW h \in Hosts, SeedFirst(h) \/ SeedLine(h) PROVE LockInv'
    <3>1. /\ UNCHANGED <<domains, newDomains, marked, wpc, host>>
          /\ seeded' \subseteq seeded \cup {h} /\ DomainFree(h)
      BY <2>1 DEF SeedFirst, SeedLine, tables, routerVars, workerVars, drainVars
    <3>2. \A g \in Hosts : \A t \in Txns :
            HoldsDomain(t, g)' => HoldsDomain(t, g) \/ (t = "seed" /\ DomainFree(g))
      BY <3>1 DEF HoldsDomain
    <3>. QED
      BY <1>0, <3>1, <3>2, TakeFreeLock DEF Txns
  <2>2. ASSUME NEW s \in {"red", "green"}, NEW p \in Platforms \cup {NoPlatform}, SeedCommit(s, p)
        PROVE  LockInv'
    <3>1. UNCHANGED <<newDomains, marked, wpc, host>> /\ seeded' = {}
      BY <2>2 DEF SeedCommit, routerVars, workerVars, drainVars
    <3>2. \A h \in Hosts : domains'[h] # domains[h] => h \in seeded
      BY <2>2, DomainsWritten DEF SeedCommit, Seeded, TypeOK, TypeTables
    <3>3. \A h \in Hosts : \A t \in Txns : HoldsDomain(t, h)' => HoldsDomain(t, h)
      BY <3>1 DEF HoldsDomain
    <3>. QED
      BY <1>0, <3>1, <3>2, <3>3, SeededIsHeld, WriteHeldOrFree
  <2>. QED
    BY <1>1, <2>1, <2>2 DEF Seed, SeedStep
<1>2. CASE DrainMark
  <2>1. /\ UNCHANGED <<domains, newDomains, seeded, wpc, host>>
        /\ marked' = Chronic /\ \A h \in Chronic : DomainFree(h)
    BY <1>2 DEF DrainMark, tables, routerVars, workerVars, seedVars
  <2>2. \A h \in Hosts : \A t \in Txns : HoldsDomain(t, h)' => HoldsDomain(t, h) \/ (t = "drain" /\ DomainFree(h))
    BY <2>1 DEF HoldsDomain
  <2>. QED
    BY <1>0, <2>1, <2>2, TakeFreeLock DEF Txns
<1>3. CASE DrainDrop
  BY <1>3, LocksUntouched DEF DrainDrop, tables, routerVars, workerVars, seedVars
<1>4. CASE DrainDelete
  <2>1. UNCHANGED <<newDomains, seeded, wpc, host>> /\ marked' = {}
    BY <1>4 DEF DrainDelete, routerVars, workerVars, seedVars
  <2>2. \A h \in Hosts : domains'[h] # domains[h] => h \in marked
    BY <1>4, DomainsWritten DEF DrainDelete, TypeOK, TypeTables
  <2>3. \A h \in Hosts : h \in marked => \A r \in Routers : h \notin newDomains[r]
    BY ProcessesDiffer DEF LockInv, OneHolder, HoldsDomain, Txns
  <2>4. \A h \in Hosts : \A t \in Txns : HoldsDomain(t, h)' => HoldsDomain(t, h)
    BY <2>1 DEF HoldsDomain
  <2>. QED
    BY <1>0, <2>1, <2>2, <2>3, <2>4, WriteHeldOrFree
<1>. QED
  BY <1>1, <1>2, <1>3, <1>4

LEMMA RollbackKeepsLocks ==
  ASSUME TypeOK, LockInv, RollbackSweep \/ \E t \in Txns : Rollback(t)
  PROVE  LockInv'
<1>0. \A r \in Routers : newDomains[r] \subseteq Hosts
  BY DEF TypeOK, TypeRouters
<1>1. ASSUME NEW r \in Routers, RollbackRoute(r) PROVE LockInv'
  <2>1. newDomains' = [newDomains EXCEPT ![r] = {}] /\ UNCHANGED <<domains, marked, seeded, wpc, host>>
    BY <1>1 DEF RollbackRoute, ClearRouter, tables, workerVars, drainVars, seedVars
  <2>2. \A s \in Routers : newDomains'[s] \subseteq newDomains[s]
    BY <2>1 DEF TypeOK, TypeRouters
  <2>3. \A h \in Hosts : \A t \in Txns : HoldsDomain(t, h)' => HoldsDomain(t, h)
    BY <2>1, <2>2 DEF HoldsDomain
  <2>. QED
    BY <1>0, <2>1, <2>2, <2>3, WriteHeldOrFree
<1>2. ASSUME NEW w \in Workers, RollbackWorker(w) PROVE LockInv'
  BY <1>2, LocksUntouched DEF RollbackWorker, Release, tables, routerVars, drainVars, seedVars, TypeOK, TypeWorkers
<1>3. CASE RollbackDrain
  <2>1. marked' = {} /\ UNCHANGED <<domains, newDomains, seeded, wpc, host>>
    BY <1>3 DEF RollbackDrain, tables, routerVars, workerVars, seedVars
  <2>2. \A h \in Hosts : \A t \in Txns : HoldsDomain(t, h)' => HoldsDomain(t, h)
    BY <2>1 DEF HoldsDomain
  <2>. QED
    BY <1>0, <2>1, <2>2, WriteHeldOrFree
<1>4. CASE RollbackSweep
  BY <1>4, LocksUntouched DEF RollbackSweep, tables, routerVars, workerVars, drainVars, seedVars
<1>5. CASE RollbackSeed
  <2>1. seeded' = {} /\ UNCHANGED <<domains, newDomains, marked, wpc, host>>
    BY <1>5 DEF RollbackSeed, tables, routerVars, workerVars, drainVars
  <2>2. \A h \in Hosts : \A t \in Txns : HoldsDomain(t, h)' => HoldsDomain(t, h)
    BY <2>1 DEF HoldsDomain
  <2>. QED
    BY <1>0, <2>1, <2>2, WriteHeldOrFree
<1>. QED
  BY <1>1, <1>2, <1>3, <1>4, <1>5 DEF Rollback

LEMMA StepKeepsLocks == TypeOK /\ LockInv /\ [OpsNext]_vars => LockInv'
<1>. SUFFICES ASSUME TypeOK, LockInv, [OpsNext]_vars PROVE LockInv'
  OBVIOUS
<1>1. CASE \E r \in Routers : Begin(r) \/ RouterStep(r)
  BY <1>1, RouterKeepsLocks
<1>2. CASE \E w \in Workers : WorkerStep(w)
  BY <1>2, WorkerKeepsLocks
<1>3. CASE (\E h \in Hosts : LockExpires(h)) \/ SweepSelect \/ SweepDelete
  <2>1. UNCHANGED <<domains, newDomains, marked, seeded, wpc, host>>
    BY <1>3 DEF LockExpires, SweepSelect, SweepDelete, tables, routerVars, workerVars, drainVars, seedVars
  <2>. QED
    BY <2>1, LocksUntouched
<1>4. CASE Seed \/ DrainMark \/ DrainDrop \/ DrainDelete
  BY <1>4, OperatorsKeepLocks
<1>5. CASE DeadlockVictim \/ Fault
  BY <1>5, RollbackKeepsLocks, FaultsRollBack
<1>6. CASE UNCHANGED vars
  BY <1>6, LocksUntouched DEF vars, tables, routerVars, workerVars, drainVars, seedVars
<1>. QED
  BY <1>1, <1>2, <1>3, <1>4, <1>5, <1>6 DEF OpsNext, Next

\* The steps that write domains.
LEMMA WritersOfDomains ==
  ASSUME [OpsNext]_vars
  PROVE  \/ UNCHANGED domains
         \/ \E r \in Routers : CommitRoute(r)
         \/ \E w \in Workers : MarkUnfetchable(w) \/ CommitVerdict(w)
         \/ \E s \in {"red", "green"}, p \in Platforms \cup {NoPlatform} : SeedCommit(s, p)
         \/ DrainDelete
<1>1. \A r \in Routers : Begin(r) \/ RouterStep(r) => UNCHANGED domains \/ CommitRoute(r)
  BY DEF Begin, RouterStep, RouteKnown, RouteUnknown, EnqueueHost, BufferNew, tables
<1>2. \A w \in Workers : WorkerStep(w) => UNCHANGED domains \/ MarkUnfetchable(w) \/ CommitVerdict(w)
  BY DEF WorkerStep, Record, ClaimOne, Classify, FetchError, Fail, FailForGood, UpdateDomain, tables
<1>3. (\E g \in Hosts : LockExpires(g) \/ SeedFirst(g) \/ SeedLine(g))
        \/ SweepSelect \/ SweepDelete \/ DrainMark \/ DrainDrop => UNCHANGED domains
  BY DEF LockExpires, SeedFirst, SeedLine, SweepSelect, SweepDelete, DrainMark, DrainDrop, tables
<1>4. RollbackSweep \/ (\E t \in Txns : Rollback(t)) => UNCHANGED domains
  BY DEF RollbackSweep, Rollback, RollbackRoute, RollbackWorker, RollbackDrain, RollbackSeed, tables
<1>5. DeadlockVictim \/ Fault => UNCHANGED domains
  BY <1>4, FaultsRollBack
<1>6. UNCHANGED vars => UNCHANGED domains
  BY DEF vars, tables
<1>. QED
  BY <1>1, <1>2, <1>3, <1>5, <1>6 DEF OpsNext, Next, Seed, SeedStep

\* Only a router's commit writes 'pending', and only over a row that is absent.
LEMMA StepDoesNotReopen ==
  ASSUME TypeOK, LockInv, [OpsNext]_vars, NEW h \in Hosts,
         domains'[h].state \in {"absent", "pending"}
  PROVE  domains[h].state \in {"absent", "pending"}
<1>1. CASE \E r \in Routers : CommitRoute(r)
  <2>1. PICK r \in Routers : CommitRoute(r)
    BY <1>1
  <2>2. domains'[h] = IF h \in newDomains[r]
          THEN [state |-> "pending", platform |-> NoPlatform] ELSE domains[h]
    BY <2>1, DomainsWritten DEF CommitRoute
  <2>. QED
    BY <2>2 DEF LockInv, HeldInsertsAreAbsent
<1>2. CASE \E w \in Workers : MarkUnfetchable(w) \/ CommitVerdict(w)
  <2>1. PICK w \in Workers : MarkUnfetchable(w) \/ CommitVerdict(w)
    BY <1>2
  <2>2. CASE MarkUnfetchable(w)
    <3>1. domains' = [domains EXCEPT ![host[w]] = [@ EXCEPT !.state = "unfetchable"]]
      BY <2>2, DomainsWritten DEF MarkUnfetchable
    <3>. QED
      BY <3>1 DEF TypeOK, TypeTables, DomainRow
  <2>3. CASE CommitVerdict(w)
    <3>1. domains' = [domains EXCEPT ![host[w]] =
             [state |-> DecideState(verdict[w]), platform |-> verdict[w].platform]]
      BY <2>3, DomainsWritten DEF CommitVerdict
    <3>. QED
      BY <3>1, DecideStateType DEF TypeOK, TypeTables
  <2>. QED
    BY <2>1, <2>2, <2>3
<1>3. CASE \E s \in {"red", "green"}, p \in Platforms \cup {NoPlatform} : SeedCommit(s, p)
  <2>1. PICK s \in {"red", "green"}, p \in Platforms \cup {NoPlatform} : SeedCommit(s, p)
    BY <1>3
  <2>2. domains'[h].state = s \/ domains'[h] = domains[h]
    BY <2>1, DomainsWritten DEF SeedCommit, Seeded
  <2>. QED
    BY <2>2
<1>4. CASE DrainDelete
  <2>1. domains'[h] = IF h \in marked THEN [domains[h] EXCEPT !.state = "unfetchable"] ELSE domains[h]
    BY <1>4, DomainsWritten DEF DrainDelete
  <2>. QED
    BY <2>1 DEF TypeOK, TypeTables, DomainRow
<1>5. CASE UNCHANGED domains
  BY <1>5
<1>. QED
  BY <1>1, <1>2, <1>3, <1>4, <1>5, WritersOfDomains

LEMMA InitLocks == Init => LockInv
  BY DEF Init, LockInv, OneHolder, HeldInsertsAreAbsent, HoldsDomain

\* No step of any process, nor of the operators' scripts, reopens a decided host.
THEOREM DecidedStaysDecided == OpsSpec => NeverReopened
<1>1. Init => TypeOK /\ LockInv
  BY InitTypes, InitLocks
<1>2. TypeOK /\ LockInv /\ [OpsNext]_vars => (TypeOK /\ LockInv)'
  BY StepKeepsTypes, StepKeepsLocks
<1>3. TypeOK /\ LockInv /\ [OpsNext]_vars =>
        [\A h \in Hosts : domains'[h].state \in {"absent", "pending"} =>
           domains[h].state \in {"absent", "pending"}]_vars
  BY StepDoesNotReopen
<1>. QED
  BY <1>1, <1>2, <1>3, PTL DEF OpsSpec, NeverReopened
-----------------------------------------------------------------------------
(* PendingIsQueued for the services and ops.seed.  It is not inductive: a   *)
(* router that commits a 'pending' row must also have inserted the queue    *)
(* row, which it may have found there instead.  The invariant follows the   *)
(* router's uncommitted inserts and the two keys they hold.                 *)

\* A queued host and a claimed host have a row in domains.
QueueHasDomain == \A h \in Hosts : queue[h].queued => domains[h].state # "absent"
ClaimHasDomain == \A w \in Workers : wpc[w] # "idle" => domains[host[w]].state # "absent"

\* What a router has inserted is in no committed table, and in one router only.
InsertsAreNew ==
  \A r \in Routers : \A h \in Hosts :
    /\ h \in newDomains[r] => h \in newQueue[r] /\ domains[h].state = "absent"
    /\ h \in newQueue[r] => ~queue[h].queued
    /\ \A s \in Routers : h \in newQueue[r] /\ h \in newQueue[s] => r = s

\* Between enqueue_host and the insert into domains.
BuffersWhatItQueued ==
  \A r \in Routers :
    rpc[r] = "buffer" /\ domains[cur[r][2]].state = "absent" => cur[r][2] \in newQueue[r]

\* A queue row inserted for a host that is still unknown goes with a domain row.
QueuedGetsDomain ==
  \A r \in Routers : \A h \in newQueue[r] :
    domains[h].state = "absent" => h \in newDomains[r] \/ (rpc[r] = "buffer" /\ cur[r][2] = h)

IInv ==
  /\ PendingIsQueued /\ QueueHasDomain /\ ClaimHasDomain
  /\ InsertsAreNew /\ BuffersWhatItQueued /\ QueuedGetsDomain

\* Steps of a router change only what it has inserted, until it commits.
LEMMA RouterKeepsIInv ==
  ASSUME TypeOK, IInv, NEW r \in Routers, Begin(r) \/ RouterStep(r)
  PROVE  IInv'
<1>. USE DEF IInv
<1>1. CASE Begin(r) \/ RouteKnown(r) \/ RouteUnknown(r)
  <2>1. UNCHANGED <<domains, queue, newQueue, newDomains, wpc, host>>
    BY <1>1 DEF Begin, RouteKnown, RouteUnknown, workerVars, tables
  <2>2. rpc[r] # "buffer" /\ rpc'[r] # "buffer"
        /\ \A s \in Routers \ {r} : rpc'[s] = rpc[s] /\ cur'[s] = cur[s]
    <3>1. CASE Begin(r)
      BY <3>1 DEF Begin, TypeOK, TypeRouters
    <3>2. CASE RouteKnown(r)
      BY <3>2 DEF RouteKnown
    <3>3. CASE RouteUnknown(r)
      BY <3>3 DEF RouteUnknown, TypeOK, TypeRouters
    <3>. QED
      BY <1>1, <3>1, <3>2, <3>3
  <2>. QED
    BY <2>1, <2>2 DEF PendingIsQueued, QueueHasDomain, ClaimHasDomain, InsertsAreNew,
                      BuffersWhatItQueued, QueuedGetsDomain
<1>2. CASE EnqueueHost(r)
  <2>. DEFINE h == cur[r][2]
  <2>1. h \in Hosts /\ UNCHANGED <<domains, queue, newDomains, wpc, host, cur>>
    BY <1>2 DEF EnqueueHost, tables, workerVars, TypeOK, TypeRouters
  <2>2. \A s \in Routers : h \notin newQueue[s]
    BY <1>2 DEF EnqueueHost, QueueInsertFree, HoldsQueueInsert, Txns
  <2>3. newQueue' = [newQueue EXCEPT ![r] = IF queue[h].queued THEN @ ELSE @ \cup {h}]
        /\ rpc' = [rpc EXCEPT ![r] = "buffer"]
    BY <1>2 DEF EnqueueHost
  <2>4. InsertsAreNew'
    BY <2>1, <2>2, <2>3 DEF InsertsAreNew, TypeOK, TypeRouters
  <2>5. BuffersWhatItQueued' /\ QueuedGetsDomain'
    BY <1>2, <2>1, <2>3 DEF EnqueueHost, QueueHasDomain, BuffersWhatItQueued, QueuedGetsDomain,
                            TypeOK, TypeRouters
  <2>. QED
    BY <2>1, <2>4, <2>5, <1>2 DEF PendingIsQueued, QueueHasDomain, ClaimHasDomain
<1>3. CASE BufferNew(r)
  <2>. DEFINE h == cur[r][2]
  <2>1. h \in Hosts /\ UNCHANGED <<domains, queue, newQueue, wpc, host>>
    BY <1>3 DEF BufferNew, tables, workerVars, TypeOK, TypeRouters
  <2>2. newDomains' = [newDomains EXCEPT ![r] = IF domains[h].state = "absent" THEN @ \cup {h} ELSE @]
        /\ rpc' = [rpc EXCEPT ![r] = "route"] /\ cur' = [cur EXCEPT ![r] = <<>>]
    BY <1>3 DEF BufferNew
  <2>3. domains[h].state = "absent" => h \in newQueue[r]
    BY <1>3 DEF BufferNew, BuffersWhatItQueued
  <2>4. InsertsAreNew'
    BY <2>1, <2>2, <2>3 DEF InsertsAreNew, TypeOK, TypeRouters
  <2>5. BuffersWhatItQueued' /\ QueuedGetsDomain'
    BY <1>3, <2>1, <2>2 DEF BufferNew, BuffersWhatItQueued, QueuedGetsDomain, TypeOK, TypeRouters
  <2>. QED
    BY <2>1, <2>4, <2>5 DEF PendingIsQueued, QueueHasDomain, ClaimHasDomain
<1>4. CASE CommitRoute(r)
  <2>1. domains' = [h \in Hosts |->
          IF h \in newDomains[r] THEN [state |-> "pending", platform |-> NoPlatform] ELSE domains[h]]
    BY <1>4, DomainsWritten DEF CommitRoute
  <2>2. queue' = [h \in Hosts |-> IF h \in newQueue[r] THEN NewRow(started[r]) ELSE queue[h]]
    BY <1>4 DEF CommitRoute
  <2>3. /\ rpc' = [rpc EXCEPT ![r] = "idle"] /\ cur' = [cur EXCEPT ![r] = <<>>]
        /\ newQueue' = [newQueue EXCEPT ![r] = {}] /\ newDomains' = [newDomains EXCEPT ![r] = {}]
        /\ UNCHANGED <<wpc, host>> /\ rpc[r] = "route"
    BY <1>4 DEF CommitRoute, ClearRouter, workerVars
  <2>4. PendingIsQueued'
    BY <2>1, <2>2 DEF PendingIsQueued, InsertsAreNew, NewRow
  <2>5. QueueHasDomain'
    BY <2>1, <2>2, <2>3 DEF QueueHasDomain, QueuedGetsDomain
  <2>6. ClaimHasDomain'
    BY <2>1, <2>3 DEF ClaimHasDomain, TypeOK, TypeWorkers
  <2>7. InsertsAreNew'
    BY <2>1, <2>2, <2>3 DEF InsertsAreNew, TypeOK, TypeRouters
  <2>8. \A h \in Hosts : domains'[h].state = "absent" => domains[h].state = "absent"
    BY <2>1
  <2>9. BuffersWhatItQueued'
    <3>1. \A s \in Routers : rpc'[s] = "buffer" =>
            s # r /\ rpc[s] = "buffer" /\ cur'[s] = cur[s] /\ newQueue'[s] = newQueue[s]
      BY <2>3 DEF TypeOK, TypeRouters
    <3>2. \A s \in Routers : rpc[s] = "buffer" => cur[s][2] \in Hosts
      BY DEF TypeOK, TypeRouters
    <3>. QED
      BY <2>8, <3>1, <3>2 DEF BuffersWhatItQueued
  <2>10. QueuedGetsDomain'
    <3>1. \A s \in Routers : newQueue'[s] # {} =>
            s # r /\ rpc'[s] = rpc[s] /\ cur'[s] = cur[s] /\ newQueue'[s] = newQueue[s]
              /\ newDomains'[s] = newDomains[s] /\ newQueue[s] \subseteq Hosts
      BY <2>3 DEF TypeOK, TypeRouters
    <3>. QED
      BY <2>8, <3>1 DEF QueuedGetsDomain
  <2>. QED
    BY <2>4, <2>5, <2>6, <2>7, <2>9, <2>10
<1>. QED
  BY <1>1, <1>2, <1>3, <1>4 DEF RouterStep

\* A step that leaves the routers alone, gives rows in domains only to hosts that
\* no router is inserting, and takes rows out of the queue only for decided hosts.
LEMMA TablesKeepIInv ==
  ASSUME TypeOK, IInv,
         UNCHANGED <<rpc, cur, newQueue, newDomains>>,
         domains' \in [Hosts -> DomainRow],
         \A h \in Hosts : domains'[h].state \in {"absent", "pending"} => domains'[h] = domains[h],
         \A h \in Hosts : domains'[h] # domains[h] =>
           domains[h].state # "absent" \/ \A r \in Routers : h \notin newDomains[r],
         \A h \in Hosts : queue'[h].queued => queue[h].queued,
         \A h \in Hosts : queue[h].queued /\ ~queue'[h].queued => domains'[h].state # "pending",
         \A w \in Workers : wpc'[w] # "idle" => domains'[host'[w]].state # "absent"
  PROVE  IInv'
<1>1. \A h \in Hosts : domains'[h].state = "absent" => domains[h].state = "absent"
  OBVIOUS
<1>2. PendingIsQueued' /\ QueueHasDomain' /\ ClaimHasDomain'
  BY <1>1 DEF IInv, PendingIsQueued, QueueHasDomain, ClaimHasDomain
<1>3. InsertsAreNew'
  BY DEF IInv, InsertsAreNew
<1>4. \A r \in Routers : rpc[r] = "buffer" => cur[r][2] \in Hosts
  BY DEF TypeOK, TypeRouters
<1>5. BuffersWhatItQueued'
  BY <1>1, <1>4 DEF IInv, BuffersWhatItQueued
<1>6. \A r \in Routers : newQueue[r] \subseteq Hosts
  BY DEF TypeOK, TypeRouters
<1>7. QueuedGetsDomain'
  BY <1>1, <1>6 DEF IInv, QueuedGetsDomain
<1>. QED
  BY <1>2, <1>3, <1>5, <1>7 DEF IInv

LEMMA WorkerKeepsIInv ==
  ASSUME TypeOK, IInv, NEW w \in Workers, WorkerStep(w)
  PROVE  IInv'
<1>. USE DEF TypeOK
<1>1. CASE ClaimOne(w)
  <2>1. PICK h \in Claimable :
          /\ queue' = [queue EXCEPT ![h] = Claimed(queue[h])]
          /\ host' = [host EXCEPT ![w] = h]
    BY <1>1 DEF ClaimOne
  <2>2. h \in Hosts /\ queue[h].queued /\ domains[h].state # "absent"
    BY DEF Claimable, IInv, QueueHasDomain
  <2>3. \A g \in Hosts : queue'[g].queued = queue[g].queued
    BY <2>1, <2>2 DEF Claimed, TypeTables, QueueRow
  <2>4. UNCHANGED <<domains, rpc, cur, newQueue, newDomains>> /\ wpc' = [wpc EXCEPT ![w] = "fetch"]
    BY <1>1 DEF ClaimOne, routerVars
  <2>5. \A v \in Workers : wpc'[v] # "idle" => domains'[host'[v]].state # "absent"
    BY <2>1, <2>2, <2>4 DEF IInv, ClaimHasDomain, TypeWorkers
  <2>. QED
    BY <2>3, <2>4, <2>5, TablesKeepIInv DEF TypeTables
<1>2. CASE Classify(w) \/ FetchError(w) \/ FailForGood(w) \/ UpdateDomain(w)
  <2>1. UNCHANGED <<domains, queue, rpc, cur, newQueue, newDomains, host>>
        /\ wpc[w] # "idle" /\ \A v \in Workers \ {w} : wpc'[v] = wpc[v]
    BY <1>2 DEF Classify, FetchError, FailForGood, UpdateDomain, tables, routerVars, TypeWorkers
  <2>2. \A v \in Workers : wpc'[v] # "idle" => domains'[host'[v]].state # "absent"
    BY <2>1 DEF IInv, ClaimHasDomain
  <2>. QED
    BY <2>1, <2>2, TablesKeepIInv DEF TypeTables
<1>3. ASSUME Release(w), NEW d \in [Hosts -> DomainRow], domains' = d,
             UNCHANGED <<rpc, cur, newQueue, newDomains>>,
             host[w] \in Hosts, wpc[w] # "idle",
             \A h \in Hosts \ {host[w]} : d[h] = domains[h] /\ queue'[h] = queue[h],
             d[host[w]] = domains[host[w]] \/ d[host[w]].state \notin {"absent", "pending"},
             queue'[host[w]].queued = queue[host[w]].queued
               \/ (d[host[w]].state # "pending" /\ ~queue'[host[w]].queued)
      PROVE  IInv'
  <2>1. domains[host[w]].state # "absent"
    BY <1>3 DEF IInv, ClaimHasDomain
  <2>2. \A h \in Hosts : d[h].state = "absent" => domains[h].state = "absent"
    BY <1>3
  <2>3. \A v \in Workers : wpc'[v] # "idle" => domains'[host'[v]].state # "absent"
    BY <1>3, <2>2 DEF IInv, ClaimHasDomain, Release, TypeWorkers
  <2>. QED
    BY <1>3, <2>1, <2>3, TablesKeepIInv
<1>4. CASE Fail(w)
  <2>1. host[w] \in Hosts
    BY <1>4 DEF Fail, TypeWorkers
  <2>2. \A h \in Hosts : queue'[h].queued = queue[h].queued
    BY <1>4, <2>1 DEF Fail, TypeTables, QueueRow
  <2>3. \A h \in Hosts \ {host[w]} : queue'[h] = queue[h]
    BY <1>4, <2>1 DEF Fail, TypeTables
  <2>. QED
    BY <1>3, <1>4, <2>1, <2>2, <2>3 DEF Fail, TypeTables, routerVars
<1>5. CASE MarkUnfetchable(w)
  <2>1. host[w] \in Hosts /\ domains[host[w]] \in DomainRow
    BY <1>5 DEF MarkUnfetchable, TypeWorkers, TypeTables
  <2>. DEFINE d == [domains EXCEPT ![host[w]] = [@ EXCEPT !.state = "unfetchable"]]
  <2>2. domains' = d
    BY <1>5, DomainsWritten DEF MarkUnfetchable
  <2>3. /\ d \in [Hosts -> DomainRow] /\ d[host[w]].state = "unfetchable"
        /\ \A h \in Hosts \ {host[w]} : d[h] = domains[h]
    BY <2>1 DEF TypeTables, DomainRow, DomainStates
  <2>4. /\ \A h \in Hosts \ {host[w]} : queue'[h] = queue[h]
        /\ ~queue'[host[w]].queued
    BY <1>5, <2>1 DEF MarkUnfetchable, TypeTables, NoRow
  <2>. QED
    BY <1>3, <1>5, <2>1, <2>2, <2>3, <2>4 DEF MarkUnfetchable, routerVars
<1>6. CASE CommitVerdict(w)
  <2>1. host[w] \in Hosts /\ verdict[w] \in Verdict
    BY <1>6 DEF CommitVerdict, TypeWorkers
  <2>. DEFINE row == [state |-> DecideState(verdict[w]), platform |-> verdict[w].platform]
              d == [domains EXCEPT ![host[w]] = row]
  <2>2. domains' = d
    BY <1>6, DomainsWritten DEF CommitVerdict
  <2>3. row \in DomainRow /\ row.state \notin {"absent", "pending"}
    BY <2>1, DecideStateType DEF Verdict, NoVerdict, DomainRow, DomainStates
  <2>4. /\ d \in [Hosts -> DomainRow] /\ d[host[w]].state \notin {"absent", "pending"}
        /\ \A h \in Hosts \ {host[w]} : d[h] = domains[h]
    BY <2>1, <2>3 DEF TypeTables
  <2>5. /\ \A h \in Hosts \ {host[w]} : queue'[h] = queue[h]
        /\ ~queue'[host[w]].queued
    BY <1>6, <2>1 DEF CommitVerdict, TypeTables, NoRow
  <2>. QED
    BY <1>3, <1>6, <2>1, <2>2, <2>4, <2>5 DEF CommitVerdict, routerVars
<1>. QED
  BY <1>1, <1>2, <1>4, <1>5, <1>6 DEF WorkerStep, Record

\* A seed writes the hosts it has locked, which no router is inserting.
LEMMA SeedKeepsIInv ==
  ASSUME TypeOK, LockInv, IInv, Seed
  PROVE  IInv'
<1>1. ASSUME NEW h \in Hosts, SeedFirst(h) \/ SeedLine(h) PROVE IInv'
  <2>1. UNCHANGED <<domains, queue, rpc, cur, newQueue, newDomains, wpc, host>>
    BY <1>1 DEF SeedFirst, SeedLine, tables, routerVars, workerVars
  <2>. QED
    BY <2>1, TablesKeepIInv DEF IInv, ClaimHasDomain, TypeOK, TypeTables
<1>2. ASSUME NEW s \in {"red", "green"}, NEW p \in Platforms \cup {NoPlatform}, SeedCommit(s, p)
      PROVE  IInv'
  <2>1. domains' = Seeded(s, p) /\ UNCHANGED <<queue, rpc, cur, newQueue, newDomains, wpc, host>>
    BY <1>2, DomainsWritten DEF SeedCommit, routerVars, workerVars
  <2>2. Seeded(s, p) \in [Hosts -> DomainRow]
    BY SeededType
  <2>3. \A h \in Hosts :
          IF h \in seeded THEN domains'[h].state = s ELSE domains'[h] = domains[h]
    BY <2>1 DEF Seeded
  <2>4. \A h \in Hosts : h \in seeded => \A r \in Routers : h \notin newDomains[r]
    BY SeededIsHeld
  <2>5. \A w \in Workers : wpc'[w] # "idle" => domains'[host'[w]].state # "absent"
    BY <2>1, <2>3 DEF IInv, ClaimHasDomain, TypeOK, TypeWorkers
  <2>. QED
    BY <2>1, <2>2, <2>3, <2>4, <2>5, TablesKeepIInv
<1>. QED
  BY <1>1, <1>2 DEF Seed, SeedStep

LEMMA RollbackKeepsIInv ==
  ASSUME TypeOK, IInv, RollbackSweep \/ \E t \in Txns : Rollback(t)
  PROVE  IInv'
<1>1. ASSUME NEW r \in Routers, RollbackRoute(r) PROVE IInv'
  <2>1. /\ rpc' = [rpc EXCEPT ![r] = "idle"] /\ cur' = [cur EXCEPT ![r] = <<>>]
        /\ newQueue' = [newQueue EXCEPT ![r] = {}] /\ newDomains' = [newDomains EXCEPT ![r] = {}]
        /\ UNCHANGED <<domains, queue, wpc, host>>
    BY <1>1 DEF RollbackRoute, ClearRouter, tables, workerVars
  <2>2. InsertsAreNew'
    BY <2>1 DEF IInv, InsertsAreNew, TypeOK, TypeRouters
  <2>3. BuffersWhatItQueued' /\ QueuedGetsDomain'
    BY <2>1 DEF IInv, BuffersWhatItQueued, QueuedGetsDomain, TypeOK, TypeRouters
  <2>. QED
    BY <2>1, <2>2, <2>3 DEF IInv, PendingIsQueued, QueueHasDomain, ClaimHasDomain
<1>2. ASSUME NEW w \in Workers, RollbackWorker(w) PROVE IInv'
  <2>1. /\ UNCHANGED <<domains, queue, rpc, cur, newQueue, newDomains>>
        /\ \A v \in Workers : wpc'[v] # "idle" => wpc[v] # "idle" /\ host'[v] = host[v]
    BY <1>2 DEF RollbackWorker, Release, tables, routerVars, TypeOK, TypeWorkers
  <2>. QED
    BY <2>1, TablesKeepIInv DEF IInv, ClaimHasDomain, TypeOK, TypeTables
<1>3. CASE RollbackDrain \/ RollbackSweep \/ RollbackSeed
  <2>1. UNCHANGED <<domains, queue, rpc, cur, newQueue, newDomains, wpc, host>>
    BY <1>3 DEF RollbackDrain, RollbackSweep, RollbackSeed, tables, routerVars, workerVars
  <2>. QED
    BY <2>1, TablesKeepIInv DEF IInv, ClaimHasDomain, TypeOK, TypeTables
<1>. QED
  BY <1>1, <1>2, <1>3 DEF Rollback

LEMMA StepKeepsIInv == TypeOK /\ LockInv /\ IInv /\ [Next]_vars => IInv'
<1>. SUFFICES ASSUME TypeOK, LockInv, IInv, [Next]_vars PROVE IInv'
  OBVIOUS
<1>1. CASE \E r \in Routers : Begin(r) \/ RouterStep(r)
  BY <1>1, RouterKeepsIInv
<1>2. CASE \E w \in Workers : WorkerStep(w)
  BY <1>2, WorkerKeepsIInv
<1>3. CASE \E h \in Hosts : LockExpires(h)
  <2>1. PICK h \in Hosts : LockExpires(h)
    BY <1>3
  <2>2. \A g \in Hosts : queue'[g].queued = queue[g].queued
    BY <2>1 DEF LockExpires, TypeOK, TypeTables, QueueRow
  <2>3. UNCHANGED <<domains, rpc, cur, newQueue, newDomains, wpc, host>>
    BY <2>1 DEF LockExpires, routerVars, workerVars
  <2>. QED
    BY <2>2, <2>3, TablesKeepIInv DEF IInv, ClaimHasDomain, TypeOK, TypeTables
<1>4. CASE SweepSelect \/ SweepDelete
  <2>1. UNCHANGED <<domains, queue, rpc, cur, newQueue, newDomains, wpc, host>>
    BY <1>4 DEF SweepSelect, SweepDelete, tables, routerVars, workerVars
  <2>. QED
    BY <2>1, TablesKeepIInv DEF IInv, ClaimHasDomain, TypeOK, TypeTables
<1>5. CASE Seed
  BY <1>5, SeedKeepsIInv
<1>6. CASE DeadlockVictim \/ Fault
  BY <1>6, RollbackKeepsIInv, FaultsRollBack
<1>7. CASE UNCHANGED vars
  <2>1. UNCHANGED <<domains, queue, rpc, cur, newQueue, newDomains, wpc, host>>
    BY <1>7 DEF vars, tables, routerVars, workerVars
  <2>. QED
    BY <2>1, TablesKeepIInv DEF IInv, ClaimHasDomain, TypeOK, TypeTables
<1>. QED
  BY <1>1, <1>2, <1>3, <1>4, <1>5, <1>6, <1>7 DEF Next

LEMMA InitIInv == Init => IInv
  BY DEF Init, IInv, PendingIsQueued, QueueHasDomain, ClaimHasDomain, InsertsAreNew,
         BuffersWhatItQueued, QueuedGetsDomain, NoDomain, NoRow

LEMMA IInvHolds == Spec => [](TypeOK /\ LockInv /\ IInv)
<1>1. Init => TypeOK /\ LockInv /\ IInv
  BY InitTypes, InitLocks, InitIInv
<1>2. TypeOK /\ LockInv /\ IInv /\ [Next]_vars => (TypeOK /\ LockInv /\ IInv)'
  BY StepKeepsTypes, StepKeepsLocks, StepKeepsIInv, NextIsOpsNext
<1>. QED
  BY <1>1, <1>2, PTL DEF Spec

\* A host the program shows as pending is in the fetch queue, for any number of
\* fetch loops, posts and faults, and however long a fetch takes.
THEOREM PendingStaysQueued == Spec => []PendingIsQueued
<1>1. IInv => PendingIsQueued
  BY DEF IInv
<1>. QED
  BY <1>1, IInvHolds, PTL
-----------------------------------------------------------------------------
(* LabelNeedsRed, with the drain.  Four paths write labels; three of them   *)
(* hold the label or the row it is made from across a transaction, while    *)
(* the host may change under them: the invariant follows what they hold.    *)

Links == UNION {UNION Inbox[r] : r \in Routers}

Justified(label) == \E pair \in Links : pair[1] = label[1] /\ <<pair[2], label[2]>> \in wasRed

\* Posts in the tables and in the hands of a process are linked to their host.
RowsAreLinks ==
  /\ pending \subseteq Links
  /\ \A r \in Routers : /\ inbox[r] \subseteq Inbox[r]
                        /\ rpc[r] # "idle" => batch[r] \in Inbox[r]
                        /\ todo[r] \subseteq Links /\ newPosts[r] \subseteq Links
                        /\ rpc[r] \in {"enqueue", "buffer"} => cur[r] \in Links
  /\ \A w \in Workers : \A row \in backlog[w] :
       row \in Links /\ row[2] = host[w] /\ DecideState(verdict[w]) = "red"

RedIsRemembered == \A h \in Hosts : domains[h].state = "red" => <<h, domains[h].platform>> \in wasRed

LabelsAreJustified ==
  /\ \A label \in labels : Justified(label)
  /\ \A label \in swept : Justified(label)
  /\ \A r \in Routers : \A label \in newLabels[r] : Justified(label)

LabelInv == RowsAreLinks /\ RedIsRemembered /\ LabelsAreJustified

LEMMA HistoryGrows ==
  ASSUME NEW d, SetDomains(d)
  PROVE  wasRed \subseteq wasRed' /\ RedIsRemembered'
  BY DEF SetDomains, RedIsRemembered

LEMMA JustifiedStays ==
  ASSUME NEW label, Justified(label), wasRed \subseteq wasRed' PROVE Justified(label)'
  BY DEF Justified

LEMMA InboxIsLinks == \A r \in Routers : \A b \in Inbox[r] : b \subseteq Links
  BY DEF Links

LEMMA RouterKeepsLabels ==
  ASSUME TypeOK, LabelInv, NEW r \in Routers, Begin(r) \/ RouterStep(r)
  PROVE  LabelInv'
<1>1. CASE Begin(r)
  <2>1. PICK b \in inbox[r] :
          /\ inbox' = [inbox EXCEPT ![r] = @ \ {b}]
          /\ batch' = [batch EXCEPT ![r] = b] /\ todo' = [todo EXCEPT ![r] = b]
    BY <1>1 DEF Begin
  <2>2. UNCHANGED <<domains, pending, labels, wasRed, newPosts, newLabels, swept, backlog, host, verdict, cur>>
        /\ rpc' = [rpc EXCEPT ![r] = "route"]
    BY <1>1 DEF Begin, workerVars, sweepVars
  <2>3. b \in Inbox[r] /\ b \subseteq Links
    BY InboxIsLinks DEF LabelInv, RowsAreLinks
  <2>4. \A s \in Routers :
          /\ inbox'[s] \subseteq inbox[s]
          /\ rpc'[s] \in {"enqueue", "buffer"} => rpc'[s] = rpc[s]
          /\ s # r => rpc'[s] = rpc[s] /\ batch'[s] = batch[s] /\ todo'[s] = todo[s]
          /\ s = r => batch'[s] = b /\ todo'[s] = b
    BY <2>1, <2>2 DEF TypeOK, TypeRouters
  <2>4a. RowsAreLinks'
    BY <2>2, <2>3, <2>4 DEF LabelInv, RowsAreLinks
  <2>5. RedIsRemembered' /\ LabelsAreJustified'
    BY <2>2 DEF LabelInv, RedIsRemembered, LabelsAreJustified, Justified
  <2>. QED
    BY <2>4a, <2>5 DEF LabelInv
<1>2. CASE RouteKnown(r)
  <2>1. PICK pair \in todo[r] : RouteKnown(r)!2!(pair)
    BY <1>2 DEF RouteKnown
  <2>. DEFINE row == Lookup(r, pair[2])
  <2>2. pair \in Links /\ pair \in Pairs
    BY DEF LabelInv, RowsAreLinks, TypeOK, TypeRouters
  <2>3. UNCHANGED <<domains, pending, labels, wasRed, inbox, batch, rpc, cur, swept, backlog, host, verdict>>
    BY <1>2 DEF RouteKnown, tables, workerVars, sweepVars
  <2>4. row.state = "red" => Justified(<<pair[1], row.platform>>)
    BY <2>2 DEF Lookup, LabelInv, RedIsRemembered, Justified
  <2>5. \A s \in Routers : todo'[s] \subseteq todo[s] /\ newPosts'[s] \subseteq newPosts[s] \cup {pair}
    BY <2>1 DEF TypeOK, TypeRouters
  <2>6. \A s \in Routers : \A label \in newLabels'[s] :
          label \in newLabels[s] \/ (row.state = "red" /\ label = <<pair[1], row.platform>>)
    BY <2>1 DEF TypeOK, TypeRouters
  <2>7. RowsAreLinks'
    BY <2>2, <2>3, <2>5 DEF LabelInv, RowsAreLinks
  <2>8. RedIsRemembered' /\ LabelsAreJustified'
    BY <2>3, <2>4, <2>6 DEF LabelInv, RedIsRemembered, LabelsAreJustified, Justified
  <2>. QED
    BY <2>7, <2>8 DEF LabelInv
<1>3. CASE RouteUnknown(r) \/ EnqueueHost(r) \/ BufferNew(r)
  <2>1. UNCHANGED <<domains, pending, labels, wasRed, inbox, batch, newLabels, swept, backlog, host, verdict>>
        /\ rpc[r] # "idle"
    BY <1>3 DEF RouteUnknown, EnqueueHost, BufferNew, tables, workerVars, sweepVars
  <2>2. /\ \A s \in Routers : todo'[s] \subseteq todo[s]
        /\ \A s \in Routers \ {r} : rpc'[s] = rpc[s] /\ cur'[s] = cur[s] /\ newPosts'[s] = newPosts[s]
        /\ rpc'[r] \in {"enqueue", "buffer"} => cur'[r] \in Links
        /\ newPosts'[r] \subseteq Links
    <3>1. CASE RouteUnknown(r)
      BY <3>1 DEF RouteUnknown, LabelInv, RowsAreLinks, TypeOK, TypeRouters
    <3>2. CASE EnqueueHost(r)
      BY <3>2 DEF EnqueueHost, LabelInv, RowsAreLinks, TypeOK, TypeRouters
    <3>3. CASE BufferNew(r)
      BY <3>3 DEF BufferNew, LabelInv, RowsAreLinks, TypeOK, TypeRouters
    <3>. QED
      BY <1>3, <3>1, <3>2, <3>3
  <2>3. RowsAreLinks'
    BY <2>1, <2>2 DEF LabelInv, RowsAreLinks
  <2>4. RedIsRemembered' /\ LabelsAreJustified'
    BY <2>1 DEF LabelInv, RedIsRemembered, LabelsAreJustified, Justified
  <2>. QED
    BY <2>3, <2>4 DEF LabelInv
<1>4. CASE CommitRoute(r)
  <2>1. wasRed \subseteq wasRed' /\ RedIsRemembered'
    BY <1>4, HistoryGrows DEF CommitRoute
  <2>2. /\ pending' = pending \cup newPosts[r] /\ labels' = labels \cup newLabels[r]
        /\ UNCHANGED <<inbox, swept, backlog, host, verdict>> /\ ClearRouter(r)
    BY <1>4 DEF CommitRoute, workerVars, sweepVars
  <2>3. RowsAreLinks'
    <3>1. \A s \in Routers :
            /\ rpc'[s] # "idle" => rpc'[s] = rpc[s] /\ batch'[s] = batch[s] /\ cur'[s] = cur[s]
            /\ todo'[s] \subseteq todo[s] /\ newPosts'[s] \subseteq newPosts[s]
      BY <2>2 DEF ClearRouter, TypeOK, TypeRouters
    <3>. QED
      BY <2>2, <3>1 DEF LabelInv, RowsAreLinks
  <2>4. \A s \in Routers : newLabels'[s] \subseteq newLabels[s]
    BY <2>2 DEF ClearRouter, TypeOK, TypeRouters
  <2>5. LabelsAreJustified'
    BY <2>1, <2>2, <2>4, JustifiedStays DEF LabelInv, LabelsAreJustified
  <2>. QED
    BY <2>1, <2>3, <2>5 DEF LabelInv
<1>. QED
  BY <1>1, <1>2, <1>3, <1>4 DEF RouterStep

\* Other steps: the routers' rows and labels only shrink.
LEMMA OthersKeepLabels ==
  ASSUME LabelInv, pending' \subseteq pending, UNCHANGED <<inbox, rpc, batch, todo, cur, newPosts, newLabels>>,
         wasRed \subseteq wasRed', RedIsRemembered',
         \A label \in labels' : label \in labels \/ label \in swept \/ Justified(label)',
         \A label \in swept' : label \in swept \/ Justified(label)',
         \A w \in Workers : \A row \in backlog'[w] :
           row \in Links /\ row[2] = host'[w] /\ DecideState(verdict'[w]) = "red"
  PROVE  LabelInv'
<1>1. RowsAreLinks'
  BY DEF LabelInv, RowsAreLinks
<1>2. LabelsAreJustified'
  BY JustifiedStays DEF LabelInv, LabelsAreJustified
<1>. QED
  BY <1>1, <1>2 DEF LabelInv

LEMMA WorkerKeepsLabels ==
  ASSUME TypeOK, LabelInv, NEW w \in Workers, WorkerStep(w)
  PROVE  LabelInv'
<1>0. \A v \in Workers : \A row \in backlog[v] :
        row \in Links /\ row[2] = host[v] /\ DecideState(verdict[v]) = "red" /\ wpc[v] = "commit"
  BY DEF LabelInv, RowsAreLinks, TypeOK, TypeWorkers
<1>1. CASE ClaimOne(w) \/ Classify(w) \/ FetchError(w) \/ FailForGood(w) \/ UpdateDomain(w)
  <2>1. UNCHANGED <<domains, pending, labels, wasRed, inbox, rpc, batch, todo, cur, newPosts, newLabels, swept>>
    BY <1>1 DEF ClaimOne, Classify, FetchError, FailForGood, UpdateDomain, tables, routerVars, sweepVars
  <2>2. \A v \in Workers \ {w} : backlog'[v] = backlog[v] /\ host'[v] = host[v] /\ verdict'[v] = verdict[v]
    BY <1>1 DEF ClaimOne, Classify, FetchError, FailForGood, UpdateDomain, TypeOK, TypeWorkers
  <2>3. \A row \in backlog'[w] : row \in Links /\ row[2] = host'[w] /\ DecideState(verdict'[w]) = "red"
    <3>1. CASE UpdateDomain(w)
      BY <3>1 DEF UpdateDomain, PendingOf, LabelInv, RowsAreLinks, TypeOK, TypeWorkers
    <3>2. CASE ClaimOne(w) \/ Classify(w) \/ FetchError(w) \/ FailForGood(w)
      BY <1>0, <3>2 DEF ClaimOne, Classify, FetchError, FailForGood
    <3>. QED
      BY <1>1, <3>1, <3>2
  <2>. QED
    BY <1>0, <2>1, <2>2, <2>3, OthersKeepLabels DEF LabelInv, RedIsRemembered
<1>2. ASSUME Release(w)
      PROVE  \A v \in Workers : \A row \in backlog'[v] :
               row \in Links /\ row[2] = host'[v] /\ DecideState(verdict'[v]) = "red"
  BY <1>0, <1>2 DEF Release, TypeOK, TypeWorkers
<1>3. CASE Fail(w)
  BY <1>2, <1>3, OthersKeepLabels DEF Fail, routerVars, sweepVars, LabelInv, RedIsRemembered
<1>4. CASE MarkUnfetchable(w)
  <2>1. wasRed \subseteq wasRed' /\ RedIsRemembered'
    BY <1>4, HistoryGrows DEF MarkUnfetchable
  <2>. QED
    BY <1>2, <1>4, <2>1, OthersKeepLabels DEF MarkUnfetchable, routerVars, sweepVars
<1>5. CASE CommitVerdict(w)
  <2>1. wasRed \subseteq wasRed' /\ RedIsRemembered'
    BY <1>5, HistoryGrows DEF CommitVerdict
  <2>2. host[w] \in Hosts
    BY <1>5 DEF CommitVerdict, TypeOK, TypeWorkers
  <2>3. domains'[host[w]] = [state |-> DecideState(verdict[w]), platform |-> verdict[w].platform]
    BY <1>5, <2>2, DomainsWritten DEF CommitVerdict, TypeOK, TypeTables
  <2>4. DecideState(verdict[w]) = "red" => <<host[w], verdict[w].platform>> \in wasRed'
    BY <2>1, <2>2, <2>3 DEF RedIsRemembered
  <2>5. ASSUME NEW row \in backlog[w], NEW label, label = <<row[1], verdict[w].platform>>
        PROVE  Justified(label)'
    <3>1. row \in Links /\ <<row[2], verdict[w].platform>> \in wasRed'
      BY <1>0, <2>4
    <3>2. label[1] = row[1] /\ label[2] = verdict[w].platform
      BY <2>5
    <3>. QED
      BY <3>1, <3>2 DEF Justified
  <2>6. \A label \in labels' : label \in labels \/ Justified(label)'
    BY <1>5, <2>5 DEF CommitVerdict
  <2>7. pending' \subseteq pending /\ Release(w)
        /\ UNCHANGED <<inbox, rpc, batch, todo, cur, newPosts, newLabels, swept>>
    BY <1>5 DEF CommitVerdict, routerVars, sweepVars
  <2>. QED
    BY <1>2, <2>1, <2>6, <2>7, OthersKeepLabels
<1>. QED
  BY <1>1, <1>3, <1>4, <1>5 DEF WorkerStep, Record

LEMMA SweepKeepsLabels ==
  ASSUME TypeOK, LabelInv, SweepSelect \/ SweepDelete
  PROVE  LabelInv'
<1>0. \A w \in Workers : \A row \in backlog[w] :
        row \in Links /\ row[2] = host[w] /\ DecideState(verdict[w]) = "red"
  BY DEF LabelInv, RowsAreLinks
<1>1. CASE SweepSelect
  <2>1. PICK rows \in SUBSET RedRows :
          swept' = {<<row[1], domains[row[2]].platform>> : row \in rows}
    BY <1>1 DEF SweepSelect
  <2>2. \A row \in RedRows : row \in Links /\ row[2] \in Hosts
          /\ <<row[2], domains[row[2]].platform>> \in wasRed
    BY DEF RedRows, LabelInv, RowsAreLinks, RedIsRemembered, TypeOK, TypeTables
  <2>3. UNCHANGED <<domains, pending, labels, wasRed, inbox, rpc, batch, todo, cur, newPosts, newLabels,
                    backlog, host, verdict>>
    BY <1>1 DEF SweepSelect, tables, routerVars, workerVars
  <2>4. \A label \in swept' : Justified(label)'
    BY <2>1, <2>2, <2>3 DEF Justified
  <2>. QED
    BY <1>0, <2>3, <2>4, OthersKeepLabels DEF LabelInv, RedIsRemembered
<1>2. CASE SweepDelete
  <2>1. /\ pending' \subseteq pending /\ labels' = labels \cup swept /\ swept' = {}
        /\ UNCHANGED <<domains, wasRed, inbox, rpc, batch, todo, cur, newPosts, newLabels, backlog, host, verdict>>
    BY <1>2 DEF SweepDelete, routerVars, workerVars
  <2>. QED
    BY <1>0, <2>1, OthersKeepLabels DEF LabelInv, RedIsRemembered
<1>. QED
  BY <1>1, <1>2

LEMMA RollbackKeepsLabels ==
  ASSUME TypeOK, LabelInv, RollbackSweep \/ \E t \in Txns : Rollback(t)
  PROVE  LabelInv'
<1>0. \A w \in Workers : \A row \in backlog[w] :
        row \in Links /\ row[2] = host[w] /\ DecideState(verdict[w]) = "red"
  BY DEF LabelInv, RowsAreLinks
<1>1. ASSUME NEW r \in Routers, RollbackRoute(r) PROVE LabelInv'
  <2>1. /\ inbox' = [inbox EXCEPT ![r] = IF r = Resolver THEN @ \cup {batch[r]} ELSE @]
        /\ rpc[r] # "idle" /\ ClearRouter(r)
        /\ UNCHANGED <<domains, pending, labels, wasRed, swept, backlog, host, verdict>>
    BY <1>1 DEF RollbackRoute, tables, workerVars, sweepVars
  <2>2. RowsAreLinks'
    <3>1. \A s \in Routers :
            /\ rpc'[s] # "idle" => rpc'[s] = rpc[s] /\ batch'[s] = batch[s] /\ cur'[s] = cur[s]
            /\ todo'[s] \subseteq todo[s] /\ newPosts'[s] \subseteq newPosts[s]
      BY <2>1 DEF ClearRouter, TypeOK, TypeRouters
    <3>2. \A s \in Routers : inbox'[s] \subseteq Inbox[s]
      BY <2>1 DEF LabelInv, RowsAreLinks, TypeOK, TypeRouters
    <3>. QED
      BY <2>1, <3>1, <3>2 DEF LabelInv, RowsAreLinks
  <2>3. \A s \in Routers : newLabels'[s] \subseteq newLabels[s]
    BY <2>1 DEF ClearRouter, TypeOK, TypeRouters
  <2>4. RedIsRemembered' /\ LabelsAreJustified'
    BY <2>1, <2>3, JustifiedStays DEF LabelInv, RedIsRemembered, LabelsAreJustified
  <2>. QED
    BY <2>2, <2>4 DEF LabelInv
<1>2. ASSUME NEW w \in Workers, RollbackWorker(w) PROVE LabelInv'
  <2>1. \A v \in Workers : \A row \in backlog'[v] :
          row \in Links /\ row[2] = host'[v] /\ DecideState(verdict'[v]) = "red"
    BY <1>0, <1>2 DEF RollbackWorker, Release, TypeOK, TypeWorkers
  <2>. QED
    BY <1>2, <2>1, OthersKeepLabels DEF RollbackWorker, tables, routerVars, sweepVars, LabelInv, RedIsRemembered
<1>3. CASE RollbackDrain \/ RollbackSweep \/ RollbackSeed
  <2>1. /\ UNCHANGED <<domains, pending, labels, wasRed, inbox, rpc, batch, todo, cur, newPosts, newLabels,
                       backlog, host, verdict>>
        /\ swept' \subseteq swept
    BY <1>3 DEF RollbackDrain, RollbackSweep, RollbackSeed, tables, routerVars, workerVars, sweepVars
  <2>. QED
    BY <1>0, <2>1, OthersKeepLabels DEF LabelInv, RedIsRemembered
<1>. QED
  BY <1>1, <1>2, <1>3 DEF Rollback

LEMMA OperatorsKeepLabels ==
  ASSUME TypeOK, LabelInv, Seed \/ DrainMark \/ DrainDrop \/ DrainDelete
  PROVE  LabelInv'
<1>0. \A w \in Workers : \A row \in backlog[w] :
        row \in Links /\ row[2] = host[w] /\ DecideState(verdict[w]) = "red"
  BY DEF LabelInv, RowsAreLinks
<1>1. /\ pending' \subseteq pending
      /\ UNCHANGED <<labels, inbox, rpc, batch, todo, cur, newPosts, newLabels, swept, backlog, host, verdict>>
  BY DEF Seed, SeedStep, SeedFirst, SeedLine, SeedCommit, DrainMark, DrainDrop, DrainDelete, tables, routerVars, workerVars, sweepVars
<1>2. wasRed \subseteq wasRed' /\ RedIsRemembered'
  <2>1. CASE DrainDelete \/ \E s \in {"red", "green"}, p \in Platforms \cup {NoPlatform} : SeedCommit(s, p)
    BY <2>1, HistoryGrows DEF SeedCommit, DrainDelete
  <2>2. CASE DrainMark \/ DrainDrop \/ \E h \in Hosts : SeedFirst(h) \/ SeedLine(h)
    BY <2>2 DEF DrainMark, DrainDrop, SeedFirst, SeedLine, tables, LabelInv, RedIsRemembered
  <2>. QED
    BY <2>1, <2>2 DEF Seed, SeedStep
<1>. QED
  BY <1>0, <1>1, <1>2, OthersKeepLabels

LEMMA StepKeepsLabels == TypeOK /\ LabelInv /\ [OpsNext]_vars => LabelInv'
<1>. SUFFICES ASSUME TypeOK, LabelInv, [OpsNext]_vars PROVE LabelInv'
  OBVIOUS
<1>1. CASE \E r \in Routers : Begin(r) \/ RouterStep(r)
  BY <1>1, RouterKeepsLabels
<1>2. CASE \E w \in Workers : WorkerStep(w)
  BY <1>2, WorkerKeepsLabels
<1>3. CASE (\E h \in Hosts : LockExpires(h)) \/ UNCHANGED vars
  <2>1. UNCHANGED <<domains, pending, labels, wasRed, inbox, rpc, batch, todo, cur, newPosts, newLabels,
                    swept, backlog, host, verdict>>
    BY <1>3 DEF LockExpires, vars, tables, routerVars, workerVars, sweepVars
  <2>. QED
    BY <2>1, OthersKeepLabels DEF LabelInv, RowsAreLinks, RedIsRemembered
<1>4. CASE SweepSelect \/ SweepDelete
  BY <1>4, SweepKeepsLabels
<1>5. CASE Seed \/ DrainMark \/ DrainDrop \/ DrainDelete
  BY <1>5, OperatorsKeepLabels
<1>6. CASE DeadlockVictim \/ Fault
  BY <1>6, RollbackKeepsLabels, FaultsRollBack
<1>. QED
  BY <1>1, <1>2, <1>3, <1>4, <1>5, <1>6 DEF OpsNext, Next

LEMMA InitLabels == Init => LabelInv
  BY DEF Init, LabelInv, RowsAreLinks, RedIsRemembered, LabelsAreJustified, NoDomain

\* Whoever writes a label, and whatever happens to the host meanwhile, the post
\* linked to a host that was red with that platform.
THEOREM LabelsNeedRed == OpsSpec => []LabelNeedsRed
<1>1. Init => TypeOK /\ LabelInv
  BY InitTypes, InitLabels
<1>2. TypeOK /\ LabelInv /\ [OpsNext]_vars => (TypeOK /\ LabelInv)'
  BY StepKeepsTypes, StepKeepsLabels
<1>3. LabelInv => LabelNeedsRed
  BY DEF LabelInv, LabelsAreJustified, Justified, Links, LabelNeedsRed
<1>. QED
  BY <1>1, <1>2, <1>3, PTL DEF OpsSpec
-----------------------------------------------------------------------------
(* OneFetcherPerHost, for the services and ops.seed, when no fetch outlives *)
(* LOCK_FOR: a claim is a locked queue row, and no other process unlocks    *)
(* it or inserts the row again while the claim stands.                      *)

ClaimIsLocked ==
  \A w \in Workers : host[w] # NoHost => queue[host[w]].queued /\ queue[host[w]].locked

IdleHasNoHost == \A w \in Workers : wpc[w] = "idle" => host[w] = NoHost

FetchInv == ClaimIsLocked /\ IdleHasNoHost /\ OneFetcherPerHost

\* A step that begins no claim and leaves the rows of standing claims as they are.
LEMMA NoNewClaim ==
  ASSUME FetchInv,
         \A w \in Workers :
           /\ host'[w] = host[w] \/ host'[w] = NoHost
           /\ wpc'[w] = "idle" => wpc[w] = "idle" \/ host'[w] = NoHost
           /\ host'[w] # NoHost => queue'[host[w]].queued /\ queue'[host[w]].locked
  PROVE  FetchInv'
<1>1. ClaimIsLocked'
  BY DEF ClaimIsLocked
<1>2. IdleHasNoHost'
  BY DEF FetchInv, IdleHasNoHost
<1>3. OneFetcherPerHost'
  BY DEF FetchInv, OneFetcherPerHost
<1>. QED
  BY <1>1, <1>2, <1>3 DEF FetchInv

\* A step in which no fetch loop and no queue row takes part.
LEMMA ClaimsUntouched == ASSUME FetchInv, UNCHANGED <<wpc, host, queue>> PROVE FetchInv'
<1>1. \A w \in Workers : host[w] # NoHost => queue[host[w]].queued /\ queue[host[w]].locked
  BY DEF FetchInv, ClaimIsLocked
<1>. QED
  BY <1>1, NoNewClaim

\* The end of w's work: its claim is gone, and with it any change of its queue row.
LEMMA ReleaseEndsClaim ==
  ASSUME TypeOK, FetchInv, NEW w \in Workers, Release(w), host[w] \in Hosts \cup {NoHost},
         \A h \in Hosts \ {host[w]} : queue'[h] = queue[h]
  PROVE  FetchInv'
<1>1. \A v \in Workers \ {w} :
        /\ host'[v] = host[v] /\ wpc'[v] = wpc[v]
        /\ host[v] # NoHost => host[v] \in Hosts \ {host[w]}
  BY DEF Release, FetchInv, OneFetcherPerHost, TypeOK, TypeWorkers
<1>2. host'[w] = NoHost
  BY DEF Release, TypeOK, TypeWorkers
<1>3. \A v \in Workers : host[v] # NoHost => queue[host[v]].queued /\ queue[host[v]].locked
  BY DEF FetchInv, ClaimIsLocked
<1>. QED
  BY <1>1, <1>2, <1>3, NoNewClaim

LEMMA WorkerKeepsClaims ==
  ASSUME TypeOK, FetchInv, NEW w \in Workers, WorkerStep(w)
  PROVE  FetchInv'
<1>0. \A v \in Workers : host[v] \in Hosts \cup {NoHost} /\ (wpc[v] # "idle" => host[v] \in Hosts)
  BY DEF TypeOK, TypeWorkers
<1>1. CASE ClaimOne(w)
  <2>1. PICK h \in Claimable :
          /\ queue' = [queue EXCEPT ![h] = Claimed(queue[h])]
          /\ host' = [host EXCEPT ![w] = h]
    BY <1>1 DEF ClaimOne
  <2>2. h \in Hosts /\ queue[h].queued /\ ~queue[h].locked /\ queue[h] \in QueueRow
    BY DEF Claimable, TypeOK, TypeTables
  <2>3. queue'[h].queued /\ queue'[h].locked /\ \A g \in Hosts \ {h} : queue'[g] = queue[g]
    BY <2>1, <2>2 DEF Claimed, TypeOK, TypeTables, QueueRow
  <2>4. /\ host'[w] = h /\ wpc'[w] = "fetch"
        /\ \A v \in Workers \ {w} : host'[v] = host[v] /\ wpc'[v] = wpc[v] /\ host[v] # h
    BY <1>1, <2>1, <2>2, NullsAreNotValues DEF ClaimOne, TypeOK, TypeWorkers, FetchInv, ClaimIsLocked
  <2>5. ClaimIsLocked'
    BY <1>0, <2>3, <2>4 DEF FetchInv, ClaimIsLocked
  <2>6. IdleHasNoHost'
    BY <2>4 DEF FetchInv, IdleHasNoHost
  <2>7. OneFetcherPerHost'
    BY <2>4 DEF FetchInv, OneFetcherPerHost
  <2>. QED
    BY <2>5, <2>6, <2>7 DEF FetchInv
<1>2. CASE Classify(w) \/ FetchError(w) \/ FailForGood(w) \/ UpdateDomain(w)
  <2>1. UNCHANGED <<queue, host>> /\ wpc'[w] # "idle" /\ \A v \in Workers \ {w} : wpc'[v] = wpc[v]
    BY <1>2 DEF Classify, FetchError, FailForGood, UpdateDomain, tables, TypeOK, TypeWorkers
  <2>2. \A v \in Workers : host[v] # NoHost => queue[host[v]].queued /\ queue[host[v]].locked
    BY DEF FetchInv, ClaimIsLocked
  <2>. QED
    BY <2>1, <2>2, NoNewClaim
<1>3. CASE Fail(w) \/ MarkUnfetchable(w) \/ CommitVerdict(w)
  <2>1. Release(w) /\ host[w] \in Hosts
    BY <1>0, <1>3 DEF Fail, MarkUnfetchable, CommitVerdict
  <2>2. \A h \in Hosts \ {host[w]} : queue'[h] = queue[h]
    BY <1>3, <2>1 DEF Fail, MarkUnfetchable, CommitVerdict, TypeOK, TypeTables
  <2>. QED
    BY <2>1, <2>2, ReleaseEndsClaim
<1>. QED
  BY <1>1, <1>2, <1>3 DEF WorkerStep, Record

LEMMA StepKeepsClaims ==
  ASSUME SlowFetch = FALSE, TypeOK, IInv, FetchInv, [Next]_vars
  PROVE  FetchInv'
<1>0. \A w \in Workers : host[w] \in Hosts \cup {NoHost}
  BY DEF TypeOK, TypeWorkers
<1>1. ASSUME NEW r \in Routers, Begin(r) \/ RouterStep(r) PROVE FetchInv'
  <2>1. CASE CommitRoute(r)
    <3>1. UNCHANGED <<wpc, host>>
          /\ queue' = [h \in Hosts |-> IF h \in newQueue[r] THEN NewRow(started[r]) ELSE queue[h]]
      BY <2>1 DEF CommitRoute, workerVars
    <3>2. \A w \in Workers : host[w] # NoHost =>
            host[w] \notin newQueue[r] /\ queue[host[w]].queued /\ queue[host[w]].locked
      BY <1>0 DEF IInv, InsertsAreNew, FetchInv, ClaimIsLocked
    <3>. QED
      BY <1>0, <3>1, <3>2, NoNewClaim
  <2>2. CASE Begin(r) \/ RouteKnown(r) \/ RouteUnknown(r) \/ EnqueueHost(r) \/ BufferNew(r)
    BY <2>2, ClaimsUntouched
       DEF Begin, RouteKnown, RouteUnknown, EnqueueHost, BufferNew, tables, workerVars
  <2>. QED
    BY <1>1, <2>1, <2>2 DEF RouterStep
<1>2. ASSUME NEW w \in Workers, WorkerStep(w) PROVE FetchInv'
  BY <1>2, WorkerKeepsClaims
<1>3. ASSUME NEW h \in Hosts, LockExpires(h) PROVE FetchInv'
  <2>1. UNCHANGED <<wpc, host>> /\ (\A w \in Workers : host[w] # h)
        /\ \A g \in Hosts \ {h} : queue'[g] = queue[g]
    BY <1>3 DEF LockExpires, workerVars, TypeOK, TypeTables
  <2>2. \A w \in Workers : host[w] # NoHost => queue[host[w]].queued /\ queue[host[w]].locked
    BY DEF FetchInv, ClaimIsLocked
  <2>. QED
    BY <1>0, <2>1, <2>2, NoNewClaim
<1>4. CASE SweepSelect \/ SweepDelete
  BY <1>4, ClaimsUntouched DEF SweepSelect, SweepDelete, tables, workerVars
<1>5. CASE Seed
  <2>1. ASSUME NEW h \in Hosts, SeedFirst(h) \/ SeedLine(h) PROVE FetchInv'
    BY <2>1, ClaimsUntouched DEF SeedFirst, SeedLine, tables, workerVars
  <2>2. ASSUME NEW s, NEW p, SeedCommit(s, p) PROVE FetchInv'
    BY <2>2, ClaimsUntouched DEF SeedCommit, workerVars
  <2>. QED
    BY <1>5, <2>1, <2>2 DEF Seed, SeedStep
<1>6. CASE DeadlockVictim \/ Fault
  <2>1. ASSUME NEW w \in Workers, RollbackWorker(w) PROVE FetchInv'
    <3>1. UNCHANGED queue /\ Release(w)
      BY <2>1 DEF RollbackWorker, tables
    <3>. QED
      BY <1>0, <3>1, ReleaseEndsClaim
  <2>2. ASSUME NEW r \in Routers, RollbackRoute(r) PROVE FetchInv'
    BY <2>2, ClaimsUntouched DEF RollbackRoute, tables, workerVars
  <2>3. CASE RollbackSweep \/ RollbackDrain \/ RollbackSeed
    BY <2>3, ClaimsUntouched DEF RollbackSweep, RollbackDrain, RollbackSeed, tables, workerVars
  <2>. QED
    BY <1>6, <2>1, <2>2, <2>3, FaultsRollBack DEF Rollback
<1>7. CASE UNCHANGED vars
  BY <1>7, ClaimsUntouched DEF vars, tables, workerVars
<1>. QED
  BY <1>1, <1>2, <1>3, <1>4, <1>5, <1>6, <1>7 DEF Next

LEMMA FetchInvHolds == ASSUME SlowFetch = FALSE PROVE Spec => []FetchInv
<1>1. Init => FetchInv
  BY DEF Init, FetchInv, ClaimIsLocked, IdleHasNoHost, OneFetcherPerHost
<1>2. TypeOK /\ IInv /\ FetchInv /\ [Next]_vars => FetchInv'
  BY StepKeepsClaims
<1>. QED
  BY <1>1, <1>2, IInvHolds, PTL DEF Spec

\* OneFetcherPerHost: while fetches end within LOCK_FOR, "locked_until keeps other
\* loops off the row" (worker/main.py), for any number of loops, hosts and faults.
THEOREM OneLoopPerHost == ASSUME SlowFetch = FALSE PROVE Spec => []OneFetcherPerHost
<1>1. FetchInv => OneFetcherPerHost
  BY DEF FetchInv
<1>. QED
  BY <1>1, FetchInvHolds, PTL
-----------------------------------------------------------------------------
(* DeadlockTakesSeed, under the same assumption.  A fetch loop waits only   *)
(* for a seed; and the two routers cannot each hold what the other asks     *)
(* for, as the resolver holds and asks for one host only, and neither asks  *)
(* for the key of a row that it has inserted.                               *)

SameHost(b) == \A p, q \in b : p[2] = q[2]

ResolverAsksForOne ==
  /\ \A b \in inbox[Resolver] : SameHost(b)
  /\ SameHost(batch[Resolver]) /\ todo[Resolver] \subseteq batch[Resolver]
  /\ rpc[Resolver] = "idle" => batch[Resolver] = {}
  /\ rpc[Resolver] \in {"enqueue", "buffer"} => cur[Resolver] \in batch[Resolver]
  /\ newQueue[Resolver] \cup newDomains[Resolver] \subseteq {p[2] : p \in batch[Resolver]}

AskedIsNotHeld ==
  \A r \in Routers : rpc[r] \in {"enqueue", "buffer"} => cur[r][2] \notin newDomains[r]

\* The drain is not one of the services.
NoDrain == dpc = "idle" /\ marked = {}

WaitInv == ResolverAsksForOne /\ AskedIsNotHeld /\ NoDrain

LEMMA RoutersAre == Consumer \in Routers /\ Resolver \in Routers
  BY DEF Routers

LEMMA WaitsUntouched ==
  ASSUME WaitInv, UNCHANGED <<routerVars, drainVars>> PROVE WaitInv'
  BY DEF WaitInv, ResolverAsksForOne, AskedIsNotHeld, NoDrain, routerVars, drainVars

\* What another router does is nothing to the resolver.
LEMMA OthersDoNotAsk ==
  ASSUME ResolverAsksForOne,
         UNCHANGED <<inbox[Resolver], rpc[Resolver], batch[Resolver], todo[Resolver], cur[Resolver]>>,
         UNCHANGED <<newQueue[Resolver], newDomains[Resolver]>>
  PROVE  ResolverAsksForOne'
  BY DEF ResolverAsksForOne

LEMMA RouterKeepsWaits ==
  ASSUME TypeOK, WaitInv, NEW r \in Routers, Begin(r) \/ RouterStep(r)
  PROVE  WaitInv'
<1>. USE RoutersAre DEF TypeOK, TypeRouters
<1>1. CASE Begin(r)
  <2>1. PICK b \in inbox[r] :
          /\ inbox' = [inbox EXCEPT ![r] = @ \ {b}]
          /\ batch' = [batch EXCEPT ![r] = b]
          /\ todo' = [todo EXCEPT ![r] = b]
    BY <1>1 DEF Begin
  <2>2. rpc[r] = "idle" /\ rpc' = [rpc EXCEPT ![r] = "route"]
        /\ UNCHANGED <<cur, newQueue, newDomains, dpc, marked>>
    BY <1>1 DEF Begin, drainVars
  <2>3. ResolverAsksForOne'
    BY <2>1, <2>2 DEF WaitInv, ResolverAsksForOne
  <2>. QED
    BY <2>2, <2>3 DEF WaitInv, AskedIsNotHeld, NoDrain
<1>2. CASE RouteKnown(r)
  <2>1. /\ rpc[r] = "route" /\ \A s \in Routers : todo'[s] \subseteq todo[s]
        /\ UNCHANGED <<inbox, rpc, batch, cur, newQueue, newDomains, dpc, marked>>
    BY <1>2 DEF RouteKnown, drainVars
  <2>. QED
    BY <2>1 DEF WaitInv, ResolverAsksForOne, AskedIsNotHeld, NoDrain
<1>3. CASE RouteUnknown(r)
  <2>1. PICK pair \in todo[r] :
          /\ Lookup(r, pair[2]).state = "absent"
          /\ cur' = [cur EXCEPT ![r] = pair]
          /\ todo' = [todo EXCEPT ![r] = @ \ {pair}]
    BY <1>3 DEF RouteUnknown
  <2>2. rpc' = [rpc EXCEPT ![r] = "enqueue"]
        /\ UNCHANGED <<inbox, batch, newQueue, newDomains, dpc, marked>>
    BY <1>3 DEF RouteUnknown, drainVars
  <2>3. pair[2] \notin newDomains[r]
    BY <2>1 DEF Lookup
  <2>4. ResolverAsksForOne'
    BY <2>1, <2>2 DEF WaitInv, ResolverAsksForOne
  <2>5. AskedIsNotHeld'
    BY <2>1, <2>2, <2>3 DEF WaitInv, AskedIsNotHeld
  <2>. QED
    BY <2>2, <2>4, <2>5 DEF WaitInv, NoDrain
<1>4. CASE EnqueueHost(r)
  <2>1. /\ rpc[r] = "enqueue" /\ rpc' = [rpc EXCEPT ![r] = "buffer"]
        /\ newQueue' = [newQueue EXCEPT ![r] =
             IF queue[cur[r][2]].queued THEN @ ELSE @ \cup {cur[r][2]}]
        /\ UNCHANGED <<inbox, batch, todo, cur, newDomains, dpc, marked>>
    BY <1>4 DEF EnqueueHost, drainVars
  <2>2. ResolverAsksForOne'
    BY <2>1 DEF WaitInv, ResolverAsksForOne
  <2>. QED
    BY <2>1, <2>2 DEF WaitInv, AskedIsNotHeld, NoDrain
<1>5. CASE BufferNew(r)
  <2>1. /\ rpc[r] = "buffer" /\ rpc' = [rpc EXCEPT ![r] = "route"]
        /\ newDomains' = [newDomains EXCEPT ![r] =
             IF domains[cur[r][2]].state = "absent" THEN @ \cup {cur[r][2]} ELSE @]
        /\ \A s \in Routers \ {r} : cur'[s] = cur[s]
        /\ UNCHANGED <<inbox, batch, todo, newQueue, dpc, marked>>
    BY <1>5 DEF BufferNew, drainVars
  <2>2. ResolverAsksForOne'
    BY <2>1 DEF WaitInv, ResolverAsksForOne
  <2>. QED
    BY <2>1, <2>2 DEF WaitInv, AskedIsNotHeld, NoDrain
<1>6. CASE CommitRoute(r)
  <2>1. ClearRouter(r) /\ UNCHANGED <<inbox, dpc, marked>>
    BY <1>6 DEF CommitRoute, drainVars
  <2>2. ResolverAsksForOne'
    BY <2>1 DEF ClearRouter, WaitInv, ResolverAsksForOne, SameHost
  <2>. QED
    BY <2>1, <2>2 DEF ClearRouter, WaitInv, AskedIsNotHeld, NoDrain
<1>. QED
  BY <1>1, <1>2, <1>3, <1>4, <1>5, <1>6 DEF RouterStep

LEMMA RollbackKeepsWaits ==
  ASSUME TypeOK, WaitInv, RollbackSweep \/ \E t \in Txns : Rollback(t)
  PROVE  WaitInv'
<1>1. ASSUME NEW r \in Routers, RollbackRoute(r) PROVE WaitInv'
  <2>. USE RoutersAre DEF TypeOK, TypeRouters
  <2>1. /\ ClearRouter(r) /\ UNCHANGED <<dpc, marked>>
        /\ inbox' = [inbox EXCEPT ![r] = IF r = Resolver THEN @ \cup {batch[r]} ELSE @]
    BY <1>1 DEF RollbackRoute, drainVars
  <2>2. ResolverAsksForOne'
    BY <2>1 DEF ClearRouter, WaitInv, ResolverAsksForOne, SameHost
  <2>. QED
    BY <2>1, <2>2 DEF ClearRouter, WaitInv, AskedIsNotHeld, NoDrain
<1>2. ASSUME NEW w \in Workers, RollbackWorker(w) PROVE WaitInv'
  BY <1>2, WaitsUntouched DEF RollbackWorker
<1>3. CASE RollbackSweep \/ RollbackSeed
  BY <1>3, WaitsUntouched DEF RollbackSweep, RollbackSeed
<1>4. CASE RollbackDrain
  BY <1>4 DEF RollbackDrain, WaitInv, NoDrain
<1>. QED
  BY <1>1, <1>2, <1>3, <1>4 DEF Rollback

LEMMA StepKeepsWaits == TypeOK /\ WaitInv /\ [Next]_vars => WaitInv'
<1>. SUFFICES ASSUME TypeOK, WaitInv, [Next]_vars PROVE WaitInv'
  OBVIOUS
<1>1. CASE \E r \in Routers : Begin(r) \/ RouterStep(r)
  BY <1>1, RouterKeepsWaits
<1>2. ASSUME NEW w \in Workers, WorkerStep(w) PROVE WaitInv'
  BY <1>2, WaitsUntouched DEF WorkerStep, Record, ClaimOne, Classify, FetchError, Fail,
     FailForGood, MarkUnfetchable, UpdateDomain, CommitVerdict
<1>3. ASSUME NEW h \in Hosts, LockExpires(h) PROVE WaitInv'
  BY <1>3, WaitsUntouched DEF LockExpires
<1>4. CASE SweepSelect \/ SweepDelete
  BY <1>4, WaitsUntouched DEF SweepSelect, SweepDelete
<1>5. CASE Seed
  BY <1>5, WaitsUntouched DEF Seed, SeedStep, SeedFirst, SeedLine, SeedCommit
<1>6. CASE DeadlockVictim \/ Fault
  BY <1>6, RollbackKeepsWaits, FaultsRollBack
<1>7. CASE UNCHANGED vars
  BY <1>7, WaitsUntouched DEF vars
<1>. QED
  BY <1>1, <1>2, <1>3, <1>4, <1>5, <1>6, <1>7 DEF Next

LEMMA InitWaits == Init => WaitInv
  BY RoutersAre, ResolverRoutesOneHost
     DEF Init, WaitInv, ResolverAsksForOne, SameHost, AskedIsNotHeld, NoDrain

\* A fetch loop waits for no service: the row it needs in domains exists, so that no
\* router is inserting it, and no other loop works on its host.
LEMMA LoopsWaitForSeed ==
  ASSUME TypeOK, LockInv, IInv, FetchInv, WaitInv,
         NEW w \in Workers, NEW t \in Txns \ {w}, Blocks(t, w)
  PROVE  t = "seed"
<1>0. w \notin Routers /\ w # "seed" /\ w # "drain"
  BY ProcessesDiffer
<1>1. PICK h \in Hosts :
        \/ NeedsDomain(w, h) /\ HoldsDomain(t, h)
        \/ NeedsQueueRow(w, h) /\ HoldsQueueRow(t, h)
  BY <1>0 DEF Blocks
<1>2. wpc[w] # "idle" /\ host[w] = h
  BY <1>0, <1>1 DEF NeedsDomain, NeedsQueueRow
<1>3. \A v \in Workers : v # w => host[v] # h
  BY <1>2, NullsAreNotValues DEF FetchInv, OneFetcherPerHost
<1>4. \A r \in Routers : h \notin newDomains[r]
  BY <1>2 DEF IInv, ClaimHasDomain, LockInv, HeldInsertsAreAbsent
<1>. QED
  BY <1>1, <1>3, <1>4 DEF HoldsDomain, HoldsQueueRow, WaitInv, NoDrain

LEMMA DrainNeverWaits == ASSUME WaitInv, NEW t, Blocks(t, "drain") PROVE FALSE
  BY ProcessesDiffer DEF Blocks, NeedsDomain, NeedsQueueRow, WaitInv, NoDrain

LEMMA RouterWaitsForKey ==
  ASSUME NEW u \in Routers, NEW t \in Routers, Blocks(t, u)
  PROVE  \/ rpc[u] = "buffer" /\ cur[u][2] \in newDomains[t]
         \/ rpc[u] = "enqueue" /\ cur[u][2] \in newQueue[t]
<1>1. t \notin Workers /\ u \notin Workers /\ t \notin {"drain", "seed"} /\ u \notin {"drain", "seed"}
  BY ProcessesDiffer
<1>2. PICK h \in Hosts :
        \/ NeedsDomain(u, h) /\ HoldsDomain(t, h)
        \/ NeedsQueueRow(u, h) /\ HoldsQueueRow(t, h)
        \/ NeedsQueueRow(u, h) /\ HoldsQueueInsert(t, h)
  BY DEF Blocks
<1>. QED
  BY <1>1, <1>2 DEF NeedsDomain, NeedsQueueRow, HoldsDomain, HoldsQueueRow, HoldsQueueInsert

\* Each would hold the one host that the resolver asks for.
LEMMA RoutersDoNotCross ==
  ASSUME TypeOK, IInv, WaitInv, Blocks(Resolver, Consumer), Blocks(Consumer, Resolver)
  PROVE  FALSE
<1>. DEFINE h == cur[Resolver][2]
            g == cur[Consumer][2]
<1>. USE RoutersAre
<1>1. \/ rpc[Consumer] = "buffer" /\ g \in newDomains[Resolver]
      \/ rpc[Consumer] = "enqueue" /\ g \in newQueue[Resolver]
  BY RouterWaitsForKey
<1>2. \/ rpc[Resolver] = "buffer" /\ h \in newDomains[Consumer]
      \/ rpc[Resolver] = "enqueue" /\ h \in newQueue[Consumer]
  BY RouterWaitsForKey
<1>3. g = h
  BY <1>1, <1>2 DEF WaitInv, ResolverAsksForOne, SameHost
<1>4. h \notin newDomains[Resolver] /\ g \notin newDomains[Consumer]
  BY <1>1, <1>2 DEF WaitInv, AskedIsNotHeld
<1>5. h \in newQueue[Resolver] /\ h \in newQueue[Consumer] /\ h \in Hosts
  BY <1>1, <1>2, <1>3, <1>4 DEF TypeOK, TypeRouters
<1>. QED
  BY <1>5, ProcessesDiffer DEF IInv, InsertsAreNew

LEMMA NoCircleWithoutSeed ==
  ASSUME TypeOK, LockInv, IInv, FetchInv, WaitInv PROVE DeadlockTakesSeed
<1>. SUFFICES ASSUME NEW S \in SUBSET Waiting, Deadlocked(S), "seed" \notin S PROVE FALSE
  BY DEF DeadlockTakesSeed
<1>1. S # {} /\ \A u : S # {u}
  <2>1. Cardinality(S) > 1
    BY DEF Deadlocked
  <2>2. S # {}
    BY <2>1, FS_EmptySet
  <2>3. ASSUME NEW u, S = {u} PROVE FALSE
    <3>1. Cardinality({u}) = 1
      BY FS_Singleton
    <3>. QED
      BY <2>1, <2>3, <3>1
  <2>. QED
    BY <2>2, <2>3
<1>2. ASSUME NEW u \in S PROVE \E t \in S \ {u} : Blocks(t, u)
  <2>1. {u} # S /\ {u} # {} /\ {u} \subseteq S
    BY <1>1
  <2>2. {u} \in (SUBSET S) \ {{}, S}
    BY <2>1
  <2>. QED
    BY <2>2 DEF Deadlocked
<1>3. S \subseteq Txns
  BY DEF Waiting
<1>4. ASSUME NEW u \in S PROVE u \in Routers
  <2>1. PICK t \in S \ {u} : Blocks(t, u)
    BY <1>2
  <2>2. t \in Txns \ {u} /\ t # "seed" /\ u # "seed"
    BY <1>3
  <2>3. u \notin Workers
    BY <2>1, <2>2, LoopsWaitForSeed
  <2>4. u # "drain"
    BY <2>1, DrainNeverWaits
  <2>. QED
    BY <1>3, <2>2, <2>3, <2>4 DEF Txns
<1>5. PICK u \in S : TRUE
  BY <1>1
<1>6. PICK t \in S \ {u} : Blocks(t, u)
  BY <1>2
<1>7. u \in {Consumer, Resolver} /\ t \in {Consumer, Resolver} /\ S \subseteq {t, u}
  BY <1>4 DEF Routers
<1>8. Blocks(u, t)
  BY <1>2, <1>7
<1>. QED
  BY <1>6, <1>7, <1>8, RoutersDoNotCross

\* DeadlockTakesSeed: while fetches end within LOCK_FOR, the services never wait for
\* each other in a circle, whatever the consumer's posts link to (routing.py: a
\* transaction inserts the rows of all the links; resolver.py: of one host).
THEOREM OnlySeedsDeadlock == ASSUME SlowFetch = FALSE PROVE Spec => []DeadlockTakesSeed
<1>1. TypeOK /\ LockInv /\ IInv /\ FetchInv /\ WaitInv => DeadlockTakesSeed
  BY NoCircleWithoutSeed
<1>. QED
  BY <1>1, IInvHolds, FetchInvHolds, InitWaits, StepKeepsWaits, PTL DEF Spec
-----------------------------------------------------------------------------
(* DropNeedsDecision, for the services and ops.seed.                        *)

LEMMA StepDropsDecided ==
  ASSUME TypeOK, [Next]_vars, NEW row \in pending, row \notin pending'
  PROVE  domains'[row[2]].state \in {"red", "green", "unfetchable"}
<1>0. row[2] \in Hosts /\ domains \in [Hosts -> DomainRow]
  BY DEF TypeOK, TypeTables
<1>1. CASE \E w \in Workers : MarkUnfetchable(w) \/ CommitVerdict(w)
  <2>1. PICK w \in Workers : MarkUnfetchable(w) \/ CommitVerdict(w)
    BY <1>1
  <2>2. row[2] = host[w]
    BY <2>1 DEF MarkUnfetchable, CommitVerdict, PendingOf
  <2>3. CASE MarkUnfetchable(w)
    <3>1. domains' = [domains EXCEPT ![host[w]] = [@ EXCEPT !.state = "unfetchable"]]
      BY <2>3, DomainsWritten DEF MarkUnfetchable
    <3>. QED
      BY <1>0, <2>2, <3>1 DEF DomainRow
  <2>4. CASE CommitVerdict(w)
    <3>1. domains' = [domains EXCEPT ![host[w]] =
             [state |-> DecideState(verdict[w]), platform |-> verdict[w].platform]]
      BY <2>4, DomainsWritten DEF CommitVerdict
    <3>2. DecideState(verdict[w]) \in {"red", "green"}
      BY <2>4 DEF CommitVerdict
    <3>. QED
      BY <1>0, <2>2, <3>1, <3>2
  <2>. QED
    BY <2>1, <2>3, <2>4
<1>2. CASE SweepDelete
  BY <1>0, <1>2 DEF SweepDelete, Settled
<1>3. ~(\E w \in Workers : MarkUnfetchable(w) \/ CommitVerdict(w)) /\ ~SweepDelete => pending \subseteq pending'
  <2>1. \A r \in Routers : Begin(r) \/ RouterStep(r) => pending \subseteq pending'
    BY DEF Begin, RouterStep, RouteKnown, RouteUnknown, EnqueueHost, BufferNew, CommitRoute, tables
  <2>2. \A w \in Workers : WorkerStep(w) => pending \subseteq pending' \/ MarkUnfetchable(w) \/ CommitVerdict(w)
    BY DEF WorkerStep, Record, ClaimOne, Classify, FetchError, Fail, FailForGood, UpdateDomain, tables
  <2>3. (\E g \in Hosts : LockExpires(g)) \/ SweepSelect \/ Seed => UNCHANGED pending
    BY DEF LockExpires, SweepSelect, Seed, SeedStep, SeedFirst, SeedLine, SeedCommit, tables
  <2>4. RollbackSweep \/ (\E t \in Txns : Rollback(t)) => UNCHANGED pending
    BY DEF RollbackSweep, Rollback, RollbackRoute, RollbackWorker, RollbackDrain, RollbackSeed, tables
  <2>5. DeadlockVictim \/ Fault => UNCHANGED pending
    BY <2>4, FaultsRollBack
  <2>6. UNCHANGED vars => UNCHANGED pending
    BY DEF vars, tables
  <2>. QED
    BY <2>1, <2>2, <2>3, <2>5, <2>6 DEF Next
<1>. QED
  BY <1>1, <1>2, <1>3

\* A buffered post is deleted only in a step that leaves its host decided, whatever
\* router, loop, sweep or seed runs beside it (reconcile.py:58, worker/main.py:78).
THEOREM DroppedWhenDecided == Spec => DropNeedsDecision
<1>1. TypeOK /\ [Next]_vars =>
        [\A row \in pending \ pending' :
           domains'[row[2]].state \in {"red", "green", "unfetchable"}]_vars
  BY StepDropsDecided
<1>. QED
  BY <1>1, IInvHolds, PTL DEF Spec, DropNeedsDecision
-----------------------------------------------------------------------------
(* UnfetchableIsEarned, with the drain.  The give-up path and the drain    *)
(* read the count first and write the domain later.  What keeps the count  *)
(* meanwhile is that the row stays locked (the give-up path), or that      *)
(* nobody can finish a host whose domain is locked (the drain), and that   *)
(* no router inserts the row anew.                                         *)

OneInserter ==
  \A r \in Routers : \A h \in newQueue[r] :
    ~queue[h].queued /\ \A s \in Routers : h \in newQueue[s] => r = s

OneGivesUp ==
  \A v, w \in Workers : v # w /\ wpc[v] = "giveup" /\ wpc[w] = "giveup" => host[v] # host[w]

GiveUpIsEarned ==
  \A w \in Workers : wpc[w] = "giveup" => queue[host[w]].queued /\ queue[host[w]].attempts >= MaxAttempts

MarkedIsEarned == \A h \in marked : queue[h].queued /\ queue[h].attempts >= Threshold

EarnInv == OneInserter /\ OneGivesUp /\ GiveUpIsEarned /\ MarkedIsEarned

\* h's row is what somebody counted, and will act on.
CountedOn(h) == h \in marked \/ \E w \in Workers : wpc[w] = "giveup" /\ host[w] = h

\* A step that begins no give-up, marks nothing and inserts nothing.
LEMMA CountsKept ==
  ASSUME TypeOK, EarnInv,
         \A w \in Workers : wpc'[w] = "giveup" => wpc[w] = "giveup" /\ host'[w] = host[w],
         marked' \subseteq marked,
         \A r \in Routers : newQueue'[r] \subseteq newQueue[r],
         \A h \in Hosts : queue'[h].queued => queue[h].queued \/ \A r \in Routers : h \notin newQueue'[r],
         \A h \in Hosts : CountedOn(h)' /\ queue[h].queued =>
                          queue'[h].queued /\ queue'[h].attempts >= queue[h].attempts,
         queue' \in [Hosts -> QueueRow]
  PROVE  EarnInv'
<1>1. /\ \A r \in Routers : newQueue[r] \subseteq Hosts
      /\ \A w \in Workers : wpc[w] = "giveup" => host[w] \in Hosts
      /\ marked \subseteq Hosts
  BY DEF TypeOK, TypeRouters, TypeWorkers, TypeRest
<1>2. \A h \in Hosts : queue[h].attempts \in Nat /\ queue'[h].attempts \in Nat
  BY CapIsNat DEF TypeOK, TypeTables, QueueRow
<1>3. OneInserter'
  BY <1>1 DEF EarnInv, OneInserter
<1>4. OneGivesUp'
  BY DEF EarnInv, OneGivesUp
<1>5. GiveUpIsEarned'
  <2>. SUFFICES ASSUME NEW w \in Workers, wpc'[w] = "giveup"
                PROVE  queue'[host'[w]].queued /\ queue'[host'[w]].attempts >= MaxAttempts
    BY DEF GiveUpIsEarned
  <2>1. wpc[w] = "giveup" /\ host'[w] = host[w] /\ host[w] \in Hosts
    BY <1>1
  <2>2. queue[host[w]].queued /\ queue[host[w]].attempts >= MaxAttempts
    BY <2>1 DEF EarnInv, GiveUpIsEarned
  <2>3. CountedOn(host[w])'
    BY <2>1 DEF CountedOn
  <2>4. queue'[host[w]].queued /\ queue'[host[w]].attempts >= queue[host[w]].attempts
    BY <2>1, <2>2, <2>3
  <2>. QED
    BY <1>2, <2>1, <2>2, <2>4, NumberTypes
<1>6. MarkedIsEarned'
  <2>. SUFFICES ASSUME NEW h \in marked' PROVE queue'[h].queued /\ queue'[h].attempts >= Threshold
    BY DEF MarkedIsEarned
  <2>1. h \in Hosts /\ queue[h].queued /\ queue[h].attempts >= Threshold
    BY <1>1 DEF EarnInv, MarkedIsEarned
  <2>2. CountedOn(h)'
    BY DEF CountedOn
  <2>3. queue'[h].queued /\ queue'[h].attempts >= queue[h].attempts
    BY <2>1, <2>2
  <2>. QED
    BY <1>2, <2>1, <2>3, NumberTypes
<1>. QED
  BY <1>3, <1>4, <1>5, <1>6 DEF EarnInv

\* The same when no queue row changes either.
LEMMA CountsUntouched ==
  ASSUME TypeOK, EarnInv, UNCHANGED queue, marked' \subseteq marked,
         \A w \in Workers : wpc'[w] = "giveup" => wpc[w] = "giveup" /\ host'[w] = host[w],
         \A r \in Routers : newQueue'[r] \subseteq newQueue[r]
  PROVE  EarnInv'
<1>1. queue \in [Hosts -> QueueRow] /\ \A h \in Hosts : queue[h].attempts \in Nat
  BY CapIsNat DEF TypeOK, TypeTables, QueueRow
<1>2. \A h \in Hosts : queue[h].attempts >= queue[h].attempts
  BY <1>1
<1>. QED
  BY <1>1, <1>2, CountsKept

LEMMA RouterKeepsCounts ==
  ASSUME TypeOK, TypeOK', EarnInv, NEW r \in Routers, Begin(r) \/ RouterStep(r)
  PROVE  EarnInv'
<1>1. CASE Begin(r) \/ RouteKnown(r) \/ RouteUnknown(r) \/ BufferNew(r)
  <2>1. UNCHANGED <<queue, marked, wpc, host, newQueue>>
    BY <1>1 DEF Begin, RouteKnown, RouteUnknown, BufferNew, tables, workerVars, drainVars
  <2>. QED
    BY <2>1, CountsUntouched
<1>2. CASE EnqueueHost(r)
  <2>. DEFINE g == cur[r][2]
  <2>1. UNCHANGED <<queue, marked, wpc, host>>
    BY <1>2 DEF EnqueueHost, tables, workerVars, drainVars
  <2>2. \A s \in Routers : g \notin newQueue[s]
    BY <1>2 DEF EnqueueHost, QueueInsertFree, HoldsQueueInsert, Txns
  <2>3. \A s \in Routers : \A h \in newQueue'[s] :
          h \in newQueue[s] \/ (s = r /\ h = g /\ ~queue[h].queued)
    BY <1>2 DEF EnqueueHost, TypeOK, TypeRouters
  <2>4. OneInserter'
    BY <2>1, <2>2, <2>3 DEF EarnInv, OneInserter
  <2>. QED
    BY <2>1, <2>4 DEF EarnInv, OneGivesUp, GiveUpIsEarned, MarkedIsEarned
<1>3. CASE CommitRoute(r)
  <2>1. /\ newQueue' = [newQueue EXCEPT ![r] = {}] /\ UNCHANGED <<marked, wpc, host>>
        /\ queue' = [h \in Hosts |-> IF h \in newQueue[r] THEN NewRow(started[r]) ELSE queue[h]]
    BY <1>3 DEF CommitRoute, ClearRouter, workerVars, drainVars
  <2>2. \A s \in Routers : newQueue'[s] \subseteq newQueue[s] /\ (s = r => newQueue'[s] = {})
    BY <2>1 DEF TypeOK, TypeRouters
  <2>3. \A h \in Hosts : queue'[h].queued => queue[h].queued \/ \A s \in Routers : h \notin newQueue'[s]
    BY <2>1, <2>2 DEF EarnInv, OneInserter
  <2>4. \A h \in Hosts : queue[h].queued => queue'[h] = queue[h]
    BY <2>1 DEF EarnInv, OneInserter
  <2>5. \A h \in Hosts : queue[h].attempts >= queue[h].attempts
    BY CapIsNat DEF TypeOK, TypeTables, QueueRow
  <2>. QED
    BY <2>1, <2>2, <2>3, <2>4, <2>5, CountsKept DEF TypeOK, TypeTables
<1>. QED
  BY <1>1, <1>2, <1>3 DEF RouterStep

LEMMA WorkerKeepsCounts ==
  ASSUME TypeOK, TypeOK', LockInv, EarnInv, NEW w \in Workers, WorkerStep(w)
  PROVE  EarnInv'
<1>1. queue' \in [Hosts -> QueueRow] /\ \A h \in Hosts : queue[h].attempts \in 0 .. AttemptCap
  BY DEF TypeOK, TypeTables, QueueRow
<1>2. \A h \in Hosts : queue[h].attempts >= queue[h].attempts
  BY <1>1, CapIsNat
<1>3. CASE Classify(w) \/ FetchError(w) \/ UpdateDomain(w)
  <2>1. UNCHANGED <<queue, marked, host, newQueue>> /\ wpc'[w] # "giveup"
        /\ \A v \in Workers \ {w} : wpc'[v] = wpc[v]
    BY <1>3 DEF Classify, FetchError, UpdateDomain, tables, routerVars, drainVars, TypeOK, TypeWorkers
  <2>. QED
    BY <2>1, CountsUntouched
<1>4. CASE FailForGood(w)
  <2>1. /\ UNCHANGED <<queue, marked, host, newQueue>> /\ host[w] \in Hosts
        /\ wpc' = [wpc EXCEPT ![w] = "giveup"] /\ QueueRowFree(host[w]) /\ GivesUp(host[w])
    BY <1>4 DEF FailForGood, tables, routerVars, drainVars, TypeOK, TypeWorkers
  <2>2. \A v \in Workers : wpc[v] = "giveup" => host[v] # host[w]
    BY <2>1 DEF QueueRowFree, HoldsQueueRow, Txns
  <2>3. queue[host[w]].queued /\ queue[host[w]].attempts >= MaxAttempts
    BY <1>1, <2>1, NumberTypes DEF GivesUp, Attempts
  <2>4. \A v \in Workers : wpc'[v] = "giveup" => v = w \/ wpc[v] = "giveup"
    BY <2>1 DEF TypeOK, TypeWorkers
  <2>5. OneGivesUp'
    BY <2>1, <2>2, <2>4 DEF EarnInv, OneGivesUp
  <2>6. GiveUpIsEarned'
    BY <2>1, <2>3, <2>4 DEF EarnInv, GiveUpIsEarned
  <2>. QED
    BY <2>1, <2>5, <2>6 DEF EarnInv, OneInserter, MarkedIsEarned
<1>5. CASE ClaimOne(w)
  <2>1. PICK h \in Claimable : queue' = [queue EXCEPT ![h] = Claimed(queue[h])] /\ host' = [host EXCEPT ![w] = h]
    BY <1>5 DEF ClaimOne
  <2>2. h \in Hosts
    BY DEF Claimable
  <2>3. Bump(queue[h].attempts) >= queue[h].attempts
    BY <1>1, <2>2, CapIsNat DEF Bump
  <2>4. \A g \in Hosts : queue'[g].queued = queue[g].queued /\ queue'[g].attempts >= queue[g].attempts
    BY <1>2, <2>1, <2>2, <2>3 DEF Claimed, TypeOK, TypeTables, QueueRow
  <2>5. /\ wpc'[w] # "giveup" /\ UNCHANGED <<marked, newQueue>>
        /\ \A v \in Workers \ {w} : wpc'[v] = wpc[v] /\ host'[v] = host[v]
    BY <1>5, <2>1 DEF ClaimOne, routerVars, drainVars, TypeOK, TypeWorkers
  <2>. QED
    BY <1>1, <2>4, <2>5, CountsKept
<1>6. CASE Fail(w)
  <2>1. /\ Release(w) /\ UNCHANGED <<marked, newQueue>> /\ host[w] \in Hosts
        /\ queue' = [queue EXCEPT ![host[w]] = [@ EXCEPT !.locked = queue[host[w]].queued]]
    BY <1>6 DEF Fail, routerVars, drainVars, TypeOK, TypeWorkers
  <2>2. \A g \in Hosts : queue'[g].queued = queue[g].queued /\ queue'[g].attempts >= queue[g].attempts
    BY <1>2, <2>1 DEF TypeOK, TypeTables, QueueRow
  <2>3. \A v \in Workers : wpc'[v] = "giveup" => wpc[v] = "giveup" /\ host'[v] = host[v]
    BY <2>1 DEF Release, TypeOK, TypeWorkers
  <2>. QED
    BY <1>1, <2>1, <2>2, <2>3, CountsKept
<1>7. CASE MarkUnfetchable(w) \/ CommitVerdict(w)
  <2>1. /\ Release(w) /\ UNCHANGED <<marked, newQueue>> /\ host[w] \in Hosts
        /\ queue' = [queue EXCEPT ![host[w]] = NoRow]
    BY <1>7 DEF MarkUnfetchable, CommitVerdict, routerVars, drainVars, TypeOK, TypeWorkers
  <2>2. \A v \in Workers : wpc'[v] = "giveup" => v # w /\ wpc[v] = "giveup" /\ host'[v] = host[v]
    BY <2>1 DEF Release, TypeOK, TypeWorkers
  <2>3. ASSUME NEW g \in Hosts, g = host[w], queue[g].queued, CountedOn(g)' PROVE FALSE
    <3>1. g \in marked \/ \E v \in Workers : wpc'[v] = "giveup" /\ host'[v] = g
      BY <2>1, <2>3 DEF CountedOn
    <3>2. CASE MarkUnfetchable(w)
      <4>1. g \notin marked /\ wpc[w] = "giveup"
        BY <2>3, <3>2 DEF MarkUnfetchable, DomainFree, HoldsDomain, Txns
      <4>. QED
        BY <2>2, <2>3, <3>1, <4>1 DEF EarnInv, OneGivesUp
    <3>3. CASE CommitVerdict(w)
      <4>1. g \notin marked
        BY <2>3, <3>3, ProcessesDiffer DEF CommitVerdict, LockInv, OneHolder, HoldsDomain, Txns
      <4>2. \A v \in Workers : wpc[v] = "giveup" => host[v] # g
        BY <2>3, <3>3 DEF CommitVerdict, QueueRowFree, HoldsQueueRow, Txns
      <4>. QED
        BY <2>2, <3>1, <4>1, <4>2
    <3>. QED
      BY <1>7, <3>2, <3>3
  <2>4. \A g \in Hosts : g # host[w] => queue'[g] = queue[g]
    BY <2>1 DEF TypeOK, TypeTables
  <2>5. \A g \in Hosts : queue'[g].queued => queue[g].queued
    BY <2>1 DEF TypeOK, TypeTables, NoRow
  <2>6. \A g \in Hosts : CountedOn(g)' /\ queue[g].queued => queue'[g] = queue[g]
    BY <2>3, <2>4
  <2>7. \A g \in Hosts : CountedOn(g)' /\ queue[g].queued =>
                          queue'[g].queued /\ queue'[g].attempts >= queue[g].attempts
    BY <1>2, <2>6
  <2>8. \A v \in Workers : wpc'[v] = "giveup" => wpc[v] = "giveup" /\ host'[v] = host[v]
    BY <2>2
  <2>. QED
    BY <1>1, <2>1, <2>5, <2>7, <2>8, CountsKept
<1>. QED
  BY <1>3, <1>4, <1>5, <1>6, <1>7 DEF WorkerStep, Record

LEMMA RestKeepsCounts ==
  ASSUME TypeOK, TypeOK', EarnInv,
         \/ \E h \in Hosts : LockExpires(h)
         \/ SweepSelect \/ SweepDelete \/ Seed
         \/ DrainMark \/ DrainDrop \/ DrainDelete
  PROVE  EarnInv'
<1>1. queue' \in [Hosts -> QueueRow] /\ \A h \in Hosts : queue[h].attempts >= queue[h].attempts
  BY CapIsNat DEF TypeOK, TypeTables, QueueRow
<1>2. ASSUME NEW h \in Hosts, LockExpires(h) PROVE EarnInv'
  <2>1. UNCHANGED <<marked, newQueue, wpc, host>>
        /\ \A g \in Hosts : queue'[g].queued = queue[g].queued /\ queue'[g].attempts = queue[g].attempts
    BY <1>2 DEF LockExpires, routerVars, workerVars, drainVars, TypeOK, TypeTables, QueueRow
  <2>. QED
    BY <1>1, <2>1, CountsKept
<1>3. CASE SweepSelect \/ SweepDelete \/ Seed \/ DrainDrop
  <2>1. UNCHANGED <<queue, marked, newQueue, wpc, host>>
    BY <1>3 DEF SweepSelect, SweepDelete, Seed, SeedStep, SeedFirst, SeedLine, SeedCommit, DrainDrop,
                tables, routerVars, workerVars, drainVars
  <2>. QED
    BY <2>1, CountsUntouched
<1>4. CASE DrainMark
  <2>1. UNCHANGED <<queue, newQueue, wpc, host>> /\ marked' = Chronic
    BY <1>4 DEF DrainMark, tables, routerVars, workerVars
  <2>. QED
    BY <2>1 DEF EarnInv, OneInserter, OneGivesUp, GiveUpIsEarned, MarkedIsEarned, Chronic
<1>5. CASE DrainDelete
  <2>1. /\ marked' = {} /\ UNCHANGED <<newQueue, wpc, host>>
        /\ queue' = [h \in Hosts |-> IF h \in Chronic THEN NoRow ELSE queue[h]]
        /\ \A h \in Chronic : QueueRowFree(h)
    BY <1>5 DEF DrainDelete, routerVars, workerVars
  <2>2. \A h \in Hosts : CountedOn(h)' => h \notin Chronic
    BY <2>1 DEF CountedOn, QueueRowFree, HoldsQueueRow, Txns
  <2>3. \A h \in Hosts : queue'[h].queued => queue[h].queued
    BY <2>1 DEF NoRow
  <2>. QED
    BY <1>1, <2>1, <2>2, <2>3, CountsKept
<1>. QED
  BY <1>2, <1>3, <1>4, <1>5

LEMMA RollbackKeepsCounts ==
  ASSUME TypeOK, EarnInv, RollbackSweep \/ \E t \in Txns : Rollback(t)
  PROVE  EarnInv'
<1>1. UNCHANGED queue /\ marked' \subseteq marked
  BY DEF RollbackSweep, Rollback, RollbackRoute, RollbackWorker, RollbackDrain, RollbackSeed, tables, drainVars
<1>2. \A w \in Workers : wpc'[w] = "giveup" => wpc[w] = "giveup" /\ host'[w] = host[w]
  BY DEF RollbackSweep, Rollback, RollbackRoute, RollbackWorker, RollbackDrain, RollbackSeed, Release, workerVars,
         TypeOK, TypeWorkers
<1>3. \A r \in Routers : newQueue'[r] \subseteq newQueue[r]
  BY DEF RollbackSweep, Rollback, RollbackRoute, RollbackWorker, RollbackDrain, RollbackSeed, ClearRouter, routerVars,
         TypeOK, TypeRouters
<1>. QED
  BY <1>1, <1>2, <1>3, CountsUntouched

LEMMA StepKeepsCounts == TypeOK /\ LockInv /\ EarnInv /\ [OpsNext]_vars => EarnInv'
<1>. SUFFICES ASSUME TypeOK, LockInv, EarnInv, [OpsNext]_vars PROVE EarnInv'
  OBVIOUS
<1>1. TypeOK'
  BY StepKeepsTypes
<1>2. CASE \E r \in Routers : Begin(r) \/ RouterStep(r)
  BY <1>1, <1>2, RouterKeepsCounts
<1>3. CASE \E w \in Workers : WorkerStep(w)
  BY <1>1, <1>3, WorkerKeepsCounts
<1>4. CASE (\E h \in Hosts : LockExpires(h)) \/ SweepSelect \/ SweepDelete \/ Seed
             \/ DrainMark \/ DrainDrop \/ DrainDelete
  BY <1>1, <1>4, RestKeepsCounts
<1>5. CASE DeadlockVictim \/ Fault
  BY <1>5, RollbackKeepsCounts, FaultsRollBack
<1>6. CASE UNCHANGED vars
  BY <1>6, CountsUntouched DEF vars, tables, routerVars, workerVars, drainVars
<1>. QED
  BY <1>2, <1>3, <1>4, <1>5, <1>6 DEF OpsNext, Next

LEMMA StepEarns ==
  ASSUME TypeOK, EarnInv, [OpsNext]_vars, NEW h \in Hosts,
         domains'[h].state = "unfetchable", domains[h].state # "unfetchable"
  PROVE  queue[h].attempts >= MaxAttempts \/ queue[h].attempts >= Threshold
<1>0. domains \in [Hosts -> DomainRow]
  BY DEF TypeOK, TypeTables
<1>1. CASE \E r \in Routers : CommitRoute(r)
  <2>1. PICK r \in Routers : CommitRoute(r)
    BY <1>1
  <2>2. domains'[h] = IF h \in newDomains[r]
          THEN [state |-> "pending", platform |-> NoPlatform] ELSE domains[h]
    BY <2>1, DomainsWritten DEF CommitRoute
  <2>. QED
    BY <2>2
<1>2. CASE \E w \in Workers : MarkUnfetchable(w) \/ CommitVerdict(w)
  <2>1. PICK w \in Workers : MarkUnfetchable(w) \/ CommitVerdict(w)
    BY <1>2
  <2>2. CASE MarkUnfetchable(w)
    <3>1. domains' = [domains EXCEPT ![host[w]] = [@ EXCEPT !.state = "unfetchable"]]
      BY <2>2, DomainsWritten DEF MarkUnfetchable
    <3>2. h = host[w] /\ wpc[w] = "giveup"
      BY <1>0, <2>2, <3>1 DEF MarkUnfetchable
    <3>. QED
      BY <3>2 DEF EarnInv, GiveUpIsEarned
  <2>3. CASE CommitVerdict(w)
    <3>1. domains' = [domains EXCEPT ![host[w]] =
             [state |-> DecideState(verdict[w]), platform |-> verdict[w].platform]]
      BY <2>3, DomainsWritten DEF CommitVerdict
    <3>. QED
      BY <1>0, <3>1, DecideStateType
  <2>. QED
    BY <2>1, <2>2, <2>3
<1>3. CASE \E s \in {"red", "green"}, p \in Platforms \cup {NoPlatform} : SeedCommit(s, p)
  <2>1. PICK s \in {"red", "green"}, p \in Platforms \cup {NoPlatform} : SeedCommit(s, p)
    BY <1>3
  <2>2. domains'[h].state = s \/ domains'[h] = domains[h]
    BY <2>1, DomainsWritten DEF SeedCommit, Seeded
  <2>. QED
    BY <2>2
<1>4. CASE DrainDelete
  <2>1. domains'[h] = IF h \in marked THEN [domains[h] EXCEPT !.state = "unfetchable"] ELSE domains[h]
    BY <1>4, DomainsWritten DEF DrainDelete
  <2>2. h \in marked
    BY <2>1
  <2>. QED
    BY <2>2 DEF EarnInv, MarkedIsEarned
<1>5. CASE UNCHANGED domains
  BY <1>5
<1>. QED
  BY <1>1, <1>2, <1>3, <1>4, <1>5, WritersOfDomains

\* A host becomes unfetchable only after as many claims as the give-up path or the
\* drain asks for, whoever runs between the count and the write, and also when
\* fetches outlive their locks (worker/main.py:143, ops/drain_unfetchable.py:56).
THEOREM UnfetchableAfterEnough == OpsSpec => UnfetchableIsEarned
<1>1. Init => TypeOK /\ LockInv /\ EarnInv
  <2>1. Init => EarnInv
    BY DEF Init, EarnInv, OneInserter, OneGivesUp, GiveUpIsEarned, MarkedIsEarned
  <2>. QED
    BY <2>1, InitTypes, InitLocks
<1>2. TypeOK /\ LockInv /\ EarnInv /\ [OpsNext]_vars => (TypeOK /\ LockInv /\ EarnInv)'
  BY StepKeepsTypes, StepKeepsLocks, StepKeepsCounts
<1>3. TypeOK /\ EarnInv /\ [OpsNext]_vars =>
        [\A h \in Hosts :
           domains'[h].state = "unfetchable" /\ domains[h].state # "unfetchable" =>
             queue[h].attempts >= MaxAttempts \/ queue[h].attempts >= Threshold]_vars
  BY StepEarns
<1>. QED
  BY <1>1, <1>2, <1>3, PTL DEF OpsSpec, UnfetchableIsEarned
=============================================================================
