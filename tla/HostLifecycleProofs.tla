------------------------- MODULE HostLifecycleProofs -------------------------
(***************************************************************************)
(* HostTriage implements HostLifecycle: the refinement that triage_live    *)
(* checks on a small instance, for any instance.  Only a commit that       *)
(* writes domains, pending_posts or labels_emitted is a step of the        *)
(* abstract specification, and there are five of them; what each of them   *)
(* was prepared from, statements earlier, is held to the committed tables  *)
(* by the invariants of HostTriageProofs and by the two below.             *)
(***************************************************************************)
EXTENDS HostTriageProofs

USE DEF Pairs

\* A host without a row has the platform of no row.
AbsentIsNoDomain == \A h \in Hosts : domains[h].state = "absent" => domains[h] = NoDomain

\* A post a router buffers waits for a host that has a row, or gets one with it.
PostsHaveDomain ==
  \A r \in Routers : \A row \in newPosts[r] :
    row[2] \in newDomains[r] \/ domains[row[2]].state # "absent"

LInv == AbsentIsNoDomain /\ PostsHaveDomain

\* No step takes a host's row away, or writes it without a state.
LEMMA AbsentIsUntouched ==
  ASSUME TypeOK, [Next]_vars
  PROVE  \A h \in Hosts : domains'[h].state = "absent" => domains'[h] = domains[h]
<1>. USE DEF TypeOK, TypeTables
<1>1. CASE \E r \in Routers : Begin(r) \/ RouterStep(r)
  <2>1. PICK r \in Routers : Begin(r) \/ RouterStep(r)
    BY <1>1
  <2>2. CASE CommitRoute(r)
    <3>1. domains' = [h \in Hosts |-> IF h \in newDomains[r]
            THEN [state |-> "pending", platform |-> NoPlatform] ELSE domains[h]]
      BY <2>2, DomainsWritten DEF CommitRoute
    <3>. QED
      BY <3>1
  <2>3. CASE ~CommitRoute(r)
    BY <2>1, <2>3 DEF RouterStep, Begin, RouteKnown, RouteUnknown, EnqueueHost, BufferNew, tables
  <2>. QED
    BY <2>2, <2>3
<1>2. CASE \E w \in Workers : WorkerStep(w)
  <2>1. PICK w \in Workers : WorkerStep(w)
    BY <1>2
  <2>2. CASE MarkUnfetchable(w)
    <3>1. host[w] \in Hosts
      BY <2>2 DEF MarkUnfetchable, TypeWorkers
    <3>2. domains' = [domains EXCEPT ![host[w]] = [@ EXCEPT !.state = "unfetchable"]]
      BY <2>2, DomainsWritten DEF MarkUnfetchable
    <3>. QED
      BY <3>1, <3>2 DEF DomainRow
  <2>3. CASE CommitVerdict(w)
    <3>1. domains' = [domains EXCEPT ![host[w]] =
            [state |-> DecideState(verdict[w]), platform |-> verdict[w].platform]]
      BY <2>3, DomainsWritten DEF CommitVerdict
    <3>. QED
      BY <3>1, DecideStateType
  <2>4. CASE ~MarkUnfetchable(w) /\ ~CommitVerdict(w)
    BY <2>1, <2>4 DEF WorkerStep, Record, ClaimOne, Classify, FetchError, Fail, FailForGood,
                      UpdateDomain, tables
  <2>. QED
    BY <2>2, <2>3, <2>4
<1>3. CASE Seed
  <2>1. CASE \E s \in {"red", "green"}, p \in Platforms \cup {NoPlatform} : SeedCommit(s, p)
    <3>1. PICK s \in {"red", "green"}, p \in Platforms \cup {NoPlatform} : SeedCommit(s, p)
      BY <2>1
    <3>2. domains' = Seeded(s, p)
      BY <3>1, DomainsWritten DEF SeedCommit
    <3>. QED
      BY <3>2 DEF Seeded
  <2>2. CASE \E h \in Hosts : SeedFirst(h) \/ SeedLine(h)
    BY <2>2 DEF SeedFirst, SeedLine, tables
  <2>. QED
    BY <1>3, <2>1, <2>2 DEF Seed, SeedStep
<1>4. CASE DeadlockVictim \/ Fault
  BY <1>4, FaultsRollBack DEF Rollback, RollbackRoute, RollbackWorker, RollbackDrain, RollbackSeed,
                              RollbackSweep, tables
<1>5. CASE (\E h \in Hosts : LockExpires(h)) \/ SweepSelect \/ SweepDelete \/ UNCHANGED vars
  BY <1>5 DEF LockExpires, SweepSelect, SweepDelete, tables, vars
<1>. QED
  BY <1>1, <1>2, <1>3, <1>4, <1>5 DEF Next

\* Steps that leave the routers' uncommitted rows alone.
LEMMA RowsKeepDomain ==
  ASSUME TypeOK, LInv, [Next]_vars, UNCHANGED <<newPosts, newDomains>>
  PROVE  PostsHaveDomain'
<1>1. \A r \in Routers : \A row \in newPosts[r] : row[2] \in Hosts
  BY DEF TypeOK, TypeRouters
<1>. QED
  BY <1>1, AbsentIsUntouched DEF LInv, PostsHaveDomain

LEMMA ClearedKeepsDomain ==
  ASSUME TypeOK, LInv, [Next]_vars, NEW r \in Routers, ClearRouter(r)
  PROVE  PostsHaveDomain'
<1>1. \A s \in Routers : \A row \in newPosts[s] : row[2] \in Hosts
  BY DEF TypeOK, TypeRouters
<1>2. \A s \in Routers : newPosts'[s] = (IF s = r THEN {} ELSE newPosts[s])
        /\ (s # r => newDomains'[s] = newDomains[s])
  BY DEF ClearRouter, TypeOK, TypeRouters
<1>. QED
  BY <1>1, <1>2, AbsentIsUntouched DEF LInv, PostsHaveDomain

LEMMA StepKeepsLInv == TypeOK /\ LInv /\ [Next]_vars => LInv'
<1>. SUFFICES ASSUME TypeOK, LInv, [Next]_vars PROVE LInv'
  OBVIOUS
<1>1. AbsentIsNoDomain'
  BY AbsentIsUntouched DEF LInv, AbsentIsNoDomain, NoDomain
<1>2. CASE \E r \in Routers : Begin(r) \/ RouterStep(r)
  <2>1. PICK r \in Routers : Begin(r) \/ RouterStep(r)
    BY <1>2
  <2>2. CASE RouteKnown(r)
    <3>1. PICK pair \in todo[r] : RouteKnown(r)!2!(pair)
      BY <2>2 DEF RouteKnown
    <3>2. UNCHANGED <<domains, newDomains>>
      BY <2>2 DEF RouteKnown, tables
    <3>3. pair[2] \in newDomains[r] \/ domains[pair[2]].state # "absent"
      BY <3>1 DEF Lookup
    <3>4. \A s \in Routers : \A row \in newPosts'[s] : row \in newPosts[s] \/ (s = r /\ row = pair)
      BY <3>1 DEF TypeOK, TypeRouters
    <3>. QED
      BY <1>1, <3>2, <3>3, <3>4 DEF LInv, PostsHaveDomain
  <2>3. CASE BufferNew(r)
    <3>1. UNCHANGED domains
      BY <2>3 DEF BufferNew, tables
    <3>2. /\ \A s \in Routers : newDomains[s] \subseteq newDomains'[s]
          /\ cur[r][2] \in newDomains'[r] \/ domains[cur[r][2]].state # "absent"
          /\ \A s \in Routers : \A row \in newPosts'[s] : row \in newPosts[s] \/ (s = r /\ row = cur[r])
      BY <2>3 DEF BufferNew, TypeOK, TypeRouters
    <3>. QED
      BY <1>1, <3>1, <3>2 DEF LInv, PostsHaveDomain
  <2>4. CASE CommitRoute(r)
    BY <1>1, <2>4, ClearedKeepsDomain DEF CommitRoute, LInv
  <2>5. CASE Begin(r) \/ RouteUnknown(r) \/ EnqueueHost(r)
    BY <1>1, <2>5, RowsKeepDomain DEF Begin, RouteUnknown, EnqueueHost, LInv
  <2>. QED
    BY <2>1, <2>2, <2>3, <2>4, <2>5 DEF RouterStep
<1>3. CASE DeadlockVictim \/ Fault
  <2>1. CASE \E r \in Routers : RollbackRoute(r)
    BY <1>1, <2>1, ClearedKeepsDomain DEF RollbackRoute, LInv
  <2>2. CASE ~\E r \in Routers : RollbackRoute(r)
    BY <1>1, <1>3, <2>2, FaultsRollBack, RowsKeepDomain
       DEF Rollback, RollbackWorker, RollbackDrain, RollbackSeed, RollbackSweep, routerVars, LInv
  <2>. QED
    BY <2>1, <2>2
<1>4. CASE ~(\E r \in Routers : Begin(r) \/ RouterStep(r)) /\ ~(DeadlockVictim \/ Fault)
  <2>1. UNCHANGED routerVars
    BY <1>4 DEF Next, vars, WorkerStep, Record, ClaimOne, Classify, FetchError, Fail, FailForGood,
                MarkUnfetchable, UpdateDomain, CommitVerdict, LockExpires, SweepSelect, SweepDelete,
                Seed, SeedStep, SeedFirst, SeedLine, SeedCommit
  <2>. QED
    BY <1>1, <2>1, RowsKeepDomain DEF routerVars, LInv
<1>. QED
  BY <1>2, <1>3, <1>4

LEMMA InvariantsHold == Spec => [](TypeOK /\ LockInv /\ IInv /\ LabelInv /\ LInv)
<1>1. Init => LInv
  BY DEF Init, LInv, AbsentIsNoDomain, PostsHaveDomain
<1>2. Init => LabelInv
  BY InitLabels
<1>3. TypeOK /\ LabelInv /\ LInv /\ [Next]_vars => (LabelInv /\ LInv)'
  BY StepKeepsLabels, StepKeepsLInv, NextIsOpsNext
<1>. QED
  BY <1>1, <1>2, <1>3, IInvHolds, PTL DEF Spec
-----------------------------------------------------------------------------
(* The step map. *)

abstract == <<domains, pending, labels, wasRed>>

LEMMA LinksAgree == LinkPairs = Links /\ Links \subseteq Pairs
  BY InboxType DEF LinkPairs, Links

LEMMA WriteAgrees == ASSUME NEW d, SetDomains(d) PROVE Lifecycle!Write(d)
  BY DEF SetDomains, Lifecycle!Write

LEMMA JustifiedAgrees ==
  ASSUME NEW label \in Posts \X Platforms, Justified(label)
  PROVE  Lifecycle!Justified(label) /\ label \in Lifecycle!LinkLabels
<1>1. PICK pair \in Links : pair[1] = label[1] /\ <<pair[2], label[2]>> \in wasRed
  BY DEF Justified
<1>2. pair \in Pairs /\ pair \in LinkPairs
  BY LinksAgree
<1>3. pair = <<label[1], pair[2]>> /\ pair[2] \in Hosts /\ label = <<pair[1], label[2]>> /\ label[2] \in Platforms
  BY <1>1, <1>2
<1>. QED
  BY <1>1, <1>2, <1>3 DEF Lifecycle!Justified, Lifecycle!LinkLabels

\* The commit of a router: its hosts come under triage and its posts arrive.
LEMMA CommitRouteArrives ==
  ASSUME TypeOK, LockInv, LabelInv, LInv, [Next]_vars, NEW r \in Routers, CommitRoute(r)
  PROVE  Lifecycle!Next
<1>. DEFINE hs == newDomains[r]
            rows == newPosts[r]
            ls == newLabels[r]
            d == [h \in Hosts |-> IF h \in hs
                    THEN [state |-> "pending", platform |-> NoPlatform] ELSE domains[h]]
<1>1. hs \in SUBSET Hosts /\ rows \in SUBSET LinkPairs /\ ls \in SUBSET (Posts \X Platforms)
  BY LinksAgree DEF LabelInv, RowsAreLinks, TypeOK, TypeRouters
<1>2. \A h \in hs : domains[h] = NoDomain
  BY <1>1 DEF LInv, AbsentIsNoDomain, LockInv, HeldInsertsAreAbsent
<1>3. domains' = d /\ Lifecycle!Write(d)
  BY DomainsWritten, WriteAgrees DEF CommitRoute
<1>4. \A row \in rows : domains'[row[2]].state # "absent"
  <2>1. \A row \in rows : row[2] \in Hosts
    BY DEF TypeOK, TypeRouters
  <2>. QED
    BY <1>3, <2>1 DEF LInv, PostsHaveDomain
<1>5. \A label \in ls : Lifecycle!Justified(label) /\ label \in Lifecycle!LinkLabels
  BY <1>1, JustifiedAgrees DEF LabelInv, LabelsAreJustified
<1>6. pending' = pending \cup rows /\ labels' = labels \cup ls
  BY DEF CommitRoute
<1>7. Lifecycle!Arrive(hs, rows, ls)
  BY <1>1, <1>2, <1>3, <1>4, <1>5, <1>6
     DEF Lifecycle!Arrive, NoDomain, Lifecycle!NoDomain, Lifecycle!UnderTriage
<1>8. ls \in SUBSET Lifecycle!LinkLabels
  BY <1>5
<1>. QED
  BY <1>1, <1>7, <1>8 DEF Lifecycle!Next

\* The commit of a verdict: what waited for the host goes, labelled if it is red.
LEMMA CommitVerdictDecides ==
  ASSUME TypeOK, IInv, LabelInv, NEW w \in Workers, CommitVerdict(w)
  PROVE  Lifecycle!Next
<1>. DEFINE h == host[w]
            s == DecideState(verdict[w])
            p == verdict[w].platform
            ls == {<<row[1], p>> : row \in backlog[w]}
<1>1. h \in Hosts /\ domains[h].state # "absent" /\ p \in Platforms \cup {NoPlatform}
  BY DEF CommitVerdict, TypeOK, TypeWorkers, Verdict, NoVerdict, IInv, ClaimHasDomain
<1>2. s \in {"red", "green", "pending_review"}
  BY DecideStateType
<1>3. Lifecycle!Write([domains EXCEPT ![h] = [state |-> s, platform |-> p]])
  BY WriteAgrees DEF CommitVerdict
<1>4. \A row \in backlog[w] : row \in Pairs /\ row \in LinkPairs /\ row[2] = h /\ s = "red" /\ p \in Platforms
  BY LinksAgree DEF LabelInv, RowsAreLinks, TypeOK, TypeWorkers
<1>5. \A row \in backlog[w] : row = <<row[1], h>>
  BY <1>4
<1>6. /\ ls # {} => s = "red"
      /\ \A label \in ls : <<label[1], h>> \in LinkPairs /\ label[2] = p
      /\ ls \in SUBSET Lifecycle!LinkLabels
  BY <1>4, <1>5 DEF Lifecycle!LinkLabels
<1>7. /\ pending' = IF s \in Lifecycle!Decided THEN {row \in pending : row[2] # h} ELSE pending
      /\ labels' = labels \cup ls
  BY <1>2 DEF CommitVerdict, PendingOf, Lifecycle!Decided
<1>8. Lifecycle!Decide(h, s, p, ls)
  BY <1>1, <1>2, <1>3, <1>6, <1>7 DEF Lifecycle!Decide, Lifecycle!Decided
<1>. QED
  BY <1>1, <1>2, <1>6, <1>8 DEF Lifecycle!Next, Lifecycle!Decided

\* Giving up decides the host too, and labels nothing.
LEMMA MarkUnfetchableDecides ==
  ASSUME TypeOK, IInv, NEW w \in Workers, MarkUnfetchable(w)
  PROVE  Lifecycle!Next
<1>. DEFINE h == host[w]
            p == domains[h].platform
<1>1. h \in Hosts /\ domains[h].state # "absent" /\ domains[h] \in DomainRow
  BY DEF MarkUnfetchable, TypeOK, TypeWorkers, TypeTables, IInv, ClaimHasDomain
<1>2. p \in Platforms \cup {NoPlatform}
  BY <1>1 DEF DomainRow
<1>3. [domains EXCEPT ![h] = [@ EXCEPT !.state = "unfetchable"]] =
      [domains EXCEPT ![h] = [state |-> "unfetchable", platform |-> p]]
  <2>1. [domains[h] EXCEPT !.state = "unfetchable"] = [state |-> "unfetchable", platform |-> p]
    BY <1>1 DEF DomainRow
  <2>. QED
    BY <2>1, Zenon
<1>4. Lifecycle!Write([domains EXCEPT ![h] = [state |-> "unfetchable", platform |-> p]])
  BY <1>3, WriteAgrees DEF MarkUnfetchable
<1>5. pending' = {row \in pending : row[2] # h} /\ labels' = labels
  BY DEF MarkUnfetchable, PendingOf
<1>6. Lifecycle!Decide(h, "unfetchable", p, {})
  BY <1>1, <1>4, <1>5 DEF Lifecycle!Decide, Lifecycle!Decided
<1>. QED
  BY <1>1, <1>2, <1>6 DEF Lifecycle!Next, Lifecycle!Decided

LEMMA SweepSettles ==
  ASSUME TypeOK, LabelInv, SweepDelete
  PROVE  Lifecycle!Next
<1>1. \A label \in swept : Lifecycle!Justified(label) /\ label \in Lifecycle!LinkLabels
  BY JustifiedAgrees DEF LabelInv, LabelsAreJustified, TypeOK, TypeRest
<1>2. Lifecycle!Settle(swept)
  BY <1>1 DEF Lifecycle!Settle, SweepDelete, Settled, Lifecycle!Decided
<1>. QED
  BY <1>1, <1>2 DEF Lifecycle!Next

LEMMA SeedOverrides ==
  ASSUME TypeOK, NEW s \in {"red", "green"}, NEW p \in Platforms \cup {NoPlatform}, SeedCommit(s, p)
  PROVE  Lifecycle!Next
<1>1. seeded \in SUBSET Hosts
  BY DEF TypeOK, TypeRest
<1>2. Lifecycle!Override(seeded, s, p)
  BY WriteAgrees DEF SeedCommit, Seeded, Lifecycle!Override
<1>. QED
  BY <1>1, <1>2 DEF Lifecycle!Next

\* Every other step is private to its transaction, or touches the queue alone.
LEMMA LifecycleStep ==
  TypeOK /\ LockInv /\ IInv /\ LabelInv /\ LInv /\ [Next]_vars
    => [Lifecycle!Next]_(Lifecycle!vars)
<1>. SUFFICES ASSUME TypeOK, LockInv, IInv, LabelInv, LInv, [Next]_vars
              PROVE  Lifecycle!Next \/ UNCHANGED abstract
  BY DEF Lifecycle!vars, abstract
<1>1. ASSUME NEW r \in Routers, Begin(r) \/ RouterStep(r) PROVE Lifecycle!Next \/ UNCHANGED abstract
  <2>1. CASE CommitRoute(r)
    BY <2>1, CommitRouteArrives
  <2>2. CASE ~CommitRoute(r)
    BY <1>1, <2>2 DEF RouterStep, Begin, RouteKnown, RouteUnknown, EnqueueHost, BufferNew, tables, abstract
  <2>. QED
    BY <2>1, <2>2
<1>2. ASSUME NEW w \in Workers, WorkerStep(w) PROVE Lifecycle!Next \/ UNCHANGED abstract
  <2>1. CASE CommitVerdict(w)
    BY <2>1, CommitVerdictDecides
  <2>2. CASE MarkUnfetchable(w)
    BY <2>2, MarkUnfetchableDecides
  <2>3. CASE ~CommitVerdict(w) /\ ~MarkUnfetchable(w)
    BY <1>2, <2>3 DEF WorkerStep, Record, ClaimOne, Classify, FetchError, Fail, FailForGood,
                      UpdateDomain, tables, abstract
  <2>. QED
    BY <2>1, <2>2, <2>3
<1>3. CASE Seed
  <2>1. ASSUME NEW h \in Hosts, SeedFirst(h) \/ SeedLine(h) PROVE UNCHANGED abstract
    BY <2>1 DEF SeedFirst, SeedLine, tables, abstract
  <2>. QED
    BY <1>3, <2>1, SeedOverrides DEF Seed, SeedStep
<1>4. CASE SweepDelete
  BY <1>4, SweepSettles
<1>5. CASE DeadlockVictim \/ Fault
  BY <1>5, FaultsRollBack DEF Rollback, RollbackRoute, RollbackWorker, RollbackDrain, RollbackSeed,
                              RollbackSweep, tables, abstract
<1>6. CASE (\E h \in Hosts : LockExpires(h)) \/ SweepSelect \/ UNCHANGED vars
  BY <1>6 DEF LockExpires, SweepSelect, tables, vars, abstract
<1>. QED
  BY <1>1, <1>2, <1>3, <1>4, <1>5, <1>6 DEF Next

LEMMA LifecycleInit == Init => Lifecycle!Init
  BY DEF Init, NoDomain, Lifecycle!Init, Lifecycle!NoDomain

\* However the transactions of routers, fetch loops, sweep and seed interleave,
\* wait, abort and retry, what they commit is what HostLifecycle allows.
THEOREM TriageImplementsLifecycle == Spec => TriageIsLifecycle
<1>1. Spec => Lifecycle!Spec
  BY InvariantsHold, LifecycleInit, LifecycleStep, PTL DEF Spec, Lifecycle!Spec
<1>. QED
  BY <1>1 DEF TriageIsLifecycle
=============================================================================
