--------------------------- MODULE ShortenersProofs ---------------------------
(***************************************************************************)
(* What holds of Shorteners for any posts and URLs, wherever they lead, for *)
(* any number of resolvers, any hop limit, slow resolutions and any number *)
(* of faults.                                                              *)
(***************************************************************************)
EXTENDS Shorteners, TLAPS

\* Facts about <<post, url, hops>> items.
LEMMA ItemParts ==
  ASSUME NEW item \in Items
  PROVE  item[1] \in Posts /\ item[2] \in Urls /\ item[3] \in 0..MaxHops
  BY DEF Items

LEMMA ToWalkType ==
  ASSUME NEW pairs \in SUBSET (Posts \X Urls) PROVE ToWalk(pairs) \subseteq Items
  BY ConstantTypes DEF ToWalk, Items

LEMMA TypeInit == Init => TypeOK
<1> SUFFICES ASSUME Init PROVE TypeOK
  OBVIOUS
<1>1. TypeTables
  BY ConstantTypes DEF Init, TypeTables
<1>2. TypeWalk
  BY DEF Init, TypeWalk
<1>3. TypeResolving
  BY DEF Init, TypeResolving, Procs
<1> QED BY <1>1, <1>2, <1>3 DEF TypeOK

\* Ending a transaction leaves a process idle and everything else alone.
LEMMA ClearTypes ==
  ASSUME TypeOK, NEW p \in Procs, Clear(p) PROVE TypeWalk' /\ TypeResolving' /\ batch' \subseteq Buffering
<1>1. TypeWalk'
  BY DEF TypeOK, TypeWalk, Clear
<1>2. TypeResolving'
  BY DEF TypeOK, TypeWalk, TypeResolving, Clear, Procs
<1>3. batch' \subseteq Buffering
  BY DEF TypeOK, TypeTables, Clear
<1> QED BY <1>1, <1>2, <1>3

\* A statement of route_url touches its own process only.
LEMMA RouteUrlTypes ==
  ASSUME TypeOK, NEW p \in Procs, RouteUrl(p) PROVE TypeOK'
<1>0. UNCHANGED <<tables, resolving, history, inbox, batch, faults>>
  BY DEF RouteUrl, Route, Follow, Drop, Miss, EnqueueAndBuffer
<1>1. TypeTables'
  BY <1>0 DEF TypeOK, TypeTables, tables, history
<1>2. TypeWalk'
  <2>1. CASE Route(p)
    <3>1. PICK item \in todo[p] :
            /\ item[2] \in Targets
            /\ newRouted' = [newRouted EXCEPT ![p] = @ \cup {<<item[1], item[2]>>}]
            /\ todo' = [todo EXCEPT ![p] = @ \ {item}]
      BY <2>1 DEF Route
    <3>2. <<item[1], item[2]>> \in Posts \X Targets
      BY <3>1, ItemParts DEF TypeOK, TypeWalk
    <3>3. newRouted' \in [Procs -> SUBSET (Posts \X Targets)] /\ todo' \in [Procs -> SUBSET Items]
      BY <3>1, <3>2 DEF TypeOK, TypeWalk
    <3> QED BY <2>1, <3>3 DEF Route, TypeOK, TypeWalk
  <2>2. CASE Follow(p)
    <3>1. PICK item \in todo[p] :
            /\ item[3] < MaxHops /\ Lookup(p, item[2]) \in Urls
            /\ todo' = [todo EXCEPT ![p] =
                 (@ \ {item}) \cup {<<item[1], Lookup(p, item[2]), item[3] + 1>>}]
      BY <2>2 DEF Follow
    <3>2. item \in Items
      BY DEF TypeOK, TypeWalk
    <3>3. item[3] + 1 \in 0..MaxHops
      BY <3>1, <3>2, ItemParts, ConstantTypes
    <3>4. <<item[1], Lookup(p, item[2]), item[3] + 1>> \in Items
      BY <3>1, <3>2, <3>3, ItemParts DEF Items
    <3>5. todo' \in [Procs -> SUBSET Items]
      BY <3>1, <3>4 DEF TypeOK, TypeWalk
    <3> QED BY <2>2, <3>5 DEF Follow, written, TypeOK, TypeWalk
  <2>3. CASE Drop(p)
    BY <2>3 DEF Drop, written, TypeOK, TypeWalk
  <2>4. CASE Miss(p)
    BY <2>4 DEF Miss, Current, written, TypeOK, TypeWalk
  <2>5. CASE EnqueueAndBuffer(p)
    <3>1. cur[p] \in Items /\ cur[p][2] \in Shorts
      BY <2>5 DEF EnqueueAndBuffer, TypeOK, TypeWalk
    <3>2. <<cur[p][1], cur[p][2]>> \in Buffering
      BY <3>1, ItemParts DEF Buffering
    <3>3. /\ newQueue' \in [Procs -> SUBSET Shorts]
          /\ newBuffered' \in [Procs -> SUBSET Buffering]
      BY <2>5, <3>1, <3>2 DEF EnqueueAndBuffer, TypeOK, TypeWalk
    <3> QED BY <2>5, <3>3 DEF EnqueueAndBuffer, TypeOK, TypeWalk
  <2> QED BY <2>1, <2>2, <2>3, <2>4, <2>5 DEF RouteUrl
<1>3. TypeResolving'
  <2>1. /\ pc[p] \in {"walk", "insert"}
        /\ \E s \in {"walk", "insert"} : pc' = [pc EXCEPT ![p] = s]
    <3>1. CASE Route(p) \/ Follow(p) \/ Drop(p)
      <4>1. pc[p] = "walk" /\ pc' = pc
        BY <3>1 DEF Route, Follow, Drop, Current
      <4> QED BY <4>1 DEF TypeOK, TypeWalk
    <3>2. CASE Miss(p) \/ EnqueueAndBuffer(p)
      BY <3>2 DEF Miss, Current, EnqueueAndBuffer
    <3> QED BY <3>1, <3>2 DEF RouteUrl
  <2>2. \A r \in Resolvers : /\ pc'[r] # "idle" => pc[r] # "idle"
                             /\ pc'[r] \in {"take", "walk", "insert"} =>
                                  pc[r] \in {"take", "walk", "insert"}
    BY <2>1 DEF TypeOK, TypeWalk, Procs
  <2> QED BY <1>0, <2>2 DEF resolving, TypeOK, TypeResolving
<1> QED BY <1>1, <1>2, <1>3 DEF TypeOK

LEMMA TypeStep == TypeOK /\ [Next]_vars => TypeOK'
<1> SUFFICES ASSUME TypeOK, [Next]_vars PROVE TypeOK'
  OBVIOUS
<1> USE DEF TypeOK
<1>1. CASE Begin
  <2>1. PICK b \in inbox : /\ inbox' = inbox \ {b} /\ batch' = b
                           /\ todo' = [todo EXCEPT ![Consumer] = ToWalk(b)]
    BY <1>1 DEF Begin
  <2>2. b \subseteq Buffering /\ ToWalk(b) \subseteq Items
    BY ToWalkType DEF TypeTables, Buffering, Urls
  <2>3. TypeTables'
    BY <1>1, <2>1, <2>2 DEF Begin, tables, history, TypeTables
  <2>4. TypeWalk'
    BY <1>1, <2>1, <2>2 DEF Begin, written, TypeWalk
  <2>5. TypeResolving'
    BY <1>1, ConsumerDiffers DEF Begin, resolving, TypeWalk, TypeResolving, Procs
  <2> QED BY <2>3, <2>4, <2>5
<1>2. CASE CommitConsumer
  <2>1. Consumer \in Procs
    BY DEF Procs
  <2>2. TypeWalk' /\ TypeResolving' /\ batch' \subseteq Buffering
    BY <1>2, <2>1, ClearTypes DEF CommitConsumer
  <2>3. TypeTables'
    BY <1>2, <2>1, <2>2 DEF CommitConsumer, TypeTables, TypeWalk
  <2> QED BY <2>2, <2>3
<1>3. ASSUME NEW p \in Procs, RouteUrl(p) PROVE TypeOK'
  BY <1>3, RouteUrlTypes
<1>4. ASSUME NEW r \in Resolvers, Claim(r) PROVE TypeOK'
  <2>1. TypeTables'
    BY <1>4 DEF Claim, history, TypeTables
  <2>2. TypeWalk'
    BY <1>4 DEF Claim, written, TypeWalk, Procs
  <2>3. TypeResolving'
    BY <1>4 DEF Claim, TypeTables, TypeWalk, TypeResolving, Procs
  <2> QED BY <2>1, <2>2, <2>3
<1>5. ASSUME NEW r \in Resolvers, Resolve(r) PROVE TypeOK'
  <2>1. TypeTables'
    BY <1>5 DEF Resolve, tables, history, TypeTables
  <2>2. TypeWalk'
    BY <1>5 DEF Resolve, written, TypeWalk, Procs
  <2>3. {Dead, Leads[short[r]]} \subseteq (Urls \cup {Dead}) /\ Unresolved \notin Urls \cup {Dead}
    BY <1>5, ConstantTypes, UrlsDiffer DEF Resolve, TypeResolving
  <2>4. TypeResolving'
    BY <1>5, <2>3 DEF Resolve, TypeWalk, TypeResolving, Procs
  <2> QED BY <2>1, <2>2, <2>4
<1>6. ASSUME NEW r \in Resolvers, CacheAndTake(r) PROVE TypeOK'
  <2> DEFINE rows == {row \in buffered : row[2] = short[r]}
             pairs == {<<row[1], answer[r]>> : row \in rows}
  <2>1. TypeTables'
    BY <1>6 DEF CacheAndTake, tables, history, TypeTables
  <2>2. rows \subseteq Buffering
    BY DEF TypeTables
  <2>3. CASE answer[r] = Dead
    <3>1. TypeWalk'
      BY <1>6, <2>3 DEF CacheAndTake, written, TypeWalk, Procs
    <3> QED BY <1>6, <2>1, <2>2, <3>1 DEF CacheAndTake, TypeWalk, TypeResolving, Procs
  <2>4. CASE answer[r] # Dead
    <3>1. answer[r] \in Urls
      BY <1>6, <2>4 DEF CacheAndTake, TypeResolving
    <3>2. pairs \subseteq Posts \X Urls
      BY <2>2, <3>1 DEF Buffering
    <3>3. ToWalk(pairs) \subseteq Items
      BY <3>2, ToWalkType
    <3>4. todo' = [todo EXCEPT ![r] = ToWalk(pairs)]
      BY <1>6, <2>4 DEF CacheAndTake
    <3>5. TypeWalk'
      <4> HIDE DEF pairs
      <4> QED BY <1>6, <3>3, <3>4 DEF CacheAndTake, written, TypeWalk, Procs
    <3> QED BY <1>6, <2>1, <2>2, <3>5 DEF CacheAndTake, TypeWalk, TypeResolving, Procs
  <2> QED BY <2>3, <2>4
<1>7. ASSUME NEW r \in Resolvers, CommitResolver(r) PROVE TypeOK'
  <2>1. r \in Procs
    BY DEF Procs
  <2>2. TypeWalk' /\ TypeResolving' /\ batch' \subseteq Buffering
    BY <1>7, <2>1, ClearTypes DEF CommitResolver
  <2>3. short[r] \in Shorts
    BY <1>7 DEF CommitResolver, TypeResolving
  <2>4. TypeTables'
    BY <1>7, <2>1, <2>2, <2>3 DEF CommitResolver, TypeTables, TypeWalk, TypeResolving
  <2> QED BY <2>2, <2>4
<1>8. ASSUME NEW s \in Shorts, LockExpires(s) PROVE TypeOK'
  BY <1>8 DEF LockExpires, walk, written, resolving, history, TypeTables, TypeWalk, TypeResolving
<1>9. ASSUME NEW p \in Procs, Fault(p) PROVE TypeOK'
  <2>1. TypeWalk' /\ TypeResolving' /\ batch' \subseteq Buffering
    BY <1>9, ClearTypes DEF Fault
  <2>2. TypeTables'
    BY <1>9, <2>1 DEF Fault, tables, history, TypeTables
  <2> QED BY <2>1, <2>2
<1>10. CASE UNCHANGED vars
  BY <1>10 DEF vars, tables, walk, written, resolving, history, TypeTables, TypeWalk, TypeResolving
<1>11. Consumer \in Procs /\ Resolvers \subseteq Procs
  BY DEF Procs
<1> HIDE DEF TypeOK
<1> QED BY <1>1, <1>2, <1>3, <1>4, <1>5, <1>6, <1>7, <1>8, <1>9, <1>10, <1>11
        DEF Next, ConsumerStep, ResolverStep

\* Types are right in every reachable state; a resolver that records has claimed a
\* URL and knows an answer for it (resolver.py, process_one).
THEOREM ShortenerTypes == Spec => []TypeOK
  BY TypeInit, TypeStep, PTL DEF Spec

-----------------------------------------------------------------------------
(* A transaction that will buffer a post has queued its URL, or has met it *)
(* in the queue; and a URL leaves the queue only together with its answer. *)

BufferingIsQueued ==
  \A p \in Procs : \A row \in newBuffered[p] :
    row[2] \in queue \cup newQueue[p] \/ cache[row[2]] # Unresolved

IInv == TypeOK /\ UnresolvedIsQueued /\ BufferingIsQueued

LEMMA InvInit == Init => IInv
  BY TypeInit DEF Init, IInv, UnresolvedIsQueued, BufferingIsQueued

\* The queue and the answers may only grow together: a step that takes a URL off
\* the queue answers it.
LEMMA QueueOrAnswer ==
  ASSUME IInv,
         \A s \in Shorts : s \in queue => s \in queue' \/ cache'[s] # Unresolved,
         \A s \in Shorts : cache[s] # Unresolved => cache'[s] # Unresolved,
         \A row \in buffered' \ buffered :
           \E p \in Procs : row \in newBuffered[p] /\ newQueue[p] \subseteq queue',
         \A p \in Procs : newBuffered'[p] = {} \/
           (newBuffered'[p] = newBuffered[p] /\ newQueue'[p] = newQueue[p])
  PROVE  UnresolvedIsQueued' /\ BufferingIsQueued'
<1>1. ASSUME NEW row \in buffered' PROVE cache'[row[2]] = Unresolved => row[2] \in queue'
  <2>1. CASE row \in buffered
    BY <2>1 DEF IInv, UnresolvedIsQueued, TypeOK, TypeTables, Buffering
  <2>2. CASE row \notin buffered
    <3>1. PICK p \in Procs : row \in newBuffered[p] /\ newQueue[p] \subseteq queue'
      BY <2>2
    <3>2. row[2] \in Shorts
      BY <3>1 DEF IInv, TypeOK, TypeWalk, Buffering
    <3> QED BY <3>1, <3>2 DEF IInv, BufferingIsQueued
  <2> QED BY <2>1, <2>2
<1>2. ASSUME NEW p \in Procs, NEW row \in newBuffered'[p]
      PROVE  row[2] \in queue' \cup newQueue'[p] \/ cache'[row[2]] # Unresolved
  <2>1. row \in newBuffered[p] /\ newQueue'[p] = newQueue[p]
    OBVIOUS
  <2>2. row[2] \in Shorts
    BY <2>1 DEF IInv, TypeOK, TypeWalk, Buffering
  <2> QED BY <2>1, <2>2 DEF IInv, BufferingIsQueued
<1> QED BY <1>1, <1>2 DEF UnresolvedIsQueued, BufferingIsQueued

LEMMA InvStep == IInv /\ [Next]_vars => IInv'
<1> SUFFICES ASSUME IInv, [Next]_vars PROVE IInv'
  OBVIOUS
<1>0. TypeOK /\ TypeOK'
  BY TypeStep DEF IInv
<1> DEFINE Rest == UnresolvedIsQueued /\ BufferingIsQueued
<1>1. ASSUME UNCHANGED <<cache, queue, buffered, newQueue, newBuffered>> PROVE Rest'
  BY <1>1 DEF IInv, UnresolvedIsQueued, BufferingIsQueued
<1>2. ASSUME NEW p \in Procs, RouteUrl(p) PROVE Rest'
  <2>1. CASE Route(p) \/ Follow(p) \/ Drop(p) \/ Miss(p)
    BY <1>1, <2>1 DEF Route, Follow, Drop, Miss, tables, written
  <2>2. CASE EnqueueAndBuffer(p)
    <3>1. UNCHANGED <<cache, queue, buffered>>
      BY <2>2 DEF EnqueueAndBuffer, tables
    <3>2. ASSUME NEW q \in Procs, NEW row \in newBuffered'[q]
          PROVE  row[2] \in queue \cup newQueue'[q] \/ cache[row[2]] # Unresolved
      <4>1. CASE q = p
        BY <2>2, <4>1 DEF EnqueueAndBuffer, IInv, TypeOK, TypeWalk, BufferingIsQueued
      <4>2. CASE q # p
        BY <2>2, <4>2 DEF EnqueueAndBuffer, IInv, TypeOK, TypeWalk, BufferingIsQueued
      <4> QED BY <4>1, <4>2
    <3> QED BY <3>1, <3>2 DEF IInv, UnresolvedIsQueued, BufferingIsQueued
  <2> QED BY <1>2, <2>1, <2>2 DEF RouteUrl
<1>3. ASSUME CommitConsumer PROVE Rest'
  <2>1. Consumer \in Procs
    BY DEF Procs
  <2> QED BY <1>0, <1>3, <2>1, QueueOrAnswer DEF CommitConsumer, Clear, TypeOK, TypeWalk, IInv
<1>4. ASSUME NEW r \in Resolvers, CommitResolver(r) PROVE Rest'
  <2>1. short[r] \in Shorts /\ answer[r] # Unresolved /\ r \in Procs
    BY <1>0, <1>4 DEF CommitResolver, TypeOK, TypeResolving, Procs
  <2>2. \A s \in Shorts : /\ s \in queue => s \in queue' \/ cache'[s] # Unresolved
                          /\ cache[s] # Unresolved => cache'[s] # Unresolved
    BY <1>0, <1>4, <2>1 DEF CommitResolver, TypeOK, TypeTables
  <2>3. /\ \A row \in buffered' \ buffered : row \in newBuffered[r]
        /\ newQueue[r] \subseteq queue'
    BY <1>4 DEF CommitResolver
  <2>4. \A p \in Procs : newBuffered'[p] = {} \/
          (newBuffered'[p] = newBuffered[p] /\ newQueue'[p] = newQueue[p])
    BY <1>0, <1>4 DEF CommitResolver, Clear, TypeOK, TypeWalk
  <2> QED BY <2>1, <2>2, <2>3, <2>4, QueueOrAnswer
<1>5. ASSUME NEW p \in Procs, Fault(p) PROVE Rest'
  <2>1. \A q \in Procs : newBuffered'[q] = {} \/
          (newBuffered'[q] = newBuffered[q] /\ newQueue'[q] = newQueue[q])
    BY <1>0, <1>5 DEF Fault, Clear, TypeOK, TypeWalk
  <2>2. UNCHANGED <<cache, queue, buffered>>
    BY <1>5 DEF Fault, tables
  <2> QED BY <2>1, <2>2, QueueOrAnswer
<1>6. ASSUME \/ Begin
             \/ \E r \in Resolvers : Claim(r) \/ Resolve(r) \/ CacheAndTake(r)
             \/ \E s \in Shorts : LockExpires(s)
             \/ UNCHANGED vars
      PROVE  Rest'
  BY <1>1, <1>6 DEF Begin, Claim, Resolve, CacheAndTake, LockExpires, vars, tables, written
<1>7. Consumer \in Procs /\ Resolvers \subseteq Procs
  BY DEF Procs
<1> HIDE DEF Rest
<1>8. Rest'
  BY <1>2, <1>3, <1>4, <1>5, <1>6, <1>7 DEF Next, ConsumerStep, ResolverStep
<1> QED BY <1>0, <1>8 DEF IInv, Rest

\* A post that waits for a URL without an answer waits for one that is queued,
\* however route_url's statements and the resolver's interleave.
THEOREM BufferedForQueued == Spec => []UnresolvedIsQueued
<1>1. IInv => UnresolvedIsQueued
  BY DEF IInv
<1> QED BY <1>1, InvInit, InvStep, PTL DEF Spec
=============================================================================
