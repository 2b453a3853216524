-------------------------- MODULE ShortenerPathProofs --------------------------
(***************************************************************************)
(* Where posts end up in Shorteners, wherever the short URLs lead: to each *)
(* other, to themselves, or through more of them than MaxHops.  Any posts, *)
(* URLs, resolvers, slow resolutions and faults.                           *)
(***************************************************************************)
EXTENDS ShortenersProofs

(* Paths.  OnPath(s) is the least set that has s and is closed under Leads, so    *)
(* what holds of s and is handed on by Leads holds of all of it.                  *)

LEMMA PathHasStart == ASSUME NEW s \in Urls PROVE s \in OnPath(s) /\ OnPath(s) \subseteq Urls
  BY DEF OnPath

LEMMA PathGoesOn ==
  ASSUME NEW s \in Urls, NEW v \in OnPath(s), v \in Shorts PROVE Leads[v] \in OnPath(s)
<1>1. Leads[v] \in Urls
  BY ConstantTypes
<1> QED BY <1>1 DEF OnPath, Follows

LEMMA PathIsClosed == ASSUME NEW s \in Urls PROVE Follows(OnPath(s))
  BY PathGoesOn DEF Follows

LEMMA PathOfPath == ASSUME NEW s \in Urls, NEW v \in OnPath(s) PROVE OnPath(v) \subseteq OnPath(s)
<1>1. OnPath(s) \in SUBSET Urls /\ v \in OnPath(s) /\ Follows(OnPath(s))
  BY PathHasStart, PathIsClosed
<1> QED BY <1>1 DEF OnPath

\* n hops, each from a short URL, lead from v to u.
Hops(v, u, n) ==
  \E trail \in [0..n -> Urls] :
    /\ trail[0] = v /\ trail[n] = u
    /\ \A i \in 1..n : trail[i - 1] \in Shorts /\ trail[i] = Leads[trail[i - 1]]

LEMMA HopsOfOne == ASSUME NEW v \in Urls PROVE Hops(v, v, 0)
<1> DEFINE trail == [i \in 0..0 |-> v]
<1>1. trail \in [0..0 -> Urls] /\ trail[0] = v /\ \A i \in 1..0 : FALSE
  OBVIOUS
<1> QED BY <1>1 DEF Hops

LEMMA HopsGoOn ==
  ASSUME NEW v \in Urls, NEW u \in Shorts, NEW n \in Nat, Hops(v, u, n)
  PROVE  Hops(v, Leads[u], n + 1)
<1>1. PICK trail \in [0..n -> Urls] :
        /\ trail[0] = v /\ trail[n] = u
        /\ \A i \in 1..n : trail[i - 1] \in Shorts /\ trail[i] = Leads[trail[i - 1]]
  BY DEF Hops
<1> DEFINE longer == [i \in 0..n + 1 |-> IF i <= n THEN trail[i] ELSE Leads[u]]
<1>2. longer \in [0..n + 1 -> Urls] /\ longer[0] = v /\ longer[n + 1] = Leads[u]
  BY <1>1, ConstantTypes
<1>3. ASSUME NEW i \in 1..n + 1
      PROVE  longer[i - 1] \in Shorts /\ longer[i] = Leads[longer[i - 1]]
  <2>1. CASE i <= n
    BY <1>1, <2>1
  <2>2. CASE i = n + 1
    BY <1>1, <2>2
  <2> QED BY <2>1, <2>2
<1> HIDE DEF longer
<1> QED BY <1>2, <1>3 DEF Hops

\* MaxHops hops to a short URL are too long a walk.
LEMMA HopsTooLong ==
  ASSUME NEW v \in Urls, NEW u \in Shorts, Hops(v, u, MaxHops) PROVE TooLong(v)
<1>1. PICK trail \in [0..MaxHops -> Urls] :
        /\ trail[0] = v /\ trail[MaxHops] = u
        /\ \A i \in 1..MaxHops : trail[i - 1] \in Shorts /\ trail[i] = Leads[trail[i - 1]]
  BY DEF Hops
<1>2. ASSUME NEW i \in 0..MaxHops PROVE trail[i] \in Shorts
  <2>1. CASE i = MaxHops
    BY <1>1, <2>1
  <2>2. CASE i < MaxHops
    <3>1. i + 1 \in 1..MaxHops /\ (i + 1) - 1 = i
      BY <2>2, ConstantTypes
    <3> QED BY <1>1, <3>1
  <2> QED BY <2>1, <2>2, ConstantTypes
<1>3. trail \in [0..MaxHops -> Shorts]
  BY <1>1, <1>2
<1> QED BY <1>1, <1>3 DEF TooLong

\* A walk that is too long from a URL further on is too long from here.
LEMMA TooLongBefore ==
  ASSUME NEW s \in Shorts, TooLong(Leads[s]) PROVE TooLong(s)
<1>1. PICK trail \in [0..MaxHops -> Shorts] :
        trail[0] = Leads[s] /\ \A n \in 1..MaxHops : trail[n] = Leads[trail[n - 1]]
  BY DEF TooLong
<1> DEFINE longer == [n \in 0..MaxHops |-> IF n = 0 THEN s ELSE trail[n - 1]]
<1>2. longer \in [0..MaxHops -> Shorts] /\ longer[0] = s
  BY <1>1, ConstantTypes
<1>3. ASSUME NEW n \in 1..MaxHops PROVE longer[n] = Leads[longer[n - 1]]
  <2>1. CASE n = 1
    BY <1>1, <2>1, ConstantTypes
  <2>2. CASE n > 1
    <3>1. n - 1 \in 1..MaxHops /\ n - 1 \in 0..MaxHops /\ n - 1 # 0 /\ (n - 1) - 1 = n - 2
      BY <2>2, ConstantTypes
    <3>2. longer[n] = trail[n - 1] /\ longer[n - 1] = trail[n - 2]
      BY <2>2, <3>1
    <3> QED BY <1>1, <3>1, <3>2
  <2> QED BY <2>1, <2>2
<1> HIDE DEF longer
<1> QED BY <1>2, <1>3 DEF TooLong

LEMMA PathTooLong ==
  ASSUME NEW s \in Urls, NEW v \in OnPath(s), TooLong(v) PROVE TooLong(s)
<1> DEFINE S == {u \in Urls : TooLong(u) => TooLong(s)}
<1>1. S \in SUBSET Urls /\ s \in S
  OBVIOUS
<1>2. Follows(S)
  <2> SUFFICES ASSUME NEW u \in Shorts, TooLong(u) => TooLong(s) PROVE Leads[u] \in S
    BY DEF Follows
  <2> QED BY TooLongBefore, ConstantTypes
<1>3. v \in S
  BY <1>1, <1>2 DEF OnPath
<1> QED BY <1>3

-----------------------------------------------------------------------------
(* The invariant.                                                          *)

\* What is remembered of the network is what it said.
AnswersAreTrue ==
  /\ \A s \in Shorts : cache[s] \in {Unresolved, Dead, Leads[s]}
  /\ \A r \in Resolvers :
       pc[r] \in {"take", "walk", "insert"} => answer[r] \in {Dead, Leads[short[r]]}

DeadIsRecorded == \A s \in Shorts : cache[s] = Dead => s \in failed

\* A post is, in the tables or on its way, only where one of its links leads.
Leading(post, url) ==
  \E b \in Links : \E link \in b : link[1] = post /\ url \in OnPath(link[2])

PostsAreLed ==
  /\ inbox \subseteq Links
  /\ \A row \in buffered \cup routed : Leading(row[1], row[2])
  /\ \A p \in Procs :
       /\ \A row \in newBuffered[p] \cup newRouted[p] : Leading(row[1], row[2])
       /\ \A item \in todo[p] : Leading(item[1], item[2])
       /\ pc[p] = "insert" => Leading(cur[p][1], cur[p][2])

\* A resolver's own answer counts before it is committed.
DeadTo(p) == failed \cup {s \in Shorts : p \in Resolvers /\ short[p] = s /\ answer[p] = Dead}

\* What a transaction has made so far of a post that it met at a URL.
OnItsWay(p, post, url) ==
  \E u \in OnPath(url) :
    \/ <<post, u>> \in newBuffered[p] \cup newRouted[p]
    \/ pc[p] = "insert" /\ cur[p][1] = post /\ cur[p][2] = u
    \/ \E v \in OnPath(url) : \E n \in 0..MaxHops : <<post, u, n>> \in todo[p] /\ Hops(v, u, n)

Kept(p, post, url) ==
  OnItsWay(p, post, url) \/ OnPath(url) \cap DeadTo(p) # {} \/ TooLong(url)

\* Buffered posts are taken only with an answer.
NothingTakenEarly ==
  \A r \in Resolvers : pc[r] \notin {"walk", "insert"} => taken[r] = {}

PostsAreKept ==
  /\ \A link \in batch : Kept(Consumer, link[1], link[2])
  /\ \A r \in Resolvers : \A row \in taken[r] : Kept(r, row[1], row[2])

PathInv ==
  /\ AnswersAreTrue /\ DeadIsRecorded /\ PostsAreLed
  /\ NothingTakenEarly /\ PostsAreKept /\ NothingVanishes

-----------------------------------------------------------------------------
(* Each action keeps it. *)

LEMMA LinksArePairs ==
  /\ \A b \in Links : \A link \in b : link \in Buffering
  /\ \A row \in Buffering : row[1] \in Posts /\ row[2] \in Shorts /\ row[2] \in Urls
                            /\ row = <<row[1], row[2]>>
  /\ Shorts \subseteq Urls /\ Targets \subseteq Urls
  BY ConstantTypes DEF Buffering, Urls

\* Where an item is led next, if its URL has an answer.
LEMMA LookupIsTrue ==
  ASSUME TypeOK, AnswersAreTrue, NEW p \in Procs, pc[p] \in {"walk", "insert"}, NEW s \in Shorts
  PROVE  /\ Lookup(p, s) \in Urls => Lookup(p, s) = Leads[s]
         /\ Lookup(p, s) = Dead => cache[s] = Dead \/ s \in DeadTo(p)
<1>1. CASE p \in Resolvers /\ short[p] = s
  <2>1. answer[p] \in {Dead, Leads[s]}
    BY <1>1 DEF AnswersAreTrue
  <2> QED BY <1>1, <2>1, UrlsDiffer DEF Lookup, DeadTo
<1>2. CASE ~(p \in Resolvers /\ short[p] = s)
  BY <1>2, UrlsDiffer DEF Lookup, AnswersAreTrue
<1> QED BY <1>1, <1>2

LEMMA AnswersStayTrue ==
  ASSUME TypeOK, AnswersAreTrue, DeadIsRecorded, [Next]_vars
  PROVE  AnswersAreTrue' /\ DeadIsRecorded' /\ failed \subseteq failed'
<1> USE DEF AnswersAreTrue, DeadIsRecorded
<1>1. ASSUME UNCHANGED <<cache, short, answer, failed>>,
             \A r \in Resolvers : pc'[r] \in {"take", "walk", "insert"} =>
                                    pc[r] \in {"take", "walk", "insert"}
      PROVE  AnswersAreTrue' /\ DeadIsRecorded' /\ failed \subseteq failed'
  BY <1>1
<1>2. ASSUME NEW p \in Procs, RouteUrl(p) PROVE AnswersAreTrue' /\ DeadIsRecorded' /\ failed \subseteq failed'
  <2>1. UNCHANGED <<cache, short, answer, failed>>
    BY <1>2 DEF RouteUrl, Route, Follow, Drop, Miss, EnqueueAndBuffer, tables, resolving, history
  <2>2. pc[p] \in {"walk", "insert"} /\ \A q \in Procs \ {p} : pc'[q] = pc[q]
    BY <1>2 DEF RouteUrl, Route, Follow, Drop, Miss, EnqueueAndBuffer, Current, TypeOK, TypeWalk
  <2> QED BY <1>1, <2>1, <2>2 DEF Procs
<1>3. CASE Begin \/ \E s \in Shorts : LockExpires(s)
  <2>1. UNCHANGED <<cache, short, answer, failed>>
    BY <1>3 DEF Begin, LockExpires, tables, resolving, history
  <2>2. \A r \in Resolvers : pc'[r] = pc[r]
    BY <1>3, ConsumerDiffers DEF Begin, LockExpires, walk, TypeOK, TypeWalk, Procs
  <2> QED BY <1>1, <2>1, <2>2
<1>4. ASSUME NEW p \in Procs, Clear(p), UNCHANGED <<cache, failed>>
      PROVE  AnswersAreTrue' /\ DeadIsRecorded' /\ failed \subseteq failed'
  BY <1>4 DEF Clear, TypeOK, TypeWalk, Procs
<1>5. CASE CommitConsumer \/ \E p \in Procs : Fault(p)
  BY <1>4, <1>5 DEF CommitConsumer, Fault, Procs, tables, history
<1>6. ASSUME NEW r \in Resolvers, Claim(r) PROVE AnswersAreTrue' /\ DeadIsRecorded' /\ failed \subseteq failed'
  BY <1>6 DEF Claim, history, TypeOK, TypeWalk, TypeResolving, Procs
<1>7. ASSUME NEW r \in Resolvers, Resolve(r) PROVE AnswersAreTrue' /\ DeadIsRecorded' /\ failed \subseteq failed'
  BY <1>7 DEF Resolve, tables, history, TypeOK, TypeWalk, TypeResolving, Procs
<1>8. ASSUME NEW r \in Resolvers, CacheAndTake(r) PROVE AnswersAreTrue' /\ DeadIsRecorded' /\ failed \subseteq failed'
  BY <1>1, <1>8 DEF CacheAndTake, tables, history, TypeOK, TypeWalk, Procs
<1>9. ASSUME NEW r \in Resolvers, CommitResolver(r) PROVE AnswersAreTrue' /\ DeadIsRecorded' /\ failed \subseteq failed'
  <2>1. short[r] \in Shorts /\ answer[r] \in {Dead, Leads[short[r]]} /\ r \in Procs
    BY <1>9 DEF CommitResolver, TypeOK, TypeResolving, Procs
  <2>2. AnswersAreTrue'
    BY <1>9, <2>1 DEF CommitResolver, Clear, TypeOK, TypeTables, TypeWalk, TypeResolving, Procs
  <2>3. DeadIsRecorded' /\ failed \subseteq failed'
    BY <1>9, <2>1 DEF CommitResolver, TypeOK, TypeTables
  <2> QED BY <2>2, <2>3
<1>10. CASE UNCHANGED vars
  BY <1>1, <1>10 DEF vars, tables, walk, resolving, history
<1>11. Consumer \in Procs /\ Resolvers \subseteq Procs
  BY DEF Procs
<1> QED BY <1>2, <1>3, <1>5, <1>6, <1>7, <1>8, <1>9, <1>10, <1>11 DEF Next, ConsumerStep, ResolverStep

-----------------------------------------------------------------------------
(* Posts go only where their links lead. *)

LEMMA LeadingGoesOn ==
  ASSUME NEW post, NEW s \in Shorts, Leading(post, s) PROVE Leading(post, Leads[s])
<1>1. PICK b \in Links : \E link \in b : link[1] = post /\ s \in OnPath(link[2])
  BY DEF Leading
<1>2. PICK link \in b : link[1] = post /\ s \in OnPath(link[2])
  BY <1>1
<1>3. Leads[s] \in OnPath(link[2])
  BY <1>2, LinksArePairs, PathGoesOn
<1> QED BY <1>2, <1>3 DEF Leading

LEMMA RouteUrlLeads ==
  ASSUME TypeOK, AnswersAreTrue, PostsAreLed, NEW p \in Procs, RouteUrl(p) PROVE PostsAreLed'
<1>0. UNCHANGED <<inbox, buffered, routed>>
  BY DEF RouteUrl, Route, Follow, Drop, Miss, EnqueueAndBuffer, tables, history
<1>1. \A q \in Procs \ {p} :
        UNCHANGED <<newBuffered[q], newRouted[q], todo[q], pc[q], cur[q]>>
  BY DEF RouteUrl, Route, Follow, Drop, Miss, EnqueueAndBuffer, written, TypeOK, TypeWalk
<1> SUFFICES /\ \A row \in newBuffered'[p] \cup newRouted'[p] : Leading(row[1], row[2])
             /\ \A item \in todo'[p] : Leading(item[1], item[2])
             /\ pc'[p] = "insert" => Leading(cur'[p][1], cur'[p][2])
  BY <1>0, <1>1 DEF PostsAreLed
<1>2. /\ \A row \in newBuffered[p] \cup newRouted[p] : Leading(row[1], row[2])
      /\ \A item \in todo[p] : Leading(item[1], item[2])
      /\ pc[p] = "insert" => Leading(cur[p][1], cur[p][2])
  BY DEF PostsAreLed
<1>3. CASE Route(p)
  <2>1. PICK item \in todo[p] :
          /\ newRouted' = [newRouted EXCEPT ![p] = @ \cup {<<item[1], item[2]>>}]
          /\ todo' = [todo EXCEPT ![p] = @ \ {item}]
    BY <1>3 DEF Route
  <2>2. UNCHANGED <<newBuffered, cur, pc>>
    BY <1>3 DEF Route
  <2> QED BY <1>2, <2>1, <2>2 DEF TypeOK, TypeWalk
<1>4. CASE Follow(p)
  <2>1. PICK item \in todo[p] :
          /\ item[2] \in Shorts /\ pc[p] = "walk" /\ Lookup(p, item[2]) \in Urls
          /\ todo' = [todo EXCEPT ![p] =
               (@ \ {item}) \cup {<<item[1], Lookup(p, item[2]), item[3] + 1>>}]
    BY <1>4 DEF Follow, Current
  <2>2. Leading(item[1], Lookup(p, item[2]))
    BY <1>2, <2>1, LookupIsTrue, LeadingGoesOn
  <2>3. UNCHANGED <<newBuffered, newRouted, cur, pc>>
    BY <1>4 DEF Follow, written
  <2> QED BY <1>2, <2>1, <2>2, <2>3 DEF TypeOK, TypeWalk
<1>5. CASE Drop(p)
  BY <1>2, <1>5 DEF Drop, written, TypeOK, TypeWalk
<1>6. CASE Miss(p)
  BY <1>2, <1>6 DEF Miss, written, TypeOK, TypeWalk
<1>7. CASE EnqueueAndBuffer(p)
  BY <1>2, <1>7 DEF EnqueueAndBuffer, TypeOK, TypeWalk
<1> QED BY <1>3, <1>4, <1>5, <1>6, <1>7 DEF RouteUrl

\* A transaction that ends takes nothing along.
LEMMA ClearLeads ==
  ASSUME TypeOK, NEW p \in Procs, Clear(p), PostsAreLed
  PROVE  \A q \in Procs :
           /\ \A row \in newBuffered'[q] \cup newRouted'[q] : Leading(row[1], row[2])
           /\ \A item \in todo'[q] : Leading(item[1], item[2])
           /\ pc'[q] = "insert" => Leading(cur'[q][1], cur'[q][2])
<1>1. /\ newBuffered'[p] = {} /\ newRouted'[p] = {} /\ todo'[p] = {} /\ pc'[p] = "idle"
      /\ \A q \in Procs \ {p} :
           UNCHANGED <<newBuffered[q], newRouted[q], todo[q], pc[q], cur[q]>>
  BY DEF Clear, TypeOK, TypeWalk
<1> QED BY <1>1 DEF PostsAreLed

LEMMA LedStep ==
  ASSUME TypeOK, AnswersAreTrue, PostsAreLed, [Next]_vars PROVE PostsAreLed'
<1>1. ASSUME NEW p \in Procs, RouteUrl(p) PROVE PostsAreLed'
  BY <1>1, RouteUrlLeads
<1>2. CASE Begin
  <2>1. PICK b \in inbox : inbox' = inbox \ {b} /\ todo' = [todo EXCEPT ![Consumer] = ToWalk(b)]
    BY <1>2 DEF Begin
  <2>2. UNCHANGED <<buffered, routed, newBuffered, newRouted, cur>>
        /\ \A p \in Procs : pc'[p] = "insert" => pc[p] = "insert"
    BY <1>2 DEF Begin, tables, history, written, TypeOK, TypeWalk
  <2>3. ASSUME NEW item \in ToWalk(b) PROVE Leading(item[1], item[2])
    <3>1. PICK link \in b : item = <<link[1], link[2], 0>>
      BY DEF ToWalk
    <3>2. b \in Links /\ link[2] \in OnPath(link[2])
      BY LinksArePairs, PathHasStart DEF PostsAreLed
    <3> QED BY <3>1, <3>2 DEF Leading
  <2> QED BY <2>1, <2>2, <2>3 DEF PostsAreLed, TypeOK, TypeWalk
<1>3. CASE CommitConsumer
  <2>1. Consumer \in Procs /\ Clear(Consumer) /\ UNCHANGED inbox
        /\ buffered' = buffered \cup newBuffered[Consumer] /\ routed' = routed \cup newRouted[Consumer]
    BY <1>3 DEF CommitConsumer, Procs
  <2> QED BY <2>1, ClearLeads DEF PostsAreLed
<1>4. ASSUME NEW r \in Resolvers, CommitResolver(r) PROVE PostsAreLed'
  <2>1. r \in Procs /\ Clear(r) /\ UNCHANGED inbox
        /\ buffered' \subseteq buffered \cup newBuffered[r] /\ routed' = routed \cup newRouted[r]
    BY <1>4 DEF CommitResolver, Procs
  <2> QED BY <2>1, ClearLeads DEF PostsAreLed
<1>5. ASSUME NEW p \in Procs, Fault(p) PROVE PostsAreLed'
  BY <1>5, ClearLeads DEF Fault, tables, history, PostsAreLed
<1>6. ASSUME NEW r \in Resolvers, CacheAndTake(r) PROVE PostsAreLed'
  <2> DEFINE rows == {row \in buffered : row[2] = short[r]}
  <2>1. /\ todo' = [todo EXCEPT ![r] = IF answer[r] = Dead THEN {}
                                       ELSE ToWalk({<<row[1], answer[r]>> : row \in rows})]
        /\ UNCHANGED <<inbox, buffered, routed, newBuffered, newRouted, cur>>
        /\ \A p \in Procs : pc'[p] = "insert" => pc[p] = "insert"
        /\ pc[r] = "take" /\ short[r] \in Shorts
    BY <1>6 DEF CacheAndTake, tables, history, written, TypeOK, TypeWalk, TypeResolving
  <2>2. ASSUME answer[r] # Dead, NEW item \in ToWalk({<<row[1], answer[r]>> : row \in rows})
        PROVE  Leading(item[1], item[2])
    <3>1. PICK row \in rows : item = <<row[1], answer[r], 0>>
      BY DEF ToWalk
    <3>2. answer[r] = Leads[short[r]]
      BY <2>1, <2>2 DEF AnswersAreTrue
    <3>3. Leading(row[1], short[r])
      BY DEF PostsAreLed
    <3> QED BY <2>1, <3>1, <3>2, <3>3, LeadingGoesOn
  <2>3. \A p \in Procs : \A item \in todo'[p] : Leading(item[1], item[2])
    BY <2>1, <2>2 DEF PostsAreLed, TypeOK, TypeWalk
  <2> QED BY <2>1, <2>3 DEF PostsAreLed
<1>7. ASSUME \/ \E r \in Resolvers : Claim(r) \/ Resolve(r)
             \/ \E s \in Shorts : LockExpires(s)
             \/ UNCHANGED vars
      PROVE  PostsAreLed'
  <2>1. UNCHANGED <<inbox, buffered, routed, newBuffered, newRouted, todo, cur>>
    BY <1>7 DEF Claim, Resolve, LockExpires, vars, tables, walk, written, history
  <2>2. \A p \in Procs : pc'[p] = "insert" => pc[p] = "insert"
    BY <1>7 DEF Claim, Resolve, LockExpires, vars, walk, TypeOK, TypeWalk
  <2> QED BY <2>1, <2>2 DEF PostsAreLed
<1>8. Consumer \in Procs /\ Resolvers \subseteq Procs
  BY DEF Procs
<1> QED BY <1>1, <1>2, <1>3, <1>4, <1>5, <1>6, <1>7, <1>8 DEF Next, ConsumerStep, ResolverStep

-----------------------------------------------------------------------------
(* No post vanishes on its way. *)

\* What a transaction does not touch it keeps.
LEMMA KeptUntouched ==
  ASSUME NEW p \in Procs, NEW post, NEW url, Kept(p, post, url),
         UNCHANGED <<newBuffered[p], newRouted[p], todo[p], pc[p], cur[p]>>,
         p \in Resolvers => UNCHANGED <<short[p], answer[p]>>,
         failed \subseteq failed'
  PROVE  Kept(p, post, url)'
<1>1. DeadTo(p) \subseteq DeadTo(p)'
  BY DEF DeadTo
<1>2. OnItsWay(p, post, url) => OnItsWay(p, post, url)'
  BY DEF OnItsWay
<1> QED BY <1>1, <1>2 DEF Kept

LEMMA RouteUrlKeeps ==
  ASSUME TypeOK, AnswersAreTrue, DeadIsRecorded, NEW p \in Procs, RouteUrl(p),
         NEW post, NEW url \in Urls, Kept(p, post, url)
  PROVE  Kept(p, post, url)'
<1>1. DeadTo(p)' = DeadTo(p)
  BY DEF RouteUrl, Route, Follow, Drop, Miss, EnqueueAndBuffer, resolving, history, DeadTo
<1>2. SUFFICES ASSUME OnItsWay(p, post, url) PROVE Kept(p, post, url)'
  BY <1>1 DEF Kept
<1>3. /\ newBuffered[p] \subseteq newBuffered'[p] /\ newRouted[p] \subseteq newRouted'[p]
      /\ pc[p] \in {"walk", "insert"}
  BY DEF RouteUrl, Route, Follow, Drop, Miss, EnqueueAndBuffer, Current, written, TypeOK, TypeWalk
<1>4. PICK u \in OnPath(url) :
        \/ <<post, u>> \in newBuffered[p] \cup newRouted[p]
        \/ pc[p] = "insert" /\ cur[p][1] = post /\ cur[p][2] = u
        \/ \E v \in OnPath(url) : \E n \in 0..MaxHops : <<post, u, n>> \in todo[p] /\ Hops(v, u, n)
  BY <1>2 DEF OnItsWay
<1>5. CASE <<post, u>> \in newBuffered[p] \cup newRouted[p]
  <2>1. <<post, u>> \in newBuffered'[p] \cup newRouted'[p]
    BY <1>3, <1>5
  <2>2. OnItsWay(p, post, url)'
    BY <2>1 DEF OnItsWay
  <2> QED BY <2>2 DEF Kept
<1>6. CASE pc[p] = "insert" /\ cur[p][1] = post /\ cur[p][2] = u
  <2>1. EnqueueAndBuffer(p)
    BY <1>6 DEF RouteUrl, Route, Follow, Drop, Miss, Current
  <2>2. <<post, u>> \in newBuffered'[p] \cup newRouted'[p]
    BY <1>6, <2>1 DEF EnqueueAndBuffer, TypeOK, TypeWalk
  <2>3. OnItsWay(p, post, url)'
    BY <2>2 DEF OnItsWay
  <2> QED BY <2>3 DEF Kept
<1>7. ASSUME NEW v \in OnPath(url), NEW n \in 0..MaxHops, <<post, u, n>> \in todo[p], Hops(v, u, n)
      PROVE  Kept(p, post, url)'
  <2> DEFINE item == <<post, u, n>>
  <2>0. u \in Urls /\ v \in Urls /\ item[1] = post /\ item[2] = u /\ item[3] = n
    BY PathHasStart
  <2>1. CASE item \in todo'[p]
    <3>1. OnItsWay(p, post, url)'
      BY <1>7, <2>1 DEF OnItsWay
    <3> QED BY <3>1 DEF Kept
  <2>2. CASE item \notin todo'[p]
    <3>1. CASE Route(p)
      <4>1. <<post, u>> \in newRouted'[p]
        BY <1>7, <2>0, <2>2, <3>1 DEF Route, TypeOK, TypeWalk
      <4>2. OnItsWay(p, post, url)'
        BY <4>1 DEF OnItsWay
      <4> QED BY <4>2 DEF Kept
    <3>2. CASE Follow(p)
      <4>1. /\ u \in Shorts /\ n < MaxHops /\ Lookup(p, u) \in Urls
            /\ <<post, Lookup(p, u), n + 1>> \in todo'[p]
            /\ pc[p] = "walk"
        BY <1>7, <2>0, <2>2, <3>2 DEF Follow, Current, TypeOK, TypeWalk
      <4>2. Lookup(p, u) = Leads[u]
        BY <4>1, LookupIsTrue
      <4>3. Leads[u] \in OnPath(url) /\ Hops(v, Leads[u], n + 1) /\ n + 1 \in 0..MaxHops
        BY <1>7, <2>0, <4>1, PathGoesOn, HopsGoOn, ConstantTypes
      <4>4. OnItsWay(p, post, url)'
        BY <4>1, <4>2, <4>3 DEF OnItsWay
      <4> QED BY <4>4 DEF Kept
    <3>3. CASE Drop(p)
      <4>1. /\ u \in Shorts /\ pc[p] = "walk"
            /\ Lookup(p, u) = Dead \/ n = MaxHops
        BY <1>7, <2>0, <2>2, <3>3 DEF Drop, Current, TypeOK, TypeWalk
      <4>2. CASE Lookup(p, u) = Dead
        <5>1. u \in DeadTo(p)
          BY <4>1, <4>2, LookupIsTrue DEF DeadIsRecorded, DeadTo
        <5> QED BY <1>1, <5>1 DEF Kept
      <4>3. CASE n = MaxHops
        <5>1. TooLong(url)
          BY <1>7, <2>0, <4>1, <4>3, HopsTooLong, PathTooLong
        <5> QED BY <5>1 DEF Kept
      <4> QED BY <4>1, <4>2, <4>3
    <3>4. CASE Miss(p)
      <4>1. cur'[p] = item /\ pc'[p] = "insert"
        BY <1>7, <2>2, <3>4 DEF Miss, TypeOK, TypeWalk
      <4>2. OnItsWay(p, post, url)'
        BY <2>0, <4>1 DEF OnItsWay
      <4> QED BY <4>2 DEF Kept
    <3>5. CASE EnqueueAndBuffer(p)
      BY <1>7, <2>2, <3>5 DEF EnqueueAndBuffer
    <3> QED BY <3>1, <3>2, <3>3, <3>4, <3>5 DEF RouteUrl
  <2> QED BY <2>1, <2>2
<1> QED BY <1>4, <1>5, <1>6, <1>7

LEMMA WalkOfPair ==
  ASSUME NEW post, NEW url, NEW pairs, <<post, url>> \in pairs
  PROVE  <<post, url, 0>> \in ToWalk(pairs)
<1> DEFINE pair == <<post, url>>
<1>1. pair \in pairs /\ pair[1] = post /\ pair[2] = url
  OBVIOUS
<1>2. <<pair[1], pair[2], 0>> \in ToWalk(pairs)
  BY <1>1 DEF ToWalk
<1> QED BY <1>1, <1>2

\* Another process's transaction ends or goes on.
LEMMA OthersKeep ==
  ASSUME TypeOK, PostsAreKept, NEW p \in Procs, failed \subseteq failed',
         \A q \in Procs \ {p} :
           UNCHANGED <<newBuffered[q], newRouted[q], todo[q], pc[q], cur[q]>>,
         \A r \in Resolvers \ {p} : UNCHANGED <<short[r], answer[r], taken[r]>>,
         p # Consumer => UNCHANGED batch,
         p = Consumer => \A link \in batch' : Kept(p, link[1], link[2])',
         p # Consumer => \A row \in taken'[p] : Kept(p, row[1], row[2])'
  PROVE  PostsAreKept'
<1>1. Consumer \in Procs /\ Resolvers \subseteq Procs /\ (p # Consumer => p \in Resolvers)
  BY DEF Procs
<1>2. ASSUME NEW link \in batch' PROVE Kept(Consumer, link[1], link[2])'
  <2>1. CASE p = Consumer
    BY <2>1
  <2>2. CASE p # Consumer
    BY <1>1, <2>2, KeptUntouched, ConsumerDiffers DEF PostsAreKept
  <2> QED BY <2>1, <2>2
<1>3. ASSUME NEW r \in Resolvers, NEW row \in taken'[r] PROVE Kept(r, row[1], row[2])'
  <2>1. CASE r = p
    BY <1>1, <2>1, ConsumerDiffers
  <2>2. CASE r # p
    BY <1>1, <2>2, KeptUntouched DEF PostsAreKept
  <2> QED BY <2>1, <2>2
<1> QED BY <1>2, <1>3 DEF PostsAreKept

LEMMA TakenStep == ASSUME TypeOK, NothingTakenEarly, [Next]_vars PROVE NothingTakenEarly'
<1> USE DEF NothingTakenEarly
<1>1. ASSUME NEW p \in Procs, RouteUrl(p) PROVE NothingTakenEarly'
  <2>1. UNCHANGED taken /\ pc[p] \in {"walk", "insert"}
        /\ \E s \in {"walk", "insert"} : pc' = [pc EXCEPT ![p] = s]
    <3>1. CASE Route(p) \/ Follow(p) \/ Drop(p)
      <4>1. UNCHANGED taken /\ pc[p] = "walk" /\ pc' = pc
        BY <3>1 DEF Route, Follow, Drop, Current, resolving
      <4> QED BY <4>1 DEF TypeOK, TypeWalk
    <3>2. CASE Miss(p) \/ EnqueueAndBuffer(p)
      BY <3>2 DEF Miss, Current, EnqueueAndBuffer, resolving
    <3> QED BY <1>1, <3>1, <3>2 DEF RouteUrl
  <2> QED BY <2>1 DEF TypeOK, TypeWalk, Procs
<1>2. ASSUME NEW p \in Procs, Clear(p) PROVE NothingTakenEarly'
  BY <1>2 DEF Clear, TypeOK, TypeWalk, TypeResolving, Procs
<1>3. CASE Begin
  BY <1>3, ConsumerDiffers DEF Begin, resolving, TypeOK, TypeWalk, Procs
<1>4. ASSUME NEW r \in Resolvers, Claim(r) \/ Resolve(r) PROVE NothingTakenEarly'
  BY <1>4 DEF Claim, Resolve, TypeOK, TypeWalk, Procs
<1>5. ASSUME NEW r \in Resolvers, CacheAndTake(r) PROVE NothingTakenEarly'
  BY <1>5 DEF CacheAndTake, TypeOK, TypeWalk, TypeResolving, Procs
<1>6. CASE (\E s \in Shorts : LockExpires(s)) \/ UNCHANGED vars
  BY <1>6 DEF LockExpires, vars, walk, resolving
<1>7. Consumer \in Procs /\ Resolvers \subseteq Procs
  BY DEF Procs
<1> QED BY <1>1, <1>2, <1>3, <1>4, <1>5, <1>6, <1>7
        DEF Next, ConsumerStep, ResolverStep, CommitConsumer, CommitResolver, Fault

LEMMA KeptStep ==
  ASSUME TypeOK, AnswersAreTrue, DeadIsRecorded, NothingTakenEarly, PostsAreKept, [Next]_vars PROVE PostsAreKept'
<1>0. failed \subseteq failed'
  BY AnswersStayTrue
<1>1. Consumer \in Procs /\ Resolvers \subseteq Procs /\ Procs = Resolvers \cup {Consumer}
  BY DEF Procs
<1>2. ASSUME NEW p \in Procs, RouteUrl(p) PROVE PostsAreKept'
  <2>1. UNCHANGED <<batch, short, answer, taken>>
    BY <1>2 DEF RouteUrl, Route, Follow, Drop, Miss, EnqueueAndBuffer, resolving
  <2>2. \A q \in Procs \ {p} :
          UNCHANGED <<newBuffered[q], newRouted[q], todo[q], pc[q], cur[q]>>
    BY <1>2 DEF RouteUrl, Route, Follow, Drop, Miss, EnqueueAndBuffer, written, TypeOK, TypeWalk
  <2>3. /\ p = Consumer => \A link \in batch : link \in Buffering /\ Kept(p, link[1], link[2])
        /\ p # Consumer => \A row \in taken[p] : row \in Buffering /\ Kept(p, row[1], row[2])
    BY <1>1 DEF PostsAreKept, TypeOK, TypeTables, TypeResolving
  <2>4. /\ p = Consumer => \A link \in batch' : Kept(p, link[1], link[2])'
        /\ p # Consumer => \A row \in taken'[p] : Kept(p, row[1], row[2])'
    BY <1>2, <2>1, <2>3, LinksArePairs, RouteUrlKeeps
  <2> QED BY <1>0, <2>1, <2>2, <2>4, OthersKeep
<1>3. ASSUME NEW p \in Procs, Clear(p) PROVE PostsAreKept'
  <2>1. /\ \A q \in Procs \ {p} :
             UNCHANGED <<newBuffered[q], newRouted[q], todo[q], pc[q], cur[q]>>
        /\ \A r \in Resolvers \ {p} : UNCHANGED <<short[r], answer[r], taken[r]>>
        /\ p # Consumer => UNCHANGED batch
        /\ p = Consumer => batch' = {}
        /\ p # Consumer => taken'[p] = {}
    BY <1>1, <1>3 DEF Clear, TypeOK, TypeWalk, TypeResolving
  <2> QED BY <1>0, <2>1, OthersKeep
<1>4. CASE Begin
  <2>1. PICK b \in inbox : batch' = b /\ todo' = [todo EXCEPT ![Consumer] = ToWalk(b)]
    BY <1>4 DEF Begin
  <2>2. /\ \A q \in Procs \ {Consumer} :
             UNCHANGED <<newBuffered[q], newRouted[q], todo[q], pc[q], cur[q]>>
        /\ \A r \in Resolvers : UNCHANGED <<short[r], answer[r], taken[r]>>
    BY <1>4, <2>1 DEF Begin, written, resolving, TypeOK, TypeWalk
  <2>3. ASSUME NEW link \in b PROVE Kept(Consumer, link[1], link[2])'
    <3>1. link[2] \in OnPath(link[2]) /\ Hops(link[2], link[2], 0) /\ 0 \in 0..MaxHops
      BY LinksArePairs, PathHasStart, HopsOfOne, ConstantTypes DEF TypeOK, TypeTables
    <3>2. <<link[1], link[2], 0>> \in todo'[Consumer]
      BY <1>1, <2>1 DEF ToWalk, TypeOK, TypeWalk
    <3>3. OnItsWay(Consumer, link[1], link[2])'
      BY <3>1, <3>2 DEF OnItsWay
    <3> QED BY <3>3 DEF Kept
  <2> QED BY <1>0, <1>1, <2>1, <2>2, <2>3, OthersKeep
<1>5. ASSUME NEW r \in Resolvers, Claim(r) \/ Resolve(r) PROVE PostsAreKept'
  <2>1. taken[r] = {} => PostsAreKept'
    <3>1. /\ \A q \in Procs \ {r} :
               UNCHANGED <<newBuffered[q], newRouted[q], todo[q], pc[q], cur[q]>>
          /\ \A q \in Resolvers \ {r} : UNCHANGED <<short[q], answer[q]>>
          /\ UNCHANGED <<taken, batch>>
      BY <1>5 DEF Claim, Resolve, written, TypeOK, TypeWalk, TypeResolving
    <3> QED BY <1>0, <1>1, <3>1, OthersKeep, ConsumerDiffers
  <2>2. pc[r] \in {"idle", "resolve"}
    BY <1>5 DEF Claim, Resolve
  <2> QED BY <2>1, <2>2 DEF NothingTakenEarly
<1>6. ASSUME NEW r \in Resolvers, CacheAndTake(r) PROVE PostsAreKept'
  <2> DEFINE rows == {row \in buffered : row[2] = short[r]}
  <2>1. /\ todo' = [todo EXCEPT ![r] = IF answer[r] = Dead THEN {}
                                       ELSE ToWalk({<<row[1], answer[r]>> : row \in rows})]
        /\ taken' = [taken EXCEPT ![r] = rows]
        /\ UNCHANGED <<batch, short, answer>>
        /\ pc[r] = "take" /\ short[r] \in Shorts
        /\ \A q \in Procs \ {r} :
             UNCHANGED <<newBuffered[q], newRouted[q], todo[q], pc[q], cur[q]>>
    BY <1>6 DEF CacheAndTake, written, TypeOK, TypeWalk, TypeResolving
  <2>2. ASSUME NEW row \in rows PROVE Kept(r, row[1], row[2])'
    <3>1. CASE answer[r] = Dead
      <4>1. row[2] \in DeadTo(r)'
        BY <2>1, <3>1 DEF DeadTo
      <4>2. row[2] \in OnPath(row[2])
        BY <2>1, PathHasStart, LinksArePairs
      <4> QED BY <4>1, <4>2 DEF Kept
    <3>2. CASE answer[r] # Dead
      <4>1. answer[r] = Leads[row[2]] /\ row[2] \in Shorts /\ answer[r] \in Urls
        BY <2>1, <3>2, ConstantTypes DEF AnswersAreTrue
      <4>2. answer[r] \in OnPath(row[2]) /\ Hops(answer[r], answer[r], 0) /\ 0 \in 0..MaxHops
        BY <4>1, LinksArePairs, PathHasStart, PathGoesOn, HopsOfOne, ConstantTypes
      <4>3. <<row[1], answer[r], 0>> \in todo'[r]
        <5>1. <<row[1], answer[r]>> \in {<<x[1], answer[r]>> : x \in rows}
          OBVIOUS
        <5>2. <<row[1], answer[r], 0>> \in ToWalk({<<x[1], answer[r]>> : x \in rows})
          BY <5>1, WalkOfPair
        <5> QED BY <1>1, <2>1, <3>2, <5>2 DEF TypeOK, TypeWalk
      <4>4. OnItsWay(r, row[1], row[2])'
        BY <4>2, <4>3 DEF OnItsWay
      <4> QED BY <4>4 DEF Kept
    <3> QED BY <3>1, <3>2
  <2>3. \A row \in taken'[r] : Kept(r, row[1], row[2])'
    BY <2>1, <2>2 DEF TypeOK, TypeResolving
  <2>4. \A q \in Resolvers \ {r} : UNCHANGED <<short[q], answer[q], taken[q]>>
    BY <2>1 DEF TypeOK, TypeResolving
  <2> QED BY <1>0, <1>1, <2>1, <2>3, <2>4, OthersKeep, ConsumerDiffers
<1>7. ASSUME \/ \E s \in Shorts : LockExpires(s)
             \/ UNCHANGED vars
      PROVE  PostsAreKept'
  <2>1. UNCHANGED <<newBuffered, newRouted, todo, pc, cur, short, answer, taken, batch>>
    BY <1>7 DEF LockExpires, vars, walk, written, resolving
  <2> QED BY <1>0, <1>1, <2>1, KeptUntouched DEF PostsAreKept
<1> QED BY <1>1, <1>2, <1>3, <1>4, <1>5, <1>6, <1>7
        DEF Next, ConsumerStep, ResolverStep, CommitConsumer, CommitResolver, Fault

\* What a transaction has done with a post when nothing is left to walk.
LEMMA KeptWhenDone ==
  ASSUME NEW p \in Procs, pc[p] = "walk", todo[p] = {}, NEW post, NEW url, Kept(p, post, url)
  PROVE  \/ \E u \in OnPath(url) : <<post, u>> \in newBuffered[p] \cup newRouted[p]
         \/ OnPath(url) \cap DeadTo(p) # {}
         \/ TooLong(url)
  BY DEF Kept, OnItsWay

LEMMA VanishStep ==
  ASSUME TypeOK, PostsAreKept, NothingVanishes, [Next]_vars PROVE NothingVanishes'
<1>1. CASE CommitConsumer
  <2>1. /\ pc[Consumer] = "walk" /\ todo[Consumer] = {} /\ accepted' = accepted \cup batch
        /\ buffered' = buffered \cup newBuffered[Consumer]
        /\ routed' = routed \cup newRouted[Consumer] /\ failed' = failed
    BY <1>1 DEF CommitConsumer
  <2>2. ASSUME NEW link \in batch
        PROVE  \/ \E u \in OnPath(link[2]) : <<link[1], u>> \in buffered' \cup routed'
               \/ OnPath(link[2]) \cap failed' # {}
               \/ TooLong(link[2])
    <3>1. DeadTo(Consumer) = failed
      BY ConsumerDiffers DEF DeadTo
    <3> QED BY <2>1, <3>1, KeptWhenDone DEF PostsAreKept, Procs
  <2>3. ASSUME NEW link \in accepted
        PROVE  \/ \E u \in OnPath(link[2]) : <<link[1], u>> \in buffered' \cup routed'
               \/ OnPath(link[2]) \cap failed' # {}
               \/ TooLong(link[2])
    BY <2>1 DEF NothingVanishes
  <2> QED BY <2>1, <2>2, <2>3 DEF NothingVanishes
<1>2. ASSUME NEW r \in Resolvers, CommitResolver(r) PROVE NothingVanishes'
  <2>1. /\ pc[r] = "walk" /\ todo[r] = {} /\ accepted' = accepted
        /\ buffered' = (buffered \ taken[r]) \cup newBuffered[r]
        /\ routed' = routed \cup newRouted[r]
        /\ failed' = IF answer[r] = Dead THEN failed \cup {short[r]} ELSE failed
        /\ r \in Procs
    BY <1>2 DEF CommitResolver, Procs
  <2>2. DeadTo(r) \subseteq failed'
    BY <2>1 DEF DeadTo
  <2> SUFFICES ASSUME NEW link \in accepted
               PROVE  \/ \E u \in OnPath(link[2]) : <<link[1], u>> \in buffered' \cup routed'
                      \/ OnPath(link[2]) \cap failed' # {}
                      \/ TooLong(link[2])
    BY <2>1 DEF NothingVanishes
  <2>3. link[2] \in Urls
    BY LinksArePairs DEF TypeOK, TypeTables
  <2>4. CASE \E u \in OnPath(link[2]) : <<link[1], u>> \in taken[r]
    <3>1. PICK u \in OnPath(link[2]) : <<link[1], u>> \in taken[r]
      BY <2>4
    <3>2. Kept(r, link[1], u)
      BY <3>1 DEF PostsAreKept
    <3>3. OnPath(u) \subseteq OnPath(link[2]) /\ (TooLong(u) => TooLong(link[2]))
      BY <2>3, PathOfPath, PathTooLong
    <3>4. \/ \E v \in OnPath(u) : <<link[1], v>> \in newBuffered[r] \cup newRouted[r]
          \/ OnPath(u) \cap DeadTo(r) # {}
          \/ TooLong(u)
      BY <2>1, <3>2, KeptWhenDone
    <3> QED BY <2>1, <2>2, <3>3, <3>4
  <2>5. CASE ~ \E u \in OnPath(link[2]) : <<link[1], u>> \in taken[r]
    BY <2>1, <2>5 DEF NothingVanishes
  <2> QED BY <2>4, <2>5
<1>3. CASE UNCHANGED <<buffered, routed, failed, accepted>>
  BY <1>3 DEF NothingVanishes
<1>4. UNCHANGED <<buffered, routed, failed, accepted>> \/ CommitConsumer
      \/ \E r \in Resolvers : CommitResolver(r)
  BY DEF Next, ConsumerStep, ResolverStep, RouteUrl, Route, Follow, Drop, Miss, EnqueueAndBuffer,
         Begin, Claim, Resolve, CacheAndTake, LockExpires, Fault, vars, tables, history
<1> QED BY <1>1, <1>2, <1>3, <1>4

-----------------------------------------------------------------------------
LEMMA PathInit == Init => PathInv
<1> SUFFICES ASSUME Init PROVE PathInv
  OBVIOUS
<1>1. AnswersAreTrue /\ DeadIsRecorded /\ NothingTakenEarly /\ NothingVanishes
  BY UrlsDiffer DEF Init, AnswersAreTrue, DeadIsRecorded, NothingTakenEarly, NothingVanishes, Procs
<1>2. PostsAreLed /\ PostsAreKept
  BY DEF Init, PostsAreLed, PostsAreKept
<1> QED BY <1>1, <1>2 DEF PathInv

LEMMA PathHolds == Spec => [](TypeOK /\ PathInv)
<1>1. TypeOK /\ PathInv /\ [Next]_vars => (TypeOK /\ PathInv)'
  BY TypeStep, AnswersStayTrue, LedStep, TakenStep, KeptStep, VanishStep DEF PathInv
<1>2. Init => TypeOK /\ PathInv
  BY TypeInit, PathInit
<1> QED BY <1>1, <1>2, PTL DEF Spec

\* Whatever is cached, late, repeated or lost, every link the consumer has accepted
\* is buffered on its path, or was routed where it leads, or met a dead URL, or
\* leads through too many short URLs (route_url, process_one of resolver.py).
THEOREM LinksNeverVanish == Spec => []NothingVanishes
<1>1. TypeOK /\ PathInv => NothingVanishes
  BY DEF PathInv
<1> QED BY <1>1, PathHolds, PTL

\* A post is handed to route() only for a URL that one of its own links leads to.
THEOREM RoutedToItsLinks == Spec => []RoutedWhereItLeads
<1>1. TypeOK /\ PathInv => RoutedWhereItLeads
  BY DEF PathInv, PostsAreLed, Leading, RoutedWhereItLeads
<1> QED BY <1>1, PathHolds, PTL
=============================================================================
