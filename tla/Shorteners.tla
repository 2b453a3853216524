------------------------------ MODULE Shorteners ------------------------------
(***************************************************************************)
(* Short links in snubstack: route_url follows cached resolutions and, at  *)
(* the first short URL it has none for, queues the URL and buffers the     *)
(* post (consumer/routing.py, shorteners.py); the resolver claims a queued *)
(* URL, asks the network where it leads, caches the answer and routes what *)
(* was buffered (worker/resolver.py).  A post that reaches a host outside  *)
(* the shorteners is handed to route(), which HostTriage models.           *)
(*                                                                         *)
(* cache, queue, locked and buffered are the committed tables.  What a     *)
(* transaction has written is in variables of its own until it commits;    *)
(* at READ COMMITTED every statement sees what is committed at that time.  *)
(***************************************************************************)
EXTENDS Naturals, FiniteSets

CONSTANTS
  Posts,
  Shorts,       \* short URLs
  Targets,      \* URLs whose host is not a shortener
  Dead,         \* an answer with error set
  Unresolved,   \* no row in shortener_resolutions
  NoUrl, NoItem,
  Consumer,
  Resolvers,    \* worker processes: each runs one resolver_loop
  Links,        \* batches of <<post, short URL>> pairs the consumer will route
  Leads,        \* where the network says a short URL leads
  MaxHops,      \* MAX_SHORTENER_HOPS
  SlowResolve,  \* TRUE: a resolution may outlive the LOCK_FOR window
  MaxFaults     \* bound: crashes and exceptions

Urls == Shorts \cup Targets
Procs == Resolvers \cup {Consumer}
Buffering == Posts \X Shorts

ASSUME UrlsDiffer ==
  /\ Shorts \cap Targets = {} /\ Dead # Unresolved
  /\ {Dead, Unresolved, NoUrl} \cap Urls = {}
  /\ NoItem \notin Posts \X Urls \X Nat
ASSUME ConsumerDiffers == Consumer \notin Resolvers
ASSUME ConstantTypes ==
  /\ Links \subseteq SUBSET Buffering /\ Leads \in [Shorts -> Urls]
  /\ MaxHops \in Nat /\ MaxFaults \in Nat /\ SlowResolve \in BOOLEAN

VARIABLES
  cache,             \* shortener_resolutions: Unresolved, Dead or a URL
  queue, locked,     \* shortener_queue: its URLs, and those with locked_until ahead
  buffered,          \* shortener_pending
  inbox,             \* batches the consumer has not met
  pc, todo, cur,     \* per process: program counter, <<post, url, hops>> to walk, one to buffer
  newQueue, newBuffered, newRouted,  \* per process: rows written, not committed
  batch,             \* consumer: the pairs of the transaction
  short, answer,     \* resolvers: claimed URL, what the network said
  taken,             \* resolvers: rows deleted, not committed
  routed,            \* history: <<post, url>> given to route() and committed
  accepted, failed,  \* history: pairs the consumer committed, URLs recorded as dead
  faults

tables == <<cache, queue, locked, buffered>>
walk == <<pc, todo, cur>>
written == <<newQueue, newBuffered, newRouted>>
resolving == <<short, answer, taken>>
history == <<routed, accepted, failed>>
vars == <<tables, walk, written, resolving, history, inbox, batch, faults>>

ToWalk(pairs) == {<<pair[1], pair[2], 0>> : pair \in pairs}
-----------------------------------------------------------------------------
(* route_url, a statement at a time, for each item of the transaction.     *)

\* One item is walked to its end before the next is taken.
Current(p, item) == pc[p] = "walk" /\ item \in todo[p] /\ \A other \in todo[p] : other[3] <= item[3]

\* lookup(): a resolver sees the answer it has just written.
Lookup(p, url) == IF p \in Resolvers /\ short[p] = url THEN answer[p] ELSE cache[url]

\* Not a shortener: route().
Route(p) ==
  /\ \E item \in todo[p] :
       /\ Current(p, item) /\ item[2] \in Targets
       /\ newRouted' = [newRouted EXCEPT ![p] = @ \cup {<<item[1], item[2]>>}]
       /\ todo' = [todo EXCEPT ![p] = @ \ {item}]
  /\ UNCHANGED <<tables, pc, cur, newQueue, newBuffered, resolving, history, inbox, batch, faults>>

\* Mutant: cached.error is not looked at.
FollowDead(p) ==
  /\ \E item \in todo[p] :
       /\ Current(p, item) /\ item[2] \in Shorts /\ item[3] < MaxHops
       /\ Lookup(p, item[2]) # Unresolved
       /\ todo' = [todo EXCEPT ![p] =
            (@ \ {item}) \cup {<<item[1], Lookup(p, item[2]), item[3] + 1>>}]
  /\ UNCHANGED <<tables, pc, cur, written, resolving, history, inbox, batch, faults>>

\* A resolved shortener: go on from where it leads.
Follow(p) ==
  /\ \E item \in todo[p] :
       /\ Current(p, item) /\ item[2] \in Shorts /\ item[3] < MaxHops
       /\ Lookup(p, item[2]) \in Urls
       /\ todo' = [todo EXCEPT ![p] =
            (@ \ {item}) \cup {<<item[1], Lookup(p, item[2]), item[3] + 1>>}]
  /\ UNCHANGED <<tables, pc, cur, written, resolving, history, inbox, batch, faults>>

\* "shortener_dead" and "shortener_too_many_hops": the post is dropped.
Drop(p) ==
  /\ \E item \in todo[p] :
       /\ Current(p, item) /\ item[2] \in Shorts
       /\ \/ Lookup(p, item[2]) = Dead
          \/ Lookup(p, item[2]) \in Urls /\ item[3] = MaxHops
       /\ todo' = [todo EXCEPT ![p] = @ \ {item}]
  /\ UNCHANGED <<tables, pc, cur, written, resolving, history, inbox, batch, faults>>

\* No answer yet; what follows acts on what this SELECT has read.
Miss(p) ==
  /\ \E item \in todo[p] :
       /\ Current(p, item) /\ item[2] \in Shorts /\ Lookup(p, item[2]) = Unresolved
       /\ cur' = [cur EXCEPT ![p] = item]
       /\ todo' = [todo EXCEPT ![p] = @ \ {item}]
  /\ pc' = [pc EXCEPT ![p] = "insert"]
  /\ UNCHANGED <<tables, written, resolving, history, inbox, batch, faults>>

\* enqueue() (ON CONFLICT DO NOTHING, after any transaction that is inserting the
\* same key) and buffer_post().
EnqueueAndBuffer(p) ==
  LET url == cur[p][2] IN
  /\ pc[p] = "insert"
  /\ \A q \in Procs \ {p} : url \notin newQueue[q]
  /\ newQueue' = [newQueue EXCEPT ![p] = IF url \in queue THEN @ ELSE @ \cup {url}]
  /\ newBuffered' = [newBuffered EXCEPT ![p] = @ \cup {<<cur[p][1], url>>}]
  /\ pc' = [pc EXCEPT ![p] = "walk"] /\ cur' = [cur EXCEPT ![p] = NoItem]
  /\ UNCHANGED <<tables, todo, newRouted, resolving, history, inbox, batch, faults>>

\* The transaction is over: nothing of it stays in the process.
Clear(p) ==
  /\ pc' = [pc EXCEPT ![p] = "idle"]
  /\ todo' = [todo EXCEPT ![p] = {}] /\ cur' = [cur EXCEPT ![p] = NoItem]
  /\ newQueue' = [newQueue EXCEPT ![p] = {}] /\ newBuffered' = [newBuffered EXCEPT ![p] = {}]
  /\ newRouted' = [newRouted EXCEPT ![p] = {}]
  /\ batch' = IF p = Consumer THEN {} ELSE batch
  /\ short' = [r \in Resolvers |-> IF r = p THEN NoUrl ELSE short[r]]
  /\ answer' = [r \in Resolvers |-> IF r = p THEN Unresolved ELSE answer[r]]
  /\ taken' = [r \in Resolvers |-> IF r = p THEN {} ELSE taken[r]]
-----------------------------------------------------------------------------
(* The consumer: one transaction for the links of one post.                *)

Begin ==
  /\ pc[Consumer] = "idle"
  /\ \E b \in inbox :
       /\ inbox' = inbox \ {b} /\ batch' = b
       /\ todo' = [todo EXCEPT ![Consumer] = ToWalk(b)]
  /\ pc' = [pc EXCEPT ![Consumer] = "walk"]
  /\ UNCHANGED <<tables, cur, written, resolving, history, faults>>

CommitConsumer ==
  /\ pc[Consumer] = "walk" /\ todo[Consumer] = {}
  /\ queue' = queue \cup newQueue[Consumer]
  /\ buffered' = buffered \cup newBuffered[Consumer]
  /\ routed' = routed \cup newRouted[Consumer]
  /\ accepted' = accepted \cup batch
  /\ Clear(Consumer)
  /\ UNCHANGED <<cache, locked, failed, inbox, faults>>
-----------------------------------------------------------------------------
(* The resolver: claim, ask the network, record and dispatch.              *)

\* claim_one.  Its ORDER BY enqueued_at is not modelled: any order is allowed.
Claim(r) ==
  /\ pc[r] = "idle"
  /\ \E s \in queue \ locked :
       /\ short' = [short EXCEPT ![r] = s]
       /\ locked' = locked \cup {s}
  /\ pc' = [pc EXCEPT ![r] = "resolve"]
  /\ UNCHANGED <<cache, queue, buffered, todo, cur, written, answer, taken, history, inbox, batch, faults>>

\* _resolve, with no transaction open.  Any HTTP error is an answer.
Resolve(r) ==
  /\ pc[r] = "resolve"
  /\ \E a \in {Dead, Leads[short[r]]} : answer' = [answer EXCEPT ![r] = a]
  /\ pc' = [pc EXCEPT ![r] = "take"]
  /\ UNCHANGED <<tables, todo, cur, written, short, taken, history, inbox, batch, faults>>

\* Mutant: take_buffered without its WHERE.
TakeEverything(r) ==
  /\ pc[r] = "take"
  /\ taken' = [taken EXCEPT ![r] = buffered]
  /\ todo' = [todo EXCEPT ![r] = IF answer[r] = Dead THEN {}
                                 ELSE ToWalk({<<row[1], answer[r]>> : row \in buffered})]
  /\ pc' = [pc EXCEPT ![r] = "walk"]
  /\ UNCHANGED <<tables, cur, written, short, answer, history, inbox, batch, faults>>

\* cache_resolution locks the row of the URL; take_buffered deletes the rows that
\* are committed by now.  A dead URL's posts go no further.
CacheAndTake(r) ==
  LET rows == {row \in buffered : row[2] = short[r]} IN
  /\ pc[r] = "take"
  /\ \A q \in Resolvers : pc[q] \in {"walk", "insert"} => short[q] # short[r]
  /\ taken' = [taken EXCEPT ![r] = rows]
  /\ todo' = [todo EXCEPT ![r] = IF answer[r] = Dead THEN {}
                                 ELSE ToWalk({<<row[1], answer[r]>> : row \in rows})]
  /\ pc' = [pc EXCEPT ![r] = "walk"]
  /\ UNCHANGED <<tables, cur, written, short, answer, history, inbox, batch, faults>>

\* Mutants: rows are deleted by URL at the end; an error is not cached; an error
\* leaves the URL in the queue.
CommitByUrl(r) ==
  /\ pc[r] = "walk" /\ todo[r] = {}
  /\ cache' = [cache EXCEPT ![short[r]] = answer[r]]
  /\ buffered' = {row \in buffered : row[2] # short[r]} \cup newBuffered[r]
  /\ queue' = (queue \ {short[r]}) \cup newQueue[r]
  /\ locked' = locked \ {short[r]}
  /\ routed' = routed \cup newRouted[r]
  /\ failed' = IF answer[r] = Dead THEN failed \cup {short[r]} ELSE failed
  /\ Clear(r)
  /\ UNCHANGED <<accepted, inbox, faults>>

CommitWithoutError(r) ==
  /\ pc[r] = "walk" /\ todo[r] = {}
  /\ cache' = IF answer[r] = Dead THEN cache ELSE [cache EXCEPT ![short[r]] = answer[r]]
  /\ buffered' = (buffered \ taken[r]) \cup newBuffered[r]
  /\ queue' = (queue \ {short[r]}) \cup newQueue[r]
  /\ locked' = locked \ {short[r]}
  /\ routed' = routed \cup newRouted[r]
  /\ failed' = IF answer[r] = Dead THEN failed \cup {short[r]} ELSE failed
  /\ Clear(r)
  /\ UNCHANGED <<accepted, inbox, faults>>

CommitKeepsDead(r) ==
  /\ pc[r] = "walk" /\ todo[r] = {}
  /\ cache' = [cache EXCEPT ![short[r]] = answer[r]]
  /\ buffered' = (buffered \ taken[r]) \cup newBuffered[r]
  /\ queue' = (IF answer[r] = Dead THEN queue ELSE queue \ {short[r]}) \cup newQueue[r]
  /\ locked' = locked \ {short[r]}
  /\ routed' = routed \cup newRouted[r]
  /\ failed' = IF answer[r] = Dead THEN failed \cup {short[r]} ELSE failed
  /\ Clear(r)
  /\ UNCHANGED <<accepted, inbox, faults>>

\* complete(), commit.
CommitResolver(r) ==
  /\ pc[r] = "walk" /\ todo[r] = {}
  /\ cache' = [cache EXCEPT ![short[r]] = answer[r]]
  /\ buffered' = (buffered \ taken[r]) \cup newBuffered[r]
  /\ queue' = (queue \ {short[r]}) \cup newQueue[r]
  /\ locked' = locked \ {short[r]}
  /\ routed' = routed \cup newRouted[r]
  /\ failed' = IF answer[r] = Dead THEN failed \cup {short[r]} ELSE failed
  /\ Clear(r)
  /\ UNCHANGED <<accepted, inbox, faults>>

\* Time passes locked_until; unless SlowResolve, only after the claim's work is over.
LockExpires(s) ==
  /\ s \in locked
  /\ SlowResolve \/ \A r \in Resolvers : short[r] # s
  /\ locked' = locked \ {s}
  /\ UNCHANGED <<cache, queue, buffered, walk, written, resolving, history, inbox, batch, faults>>

\* A crash or an exception.  The consumer's event is gone: its process ends and
\* joins the stream live.  A resolver's claim stays on the row.
Fault(p) ==
  /\ faults > 0 /\ faults' = faults - 1
  /\ pc[p] # "idle"
  /\ Clear(p)
  /\ UNCHANGED <<tables, history, inbox>>
-----------------------------------------------------------------------------
Init ==
  /\ cache = [s \in Shorts |-> Unresolved]
  /\ queue = {} /\ locked = {} /\ buffered = {} /\ inbox = Links
  /\ pc = [p \in Procs |-> "idle"]
  /\ todo = [p \in Procs |-> {}] /\ cur = [p \in Procs |-> NoItem]
  /\ newQueue = [p \in Procs |-> {}] /\ newBuffered = [p \in Procs |-> {}]
  /\ newRouted = [p \in Procs |-> {}] /\ batch = {}
  /\ short = [r \in Resolvers |-> NoUrl] /\ answer = [r \in Resolvers |-> Unresolved]
  /\ taken = [r \in Resolvers |-> {}]
  /\ routed = {} /\ accepted = {} /\ failed = {} /\ faults = MaxFaults

RouteUrl(p) == Route(p) \/ Follow(p) \/ Drop(p) \/ Miss(p) \/ EnqueueAndBuffer(p)
ConsumerStep == RouteUrl(Consumer) \/ CommitConsumer
ResolverStep(r) == Resolve(r) \/ CacheAndTake(r) \/ RouteUrl(r) \/ CommitResolver(r)

Next ==
  \/ Begin \/ ConsumerStep
  \/ \E r \in Resolvers : Claim(r) \/ ResolverStep(r)
  \/ \E s \in Shorts : LockExpires(s)
  \/ \E p \in Procs : Fault(p)

Spec == Init /\ [][Next]_vars

\* The loops go on, a transaction that waits for a key gets it in its turn, and
\* locks expire; a new post or a fault need not come.
Fairness ==
  /\ SF_vars(ConsumerStep)
  /\ \A r \in Resolvers : WF_vars(Claim(r)) /\ SF_vars(ResolverStep(r))
  /\ \A s \in Shorts : WF_vars(LockExpires(s))

FairSpec == Spec /\ Fairness
-----------------------------------------------------------------------------
Items == Posts \X Urls \X (0..MaxHops)

TypeTables ==
  /\ cache \in [Shorts -> Urls \cup {Dead, Unresolved}]
  /\ queue \subseteq Shorts /\ locked \subseteq queue /\ buffered \subseteq Buffering
  /\ inbox \subseteq SUBSET Buffering /\ batch \subseteq Buffering
  /\ routed \subseteq Posts \X Targets /\ accepted \subseteq Buffering
  /\ failed \subseteq Shorts /\ faults \in Nat

TypeWalk ==
  /\ pc \in [Procs -> {"idle", "resolve", "take", "walk", "insert"}]
  /\ todo \in [Procs -> SUBSET Items] /\ cur \in [Procs -> Items \cup {NoItem}]
  /\ \A p \in Procs : pc[p] = "insert" => cur[p] \in Items /\ cur[p][2] \in Shorts
  /\ newQueue \in [Procs -> SUBSET Shorts] /\ newBuffered \in [Procs -> SUBSET Buffering]
  /\ newRouted \in [Procs -> SUBSET (Posts \X Targets)]

TypeResolving ==
  /\ short \in [Resolvers -> Shorts \cup {NoUrl}]
  /\ answer \in [Resolvers -> Urls \cup {Dead, Unresolved}]
  /\ taken \in [Resolvers -> SUBSET Buffering]
  /\ \A r \in Resolvers : /\ pc[r] # "idle" => short[r] \in Shorts
                          /\ pc[r] \in {"take", "walk", "insert"} => answer[r] # Unresolved

\* Every variable has its type; a transaction that records has a claim and an answer.
TypeOK == TypeTables /\ TypeWalk /\ TypeResolving

\* Where a link leads: the URL itself, where it leads, and so on.
Follows(S) == \A v \in S \cap Shorts : Leads[v] \in S
OnPath(s) == {u \in Urls : \A S \in SUBSET Urls : s \in S /\ Follows(S) => u \in S}

\* A walk from here meets more short URLs than MaxHops.
TooLong(s) ==
  \E trail \in [0..MaxHops -> Shorts] :
    trail[0] = s /\ \A n \in 1..MaxHops : trail[n] = Leads[trail[n - 1]]

\* A post that waits for a URL without an answer waits for one that is queued,
\* though the lookup, the two inserts and the resolver's three statements interleave.
UnresolvedIsQueued ==
  \A row \in buffered : cache[row[2]] = Unresolved => row[2] \in queue

\* No post vanishes: each link the consumer accepted is buffered somewhere on its
\* path, or was routed where it leads, or met a dead URL or too many hops.
NothingVanishes ==
  \A link \in accepted :
    \/ \E u \in OnPath(link[2]) : <<link[1], u>> \in buffered \cup routed
    \/ OnPath(link[2]) \cap failed # {}
    \/ TooLong(link[2])

\* A post is routed only where one of its links leads.
RoutedWhereItLeads ==
  \A dispatch \in routed :
    \E b \in Links : \E link \in b : link[1] = dispatch[1] /\ dispatch[2] \in OnPath(link[2])

\* Every queued short URL is resolved and leaves the queue.
QueueDrains == \A s \in Shorts : s \in queue ~> s \notin queue
-----------------------------------------------------------------------------
\* "claim short URL -> resolve via redirects -> cache -> dispatch" (resolver.py:1):
\* a post that is buffered for a short URL is dispatched or dropped in the end.
BufferedIsDispatched == \A row \in Buffering : row \in buffered ~> row \notin buffered
=============================================================================
