--------------------------- MODULE FirehoseConsumer ---------------------------
(***************************************************************************)
(* The consumer process (consumer/main.py) on the Jetstream websocket      *)
(* (consumer/jetstream.py): which posts of the firehose reach the tables.  *)
(* There is no cursor, so what is sent while nobody is connected is gone;  *)
(* a post is routed in one transaction, and an exception ends the process, *)
(* which docker-compose restarts.  What a link then does to the tables is  *)
(* HostTriage's and Shorteners' business: here it is logged.               *)
(***************************************************************************)
EXTENDS PostLinks, FiniteSets

CONSTANTS
  Messages,         \* what Jetstream may send
  Collections,      \* settings.jetstream_collections
  MaxMessages,      \* bound: messages of the firehose
  MaxFaults         \* bound: failed connects, exceptions, killed processes

ASSUME BoundTypes == MaxMessages \in Nat /\ MaxFaults \in Nat
\* iter_urls yields one URI after the other, and a host is a sequence of labels.
ASSUME MessageTypes ==
  \A m \in Messages : m.walks =>
    /\ IterUrls(m.record) \in Seq(ToSet(IterUrls(m.record)))
    /\ \A uri \in ToSet(IterUrls(m.record)) : uri.host \in Seq(ToSet(uri.host))

VARIABLES
  feed,             \* the firehose so far
  open, clean,      \* the connection is up; how the last one was closed
  wire,             \* positions in feed sent and not read yet
  pc, exit,         \* the process, and its exit status when it is over
  cur, todo, txn,   \* position in hand, URIs left, links routed and not committed
  log,              \* committed transactions that routed something: [post, links]
  gone,             \* history: positions that did not reach the tables
  faults

socket == <<open, clean, wire>>
txnVars == <<cur, todo, txn>>
vars == <<feed, socket, pc, exit, txnVars, log, gone, faults>>

Positions == 1 .. MaxMessages
InHand == IF pc = "routing" THEN {cur} ELSE {}
-----------------------------------------------------------------------------
(* Jetstream. *)

\* Something happens on the network; who is not connected does not hear of it.
Emit(m) ==
  /\ Len(feed) < MaxMessages
  /\ feed' = Append(feed, m)
  /\ IF open THEN wire' = Append(wire, Len(feed) + 1) /\ UNCHANGED gone
     ELSE gone' = gone \cup {Len(feed) + 1} /\ UNCHANGED wire
  /\ UNCHANGED <<open, clean, pc, exit, txnVars, log, faults>>

\* The connection ends with or without a close handshake; what was under way may
\* arrive or not.
Close ==
  /\ open
  /\ open' = FALSE
  /\ clean' \in BOOLEAN
  /\ \E n \in 0 .. Len(wire) :
       /\ wire' = SubSeq(wire, 1, n)
       /\ gone' = gone \cup ToSet(SubSeq(wire, n + 1, Len(wire)))
  /\ UNCHANGED <<feed, pc, exit, txnVars, log, faults>>
-----------------------------------------------------------------------------
(* stream_post_commits: an attempt connects and yields; an attempt that    *)
(* raises is followed by another after a wait, one that returns is the     *)
(* last.                                                                   *)

\* Mutant: the subscription resumes one message back.
ConnectWithCursor ==
  /\ pc = "connecting"
  /\ open' = TRUE /\ pc' = "reading"
  /\ wire' = IF feed = <<>> THEN <<>> ELSE <<Len(feed)>>
  /\ gone' = gone \ ToSet(wire')
  /\ UNCHANGED <<feed, clean, exit, txnVars, log, faults>>

Connect ==
  /\ pc = "connecting"
  /\ open' = TRUE /\ wire' = <<>>
  /\ pc' = "reading"
  /\ UNCHANGED <<feed, clean, exit, txnVars, log, gone, faults>>

ConnectFails ==
  /\ pc = "connecting" /\ faults > 0
  /\ faults' = faults - 1
  /\ pc' = "waiting"
  /\ UNCHANGED <<feed, socket, exit, txnVars, log, gone>>

\* Between 2 and 60 seconds.
WaitIsOver ==
  /\ pc = "waiting"
  /\ pc' = "connecting"
  /\ UNCHANGED <<feed, socket, exit, txnVars, log, gone, faults>>

\* ConnectionClosedError is retried; after a clean close the generator ends, and
\* main() and the process with it.
StreamEnds ==
  /\ pc = "reading" /\ ~open /\ wire = <<>>
  /\ pc' = IF clean THEN "over" ELSE "waiting"
  /\ exit' = "success"
  /\ UNCHANGED <<feed, socket, txnVars, log, gone, faults>>

\* What the generator passes on: created records of the wanted collections.
Yields(m) ==
  m.json /\ m.kind = "commit" /\ m.operation = "create" /\ m.collection \in Collections
-----------------------------------------------------------------------------
(* main(). *)

\* No cid, no rkey or no URL: continue.
Routable(m) == Yields(m) /\ m.named /\ (m.walks => IterUrls(m.record) # <<>>)

Skip ==
  /\ pc = "reading" /\ wire # <<>> /\ ~Routable(feed[Head(wire)])
  /\ wire' = Tail(wire)
  /\ UNCHANGED <<feed, open, clean, pc, exit, txnVars, log, gone, faults>>

\* session.begin() for the URLs of the next post.
Read ==
  /\ pc = "reading" /\ wire # <<>>
  /\ Routable(feed[Head(wire)]) /\ feed[Head(wire)].walks
  /\ cur' = Head(wire) /\ wire' = Tail(wire)
  /\ todo' = IterUrls(feed[Head(wire)].record)
  /\ pc' = "routing"
  /\ UNCHANGED <<feed, open, clean, exit, txn, log, gone, faults>>

Logged(links) == IF links = <<>> THEN log ELSE Append(log, [post |-> cur, links |-> links])

\* Mutant: every URL has a transaction of its own.
RouteUrlCommits ==
  /\ pc = "routing" /\ todo # <<>>
  /\ todo' = Tail(todo)
  /\ LET norm == Normalize(Head(todo))
     IN log' = IF norm = Unusable THEN log ELSE Logged(<<norm>>)
  /\ UNCHANGED <<feed, socket, pc, exit, cur, txn, gone, faults>>

\* normalize, then route_url in the open transaction.
RouteUrl ==
  /\ pc = "routing" /\ todo # <<>>
  /\ todo' = Tail(todo)
  /\ LET norm == Normalize(Head(todo))
     IN txn' = IF norm = Unusable THEN txn ELSE Append(txn, norm)
  /\ UNCHANGED <<feed, socket, pc, exit, cur, log, gone, faults>>

Commit ==
  /\ pc = "routing" /\ todo = <<>>
  /\ log' = Logged(txn)
  /\ cur' = 0 /\ txn' = <<>>
  /\ pc' = "reading"
  /\ UNCHANGED <<feed, socket, exit, todo, gone, faults>>

\* Mutant: the socket outlives main().
DieLeavesSocket(lost) ==
  /\ pc' = "over" /\ exit' = "failure"
  /\ gone' = gone \cup lost
  /\ cur' = 0 /\ todo' = <<>> /\ txn' = <<>>
  /\ UNCHANGED <<feed, socket, log>>

\* The process is over and its connection with it.
Die(lost) ==
  /\ pc' = "over" /\ exit' = "failure"
  /\ open' = FALSE /\ wire' = <<>>
  /\ gone' = gone \cup ToSet(wire) \cup lost
  /\ cur' = 0 /\ todo' = <<>> /\ txn' = <<>>
  /\ UNCHANGED <<feed, clean, log>>

\* iter_urls raises on a record of a shape it does not expect.
Choke ==
  /\ pc = "reading" /\ wire # <<>>
  /\ Routable(feed[Head(wire)]) /\ ~feed[Head(wire)].walks
  /\ Die({}) /\ UNCHANGED faults

\* An exception from the database, or the process is killed.
Crash ==
  /\ pc # "over" /\ faults > 0
  /\ faults' = faults - 1
  /\ Die(InHand)

\* Mutant: restart: on-failure.
RestartOnFailure ==
  /\ pc = "over"
  /\ pc' = IF exit = "failure" THEN "connecting" ELSE "over"
  /\ UNCHANGED <<feed, socket, exit, txnVars, log, gone, faults>>

\* restart: unless-stopped.
Restart ==
  /\ pc = "over"
  /\ pc' = "connecting"
  /\ UNCHANGED <<feed, socket, exit, txnVars, log, gone, faults>>
-----------------------------------------------------------------------------
Init ==
  /\ feed = <<>> /\ open = FALSE /\ clean = FALSE /\ wire = <<>>
  /\ pc = "connecting" /\ exit = "success"
  /\ cur = 0 /\ todo = <<>> /\ txn = <<>>
  /\ log = <<>> /\ gone = {} /\ faults = MaxFaults

Process ==
  \/ Connect \/ WaitIsOver \/ StreamEnds \/ Skip \/ Read \/ RouteUrl \/ Commit \/ Choke

Next ==
  \/ \E m \in Messages : Emit(m)
  \/ Close \/ Process \/ ConnectFails \/ Crash \/ Restart

Spec == Init /\ [][Next]_vars

\* The process runs, and the container engine restarts it.
FairSpec == Spec /\ WF_vars(Process) /\ WF_vars(Restart)

\* The process alone: nobody restarts it.
ProcessSpec == Spec /\ WF_vars(Process)
-----------------------------------------------------------------------------
\* Every variable has its type; a position is on the wire, in hand or gone, not two
\* of these, and the wire is in order.
TypeOK ==
  /\ feed \in Seq(Messages) /\ Len(feed) <= MaxMessages
  /\ open \in BOOLEAN /\ clean \in BOOLEAN /\ exit \in {"success", "failure"}
  /\ pc \in {"connecting", "waiting", "reading", "routing", "over"}
  /\ wire \in Seq(1 .. Len(feed)) /\ \A i, j \in DOMAIN wire : i < j => wire[i] < wire[j]
  /\ cur \in 0 .. Len(feed) /\ (cur # 0 <=> pc = "routing")
  /\ open => pc \in {"reading", "routing"}
  /\ gone \subseteq 1 .. Len(feed) /\ gone \cap (ToSet(wire) \cup InHand) = {}
  /\ faults \in Nat

\* The positions of a message's usable links in its record, and what a sequence of
\* normalised links must be to have just those of them at ks, in the record's order.
Usable(m) ==
  IF Routable(m) /\ m.walks
  THEN {k \in DOMAIN IterUrls(m.record) : Normalize(IterUrls(m.record)[k]) # Unusable}
  ELSE {}

HasLinksAt(links, m, ks) ==
  \E nth \in [DOMAIN links -> ks] :
    /\ \A i, j \in DOMAIN links : i < j => nth[i] < nth[j]
    /\ \A k \in ks : \E i \in DOMAIN links : nth[i] = k
    /\ \A i \in DOMAIN links : links[i] = Normalize(IterUrls(m.record)[nth[i]])

\* Every post is routed whole, exactly once, or not at all; and not at all only if
\* it was sent while nobody was connected, was still unread when a connection or
\* the process ended, or its own transaction failed.
RoutedWholeOrGone ==
  \A i \in DOMAIN feed :
    LET entries == {k \in DOMAIN log : log[k].post = i} IN
    IF i \in gone \cup ToSet(wire) \cup InHand \/ Usable(feed[i]) = {}
    THEN entries = {}
    ELSE \E k \in entries : entries = {k} /\ HasLinksAt(log[k].links, feed[i], Usable(feed[i]))

\* Posts reach the tables in the order of the firehose, across reconnections and
\* restarts, and none twice.
RoutedInOrder == \A i, j \in DOMAIN log : i < j => log[i].post < log[j].post

\* Whatever the spelling of a link's host, the classifier sees a rule's domain in
\* the normalised host exactly when the folded spelling is that domain or below
\* it: "www." and capitals do not hide it (urls.py:61, domain_match.py:25).
UnderDomain(d, host) == IsSuffix(d, Lower(host))

SpellingHidesNoRule ==
  \A i \in DOMAIN feed :
    Routable(feed[i]) /\ feed[i].walks =>
      \A uri \in ToSet(IterUrls(feed[i].record)) :
        LET norm == Normalize(uri) IN
        norm # Unusable =>
          LET over == {k \in DOMAIN RULES : UnderDomain(RULES[k].domain, uri.host)} IN
          IF over = {} THEN ClassifyDomain(norm.host) = NoPlatformMatch
          ELSE ClassifyDomain(norm.host) \in {RULES[k].platform : k \in over}

\* A consumer that is not connected gets connected again, however the connection
\* or the process ended ("connection closed; exponential backoff and reconnect",
\* jetstream.py:44).
ComesBack == ~open ~> open
=============================================================================
