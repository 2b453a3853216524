------------------------ MODULE FirehoseConsumerProofs ------------------------
(***************************************************************************)
(* Proofs about FirehoseConsumer, for any messages, any firehose and any   *)
(* number of faults: the types, that posts are routed in the order of the  *)
(* firehose, that each is routed whole or not at all, and that no spelling *)
(* of a host hides it from the domain rules.                               *)
(*                                                                         *)
(* The invariant has two halves.  OrderInv places every post in the log,   *)
(* in hand or on the wire, each before the next, so that nothing is routed *)
(* twice.  WholeInv follows one transaction through the URLs of its post,  *)
(* and says that no post leaves the wire but for the log or for "gone".    *)
(***************************************************************************)
EXTENDS FirehoseConsumer, SequenceTheorems, WellFoundedInduction, TLAPS

\* A process that neither reads nor routes has read all it was sent, or lost it.
NothingUnheard == pc \in {"connecting", "waiting", "over"} => wire = <<>>

\* Posts in the log come before the post in hand, and that before those on the wire.
InFeedOrder ==
  /\ pc = "routing" => \A i \in DOMAIN wire : cur < wire[i]
  /\ \A k \in DOMAIN log :
       /\ log[k].post \in 1 .. Len(feed)
       /\ \A i \in DOMAIN wire : log[k].post < wire[i]
       /\ pc = "routing" => log[k].post < cur

LogIsSeq == log \in Seq(ToSet(log))

OrderInv == NothingUnheard /\ InFeedOrder /\ LogIsSeq /\ RoutedInOrder

\* Halfway through the URLs of m, with rest still to route: links is what m's
\* usable URLs so far have given.
IsPart(m, rest, links) ==
  LET urls == IterUrls(m.record)
      done == Len(urls) - Len(rest)
  IN /\ Routable(m) /\ m.walks
     /\ rest \in Seq(ToSet(urls)) /\ done \in 0 .. Len(urls)
     /\ \A j \in DOMAIN rest : rest[j] = urls[done + j]
     /\ links \in Seq(ToSet(links))
     /\ HasLinksAt(links, m, {k \in Usable(m) : k <= done})

TxnIsPart == IF pc = "routing" THEN IsPart(feed[cur], todo, txn) ELSE txn = <<>>

\* A post in the log has links, and all of them; what is lost is not in the log.
LogIsWhole ==
  \A k \in DOMAIN log :
    /\ log[k].post \notin gone
    /\ Usable(feed[log[k].post]) # {}
    /\ HasLinksAt(log[k].links, feed[log[k].post], Usable(feed[log[k].post]))

NoneForgotten ==
  \A i \in DOMAIN feed :
    i \notin gone \cup ToSet(wire) \cup InHand /\ Usable(feed[i]) # {} =>
      \E k \in DOMAIN log : log[k].post = i

WholeInv == TxnIsPart /\ LogIsWhole /\ NoneForgotten
-----------------------------------------------------------------------------
(* Sequences. *)

LEMMA AppendToAny ==
  ASSUME NEW s, s \in Seq(ToSet(s)), NEW e
  PROVE  /\ Append(s, e) \in Seq(ToSet(Append(s, e)))
         /\ Len(s) \in Nat /\ DOMAIN s = 1 .. Len(s)
         /\ Len(Append(s, e)) = Len(s) + 1 /\ DOMAIN Append(s, e) = 1 .. Len(s) + 1
         /\ \A i \in 1 .. Len(s) : Append(s, e)[i] = s[i]
         /\ Append(s, e)[Len(s) + 1] = e
<1>1. s \in Seq(ToSet(s) \cup {e})
  BY SeqMonotonic
<1>2. /\ Append(s, e) \in Seq(ToSet(s) \cup {e})
      /\ Len(Append(s, e)) = Len(s) + 1
      /\ \A i \in 1 .. Len(s) : Append(s, e)[i] = s[i]
      /\ Append(s, e)[Len(s) + 1] = e
  BY <1>1, AppendProperties
<1>3. Len(s) \in Nat /\ DOMAIN s = 1 .. Len(s)
  BY LenProperties
<1>4. DOMAIN Append(s, e) = 1 .. Len(s) + 1
  BY <1>2, LenProperties
<1>5. ToSet(s) \cup {e} \subseteq ToSet(Append(s, e))
  <2>1. \A i \in DOMAIN s : s[i] \in ToSet(Append(s, e))
    BY <1>2, <1>3, <1>4 DEF ToSet
  <2>2. e \in ToSet(Append(s, e))
    BY <1>2, <1>3, <1>4 DEF ToSet
  <2> QED
    BY <2>1, <2>2 DEF ToSet
<1> QED
  BY <1>2, <1>3, <1>4, <1>5, SeqMonotonic

\* What the process reads next, and what stays on the wire.
LEMMA WireIsRead ==
  ASSUME TypeOK, wire # <<>>
  PROVE  /\ Head(wire) = wire[1] /\ Head(wire) \in 1 .. Len(feed) /\ Head(wire) \in ToSet(wire)
         /\ Tail(wire) \in Seq(1 .. Len(feed))
         /\ \A i \in DOMAIN Tail(wire) :
              i \in Nat /\ i + 1 \in DOMAIN wire /\ Tail(wire)[i] = wire[i + 1] /\ wire[1] < wire[i + 1]
         /\ ToSet(wire) = {Head(wire)} \cup ToSet(Tail(wire))
<1>1. wire \in Seq(1 .. Len(feed)) /\ Len(wire) \in Nat \ {0} /\ DOMAIN wire = 1 .. Len(wire)
  BY EmptySeq, LenProperties DEF TypeOK
<1>2. Head(wire) = wire[1] /\ 1 \in DOMAIN wire
  BY <1>1
<1>3. /\ Tail(wire) \in Seq(1 .. Len(feed)) /\ Len(Tail(wire)) = Len(wire) - 1
      /\ \A i \in 1 .. Len(Tail(wire)) : Tail(wire)[i] = wire[i + 1]
  BY <1>1, HeadTailProperties
<1>4. DOMAIN Tail(wire) = 1 .. Len(wire) - 1
  BY <1>3, LenProperties
<1>5. ASSUME NEW i \in DOMAIN Tail(wire)
      PROVE  i \in Nat /\ i + 1 \in DOMAIN wire /\ Tail(wire)[i] = wire[i + 1] /\ wire[1] < wire[i + 1]
  <2>1. i \in Nat /\ 1 < i + 1 /\ i + 1 \in DOMAIN wire /\ Tail(wire)[i] = wire[i + 1]
    BY <1>1, <1>3, <1>4
  <2> QED
    BY <1>2, <2>1 DEF TypeOK
<1>6. ToSet(wire) = {Head(wire)} \cup ToSet(Tail(wire))
  <2>1. \A i \in DOMAIN wire : i # 1 => wire[i] \in ToSet(Tail(wire))
    <3> SUFFICES ASSUME NEW i \in DOMAIN wire, i # 1 PROVE wire[i] \in ToSet(Tail(wire))
      OBVIOUS
    <3>1. i - 1 \in DOMAIN Tail(wire) /\ Tail(wire)[i - 1] = wire[i]
      BY <1>1, <1>3, <1>4
    <3> QED
      BY <3>1 DEF ToSet
  <2> QED
    BY <1>2, <1>5, <2>1 DEF ToSet
<1> QED
  BY <1>1, <1>2, <1>3, <1>5, <1>6, ElementOfSeq DEF ToSet

\* A sequence cut in two, as a connection that closes cuts the wire.
LEMMA SeqIsCut ==
  ASSUME NEW S, NEW s \in Seq(S), NEW n \in Nat, NEW l \in Nat, l = Len(s), n <= l
  PROVE  /\ SubSeq(s, 1, n) \in Seq(S)
         /\ DOMAIN SubSeq(s, 1, n) = 1 .. n /\ DOMAIN s = 1 .. l
         /\ \A i \in 1 .. n : SubSeq(s, 1, n)[i] = s[i]
         /\ ToSet(SubSeq(s, n + 1, l)) = {s[i] : i \in n + 1 .. l}
<1>1. DOMAIN s = 1 .. l /\ \A i \in 1 .. l : s[i] \in S
  BY LenProperties, ElementOfSeq
<1>2. /\ SubSeq(s, 1, n) \in Seq(S) /\ Len(SubSeq(s, 1, n)) = n
      /\ \A i \in 1 .. n : SubSeq(s, 1, n)[i] = s[i]
  BY <1>1, SubSeqProperties
<1>3. DOMAIN SubSeq(s, 1, n) = 1 .. n
  BY <1>2, LenProperties
<1> DEFINE rest == SubSeq(s, n + 1, l)
<1>4. /\ rest \in Seq(S)
      /\ Len(rest) = IF n + 1 <= l THEN l - (n + 1) + 1 ELSE 0
      /\ \A i \in 1 .. l - (n + 1) + 1 : rest[i] = s[n + 1 + i - 1]
  BY <1>1, SubSeqProperties
<1> HIDE DEF rest
<1>5. DOMAIN rest = 1 .. l - n
  <2>1. Len(rest) = l - n
    BY <1>4
  <2> QED
    BY <1>4, <2>1, LenProperties
<1>6. ASSUME NEW i \in 1 .. l - n PROVE n + i \in n + 1 .. l /\ rest[i] = s[n + i]
  <2>1. i \in 1 .. l - (n + 1) + 1 /\ n + 1 + i - 1 = n + i /\ n + i \in n + 1 .. l
    OBVIOUS
  <2> QED
    BY <1>4, <2>1
<1>7. ASSUME NEW i \in n + 1 .. l PROVE i - n \in 1 .. l - n /\ rest[i - n] = s[i]
  <2>1. i - n \in 1 .. l - n /\ n + (i - n) = i
    OBVIOUS
  <2> QED
    BY <1>6, <2>1
<1>8. ToSet(rest) = {s[i] : i \in n + 1 .. l}
  <2>1. ToSet(rest) = {rest[i] : i \in 1 .. l - n}
    BY <1>5 DEF ToSet
  <2>2. \A i \in 1 .. l - n : rest[i] \in {s[j] : j \in n + 1 .. l}
    BY <1>6
  <2>3. \A j \in n + 1 .. l : s[j] \in {rest[i] : i \in 1 .. l - n}
    BY <1>7
  <2> QED
    BY <2>1, <2>2, <2>3
<1> QED
  BY <1>1, <1>2, <1>3, <1>8 DEF rest

LEMMA WireIsCut ==
  ASSUME TypeOK, NEW n \in 0 .. Len(wire)
  PROVE  /\ SubSeq(wire, 1, n) \in Seq(1 .. Len(feed))
         /\ DOMAIN SubSeq(wire, 1, n) \subseteq DOMAIN wire
         /\ \A i \in DOMAIN SubSeq(wire, 1, n) : SubSeq(wire, 1, n)[i] = wire[i]
         /\ \A x \in ToSet(SubSeq(wire, n + 1, Len(wire))) : \E j \in DOMAIN wire :
              x = wire[j] /\ \A i \in DOMAIN SubSeq(wire, 1, n) : i < j
         /\ ToSet(wire) = ToSet(SubSeq(wire, 1, n)) \cup ToSet(SubSeq(wire, n + 1, Len(wire)))
<1>1. wire \in Seq(1 .. Len(feed)) /\ Len(wire) \in Nat /\ n \in Nat /\ n <= Len(wire)
  BY LenProperties DEF TypeOK
<1>2. /\ SubSeq(wire, 1, n) \in Seq(1 .. Len(feed))
      /\ DOMAIN SubSeq(wire, 1, n) = 1 .. n /\ DOMAIN wire = 1 .. Len(wire)
      /\ \A i \in 1 .. n : SubSeq(wire, 1, n)[i] = wire[i]
      /\ ToSet(SubSeq(wire, n + 1, Len(wire))) = {wire[i] : i \in n + 1 .. Len(wire)}
  <2> DEFINE S == 1 .. Len(feed)
             l == Len(wire)
  <2>1. wire \in Seq(S) /\ l \in Nat /\ l = Len(wire) /\ n \in Nat /\ n <= l
    BY <1>1
  <2> HIDE DEF S, l
  <2>2. SubSeq(wire, 1, n) \in Seq(S)
    BY <2>1, SeqIsCut
  <2>3. DOMAIN SubSeq(wire, 1, n) = 1 .. n /\ DOMAIN wire = 1 .. l
    BY <2>1, SeqIsCut
  <2>4. \A i \in 1 .. n : SubSeq(wire, 1, n)[i] = wire[i]
    BY <2>1, SeqIsCut
  <2>5. ToSet(SubSeq(wire, n + 1, l)) = {wire[i] : i \in n + 1 .. l}
    BY <2>1, SeqIsCut
  <2> QED
    BY <2>2, <2>3, <2>4, <2>5 DEF S, l
<1>3. /\ 1 .. n \subseteq 1 .. Len(wire)
      /\ \A j \in n + 1 .. Len(wire) : j \in 1 .. Len(wire) /\ \A i \in 1 .. n : i < j
      /\ \A j \in 1 .. Len(wire) : j \in 1 .. n \/ j \in n + 1 .. Len(wire)
  BY <1>1
<1>4. ToSet(SubSeq(wire, 1, n)) = {wire[i] : i \in 1 .. n}
  BY <1>2 DEF ToSet
<1>5. ToSet(wire) = {wire[i] : i \in 1 .. Len(wire)}
  BY <1>2 DEF ToSet
<1> QED
  BY <1>2, <1>3, <1>4, <1>5

LEMMA WireGrows ==
  ASSUME TypeOK
  PROVE  LET sent == Append(wire, Len(feed) + 1) IN
         /\ Len(feed) \in Nat /\ Len(wire) \in Nat
         /\ sent \in Seq(1 .. Len(feed) + 1)
         /\ DOMAIN sent = DOMAIN wire \cup {Len(wire) + 1}
         /\ \A i \in DOMAIN wire :
              i \in Nat /\ i < Len(wire) + 1 /\ sent[i] = wire[i] /\ wire[i] \in 1 .. Len(feed)
         /\ sent[Len(wire) + 1] = Len(feed) + 1
         /\ ToSet(sent) = ToSet(wire) \cup {Len(feed) + 1}
<1> DEFINE sent == Append(wire, Len(feed) + 1)
<1>1. /\ Len(feed) \in Nat /\ wire \in Seq(1 .. Len(feed)) /\ Len(wire) \in Nat
      /\ DOMAIN wire = 1 .. Len(wire)
  BY LenProperties DEF TypeOK
<1>2. \A i \in DOMAIN wire : i \in Nat /\ i < Len(wire) + 1 /\ wire[i] \in 1 .. Len(feed)
  BY <1>1, ElementOfSeq
<1>3. wire \in Seq(1 .. Len(feed) + 1) /\ Len(feed) + 1 \in 1 .. Len(feed) + 1
  <2>1. 1 .. Len(feed) \subseteq 1 .. Len(feed) + 1
    BY <1>1
  <2> QED
    BY <1>1, <2>1, SeqMonotonic
<1>4. /\ sent \in Seq(1 .. Len(feed) + 1) /\ Len(sent) = Len(wire) + 1
      /\ \A i \in 1 .. Len(wire) : sent[i] = wire[i]
      /\ sent[Len(wire) + 1] = Len(feed) + 1
  BY <1>3, AppendProperties
<1>5. DOMAIN sent = 1 .. Len(wire) + 1
  BY <1>4, LenProperties
<1> HIDE DEF sent
<1>6. DOMAIN sent = DOMAIN wire \cup {Len(wire) + 1}
  BY <1>1, <1>5
<1>7. ToSet(sent) = ToSet(wire) \cup {Len(feed) + 1}
  BY <1>1, <1>4, <1>6 DEF ToSet
<1> QED
  BY <1>1, <1>2, <1>4, <1>6, <1>7 DEF sent
-----------------------------------------------------------------------------
(* Types and order. *)

LEMMA OrderAtInit ==
  ASSUME Init PROVE TypeOK /\ OrderInv
<1>1. feed \in Seq(Messages) /\ wire \in Seq(1 .. Len(feed)) /\ log \in Seq(ToSet(log)) /\ Len(feed) = 0
  BY EmptySeq DEF Init
<1>2. DOMAIN wire = {} /\ DOMAIN log = {}
  BY DEF Init
<1>3. TypeOK
  <2>1. /\ feed \in Seq(Messages) /\ Len(feed) <= MaxMessages
        /\ cur \in 0 .. Len(feed) /\ (cur # 0 <=> pc = "routing")
        /\ gone \subseteq 1 .. Len(feed) /\ gone \cap (ToSet(wire) \cup InHand) = {}
        /\ faults \in Nat
    BY <1>1, BoundTypes DEF Init
  <2>2. /\ open \in BOOLEAN /\ clean \in BOOLEAN /\ (open => pc \in {"reading", "routing"})
        /\ exit \in {"success", "failure"}
        /\ pc \in {"connecting", "waiting", "reading", "routing", "over"}
    BY DEF Init
  <2> QED
    BY <1>1, <1>2, <2>1, <2>2 DEF TypeOK
<1> QED
  BY <1>1, <1>2, <1>3 DEF Init, OrderInv, NothingUnheard, InFeedOrder, LogIsSeq, RoutedInOrder

LEMMA EmitKeepsOrder ==
  ASSUME TypeOK, OrderInv, NEW m \in Messages, Emit(m)
  PROVE  TypeOK' /\ OrderInv'
<1> USE DEF Emit, txnVars
<1>1. /\ feed' \in Seq(Messages) /\ Len(feed') = Len(feed) + 1 /\ Len(feed) \in Nat
      /\ Len(feed') <= MaxMessages
  BY AppendProperties, LenProperties, BoundTypes DEF TypeOK
<1>2. 1 .. Len(feed) \subseteq 1 .. Len(feed')
  BY <1>1
<1>3. \A x \in ToSet(wire) \cup InHand \cup gone : x \in 0 .. Len(feed)
  <2>1. \A x \in ToSet(wire) : x \in 1 .. Len(feed)
    BY WireGrows DEF ToSet
  <2>2. \A x \in InHand \cup gone : x \in 0 .. Len(feed)
    BY <1>1 DEF TypeOK, InHand
  <2> QED
    BY <1>1, <2>1, <2>2
<1>4. CASE open
  <2>1. wire' = Append(wire, Len(feed) + 1) /\ gone' = gone
    BY <1>4
  <2>2. wire' \in Seq(1 .. Len(feed'))
    BY <1>1, <2>1, WireGrows
  <2>3. \A i, j \in DOMAIN wire' : i < j => wire'[i] < wire'[j]
    BY <1>1, <2>1, WireGrows DEF TypeOK
  <2>4. gone' \cap (ToSet(wire') \cup InHand') = {}
    BY <1>1, <1>3, <2>1, WireGrows DEF TypeOK, InHand
  <2>5. TypeOK'
    BY <1>1, <1>2, <2>1, <2>2, <2>3, <2>4 DEF TypeOK
  <2>6. NothingUnheard'
    BY <1>4 DEF TypeOK, NothingUnheard
  <2>7. InFeedOrder'
    <3>1. pc' = "routing" => \A i \in DOMAIN wire' : cur' < wire'[i]
      BY <1>1, <2>1, WireGrows DEF TypeOK, OrderInv, InFeedOrder
    <3>2. ASSUME NEW k \in DOMAIN log
          PROVE  /\ log[k].post \in 1 .. Len(feed')
                 /\ \A i \in DOMAIN wire' : log[k].post < wire'[i]
                 /\ pc = "routing" => log[k].post < cur
      <4>1. /\ log[k].post \in 1 .. Len(feed)
            /\ \A i \in DOMAIN wire : log[k].post < wire[i]
            /\ pc = "routing" => log[k].post < cur
        BY DEF OrderInv, InFeedOrder
      <4>2. \A i \in DOMAIN wire' : log[k].post < wire'[i]
        BY <1>1, <2>1, <4>1, WireGrows
      <4> QED
        BY <1>2, <4>1, <4>2
    <3> QED
      BY <3>1, <3>2 DEF InFeedOrder
  <2> QED
    BY <2>5, <2>6, <2>7 DEF OrderInv, LogIsSeq, RoutedInOrder
<1>5. CASE ~open
  <2>1. wire' = wire /\ gone' = gone \cup {Len(feed) + 1}
    BY <1>5
  <2>2. wire' \in Seq(1 .. Len(feed'))
    BY <1>2, <2>1, SeqMonotonic DEF TypeOK
  <2>3. gone' \cap (ToSet(wire') \cup InHand') = {}
    BY <1>1, <1>3, <2>1 DEF TypeOK, InHand
  <2>4. TypeOK'
    <3>1. gone' \subseteq 1 .. Len(feed')
      <4>1. Len(feed) + 1 \in 1 .. Len(feed')
        BY <1>1
      <4> QED
        BY <1>2, <2>1, <4>1 DEF TypeOK
    <3>2. cur' \in 0 .. Len(feed')
      BY <1>1 DEF TypeOK
    <3> QED
      BY <1>1, <2>1, <2>2, <2>3, <3>1, <3>2 DEF TypeOK
  <2>5. NothingUnheard' /\ InFeedOrder'
    BY <1>2, <2>1 DEF OrderInv, NothingUnheard, InFeedOrder
  <2> QED
    BY <2>4, <2>5 DEF OrderInv, LogIsSeq, RoutedInOrder
<1> QED
  BY <1>4, <1>5

LEMMA CloseKeepsOrder ==
  ASSUME TypeOK, OrderInv, Close
  PROVE  TypeOK' /\ OrderInv'
<1> USE DEF txnVars
<1>1. PICK n \in 0 .. Len(wire) :
        /\ wire' = SubSeq(wire, 1, n)
        /\ gone' = gone \cup ToSet(SubSeq(wire, n + 1, Len(wire)))
  BY DEF Close
<1>2. /\ wire' \in Seq(1 .. Len(feed)) /\ DOMAIN wire' \subseteq DOMAIN wire
      /\ \A i \in DOMAIN wire' : wire'[i] = wire[i]
      /\ \A x \in gone' : x \in gone \/ \E j \in DOMAIN wire :
              x = wire[j] /\ \A i \in DOMAIN wire' : i < j
  BY <1>1, WireIsCut
<1>3. \A i \in DOMAIN wire : i \in Nat /\ wire[i] \in 1 .. Len(feed)
  BY WireGrows
<1>4. gone' \subseteq 1 .. Len(feed)
  BY <1>2, <1>3 DEF TypeOK
<1>5. gone' \cap (ToSet(wire') \cup InHand') = {}
  <2> SUFFICES ASSUME NEW x \in gone', x \in ToSet(wire') \cup InHand PROVE FALSE
    BY DEF Close, InHand
  <2>1. ToSet(wire') \subseteq ToSet(wire)
    BY <1>2 DEF ToSet
  <2>2. PICK j \in DOMAIN wire : x = wire[j] /\ \A i \in DOMAIN wire' : i < j
    BY <1>2, <2>1 DEF TypeOK
  <2>3. CASE x \in ToSet(wire')
    <3>1. PICK i \in DOMAIN wire' : x = wire'[i]
      BY <2>3 DEF ToSet
    <3>2. i \in DOMAIN wire /\ i < j /\ wire[i] = wire[j]
      BY <1>2, <2>2, <3>1
    <3> QED
      BY <1>3, <3>2 DEF TypeOK
  <2>4. CASE x \in InHand
    BY <1>3, <2>2, <2>4 DEF InHand, OrderInv, InFeedOrder, TypeOK
  <2> QED
    BY <2>3, <2>4
<1>6. TypeOK'
  <2>1. \A i, j \in DOMAIN wire' : i < j => wire'[i] < wire'[j]
    BY <1>2 DEF TypeOK
  <2> QED
    BY <1>2, <1>4, <1>5, <2>1 DEF TypeOK, Close
<1>7. NothingUnheard' /\ InFeedOrder'
  <2>1. wire = <<>> => wire' = <<>>
    <3> SUFFICES ASSUME wire = <<>> PROVE wire' = <<>>
      OBVIOUS
    <3>1. DOMAIN wire' = {}
      BY <1>2
    <3> QED
      BY <1>2, <3>1, EmptySeq, LenProperties
  <2> QED
    BY <1>2, <2>1 DEF OrderInv, NothingUnheard, InFeedOrder, Close
<1> QED
  BY <1>6, <1>7 DEF OrderInv, LogIsSeq, RoutedInOrder, Close

\* Nothing is on the wire any more: Connect, Choke and Crash.
LEMMA EmptyWireKeepsOrder ==
  ASSUME TypeOK, OrderInv, Connect \/ Choke \/ Crash
  PROVE  TypeOK' /\ OrderInv'
<1>1. wire' = <<>> /\ wire' \in Seq(1 .. Len(feed)) /\ DOMAIN wire' = {} /\ ToSet(wire') = {}
  <2>1. wire' = <<>>
    BY DEF Connect, Choke, Crash, Die
  <2>2. wire' \in Seq(1 .. Len(feed)) /\ DOMAIN wire' = {}
    BY <2>1, EmptySeq
  <2> QED
    BY <2>1, <2>2 DEF ToSet
<1>2. feed' = feed /\ log' = log /\ faults' \in Nat /\ clean' = clean
  BY DEF Connect, Choke, Crash, Die, TypeOK
<1>3. gone' \subseteq 1 .. Len(feed) /\ gone' \cap InHand' = {}
  <2>1. ToSet(wire) \subseteq 1 .. Len(feed) /\ InHand \subseteq 1 .. Len(feed)
    <3>1. ToSet(wire) \subseteq 1 .. Len(feed)
      BY WireGrows DEF ToSet
    <3>2. InHand \subseteq 1 .. Len(feed)
      BY WireGrows DEF InHand, TypeOK
    <3> QED
      BY <3>1, <3>2
  <2>2. InHand' = {}
    BY DEF Connect, Choke, Crash, Die, InHand
  <2> QED
    BY <2>1, <2>2 DEF Connect, Choke, Crash, Die, TypeOK
<1>4. /\ open' \in BOOLEAN /\ (open' => pc' \in {"reading", "routing"})
      /\ exit' \in {"success", "failure"} /\ pc' \in {"connecting", "waiting", "reading", "routing", "over"}
  BY DEF Connect, Choke, Crash, Die, TypeOK
<1>5. cur' = 0 /\ pc' # "routing"
  BY DEF Connect, Choke, Crash, Die, TypeOK, txnVars
<1>6. TypeOK'
  <2>1. cur' \in 0 .. Len(feed)
    BY <1>5, WireGrows
  <2> QED
    BY <1>1, <1>2, <1>3, <1>4, <1>5, <2>1 DEF TypeOK
<1> QED
  BY <1>1, <1>2, <1>5, <1>6 DEF OrderInv, NothingUnheard, InFeedOrder, LogIsSeq, RoutedInOrder

LEMMA WaitingKeepsOrder ==
  ASSUME TypeOK, OrderInv, ConnectFails \/ WaitIsOver \/ StreamEnds \/ Restart
  PROVE  TypeOK' /\ OrderInv'
<1>1. /\ feed' = feed /\ open' = open /\ clean' = clean /\ wire' = wire /\ cur' = cur
      /\ log' = log /\ gone' = gone
  BY DEF ConnectFails, WaitIsOver, StreamEnds, Restart, socket, txnVars
<1>2. /\ pc \in {"connecting", "waiting", "reading", "over"} /\ pc' \in {"connecting", "waiting", "over"}
      /\ (open => pc = "reading") /\ (pc = "reading" => ~open /\ wire = <<>>)
      /\ exit' \in {"success", "failure"} /\ faults' \in Nat
  BY DEF ConnectFails, WaitIsOver, StreamEnds, Restart, TypeOK
<1>3. TypeOK'
  BY <1>1, <1>2 DEF TypeOK, InHand
<1>4. NothingUnheard'
  BY <1>1, <1>2 DEF OrderInv, NothingUnheard
<1>5. InFeedOrder'
  BY <1>1, <1>2 DEF OrderInv, InFeedOrder
<1> QED
  BY <1>1, <1>3, <1>4, <1>5 DEF OrderInv, LogIsSeq, RoutedInOrder

\* The head of the wire is skipped, or taken in hand.
LEMMA ReadingKeepsOrder ==
  ASSUME TypeOK, OrderInv, Skip \/ Read
  PROVE  TypeOK' /\ OrderInv'
<1>1. /\ wire # <<>> /\ wire' = Tail(wire) /\ feed' = feed /\ open' = open /\ clean' = clean
      /\ exit' = exit /\ log' = log /\ gone' = gone /\ faults' = faults
      /\ pc = "reading" /\ pc' \in {"reading", "routing"}
      /\ (pc' = "routing" => cur' = Head(wire)) /\ (pc' = "reading" => cur' = 0)
  BY DEF Skip, Read, txnVars, TypeOK
<1>2. /\ Head(wire) = wire[1] /\ Head(wire) \in 1 .. Len(feed) /\ Head(wire) \in ToSet(wire)
      /\ wire' \in Seq(1 .. Len(feed)) /\ 1 \in DOMAIN wire
      /\ \A i \in DOMAIN wire' :
           i \in Nat /\ i + 1 \in DOMAIN wire /\ wire'[i] = wire[i + 1] /\ wire[1] < wire[i + 1]
      /\ ToSet(wire') \subseteq ToSet(wire)
  <2>1. 1 \in DOMAIN wire
    BY <1>1, EmptySeq, LenProperties DEF TypeOK
  <2> QED
    BY <1>1, <2>1, WireIsRead
<1>3. TypeOK'
  <2>1. \A i, j \in DOMAIN wire' : i < j => wire'[i] < wire'[j]
    BY <1>2 DEF TypeOK
  <2>2. cur' \in 0 .. Len(feed) /\ (cur' # 0 <=> pc' = "routing")
    BY <1>1, <1>2, WireGrows
  <2>3. gone' \cap (ToSet(wire') \cup InHand') = {}
    BY <1>1, <1>2 DEF TypeOK, InHand
  <2> QED
    BY <1>1, <1>2, <2>1, <2>2, <2>3 DEF TypeOK
<1>4. NothingUnheard'
  BY <1>1 DEF NothingUnheard
<1>5. InFeedOrder'
  <2>1. pc' = "routing" => \A i \in DOMAIN wire' : cur' < wire'[i]
    BY <1>1, <1>2
  <2>2. ASSUME NEW k \in DOMAIN log
        PROVE  /\ log[k].post \in 1 .. Len(feed)
               /\ \A i \in DOMAIN wire' : log[k].post < wire'[i]
               /\ pc' = "routing" => log[k].post < cur'
    <3>1. log[k].post \in 1 .. Len(feed) /\ \A i \in DOMAIN wire : log[k].post < wire[i]
      BY DEF OrderInv, InFeedOrder
    <3> QED
      BY <1>1, <1>2, <3>1
  <2> QED
    BY <1>1, <2>1, <2>2 DEF InFeedOrder
<1> QED
  BY <1>1, <1>3, <1>4, <1>5 DEF OrderInv, LogIsSeq, RoutedInOrder

LEMMA RouteUrlKeepsOrder ==
  ASSUME TypeOK, OrderInv, RouteUrl
  PROVE  TypeOK' /\ OrderInv'
<1>1. /\ feed' = feed /\ open' = open /\ clean' = clean /\ wire' = wire /\ cur' = cur /\ pc' = pc
      /\ exit' = exit /\ log' = log /\ gone' = gone /\ faults' = faults
  BY DEF RouteUrl, socket
<1> QED
  BY <1>1 DEF TypeOK, InHand, OrderInv, NothingUnheard, InFeedOrder, LogIsSeq, RoutedInOrder

LEMMA CommitKeepsOrder ==
  ASSUME TypeOK, OrderInv, Commit
  PROVE  TypeOK' /\ OrderInv'
<1>1. /\ feed' = feed /\ open' = open /\ clean' = clean /\ wire' = wire /\ cur' = 0
      /\ exit' = exit /\ gone' = gone /\ faults' = faults /\ pc = "routing" /\ pc' = "reading"
  BY DEF Commit, socket
<1>2. TypeOK'
  <2>1. cur' \in 0 .. Len(feed)
    BY <1>1, WireGrows
  <2> QED
    BY <1>1, <2>1 DEF TypeOK, InHand
<1>3. /\ cur \in 1 .. Len(feed) /\ \A i \in DOMAIN wire : cur < wire[i]
      /\ \A k \in DOMAIN log : log[k].post < cur
  BY <1>1, WireGrows DEF OrderInv, InFeedOrder, TypeOK
<1>4. CASE log' = log
  BY <1>1, <1>2, <1>4 DEF OrderInv, NothingUnheard, InFeedOrder, LogIsSeq, RoutedInOrder
<1>5. CASE log' = Append(log, [post |-> cur, links |-> txn])
  <2> DEFINE e == [post |-> cur, links |-> txn]
  <2>1. /\ log' \in Seq(ToSet(log')) /\ Len(log) \in Nat
        /\ DOMAIN log = 1 .. Len(log) /\ DOMAIN log' = 1 .. Len(log) + 1
        /\ \A k \in 1 .. Len(log) : log'[k] = log[k]
        /\ log'[Len(log) + 1].post = cur
    <3>1. e.post = cur
      OBVIOUS
    <3> HIDE DEF e
    <3>2. log \in Seq(ToSet(log)) /\ log' = Append(log, e)
      BY <1>5 DEF e, OrderInv, LogIsSeq
    <3> QED
      BY <3>1, <3>2, AppendToAny
  <2> HIDE DEF e
  <2>2. \A k \in DOMAIN log' : (k \in DOMAIN log /\ log'[k] = log[k]) \/ k = Len(log) + 1
    BY <2>1
  <2>3. InFeedOrder'
    BY <1>1, <1>3, <2>1, <2>2 DEF OrderInv, InFeedOrder
  <2>4. RoutedInOrder'
    <3> SUFFICES ASSUME NEW i \in DOMAIN log', NEW j \in DOMAIN log', i < j
                 PROVE  log'[i].post < log'[j].post
      BY DEF RoutedInOrder
    <3>1. i \in DOMAIN log /\ log'[i] = log[i]
      BY <2>1
    <3>2. CASE j \in DOMAIN log
      BY <2>1, <3>1, <3>2 DEF OrderInv, RoutedInOrder
    <3>3. CASE j = Len(log) + 1
      BY <1>3, <2>1, <3>1, <3>3
    <3> QED
      BY <2>2, <3>2, <3>3
  <2> QED
    BY <1>1, <1>2, <2>1, <2>3, <2>4 DEF OrderInv, NothingUnheard, LogIsSeq
<1> QED
  BY <1>4, <1>5 DEF Commit, Logged

LEMMA NextKeepsOrder ==
  ASSUME TypeOK, OrderInv, [Next]_vars
  PROVE  TypeOK' /\ OrderInv'
<1>1. CASE UNCHANGED vars
  BY <1>1 DEF vars, socket, txnVars, TypeOK, InHand, OrderInv, NothingUnheard, InFeedOrder, LogIsSeq,
    RoutedInOrder
<1>2. CASE \E m \in Messages : Emit(m)
  BY <1>2, EmitKeepsOrder
<1>3. CASE Close
  BY <1>3, CloseKeepsOrder
<1>4. CASE Connect \/ Choke \/ Crash
  BY <1>4, EmptyWireKeepsOrder
<1>5. CASE ConnectFails \/ WaitIsOver \/ StreamEnds \/ Restart
  BY <1>5, WaitingKeepsOrder
<1>6. CASE Skip \/ Read
  BY <1>6, ReadingKeepsOrder
<1>7. CASE RouteUrl
  BY <1>7, RouteUrlKeepsOrder
<1>8. CASE Commit
  BY <1>8, CommitKeepsOrder
<1> QED
  BY <1>1, <1>2, <1>3, <1>4, <1>5, <1>6, <1>7, <1>8 DEF Next, Process

LEMMA AlwaysInOrder ==
  Spec => [](TypeOK /\ OrderInv)
<1>1. Init => TypeOK /\ OrderInv
  BY OrderAtInit
<1>2. TypeOK /\ OrderInv /\ [Next]_vars => (TypeOK /\ OrderInv)'
  BY NextKeepsOrder
<1> QED
  BY <1>1, <1>2, PTL DEF Spec

\* In every reachable state every variable has its type, and a position of the
\* firehose is at most one of: on the wire, in hand, gone (consumer/main.py and
\* consumer/jetstream.py).
THEOREM ConsumerTyped ==
  Spec => []TypeOK
BY AlwaysInOrder, PTL

\* Posts reach the tables in the order of the firehose and none twice, however
\* often the connection or the process ends (consumer/main.py:27).
THEOREM PostsInOrder ==
  Spec => []RoutedInOrder
<1>1. OrderInv => RoutedInOrder
  BY DEF OrderInv
<1> QED
  BY <1>1, AlwaysInOrder, PTL
-----------------------------------------------------------------------------
(* One transaction. *)

LEMMA LinksGrow ==
  ASSUME NEW links, links \in Seq(ToSet(links)), NEW m, NEW ks, ks \subseteq Nat,
         HasLinksAt(links, m, ks), NEW k \in Nat, \A x \in ks : x < k
  PROVE  HasLinksAt(Append(links, Normalize(IterUrls(m.record)[k])), m, ks \cup {k})
<1> DEFINE more == Append(links, Normalize(IterUrls(m.record)[k]))
           Url(n) == Normalize(IterUrls(m.record)[n])
<1>1. PICK nth \in [DOMAIN links -> ks] :
        /\ \A i, j \in DOMAIN links : i < j => nth[i] < nth[j]
        /\ \A x \in ks : \E i \in DOMAIN links : nth[i] = x
        /\ \A i \in DOMAIN links : links[i] = Url(nth[i])
  BY DEF HasLinksAt
<1>2. /\ Len(links) \in Nat /\ DOMAIN links = 1 .. Len(links) /\ DOMAIN more = 1 .. Len(links) + 1
      /\ \A i \in 1 .. Len(links) : more[i] = links[i]
      /\ more[Len(links) + 1] = Url(k)
  <2> DEFINE e == Url(k)
  <2> HIDE DEF e
  <2>1. /\ Len(links) \in Nat /\ DOMAIN links = 1 .. Len(links)
        /\ DOMAIN Append(links, e) = 1 .. Len(links) + 1
        /\ \A i \in 1 .. Len(links) : Append(links, e)[i] = links[i]
        /\ Append(links, e)[Len(links) + 1] = e
    BY AppendToAny
  <2> QED
    BY <2>1 DEF e
<1> DEFINE at == [i \in DOMAIN more |-> IF i \in DOMAIN links THEN nth[i] ELSE k]
<1> HIDE DEF more, Url
<1>3. \A i \in DOMAIN more : (i \in DOMAIN links) \/ (i = Len(links) + 1 /\ i \notin DOMAIN links)
  BY <1>2
<1>4. \A i \in DOMAIN links : i \in DOMAIN more /\ at[i] = nth[i] /\ nth[i] \in ks /\ i < Len(links) + 1
  BY <1>1, <1>2
<1>5. Len(links) + 1 \in DOMAIN more /\ at[Len(links) + 1] = k /\ Len(links) + 1 \notin DOMAIN links
  BY <1>2
<1>6. at \in [DOMAIN more -> ks \cup {k}]
  BY <1>1
<1> HIDE DEF at
<1>7. ASSUME NEW i \in DOMAIN more, NEW j \in DOMAIN more, i < j PROVE at[i] < at[j]
  <2>1. i \in DOMAIN links
    BY <1>2, <1>7
  <2>2. CASE j \in DOMAIN links
    BY <1>1, <1>4, <1>7, <2>1, <2>2
  <2>3. CASE j = Len(links) + 1
    BY <1>4, <1>5, <2>1, <2>3
  <2> QED
    BY <1>3, <2>2, <2>3
<1>8. \A x \in ks \cup {k} : \E i \in DOMAIN more : at[i] = x
  BY <1>1, <1>4, <1>5
<1>9. \A i \in DOMAIN more : more[i] = Url(at[i])
  BY <1>1, <1>2, <1>3, <1>4, <1>5
<1> QED
  BY <1>6, <1>7, <1>8, <1>9 DEF HasLinksAt, more, Url

LEMMA PartBegins ==
  ASSUME NEW m \in Messages, Routable(m), m.walks
  PROVE  IsPart(m, IterUrls(m.record), <<>>)
<1> DEFINE urls == IterUrls(m.record)
<1>1. urls \in Seq(ToSet(urls)) /\ Len(urls) \in Nat /\ DOMAIN urls = 1 .. Len(urls)
  BY MessageTypes, LenProperties
<1>2. {k \in Usable(m) : k <= 0} = {}
  <2>1. \A k \in Usable(m) : k \in 1 .. Len(urls)
    BY <1>1 DEF Usable
  <2> QED
    BY <1>1, <2>1
<1>3. HasLinksAt(<<>>, m, {})
  <2>1. DOMAIN <<>> = {}
    BY EmptySeq
  <2>2. [i \in {} |-> i] \in [DOMAIN <<>> -> {}]
    BY <2>1
  <2> QED
    BY <2>1, <2>2 DEF HasLinksAt
<1>4. <<>> \in Seq(ToSet(<<>>))
  BY EmptySeq
<1>5. \A j \in DOMAIN urls : urls[j] = urls[0 + j]
  BY <1>1
<1>6. Len(urls) - Len(urls) = 0 /\ 0 \in 0 .. Len(urls)
  BY <1>1
<1> HIDE DEF urls
<1> QED
  BY <1>1, <1>2, <1>3, <1>4, <1>5, <1>6 DEF IsPart, urls

LEMMA PartGrows ==
  ASSUME NEW m \in Messages, NEW rest, NEW links, IsPart(m, rest, links), rest # <<>>
  PROVE  IsPart(m, Tail(rest), IF Normalize(Head(rest)) = Unusable THEN links
                               ELSE Append(links, Normalize(Head(rest))))
<1> DEFINE urls == IterUrls(m.record)
           done == Len(urls) - Len(rest)
           upto(n) == {k \in Usable(m) : k <= n}
           norm == Normalize(Head(rest))
           more == IF norm = Unusable THEN links ELSE Append(links, norm)
<1>1. /\ Routable(m) /\ m.walks
      /\ rest \in Seq(ToSet(urls)) /\ done \in 0 .. Len(urls)
      /\ \A j \in DOMAIN rest : rest[j] = urls[done + j]
      /\ links \in Seq(ToSet(links))
      /\ HasLinksAt(links, m, upto(done))
  BY DEF IsPart
<1>2. urls \in Seq(ToSet(urls)) /\ Len(urls) \in Nat /\ DOMAIN urls = 1 .. Len(urls)
  BY <1>1, MessageTypes, LenProperties
<1>3. Usable(m) = {k \in 1 .. Len(urls) : Normalize(urls[k]) # Unusable}
  BY <1>1, <1>2 DEF Usable
<1> HIDE DEF urls
<1>4. /\ Head(rest) = rest[1] /\ Tail(rest) \in Seq(ToSet(urls)) /\ Len(rest) \in Nat \ {0}
      /\ Len(Tail(rest)) = Len(rest) - 1 /\ DOMAIN rest = 1 .. Len(rest)
      /\ DOMAIN Tail(rest) = 1 .. Len(rest) - 1
      /\ \A j \in 1 .. Len(rest) - 1 : Tail(rest)[j] = rest[j + 1]
  <2>1. Len(rest) \in Nat \ {0} /\ DOMAIN rest = 1 .. Len(rest)
    BY <1>1, EmptySeq, LenProperties
  <2>2. Head(rest) = rest[1] /\ Tail(rest) \in Seq(ToSet(urls)) /\ Len(Tail(rest)) = Len(rest) - 1
    BY <1>1, HeadTailProperties
  <2>3. \A j \in 1 .. Len(Tail(rest)) : Tail(rest)[j] = rest[j + 1]
    BY <1>1, HeadTailProperties
  <2>4. DOMAIN Tail(rest) = 1 .. Len(Tail(rest))
    BY <2>2, LenProperties
  <2> QED
    BY <2>1, <2>2, <2>3, <2>4
<1>5. PICK d \in Nat : d = done
  <2> HIDE DEF done
  <2>1. done \in Nat
    BY <1>1, <1>2
  <2> QED
    BY <2>1
<1>6. d + 1 \in 1 .. Len(urls) /\ Len(urls) - Len(Tail(rest)) = d + 1 /\ norm = Normalize(urls[d + 1])
  <2>1. d + 1 \in 1 .. Len(urls) /\ Len(urls) - Len(Tail(rest)) = d + 1
    BY <1>2, <1>4, <1>5
  <2>2. rest[1] = urls[d + 1]
    BY <1>1, <1>4, <1>5
  <2> QED
    BY <1>4, <2>1, <2>2
<1>7. \A j \in DOMAIN Tail(rest) : Tail(rest)[j] = urls[d + 1 + j]
  <2> SUFFICES ASSUME NEW j \in DOMAIN Tail(rest) PROVE Tail(rest)[j] = urls[d + 1 + j]
    OBVIOUS
  <2>1. j \in Nat /\ j + 1 \in DOMAIN rest /\ Tail(rest)[j] = rest[j + 1] /\ d + (j + 1) = d + 1 + j
    BY <1>4
  <2> QED
    BY <1>1, <1>5, <2>1
<1>8. more \in Seq(ToSet(more)) /\ HasLinksAt(more, m, upto(d + 1))
  <2>1. CASE norm = Unusable
    <3>1. d + 1 \notin Usable(m)
      BY <1>3, <1>6, <2>1
    <3>2. upto(d + 1) = upto(d)
      <4>1. \A k \in Usable(m) : k \in Nat /\ k # d + 1
        BY <1>3, <3>1
      <4> QED
        BY <4>1
    <3> QED
      BY <1>1, <1>5, <2>1, <3>2
  <2>2. CASE norm # Unusable
    <3>1. d + 1 \in Usable(m) /\ \A k \in Usable(m) : k \in Nat
      BY <1>3, <1>6, <2>2
    <3>2. upto(d + 1) = upto(d) \cup {d + 1}
      BY <3>1
    <3>3. upto(d) \subseteq Nat /\ \A x \in upto(d) : x < d + 1
      BY <3>1
    <3>4. HasLinksAt(links, m, upto(d))
      BY <1>1, <1>5
    <3> HIDE DEF upto, norm
    <3>5. more = Append(links, norm)
      BY <2>2
    <3>6. HasLinksAt(more, m, upto(d) \cup {d + 1})
      <4>1. d + 1 \in Nat
        OBVIOUS
      <4>2. HasLinksAt(Append(links, Normalize(IterUrls(m.record)[d + 1])), m, upto(d) \cup {d + 1})
        BY <1>1, <3>3, <3>4, <4>1, LinksGrow
      <4> QED
        BY <1>6, <3>5, <4>2 DEF urls
    <3>7. Append(links, norm) \in Seq(ToSet(Append(links, norm)))
      BY <1>1, AppendToAny
    <3> QED
      BY <3>2, <3>5, <3>6, <3>7
  <2> QED
    BY <2>1, <2>2
<1> HIDE DEF more, norm
<1>9. IsPart(m, Tail(rest), more)
  <2> DEFINE left == Tail(rest)
  <2>1. /\ left \in Seq(ToSet(urls)) /\ Len(urls) - Len(left) = d + 1 /\ d + 1 \in 0 .. Len(urls)
        /\ \A j \in DOMAIN left : left[j] = urls[d + 1 + j]
    BY <1>2, <1>4, <1>6, <1>7
  <2> HIDE DEF left
  <2>2. HasLinksAt(more, m, {k \in Usable(m) : k <= Len(urls) - Len(left)})
    BY <1>8, <2>1
  <2>3. Len(urls) - Len(left) \in 0 .. Len(urls)
    BY <2>1
  <2>4. \A j \in DOMAIN left : left[j] = urls[Len(urls) - Len(left) + j]
    BY <2>1
  <2>5. IsPart(m, left, more)
    BY <1>1, <1>8, <2>1, <2>2, <2>3, <2>4 DEF IsPart, urls
  <2> QED
    BY <2>5 DEF left
<1> QED
  BY <1>9 DEF more, norm

LEMMA PartIsWhole ==
  ASSUME NEW m \in Messages, NEW links, IsPart(m, <<>>, links)
  PROVE  HasLinksAt(links, m, Usable(m)) /\ (links = <<>> <=> Usable(m) = {})
<1> DEFINE urls == IterUrls(m.record)
<1>1. Len(urls) \in Nat /\ DOMAIN urls = 1 .. Len(urls) /\ Len(<<>>) = 0
  BY MessageTypes, LenProperties DEF IsPart
<1>2. {k \in Usable(m) : k <= Len(urls) - Len(<<>>)} = Usable(m)
  <2>1. \A k \in Usable(m) : k \in 1 .. Len(urls)
    BY <1>1 DEF Usable
  <2> QED
    BY <1>1, <2>1
<1>3. HasLinksAt(links, m, Usable(m))
  BY <1>2 DEF IsPart
<1>4. PICK nth \in [DOMAIN links -> Usable(m)] : \A k \in Usable(m) : \E i \in DOMAIN links : nth[i] = k
  BY <1>3 DEF HasLinksAt
<1>5. links \in Seq(ToSet(links))
  BY DEF IsPart
<1>6. links = <<>> <=> DOMAIN links = {}
  BY <1>5, EmptySeq, LenProperties
<1>7. DOMAIN links = {} <=> Usable(m) = {}
  BY <1>4
<1> QED
  BY <1>3, <1>6, <1>7
-----------------------------------------------------------------------------
(* Whole or gone. *)

\* What the order says of the positions in the log.
LEMMA LogIsBehind ==
  ASSUME TypeOK, OrderInv, NEW k \in DOMAIN log
  PROVE  /\ log[k].post \in 1 .. Len(feed) /\ log[k].post \in DOMAIN feed
         /\ feed[log[k].post] \in Messages
         /\ log[k].post \notin ToSet(wire) \cup InHand
<1>1. DOMAIN feed = 1 .. Len(feed) /\ \A i \in 1 .. Len(feed) : feed[i] \in Messages
  BY LenProperties, ElementOfSeq DEF TypeOK
<1>2. /\ log[k].post \in 1 .. Len(feed) /\ \A i \in DOMAIN wire : log[k].post < wire[i]
      /\ (pc = "routing" => log[k].post < cur)
  BY DEF OrderInv, InFeedOrder
<1>3. log[k].post \notin ToSet(wire)
  BY <1>2, WireGrows DEF ToSet
<1>4. log[k].post \notin InHand
  BY <1>2, WireGrows DEF InHand, TypeOK
<1> QED
  BY <1>1, <1>2, <1>3, <1>4

LEMMA FeedIsTyped ==
  ASSUME TypeOK
  PROVE  /\ Len(feed) \in Nat /\ DOMAIN feed = 1 .. Len(feed)
         /\ \A i \in 1 .. Len(feed) : feed[i] \in Messages
BY LenProperties, ElementOfSeq DEF TypeOK

LEMMA EmitKeepsWhole ==
  ASSUME TypeOK, OrderInv, WholeInv, NEW m \in Messages, Emit(m)
  PROVE  WholeInv'
<1>1. /\ feed' = Append(feed, m) /\ pc' = pc /\ cur' = cur /\ todo' = todo /\ txn' = txn /\ log' = log
  BY DEF Emit, txnVars
<1>2. /\ Len(feed) \in Nat /\ DOMAIN feed = 1 .. Len(feed) /\ DOMAIN feed' = 1 .. Len(feed) + 1
      /\ \A i \in 1 .. Len(feed) : feed'[i] = feed[i]
  <2>1. /\ Len(feed) \in Nat /\ DOMAIN feed = 1 .. Len(feed) /\ feed \in Seq(Messages)
    BY FeedIsTyped DEF TypeOK
  <2>2. /\ feed' \in Seq(Messages) /\ Len(feed') = Len(feed) + 1
        /\ \A i \in 1 .. Len(feed) : feed'[i] = feed[i]
    BY <1>1, <2>1, AppendProperties
  <2>3. DOMAIN feed' = 1 .. Len(feed')
    BY <2>2, LenProperties
  <2> QED
    BY <2>1, <2>2, <2>3
<1>3. gone' \cup ToSet(wire') = gone \cup ToSet(wire) \cup {Len(feed) + 1}
      /\ gone \subseteq gone' /\ gone' \subseteq gone \cup {Len(feed) + 1}
  <2>1. CASE open
    <3>1. wire' = Append(wire, Len(feed) + 1) /\ gone' = gone
      BY <2>1 DEF Emit
    <3>2. ToSet(wire') = ToSet(wire) \cup {Len(feed) + 1}
      BY <3>1, WireGrows
    <3> QED
      BY <3>1, <3>2
  <2>2. CASE ~open
    BY <2>2 DEF Emit
  <2> QED
    BY <2>1, <2>2
<1>4. TxnIsPart'
  <2>1. CASE pc = "routing"
    <3>1. cur \in 1 .. Len(feed)
      BY <1>2, <2>1 DEF TypeOK
    <3> QED
      BY <1>1, <1>2, <2>1, <3>1 DEF WholeInv, TxnIsPart
  <2>2. CASE pc # "routing"
    BY <1>1, <2>2 DEF WholeInv, TxnIsPart
  <2> QED
    BY <2>1, <2>2
<1>5. LogIsWhole'
  <2> SUFFICES ASSUME NEW k \in DOMAIN log
               PROVE  /\ log[k].post \notin gone'
                      /\ Usable(feed'[log[k].post]) # {}
                      /\ HasLinksAt(log[k].links, feed'[log[k].post], Usable(feed'[log[k].post]))
    BY <1>1 DEF LogIsWhole
  <2>1. log[k].post \in 1 .. Len(feed)
    BY LogIsBehind
  <2>2. feed'[log[k].post] = feed[log[k].post] /\ log[k].post # Len(feed) + 1
    BY <1>2, <2>1
  <2> QED
    BY <1>3, <2>2 DEF WholeInv, LogIsWhole
<1>6. NoneForgotten'
  <2> SUFFICES ASSUME NEW i \in DOMAIN feed', i \notin gone' \cup ToSet(wire') \cup InHand',
                      Usable(feed'[i]) # {}
               PROVE  \E k \in DOMAIN log : log[k].post = i
    BY <1>1 DEF NoneForgotten
  <2>1. i \in DOMAIN feed /\ feed'[i] = feed[i]
    BY <1>2, <1>3
  <2>2. i \notin gone \cup ToSet(wire) \cup InHand
    BY <1>1, <1>3 DEF InHand
  <2> QED
    BY <2>1, <2>2 DEF WholeInv, NoneForgotten
<1> QED
  BY <1>4, <1>5, <1>6 DEF WholeInv

\* No new message, and nothing committed: what leaves the wire or the hand is gone,
\* comes in hand, or has no link to route.
LEMMA QuietKeepsLog ==
  ASSUME TypeOK, OrderInv, WholeInv, feed' = feed, log' = log,
         \A x \in gone' : x \in gone \cup ToSet(wire) \cup InHand,
         \A x \in gone \cup ToSet(wire) \cup InHand :
           x \in gone' \cup ToSet(wire') \cup InHand' \/ Usable(feed[x]) = {}
  PROVE  LogIsWhole' /\ NoneForgotten'
<1>1. LogIsWhole'
  <2>1. \A k \in DOMAIN log : log[k].post \notin gone'
    BY LogIsBehind DEF WholeInv, LogIsWhole
  <2> QED
    BY <2>1 DEF WholeInv, LogIsWhole
<1>2. NoneForgotten'
  <2> SUFFICES ASSUME NEW i \in DOMAIN feed, i \notin gone' \cup ToSet(wire') \cup InHand',
                      Usable(feed[i]) # {}
               PROVE  \E k \in DOMAIN log : log[k].post = i
    BY DEF NoneForgotten
  <2>1. i \notin gone \cup ToSet(wire) \cup InHand
    OBVIOUS
  <2> QED
    BY <2>1 DEF WholeInv, NoneForgotten
<1> QED
  BY <1>1, <1>2

LEMMA CloseKeepsWhole ==
  ASSUME TypeOK, OrderInv, WholeInv, Close
  PROVE  WholeInv'
<1>1. /\ feed' = feed /\ pc' = pc /\ cur' = cur /\ todo' = todo /\ txn' = txn /\ log' = log
  BY DEF Close, txnVars
<1>2. PICK n \in 0 .. Len(wire) :
        /\ wire' = SubSeq(wire, 1, n)
        /\ gone' = gone \cup ToSet(SubSeq(wire, n + 1, Len(wire)))
  BY DEF Close
<1>3. ToSet(wire) = ToSet(wire') \cup ToSet(SubSeq(wire, n + 1, Len(wire)))
  BY <1>2, WireIsCut
<1>4. InHand' = InHand
  BY <1>1 DEF InHand
<1>5. TxnIsPart'
  BY <1>1 DEF WholeInv, TxnIsPart
<1>6. LogIsWhole' /\ NoneForgotten'
  <2>1. \A x \in gone' : x \in gone \cup ToSet(wire) \cup InHand
    BY <1>2, <1>3
  <2>2. \A x \in gone \cup ToSet(wire) \cup InHand : x \in gone' \cup ToSet(wire') \cup InHand'
    BY <1>2, <1>3, <1>4
  <2> QED
    BY <1>1, <2>1, <2>2, QuietKeepsLog
<1> QED
  BY <1>5, <1>6 DEF WholeInv

LEMMA EmptyWireKeepsWhole ==
  ASSUME TypeOK, OrderInv, WholeInv, Connect \/ Choke \/ Crash
  PROVE  WholeInv'
<1>1. feed' = feed /\ log' = log /\ wire' = <<>> /\ pc' # "routing"
  BY DEF Connect, Choke, Crash, Die
<1>2. TxnIsPart'
  <2>1. txn' = <<>>
    BY DEF Connect, Choke, Crash, Die, WholeInv, TxnIsPart, txnVars
  <2> QED
    BY <1>1, <2>1 DEF TxnIsPart
<1>3. gone' = gone \cup ToSet(wire) \cup InHand
  <2>1. CASE Connect
    <3>1. wire = <<>> /\ gone' = gone /\ InHand = {}
      BY <2>1 DEF Connect, OrderInv, NothingUnheard, InHand
    <3>2. ToSet(wire) = {}
      BY <3>1, EmptySeq DEF ToSet
    <3> QED
      BY <3>1, <3>2
  <2>2. CASE Choke
    BY <2>2 DEF Choke, Die, InHand
  <2>3. CASE Crash
    BY <2>3 DEF Crash, Die
  <2> QED
    BY <2>1, <2>2, <2>3
<1>4. LogIsWhole' /\ NoneForgotten'
  BY <1>1, <1>3, QuietKeepsLog
<1> QED
  BY <1>2, <1>4 DEF WholeInv

LEMMA WaitingKeepsWhole ==
  ASSUME TypeOK, OrderInv, WholeInv, ConnectFails \/ WaitIsOver \/ StreamEnds \/ Restart
  PROVE  WholeInv'
<1>1. /\ feed' = feed /\ wire' = wire /\ txn' = txn /\ log' = log /\ gone' = gone
      /\ pc # "routing" /\ pc' # "routing"
  BY DEF ConnectFails, WaitIsOver, StreamEnds, Restart, socket, txnVars
<1>2. InHand = {} /\ InHand' = {}
  BY <1>1 DEF InHand
<1>3. TxnIsPart'
  BY <1>1 DEF WholeInv, TxnIsPart
<1>4. LogIsWhole' /\ NoneForgotten'
  BY <1>1, <1>2, QuietKeepsLog
<1> QED
  BY <1>3, <1>4 DEF WholeInv

LEMMA ReadingKeepsWhole ==
  ASSUME TypeOK, OrderInv, WholeInv, Skip \/ Read
  PROVE  WholeInv'
<1>1. /\ feed' = feed /\ wire # <<>> /\ wire' = Tail(wire) /\ log' = log /\ gone' = gone
      /\ pc = "reading" /\ txn = <<>> /\ txn' = <<>>
  BY DEF Skip, Read, txnVars, WholeInv, TxnIsPart
<1>2. ToSet(wire) = {Head(wire)} \cup ToSet(wire') /\ feed[Head(wire)] \in Messages
  BY <1>1, WireIsRead, FeedIsTyped
<1>3. InHand = {}
  BY <1>1 DEF InHand
<1>4. CASE Skip
  <2>1. pc' # "routing" /\ Usable(feed[Head(wire)]) = {}
    BY <1>4 DEF Skip, Usable
  <2>2. LogIsWhole' /\ NoneForgotten'
    BY <1>1, <1>2, <1>3, <2>1, QuietKeepsLog
  <2> QED
    BY <1>1, <2>1, <2>2 DEF WholeInv, TxnIsPart
<1>5. CASE Read
  <2>1. /\ pc' = "routing" /\ cur' = Head(wire) /\ todo' = IterUrls(feed[Head(wire)].record)
        /\ Routable(feed[Head(wire)]) /\ feed[Head(wire)].walks
    BY <1>5 DEF Read
  <2>2. InHand' = {Head(wire)}
    BY <2>1 DEF InHand
  <2>3. LogIsWhole' /\ NoneForgotten'
    BY <1>1, <1>2, <1>3, <2>2, QuietKeepsLog
  <2>4. IsPart(feed[Head(wire)], IterUrls(feed[Head(wire)].record), <<>>)
    BY <1>2, <2>1, PartBegins
  <2> QED
    BY <1>1, <2>1, <2>3, <2>4 DEF WholeInv, TxnIsPart
<1> QED
  BY <1>4, <1>5

LEMMA RouteUrlKeepsWhole ==
  ASSUME TypeOK, OrderInv, WholeInv, RouteUrl
  PROVE  WholeInv'
<1>1. /\ feed' = feed /\ wire' = wire /\ cur' = cur /\ pc = "routing" /\ pc' = "routing"
      /\ log' = log /\ gone' = gone /\ todo # <<>> /\ todo' = Tail(todo)
      /\ txn' = IF Normalize(Head(todo)) = Unusable THEN txn ELSE Append(txn, Normalize(Head(todo)))
  BY DEF RouteUrl, socket
<1>2. feed[cur] \in Messages
  <2>1. cur \in 1 .. Len(feed)
    BY <1>1, FeedIsTyped DEF TypeOK
  <2> QED
    BY <2>1, FeedIsTyped
<1>3. IsPart(feed[cur], todo, txn)
  BY <1>1 DEF WholeInv, TxnIsPart
<1>4. IsPart(feed[cur], todo', txn')
  BY <1>1, <1>2, <1>3, PartGrows
<1>5. LogIsWhole' /\ NoneForgotten'
  <2>1. InHand' = InHand
    BY <1>1 DEF InHand
  <2> QED
    BY <1>1, <2>1, QuietKeepsLog
<1> QED
  BY <1>1, <1>4, <1>5 DEF WholeInv, TxnIsPart

LEMMA CommitKeepsWhole ==
  ASSUME TypeOK, OrderInv, WholeInv, Commit
  PROVE  WholeInv'
<1>1. /\ feed' = feed /\ wire' = wire /\ gone' = gone /\ pc = "routing" /\ pc' = "reading"
      /\ txn' = <<>> /\ todo = <<>> /\ InHand = {cur} /\ InHand' = {}
  BY DEF Commit, socket, InHand
<1>2. cur \in DOMAIN feed /\ feed[cur] \in Messages /\ cur \notin gone
  <2>1. cur \in 1 .. Len(feed) /\ cur \notin gone
    BY <1>1, FeedIsTyped DEF TypeOK
  <2> QED
    BY <2>1, FeedIsTyped
<1>3. HasLinksAt(txn, feed[cur], Usable(feed[cur])) /\ (txn = <<>> <=> Usable(feed[cur]) = {})
  <2>1. IsPart(feed[cur], <<>>, txn)
    BY <1>1 DEF WholeInv, TxnIsPart
  <2> QED
    BY <1>2, <2>1, PartIsWhole
<1>4. TxnIsPart'
  BY <1>1 DEF TxnIsPart
<1>5. CASE txn = <<>>
  <2>1. log' = log
    BY <1>5 DEF Commit, Logged
  <2>2. LogIsWhole' /\ NoneForgotten'
    BY <1>1, <1>3, <1>5, <2>1, QuietKeepsLog
  <2> QED
    BY <1>4, <2>2 DEF WholeInv
<1>6. CASE txn # <<>>
  <2> DEFINE e == [post |-> cur, links |-> txn]
  <2>1. e.post = cur /\ e.links = txn
    OBVIOUS
  <2>2. log' = Append(log, e)
    BY <1>6 DEF Commit, Logged
  <2> HIDE DEF e
  <2>3. /\ Len(log) \in Nat
        /\ DOMAIN log = 1 .. Len(log) /\ DOMAIN log' = 1 .. Len(log) + 1
        /\ \A k \in 1 .. Len(log) : log'[k] = log[k]
        /\ log'[Len(log) + 1] = e
    <3>1. log \in Seq(ToSet(log))
      BY DEF OrderInv, LogIsSeq
    <3> QED
      BY <2>2, <3>1, AppendToAny
  <2>4. \A k \in DOMAIN log' : (k \in DOMAIN log /\ log'[k] = log[k]) \/ log'[k] = e
    BY <2>3
  <2>5. (\A k \in DOMAIN log : k \in DOMAIN log' /\ log'[k] = log[k])
        /\ \E k \in DOMAIN log' : log'[k] = e
    BY <2>3
  <2>6. LogIsWhole'
    <3> SUFFICES ASSUME NEW k \in DOMAIN log'
                 PROVE  /\ log'[k].post \notin gone
                        /\ Usable(feed[log'[k].post]) # {}
                        /\ HasLinksAt(log'[k].links, feed[log'[k].post], Usable(feed[log'[k].post]))
      BY <1>1 DEF LogIsWhole
    <3>1. CASE k \in DOMAIN log /\ log'[k] = log[k]
      BY <3>1 DEF WholeInv, LogIsWhole
    <3>2. CASE log'[k] = e
      BY <1>2, <1>3, <1>6, <2>1, <3>2
    <3> QED
      BY <2>4, <3>1, <3>2
  <2>7. NoneForgotten'
    <3> SUFFICES ASSUME NEW i \in DOMAIN feed, i \notin gone \cup ToSet(wire), Usable(feed[i]) # {}
                 PROVE  \E k \in DOMAIN log' : log'[k].post = i
      BY <1>1 DEF NoneForgotten
    <3>1. CASE i = cur
      BY <2>1, <2>5, <3>1
    <3>2. CASE i # cur
      BY <1>1, <2>5, <3>2 DEF WholeInv, NoneForgotten
    <3> QED
      BY <3>1, <3>2
  <2> QED
    BY <1>4, <2>6, <2>7 DEF WholeInv
<1> QED
  BY <1>5, <1>6

LEMMA NextKeepsWhole ==
  ASSUME TypeOK, OrderInv, WholeInv, [Next]_vars
  PROVE  WholeInv'
<1>1. CASE UNCHANGED vars
  BY <1>1 DEF vars, socket, txnVars, WholeInv, TxnIsPart, LogIsWhole, NoneForgotten, InHand
<1>2. CASE \E m \in Messages : Emit(m)
  BY <1>2, EmitKeepsWhole
<1>3. CASE Close
  BY <1>3, CloseKeepsWhole
<1>4. CASE Connect \/ Choke \/ Crash
  BY <1>4, EmptyWireKeepsWhole
<1>5. CASE ConnectFails \/ WaitIsOver \/ StreamEnds \/ Restart
  BY <1>5, WaitingKeepsWhole
<1>6. CASE Skip \/ Read
  BY <1>6, ReadingKeepsWhole
<1>7. CASE RouteUrl
  BY <1>7, RouteUrlKeepsWhole
<1>8. CASE Commit
  BY <1>8, CommitKeepsWhole
<1> QED
  BY <1>1, <1>2, <1>3, <1>4, <1>5, <1>6, <1>7, <1>8 DEF Next, Process

LEMMA WholeIsRoutedWhole ==
  ASSUME TypeOK, OrderInv, WholeInv
  PROVE  RoutedWholeOrGone
<1> SUFFICES ASSUME NEW i \in DOMAIN feed
             PROVE  LET entries == {k \in DOMAIN log : log[k].post = i} IN
                    IF i \in gone \cup ToSet(wire) \cup InHand \/ Usable(feed[i]) = {}
                    THEN entries = {}
                    ELSE \E k \in entries :
                           entries = {k} /\ HasLinksAt(log[k].links, feed[i], Usable(feed[i]))
  BY DEF RoutedWholeOrGone
<1> DEFINE entries == {k \in DOMAIN log : log[k].post = i}
<1>1. CASE i \in gone \cup ToSet(wire) \cup InHand \/ Usable(feed[i]) = {}
  <2>1. \A k \in DOMAIN log : log[k].post # i
    BY <1>1, LogIsBehind DEF WholeInv, LogIsWhole
  <2> QED
    BY <1>1, <2>1
<1>2. CASE ~(i \in gone \cup ToSet(wire) \cup InHand \/ Usable(feed[i]) = {})
  <2>1. PICK k \in DOMAIN log : log[k].post = i
    BY <1>2 DEF WholeInv, NoneForgotten
  <2>2. HasLinksAt(log[k].links, feed[i], Usable(feed[i]))
    BY <2>1 DEF WholeInv, LogIsWhole
  <2>3. ASSUME NEW j \in DOMAIN log, log[j].post = i PROVE j = k
    <3>1. DOMAIN log \subseteq Nat /\ i \in Nat
      BY FeedIsTyped, LenProperties DEF OrderInv, LogIsSeq
    <3>2. ~(j < k) /\ ~(k < j)
      BY <2>1, <2>3, <3>1 DEF OrderInv, RoutedInOrder
    <3> QED
      BY <3>1, <3>2
  <2>4. entries = {k}
    BY <2>1, <2>3
  <2> QED
    BY <1>2, <2>2, <2>4
<1> QED
  BY <1>1, <1>2

\* A post that has links is in the tables with every one of them, in the order of
\* its record and once, or is named among those lost: a connection that closes, a
\* process that dies or a message that chokes it never leaves half a post behind
\* (consumer/main.py:40).
THEOREM PostsWholeOrGone ==
  Spec => []RoutedWholeOrGone
<1>1. Init => WholeInv
  <2>1. ASSUME Init PROVE DOMAIN feed = {} /\ DOMAIN log = {}
    BY <2>1, EmptySeq DEF Init
  <2> QED
    BY <2>1 DEF Init, WholeInv, TxnIsPart, LogIsWhole, NoneForgotten
<1>2. (TypeOK /\ OrderInv) /\ WholeInv /\ [Next]_vars => WholeInv'
  BY NextKeepsWhole
<1>3. (TypeOK /\ OrderInv) /\ WholeInv => RoutedWholeOrGone
  BY WholeIsRoutedWhole
<1> QED
  BY <1>1, <1>2, <1>3, AlwaysInOrder, PTL DEF Spec
-----------------------------------------------------------------------------
(* Spellings. *)

\* A sequence read from its end.
LEMMA ReverseIsSeq ==
  ASSUME NEW s, s \in Seq(ToSet(s))
  PROVE  /\ Len(s) \in Nat /\ DOMAIN s = 1 .. Len(s)
         /\ Reverse(s) \in Seq(ToSet(s)) /\ Len(Reverse(s)) = Len(s)
         /\ \A i \in 1 .. Len(s) : Reverse(s)[i] = s[Len(s) - i + 1]
<1>1. Len(s) \in Nat /\ DOMAIN s = 1 .. Len(s)
  BY LenProperties
<1>2. Reverse(s) = [i \in 1 .. Len(s) |-> s[Len(s) - i + 1]]
  BY <1>1 DEF Reverse
<1>3. \A i \in 1 .. Len(s) : s[Len(s) - i + 1] \in ToSet(s)
  <2> SUFFICES ASSUME NEW i \in 1 .. Len(s) PROVE s[Len(s) - i + 1] \in ToSet(s)
    OBVIOUS
  <2>1. Len(s) - i + 1 \in DOMAIN s
    BY <1>1
  <2> QED
    BY <2>1 DEF ToSet
<1>4. Reverse(s) \in Seq(ToSet(s))
  BY <1>1, <1>2, <1>3
<1>5. Len(Reverse(s)) = Len(s)
  <2>1. DOMAIN Reverse(s) = 1 .. Len(s)
    BY <1>2
  <2> QED
    BY <1>1, <1>4, <2>1, LenProperties
<1> QED
  BY <1>1, <1>2, <1>4, <1>5

LEMMA SuffixIsAtTheEnd ==
  ASSUME NEW s, s \in Seq(ToSet(s)), NEW t, t \in Seq(ToSet(t))
  PROVE  IsSuffix(s, t) <=> /\ Len(s) <= Len(t)
                            /\ \A i \in 1 .. Len(s) : s[i] = t[Len(t) - Len(s) + i]
<1> DEFINE n == Len(s)
           l == Len(t)
           rs == Reverse(s)
           rt == Reverse(t)
<1>1. /\ n \in Nat /\ l \in Nat /\ rs \in Seq(ToSet(s)) /\ rt \in Seq(ToSet(t)) /\ n = Len(rs) /\ l = Len(rt)
      /\ \A i \in 1 .. n : rs[i] = s[n - i + 1]
      /\ \A i \in 1 .. l : rt[i] = t[l - i + 1]
  BY ReverseIsSeq
<1>2. IsSuffix(s, t) <=> n <= l /\ SubSeq(rs, 1, n) = SubSeq(rt, 1, n)
  BY <1>1 DEF IsSuffix, IsPrefix
<1> HIDE DEF n, l, rs, rt
<1>3. ASSUME n <= l
      PROVE  SubSeq(rs, 1, n) = SubSeq(rt, 1, n) <=> \A i \in 1 .. n : rs[i] = rt[i]
  <2>1. SubSeq(rs, 1, n) \in Seq(ToSet(s))
    BY <1>1, SeqIsCut
  <2>2. SubSeq(rt, 1, n) \in Seq(ToSet(t))
    BY <1>1, <1>3, SeqIsCut
  <2>3. DOMAIN SubSeq(rs, 1, n) = 1 .. n
    BY <1>1, SeqIsCut
  <2>4. DOMAIN SubSeq(rt, 1, n) = 1 .. n
    BY <1>1, <1>3, SeqIsCut
  <2>5. \A i \in 1 .. n : SubSeq(rs, 1, n)[i] = rs[i]
    BY <1>1, SeqIsCut
  <2>6. \A i \in 1 .. n : SubSeq(rt, 1, n)[i] = rt[i]
    BY <1>1, <1>3, SeqIsCut
  <2> DEFINE u == SubSeq(rs, 1, n)
             v == SubSeq(rt, 1, n)
  <2>7. Len(u) = n /\ Len(v) = n
    BY <1>1, <2>1, <2>2, <2>3, <2>4, LenProperties
  <2> HIDE DEF u, v
  <2>8. (\A i \in 1 .. n : u[i] = v[i]) => u = v
    <3>1. u \in Seq(ToSet(s)) /\ v \in Seq(ToSet(t))
      BY <2>1, <2>2 DEF u, v
    <3> QED
      BY <2>7, <3>1, SeqEqual
  <2>9. (\A i \in 1 .. n : u[i] = rs[i]) /\ (\A i \in 1 .. n : v[i] = rt[i])
    BY <2>5, <2>6 DEF u, v
  <2> QED
    BY <2>8, <2>9 DEF u, v
<1>4. ASSUME n <= l
      PROVE  (\A i \in 1 .. n : rs[i] = rt[i]) <=> \A i \in 1 .. n : s[i] = t[l - n + i]
  <2>1. ASSUME \A i \in 1 .. n : rs[i] = rt[i], NEW i \in 1 .. n PROVE s[i] = t[l - n + i]
    <3>1. n - i + 1 \in 1 .. n /\ n - i + 1 \in 1 .. l /\ n - (n - i + 1) + 1 = i
          /\ l - (n - i + 1) + 1 = l - n + i
      BY <1>1, <1>4
    <3> QED
      BY <1>1, <2>1, <3>1
  <2>2. ASSUME \A i \in 1 .. n : s[i] = t[l - n + i], NEW i \in 1 .. n PROVE rs[i] = rt[i]
    <3>1. n - i + 1 \in 1 .. n /\ i \in 1 .. l /\ l - n + (n - i + 1) = l - i + 1
      BY <1>1, <1>4
    <3> QED
      BY <1>1, <2>2, <3>1
  <2> QED
    BY <2>1, <2>2
<1>5. IsSuffix(s, t) <=> n <= l /\ \A i \in 1 .. n : s[i] = t[l - n + i]
  BY <1>2, <1>3, <1>4
<1> QED
  BY <1>5 DEF n, l

\* The first position that passes the test, and 0 if none does.
LEMMA FirstIsFound ==
  ASSUME NEW I, I \subseteq Nat, I # {}
  PROVE  Min(I) \in I
<1>1. PICK i \in I : \A j \in I : <<j, i>> \notin OpToRel(<, Nat)
  BY WFMin, NatLessThanWellFounded, Zenon
<1>2. OpToRel(<, Nat) = {p \in Nat \X Nat : p[1] < p[2]}
  BY Zenon DEF OpToRel
<1>3. \A j \in I : ~(j < i)
  <2> SUFFICES ASSUME NEW j \in I, j < i PROVE FALSE
    OBVIOUS
  <2>1. <<j, i>> \in {p \in Nat \X Nat : p[1] < p[2]}
    OBVIOUS
  <2> QED
    BY <1>1, <1>2, <2>1
<1>4. \A j \in I : i <= j
  BY <1>3
<1> QED
  BY <1>4 DEF Min

LEMMA ClassifiedByFirstMatch ==
  ASSUME NEW host
  PROVE  LET I == {k \in DOMAIN RULES : Matches(RULES[k], host)} IN
         IF I = {} THEN ClassifyDomain(host) = NoPlatformMatch
         ELSE \E k \in I : ClassifyDomain(host) = RULES[k].platform
<1> DEFINE I == {k \in 1 .. Len(RULES) : Matches(RULES[k], host)}
<1>1. Len(RULES) \in Nat /\ DOMAIN RULES = 1 .. Len(RULES)
  BY RulesInPairs, LenProperties
<1>2. ClassifyDomain(host) = LET i == IF I # {} THEN Min(I) ELSE 0
                             IN IF i = 0 THEN NoPlatformMatch ELSE RULES[i].platform
  BY Zenon DEF ClassifyDomain, SelectInSeq
<1>3. \A i \in I : i \in Nat \ {0}
  BY <1>1
<1> HIDE DEF I
<1>4. I # {} => Min(I) \in I /\ Min(I) # 0
  BY <1>3, FirstIsFound
<1>5. IF I = {} THEN ClassifyDomain(host) = NoPlatformMatch
      ELSE \E k \in I : ClassifyDomain(host) = RULES[k].platform
  BY <1>2, <1>4
<1> QED
  BY <1>1, <1>5 DEF I

\* A rule's domain is at the end of a spelling exactly when it is at the end of the
\* normalised host: only a leading "www" is cut, and no rule begins with that.
LEMMA FoldKeepsDomains ==
  ASSUME NEW host, host \in Seq(ToSet(host)), NEW k \in DOMAIN RULES
  PROVE  /\ Fold(host) \in Seq(ToSet(Fold(host)))
         /\ IsSuffix(RULES[k].domain, Lower(host)) <=> IsSuffix(RULES[k].domain, Fold(host))
<1> DEFINE low == Lower(host)
           d == RULES[k].domain
<1>1. /\ d \in Seq(ToSet(d)) /\ Len(d) \in Nat \ {0} /\ DOMAIN d = 1 .. Len(d) /\ d[1] # "www"
  <2>1. d \in Seq(ToSet(d)) /\ d # <<>> /\ d[1] # "www"
    BY RulesInPairs DEF ToSet
  <2> HIDE DEF d
  <2> QED
    BY <2>1, EmptySeq, LenProperties
<1>2. low \in Seq(ToSet(low)) /\ Len(low) \in Nat /\ DOMAIN low = 1 .. Len(low)
  <2>1. Len(host) \in Nat /\ DOMAIN host = 1 .. Len(host)
    BY LenProperties
  <2>2. low = [i \in 1 .. Len(host) |-> low[i]] /\ DOMAIN low = 1 .. Len(host)
    BY <2>1 DEF Lower
  <2> HIDE DEF low
  <2>3. \A i \in 1 .. Len(host) : low[i] \in ToSet(low)
    BY <2>2 DEF ToSet
  <2>4. low \in Seq(ToSet(low))
    BY <2>1, <2>2, <2>3
  <2> QED
    BY <2>4, LenProperties
<1> HIDE DEF low, d
<1>3. CASE Len(low) > 1 /\ low[1] = "www"
  <2> DEFINE h == Tail(low)
  <2>1. /\ h \in Seq(ToSet(low)) /\ Len(h) = Len(low) - 1
        /\ \A i \in 1 .. Len(h) : h[i] = low[i + 1]
    <3>1. low # <<>>
      BY <1>2, <1>3, EmptySeq
    <3> QED
      BY <1>2, <3>1, HeadTailProperties
  <2>2. DOMAIN h = 1 .. Len(h)
    BY <2>1, LenProperties
  <2> HIDE DEF h
  <2>3. h \in Seq(ToSet(h))
    <3>1. h = [i \in 1 .. Len(h) |-> h[i]] /\ \A i \in 1 .. Len(h) : h[i] \in ToSet(h)
      BY <2>1, <2>2 DEF ToSet
    <3> QED
      BY <1>2, <1>3, <2>1, <2>2, <3>1
  <2> DEFINE EndsOf(s) == Len(d) <= Len(s) /\ \A i \in 1 .. Len(d) : d[i] = s[Len(s) - Len(d) + i]
  <2>4. (IsSuffix(d, low) <=> EndsOf(low)) /\ (IsSuffix(d, h) <=> EndsOf(h))
    BY <1>1, <1>2, <2>3, SuffixIsAtTheEnd
  <2>5. ASSUME EndsOf(low) PROVE EndsOf(h)
    <3>1. Len(d) # Len(low)
      <4> SUFFICES ASSUME Len(d) = Len(low) PROVE FALSE
        OBVIOUS
      <4>1. 1 \in 1 .. Len(d) /\ Len(low) - Len(d) + 1 = 1
        BY <1>1
      <4> QED
        BY <1>1, <1>3, <2>5, <4>1
    <3>2. Len(d) <= Len(h)
      <4>1. Len(d) <= Len(low)
        BY <2>5
      <4> QED
        <5>1. Len(d) \in Nat /\ Len(low) \in Nat /\ Len(h) = Len(low) - 1
          BY <1>1, <1>2, <2>1
        <5> QED
          BY <3>1, <4>1, <5>1
    <3>3. ASSUME NEW i \in 1 .. Len(d) PROVE d[i] = h[Len(h) - Len(d) + i]
      <4>1. Len(h) - Len(d) + i \in 1 .. Len(h) /\ Len(h) - Len(d) + i + 1 = Len(low) - Len(d) + i
        BY <1>1, <1>2, <2>1, <3>2
      <4> QED
        BY <2>1, <2>5, <4>1
    <3> QED
      BY <3>2, <3>3
  <2>6. ASSUME EndsOf(h) PROVE EndsOf(low)
    <3>1. Len(d) <= Len(low)
      BY <1>1, <1>2, <2>1, <2>6
    <3>2. ASSUME NEW i \in 1 .. Len(d) PROVE d[i] = low[Len(low) - Len(d) + i]
      <4>1. Len(h) - Len(d) + i \in 1 .. Len(h) /\ Len(h) - Len(d) + i + 1 = Len(low) - Len(d) + i
        BY <1>1, <1>2, <2>1, <2>6
      <4> QED
        BY <2>1, <2>6, <4>1
    <3> QED
      BY <3>1, <3>2
  <2>7. Fold(host) = h
    BY <1>3 DEF Fold, low, h
  <2> QED
    BY <2>3, <2>4, <2>5, <2>6, <2>7 DEF low, d
<1>4. CASE ~(Len(low) > 1 /\ low[1] = "www")
  <2>1. Fold(host) = low
    BY <1>4 DEF Fold, low
  <2> QED
    BY <1>2, <2>1 DEF low, d
<1> QED
  BY <1>3, <1>4

LEMMA SpellingNeverHides ==
  ASSUME NEW host, host \in Seq(ToSet(host))
  PROVE  LET over == {k \in DOMAIN RULES : UnderDomain(RULES[k].domain, host)} IN
         IF over = {} THEN ClassifyDomain(Fold(host)) = NoPlatformMatch
         ELSE ClassifyDomain(Fold(host)) \in {RULES[k].platform : k \in over}
<1> DEFINE h == Fold(host)
           over == {k \in DOMAIN RULES : UnderDomain(RULES[k].domain, host)}
           I == {k \in DOMAIN RULES : Matches(RULES[k], h)}
<1>1. \A k \in DOMAIN RULES : k \in over <=> IsSuffix(RULES[k].domain, h)
  BY FoldKeepsDomains DEF UnderDomain
<1>2. ASSUME NEW k \in DOMAIN RULES
      PROVE  /\ h \in Seq(ToSet(h)) /\ Len(h) \in Nat
             /\ RULES[k] \in ToSet(RULES)
             /\ RULES[k].domain \in Seq(ToSet(RULES[k].domain)) /\ Len(RULES[k].domain) \in Nat
  <2>1. h \in Seq(ToSet(h)) /\ RULES[k] \in ToSet(RULES)
    BY FoldKeepsDomains DEF ToSet
  <2>2. RULES[k].domain \in Seq(ToSet(RULES[k].domain))
    BY <2>1, RulesInPairs
  <2> HIDE DEF h
  <2> QED
    BY <2>1, <2>2, LenProperties
<1> HIDE DEF h
<1>3. I \subseteq over
  <2> SUFFICES ASSUME NEW k \in I PROVE IsSuffix(RULES[k].domain, h)
    BY <1>1
  <2>1. CASE RULES[k].suffix
    BY <2>1 DEF Matches
  <2>2. CASE ~RULES[k].suffix
    <3>1. h = RULES[k].domain
      BY <2>2 DEF Matches
    <3> HIDE DEF over, I
    <3>2. k \in DOMAIN RULES
      BY DEF I
    <3>3. \A i \in 1 .. Len(h) : h[i] = h[Len(h) - Len(h) + i]
      BY <1>2, <3>2
    <3> QED
      BY <1>2, <3>1, <3>2, <3>3, SuffixIsAtTheEnd
  <2> QED
    BY <2>1, <2>2
<1>4. ASSUME over # {} PROVE I # {}
  <2>1. PICK k \in DOMAIN RULES : IsSuffix(RULES[k].domain, h)
    BY <1>1, <1>4
  <2> DEFINE d == RULES[k].domain
  <2>2. /\ h \in Seq(ToSet(h)) /\ Len(h) \in Nat /\ RULES[k] \in ToSet(RULES)
        /\ d \in Seq(ToSet(d)) /\ Len(d) \in Nat
    BY <1>2
  <2>3. /\ \E j \in DOMAIN RULES : RULES[j].domain = d /\ RULES[j].suffix = TRUE
        /\ \E j \in DOMAIN RULES : RULES[j].domain = d /\ RULES[j].suffix = FALSE
    <3>1. \A suffix \in BOOLEAN : \E other \in ToSet(RULES) : other.domain = d /\ other.suffix = suffix
      BY <2>2, RulesInPairs
    <3>2. \A other \in ToSet(RULES) : \E j \in DOMAIN RULES : RULES[j] = other
      BY DEF ToSet
    <3> HIDE DEF d
    <3>3. \A suffix \in BOOLEAN : \E j \in DOMAIN RULES : RULES[j].domain = d /\ RULES[j].suffix = suffix
      BY <3>1, <3>2
    <3> QED
      BY <3>3
  <2>4. IsSuffix(d, h)
    BY <2>1
  <2> HIDE DEF d, over, I
  <2>5. Len(d) <= Len(h) /\ \A i \in 1 .. Len(d) : d[i] = h[Len(h) - Len(d) + i]
    BY <2>2, <2>4, SuffixIsAtTheEnd
  <2>6. CASE Len(d) = Len(h)
    <3>1. \A i \in 1 .. Len(d) : d[i] = h[i]
      BY <2>2, <2>5, <2>6
    <3>2. d = h
      BY <2>2, <2>6, <3>1, SeqEqual
    <3>3. PICK j \in DOMAIN RULES : RULES[j].domain = d /\ RULES[j].suffix = FALSE
      BY <2>3
    <3>4. Matches(RULES[j], h)
      BY <3>2, <3>3 DEF Matches
    <3> QED
      BY <3>3, <3>4 DEF I
  <2>7. CASE Len(d) # Len(h)
    <3>1. Len(h) > Len(d)
      BY <2>2, <2>5, <2>7
    <3>2. PICK j \in DOMAIN RULES : RULES[j].domain = d /\ RULES[j].suffix = TRUE
      BY <2>3
    <3>3. Matches(RULES[j], h)
      BY <2>4, <3>1, <3>2 DEF Matches
    <3> QED
      BY <3>2, <3>3 DEF I
  <2> QED
    BY <2>6, <2>7
<1>5. IF I = {} THEN ClassifyDomain(h) = NoPlatformMatch
      ELSE \E k \in I : ClassifyDomain(h) = RULES[k].platform
  BY ClassifiedByFirstMatch
<1> HIDE DEF I
<1>6. IF over = {} THEN ClassifyDomain(h) = NoPlatformMatch
      ELSE ClassifyDomain(h) \in {RULES[k].platform : k \in over}
  BY <1>3, <1>4, <1>5
<1> QED
  BY <1>6 DEF h

\* A link's platform does not depend on how its host is spelled: with capitals or a
\* leading "www." it falls under the same rules, because no rule's domain begins
\* with "www" and every domain has both its rules (urls.py:61, domain_match.py:25).
THEOREM EverySpellingClassified ==
  Spec => []SpellingHidesNoRule
<1>1. TypeOK => SpellingHidesNoRule
  <2> SUFFICES ASSUME TypeOK, NEW i \in DOMAIN feed, Routable(feed[i]) /\ feed[i].walks,
                      NEW uri \in ToSet(IterUrls(feed[i].record)), Normalize(uri) # Unusable
               PROVE  LET over == {k \in DOMAIN RULES : UnderDomain(RULES[k].domain, uri.host)} IN
                      IF over = {} THEN ClassifyDomain(Normalize(uri).host) = NoPlatformMatch
                      ELSE ClassifyDomain(Normalize(uri).host) \in {RULES[k].platform : k \in over}
    BY DEF SpellingHidesNoRule
  <2>1. uri.host \in Seq(ToSet(uri.host))
    BY FeedIsTyped, MessageTypes
  <2>2. Normalize(uri).host = Fold(uri.host)
    BY DEF Normalize
  <2> QED
    BY <2>1, <2>2, SpellingNeverHides
<1> QED
  BY <1>1, AlwaysInOrder, PTL
=============================================================================
