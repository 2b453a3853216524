---------------------------- MODULE HostLifecycle ----------------------------
(***************************************************************************)
(* What triage comes to for hosts and posts when transactions are taken to *)
(* be single steps: no stale reads, no locks, no queue, no claims.  A host *)
(* is unknown, then under triage, then decided, and never under triage     *)
(* again; a post waits only for a known host and goes only when its host   *)
(* is decided; a label names a platform of a host its post links to, red   *)
(* at some time.  HostTriage implements this: its transactions, whatever   *)
(* their interleaving, crashes and retries, commit such steps.             *)
(***************************************************************************)
CONSTANTS Hosts, Platforms, NoPlatform,
          Links     \* <<post, host>> pairs

VARIABLES domains, buffered, labels, everRed

vars == <<domains, buffered, labels, everRed>>

NoDomain == [state |-> "absent", platform |-> NoPlatform]
UnderTriage == [state |-> "pending", platform |-> NoPlatform]
Decided == {"red", "green", "unfetchable"}

Init ==
  /\ domains = [h \in Hosts |-> NoDomain]
  /\ buffered = {} /\ labels = {} /\ everRed = {}

\* Domains are written, and red ones remembered.
Write(d) ==
  /\ domains' = d
  /\ everRed' = everRed \cup {<<h, d[h].platform>> : h \in {g \in Hosts : d[g].state = "red"}}

Justified(label) == \E h \in Hosts : <<label[1], h>> \in Links /\ <<h, label[2]>> \in everRed

\* Posts are routed: new hosts come under triage, posts wait or get a label.
Arrive(hs, rows, ls) ==
  /\ \A h \in hs : domains[h] = NoDomain
  /\ Write([h \in Hosts |-> IF h \in hs THEN UnderTriage ELSE domains[h]])
  /\ \A row \in rows : row \in Links /\ domains'[row[2]].state # "absent"
  /\ \A label \in ls : Justified(label)
  /\ buffered' = buffered \cup rows
  /\ labels' = labels \cup ls

\* A host is decided, or left to a human; what waits for it goes, labelled if red.
Decide(h, s, p, ls) ==
  /\ domains[h].state # "absent"
  /\ s \in Decided \cup {"pending_review"}
  /\ Write([domains EXCEPT ![h] = [state |-> s, platform |-> p]])
  /\ ls # {} => s = "red"
  /\ \A label \in ls : <<label[1], h>> \in Links /\ label[2] = p
  /\ buffered' = IF s \in Decided THEN {row \in buffered : row[2] # h} ELSE buffered
  /\ labels' = labels \cup ls

\* An operator decides hosts, known or not, all alike; p may be left out.
Override(hs, s, p) ==
  /\ Write([h \in Hosts |->
       IF h \in hs
       THEN [state |-> s, platform |-> IF p # NoPlatform THEN p ELSE domains[h].platform]
       ELSE domains[h]])
  /\ UNCHANGED <<buffered, labels>>

\* Posts of decided hosts go, labelled if their host was red.
Settle(ls) ==
  /\ buffered' = {row \in buffered : domains[row[2]].state \notin Decided}
  /\ \A label \in ls : Justified(label)
  /\ labels' = labels \cup ls
  /\ UNCHANGED <<domains, everRed>>

LinkLabels == {<<row[1], p>> : row \in Links, p \in Platforms}

Next ==
  \/ \E hs \in SUBSET Hosts, rows \in SUBSET Links, ls \in SUBSET LinkLabels : Arrive(hs, rows, ls)
  \/ \E h \in Hosts, s \in Decided \cup {"pending_review"}, p \in Platforms \cup {NoPlatform} :
       \E ls \in SUBSET LinkLabels : Decide(h, s, p, ls)
  \/ \E hs \in SUBSET Hosts, s \in {"red", "green"}, p \in Platforms \cup {NoPlatform} : Override(hs, s, p)
  \/ \E ls \in SUBSET LinkLabels : Settle(ls)

Spec == Init /\ [][Next]_vars
=============================================================================
