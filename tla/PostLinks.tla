------------------------------ MODULE PostLinks ------------------------------
(***************************************************************************)
(* From a post record to the hosts it links to, and from a host to the     *)
(* platform a domain rule gives it: consumer/extract.py, urls.py and       *)
(* detectors/domain_match.py.  Nothing here has state.                     *)
(*                                                                         *)
(* A host is the sequence of its dot-separated labels: "www.a.com" is      *)
(* <<"www", "a", "com">>, the empty string is <<"">>, and a trailing dot   *)
(* leaves an empty last label.  A link is what urlsplit makes of a URI,    *)
(* less what normalize drops (user, port, fragment) or only copies (path). *)
(***************************************************************************)
EXTENDS Naturals, Sequences, SequencesExt

CONSTANTS
  Folded,           \* Folded[label]: its lower case, for every label that has capitals
  Unencodable,      \* labels IDNA refuses
  Tracking,         \* query keys that urls.py strips
  RULES             \* domain_match.RULES: a sequence of [suffix, domain, platform]

\* RULES has every domain twice, for itself and for what is below it, without "www.".
ASSUME RulesInPairs ==
  /\ RULES \in Seq(ToSet(RULES))
  /\ \A rule \in ToSet(RULES) :
       /\ rule.domain \in Seq(ToSet(rule.domain)) /\ rule.domain # <<>>
       /\ rule.domain[1] # "www"
       /\ \A suffix \in BOOLEAN :
            \E other \in ToSet(RULES) : other.domain = rule.domain /\ other.suffix = suffix

NoPlatformMatch == "none"
Unusable == [scheme |-> "none", host |-> <<>>, query |-> <<>>]
-----------------------------------------------------------------------------
(* extract.py. *)

IsLink(feature) == feature.type = "link" /\ feature.uri.text

UrisOf(features) ==
  LET links == SelectSeq(features, IsLink) IN [i \in DOMAIN links |-> links[i].uri]

\* A link card, on its own or beside a quoted record.
EmbedUris(embed) ==
  IF embed.uri.text /\ ( \/ embed.type = "external"
                         \/ embed.type = "recordWithMedia" /\ embed.media = "external" )
  THEN <<embed.uri>> ELSE <<>>

\* iter_urls: facets first.  A link that is in both comes twice.
IterUrls(record) ==
  FlattenSeq([i \in DOMAIN record.facets |-> UrisOf(record.facets[i])]) \o EmbedUris(record.embed)
-----------------------------------------------------------------------------
(* urls.py. *)

Lower(host) ==
  [i \in DOMAIN host |-> IF host[i] \in DOMAIN Folded THEN Folded[host[i]] ELSE host[i]]

\* hostname.lower(), less one "www.".
Fold(host) ==
  LET low == Lower(host) IN IF Len(low) > 1 /\ low[1] = "www" THEN Tail(low) ELSE low

\* host.encode("idna"): only the last label may be empty.
Encodes(host) ==
  /\ \A i \in DOMAIN host : host[i] \notin Unencodable
  /\ \A i \in 1 .. Len(host) - 1 : host[i] # ""

IsKept(key) == key \notin Tracking

\* The emptiness test precedes the stripping of "www.".
Normalize(uri) ==
  IF ~uri.splits \/ uri.scheme \notin {"http", "https"} \/ uri.host = <<"">> \/ ~Encodes(Fold(uri.host))
  THEN Unusable
  ELSE [scheme |-> uri.scheme, host |-> Fold(uri.host), query |-> SelectSeq(uri.query, IsKept)]
-----------------------------------------------------------------------------
(* domain_match.py. *)

\* "*.d" is a suffix of the string, dot included; "d" is the whole string.
Matches(rule, host) ==
  IF rule.suffix THEN Len(host) > Len(rule.domain) /\ IsSuffix(rule.domain, host)
  ELSE host = rule.domain

\* Mutant: only the "*." rules are tried.
ClassifyDomainBelow(host) ==
  LET i == SelectInSeq(RULES, LAMBDA rule : rule.suffix /\ Matches(rule, host))
  IN IF i = 0 THEN NoPlatformMatch ELSE RULES[i].platform

\* The first rule that matches.
ClassifyDomain(host) ==
  LET i == SelectInSeq(RULES, LAMBDA rule : Matches(rule, host))
  IN IF i = 0 THEN NoPlatformMatch ELSE RULES[i].platform
=============================================================================
