---------------------------- MODULE MCHostTriage ----------------------------
(***************************************************************************)
(* Small instances of HostTriage for TLC.  The sets of processes, hosts    *)
(* and posts are given in each .cfg; the functions over them are here.     *)
(***************************************************************************)
EXTENDS HostTriage, TLC

CONSTANTS hHtml, hRule,     \* a host that must be fetched, a host a domain rule decides
          p1, p2,           \* posts
          substack, medium, \* platforms
          w1, w2            \* fetch loops

MCHosts == {hHtml, hRule}

\* hRule is one of domain_match.RULES, say substack.com.
MCRuleOf == [h \in MCHosts |-> IF h = hRule THEN substack ELSE NoPlatform]
NoRules == [h \in Hosts |-> NoPlatform]

\* The consumer routes a post with two links; the resolver a post whose short
\* URL led to the same host.
TwoLinks == (Consumer :> {{<<p1, hHtml>>, <<p1, hRule>>}}) @@ (Resolver :> {{<<p2, hHtml>>}})

\* Both routers meet one host.
OneHost == (Consumer :> {{<<p1, hHtml>>}}) @@ (Resolver :> {{<<p2, hHtml>>}})

\* The consumer alone, two posts of one host.
TwoPosts == (Consumer :> {{<<p1, hHtml>>}, {<<p2, hHtml>>}}) @@ (Resolver :> {})

\* The fetch loops are alike.
Loops == Permutations({w1, w2})
=============================================================================
