------------------------- MODULE MCFirehoseConsumer -------------------------
(***************************************************************************)
(* A small instance of FirehoseConsumer for TLC: a handful of messages,    *)
(* each there for a case of the code.                                      *)
(***************************************************************************)
EXTENDS FirehoseConsumer, TLC

MCFolded == ("WWW" :> "www") @@ ("Substack" :> "substack")
MCUnencodable == {"toolong"}
MCTracking == {"utm_source", "si"}
MCCollections == {"app.bsky.feed.post"}

Rule(s, d) == [suffix |-> s, domain |-> d, platform |-> d[1]]
MCRules == << Rule(FALSE, <<"substack", "com">>), Rule(TRUE, <<"substack", "com">>),
              Rule(FALSE, <<"medium", "com">>), Rule(TRUE, <<"medium", "com">>) >>

NoText == [text |-> FALSE, splits |-> FALSE, scheme |-> "none", host |-> <<>>, query |-> <<>>]
Uri(h) == [text |-> TRUE, splits |-> TRUE, scheme |-> "https", host |-> h, query |-> <<"si", "k">>]

Facet(uri) == <<[type |-> "mention", uri |-> NoText], [type |-> "link", uri |-> uri]>>
NoEmbed == [type |-> "none", media |-> "none", uri |-> NoText]
Card(uri) == [type |-> "external", media |-> "none", uri |-> uri]
Quote(media, uri) == [type |-> "recordWithMedia", media |-> media, uri |-> uri]

Record(facets, embed) == [facets |-> facets, embed |-> embed]
Post(record) ==
  [json |-> TRUE, kind |-> "commit", operation |-> "create", collection |-> "app.bsky.feed.post",
   named |-> TRUE, walks |-> TRUE, record |-> record]

Shouted == Uri(<<"WWW", "Substack", "com">>)
Blog == Uri(<<"blog", "substack", "com">>)
Other == Uri(<<"www", "www", "example", "com">>)
TrailingDot == Uri(<<"medium", "com", "">>)
Ftp == [Blog EXCEPT !.scheme = "ftp"]
TooLong == Uri(<<"toolong", "com">>)
OnlyWww == Uri(<<"www", "">>)

\* One link in a facet and in the card; a quoted card and hosts that keep an odd
\* form; unusable links and one whose host comes out empty; a record the extractor
\* cannot walk; a message that is passed over.
MCMessages ==
  { Post(Record(<<Facet(Shouted)>>, Card(Shouted))),
    Post(Record(<<Facet(Other), Facet(TrailingDot)>>, Quote("external", Blog))),
    Post(Record(<<Facet(TooLong), Facet(OnlyWww)>>, Card(Ftp))),
    [Post(Record(<<>>, NoEmbed)) EXCEPT !.walks = FALSE],
    [Post(Record(<<Facet(Blog)>>, NoEmbed)) EXCEPT !.operation = "delete"] }

\* Without the record that ends the process.
WellFormed == {m \in MCMessages : m.walks}
=============================================================================
