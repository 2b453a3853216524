--------------------------- MODULE MCShorteners ---------------------------
(***************************************************************************)
(* Small instances of Shorteners for TLC.                                  *)
(***************************************************************************)
EXTENDS Shorteners, TLC

CONSTANTS p1, p2, p3,  \* posts
          s1, s2, s3,  \* short URLs
          t            \* a target

\* A short URL that leads to another one, and one that leads to itself.
Chained == (s1 :> s2) @@ (s2 :> t) @@ (s3 :> s3)

\* Two posts of one link; a post at each short URL.
SameLink == {{<<p1, s1>>}, {<<p2, s1>>}}
EachLink == {{<<p1, s1>>}, {<<p2, s2>>}, {<<p3, s3>>}}
=============================================================================
