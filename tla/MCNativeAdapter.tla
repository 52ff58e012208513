-------------------------- MODULE MCNativeAdapter -------------------------
(* Small instances of NativeAdapter for TLC. *)
EXTENDS NativeAdapter

CONSTANTS t1, t2, h1, h2, a, b, x

Segment(n, wild, ms) == [text |-> n, wild |-> wild, valid |-> TRUE, matches |-> ms]
Plain(n)  == Segment(n, FALSE, {<<n>>})
Star      == Segment(a, TRUE, {<<a>>, <<b>>})    \* "a*"; b begins with a
Deep      == Segment(a, TRUE, {<<>>} \cup {<<n>> : n \in Names} \cup (Names \X Names))
Braces    == Segment(x, FALSE, {<<a>>, <<b>>})   \* "{a,b}", whose text is x
Unclosed  == [Star EXCEPT !.valid = FALSE, !.matches = {}]

MCPaths ==
  { <<Plain(a)>>, <<Star>>, <<Plain(a), Star>>, <<Star, Plain(a)>>,
    <<Deep, Plain(a)>>, <<Star, Braces>>, <<Braces, Star>>, <<Plain(a), Unclosed>> }
MCObjects ==
  [h \in Hosts |-> IF h = NoHost THEN {}
                   ELSE {<<a>>, <<b>>, <<a, a>>, <<a, b>>, <<b, a>>, <<x, a>>}]
Unchanged == [n \in Names |-> n]
=============================================================================
