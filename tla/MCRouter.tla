------------------------------ MODULE MCRouter ------------------------------
(* A small set of paths for Router in which one route can shadow, extend,   *)
(* or collide with another.                                                 *)
EXTENDS Router

Lit(n) == [name |-> n, param |-> FALSE]
Par(n) == [name |-> n, param |-> TRUE]

\* "long" stands for a segment of 32 bytes or more, "lon" for its first 31, and
\* "ab" for a text such as "a:".
MCNames == {"", "a", "b", "ab", "long", "lon"}
MCTruncated == [n \in MCNames |-> IF n = "long" THEN "lon" ELSE n]
MCTextPrefixes == {<<"a", "ab">>, <<"lon", "long">>}

\* /  /a  /a/  /:b  /a/b  /:ab/a  /ab  /long
MCRoutePaths ==
  {<<Lit("")>>, <<Lit("a")>>, <<Lit("a"), Lit("")>>, <<Par("b")>>,
   <<Lit("a"), Lit("b")>>, <<Par("ab"), Lit("a")>>, <<Lit("ab")>>, <<Lit("long")>>}

\* /a  /b  /a/b: routes an array answers without any doubt.
MCLiteralPaths == {<<Lit("a")>>, <<Lit("b")>>, <<Lit("a"), Lit("b")>>}

\* /  /a  /a/  /b  /ab  /a/b  /a/a  /long
MCRequestPaths ==
  {<<"">>, <<"a">>, <<"a", "">>, <<"b">>, <<"ab">>, <<"a", "b">>, <<"a", "a">>,
   <<"long">>}

MCStaticPrefixes == {<<"a">>}
=============================================================================
