---------------------------- MODULE MCCapturedText ----------------------------
\* Instances of CapturedText for TLC: every chunk of at most three bytes; values that
\* overlap, contain and repeat each other, short ones, and one already masked.
EXTENDS CapturedText, TLC

CONSTANTS a, b

MCLimits == {-1, 0, 1, 3, 5}
MCChunks == UNION {[1..n -> Byte] : n \in 0..3}

MCUpperCase == [c \in {"t", "T", "g", "n", "p", "s", "x"} |-> IF c = "t" THEN "T" ELSE c]
MCMarkers   == {<<"T">>}
MCGithubToken == <<"g">>
Var(key, value) == [key |-> key, value |-> value]

MCEnvironments ==
  {<<Var(<<"t">>, <<a, b>>)>>,
   <<Var(<<"g">>, <<a, b>>), Var(<<"p", "x">>, <<b, a, a>>), Var(<<"x">>, <<b, b>>)>>,
   <<Var(<<"p">>, <<a, a, b>>), Var(<<"x", "t">>, <<a, b>>), Var(<<"n", "s">>, <<a, a>>)>>,
   <<Var(<<"t">>, <<b>>), Var(<<"x">>, <<a, b>>)>>,
   <<Var(<<"n">>, <<Mask>>), Var(<<"x", "s">>, <<b, a, b>>)>>}

MCRules ==
  {[names |-> {}, prefixes |-> {}, suffixes |-> {}],
   [names |-> {<<"n">>}, prefixes |-> {<<"p">>, <<>>}, suffixes |-> {}],
   [names |-> {<<>>}, prefixes |-> {}, suffixes |-> {<<"s">>, <<"t">>}]}

\* A name that some environments give a secret variable as its value and one that is too
\* short; a directory with such a value in it.
MCPrograms    == {<<a, b>>, <<b>>}
MCDirectories == {<<a, a, b>>}

MCCommandLines == {<<>>, <<b, a, b, a, a, b, b>>, <<a, Mask, b, a>>}
=============================================================================
