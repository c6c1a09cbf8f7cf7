--------------------------- MODULE MCDistribution ---------------------------
EXTENDS Distribution, TLC

\* An alias may name the directory that another library is nested in.
MCHomeOf == ("numbers" :> <<"acme", "numbers">>) @@ ("images" :> <<"other", "images">>)
MCAliases == {<<"acme">>, <<"short">>}
=============================================================================
