----------------------------- MODULE MCMission -----------------------------
EXTENDS Mission, TLC

\* "run" is token 1: the second alias of a.run is the base alias of b.run_2.
MCBaseOf == ("a.run" :> <<1>>) @@ ("b.run_2" :> <<1, 2>>)
=============================================================================
