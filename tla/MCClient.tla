------------------------------ MODULE MCClient ------------------------------
EXTENDS Client, TLC

\* Two abilities share a verb; one is streamed, and only the other is replaced.
MCModeOf == ("f" :> "rpc") @@ ("g" :> "stream")
MCMaxVersion == ("f" :> 2) @@ ("g" :> 1)

\* The threads, callers and chatters of the components are the same two: only one component
\* moves, so one group of permutations is enough.
Symmetry == Permutations(Threads)
=============================================================================
