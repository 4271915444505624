----------------------------- MODULE MCPlotRoute -----------------------------
EXTENDS PlotRoute, TLC
CONSTANTS c1, c2
\* The way from a to c leads through b, the source of another chain, until a
\* shorter one is added.
MCChainOf == [a |-> 1, b |-> 2, c |-> 1]
MCFirstMap == <<[id |-> 1, from |-> "a", to |-> "b"], [id |-> 2, from |-> "c", to |-> "b"]>>
MCSpare == {[id |-> 3, from |-> "a", to |-> "c"]}
Symmetry == Permutations(Clients)
=============================================================================
