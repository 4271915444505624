---------------------------- MODULE MCClientSync ----------------------------
(* Small instances of ClientSync. *)
EXTENDS ClientSync, TLC

\* Browsers are interchangeable, and so are the zones but the home zone; no run
\* of this module checks liveness.
Symmetry == Permutations(Clients) \cup Permutations(Zones \ {Home})

Export(h, K) == [nodes |-> {h} \cup EndsOf(K), conns |-> K, sources |-> {h}, home |-> h]

\* One chain, alone or with a connection from its source.
SmallImports ==
  {Export(h, {}) : h \in Zones} \cup
  {Export(k.from, {k}) : k \in {l \in [id : ConnIds, from : Zones, to : Zones] : l.from # l.to}}

=============================================================================
