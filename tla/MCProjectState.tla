--------------------------- MODULE MCProjectState ---------------------------
(* TLC instance of ProjectState.                                           *)
EXTENDS ProjectState
Symm == Permutations(Items) \cup Permutations(Agents)

\* Bound: failing writes and crashes, or else mistaken reports, or else the
\* first sweep, which finds one agent active and one not.
Bounded ==
  \/ faults \subseteq {"crash"}
  \/ faults \subseteq {"misreport", "returned"}
  \/ faults = {"sweep"} /\ Cardinality(sweep.active) = 1
=============================================================================
