--------------------------- MODULE MCCompanyRoot ---------------------------
(* TLC instance of CompanyRoot.                                            *)
EXTENDS CompanyRoot, TLC
Symm == Permutations(Procs) \cup Permutations(Conns)
=============================================================================
