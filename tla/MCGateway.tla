----------------------------- MODULE MCGateway -----------------------------
(* TLC instance of Gateway.  What is known of a handle that nobody refers  *)
(* to any more is never read: states that differ in it only are one state. *)
EXTENDS Gateway
Symm == Permutations(Agents) \cup Permutations(Tasks) \cup Permutations(Channels)
Referred ==
  LET used == InUse IN
  <<sys, chan, registry, saved, talk, [h \in Handles |-> IF h \in used THEN home[h] ELSE None],
    open \cap used, router, op, raised \cap used, overtaken \cap used, msg>>
=============================================================================
