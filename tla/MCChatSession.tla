--------------------------- MODULE MCChatSession ----------------------------
(***************************************************************************)
(* ChatSession on small instances.                                         *)
(***************************************************************************)
EXTENDS ChatInvariant

\* No definition orders the clients; the bound on who types tells two kinds
\* of them apart.
Symmetry == Permutations(Talkers) \cup Permutations(Clients \ Talkers)
=============================================================================
