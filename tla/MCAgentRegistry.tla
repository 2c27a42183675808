-------------------------- MODULE MCAgentRegistry --------------------------
(* Instances of AgentRegistry for TLC: one agent, which is all that an entry
   of s.sessions, a row and a revocation are ever about. *)
EXTENDS AgentRegistry, TLC

CONSTANTS a1, c1, c2, c3, b1

OneAgent == [c \in Conns \cup Beats |-> a1]

ConnSymmetry == Permutations(Conns)
============================================================================
