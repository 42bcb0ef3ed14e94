------------------------------- MODULE MCChat -------------------------------
(* Two streams of the customer, one of which only resumes, and two agents;    *)
(* three channels: enough for a session that changes customer stream or       *)
(* agent, and for a stream that goes from one session to the next.            *)
EXTENDS Chat, TLC

MCMaxJoins == <<2, 3>>
MCSymmetry == Permutations(AgentStream)
=============================================================================
