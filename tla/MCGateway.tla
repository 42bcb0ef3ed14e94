----------------------------- MODULE MCGateway -----------------------------
(* Requests for the services of a file of two elements, the second of which *)
(* leaves one service of the first blank, and for one the file lacks.       *)
EXTENDS Gateway, TLC

CONSTANTS r1, r2, testing, greeter, absent

MCOneRequest == {r1}
MCTwoRequests == {r1, r2}
MCActor == Request \X {"handler", "worker"}
MCOneService == {testing}
MCServices == {testing, greeter, absent}
MCOneElement == <<[given |-> {testing}, blank |-> {}]>>
MCElement == <<[given |-> {testing}, blank |-> {}],
               [given |-> {greeter}, blank |-> {testing}]>>
MCHttp == {"http", "other"}
MCLocal == {"local"}
(* The local registry never looks at the Addr header. *)
MCHttpHeaders == {"badMethod", "noAddr", "good"}
MCLocalHeaders == {"badMethod", "good"}
MCSymmetry == Permutations(MCTwoRequests)
=============================================================================
