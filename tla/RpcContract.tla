---------------------------- MODULE RpcContract ----------------------------
(***************************************************************************)
(* What the caller of InvokeRPC (endpoint.go 229-288) may rely on: messages *)
(* are written while the call runs; it stops once, for good, and at most    *)
(* one more entry is written as it does.                                    *)
(***************************************************************************)
EXTENDS Sequences

VARIABLES
    rpc,    \* "running", or how the call stopped
    written \* the call's entries in the response, in order

Init ==
    /\ rpc = "running"
    /\ written = <<>>

(* A response message arrives. *)
Responds ==
    /\ rpc = "running"
    /\ written' = Append(written, "message")
    /\ UNCHANGED rpc

(* InvokeRPC returns an error, which is answered with an envelope. *)
Fails ==
    /\ rpc = "running"
    /\ rpc' = "failed"
    /\ written' = Append(written, "rpcError")

(* InvokeRPC returns nil; a status that is not OK is printed. *)
Ends ==
    /\ rpc = "running"
    /\ rpc' = "ended"
    /\ written' \in {written, Append(written, "status")}

Panics ==
    /\ rpc = "running"
    /\ rpc' = "panicked"
    /\ UNCHANGED written

Next == Responds \/ Fails \/ Ends \/ Panics

Spec == Init /\ [][Next]_<<rpc, written>>
=============================================================================
