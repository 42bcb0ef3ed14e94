------------------------------- MODULE Invoke -------------------------------
(***************************************************************************)
(* One call of InvokeRPC (invoke.go 87-376) with the event handler of       *)
(* format.go, and what invoke() of endpoint.go does with the outcome        *)
(* (264-288).  The call has a descriptor source; without one it panics at   *)
(* once, which is left to Gateway.                                          *)
(*                                                                         *)
(* main is the goroutine that calls InvokeRPC.  In a bidirectional call     *)
(* sender is the goroutine that uploads the request messages while main     *)
(* receives.  Both read and write the stream, the call's context and        *)
(* sendErr; the request's messages come from the body of the HTTP request,  *)
(* which its client may still be sending.                                   *)
(*                                                                         *)
(* grpc and the server are external: a stream opens or does not; the server *)
(* responds and ends the call when it likes (a lost connection is an end    *)
(* with an error); a stream whose call has ended, or whose context has,     *)
(* refuses messages with io.EOF and, after what it has received, answers    *)
(* with the status.  Response headers are left out: Header() waits for what *)
(* RecvMsg would wait for.                                                  *)
(***************************************************************************)
EXTENDS Naturals, Sequences

CONSTANTS
    Bodies,      \* the request bodies: sequences of items
    MaxResponses \* bound: messages a streaming server responds with

(* What requestData makes of a piece of the body: a message, a message that *)
(* grpc will not send, or an error.                                         *)
Item == {"message", "unsendable", "bad"}

ASSUME InvokeAssumption ==
    /\ Bodies \subseteq Seq(Item)
    /\ \A b \in Bodies : \A i \in DOMAIN b : b[i] = "bad" => i = Len(b)
    /\ MaxResponses \in Nat \ {0}

VARIABLES
    kind,      \* the kind of the method
    body,      \* the request's body
    sent,      \* the client has sent all of it
    read,      \* the items requestData has read
    ctx,       \* the call's context: "live", "done" from outside, or "cancelled"
    stream,    \* "none", "open" or "refused"
    got,       \* the messages handed to grpc
    halfClosed,\* the server has been told that there are no more
    served,    \* the messages the server has responded with
    final,     \* how the server ended the call: "none", "ok" or "error"
    main,      \* where the calling goroutine is
    err,       \* its error, "none" for nil
    sender,    \* where the uploading goroutine of invokeBidi is
    sendErr,   \* the error it has stored
    delivered, \* the handler's NumResponses
    status,    \* the handler's Status
    rpc,       \* "running", or how the call stopped
    written    \* what the call wrote to the response

bodyVars == <<kind, body, sent>>
streamVars == <<stream, got, halfClosed>>
serverVars == <<served, final>>
senderVars == <<sender, sendErr>>
outcome == <<delivered, status, rpc, written>>
vars == <<bodyVars, read, ctx, streamVars, serverVars, main, err, senderVars, outcome>>

(* The abstract call. *)
Contract == INSTANCE RpcContract WITH rpc <- rpc, written <- written

SingleRequest == kind \in {"unary", "serverStream"}
SingleResponse == kind \in {"unary", "clientStream"}

(* No more can be sent on the stream. *)
StreamOver == final # "none" \/ ctx # "live"

Init ==
    /\ kind \in {"unary", "clientStream", "serverStream", "bidi"}
    /\ body \in Bodies /\ sent = FALSE /\ read = 0
    /\ ctx = "live"
    /\ stream = "none" /\ got = 0 /\ halfClosed = FALSE
    /\ served = 0 /\ final = "none"
    /\ main = "resolve" /\ err = "none"
    /\ sender = "none" /\ sendErr = "none"
    /\ delivered = 0 /\ status = "nil"
    /\ Contract!Init

-----------------------------------------------------------------------------
MainTo(pc) == main' = pc /\ UNCHANGED err

(* The function returns this error, or nil; deferred calls are in Return. *)
ReturnWith(e) == main' = "return" /\ err' = e

(* cancel(), and what grpc does to a stream on which a message failed. *)
Cancel == ctx' = IF ctx = "live" THEN "cancelled" ELSE ctx

(* requestData: the next item, or io.EOF at the end of the body, which is   *)
(* seen only when all of it has come.                                       *)
Readable == read < Len(body) \/ sent
NextItem == IF read < Len(body) THEN body[read + 1] ELSE "eof"

(* Mutant of Consumed: the end counts as an item. *)
ConsumedPastEnd == read + 1

Consumed == IF read < Len(body) THEN read + 1 ELSE read

(* The method is resolved; or the name, the service, the method or an       *)
(* extension is not found.                                                  *)
Resolve ==
    /\ main = "resolve"
    /\ \/ MainTo(IF SingleRequest THEN "first" ELSE "open")
       \/ ReturnWith("unresolved")
    /\ UNCHANGED <<bodyVars, read, ctx, streamVars, serverVars, senderVars, outcome>>

(* The request of a unary or server-streaming call: none or one message,    *)
(* and the end of the body.                                                 *)
ReadRequest ==
    /\ main \in {"first", "second"} /\ Readable
    /\ read' = Consumed
    /\ \/ NextItem = "eof" /\ MainTo("open")
       \/ NextItem = "bad" /\ ReturnWith("data")
       \/ /\ NextItem \in {"message", "unsendable"}
          /\ IF main = "first" THEN MainTo("second") ELSE ReturnWith("many")
    /\ UNCHANGED <<bodyVars, ctx, streamVars, serverVars, senderVars, outcome>>

(* The stub opens the stream; it sends a single request and half-closes.    *)
Open ==
    /\ main = "open"
    /\ SingleRequest => "unsendable" \notin {body[i] : i \in DOMAIN body}
    /\ stream' = "open"
    /\ got' = IF SingleRequest THEN 1 ELSE 0
    /\ halfClosed' = SingleRequest
    /\ sender' = IF kind = "bidi" THEN "read" ELSE "none"
    /\ MainTo(CASE kind = "clientStream" -> "upload"
                [] kind = "unary" -> "await"
                [] OTHER -> "receive")
    /\ UNCHANGED <<bodyVars, read, ctx, serverVars, sendErr, outcome>>

(* Mutant of OpenFails: wg.Add comes before the error is looked at. *)
OpenFailsCounting ==
    /\ main = "open"
    /\ stream' = "refused"
    /\ err' = "unopened"
    /\ main' = "report"
    /\ sender' = IF kind = "bidi" THEN "counted" ELSE "none"
    /\ UNCHANGED <<bodyVars, read, ctx, got, halfClosed, serverVars, sendErr, outcome>>

(* It fails to.  invokeServerStream asks the nil stream for its headers all *)
(* the same, and panics.                                                    *)
OpenFails ==
    /\ main = "open"
    /\ stream' = "refused"
    /\ err' = "unopened"
    /\ \/ kind # "serverStream" /\ main' = "report" /\ UNCHANGED rpc
       \/ kind = "serverStream" /\ main' = "over" /\ rpc' = "panicked"
    /\ UNCHANGED <<bodyVars, read, ctx, got, halfClosed, serverVars, senderVars,
                   delivered, status, written>>

-----------------------------------------------------------------------------
(* The upload loop of invokeClientStream. *)
UploadRead ==
    /\ main = "upload" /\ Readable
    /\ read' = Consumed
    /\ halfClosed' = (halfClosed \/ NextItem = "eof")
    /\ \/ NextItem = "eof" /\ MainTo("await")
       \/ NextItem = "bad" /\ ReturnWith("data")
       \/ NextItem \in {"message", "unsendable"} /\ MainTo("uploading")
    /\ UNCHANGED <<bodyVars, ctx, stream, got, serverVars, senderVars, outcome>>

(* SendMsg.  grpc takes the message, perhaps when the server has room for   *)
(* it; says "go away", so that CloseAndReceive has the actual code; or      *)
(* cannot send it and ends the stream.                                      *)
UploadSend ==
    /\ main = "uploading"
    /\ \/ /\ body[read] = "message"
          /\ got' = got + 1
          /\ MainTo("upload")
          /\ UNCHANGED <<ctx, halfClosed>>
       \/ /\ StreamOver
          /\ halfClosed' = TRUE
          /\ MainTo("await")
          /\ UNCHANGED <<ctx, got>>
       \/ /\ body[read] = "unsendable"
          /\ Cancel
          /\ main' = "report" /\ err' = "rejected"
          /\ UNCHANGED <<got, halfClosed>>
    /\ UNCHANGED <<bodyVars, read, stream, serverVars, senderVars, outcome>>

-----------------------------------------------------------------------------
(* OnReceiveResponse. *)
Deliver == delivered' = delivered + 1 /\ written' = Append(written, "message")

(* The one response of a unary or client-streaming call, or its error. *)
Await ==
    /\ main = "await" /\ main' = "report"
    /\ \/ final = "ok" /\ Deliver /\ UNCHANGED err
       \/ final = "error" /\ err' = "server" /\ UNCHANGED <<delivered, written>>
       \/ ctx # "live" /\ err' = "cancelled" /\ UNCHANGED <<delivered, written>>
    /\ UNCHANGED <<bodyVars, read, ctx, streamVars, serverVars, senderVars, status, rpc>>

(* The download loop of the other two. *)
Receive ==
    /\ main = "receive"
    /\ delivered < served
    /\ Deliver
    /\ UNCHANGED <<bodyVars, read, ctx, streamVars, serverVars, main, err, senderVars,
                   status, rpc>>

(* Mutant of ReceiveEnds: every error ends the loop like io.EOF. *)
ReceiveEndsQuietly ==
    /\ main = "receive" /\ MainTo("report")
    /\ (delivered = served /\ final # "none") \/ ctx # "live"
    /\ UNCHANGED <<bodyVars, read, ctx, streamVars, serverVars, senderVars, outcome>>

ReceiveEnds ==
    /\ main = "receive" /\ main' = "report"
    /\ \/ delivered = served /\ final = "ok" /\ UNCHANGED err
       \/ delivered = served /\ final = "error" /\ err' = "server"
       \/ ctx # "live" /\ err' = "cancelled"
    /\ UNCHANGED <<bodyVars, read, ctx, streamVars, serverVars, senderVars, outcome>>

(* The sender's error, if it is stored by now, replaces that of the         *)
(* receiver, unless it is io.EOF.  What is not a gRPC status is returned;   *)
(* a status is given to the handler, if there was a stream.                 *)
Report ==
    LET e == IF sendErr \in {"data", "rejected"} THEN sendErr ELSE err IN
    /\ main = "report"
    /\ ReturnWith(IF e = "data" THEN "data" ELSE "none")
    /\ status' = IF e = "data" \/ (stream = "refused" /\ kind # "unary") THEN status
                 ELSE IF e = "none" THEN "ok" ELSE e
    /\ UNCHANGED <<bodyVars, read, ctx, streamVars, serverVars, senderVars,
                   delivered, rpc, written>>

-----------------------------------------------------------------------------
(* invokeBidi's sender reads the next message; at the end it half-closes    *)
(* the stream; bad data cancels the call before the error is stored.        *)
AfterRead ==
    CASE NextItem = "eof" -> "ended" [] NextItem = "bad" -> "data" [] OTHER -> "send"

(* Mutants of SenderReads: cancel is deferred; the stream is half-closed    *)
(* on any error.                                                            *)
SenderReadsThenCancels ==
    /\ sender = "read" /\ Readable
    /\ read' = Consumed /\ sender' = AfterRead
    /\ halfClosed' = (halfClosed \/ NextItem = "eof")
    /\ IF NextItem \in {"eof", "bad"} THEN Cancel ELSE UNCHANGED ctx
    /\ UNCHANGED <<bodyVars, stream, got, serverVars, main, err, sendErr, outcome>>

SenderReadsThenCloses ==
    /\ sender = "read" /\ Readable
    /\ read' = Consumed /\ sender' = AfterRead
    /\ halfClosed' = (halfClosed \/ NextItem \in {"eof", "bad"})
    /\ UNCHANGED <<bodyVars, ctx, stream, got, serverVars, main, err, sendErr, outcome>>

SenderReads ==
    /\ sender = "read" /\ Readable
    /\ read' = Consumed /\ sender' = AfterRead
    /\ halfClosed' = (halfClosed \/ NextItem = "eof")
    /\ IF NextItem = "bad" THEN Cancel ELSE UNCHANGED ctx
    /\ UNCHANGED <<bodyVars, stream, got, serverVars, main, err, sendErr, outcome>>

(* SendMsg, as in the upload loop. *)
SenderSends ==
    /\ sender = "send"
    /\ \/ body[read] = "message" /\ got' = got + 1 /\ sender' = "read" /\ UNCHANGED ctx
       \/ StreamOver /\ sender' = "eof" /\ UNCHANGED <<ctx, got>>
       \/ body[read] = "unsendable" /\ Cancel /\ sender' = "rejected" /\ UNCHANGED got
    /\ UNCHANGED <<bodyVars, read, stream, halfClosed, serverVars, main, err, sendErr,
                   outcome>>

SenderStores ==
    /\ sender \in {"eof", "data", "rejected"}
    /\ sendErr' = sender
    /\ sender' = "ended"
    /\ UNCHANGED <<bodyVars, read, ctx, streamVars, serverVars, main, err, outcome>>

-----------------------------------------------------------------------------
(* Mutant of Conclude: the return that follows the envelope is missing. *)
ConcludeThrough ==
    /\ rpc' = "ended"
    /\ written' = written \o (IF err # "none" THEN <<"rpcError", "status">> ELSE <<>>)

(* invoke() answers an error with an envelope and prints a status that is   *)
(* not OK; a nil Status reads as OK.                                        *)
Conclude ==
    \/ /\ err # "none"
       /\ rpc' = "failed"
       /\ written' = Append(written, "rpcError")
    \/ /\ err = "none"
       /\ rpc' = "ended"
       /\ written' = IF status \in {"nil", "ok"} THEN written ELSE Append(written, "status")

(* Mutant of Return: the deferred wg.Wait is missing. *)
ReturnUnwaiting ==
    /\ main = "return" /\ main' = "over"
    /\ Cancel
    /\ Conclude
    /\ UNCHANGED <<bodyVars, read, streamVars, serverVars, err, senderVars, delivered, status>>

(* InvokeRPC returns: its deferred calls wait for the sender and cancel.    *)
Return ==
    /\ main = "return" /\ main' = "over"
    /\ sender \in {"none", "ended"}
    /\ Cancel
    /\ Conclude
    /\ UNCHANGED <<bodyVars, read, streamVars, serverVars, err, senderVars, delivered, status>>

-----------------------------------------------------------------------------
(* The client of the gateway sends the whole body, or goes away before.     *)
BodyComes ==
    /\ ~sent
    /\ sent' = TRUE
    /\ \/ UNCHANGED body
       \/ \E n \in read..Len(body) :
              /\ n > 0 => body[n] # "bad"
              /\ body' = Append(SubSeq(body, 1, n), "bad")
    /\ UNCHANGED <<kind, read, ctx, streamVars, serverVars, main, err, senderVars, outcome>>

(* The request is over: its handler has returned or its client has gone. *)
ContextEnds ==
    /\ ctx = "live"
    /\ ctx' = "done"
    /\ UNCHANGED <<bodyVars, read, streamVars, serverVars, main, err, senderVars, outcome>>

ServerResponds ==
    /\ stream = "open" /\ ~StreamOver
    /\ served < (IF SingleResponse THEN 1 ELSE MaxResponses)
    /\ served' = served + 1
    /\ UNCHANGED <<bodyVars, read, ctx, streamVars, final, main, err, senderVars, outcome>>

ServerEnds ==
    /\ stream = "open" /\ ~StreamOver
    /\ \/ final' = "ok" /\ (SingleResponse => served = 1)
       \/ final' = "error"
    /\ UNCHANGED <<bodyVars, read, ctx, streamVars, served, main, err, senderVars, outcome>>

-----------------------------------------------------------------------------
MainReads == ReadRequest \/ UploadRead

MainStep ==
    \/ Resolve \/ Open \/ OpenFails \/ UploadSend
    \/ Await \/ Receive \/ ReceiveEnds \/ Report \/ Return

SenderStep == SenderSends \/ SenderStores

Environment == BodyComes \/ ContextEnds \/ ServerResponds \/ ServerEnds

Next == MainReads \/ MainStep \/ SenderReads \/ SenderStep \/ Environment

(* A read of the body returns once the body has come; whatever waits for    *)
(* the server returns once the context is not live.  Nothing is assumed of  *)
(* the client, the server, or a stream with a live context.                 *)
Fairness ==
    /\ WF_vars(sent /\ MainReads)
    /\ WF_vars(sent /\ SenderReads)
    /\ WF_vars(ctx # "live" /\ MainStep)
    /\ WF_vars(ctx # "live" /\ SenderStep)

Spec == Init /\ [][Next]_vars /\ Fairness

-----------------------------------------------------------------------------
TypeOK ==
    /\ kind \in {"unary", "clientStream", "serverStream", "bidi"}
    /\ body \in Seq(Item)
    /\ sent \in BOOLEAN
    /\ read \in 0..Len(body)
    /\ ctx \in {"live", "done", "cancelled"}
    /\ stream \in {"none", "open", "refused"}
    /\ got \in Nat
    /\ halfClosed \in BOOLEAN
    /\ served \in 0..MaxResponses
    /\ final \in {"none", "ok", "error"}
    /\ main \in {"resolve", "first", "second", "open", "upload", "uploading",
                 "await", "receive", "report", "return", "over"}
    /\ err \in {"none", "unresolved", "data", "many", "unopened", "server",
                "cancelled", "rejected"}
    /\ sender \in {"none", "read", "send", "eof", "data", "rejected", "ended"}
    /\ sendErr \in {"none", "eof", "data", "rejected"}
    /\ delivered \in 0..served
    /\ status \in {"nil", "ok", "unopened", "server", "cancelled", "rejected"}
    /\ rpc \in {"running", "failed", "ended", "panicked"}
    /\ written \in Seq({"message", "status", "rpcError"})

(* Every step of a call is one the caller may expect, or none: messages     *)
(* while it runs, and one end (endpoint.go 264-288, invoke.go 87-376).      *)
ImplementsContract == Contract!Spec

(* A call that is reported as OK was ended well by the server, and all the  *)
(* server responded with was delivered, whatever the sender and the         *)
(* context were doing meanwhile (invoke.go 271-291, 347-373).               *)
AllDelivered == status = "ok" => final = "ok" /\ delivered = served

(* The server sees the end of a stream it has not ended itself only after   *)
(* every message of the body: data that is bad or cut short never looks     *)
(* like a complete upload (invoke.go 156-169, 201-220, 317-334).            *)
WholeUpload ==
    halfClosed /\ ~StreamOver =>
        /\ read = Len(body)
        /\ got = IF SingleRequest /\ body = <<>> THEN 1 ELSE Len(body)

(* Of bidirectional calls: when the call is reported as cancelled although  *)
(* nobody outside ended its context, the sender did, and had an error of    *)
(* its own - stored too late to be reported (invoke.go 318-337, 360-362).   *)
CancelledForAReason ==
    rpc = "ended" /\ status = "cancelled" =>
        ctx = "done" \/ sendErr \in {"data", "rejected"}

(* A call that has stopped leaves nothing behind: nobody reads the request  *)
(* body any more, which net/http takes back, and the stream is over         *)
(* (invoke.go 139-140, 299-308).                                            *)
NothingLeftBehind ==
    rpc # "running" =>
        /\ sender \in {"none", "ended"}
        /\ stream = "open" => StreamOver

(* Once the context has ended and the body was sent - or cut short - the    *)
(* call stops: no order of cancel, wait and send keeps it (invoke.go 308).  *)
StopsWhenOver == ctx # "live" /\ sent ~> rpc # "running"

-----------------------------------------------------------------------------
(* What format.go says of the handler's Status at 433-434, "the status that *)
(* was received at the end of an RPC.  It is nil if the RPC is still in     *)
(* progress": a call InvokeRPC returned nil for has one.                    *)
StatusWhenEnded == rpc = "ended" => status # "nil"
=============================================================================
