------------------------------ MODULE Gateway ------------------------------
(***************************************************************************)
(* The HTTP handler of the gateway (internal/server/endpoint.go).          *)
(*                                                                         *)
(* Every request is served by two goroutines: the handler, which net/http  *)
(* runs, and the worker it starts with async.GO.  The handler dials, then  *)
(* waits for the first of a 3 s timer, the request's context and the       *)
(* worker's result on the unbuffered channel done.  The worker looks the   *)
(* request up a second time, invokes the RPC, writes the response itself   *)
(* and sends on done.  Nothing stops the worker when the handler leaves.   *)
(*                                                                         *)
(* With -registry "local" both goroutines look the service up in the       *)
(* configuration file, which every request of the process shares           *)
(* (LocalRegistry).  The client of a request sends its body, may go away,  *)
(* and is otherwise external, as are net/http and the gRPC library.        *)
(***************************************************************************)
EXTENDS LocalRegistry, Sequences

CONSTANTS
    Request,        \* the requests, each served by two goroutines
    RegistryType,   \* the values args[0] may have in Run
    Headers,        \* the kinds of Method and Addr headers requests may have
    UseReflection,  \* config.Reflection.Val
    FileSource,     \* len(config.Protoset) > 0 or len(config.ProtoFiles) > 0
    MaxMessages     \* bound: a message is written only as one of so many first
                    \* entries of the response

(* The goroutines of LocalRegistry are those of the requests. *)
ASSUME ActorAssumption == Actor = Request \X {"handler", "worker"}

ASSUME GatewayAssumption ==
    /\ RegistryType \subseteq {"http", "local", "other"}
    /\ Headers \subseteq {"badMethod", "noAddr", "good"}
    /\ UseReflection \in BOOLEAN
    /\ FileSource \in BOOLEAN
    /\ MaxMessages \in Nat

VARIABLES
    registryType, \* args[0]
    header,       \* the Method and Addr headers of each request
    service,      \* the service its Method names, in lower case
    client,       \* what the client of each request has done
    ctx,          \* request.Context(): "live" or "done"
    handler,      \* where the handler goroutine is
    worker,       \* where the worker goroutine is
    conn,         \* the *grpc.ClientConn of the request
    writes        \* what was written to the ResponseWriter, in order

requestVars == <<registryType, header, service>>
gatewayVars == <<requestVars, client, ctx, handler, worker, conn, writes>>
vars == <<registryVars, gatewayVars>>

-----------------------------------------------------------------------------
(* The handler's states: dial(), the select, and the ways out of it.        *)
Left == {"finished", "timedOut", "cancelled", "gaveUp", "aborted"}
HandlerPC == {"start", "lookup", "dial", "refused", "select"} \cup Left

(* The worker's states; it never runs again from those of Stopped.          *)
Stopped == {"quit", "unregistered", "panicked"}
WorkerPC == {"none", "register", "lookup", "invoke", "rpc", "send"} \cup Stopped

(* What is written: envelopes of ToFailResponse, and the RPC's output.      *)
HandlerText == {"systemError", "requestTimeout", "requestCancelled"}
RpcText == {"message", "status", "rpcError"}
Text == HandlerText \cup RpcText \cup {"loadError"}

(* One write; late when the handler had returned by then, so that net/http  *)
(* had already taken the response back.                                     *)
Entry(what, late) == [what |-> what, late |-> late]
Append1(r, what) ==
    [writes EXCEPT ![r] = Append(@, Entry(what, handler[r] \in Left))]
Write(r, what) == writes' = Append1(r, what)

Wrote(r, what) == \E i \in DOMAIN writes[r] : writes[r][i].what = what

GatewayInit ==
    /\ RegistryInit
    /\ registryType \in RegistryType
    /\ header \in [Request -> Headers]
    /\ service \in [Request -> Service]
    /\ client = [r \in Request |-> "sending"]
    /\ ctx = [r \in Request |-> "live"]
    /\ handler = [r \in Request |-> "start"]
    /\ worker = [r \in Request |-> "none"]
    /\ conn = [r \in Request |-> "none"]
    /\ writes = [r \in Request |-> <<>>]

-----------------------------------------------------------------------------
(* Register.  Both implementations refuse a Method that is missing or has   *)
(* no "service/method" or "service.method" form; the http one then wants    *)
(* the Addr header, the local one looks the service up.                     *)
HeaderRefused(r) ==
    \/ header[r] = "badMethod"
    \/ registryType = "http" /\ header[r] = "noAddr"

AnswersFromHeader(r) == registryType = "http" /\ ~HeaderRefused(r)
AsksConfig(r) == registryType = "local" /\ ~HeaderRefused(r)

HandlerAt(r, pc) == up /\ handler[r] = pc
WorkerAt(r, pc) == up /\ worker[r] = pc
HandlerTo(r, pc) == handler' = [handler EXCEPT ![r] = pc]
WorkerTo(r, pc) == worker' = [worker EXCEPT ![r] = pc]

(* Mutant of Leave: the worker gets a context that outlives the request. *)
LeaveUncancelled(r, pc) ==
    /\ HandlerTo(r, pc)
    /\ UNCHANGED ctx

(* The handler returns: net/http recovers a panic of its own and cancels    *)
(* the request's context.                                                   *)
Leave(r, pc) ==
    /\ HandlerTo(r, pc)
    /\ ctx' = [ctx EXCEPT ![r] = "done"]

(* async.GO, and on to the select. *)
StartWorker(r) ==
    /\ HandlerTo(r, "select")
    /\ WorkerTo(r, "register")

-----------------------------------------------------------------------------
(* dial(): an unknown registry type leaves register nil, a panic. *)
HandlerPanics(r) ==
    /\ HandlerAt(r, "start")
    /\ registryType = "other"
    /\ Leave(r, "aborted")
    /\ UNCHANGED <<registryVars, requestVars, client, worker, conn, writes>>

(* dial(): the first Register, on the headers alone. *)
HandlerRegisters(r) ==
    /\ HandlerAt(r, "start")
    /\ \/ registryType # "other" /\ HeaderRefused(r) /\ HandlerTo(r, "refused")
       \/ AnswersFromHeader(r) /\ HandlerTo(r, "dial")
    /\ UNCHANGED <<registryVars, requestVars, client, ctx, worker, conn, writes>>

(* dial(): the first Register, through the configuration. *)
HandlerAsks(r) ==
    /\ HandlerAt(r, "start")
    /\ AsksConfig(r)
    /\ Call(<<r, "handler">>, service[r])
    /\ HandlerTo(r, "lookup")
    /\ UNCHANGED <<requestVars, client, ctx, worker, conn, writes>>

HandlerAnswered(r) ==
    /\ handler[r] = "lookup"
    /\ HandlerTo(r, IF call[<<r, "handler">>].pc = "found" THEN "dial" ELSE "refused")
    /\ Return(<<r, "handler">>)
    /\ UNCHANGED <<requestVars, client, ctx, worker, conn, writes>>

(* BlockingDial returns a ready connection ...                              *)
Dialed(r) ==
    /\ HandlerAt(r, "dial")
    /\ conn' = [conn EXCEPT ![r] = "open"]
    /\ StartWorker(r)
    /\ UNCHANGED <<registryVars, requestVars, client, ctx, writes>>

(* ... or an error: of the dialer, of its timeout, or of the context.       *)
DialFails(r) ==
    /\ HandlerAt(r, "dial")
    /\ HandlerTo(r, "refused")
    /\ UNCHANGED <<registryVars, requestVars, client, ctx, worker, conn, writes>>

(* The error is answered, and the handler goes on with a nil connection.    *)
SystemError(r) ==
    /\ HandlerAt(r, "refused")
    /\ Write(r, "systemError")
    /\ StartWorker(r)
    /\ UNCHANGED <<registryVars, requestVars, client, ctx, conn>>

(* Only when that write fails does it return. *)
SystemErrorUnwritten(r) ==
    /\ HandlerAt(r, "refused")
    /\ client[r] = "gone"
    /\ Leave(r, "gaveUp")
    /\ UNCHANGED <<registryVars, requestVars, client, worker, conn, writes>>

(* Mutant of Timeout: the timer only wins when the worker has finished. *)
TimeoutAfterWorker(r) ==
    /\ HandlerAt(r, "select")
    /\ worker[r] = "send"
    /\ Write(r, "requestTimeout")
    /\ Leave(r, "timedOut")
    /\ UNCHANGED <<registryVars, requestVars, client, worker, conn>>

(* The select.  It picks any of the cases that are ready; a failing write   *)
(* of the envelope changes nothing more.                                    *)
Timeout(r) ==
    /\ HandlerAt(r, "select")
    /\ Write(r, "requestTimeout")
    /\ Leave(r, "timedOut")
    /\ UNCHANGED <<registryVars, requestVars, client, worker, conn>>

Cancelled(r) ==
    /\ HandlerAt(r, "select")
    /\ ctx[r] = "done"
    /\ Write(r, "requestCancelled")
    /\ Leave(r, "cancelled")
    /\ UNCHANGED <<registryVars, requestVars, client, worker, conn>>

(* Mutant of Receive: the worker sends on done before it invokes. *)
ReceiveBeforeInvoke(r) ==
    /\ HandlerAt(r, "select")
    /\ worker[r] \in {"invoke", "rpc", "send"}
    /\ Leave(r, "finished")
    /\ WorkerTo(r, IF worker[r] = "send" THEN "quit" ELSE worker[r])
    /\ UNCHANGED <<registryVars, requestVars, client, conn, writes>>

(* done is unbuffered: the worker's send and the handler's receive are one  *)
(* step.  invoke returns nil on every path, so there is no more to write.   *)
Receive(r) ==
    /\ HandlerAt(r, "select")
    /\ worker[r] = "send"
    /\ Leave(r, "finished")
    /\ WorkerTo(r, "quit")
    /\ UNCHANGED <<registryVars, requestVars, client, conn, writes>>

-----------------------------------------------------------------------------
(* Mutant of WorkerRegisters: the error is sent on done. *)
WorkerRegistersReporting(r) ==
    /\ WorkerAt(r, "register")
    /\ \/ HeaderRefused(r) /\ WorkerTo(r, "send")
       \/ AnswersFromHeader(r) /\ WorkerTo(r, "invoke")
    /\ UNCHANGED <<registryVars, requestVars, client, ctx, handler, conn, writes>>

(* The worker: a second Register.  On an error it returns without a word on *)
(* done; the connection, if there is one, stays as it is.                   *)
WorkerRegisters(r) ==
    /\ WorkerAt(r, "register")
    /\ \/ HeaderRefused(r) /\ WorkerTo(r, "unregistered")
       \/ AnswersFromHeader(r) /\ WorkerTo(r, "invoke")
    /\ UNCHANGED <<registryVars, requestVars, client, ctx, handler, conn, writes>>

WorkerAsks(r) ==
    /\ WorkerAt(r, "register")
    /\ AsksConfig(r)
    /\ Call(<<r, "worker">>, service[r])
    /\ WorkerTo(r, "lookup")
    /\ UNCHANGED <<requestVars, client, ctx, handler, conn, writes>>

WorkerAnswered(r) ==
    /\ worker[r] = "lookup"
    /\ WorkerTo(r, IF call[<<r, "worker">>].pc = "found" THEN "invoke" ELSE "unregistered")
    /\ Return(<<r, "worker">>)
    /\ UNCHANGED <<requestVars, client, ctx, handler, conn, writes>>

(* invoke(): there is nothing to do when dial failed. *)
NoConnection(r) ==
    /\ WorkerAt(r, "invoke")
    /\ conn[r] = "none"
    /\ WorkerTo(r, "send")
    /\ UNCHANGED <<registryVars, requestVars, client, ctx, handler, conn, writes>>

(* Mutant of LoadFails: the files are read before cc is tested for nil. *)
LoadFailsUnconnected(r) ==
    /\ WorkerAt(r, "invoke")
    /\ FileSource
    /\ Write(r, "loadError")
    /\ WorkerTo(r, "send")
    /\ UNCHANGED <<registryVars, requestVars, client, ctx, handler, conn>>

(* invoke(): the descriptor files are read anew for each request.  On an    *)
(* error it returns before "defer reset()".                                 *)
LoadFails(r) ==
    /\ WorkerAt(r, "invoke")
    /\ conn[r] = "open"
    /\ FileSource
    /\ Write(r, "loadError")
    /\ WorkerTo(r, "send")
    /\ UNCHANGED <<registryVars, requestVars, client, ctx, handler, conn>>

LoadSucceeds(r) ==
    /\ WorkerAt(r, "invoke")
    /\ conn[r] = "open"
    /\ WorkerTo(r, "rpc")
    /\ UNCHANGED <<registryVars, requestVars, client, ctx, handler, conn, writes>>

(* reset(), deferred: it has run when invoke has returned.                  *)
Reset(r) == conn' = [conn EXCEPT ![r] = "closed"]

(* Mutant of RpcPanics: reset() is called at the end, not deferred. *)
RpcPanicsUndeferred(r) ==
    /\ WorkerAt(r, "rpc")
    /\ WorkerTo(r, "panicked")
    /\ UNCHANGED <<registryVars, requestVars, client, ctx, handler, conn, writes>>

(* InvokeRPC panics with a nil descriptor source, and invokeServerStream    *)
(* when the stream could not be opened.  async.GO recovers; nothing is sent *)
(* on done.                                                                 *)
RpcPanics(r) ==
    /\ WorkerAt(r, "rpc")
    /\ Reset(r)
    /\ WorkerTo(r, "panicked")
    /\ UNCHANGED <<registryVars, requestVars, client, ctx, handler, writes>>

HasDescriptors == UseReflection \/ FileSource

(* A response message is formatted by the event handler. *)
RpcResponds(r) ==
    /\ WorkerAt(r, "rpc")
    /\ HasDescriptors
    /\ Len(writes[r]) < MaxMessages
    /\ Write(r, "message")
    /\ UNCHANGED <<registryVars, requestVars, client, ctx, handler, worker, conn>>

(* Mutant of RpcFails: the return after the envelope is missing. *)
RpcFailsThrough(r) ==
    /\ WorkerAt(r, "rpc")
    /\ writes' = [writes EXCEPT ![r] = @ \o
                     <<Entry("rpcError", handler[r] \in Left),
                       Entry("status", handler[r] \in Left)>>]
    /\ Reset(r)
    /\ WorkerTo(r, "send")
    /\ UNCHANGED <<registryVars, requestVars, client, ctx, handler>>

(* InvokeRPC returns an error, one envelope.  The error for an empty method *)
(* name precedes any use of the descriptor source.                          *)
RpcFails(r) ==
    /\ WorkerAt(r, "rpc")
    /\ Write(r, "rpcError")
    /\ Reset(r)
    /\ WorkerTo(r, "send")
    /\ UNCHANGED <<registryVars, requestVars, client, ctx, handler>>

(* InvokeRPC returns nil: PrintStatus writes a status that is not OK. *)
RpcEnds(r) ==
    /\ WorkerAt(r, "rpc")
    /\ HasDescriptors
    /\ Write(r, "status") \/ UNCHANGED writes
    /\ Reset(r)
    /\ WorkerTo(r, "send")
    /\ UNCHANGED <<registryVars, requestVars, client, ctx, handler>>

-----------------------------------------------------------------------------
(* The client, and net/http's reader that notices it has gone. *)
BodySent(r) ==
    /\ up
    /\ client[r] = "sending"
    /\ client' = [client EXCEPT ![r] = "waiting"]
    /\ UNCHANGED <<registryVars, requestVars, ctx, handler, worker, conn, writes>>

ClientGone(r) ==
    /\ up
    /\ client[r] # "gone"
    /\ client' = [client EXCEPT ![r] = "gone"]
    /\ UNCHANGED <<registryVars, requestVars, ctx, handler, worker, conn, writes>>

NoticeGone(r) ==
    /\ up
    /\ client[r] = "gone"
    /\ ctx[r] = "live"
    /\ ctx' = [ctx EXCEPT ![r] = "done"]
    /\ UNCHANGED <<registryVars, requestVars, client, handler, worker, conn, writes>>

-----------------------------------------------------------------------------
HandlerStep(r) ==
    \/ HandlerPanics(r) \/ HandlerRegisters(r) \/ HandlerAsks(r) \/ HandlerAnswered(r)
    \/ Dialed(r) \/ DialFails(r) \/ SystemError(r) \/ SystemErrorUnwritten(r)
    \/ Timeout(r) \/ Cancelled(r) \/ Receive(r)

WorkerPrepares(r) ==
    \/ WorkerRegisters(r) \/ WorkerAsks(r) \/ WorkerAnswered(r)
    \/ NoConnection(r) \/ LoadFails(r) \/ LoadSucceeds(r)

RpcStops(r) == RpcPanics(r) \/ RpcFails(r) \/ RpcEnds(r)

ClientStep(r) == BodySent(r) \/ ClientGone(r) \/ NoticeGone(r)

(* A step of the shared configuration, by a goroutine inside Register. *)
ConfigStep(a) == Inside(a) /\ UNCHANGED gatewayVars

GatewayNext ==
    \/ \E r \in Request :
           \/ HandlerStep(r) \/ WorkerPrepares(r)
           \/ RpcResponds(r) \/ RpcStops(r)
           \/ ClientStep(r)
    \/ \E a \in Actor : ConfigStep(a)

(* The scheduler runs what can run: dial has a timeout, the select a timer. *)
(* An RPC is only bound to stop when its context is done and it is not      *)
(* waiting for the rest of the request's body.                              *)
GatewayFairness ==
    /\ \A r \in Request :
           /\ WF_vars(HandlerStep(r))
           /\ WF_vars(WorkerPrepares(r))
           /\ WF_vars(ctx[r] = "done" /\ client[r] # "sending" /\ RpcStops(r))
    /\ \A a \in Actor : WF_vars(ConfigStep(a))

GatewaySpec == GatewayInit /\ [][GatewayNext]_vars /\ GatewayFairness

-----------------------------------------------------------------------------
TypeOK ==
    /\ registryType \in RegistryType
    /\ header \in [Request -> Headers]
    /\ service \in [Request -> Service]
    /\ client \in [Request -> {"sending", "waiting", "gone"}]
    /\ ctx \in [Request -> {"live", "done"}]
    /\ handler \in [Request -> HandlerPC]
    /\ worker \in [Request -> WorkerPC]
    /\ conn \in [Request -> {"none", "open", "closed"}]
    /\ writes \in [Request -> Seq([what : Text, late : BOOLEAN])]

(* invoke has returned, or the worker will never run again. *)
InvokeOver(r) == worker[r] \in Stopped \cup {"send"}

(* The services an element gives an address to, and those among them that a *)
(* later one leaves blank.                                                  *)
Addressed == UNION {Element[i].given : i \in 1..N}
Blanked == {svc \in Service :
    \E i \in 1..N : \E j \in (i + 1)..N :
        svc \in Element[i].given /\ svc \in Element[j].blank}

(* A connection stays open when the worker is done with it only in two      *)
(* cases: the descriptor files could not be loaded, or the worker's lookup  *)
(* missed a service that a later element of the file blanked after the      *)
(* handler's had found it.  On every other path, panics of the RPC          *)
(* included, the deferred reset has closed it (endpoint.go 59-64, 162-202). *)
LeakOnlyBeforeDefer ==
    \A r \in Request :
        InvokeOver(r) /\ conn[r] = "open" =>
            \/ Wrote(r, "loadError")
            \/ worker[r] = "unregistered" /\ service[r] \in Blanked

(* The worker writes to a response net/http has taken back only when the    *)
(* timer or the context ended the request (endpoint.go 71-84).              *)
LateOnlyAfterEarlyExit ==
    \A r \in Request :
        (\E i \in DOMAIN writes[r] : writes[r][i].late)
            => handler[r] \in {"timedOut", "cancelled"}

(* After a failed dial the handler goes on, but the RPC is never attempted: *)
(* the response holds "system error", at most one more envelope of the      *)
(* handler, and nothing of the worker (endpoint.go 48-55, 145-147).         *)
SystemErrorIsAlone ==
    \A r \in Request :
        Wrote(r, "systemError") =>
            /\ conn[r] = "none"
            /\ Len(writes[r]) \in 1..2
            /\ writes[r][1].what = "systemError"
            /\ Len(writes[r]) = 2 =>
                   /\ writes[r][2].what \in {"requestTimeout", "requestCancelled"}
                   /\ handler[r] \in {"timedOut", "cancelled"}

(* A request whose headers are refused never gets a connection, and never   *)
(* ends by done: having been told "system error" its client still waits for *)
(* the timer, because the worker refuses it again in silence                *)
(* (endpoint.go 59-64).                                                     *)
RefusedNeverFinishes ==
    \A r \in Request :
        HeaderRefused(r) => conn[r] = "none" /\ handler[r] # "finished"

(* The response of a request that ended by done is whole: nothing the       *)
(* handler says about time-outs is in it, and whatever ends a response -    *)
(* an error envelope or a status - is its last entry (endpoint.go 264-288). *)
CompleteReply ==
    \A r \in Request :
        handler[r] = "finished" =>
            \A i \in DOMAIN writes[r] :
                /\ writes[r][i].what \notin {"requestTimeout", "requestCancelled"}
                /\ writes[r][i].what # "message" => i = Len(writes[r])

(* Handler and worker look the same service up at two moments of a load     *)
(* that other requests may be running.  When the first lookup let the       *)
(* handler dial, the second refuses the worker only for a service that one  *)
(* element gives an address to and a later one leaves blank; a load that    *)
(* fails takes nothing back (endpoint.go 59, 129, config.go 362).           *)
MissedOnlyIfBlanked ==
    \A r \in Request :
        conn[r] # "none" /\ worker[r] = "unregistered" => service[r] \in Blanked

(* With the local registry only services some element gives an address to   *)
(* are dialled, whatever part of the file has been read (local.go 37-40).   *)
DialsOnlyConfigured ==
    \A r \in Request :
        registryType = "local" /\ conn[r] # "none" => service[r] \in Addressed

(* Every request is answered: its handler returns, or the process is down.  *)
Answered == \A r \in Request : <>(handler[r] \in Left \/ ~up)

(* Once its client has sent its body, or has gone, a worker that was        *)
(* started comes to an end, or to the send on done - where it stays for     *)
(* good if the handler has left (endpoint.go 66).                           *)
Settled ==
    \A r \in Request :
        worker[r] # "none" /\ client[r] # "sending" ~> InvokeOver(r) \/ ~up

-----------------------------------------------------------------------------
(* What a comment of endpoint.go says: line 191, "arrange for the RPCs to be cleanly shutdown": when invoke is  *)
(* over the connection is not open.                                         *)
CleanShutdown ==
    \A r \in Request : InvokeOver(r) => conn[r] # "open"
=============================================================================
