---------------------------- MODULE BlockingDial ----------------------------
(***************************************************************************)
(* BlockingDial (gateway.go 608-685), as dial() of endpoint.go calls it.    *)
(*                                                                         *)
(* Three parties write to or read from the channel result, of capacity 1:   *)
(* the custom dialer, which reports every failed attempt at a network       *)
(* connection (the credentials' wrapper does the same for a failed          *)
(* handshake); the goroutine that runs grpc.DialContext, which reports how  *)
(* that ends; and the caller, which takes the first report or gives up when *)
(* its context ends.  All writes are non-blocking.                          *)
(*                                                                         *)
(* grpc.DialContext is external.  It starts one attempt at a time, returns  *)
(* an error after an attempt that failed for good (FailOnNonTempDialError), *)
(* tries again after a temporary failure, and fails, closing what it has,   *)
(* when it finds the context done.                                          *)
(***************************************************************************)
EXTENDS Naturals

CONSTANT MaxAttempts  \* bound: attempts of one call

ASSUME AttemptsAssumption == MaxAttempts \in Nat \ {0}

VARIABLES
    ctx,      \* the context of the call: "live" or "done"
    result,   \* the channel: "empty", "error" or "conn"
    caller,   \* the goroutine in BlockingDial
    dialer,   \* the current attempt
    attempts, \* the attempts begun
    connector,\* the goroutine that runs grpc.DialContext
    dropped   \* what writeResult threw away

vars == <<ctx, result, caller, dialer, attempts, connector, dropped>>

Returned == {"conn", "error", "expired"}

Init ==
    /\ ctx = "live"
    /\ result = "empty"
    /\ caller = "waiting"
    /\ dialer = "idle"
    /\ attempts = 0
    /\ connector = "dialing"
    /\ dropped = {}

(* Mutant of writeResult: a plain send, which waits for room. *)
writeResultBlocking(res) ==
    /\ result = "empty"
    /\ result' = res
    /\ UNCHANGED dropped

(* writeResult: the report is dropped when there is one in the channel.     *)
writeResult(res) ==
    IF result = "empty"
    THEN result' = res /\ UNCHANGED dropped
    ELSE dropped' = dropped \cup {res} /\ UNCHANGED result

-----------------------------------------------------------------------------
(* grpc calls the dialer, *)
Attempt ==
    /\ connector = "dialing"
    /\ dialer = "idle"
    /\ attempts < MaxAttempts
    /\ dialer' = "dialing"
    /\ attempts' = attempts + 1
    /\ UNCHANGED <<ctx, result, caller, connector, dropped>>

(* Mutant of AttemptSucceeds: the dialer reports whatever it got. *)
AttemptSucceedsReporting ==
    /\ dialer = "dialing"
    /\ dialer' = "ready"
    /\ writeResult("error")
    /\ UNCHANGED <<ctx, caller, attempts, connector>>

(* which connects, and the handshake succeeds, *)
AttemptSucceeds ==
    /\ dialer = "dialing"
    /\ dialer' = "ready"
    /\ UNCHANGED <<ctx, result, caller, attempts, connector, dropped>>

(* or fails, and reports the error before grpc has seen it. *)
AttemptFails ==
    /\ dialer = "dialing"
    /\ \E kind \in {"temporary", "permanent"} : dialer' = kind
    /\ writeResult("error")
    /\ UNCHANGED <<ctx, caller, attempts, connector>>

(* grpc backs off after a temporary failure. *)
Retry ==
    /\ connector = "dialing"
    /\ dialer = "temporary"
    /\ dialer' = "idle"
    /\ UNCHANGED <<ctx, result, caller, attempts, connector, dropped>>

(* grpc.DialContext returns, ... *)
DialContextReturns ==
    /\ connector = "dialing"
    /\ \/ ctx = "live" /\ dialer = "ready" /\ connector' = "conn"
       \/ ctx = "live" /\ dialer = "permanent" /\ connector' = "error"
       \/ ctx = "done" /\ connector' = "error"
    /\ UNCHANGED <<ctx, result, caller, dialer, attempts, dropped>>

(* ... and its goroutine reports and ends. *)
Report ==
    /\ connector \in {"conn", "error"}
    /\ writeResult(connector)
    /\ connector' = IF connector = "conn" THEN "connected" ELSE "failed"
    /\ UNCHANGED <<ctx, caller, dialer, attempts>>

-----------------------------------------------------------------------------
(* Mutant of Return: dial() does not defer its cancel. *)
ReturnUncancelled(outcome) ==
    /\ caller = "waiting"
    /\ caller' = outcome
    /\ UNCHANGED <<ctx, dialer, attempts, connector, dropped>>

(* BlockingDial returns, and dial()'s deferred cancel ends the context. *)
Return(outcome) ==
    /\ caller = "waiting"
    /\ caller' = outcome
    /\ ctx' = "done"
    /\ UNCHANGED <<dialer, attempts, connector, dropped>>

(* Mutant of TakeResult: the report is looked at but left in the channel. *)
TakeResultPeeking ==
    /\ result # "empty"
    /\ Return(result)
    /\ UNCHANGED result

TakeResult ==
    /\ result # "empty"
    /\ Return(result)
    /\ result' = "empty"

Expire ==
    /\ ctx = "done"
    /\ Return("expired")
    /\ UNCHANGED result

(* The time-out of dial(), or the request's context. *)
ContextEnds ==
    /\ ctx = "live"
    /\ ctx' = "done"
    /\ UNCHANGED <<result, caller, dialer, attempts, connector, dropped>>

Next ==
    \/ Attempt \/ AttemptSucceeds \/ AttemptFails \/ Retry
    \/ DialContextReturns \/ Report
    \/ TakeResult \/ Expire \/ ContextEnds

(* The time-out fires; DialContext notices its context.  An attempt need    *)
(* not end.                                                                 *)
Fairness ==
    /\ WF_vars(ContextEnds)
    /\ WF_vars(DialContextReturns)
    /\ WF_vars(Report)
    /\ WF_vars(TakeResult \/ Expire)

Spec == Init /\ [][Next]_vars /\ Fairness

-----------------------------------------------------------------------------
(* A ready connection has exactly one holder: the goroutine that made it,   *)
(* the channel, the caller, or nobody when it was dropped.                  *)
Holders ==
    (IF connector = "conn" THEN {"connector"} ELSE {}) \cup
    (IF result = "conn" THEN {"channel"} ELSE {}) \cup
    (IF caller = "conn" THEN {"caller"} ELSE {}) \cup
    (IF "conn" \in dropped THEN {"nobody"} ELSE {})

(* The connection is never duplicated and never vanishes unaccounted for    *)
(* (gateway.go 618-624, 673-684).                                           *)
OneHolder ==
    IF connector \in {"conn", "connected"}
    THEN \E h \in Holders : Holders = {h}
    ELSE Holders = {}

(* A connection is lost - dropped, or left in the channel after the call -  *)
(* only when a report of an earlier, failed attempt was first, or when the  *)
(* context ended as the connection became ready (gateway.go 642-645, 682).  *)
LostOnlyToRetryOrExpiry ==
    "conn" \in dropped \/ (result = "conn" /\ caller # "waiting")
        => attempts > 1 \/ caller = "expired"

(* Once the caller has returned and grpc has seen the end of the context,   *)
(* no connection becomes ready any more: the window in which one can be     *)
(* lost closes with the call (gateway.go 611, endpoint.go 99-100).          *)
NoConnAfterReturn ==
    [][caller # "waiting" /\ connector = "dialing" => connector' # "conn"]_vars

(* The goroutine that dials always ends, whoever is still reading. *)
ConnectorEnds == <>(connector \in {"connected", "failed"})
=============================================================================
