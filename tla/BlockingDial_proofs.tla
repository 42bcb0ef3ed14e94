------------------------- MODULE BlockingDial_proofs -------------------------
(* What becomes of a connection, for any number of attempts.                  *)
EXTENDS BlockingDial, TLAPS

TypeInv ==
    /\ ctx \in {"live", "done"}
    /\ result \in {"empty", "error", "conn"}
    /\ caller \in {"waiting"} \cup Returned
    /\ dialer \in {"idle", "dialing", "ready", "temporary", "permanent"}
    /\ attempts \in Nat
    /\ connector \in {"dialing", "conn", "error", "connected", "failed"}
    /\ dropped \in SUBSET {"error", "conn"}

(* A connection is out only after its report, and then in one place. *)
InChannel == result = "conn"
WithCaller == caller = "conn"
Dropped == "conn" \in dropped

ConnInv ==
    /\ connector # "connected" => ~InChannel /\ ~WithCaller /\ ~Dropped
    /\ connector = "connected" => InChannel \/ WithCaller \/ Dropped
    /\ ~(InChannel /\ WithCaller) /\ ~(InChannel /\ Dropped) /\ ~(WithCaller /\ Dropped)

(* As long as dialing has not failed, an error that was reported is that of  *)
(* an attempt before the one that goes on or has succeeded.                  *)
Reported == result = "error" \/ caller = "error"

AttemptsInv ==
    /\ dialer # "idle" => attempts >= 1
    /\ connector \in {"conn", "connected"} => dialer = "ready"
    /\ connector \in {"dialing", "conn", "connected"} /\ Reported =>
          /\ attempts >= 1
          /\ dialer \in {"dialing", "ready"} => attempts > 1

CtxInv == caller # "waiting" => ctx = "done"

Inv == TypeInv /\ ConnInv /\ AttemptsInv /\ CtxInv /\ LostOnlyToRetryOrExpiry

(* The invariant holds initially and every step of dialer, connector, caller *)
(* or context preserves it.                                                  *)
LEMMA InitInv == Init => Inv
  BY DEF Init, Inv, TypeInv, ConnInv, InChannel, WithCaller, Dropped, AttemptsInv,
         Reported, CtxInv, LostOnlyToRetryOrExpiry, Returned

LEMMA NextInv == Inv /\ [Next]_vars => Inv'
<1> SUFFICES ASSUME Inv, [Next]_vars PROVE Inv'
  OBVIOUS
<1> USE DEF Inv, TypeInv, ConnInv, InChannel, WithCaller, Dropped, AttemptsInv,
            Reported, CtxInv, LostOnlyToRetryOrExpiry, Returned
<1>1. CASE Attempt
  BY <1>1 DEF Attempt
<1>2. CASE AttemptSucceeds
  BY <1>2 DEF AttemptSucceeds
<1>3. CASE AttemptFails
  BY <1>3 DEF AttemptFails, writeResult
<1>4. CASE Retry
  BY <1>4 DEF Retry
<1>5. CASE DialContextReturns
  BY <1>5 DEF DialContextReturns
<1>6. CASE Report
  <2>1. CASE connector = "conn"
    BY <1>6, <2>1 DEF Report, writeResult
  <2>2. CASE connector = "error"
    BY <1>6, <2>2 DEF Report, writeResult
  <2>3. QED
    BY <1>6, <2>1, <2>2 DEF Report
<1>7. CASE TakeResult
  BY <1>7 DEF TakeResult, Return
<1>8. CASE Expire
  BY <1>8 DEF Expire, Return
<1>9. CASE ContextEnds
  BY <1>9 DEF ContextEnds
<1>10. CASE UNCHANGED vars
  BY <1>10 DEF vars
<1>11. QED
  BY <1>1, <1>2, <1>3, <1>4, <1>5, <1>6, <1>7, <1>8, <1>9, <1>10 DEF Next

LEMMA InvHolds == Spec => []Inv
<1>1. QED
  BY InitInv, NextInv, PTL DEF Spec

(* A ready connection has exactly one holder, however the reports race       *)
(* (gateway.go 618-624, 673-684).                                            *)
THEOREM ConnectionHasOneHolder == Spec => []OneHolder
<1>1. Inv => OneHolder
  <2> SUFFICES ASSUME Inv PROVE OneHolder
    OBVIOUS
  <2>1. CASE connector \notin {"conn", "connected"}
    BY <2>1 DEF Inv, ConnInv, InChannel, WithCaller, Dropped, OneHolder, Holders
  <2>2. CASE connector = "conn"
    <3>1. Holders = {"connector"}
      BY <2>2 DEF Inv, ConnInv, InChannel, WithCaller, Dropped, Holders
    <3>2. QED
      BY <2>2, <3>1 DEF OneHolder
  <2>3. CASE connector = "connected" /\ InChannel
    <3>1. Holders = {"channel"}
      BY <2>3 DEF Inv, ConnInv, InChannel, WithCaller, Dropped, Holders
    <3>2. QED
      BY <2>3, <3>1 DEF OneHolder
  <2>4. CASE connector = "connected" /\ WithCaller
    <3>1. Holders = {"caller"}
      BY <2>4 DEF Inv, ConnInv, InChannel, WithCaller, Dropped, Holders
    <3>2. QED
      BY <2>4, <3>1 DEF OneHolder
  <2>5. CASE connector = "connected" /\ Dropped
    <3>1. Holders = {"nobody"}
      BY <2>5 DEF Inv, ConnInv, InChannel, WithCaller, Dropped, Holders
    <3>2. QED
      BY <2>5, <3>1 DEF OneHolder
  <2>6. QED
    BY <2>1, <2>2, <2>3, <2>4, <2>5 DEF Inv, ConnInv
<1>2. QED
  BY InvHolds, <1>1, PTL

(* A connection is lost only behind the error of an earlier attempt or to    *)
(* the end of the context (gateway.go 642-645, 682).                         *)
THEOREM LostToRetryOrExpiry == Spec => []LostOnlyToRetryOrExpiry
<1>1. Inv => LostOnlyToRetryOrExpiry
  BY DEF Inv
<1>2. QED
  BY InvHolds, <1>1, PTL

(* No connection becomes ready once the call has returned (endpoint.go       *)
(* 99-100).                                                                  *)
THEOREM NoConnectionAfterReturn == Spec => NoConnAfterReturn
<1>1. Inv /\ [Next]_vars => [caller # "waiting" /\ connector = "dialing" => connector' # "conn"]_vars
  <2> SUFFICES ASSUME Inv, Next, caller # "waiting", connector = "dialing"
               PROVE  connector' # "conn"
    BY DEF vars
  <2>1. ctx = "done"
    BY DEF Inv, CtxInv
  <2>2. CASE DialContextReturns
    BY <2>1, <2>2 DEF DialContextReturns
  <2>3. CASE ~DialContextReturns
    BY <2>3 DEF Next, Attempt, AttemptSucceeds, AttemptFails, writeResult, Retry, Report,
               TakeResult, Expire, Return, ContextEnds
  <2>4. QED
    BY <2>2, <2>3
<1>2. QED
  BY InvHolds, <1>1, PTL DEF Spec, NoConnAfterReturn
=============================================================================
