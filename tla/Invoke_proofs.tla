--------------------------- MODULE Invoke_proofs ---------------------------
(* Theorems about Invoke, for any bodies and any number of responses. *)
EXTENDS Invoke, TLAPS

Unopened == {"resolve", "first", "second", "open"}
Uploading == {"upload", "uploading"}
Before == Unopened \cup Uploading \cup {"await", "receive"}
Failed == {"data", "rejected"}

(* Which places of the two goroutines, the stream and the outcome go        *)
(* together.                                                                *)
Control ==
    /\ main = "over" <=> rpc # "running"
    /\ main \in Before => err = "none"
    /\ main \in Before \cup {"report"} => status = "nil"
    /\ main = "report" => err \in {"none", "unopened", "server", "cancelled", "rejected"}
    /\ main = "report" /\ stream # "open" => err = "unopened"
    /\ main \in {"first", "second"} => SingleRequest
    /\ main \in Uploading => kind = "clientStream"
    /\ main = "await" => SingleResponse
    /\ main = "receive" => ~SingleResponse
    /\ main \in Unopened => stream = "none"
    /\ main \in Before \ Unopened => stream = "open"
    /\ stream # "open" => sender = "none" /\ served = 0 /\ final = "none" /\ ~halfClosed
    /\ kind # "bidi" => sender = "none"
    /\ sendErr # "none" => sender = "ended"

(* What has been delivered, and what is known of it when the call ends.     *)
Delivery ==
    /\ SingleResponse => served <= 1 /\ (final = "ok" => served = 1)
    /\ SingleResponse /\ main \in Before => delivered = 0
    /\ main = "report" /\ err = "none" => final = "ok" /\ delivered = served

(* Why a context has ended. *)
Reasons ==
    /\ main = "report" /\ err = "cancelled" => ctx # "live"
    /\ ctx = "cancelled" /\ main # "over" =>
           sender \in Failed \/ sendErr \in Failed \/ err = "rejected" \/ status = "rejected"
    /\ status = "cancelled" => ctx = "done" \/ sender \in Failed \/ sendErr \in Failed

(* How far the upload is. *)
Upload ==
    /\ main = "first" => read = 0
    /\ main = "second" => read = 1
    /\ main = "open" /\ SingleRequest => sent /\ read = Len(body) /\ read <= 1
    /\ main \in {"resolve", "open"} /\ ~SingleRequest => read = 0
    /\ main = "resolve" => read = 0
    /\ main = "upload" \/ sender = "read" => got = read
    /\ main = "uploading" \/ sender = "send" => read = got + 1
    /\ halfClosed /\ ~StreamOver =>
           sent /\ main \notin Uploading /\ sender \notin {"read", "send"}

(* The inductive invariant: the safety properties and what they rest on.    *)
IInv ==
    /\ TypeOK
    /\ Control
    /\ Delivery
    /\ Reasons
    /\ Upload
    /\ AllDelivered
    /\ WholeUpload
    /\ NothingLeftBehind

-----------------------------------------------------------------------------

(* Each action of the call keeps the invariant: first what main does, ... *)
LEMMA ResolveKeeps == ASSUME IInv, Resolve PROVE IInv'
<1>1. TypeOK'
  BY DEF IInv, TypeOK, Resolve, bodyVars, streamVars, serverVars, senderVars, outcome,
    Item, MainTo, ReturnWith, SingleRequest
<1>2. Control'
  BY DEF IInv, Control, Resolve, bodyVars, streamVars, serverVars, senderVars,
    outcome, MainTo, ReturnWith, SingleRequest, SingleResponse, Unopened, Uploading,
    Before
<1>3. Delivery'
  BY DEF IInv, Delivery, Resolve, bodyVars, streamVars, serverVars, senderVars,
    outcome, MainTo, ReturnWith, SingleRequest, SingleResponse, Unopened, Uploading,
    Before
<1>4. Reasons'
  BY DEF IInv, Control, Reasons, Resolve, bodyVars, streamVars, serverVars,
    senderVars, outcome, MainTo, ReturnWith, SingleRequest, SingleResponse, Unopened,
    Uploading, Before, Failed
<1>5. Upload'
  BY DEF IInv, Upload, Resolve, bodyVars, streamVars, serverVars, senderVars, outcome,
    MainTo, ReturnWith, SingleRequest, StreamOver, Uploading
<1>6. AllDelivered'
  BY DEF IInv, AllDelivered, Resolve, bodyVars, streamVars, serverVars, senderVars,
    outcome, MainTo, ReturnWith, SingleRequest
<1>7. WholeUpload'
  BY DEF IInv, WholeUpload, Resolve, bodyVars, streamVars, serverVars, senderVars,
    outcome, MainTo, ReturnWith, SingleRequest, StreamOver
<1>8. NothingLeftBehind'
  BY DEF IInv, NothingLeftBehind, Resolve, bodyVars, streamVars, serverVars,
    senderVars, outcome, MainTo, ReturnWith, SingleRequest, StreamOver
<1> QED
  BY <1>1, <1>2, <1>3, <1>4, <1>5, <1>6, <1>7, <1>8 DEF IInv

LEMMA ReadRequestKeeps == ASSUME IInv, ReadRequest PROVE IInv'
<1>1. TypeOK'
  BY DEF IInv, TypeOK, ReadRequest, bodyVars, streamVars, serverVars, senderVars,
    outcome, Item, Consumed, NextItem, Readable, MainTo, ReturnWith
<1>2. Control'
  BY DEF IInv, Control, ReadRequest, bodyVars, streamVars, serverVars, senderVars,
    outcome, Consumed, NextItem, Readable, MainTo, ReturnWith, SingleRequest,
    SingleResponse, Unopened, Uploading, Before
<1>3. Delivery'
  BY DEF IInv, Delivery, ReadRequest, bodyVars, streamVars, serverVars, senderVars,
    outcome, Consumed, NextItem, Readable, MainTo, ReturnWith, SingleResponse,
    Unopened, Uploading, Before
<1>4. Reasons'
  BY DEF IInv, Control, Reasons, ReadRequest, bodyVars, streamVars, serverVars,
    senderVars, outcome, Consumed, NextItem, Readable, MainTo, ReturnWith,
    SingleRequest, SingleResponse, Unopened, Uploading, Before, Failed
<1>5. Upload'
  BY DEF IInv, TypeOK, Control, Upload, ReadRequest, bodyVars, streamVars, serverVars,
    senderVars, outcome, Item, Consumed, NextItem, Readable, MainTo, ReturnWith,
    SingleRequest, SingleResponse, StreamOver, Unopened, Uploading, Before
<1>6. AllDelivered'
  BY DEF IInv, AllDelivered, ReadRequest, bodyVars, streamVars, serverVars,
    senderVars, outcome, Consumed, NextItem, Readable, MainTo, ReturnWith
<1>7. WholeUpload'
  BY DEF IInv, WholeUpload, ReadRequest, bodyVars, streamVars, serverVars, senderVars,
    outcome, Consumed, NextItem, Readable, MainTo, ReturnWith, SingleRequest,
    StreamOver
<1>8. NothingLeftBehind'
  BY DEF IInv, NothingLeftBehind, ReadRequest, bodyVars, streamVars, serverVars,
    senderVars, outcome, Consumed, NextItem, Readable, MainTo, ReturnWith, StreamOver
<1> QED
  BY <1>1, <1>2, <1>3, <1>4, <1>5, <1>6, <1>7, <1>8 DEF IInv

LEMMA OpenKeeps == ASSUME IInv, Open PROVE IInv'
<1>1. TypeOK'
  BY DEF IInv, TypeOK, Open, bodyVars, serverVars, outcome, Item, MainTo,
    SingleRequest
<1>2. Control'
  BY DEF IInv, Control, Open, bodyVars, serverVars, outcome, MainTo, SingleRequest,
    SingleResponse, Unopened, Uploading, Before
<1>3. Delivery'
  BY DEF IInv, Delivery, Open, bodyVars, serverVars, outcome, MainTo, SingleRequest,
    SingleResponse, Unopened, Uploading, Before
<1>4. Reasons'
  BY DEF IInv, Control, Reasons, Open, bodyVars, serverVars, outcome, MainTo,
    SingleRequest, SingleResponse, Unopened, Uploading, Before, Failed
<1>5. Upload'
  BY DEF IInv, Upload, Open, bodyVars, serverVars, outcome, MainTo, SingleRequest,
    StreamOver, Uploading
<1>6. AllDelivered'
  BY DEF IInv, AllDelivered, Open, bodyVars, serverVars, outcome, MainTo,
    SingleRequest
<1>7. WholeUpload'
  BY DEF IInv, TypeOK, Control, Upload, WholeUpload, Open, bodyVars, serverVars,
    outcome, Item, MainTo, SingleRequest, SingleResponse, StreamOver, Unopened,
    Uploading, Before
<1>8. NothingLeftBehind'
  BY DEF IInv, Control, NothingLeftBehind, Open, bodyVars, serverVars, outcome,
    MainTo, SingleRequest, SingleResponse, StreamOver, Unopened, Uploading, Before
<1> QED
  BY <1>1, <1>2, <1>3, <1>4, <1>5, <1>6, <1>7, <1>8 DEF IInv

LEMMA OpenFailsKeeps == ASSUME IInv, OpenFails PROVE IInv'
<1>1. TypeOK'
  BY DEF IInv, TypeOK, OpenFails, bodyVars, serverVars, senderVars, Item
<1>2. Control'
  BY DEF IInv, Control, OpenFails, bodyVars, serverVars, senderVars, SingleRequest,
    SingleResponse, Unopened, Uploading, Before
<1>3. Delivery'
  BY DEF IInv, Delivery, OpenFails, bodyVars, serverVars, senderVars, SingleResponse,
    Unopened, Uploading, Before
<1>4. Reasons'
  BY DEF IInv, Control, Reasons, OpenFails, bodyVars, serverVars, senderVars,
    SingleRequest, SingleResponse, Unopened, Uploading, Before, Failed
<1>5. Upload'
  BY DEF IInv, Upload, OpenFails, bodyVars, serverVars, senderVars, SingleRequest,
    StreamOver, Uploading
<1>6. AllDelivered'
  BY DEF IInv, AllDelivered, OpenFails, bodyVars, serverVars, senderVars
<1>7. WholeUpload'
  BY DEF IInv, WholeUpload, OpenFails, bodyVars, serverVars, senderVars,
    SingleRequest, StreamOver
<1>8. NothingLeftBehind'
  BY DEF IInv, Control, NothingLeftBehind, OpenFails, bodyVars, serverVars,
    senderVars, SingleRequest, SingleResponse, StreamOver, Unopened, Uploading, Before
<1> QED
  BY <1>1, <1>2, <1>3, <1>4, <1>5, <1>6, <1>7, <1>8 DEF IInv

LEMMA UploadReadKeeps == ASSUME IInv, UploadRead PROVE IInv'
<1>1. TypeOK'
  BY DEF IInv, TypeOK, UploadRead, bodyVars, serverVars, senderVars, outcome, Item,
    Consumed, NextItem, Readable, MainTo, ReturnWith
<1>2. Control'
  BY DEF IInv, Control, UploadRead, bodyVars, serverVars, senderVars, outcome,
    Consumed, NextItem, Readable, MainTo, ReturnWith, SingleRequest, SingleResponse,
    Unopened, Uploading, Before
<1>3. Delivery'
  BY DEF IInv, Delivery, UploadRead, bodyVars, serverVars, senderVars, outcome,
    Consumed, NextItem, Readable, MainTo, ReturnWith, SingleResponse, Unopened,
    Uploading, Before
<1>4. Reasons'
  BY DEF IInv, Control, Reasons, UploadRead, bodyVars, serverVars, senderVars,
    outcome, Consumed, NextItem, Readable, MainTo, ReturnWith, SingleRequest,
    SingleResponse, Unopened, Uploading, Before, Failed
<1>5. Upload'
  BY DEF IInv, TypeOK, Control, Upload, UploadRead, bodyVars, serverVars, senderVars,
    outcome, Item, Consumed, NextItem, Readable, MainTo, ReturnWith, SingleRequest,
    SingleResponse, StreamOver, Unopened, Uploading, Before
<1>6. AllDelivered'
  BY DEF IInv, AllDelivered, UploadRead, bodyVars, serverVars, senderVars, outcome,
    Consumed, NextItem, Readable, MainTo, ReturnWith
<1>7. WholeUpload'
  BY DEF IInv, TypeOK, Control, Upload, WholeUpload, UploadRead, bodyVars, serverVars,
    senderVars, outcome, Item, Consumed, NextItem, Readable, MainTo, ReturnWith,
    SingleRequest, SingleResponse, StreamOver, Unopened, Uploading, Before
<1>8. NothingLeftBehind'
  BY DEF IInv, NothingLeftBehind, UploadRead, bodyVars, serverVars, senderVars,
    outcome, Consumed, NextItem, Readable, MainTo, ReturnWith, StreamOver
<1> QED
  BY <1>1, <1>2, <1>3, <1>4, <1>5, <1>6, <1>7, <1>8 DEF IInv

LEMMA UploadSendKeeps == ASSUME IInv, UploadSend PROVE IInv'
<1>1. TypeOK'
  <2>1. got' \in Nat
    BY DEF IInv, TypeOK, UploadSend
  <2>2. err' \in {err, "rejected"} /\ main' \in {"upload", "await", "report"}
    BY DEF UploadSend, MainTo
  <2>3. ctx' \in {"live", "done", "cancelled"}
    BY DEF IInv, TypeOK, UploadSend, Cancel
  <2>4. halfClosed' \in BOOLEAN
    <3>1. halfClosed' = halfClosed \/ halfClosed' = TRUE
      BY DEF UploadSend
    <3>2. halfClosed \in BOOLEAN
      BY DEF IInv, TypeOK
    <3> QED
      BY <3>1, <3>2
  <2>5. UNCHANGED <<bodyVars, read, stream, serverVars, senderVars, outcome>>
    BY DEF UploadSend
  <2> QED
    BY <2>1, <2>2, <2>3, <2>4, <2>5 DEF IInv, TypeOK, bodyVars, serverVars, senderVars,
      outcome
<1>2. Control'
  BY DEF IInv, Control, UploadSend, bodyVars, serverVars, senderVars, outcome, MainTo,
    Cancel, SingleRequest, SingleResponse, StreamOver, Unopened, Uploading, Before
<1>3. Delivery'
  BY DEF IInv, Delivery, UploadSend, bodyVars, serverVars, senderVars, outcome,
    MainTo, Cancel, SingleResponse, StreamOver, Unopened, Uploading, Before
<1>4. Reasons'
  BY DEF IInv, Reasons, UploadSend, bodyVars, serverVars, senderVars, outcome, MainTo,
    Cancel, StreamOver, Failed
<1>5. Upload'
  BY DEF IInv, Control, Upload, UploadSend, bodyVars, serverVars, senderVars, outcome,
    MainTo, Cancel, SingleRequest, SingleResponse, StreamOver, Unopened, Uploading,
    Before
<1>6. AllDelivered'
  BY DEF IInv, AllDelivered, UploadSend, bodyVars, serverVars, senderVars, outcome,
    MainTo, Cancel, StreamOver
<1>7. WholeUpload'
  BY DEF IInv, TypeOK, Control, Upload, WholeUpload, UploadSend, bodyVars, serverVars,
    senderVars, outcome, Item, MainTo, Cancel, SingleRequest, SingleResponse,
    StreamOver, Unopened, Uploading, Before
<1>8. NothingLeftBehind'
  BY DEF IInv, NothingLeftBehind, UploadSend, bodyVars, serverVars, senderVars,
    outcome, MainTo, Cancel, StreamOver
<1> QED
  BY <1>1, <1>2, <1>3, <1>4, <1>5, <1>6, <1>7, <1>8 DEF IInv

LEMMA AwaitKeeps == ASSUME IInv, Await PROVE IInv'
<1>1. TypeOK'
  <2>1. /\ delivered' \in 0..served
        /\ err' \in {"none", "unresolved", "data", "many", "unopened", "server",
                     "cancelled", "rejected"}
    <3>1. CASE final = "ok" /\ Deliver /\ UNCHANGED err
      BY <3>1 DEF IInv, TypeOK, Control, Delivery, Await, Deliver, Before
    <3>2. CASE err' \in {"server", "cancelled"} /\ UNCHANGED <<delivered, written>>
      BY <3>2 DEF IInv, TypeOK
    <3> QED
      BY <3>1, <3>2 DEF Await
  <2>2. written' \in Seq({"message", "status", "rpcError"})
    <3>1. written \in Seq({"message", "status", "rpcError"})
      BY DEF IInv, TypeOK
    <3>2. written' \in {written, Append(written, "message")}
      BY DEF Await, Deliver
    <3> QED
      BY <3>1, <3>2
  <2> QED
    BY <2>1, <2>2 DEF IInv, TypeOK, Await, bodyVars, streamVars, serverVars, senderVars
<1>2. Control'
  BY DEF IInv, Control, Await, bodyVars, streamVars, serverVars, senderVars, Deliver,
    SingleRequest, SingleResponse, Unopened, Uploading, Before
<1>3. Delivery'
  BY DEF IInv, Control, Delivery, Await, bodyVars, streamVars, serverVars, senderVars,
    Deliver, SingleRequest, SingleResponse, Unopened, Uploading, Before
<1>4. Reasons'
  BY DEF IInv, Control, Reasons, Await, bodyVars, streamVars, serverVars, senderVars,
    Deliver, SingleRequest, SingleResponse, Unopened, Uploading, Before, Failed
<1>5. Upload'
  BY DEF IInv, Upload, Await, bodyVars, streamVars, serverVars, senderVars, Deliver,
    SingleRequest, StreamOver, Uploading
<1>6. AllDelivered'
  BY DEF IInv, Control, AllDelivered, Await, bodyVars, streamVars, serverVars,
    senderVars, Deliver, SingleRequest, SingleResponse, Unopened, Uploading, Before
<1>7. WholeUpload'
  BY DEF IInv, WholeUpload, Await, bodyVars, streamVars, serverVars, senderVars,
    Deliver, SingleRequest, StreamOver
<1>8. NothingLeftBehind'
  BY DEF IInv, NothingLeftBehind, Await, bodyVars, streamVars, serverVars, senderVars,
    Deliver, StreamOver
<1> QED
  BY <1>1, <1>2, <1>3, <1>4, <1>5, <1>6, <1>7, <1>8 DEF IInv

LEMMA ReceiveKeeps == ASSUME IInv, Receive PROVE IInv'
<1>1. TypeOK'
  BY InvokeAssumption DEF IInv, TypeOK, Receive, bodyVars, streamVars, serverVars,
    senderVars, Item, Deliver
<1>2. Control'
  BY DEF IInv, Control, Receive, bodyVars, streamVars, serverVars, senderVars,
    Deliver, SingleRequest, SingleResponse, Unopened, Uploading, Before
<1>3. Delivery'
  BY DEF IInv, Control, Delivery, Receive, bodyVars, streamVars, serverVars,
    senderVars, Deliver, SingleRequest, SingleResponse, Unopened, Uploading, Before
<1>4. Reasons'
  BY DEF IInv, Reasons, Receive, bodyVars, streamVars, serverVars, senderVars,
    Deliver, Failed
<1>5. Upload'
  BY DEF IInv, Upload, Receive, bodyVars, streamVars, serverVars, senderVars, Deliver,
    SingleRequest, StreamOver, Uploading
<1>6. AllDelivered'
  BY DEF IInv, Control, AllDelivered, Receive, bodyVars, streamVars, serverVars,
    senderVars, Deliver, SingleRequest, SingleResponse, Unopened, Uploading, Before
<1>7. WholeUpload'
  BY DEF IInv, WholeUpload, Receive, bodyVars, streamVars, serverVars, senderVars,
    Deliver, SingleRequest, StreamOver
<1>8. NothingLeftBehind'
  BY DEF IInv, NothingLeftBehind, Receive, bodyVars, streamVars, serverVars,
    senderVars, Deliver, StreamOver
<1> QED
  BY <1>1, <1>2, <1>3, <1>4, <1>5, <1>6, <1>7, <1>8 DEF IInv

LEMMA ReceiveEndsKeeps == ASSUME IInv, ReceiveEnds PROVE IInv'
<1>1. TypeOK'
  BY DEF IInv, TypeOK, ReceiveEnds, bodyVars, streamVars, serverVars, senderVars,
    outcome, Item
<1>2. Control'
  BY DEF IInv, Control, ReceiveEnds, bodyVars, streamVars, serverVars, senderVars,
    outcome, SingleRequest, SingleResponse, Unopened, Uploading, Before
<1>3. Delivery'
  BY DEF IInv, Delivery, ReceiveEnds, bodyVars, streamVars, serverVars, senderVars,
    outcome, SingleResponse, Unopened, Uploading, Before
<1>4. Reasons'
  BY DEF IInv, Control, Reasons, ReceiveEnds, bodyVars, streamVars, serverVars,
    senderVars, outcome, SingleRequest, SingleResponse, Unopened, Uploading, Before,
    Failed
<1>5. Upload'
  BY DEF IInv, Upload, ReceiveEnds, bodyVars, streamVars, serverVars, senderVars,
    outcome, SingleRequest, StreamOver, Uploading
<1>6. AllDelivered'
  BY DEF IInv, AllDelivered, ReceiveEnds, bodyVars, streamVars, serverVars,
    senderVars, outcome
<1>7. WholeUpload'
  BY DEF IInv, WholeUpload, ReceiveEnds, bodyVars, streamVars, serverVars, senderVars,
    outcome, SingleRequest, StreamOver
<1>8. NothingLeftBehind'
  BY DEF IInv, NothingLeftBehind, ReceiveEnds, bodyVars, streamVars, serverVars,
    senderVars, outcome, StreamOver
<1> QED
  BY <1>1, <1>2, <1>3, <1>4, <1>5, <1>6, <1>7, <1>8 DEF IInv

LEMMA ReportKeeps == ASSUME IInv, Report PROVE IInv'
<1>1. TypeOK'
  BY DEF IInv, TypeOK, Control, Report, bodyVars, streamVars, serverVars, senderVars,
    Item, ReturnWith, SingleRequest, SingleResponse, Unopened, Uploading, Before
<1>2. Control'
  BY DEF IInv, Control, Report, bodyVars, streamVars, serverVars, senderVars,
    ReturnWith, SingleRequest, SingleResponse, Unopened, Uploading, Before
<1>3. Delivery'
  BY DEF IInv, Delivery, Report, bodyVars, streamVars, serverVars, senderVars,
    ReturnWith, SingleResponse, Unopened, Uploading, Before
<1>4. Reasons'
  BY DEF IInv, TypeOK, Control, Reasons, Report, bodyVars, streamVars, serverVars,
    senderVars, Item, ReturnWith, SingleRequest, SingleResponse, Unopened, Uploading,
    Before, Failed
<1>5. Upload'
  BY DEF IInv, Upload, Report, bodyVars, streamVars, serverVars, senderVars,
    ReturnWith, SingleRequest, StreamOver, Uploading
<1>6. AllDelivered'
  BY DEF IInv, TypeOK, Control, Delivery, AllDelivered, Report, bodyVars, streamVars,
    serverVars, senderVars, Item, ReturnWith, SingleRequest, SingleResponse, Unopened,
    Uploading, Before
<1>7. WholeUpload'
  BY DEF IInv, WholeUpload, Report, bodyVars, streamVars, serverVars, senderVars,
    ReturnWith, SingleRequest, StreamOver
<1>8. NothingLeftBehind'
  BY DEF IInv, NothingLeftBehind, Report, bodyVars, streamVars, serverVars,
    senderVars, ReturnWith, StreamOver
<1> QED
  BY <1>1, <1>2, <1>3, <1>4, <1>5, <1>6, <1>7, <1>8 DEF IInv

(* ... then the sender, ... *)
LEMMA SenderReadsKeeps == ASSUME IInv, SenderReads PROVE IInv'
<1>1. TypeOK'
  BY DEF IInv, TypeOK, SenderReads, bodyVars, serverVars, outcome, Item, Consumed,
    NextItem, Readable, Cancel, AfterRead
<1>2. Control'
  BY DEF IInv, Control, SenderReads, bodyVars, serverVars, outcome, Consumed,
    NextItem, Readable, Cancel, AfterRead, SingleRequest, SingleResponse, Unopened,
    Uploading, Before
<1>3. Delivery'
  BY DEF IInv, Delivery, SenderReads, bodyVars, serverVars, outcome, Consumed,
    NextItem, Readable, Cancel, AfterRead, SingleResponse, Unopened, Uploading, Before
<1>4. Reasons'
  BY DEF IInv, Reasons, SenderReads, bodyVars, serverVars, outcome, Consumed,
    NextItem, Readable, Cancel, AfterRead, Failed
<1>5. Upload'
  BY DEF IInv, TypeOK, Control, Upload, SenderReads, bodyVars, serverVars, outcome,
    Item, Consumed, NextItem, Readable, Cancel, AfterRead, SingleRequest,
    SingleResponse, StreamOver, Unopened, Uploading, Before
<1>6. AllDelivered'
  BY DEF IInv, AllDelivered, SenderReads, bodyVars, serverVars, outcome, Consumed,
    NextItem, Readable, Cancel, AfterRead
<1>7. WholeUpload'
  BY DEF IInv, TypeOK, Control, Upload, WholeUpload, SenderReads, bodyVars,
    serverVars, outcome, Item, Consumed, NextItem, Readable, Cancel, AfterRead,
    SingleRequest, SingleResponse, StreamOver, Unopened, Uploading, Before
<1>8. NothingLeftBehind'
  BY DEF IInv, NothingLeftBehind, SenderReads, bodyVars, serverVars, outcome,
    Consumed, NextItem, Readable, Cancel, AfterRead, StreamOver
<1> QED
  BY <1>1, <1>2, <1>3, <1>4, <1>5, <1>6, <1>7, <1>8 DEF IInv

LEMMA SenderSendsKeeps == ASSUME IInv, SenderSends PROVE IInv'
<1>1. TypeOK'
  BY DEF IInv, TypeOK, SenderSends, bodyVars, serverVars, outcome, Item, Cancel,
    StreamOver
<1>2. Control'
  BY DEF IInv, Control, SenderSends, bodyVars, serverVars, outcome, Cancel,
    SingleRequest, SingleResponse, StreamOver, Unopened, Uploading, Before
<1>3. Delivery'
  BY DEF IInv, Delivery, SenderSends, bodyVars, serverVars, outcome, Cancel,
    SingleResponse, StreamOver, Unopened, Uploading, Before
<1>4. Reasons'
  BY DEF IInv, Reasons, SenderSends, bodyVars, serverVars, outcome, Cancel,
    StreamOver, Failed
<1>5. Upload'
  BY DEF IInv, Control, Upload, SenderSends, bodyVars, serverVars, outcome, Cancel,
    SingleRequest, SingleResponse, StreamOver, Unopened, Uploading, Before
<1>6. AllDelivered'
  BY DEF IInv, AllDelivered, SenderSends, bodyVars, serverVars, outcome, Cancel,
    StreamOver
<1>7. WholeUpload'
  BY DEF IInv, TypeOK, Control, Upload, WholeUpload, SenderSends, bodyVars,
    serverVars, outcome, Item, Cancel, SingleRequest, SingleResponse, StreamOver,
    Unopened, Uploading, Before
<1>8. NothingLeftBehind'
  BY DEF IInv, NothingLeftBehind, SenderSends, bodyVars, serverVars, outcome, Cancel,
    StreamOver
<1> QED
  BY <1>1, <1>2, <1>3, <1>4, <1>5, <1>6, <1>7, <1>8 DEF IInv

LEMMA SenderStoresKeeps == ASSUME IInv, SenderStores PROVE IInv'
<1>1. TypeOK'
  BY DEF IInv, TypeOK, SenderStores, bodyVars, streamVars, serverVars, outcome, Item
<1>2. Control'
  BY DEF IInv, Control, SenderStores, bodyVars, streamVars, serverVars, outcome,
    SingleRequest, SingleResponse, Unopened, Uploading, Before
<1>3. Delivery'
  BY DEF IInv, Delivery, SenderStores, bodyVars, streamVars, serverVars, outcome,
    SingleResponse, Unopened, Uploading, Before
<1>4. Reasons'
  BY DEF IInv, Control, Reasons, SenderStores, bodyVars, streamVars, serverVars,
    outcome, SingleRequest, SingleResponse, Unopened, Uploading, Before, Failed
<1>5. Upload'
  BY DEF IInv, Upload, SenderStores, bodyVars, streamVars, serverVars, outcome,
    SingleRequest, StreamOver, Uploading
<1>6. AllDelivered'
  BY DEF IInv, AllDelivered, SenderStores, bodyVars, streamVars, serverVars, outcome
<1>7. WholeUpload'
  BY DEF IInv, WholeUpload, SenderStores, bodyVars, streamVars, serverVars, outcome,
    SingleRequest, StreamOver
<1>8. NothingLeftBehind'
  BY DEF IInv, NothingLeftBehind, SenderStores, bodyVars, streamVars, serverVars,
    outcome, StreamOver
<1> QED
  BY <1>1, <1>2, <1>3, <1>4, <1>5, <1>6, <1>7, <1>8 DEF IInv

(* ... the return of the call, ... *)
LEMMA ReturnKeeps == ASSUME IInv, Return PROVE IInv'
<1>1. TypeOK'
  <2>1. written \in Seq({"message", "status", "rpcError"})
    BY DEF IInv, TypeOK
  <2>2. written' \in {written, Append(written, "rpcError"), Append(written, "status")}
    BY DEF Return, Conclude
  <2>3. written' \in Seq({"message", "status", "rpcError"})
    BY <2>1, <2>2
  <2>4. rpc' \in {"failed", "ended"}
    BY DEF Return, Conclude
  <2> QED
    BY <2>3, <2>4 DEF IInv, TypeOK, Return, Cancel, bodyVars, streamVars, serverVars,
      senderVars
<1>2. Control'
  BY DEF IInv, Control, Return, bodyVars, streamVars, serverVars, senderVars, Cancel,
    Conclude, SingleRequest, SingleResponse, Unopened, Uploading, Before
<1>3. Delivery'
  BY DEF IInv, Delivery, Return, bodyVars, streamVars, serverVars, senderVars, Cancel,
    Conclude, SingleResponse, Unopened, Uploading, Before
<1>4. Reasons'
  BY DEF IInv, Reasons, Return, bodyVars, streamVars, serverVars, senderVars, Cancel,
    Conclude, Failed
<1>5. Upload'
  BY DEF IInv, Upload, Return, bodyVars, streamVars, serverVars, senderVars, Cancel,
    Conclude, SingleRequest, StreamOver, Uploading
<1>6. AllDelivered'
  BY DEF IInv, AllDelivered, Return, bodyVars, streamVars, serverVars, senderVars,
    Cancel, Conclude
<1>7. WholeUpload'
  BY DEF IInv, WholeUpload, Return, bodyVars, streamVars, serverVars, senderVars,
    Cancel, Conclude, SingleRequest, StreamOver
<1>8. NothingLeftBehind'
  BY DEF IInv, NothingLeftBehind, Return, bodyVars, streamVars, serverVars,
    senderVars, Cancel, Conclude, StreamOver
<1> QED
  BY <1>1, <1>2, <1>3, <1>4, <1>5, <1>6, <1>7, <1>8 DEF IInv

(* ... and the world around it. *)
LEMMA ContextEndsKeeps == ASSUME IInv, ContextEnds PROVE IInv'
<1>1. TypeOK'
  BY DEF IInv, TypeOK, ContextEnds, bodyVars, streamVars, serverVars, senderVars,
    outcome, Item
<1>2. Control'
  BY DEF IInv, Control, ContextEnds, bodyVars, streamVars, serverVars, senderVars,
    outcome, SingleRequest, SingleResponse, Unopened, Uploading, Before
<1>3. Delivery'
  BY DEF IInv, Delivery, ContextEnds, bodyVars, streamVars, serverVars, senderVars,
    outcome, SingleResponse, Unopened, Uploading, Before
<1>4. Reasons'
  BY DEF IInv, Reasons, ContextEnds, bodyVars, streamVars, serverVars, senderVars,
    outcome, Failed
<1>5. Upload'
  BY DEF IInv, Upload, ContextEnds, bodyVars, streamVars, serverVars, senderVars,
    outcome, SingleRequest, StreamOver, Uploading
<1>6. AllDelivered'
  BY DEF IInv, AllDelivered, ContextEnds, bodyVars, streamVars, serverVars,
    senderVars, outcome
<1>7. WholeUpload'
  BY DEF IInv, WholeUpload, ContextEnds, bodyVars, streamVars, serverVars, senderVars,
    outcome, SingleRequest, StreamOver
<1>8. NothingLeftBehind'
  BY DEF IInv, NothingLeftBehind, ContextEnds, bodyVars, streamVars, serverVars,
    senderVars, outcome, StreamOver
<1> QED
  BY <1>1, <1>2, <1>3, <1>4, <1>5, <1>6, <1>7, <1>8 DEF IInv

LEMMA ServerRespondsKeeps == ASSUME IInv, ServerResponds PROVE IInv'
<1>1. TypeOK'
  BY InvokeAssumption DEF IInv, TypeOK, ServerResponds, bodyVars, streamVars,
    senderVars, outcome, Item, SingleResponse, StreamOver
<1>2. Control'
  BY DEF IInv, Control, ServerResponds, bodyVars, streamVars, senderVars, outcome,
    SingleRequest, SingleResponse, StreamOver, Unopened, Uploading, Before
<1>3. Delivery'
  BY DEF IInv, TypeOK, Delivery, ServerResponds, bodyVars, streamVars, senderVars,
    outcome, Item, SingleResponse, StreamOver, Unopened, Uploading, Before
<1>4. Reasons'
  BY DEF IInv, Reasons, ServerResponds, bodyVars, streamVars, senderVars, outcome,
    SingleResponse, StreamOver, Failed
<1>5. Upload'
  BY DEF IInv, Upload, ServerResponds, bodyVars, streamVars, senderVars, outcome,
    SingleRequest, SingleResponse, StreamOver, Uploading
<1>6. AllDelivered'
  BY DEF IInv, AllDelivered, ServerResponds, bodyVars, streamVars, senderVars,
    outcome, SingleResponse, StreamOver
<1>7. WholeUpload'
  BY DEF IInv, WholeUpload, ServerResponds, bodyVars, streamVars, senderVars, outcome,
    SingleRequest, SingleResponse, StreamOver
<1>8. NothingLeftBehind'
  BY DEF IInv, NothingLeftBehind, ServerResponds, bodyVars, streamVars, senderVars,
    outcome, SingleResponse, StreamOver
<1> QED
  BY <1>1, <1>2, <1>3, <1>4, <1>5, <1>6, <1>7, <1>8 DEF IInv

LEMMA ServerEndsKeeps == ASSUME IInv, ServerEnds PROVE IInv'
<1>1. TypeOK'
  BY DEF IInv, TypeOK, ServerEnds, bodyVars, streamVars, senderVars, outcome, Item,
    SingleResponse, StreamOver
<1>2. Control'
  BY DEF IInv, Control, ServerEnds, bodyVars, streamVars, senderVars, outcome,
    SingleRequest, SingleResponse, StreamOver, Unopened, Uploading, Before
<1>3. Delivery'
  BY DEF IInv, Delivery, ServerEnds, bodyVars, streamVars, senderVars, outcome,
    SingleResponse, StreamOver, Unopened, Uploading, Before
<1>4. Reasons'
  BY DEF IInv, Reasons, ServerEnds, bodyVars, streamVars, senderVars, outcome,
    SingleResponse, StreamOver, Failed
<1>5. Upload'
  BY DEF IInv, Upload, ServerEnds, bodyVars, streamVars, senderVars, outcome,
    SingleRequest, SingleResponse, StreamOver, Uploading
<1>6. AllDelivered'
  BY DEF IInv, AllDelivered, ServerEnds, bodyVars, streamVars, senderVars, outcome,
    SingleResponse, StreamOver
<1>7. WholeUpload'
  BY DEF IInv, WholeUpload, ServerEnds, bodyVars, streamVars, senderVars, outcome,
    SingleRequest, SingleResponse, StreamOver
<1>8. NothingLeftBehind'
  BY DEF IInv, NothingLeftBehind, ServerEnds, bodyVars, streamVars, senderVars,
    outcome, SingleResponse, StreamOver
<1> QED
  BY <1>1, <1>2, <1>3, <1>4, <1>5, <1>6, <1>7, <1>8 DEF IInv

LEMMA BodyComesKeeps == ASSUME IInv, BodyComes PROVE IInv'
<1>1. TypeOK'
  <2>1. body' \in Seq(Item) /\ read \in 0..Len(body')
    <3>1. CASE UNCHANGED body
      BY <3>1 DEF IInv, TypeOK
    <3>2. ASSUME NEW n \in read..Len(body), body' = Append(SubSeq(body, 1, n), "bad")
          PROVE  body' \in Seq(Item) /\ read \in 0..Len(body')
      BY <3>2 DEF IInv, TypeOK, Item
    <3> QED
      BY <3>1, <3>2 DEF BodyComes
  <2> QED
    BY <2>1 DEF IInv, TypeOK, BodyComes, streamVars, serverVars, senderVars, outcome
<1>2. Control'
  BY DEF IInv, Control, BodyComes, streamVars, serverVars, senderVars, outcome,
    SingleRequest, SingleResponse, Unopened, Uploading, Before
<1>3. Delivery'
  BY DEF IInv, Delivery, BodyComes, streamVars, serverVars, senderVars, outcome,
    SingleResponse, Unopened, Uploading, Before
<1>4. Reasons'
  BY DEF IInv, Reasons, BodyComes, streamVars, serverVars, senderVars, outcome, Failed
<1>5. Upload'
  BY DEF IInv, Upload, BodyComes, streamVars, serverVars, senderVars, outcome,
    SingleRequest, StreamOver, Uploading
<1>6. AllDelivered'
  BY DEF IInv, AllDelivered, BodyComes, streamVars, serverVars, senderVars, outcome
<1>7. WholeUpload'
  BY DEF IInv, TypeOK, Control, Upload, WholeUpload, BodyComes, streamVars,
    serverVars, senderVars, outcome, Item, SingleRequest, SingleResponse, StreamOver,
    Unopened, Uploading, Before
<1>8. NothingLeftBehind'
  BY DEF IInv, NothingLeftBehind, BodyComes, streamVars, serverVars, senderVars,
    outcome, StreamOver
<1> QED
  BY <1>1, <1>2, <1>3, <1>4, <1>5, <1>6, <1>7, <1>8 DEF IInv

-----------------------------------------------------------------------------
LEMMA InitIInv == Init => IInv
<1> SUFFICES ASSUME Init PROVE IInv
  OBVIOUS
<1>1. TypeOK
  <2>1. body \in Seq(Item) /\ read \in 0..Len(body)
    BY InvokeAssumption DEF Init
  <2>2. served \in 0..MaxResponses /\ delivered \in 0..served
    BY InvokeAssumption DEF Init
  <2>3. written \in Seq({"message", "status", "rpcError"}) /\ rpc = "running"
    BY DEF Init, Contract!Init
  <2>4. sent \in BOOLEAN /\ halfClosed \in BOOLEAN
    BY DEF Init
  <2> QED
    BY <2>1, <2>2, <2>3, <2>4 DEF Init, TypeOK
<1>2. Control /\ Delivery
  BY DEF Init, Control, Delivery, Contract!Init, Before, Unopened, Uploading
<1>3. Reasons /\ Upload
  BY DEF Init, Reasons, Upload, Uploading
<1>4. AllDelivered /\ WholeUpload /\ NothingLeftBehind
  BY DEF Init, AllDelivered, WholeUpload, NothingLeftBehind, Contract!Init
<1> QED
  BY <1>1, <1>2, <1>3, <1>4 DEF IInv

LEMMA NextIInv == IInv /\ [Next]_vars => IInv'
<1> SUFFICES ASSUME IInv, [Next]_vars PROVE IInv'
  OBVIOUS
<1>1. CASE MainReads
  BY <1>1, ReadRequestKeeps, UploadReadKeeps DEF MainReads
<1>2. CASE MainStep
  BY <1>2, ResolveKeeps, OpenKeeps, OpenFailsKeeps, UploadSendKeeps, AwaitKeeps,
     ReceiveKeeps, ReceiveEndsKeeps, ReportKeeps, ReturnKeeps DEF MainStep
<1>3. CASE SenderReads \/ SenderStep
  BY <1>3, SenderReadsKeeps, SenderSendsKeeps, SenderStoresKeeps DEF SenderStep
<1>4. CASE Environment
  BY <1>4, BodyComesKeeps, ContextEndsKeeps, ServerRespondsKeeps, ServerEndsKeeps
     DEF Environment
<1>5. CASE UNCHANGED vars
  <2> USE <1>5 DEF vars, bodyVars, streamVars, serverVars, senderVars, outcome
  <2>1. TypeOK' /\ Control'
    BY DEF IInv, TypeOK, Control, SingleRequest, SingleResponse
  <2>2. Delivery' /\ Reasons' /\ Upload'
    BY DEF IInv, Delivery, Reasons, Upload, SingleRequest, SingleResponse, StreamOver
  <2>3. AllDelivered' /\ WholeUpload' /\ NothingLeftBehind'
    BY DEF IInv, AllDelivered, WholeUpload, NothingLeftBehind, SingleRequest, StreamOver
  <2> QED
    BY <2>1, <2>2, <2>3 DEF IInv
<1> QED
  BY <1>1, <1>2, <1>3, <1>4, <1>5 DEF Next

LEMMA SpecIInv == Spec => []IInv
<1> QED
  BY InitIInv, NextIInv, PTL DEF Spec

-----------------------------------------------------------------------------
(* Every variable of a call keeps its type (invoke.go 87-376). *)
THEOREM InvokeTypes == Spec => []TypeOK
<1>1. IInv => TypeOK
  BY DEF IInv
<1> QED
  BY <1>1, SpecIInv, PTL

(* A call is reported as OK only when the server ended it well and all its  *)
(* responses were delivered (invoke.go 271-291, 347-373).                   *)
THEOREM OkIsComplete == Spec => []AllDelivered
<1>1. IInv => AllDelivered
  BY DEF IInv
<1> QED
  BY <1>1, SpecIInv, PTL

(* For a body of any length: the server is told of its end only after all   *)
(* of it was sent (invoke.go 156-169, 201-220, 317-334).                    *)
THEOREM UploadIsWhole == Spec => []WholeUpload
<1>1. IInv => WholeUpload
  BY DEF IInv
<1> QED
  BY <1>1, SpecIInv, PTL

(* A cancellation nobody outside asked for is explained by an error of the  *)
(* sender that was stored by the time the call returned (invoke.go 318-337, *)
(* 360-362).                                                                *)
THEOREM CancellationHasReason == Spec => []CancelledForAReason
<1>1. IInv => CancelledForAReason
  <2> SUFFICES ASSUME IInv, rpc = "ended", status = "cancelled"
               PROVE  ctx = "done" \/ sendErr \in Failed
    BY DEF CancelledForAReason, Failed
  <2>1. main = "over"
    BY DEF IInv, Control
  <2>2. sender \notin Failed
    BY <2>1 DEF IInv, NothingLeftBehind, Failed
  <2> QED
    BY <2>2 DEF IInv, Reasons
<1> QED
  BY <1>1, SpecIInv, PTL

(* A call that has stopped leaves no sender and no open stream behind       *)
(* (invoke.go 139-140, 299-308).                                            *)
THEOREM NothingIsLeft == Spec => []NothingLeftBehind
<1>1. IInv => NothingLeftBehind
  BY DEF IInv
<1> QED
  BY <1>1, SpecIInv, PTL

(* The detailed call implements the abstract one: every step is a step of   *)
(* RpcContract or leaves its variables alone (endpoint.go 264-288).         *)
THEOREM CallImplementsContract == Spec => ImplementsContract
<1>1. Init => Contract!Init
  BY DEF Init
<1>2. IInv /\ [Next]_vars => [Contract!Next]_<<rpc, written>>
  <2> SUFFICES ASSUME IInv, [Next]_vars
               PROVE  Contract!Next \/ UNCHANGED <<rpc, written>>
    OBVIOUS
  <2>1. main # "over" => rpc = "running"
    BY DEF IInv, Control
  <2>2. CASE OpenFails
    BY <2>1, <2>2 DEF OpenFails, Contract!Next, Contract!Panics
  <2>3. CASE Await \/ Receive
    BY <2>1, <2>3 DEF Await, Receive, Deliver, Contract!Next, Contract!Responds
  <2>4. CASE Return
    <3>1. CASE err # "none"
      BY <2>1, <2>4, <3>1 DEF Return, Conclude, Contract!Next, Contract!Fails
    <3>2. CASE err = "none"
      BY <2>1, <2>4, <3>2 DEF Return, Conclude, Contract!Next, Contract!Ends
    <3> QED
      BY <3>1, <3>2
  <2>5. CASE Resolve \/ Open \/ UploadSend \/ ReceiveEnds \/ Report
    BY <2>5 DEF Resolve, Open, UploadSend, ReceiveEnds, Report, outcome
  <2>6. CASE MainReads \/ SenderReads \/ SenderStep
    BY <2>6 DEF MainReads, ReadRequest, UploadRead, SenderReads, SenderStep, SenderSends,
      SenderStores, outcome
  <2>7. CASE Environment
    BY <2>7 DEF Environment, BodyComes, ContextEnds, ServerResponds, ServerEnds, outcome
  <2>8. CASE UNCHANGED vars
    BY <2>8 DEF vars, outcome
  <2> QED
    BY <2>2, <2>3, <2>4, <2>5, <2>6, <2>7, <2>8 DEF Next, MainStep
<1> QED
  BY <1>1, <1>2, SpecIInv, PTL DEF Spec, ImplementsContract, Contract!Spec
=============================================================================
