--------------------------- MODULE Gateway_proofs ---------------------------
(***************************************************************************)
(* Proofs about Gateway, for any requests, headers, services and file.     *)
(***************************************************************************)
EXTENDS Gateway, LocalRegistry_proofs

WroteLate(r) == \E i \in DOMAIN writes[r] : writes[r][i].late

(* How far the two goroutines of a request may be apart, and what each      *)
(* place of the worker says about the connection.                           *)
Control(r) ==
    /\ worker[r] = "none" <=>
           handler[r] \in {"start", "lookup", "dial", "refused", "gaveUp", "aborted"}
    /\ handler[r] = "finished" <=> worker[r] = "quit"
    /\ conn[r] # "none" => worker[r] # "none"
    /\ worker[r] = "rpc" => conn[r] = "open"
    /\ worker[r] = "panicked" => conn[r] = "closed"
    /\ conn[r] = "closed" => worker[r] \in {"send", "quit", "panicked"}
    /\ conn[r] = "open" /\ worker[r] \in {"send", "quit"} => Wrote(r, "loadError")
    /\ WroteLate(r) => handler[r] \in {"timedOut", "cancelled"}
    /\ HeaderRefused(r) =>
           /\ conn[r] = "none"
           /\ handler[r] \notin {"lookup", "dial", "finished"}
           /\ worker[r] \in {"none", "register", "unregistered"}

(* What a request knows of the registry: the service that let it dial stays *)
(* in it, unless a later element of the file blanks it.                     *)
Lookups(r) ==
    /\ handler[r] = "lookup" =>
           /\ registryType = "local"
           /\ call[<<r, "handler">>].pc # "idle"
           /\ call[<<r, "handler">>].svc = service[r]
    /\ worker[r] = "lookup" =>
           /\ registryType = "local"
           /\ call[<<r, "worker">>].pc # "idle"
           /\ call[<<r, "worker">>].svc = service[r]
           /\ conn[r] # "none" /\ call[<<r, "worker">>].pc = "missing"
                  => service[r] \in Blanked
    /\ registryType = "local" /\ (handler[r] = "dial" \/ conn[r] # "none")
           => service[r] \in registry \cup Blanked
    /\ conn[r] # "none" /\ worker[r] = "unregistered" => service[r] \in Blanked

(* What the response holds.  Until a handler leaves early, each entry but   *)
(* the last is a message, and a worker that can still respond has found     *)
(* nothing else there.                                                      *)
Reply(r) ==
    /\ worker[r] = "none" => writes[r] = <<>>
    /\ worker[r] # "none" /\ conn[r] = "none" =>
           /\ writes[r][1].what = "systemError"
           /\ handler[r] \notin {"timedOut", "cancelled"} => Len(writes[r]) = 1
           /\ handler[r] \in {"timedOut", "cancelled"} =>
                  /\ Len(writes[r]) = 2
                  /\ writes[r][2].what \in {"requestTimeout", "requestCancelled"}
    /\ conn[r] # "none" => ~Wrote(r, "systemError")
    /\ handler[r] \notin {"timedOut", "cancelled"} =>
           \A i \in DOMAIN writes[r] :
               /\ writes[r][i].what \notin {"requestTimeout", "requestCancelled"}
               /\ writes[r][i].what # "message" =>
                      /\ i = Len(writes[r])
                      /\ conn[r] # "none" => worker[r] \in {"send", "quit"}

(* What a lookup has found is still there, or has been blanked since.       *)
FoundIsRegistered ==
    \A a \in Actor : call[a].pc = "found" => call[a].svc \in registry \cup Blanked

(* The inductive invariant. *)
GatewayIInv ==
    /\ TypeOK
    /\ RegistryIInv
    /\ FoundIsRegistered
    /\ \A r \in Request : Control(r) /\ Lookups(r) /\ Reply(r)

-----------------------------------------------------------------------------
LEMMA ActorsOf ==
  ASSUME NEW r \in Request
  PROVE  /\ <<r, "handler">> \in Actor
         /\ <<r, "worker">> \in Actor
  BY ActorAssumption

(* What a write does to the response, and to nobody else's. *)
LEMMA WriteFacts ==
  ASSUME TypeOK, NEW r \in Request, NEW what \in Text, Write(r, what)
  PROVE  /\ writes' \in [Request -> Seq([what : Text, late : BOOLEAN])]
         /\ \A s \in Request : s # r => writes'[s] = writes[s]
         /\ DOMAIN writes[r] = 1..Len(writes[r])
         /\ DOMAIN writes'[r] = 1..(Len(writes[r]) + 1)
         /\ Len(writes[r]) \in Nat
         /\ Len(writes'[r]) = Len(writes[r]) + 1
         /\ \A i \in 1..Len(writes[r]) : writes'[r][i] = writes[r][i]
         /\ writes'[r][Len(writes[r]) + 1].what = what
         /\ writes'[r][Len(writes[r]) + 1].late = (handler[r] \in Left)
<1> DEFINE Entries == [what : Text, late : BOOLEAN]
           e == Entry(what, handler[r] \in Left)
<1>1. e \in Entries /\ e.what = what /\ e.late = (handler[r] \in Left)
  BY DEF Entry
<1>2. writes[r] \in Seq(Entries) /\ writes \in [Request -> Seq(Entries)]
  BY DEF TypeOK
<1>3. writes' = [writes EXCEPT ![r] = Append(writes[r], e)]
  BY DEF Write, Append1
<1>4. writes'[r] = Append(writes[r], e)
  BY <1>2, <1>3
<1> HIDE DEF e, Entries
<1>5. /\ Append(writes[r], e) \in Seq(Entries)
      /\ Len(writes[r]) \in Nat
      /\ DOMAIN writes[r] = 1..Len(writes[r])
      /\ Len(Append(writes[r], e)) = Len(writes[r]) + 1
      /\ DOMAIN Append(writes[r], e) = 1..(Len(writes[r]) + 1)
      /\ \A i \in 1..Len(writes[r]) : Append(writes[r], e)[i] = writes[r][i]
      /\ Append(writes[r], e)[Len(writes[r]) + 1] = e
  BY <1>1, <1>2
<1>6. writes' \in [Request -> Seq(Entries)] /\ \A s \in Request : s # r => writes'[s] = writes[s]
  BY <1>2, <1>3, <1>5
<1> QED
  BY <1>1, <1>4, <1>5, <1>6 DEF Entries

(* The same, for the predicates on responses. *)
LEMMA WriteWrites ==
  ASSUME TypeOK, NEW r \in Request, NEW what \in Text, Write(r, what)
  PROVE  /\ \A t : Wrote(r, t)' <=> Wrote(r, t) \/ t = what
         /\ WroteLate(r)' <=> WroteLate(r) \/ handler[r] \in Left
<1> DEFINE n == Len(writes[r]) + 1
<1>1. 1..n = 1..Len(writes[r]) \cup {n}
  BY WriteFacts
<1>2. /\ DOMAIN writes'[r] = DOMAIN writes[r] \cup {n}
      /\ \A i \in DOMAIN writes[r] : writes'[r][i] = writes[r][i]
      /\ writes'[r][n].what = what
      /\ writes'[r][n].late = (handler[r] \in Left)
  BY <1>1, WriteFacts
<1> HIDE DEF n
<1>3. ASSUME NEW t PROVE Wrote(r, t)' <=> Wrote(r, t) \/ t = what
  BY <1>2 DEF Wrote
<1>4. WroteLate(r)' <=> WroteLate(r) \/ handler[r] \in Left
  <2>1. CASE handler[r] \in Left
    BY <1>2, <2>1 DEF WroteLate
  <2>2. CASE handler[r] \notin Left
    BY <1>2, <2>2 DEF WroteLate
  <2> QED
    BY <2>1, <2>2
<1> QED
  BY <1>3, <1>4

-----------------------------------------------------------------------------
(* A step of one request, by either of its goroutines or by its client.     *)
RequestStep(r) ==
    \/ HandlerStep(r) \/ WorkerPrepares(r)
    \/ RpcResponds(r) \/ RpcStops(r) \/ ClientStep(r)

LEMMA GatewayInitTypes == GatewayInit => TypeOK
<1>1. <<>> \in Seq([what : Text, late : BOOLEAN])
  OBVIOUS
<1> QED
  BY <1>1 DEF GatewayInit, TypeOK, HandlerPC, WorkerPC

LEMMA HandlerTypes ==
  ASSUME TypeOK, NEW r \in Request, HandlerStep(r)
  PROVE  TypeOK'
<1> USE DEF TypeOK, requestVars, HandlerPC, WorkerPC, Left, Stopped, HandlerTo, WorkerTo,
            Leave, StartWorker
<1>1. CASE HandlerPanics(r)
  BY <1>1 DEF HandlerPanics
<1>2. CASE HandlerRegisters(r)
  BY <1>2 DEF HandlerRegisters
<1>3. CASE HandlerAsks(r)
  BY <1>3 DEF HandlerAsks
<1>4. CASE HandlerAnswered(r)
  BY <1>4 DEF HandlerAnswered
<1>5. CASE Dialed(r)
  BY <1>5 DEF Dialed
<1>6. CASE DialFails(r)
  BY <1>6 DEF DialFails
<1>7. CASE SystemError(r)
  <2>1. Write(r, "systemError") /\ "systemError" \in Text
    BY <1>7 DEF SystemError, Text, HandlerText
  <2> QED
    BY <1>7, <2>1, WriteFacts DEF SystemError
<1>8. CASE SystemErrorUnwritten(r)
  BY <1>8 DEF SystemErrorUnwritten
<1>9. CASE Timeout(r)
  <2>1. Write(r, "requestTimeout") /\ "requestTimeout" \in Text
    BY <1>9 DEF Timeout, Text, HandlerText
  <2> QED
    BY <1>9, <2>1, WriteFacts DEF Timeout
<1>10. CASE Cancelled(r)
  <2>1. Write(r, "requestCancelled") /\ "requestCancelled" \in Text
    BY <1>10 DEF Cancelled, Text, HandlerText
  <2> QED
    BY <1>10, <2>1, WriteFacts DEF Cancelled
<1>11. CASE Receive(r)
  BY <1>11 DEF Receive
<1> QED
  BY <1>1, <1>2, <1>3, <1>4, <1>5, <1>6, <1>7, <1>8, <1>9, <1>10, <1>11 DEF HandlerStep

LEMMA WorkerTypes ==
  ASSUME TypeOK, NEW r \in Request,
         WorkerPrepares(r) \/ RpcResponds(r) \/ RpcStops(r) \/ ClientStep(r)
  PROVE  TypeOK'
<1> USE DEF TypeOK, requestVars, WorkerPC, Stopped, WorkerTo, Reset
<1>1. CASE WorkerRegisters(r)
  BY <1>1 DEF WorkerRegisters
<1>2. CASE WorkerAsks(r)
  BY <1>2 DEF WorkerAsks
<1>3. CASE WorkerAnswered(r)
  BY <1>3 DEF WorkerAnswered
<1>4. CASE NoConnection(r)
  BY <1>4 DEF NoConnection
<1>5. CASE LoadFails(r)
  <2>1. Write(r, "loadError") /\ "loadError" \in Text
    BY <1>5 DEF LoadFails, Text
  <2> QED
    BY <1>5, <2>1, WriteFacts DEF LoadFails
<1>6. CASE LoadSucceeds(r)
  BY <1>6 DEF LoadSucceeds
<1>7. CASE RpcResponds(r)
  <2>1. Write(r, "message") /\ "message" \in Text
    BY <1>7 DEF RpcResponds, Text, RpcText
  <2> QED
    BY <1>7, <2>1, WriteFacts DEF RpcResponds
<1>8. CASE RpcPanics(r)
  BY <1>8 DEF RpcPanics
<1>9. CASE RpcFails(r)
  <2>1. Write(r, "rpcError") /\ "rpcError" \in Text
    BY <1>9 DEF RpcFails, Text, RpcText
  <2> QED
    BY <1>9, <2>1, WriteFacts DEF RpcFails
<1>10. CASE RpcEnds(r) /\ UNCHANGED writes
  BY <1>10 DEF RpcEnds
<1>11. CASE RpcEnds(r) /\ Write(r, "status")
  <2>1. Write(r, "status") /\ "status" \in Text
    BY <1>11 DEF Text, RpcText
  <2> QED
    BY <1>11, <2>1, WriteFacts DEF RpcEnds
<1>12. CASE ClientStep(r)
  BY <1>12 DEF ClientStep, BodySent, ClientGone, NoticeGone
<1>13. RpcEnds(r) => Write(r, "status") \/ UNCHANGED writes
  BY DEF RpcEnds
<1> QED
  BY <1>1, <1>2, <1>3, <1>4, <1>5, <1>6, <1>7, <1>8, <1>9, <1>10, <1>11, <1>12, <1>13
     DEF WorkerPrepares, RpcStops

LEMMA GatewayTypesKept == TypeOK /\ [GatewayNext]_vars => TypeOK'
<1> SUFFICES ASSUME TypeOK, [GatewayNext]_vars PROVE TypeOK'
  OBVIOUS
<1>1. ASSUME NEW a \in Actor, ConfigStep(a) PROVE TypeOK'
  BY <1>1 DEF ConfigStep, gatewayVars, requestVars, TypeOK
<1>2. CASE UNCHANGED vars
  BY <1>2 DEF vars, gatewayVars, requestVars, TypeOK
<1> QED
  BY <1>1, <1>2, HandlerTypes, WorkerTypes DEF GatewayNext

(* The variables keep their types, for any requests and any configuration.  *)
THEOREM GatewayTypes == GatewaySpec => []TypeOK
<1> QED
  BY GatewayInitTypes, GatewayTypesKept, PTL DEF GatewaySpec

-----------------------------------------------------------------------------
(* What is in the registry was given by one of the elements decoded so far, *)
(* or by the one that is being decoded.                                     *)
LEMMA RegistryGiven ==
  ASSUME RegistryIInv, NEW svc \in registry, svc \notin Given(decoded + 1) \ todo
  PROVE  \E i \in 1..decoded : svc \in Element[i].given
<1>1. svc \in DefinedBy(decoded)
  BY DEF RegistryIInv, RegistryAt
<1> QED
  BY <1>1 DEF DefinedBy

(* A key that storing takes out of the registry is one of Blanked.          *)
LEMMA StoredOver ==
  ASSUME RegistryIInv, NEW key \in todo, key \in registry, key \notin Given(decoded + 1)
  PROVE  key \in Blanked
<1>1. N \in Nat /\ decoded \in 0..N
  BY ElementAssumption DEF RegistryIInv, RegistryTypeOK
<1>2. key \in Blank(decoded + 1)
  BY DEF RegistryIInv, Keys
<1>3. decoded + 1 \in 1..N /\ key \in Element[decoded + 1].blank
  BY <1>2 DEF Blank
<1>4. PICK i \in 1..decoded : key \in Element[i].given
  BY RegistryGiven
<1>5. i \in 1..N /\ decoded + 1 \in (i + 1)..N
  BY <1>1, <1>3
<1>6. key \in Service
  BY <1>2, KeysType
<1> QED
  BY <1>3, <1>4, <1>5, <1>6 DEF Blanked

(* What a step inside Register does to the registry and to the calls: the   *)
(* registry loses nothing but what a later element blanks, and a result is  *)
(* what the registry says.                                                  *)
LEMMA InsideEffect ==
  ASSUME RegistryIInv, NEW a \in Actor, Inside(a)
  PROVE  /\ registry \subseteq registry' \cup Blanked
         /\ \A b \in Actor : b # a => call'[b] = call[b]
         /\ call[a].pc # "idle"
         /\ call'[a].pc # "idle"
         /\ call'[a].svc = call[a].svc
         /\ call'[a].pc = "found" => call[a].svc \in registry'
         /\ call'[a].pc = "missing" => call[a].svc \notin registry
<1> USE DEF RegistryIInv
<1>1. ASSUME NEW pc \in CallPCs, NEW pc2 \in CallPCs \ {"found", "missing"},
             IsAt(a, pc), MoveTo(a, pc2),
             registry \subseteq registry' \cup Blanked
      PROVE  /\ registry \subseteq registry' \cup Blanked
             /\ \A b \in Actor : b # a => call'[b] = call[b]
             /\ call[a].pc # "idle"
             /\ call'[a].pc # "idle"
             /\ call'[a].svc = call[a].svc
             /\ call'[a].pc = "found" => call[a].svc \in registry'
             /\ call'[a].pc = "missing" => call[a].svc \notin registry
  BY <1>1, MoveToFacts DEF IsAt, CallPCs
<1>2. CASE CheckConf(a)
  <2>1. CASE published
    BY <1>2, <2>1, <1>1 DEF CheckConf, fileVars, CallPCs
  <2>2. CASE ~published
    BY <1>2, <2>2, <1>1 DEF CheckConf, fileVars, CallPCs
  <2> QED
    BY <2>1, <2>2
<1>3. CASE EnterOnce(a)
  BY <1>3, <1>1 DEF EnterOnce, fileVars, CallPCs
<1>4. CASE WaitOnce(a)
  BY <1>4, <1>1 DEF WaitOnce, fileVars, CallPCs
<1>5. CASE ReadFails(a)
  BY <1>5, <1>1 DEF ReadFails, fileVars, CallPCs
<1>6. CASE Publish(a)
  BY <1>6, <1>1 DEF Publish, CallPCs
<1>7. CASE DecodeFirst(a)
  <2>1. registry \subseteq Given(1)
    <3>1. 0 + 1 = 1 /\ decoded = 0
      BY <1>7 DEF DecodeFirst
    <3> QED
      BY <3>1, DefinedByNone DEF RegistryAt
  <2> QED
    BY <1>7, <2>1 DEF DecodeFirst, IsAt
<1>8. CASE BeginInsert(a)
  BY <1>8, <1>1 DEF BeginInsert, fileVars, CallPCs
<1>9. CASE StoreKey(a)
  <2>1. registry \subseteq registry' \cup Blanked
    BY <1>9, StoredOver DEF StoreKey
  <2> QED
    BY <1>9, <1>1, <2>1 DEF StoreKey, CallPCs
<1>10. CASE EndInsert(a)
  BY <1>10, <1>1 DEF EndInsert, fileVars, CallPCs
<1>11. CASE NextElement(a)
  BY <1>11 DEF NextElement, IsAt
<1>12. CASE DecodeFails(a)
  BY <1>12, <1>1 DEF DecodeFails, CallPCs
<1>13. CASE FinishOnce(a)
  BY <1>13, <1>1 DEF FinishOnce, fileVars, CallPCs
<1>14. CASE Lookup(a)
  <2> DEFINE pc2 == IF call[a].svc \in registry THEN "found" ELSE "missing"
  <2>1. /\ MoveTo(a, pc2) /\ call[a].pc # "idle" /\ pc2 \in CallPCs
        /\ registry' = registry
    BY <1>14 DEF Lookup, IsAt, CallPCs, fileVars
  <2> QED
    BY <2>1, MoveToFacts
<1>15. CASE LookupThrows(a)
  BY <1>15 DEF LookupThrows, IsAt, fileVars
<1> QED
  BY <1>2, <1>3, <1>4, <1>5, <1>6, <1>7, <1>8, <1>9, <1>10, <1>11, <1>12, <1>13, <1>14,
     <1>15 DEF Inside

(* Whatever a request does to the registry is a step of LocalRegistry. *)
LEMMA RequestUses ==
  ASSUME TypeOK, NEW r \in Request, RequestStep(r)
  PROVE  /\ [RegistryNext]_registryVars
         /\ UNCHANGED registry
<1>1. CASE HandlerAsks(r)
  <2>1. service[r] \in Service /\ <<r, "handler">> \in Actor
    BY ActorsOf DEF TypeOK
  <2> QED
    BY <1>1, <2>1 DEF HandlerAsks, Call, fileVars, RegistryNext
<1>2. CASE HandlerAnswered(r)
  BY <1>2, ActorsOf DEF HandlerAnswered, Return, fileVars, RegistryNext
<1>3. CASE WorkerAsks(r)
  <2>1. service[r] \in Service /\ <<r, "worker">> \in Actor
    BY ActorsOf DEF TypeOK
  <2> QED
    BY <1>3, <2>1 DEF WorkerAsks, Call, fileVars, RegistryNext
<1>4. CASE WorkerAnswered(r)
  BY <1>4, ActorsOf DEF WorkerAnswered, Return, fileVars, RegistryNext
<1>5. CASE UNCHANGED registryVars
  BY <1>5 DEF registryVars, fileVars
<1> QED
  BY <1>1, <1>2, <1>3, <1>4, <1>5
     DEF RequestStep, HandlerStep, HandlerPanics, HandlerRegisters, Dialed, DialFails,
         SystemError, SystemErrorUnwritten, Timeout, Cancelled, Receive, WorkerPrepares,
         WorkerRegisters, NoConnection, LoadFails, LoadSucceeds, RpcResponds, RpcStops,
         RpcPanics, RpcFails, RpcEnds, ClientStep, BodySent, ClientGone, NoticeGone

LEMMA GatewayStepSplit ==
  GatewayNext <=> (\E r \in Request : RequestStep(r)) \/ (\E a \in Actor : ConfigStep(a))
  BY DEF GatewayNext, RequestStep

LEMMA GatewayUses == TypeOK /\ [GatewayNext]_vars => [RegistryNext]_registryVars
<1> SUFFICES ASSUME TypeOK, [GatewayNext]_vars PROVE [RegistryNext]_registryVars
  OBVIOUS
<1>1. CASE \E a \in Actor : ConfigStep(a)
  BY <1>1 DEF ConfigStep, RegistryNext
<1>2. CASE UNCHANGED vars
  BY <1>2 DEF vars
<1> QED
  BY <1>1, <1>2, GatewayStepSplit, RequestUses

(* The requests use the configuration only the way LocalRegistry says       *)
(* goroutines use it: handler and worker of each of them are two of its     *)
(* actors (endpoint.go 59, 129).                                            *)
THEOREM GatewayUsesRegistry ==
  GatewaySpec => RegistryInit /\ [][RegistryNext]_registryVars
<1>1. GatewayInit => RegistryInit
  BY DEF GatewayInit
<1> QED
  BY <1>1, GatewayTypes, GatewayUses, PTL DEF GatewaySpec

-----------------------------------------------------------------------------
(* A request that no goroutine of its own touches. *)
Untouched(s) ==
    /\ handler'[s] = handler[s] /\ worker'[s] = worker[s]
    /\ conn'[s] = conn[s] /\ writes'[s] = writes[s]
    /\ call'[<<s, "handler">>] = call[<<s, "handler">>]
    /\ call'[<<s, "worker">>] = call[<<s, "worker">>]
    /\ UNCHANGED requestVars /\ registry \subseteq registry' \cup Blanked

LEMMA UntouchedKept ==
  ASSUME NEW s, Untouched(s), Control(s) /\ Lookups(s) /\ Reply(s)
  PROVE  Control(s)' /\ Lookups(s)' /\ Reply(s)'
<1> USE DEF Untouched, requestVars
<1>1. Control(s)'
  BY DEF Control, WroteLate, Wrote, HeaderRefused
<1>2. Lookups(s)'
  BY DEF Lookups
<1>3. Reply(s)'
  BY DEF Reply, Wrote
<1> QED
  BY <1>1, <1>2, <1>3

(* A step of a request begins or ends at most one call of Register.         *)
LEMMA RequestCalls ==
  ASSUME NEW r, RequestStep(r)
  PROVE  \/ UNCHANGED call
         \/ \E who \in {"handler", "worker"} : \E svc : Call(<<r, who>>, svc)
         \/ \E who \in {"handler", "worker"} : Return(<<r, who>>)
  BY DEF RequestStep, HandlerStep, HandlerPanics, HandlerRegisters, HandlerAsks,
         HandlerAnswered, Dialed, DialFails,
         SystemError, SystemErrorUnwritten, Timeout, Cancelled, Receive, WorkerPrepares,
         WorkerRegisters, WorkerAsks, WorkerAnswered, NoConnection, LoadFails,
         LoadSucceeds, RpcResponds, RpcStops, RpcPanics, RpcFails, RpcEnds, ClientStep,
         BodySent, ClientGone, NoticeGone, registryVars

(* A step of r leaves the others untouched. *)
LEMMA OthersUntouched ==
  ASSUME TypeOK, RegistryTypeOK, NEW r \in Request, RequestStep(r),
         NEW s \in Request, s # r
  PROVE  Untouched(s)
<1> USE DEF requestVars
<1>1. registry' = registry
  BY RequestUses
<1>2. UNCHANGED requestVars
  BY DEF RequestStep, HandlerStep, HandlerPanics, HandlerRegisters, HandlerAsks,
         HandlerAnswered, Dialed, DialFails,
         SystemError, SystemErrorUnwritten, Timeout, Cancelled, Receive, WorkerPrepares,
         WorkerRegisters, WorkerAsks, WorkerAnswered, NoConnection, LoadFails,
         LoadSucceeds, RpcResponds, RpcStops,
         RpcPanics, RpcFails, RpcEnds, ClientStep, BodySent, ClientGone, NoticeGone
<1>3. handler'[s] = handler[s] /\ worker'[s] = worker[s] /\ conn'[s] = conn[s]
  BY DEF RequestStep, HandlerStep, HandlerPanics, HandlerRegisters, HandlerAsks,
         HandlerAnswered, Dialed, DialFails,
         SystemError, SystemErrorUnwritten, Timeout, Cancelled, Receive, WorkerPrepares,
         WorkerRegisters, WorkerAsks, WorkerAnswered, NoConnection, LoadFails,
         LoadSucceeds, RpcResponds, RpcStops,
         RpcPanics, RpcFails, RpcEnds, ClientStep, BodySent, ClientGone, NoticeGone,
         HandlerTo, WorkerTo, Leave, StartWorker, Reset, TypeOK
<1>4. writes'[s] = writes[s]
  <2>1. UNCHANGED writes \/ \E what : Write(r, what)
    BY DEF RequestStep, HandlerStep, HandlerPanics, HandlerRegisters, HandlerAsks,
           HandlerAnswered, Dialed, DialFails,
           SystemError, SystemErrorUnwritten, Timeout, Cancelled, Receive, WorkerPrepares,
           WorkerRegisters, WorkerAsks, WorkerAnswered, NoConnection, LoadFails,
           LoadSucceeds, RpcResponds, RpcStops,
           RpcPanics, RpcFails, RpcEnds, ClientStep, BodySent, ClientGone, NoticeGone
  <2> QED
    BY <2>1 DEF Write, Append1, TypeOK
<1>5. \A who \in {"handler", "worker"} : call'[<<s, who>>] = call[<<s, who>>]
  <2>1. \/ UNCHANGED call
        \/ \E who \in {"handler", "worker"} : \E svc : Call(<<r, who>>, svc)
        \/ \E who \in {"handler", "worker"} : Return(<<r, who>>)
    BY RequestCalls
  <2>2. ASSUME NEW who \in {"handler", "worker"}
        PROVE  <<s, who>> \in Actor /\ \A by \in {"handler", "worker"} : <<s, who>> # <<r, by>>
    BY ActorAssumption
  <2> QED
    BY <2>1, <2>2 DEF Call, Return, RegistryTypeOK
<1> QED
  BY <1>1, <1>2, <1>3, <1>4, <1>5 DEF Untouched

-----------------------------------------------------------------------------
(* A step that writes nothing leaves what was written alone. *)
LEMMA Unwritten ==
  ASSUME NEW r, UNCHANGED writes
  PROVE  /\ \A t : Wrote(r, t)' <=> Wrote(r, t)
         /\ WroteLate(r)' <=> WroteLate(r)
  BY DEF Wrote, WroteLate

LEMMA HandlerControl ==
  ASSUME TypeOK, NEW r \in Request, Control(r), HandlerStep(r)
  PROVE  Control(r)'
<1> USE DEF TypeOK, Control, HeaderRefused, requestVars, HandlerAt, HandlerTo, WorkerTo,
            Leave, StartWorker, Left
<1>1. CASE HandlerPanics(r)
  BY <1>1, Unwritten DEF HandlerPanics
<1>2. CASE HandlerRegisters(r)
  BY <1>2, Unwritten DEF HandlerRegisters, AnswersFromHeader
<1>3. CASE HandlerAsks(r)
  BY <1>3, Unwritten DEF HandlerAsks, AsksConfig
<1>4. CASE HandlerAnswered(r)
  BY <1>4, Unwritten DEF HandlerAnswered
<1>5. CASE Dialed(r)
  BY <1>5, Unwritten DEF Dialed
<1>6. CASE DialFails(r)
  BY <1>6, Unwritten DEF DialFails
<1>7. CASE SystemError(r)
  <2>1. Write(r, "systemError") /\ "systemError" \in Text
    BY <1>7 DEF SystemError, Text, HandlerText
  <2> QED
    BY <1>7, <2>1, WriteWrites DEF SystemError
<1>8. CASE SystemErrorUnwritten(r)
  BY <1>8, Unwritten DEF SystemErrorUnwritten
<1>9. CASE Timeout(r)
  <2>1. Write(r, "requestTimeout") /\ "requestTimeout" \in Text
    BY <1>9 DEF Timeout, Text, HandlerText
  <2> QED
    BY <1>9, <2>1, WriteWrites DEF Timeout
<1>10. CASE Cancelled(r)
  <2>1. Write(r, "requestCancelled") /\ "requestCancelled" \in Text
    BY <1>10 DEF Cancelled, Text, HandlerText
  <2> QED
    BY <1>10, <2>1, WriteWrites DEF Cancelled
<1>11. CASE Receive(r)
  BY <1>11, Unwritten DEF Receive
<1> QED
  BY <1>1, <1>2, <1>3, <1>4, <1>5, <1>6, <1>7, <1>8, <1>9, <1>10, <1>11 DEF HandlerStep

LEMMA WorkerControl ==
  ASSUME TypeOK, NEW r \in Request, Control(r),
         WorkerPrepares(r) \/ RpcResponds(r) \/ RpcStops(r) \/ ClientStep(r)
  PROVE  Control(r)'
<1> USE DEF TypeOK, Control, HeaderRefused, requestVars, WorkerAt, WorkerTo, Reset,
            HandlerPC, Left
<1>1. CASE WorkerRegisters(r)
  BY <1>1, Unwritten DEF WorkerRegisters, AnswersFromHeader
<1>2. CASE WorkerAsks(r)
  BY <1>2, Unwritten DEF WorkerAsks, AsksConfig
<1>3. CASE WorkerAnswered(r)
  BY <1>3, Unwritten DEF WorkerAnswered
<1>4. CASE NoConnection(r)
  BY <1>4, Unwritten DEF NoConnection
<1>5. CASE LoadFails(r)
  <2>1. Write(r, "loadError") /\ "loadError" \in Text
    BY <1>5 DEF LoadFails, Text
  <2> QED
    BY <1>5, <2>1, WriteWrites DEF LoadFails
<1>6. CASE LoadSucceeds(r)
  BY <1>6, Unwritten DEF LoadSucceeds
<1>7. CASE RpcResponds(r)
  <2>1. Write(r, "message") /\ "message" \in Text
    BY <1>7 DEF RpcResponds, Text, RpcText
  <2> QED
    BY <1>7, <2>1, WriteWrites DEF RpcResponds
<1>8. CASE RpcPanics(r)
  BY <1>8, Unwritten DEF RpcPanics
<1>9. CASE RpcFails(r)
  <2>1. Write(r, "rpcError") /\ "rpcError" \in Text
    BY <1>9 DEF RpcFails, Text, RpcText
  <2> QED
    BY <1>9, <2>1, WriteWrites DEF RpcFails
<1>10. CASE RpcEnds(r) /\ UNCHANGED writes
  BY <1>10, Unwritten DEF RpcEnds
<1>11. CASE RpcEnds(r) /\ Write(r, "status")
  <2>1. Write(r, "status") /\ "status" \in Text
    BY <1>11 DEF Text, RpcText
  <2> QED
    BY <1>11, <2>1, WriteWrites DEF RpcEnds
<1>12. CASE ClientStep(r)
  <2>1. UNCHANGED <<registryType, header, handler, worker, conn, writes>>
    BY <1>12 DEF ClientStep, BodySent, ClientGone, NoticeGone
  <2> QED
    BY <2>1, Unwritten
<1>13. RpcEnds(r) => Write(r, "status") \/ UNCHANGED writes
  BY DEF RpcEnds
<1> QED
  BY <1>1, <1>2, <1>3, <1>4, <1>5, <1>6, <1>7, <1>8, <1>9, <1>10, <1>11, <1>12, <1>13
     DEF WorkerPrepares, RpcStops

-----------------------------------------------------------------------------
LEMMA HandlerLookups ==
  ASSUME TypeOK, RegistryTypeOK, FoundIsRegistered, NEW r \in Request,
         Control(r), Lookups(r), HandlerStep(r)
  PROVE  Lookups(r)'
<1> USE DEF TypeOK, Lookups, requestVars, HandlerAt, HandlerTo, WorkerTo,
            Leave, StartWorker
<1>1. registry' = registry
  BY RequestUses DEF RequestStep
<1>2. CASE HandlerPanics(r)
  BY <1>1, <1>2 DEF HandlerPanics, registryVars
<1>3. CASE HandlerRegisters(r)
  BY <1>1, <1>3 DEF HandlerRegisters, AnswersFromHeader, registryVars, Control
<1>4. CASE HandlerAsks(r)
  <2>1. call'[<<r, "handler">>] = At("conf", service[r])
    BY <1>4, ActorsOf DEF HandlerAsks, Call, RegistryTypeOK
  <2> QED
    BY <1>1, <1>4, <2>1 DEF HandlerAsks, AsksConfig, At, Control
<1>5. CASE HandlerAnswered(r)
  <2>1. call[<<r, "handler">>].pc = "found" => service[r] \in registry \cup Blanked
    BY <1>5, ActorsOf DEF HandlerAnswered, FoundIsRegistered
  <2> QED
    BY <1>1, <1>5, <2>1 DEF HandlerAnswered, Control
<1>6. CASE Dialed(r)
  BY <1>1, <1>6 DEF Dialed
<1>7. CASE DialFails(r)
  BY <1>1, <1>7 DEF DialFails, registryVars
<1>8. CASE SystemError(r)
  BY <1>1, <1>8 DEF SystemError, registryVars
<1>9. CASE SystemErrorUnwritten(r)
  BY <1>1, <1>9 DEF SystemErrorUnwritten, registryVars
<1>10. CASE Timeout(r)
  BY <1>1, <1>10 DEF Timeout, registryVars
<1>11. CASE Cancelled(r)
  BY <1>1, <1>11 DEF Cancelled, registryVars
<1>12. CASE Receive(r)
  BY <1>1, <1>12 DEF Receive, registryVars
<1> QED
  BY <1>2, <1>3, <1>4, <1>5, <1>6, <1>7, <1>8, <1>9, <1>10, <1>11, <1>12 DEF HandlerStep

LEMMA WorkerLookups ==
  ASSUME TypeOK, RegistryTypeOK, NEW r \in Request, Control(r), Lookups(r),
         WorkerPrepares(r) \/ RpcResponds(r) \/ RpcStops(r) \/ ClientStep(r)
  PROVE  Lookups(r)'
<1> USE DEF TypeOK, Lookups, requestVars, WorkerAt, WorkerTo
<1>1. registry' = registry
  BY RequestUses DEF RequestStep
<1>2. CASE WorkerRegisters(r)
  BY <1>1, <1>2 DEF WorkerRegisters, registryVars, Control
<1>3. CASE WorkerAsks(r)
  <2>1. call'[<<r, "worker">>] = At("conf", service[r])
    BY <1>3, ActorsOf DEF WorkerAsks, Call, RegistryTypeOK
  <2>2. handler[r] # "lookup"
    BY <1>3 DEF WorkerAsks, Control
  <2> QED
    BY <1>1, <1>3, <2>1, <2>2 DEF WorkerAsks, AsksConfig, At
<1>4. CASE WorkerAnswered(r)
  <2>1. conn[r] # "none" /\ call[<<r, "worker">>].pc # "found" => service[r] \in Blanked
    BY <1>4 DEF WorkerAnswered, Return
  <2>2. handler[r] # "lookup"
    BY <1>4 DEF WorkerAnswered, Control
  <2> QED
    BY <1>1, <1>4, <2>1, <2>2 DEF WorkerAnswered
<1>5. CASE NoConnection(r) \/ LoadFails(r) \/ LoadSucceeds(r)
  BY <1>1, <1>5 DEF NoConnection, LoadFails, LoadSucceeds, registryVars
<1>6. CASE RpcResponds(r)
  BY <1>1, <1>6 DEF RpcResponds, registryVars
<1>7. CASE RpcStops(r)
  BY <1>1, <1>7 DEF RpcStops, RpcPanics, RpcFails, RpcEnds, Reset, Control, registryVars
<1>8. CASE ClientStep(r)
  BY <1>1, <1>8 DEF ClientStep, BodySent, ClientGone, NoticeGone, registryVars
<1> QED
  BY <1>2, <1>3, <1>4, <1>5, <1>6, <1>7, <1>8 DEF WorkerPrepares

-----------------------------------------------------------------------------
(* A step that writes nothing, of a request whose handler has not left      *)
(* early and will not, keeps Reply if its worker keeps the right to write.  *)
LEMMA ReplyUnwritten ==
  ASSUME NEW r \in Request, Reply(r), UNCHANGED writes, conn[r] # "none",
         conn'[r] # "none", worker'[r] # "none",
         handler'[r] \in {"timedOut", "cancelled"} <=> handler[r] \in {"timedOut", "cancelled"},
         worker[r] \in {"send", "quit"} => worker'[r] \in {"send", "quit"}
  PROVE  Reply(r)'
<1>1. \A t : Wrote(r, t)' <=> Wrote(r, t)
  BY Unwritten
<1> QED
  BY <1>1 DEF Reply

(* What the RPC, or the loading of its descriptors, writes. *)
LEMMA ReplyWritten ==
  ASSUME TypeOK, NEW r \in Request, Reply(r), NEW what \in Text, Write(r, what),
         what \notin HandlerText, conn[r] = "open", worker[r] \in {"invoke", "rpc"},
         conn'[r] # "none", worker'[r] # "none", UNCHANGED handler,
         what # "message" => worker'[r] \in {"send", "quit"}
  PROVE  Reply(r)'
<1> DEFINE L == Len(writes[r])
<1>1. /\ Len(writes'[r]) = L + 1
      /\ DOMAIN writes'[r] = 1..(L + 1)
      /\ DOMAIN writes[r] = 1..L
      /\ L \in Nat
      /\ \A i \in 1..L : writes'[r][i] = writes[r][i]
      /\ writes'[r][L + 1].what = what
  BY WriteFacts
<1>2. ~Wrote(r, "systemError")'
  BY WriteWrites DEF Reply, HandlerText
<1>3. ASSUME handler[r] \notin {"timedOut", "cancelled"}, NEW i \in DOMAIN writes'[r]
      PROVE  /\ writes'[r][i].what \notin {"requestTimeout", "requestCancelled"}
             /\ writes'[r][i].what # "message" =>
                    i = Len(writes'[r]) /\ worker'[r] \in {"send", "quit"}
  <2>1. CASE i = L + 1
    BY <1>1, <2>1 DEF HandlerText
  <2>2. CASE i \in 1..L
    <3>1. writes[r][i].what = "message"
      BY <1>1, <1>3, <2>2 DEF Reply
    <3> QED
      BY <1>1, <2>2, <3>1
  <2>3. i \in 1..(L + 1)
    BY <1>1, <1>3
  <2> HIDE DEF L
  <2>4. i = L + 1 \/ i \in 1..L
    BY <1>1, <2>3
  <2> QED
    BY <2>1, <2>2, <2>4
<1> HIDE DEF L
<1> QED
  BY <1>2, <1>3 DEF Reply

LEMMA SecondEntry ==
  ASSUME NEW s, NEW t, Len(s) = 1, Len(t) = Len(s) + 1, \A i \in 1..Len(s) : t[i] = s[i]
  PROVE  Len(t) = 2 /\ t[1] = s[1] /\ t[2] = t[Len(s) + 1]
<1>1. 1 \in 1..Len(s) /\ Len(s) + 1 = 2
  OBVIOUS
<1> QED
  BY <1>1

(* The handler's envelope when it leaves early. *)
LEMMA ReplyOfEarlyExit ==
  ASSUME TypeOK, NEW r \in Request, Reply(r), Control(r), handler[r] = "select",
         NEW what \in {"requestTimeout", "requestCancelled"}, Write(r, what),
         handler'[r] \in {"timedOut", "cancelled"}, UNCHANGED <<worker, conn>>
  PROVE  Reply(r)'
<1>1. what \in Text /\ what # "systemError"
  BY DEF Text, HandlerText
<1>2. worker[r] # "none"
  BY DEF Control
<1>3. CASE conn[r] # "none"
  BY <1>1, <1>2, <1>3, WriteWrites DEF Reply
<1>4. CASE conn[r] = "none"
  <2>0. Len(writes[r]) = 1
    BY <1>2, <1>4 DEF Reply
  <2>1. writes[r][1].what = "systemError"
    BY <1>2, <1>4 DEF Reply
  <2>2. /\ Len(writes'[r]) = Len(writes[r]) + 1
        /\ \A i \in 1..Len(writes[r]) : writes'[r][i] = writes[r][i]
        /\ writes'[r][Len(writes[r]) + 1].what = what
    BY <1>1, WriteFacts
  <2>3. /\ Len(writes'[r]) = 2
        /\ writes'[r][1].what = "systemError"
        /\ writes'[r][2].what = what
    <3>1. /\ Len(writes'[r]) = 2 /\ writes'[r][1] = writes[r][1]
          /\ writes'[r][2] = writes'[r][Len(writes[r]) + 1]
      BY <2>0, <2>2, SecondEntry
    <3> QED
      BY <2>1, <2>2, <3>1
  <2> QED
    BY <1>2, <1>4, <2>3 DEF Reply
<1> QED
  BY <1>3, <1>4

LEMMA HandlerReply ==
  ASSUME TypeOK, NEW r \in Request, Control(r), Reply(r), HandlerStep(r)
  PROVE  Reply(r)'
<1> USE DEF TypeOK, HandlerAt, HandlerTo, WorkerTo, Leave, StartWorker
<1>1. ASSUME handler[r] \in {"start", "lookup", "dial", "refused"}, UNCHANGED <<worker, conn, writes>>
      PROVE  Reply(r)'
  <2>1. worker[r] = "none" /\ conn[r] = "none" /\ writes[r] = <<>>
    BY <1>1 DEF Control, Reply
  <2> QED
    BY <1>1, <2>1 DEF Reply
<1>2. CASE HandlerPanics(r) \/ HandlerRegisters(r) \/ HandlerAsks(r) \/ HandlerAnswered(r)
  BY <1>1, <1>2 DEF HandlerPanics, HandlerRegisters, HandlerAsks, HandlerAnswered
<1>3. CASE DialFails(r) \/ SystemErrorUnwritten(r)
  BY <1>1, <1>3 DEF DialFails, SystemErrorUnwritten
<1>4. CASE Dialed(r)
  <2>1. writes[r] = <<>> /\ UNCHANGED writes
    BY <1>4 DEF Dialed, Control, Reply
  <2>2. worker'[r] = "register" /\ conn'[r] = "open" /\ handler'[r] = "select"
    BY <1>4 DEF Dialed
  <2>3. DOMAIN writes'[r] = {}
    BY <2>1
  <2> QED
    BY <2>2, <2>3 DEF Reply, Wrote
<1>5. CASE SystemError(r)
  <2>1. Write(r, "systemError") /\ "systemError" \in Text
    BY <1>5 DEF SystemError, Text, HandlerText
  <2>2. writes[r] = <<>> /\ conn'[r] = "none" /\ worker'[r] = "register" /\ handler'[r] = "select"
    BY <1>5 DEF SystemError, Control, Reply
  <2>3. Len(writes[r]) = 0
    BY <2>2
  <2> HIDE DEF TypeOK
  <2>4. /\ Len(writes'[r]) = Len(writes[r]) + 1
        /\ DOMAIN writes'[r] = 1..(Len(writes[r]) + 1)
        /\ writes'[r][Len(writes[r]) + 1].what = "systemError"
    BY <2>1, WriteFacts
  <2>5. /\ Len(writes'[r]) = 1 /\ DOMAIN writes'[r] = 1..1
        /\ writes'[r][1].what = "systemError"
    <3> DEFINE L == Len(writes[r])
    <3>1. L = 0 /\ L + 1 = 1
      BY <2>3
    <3>2. Len(writes'[r]) = L + 1 /\ DOMAIN writes'[r] = 1..(L + 1) /\ writes'[r][L + 1].what = "systemError"
      BY <2>4
    <3> HIDE DEF L
    <3> QED
      BY <3>1, <3>2
  <2>6. DOMAIN writes'[r] = 1..1
    BY <2>5
  <2>7. ASSUME NEW i \in DOMAIN writes'[r]
        PROVE  i = 1
    BY <2>6
  <2>8. ASSUME NEW i \in DOMAIN writes'[r]
        PROVE  i = Len(writes'[r]) /\ writes'[r][i].what = "systemError"
    BY <2>5, <2>7
  <2> QED
    BY <2>2, <2>5, <2>8 DEF Reply
<1>6. CASE Timeout(r)
  <2>1. /\ Write(r, "requestTimeout") /\ handler[r] = "select"
        /\ handler'[r] = "timedOut" /\ UNCHANGED <<worker, conn>>
    BY <1>6 DEF Timeout
  <2> HIDE DEF TypeOK
  <2> QED
    BY <2>1, ReplyOfEarlyExit
<1>7. CASE Cancelled(r)
  <2>1. /\ Write(r, "requestCancelled") /\ handler[r] = "select"
        /\ handler'[r] = "cancelled" /\ UNCHANGED <<worker, conn>>
    BY <1>7 DEF Cancelled
  <2> HIDE DEF TypeOK
  <2> QED
    BY <2>1, ReplyOfEarlyExit
<1>8. CASE Receive(r)
  <2>1. /\ handler'[r] = "finished" /\ worker'[r] = "quit" /\ handler[r] = "select"
        /\ worker[r] = "send" /\ UNCHANGED <<conn, writes>>
    BY <1>8 DEF Receive
  <2>2. CASE conn[r] # "none"
    BY <2>1, <2>2, ReplyUnwritten
  <2>3. CASE conn[r] = "none"
    BY <2>1, <2>3 DEF Reply
  <2> QED
    BY <2>2, <2>3
<1> QED
  BY <1>2, <1>3, <1>4, <1>5, <1>6, <1>7, <1>8 DEF HandlerStep

LEMMA WorkerReply ==
  ASSUME TypeOK, NEW r \in Request, Control(r), Reply(r),
         WorkerPrepares(r) \/ RpcResponds(r) \/ RpcStops(r) \/ ClientStep(r)
  PROVE  Reply(r)'
<1>t. worker \in [Request -> WorkerPC] /\ conn \in [Request -> {"none", "open", "closed"}]
  BY DEF TypeOK
<1> USE DEF WorkerAt, WorkerTo, Reset
(* Steps that write nothing and keep the connection there or away. *)
<1>1. ASSUME UNCHANGED <<handler, writes>>, worker[r] # "none", worker'[r] # "none",
             conn[r] = "none" <=> conn'[r] = "none",
             worker[r] \notin {"send", "quit"}
      PROVE  Reply(r)'
  <2>1. CASE conn[r] # "none"
    BY <1>1, <2>1, ReplyUnwritten
  <2>2. CASE conn[r] = "none"
    BY <1>1, <2>2, Unwritten DEF Reply
  <2> QED
    BY <2>1, <2>2
<1>2. CASE WorkerRegisters(r) \/ WorkerAsks(r) \/ WorkerAnswered(r)
  BY <1>1, <1>2, <1>t DEF WorkerRegisters, WorkerAsks, WorkerAnswered
<1>3. CASE NoConnection(r) \/ LoadSucceeds(r)
  BY <1>1, <1>3, <1>t DEF NoConnection, LoadSucceeds
<1>4. CASE LoadFails(r)
  <2>1. /\ Write(r, "loadError") /\ "loadError" \in Text /\ "loadError" \notin HandlerText
        /\ conn[r] = "open" /\ worker[r] = "invoke" /\ worker'[r] = "send"
        /\ UNCHANGED <<handler, conn>>
    BY <1>4, <1>t DEF LoadFails, Text, HandlerText
  <2> QED
    BY <2>1, ReplyWritten
<1>5. CASE RpcResponds(r)
  <2>1. /\ Write(r, "message") /\ "message" \in Text /\ "message" \notin HandlerText
        /\ conn[r] = "open" /\ worker[r] = "rpc" /\ UNCHANGED <<handler, worker, conn>>
    BY <1>5 DEF RpcResponds, Text, RpcText, HandlerText, Control
  <2> QED
    BY <2>1, ReplyWritten
<1>6. CASE RpcPanics(r)
  <2>1. /\ conn[r] = "open" /\ conn'[r] = "closed" /\ worker[r] = "rpc"
        /\ worker'[r] = "panicked" /\ UNCHANGED <<handler, writes>>
    BY <1>6, <1>t DEF RpcPanics, Control
  <2> QED
    BY <1>1, <2>1
<1>7. CASE RpcFails(r)
  <2>1. /\ Write(r, "rpcError") /\ "rpcError" \in Text /\ "rpcError" \notin HandlerText
        /\ conn[r] = "open" /\ conn'[r] = "closed" /\ worker[r] = "rpc"
        /\ worker'[r] = "send" /\ UNCHANGED handler
    BY <1>7, <1>t DEF RpcFails, Text, RpcText, HandlerText, Control
  <2> QED
    BY <2>1, ReplyWritten
<1>8. CASE RpcEnds(r)
  <2>1. /\ conn[r] = "open" /\ conn'[r] = "closed" /\ worker[r] = "rpc"
        /\ worker'[r] = "send" /\ UNCHANGED handler
    BY <1>8, <1>t DEF RpcEnds, Control
  <2>2. CASE UNCHANGED writes
    BY <1>1, <2>1, <2>2
  <2>3. CASE Write(r, "status")
    <3>1. "status" \in Text /\ "status" \notin HandlerText
      BY DEF Text, RpcText, HandlerText
    <3> QED
      BY <2>1, <2>3, <3>1, ReplyWritten
  <2> QED
    BY <1>8, <2>2, <2>3 DEF RpcEnds
<1>9. CASE ClientStep(r)
  <2>1. UNCHANGED <<handler, worker, conn, writes>>
    BY <1>9 DEF ClientStep, BodySent, ClientGone, NoticeGone
  <2> QED
    BY <2>1, Unwritten DEF Reply
<1> QED
  BY <1>2, <1>3, <1>4, <1>5, <1>6, <1>7, <1>8, <1>9 DEF WorkerPrepares, RpcStops

-----------------------------------------------------------------------------
(* A step of the configuration: the registry loses only what is blanked,    *)
(* one goroutine's call goes on, and no request moves.                      *)
LEMMA ConfigStepKeeps ==
  ASSUME GatewayIInv, NEW a \in Actor, ConfigStep(a)
  PROVE  FoundIsRegistered' /\ \A r \in Request : Control(r)' /\ Lookups(r)' /\ Reply(r)'
<1> USE DEF GatewayIInv
<1>1. UNCHANGED <<registryType, header, service, handler, worker, conn, writes>>
  BY DEF ConfigStep, gatewayVars, requestVars
<1>2. /\ registry \subseteq registry' \cup Blanked
      /\ \A b \in Actor : b # a => call'[b] = call[b]
      /\ call[a].pc # "idle" /\ call'[a].pc # "idle" /\ call'[a].svc = call[a].svc
      /\ call'[a].pc = "found" => call[a].svc \in registry'
      /\ call'[a].pc = "missing" => call[a].svc \notin registry
  BY InsideEffect DEF ConfigStep
<1>3. FoundIsRegistered'
  BY <1>2 DEF FoundIsRegistered
<1>4. ASSUME NEW r \in Request PROVE Control(r)' /\ Lookups(r)' /\ Reply(r)'
  <2>1. Control(r)' /\ Reply(r)'
    BY <1>1 DEF Control, Reply, Wrote, WroteLate, HeaderRefused
  <2>2. <<r, "handler">> \in Actor /\ <<r, "worker">> \in Actor /\ Lookups(r)
    BY ActorsOf
  <2>3. Lookups(r)'
    BY <1>1, <1>2, <2>2 DEF Lookups
  <2> QED
    BY <2>1, <2>3
<1> QED
  BY <1>3, <1>4

LEMMA FoundKept ==
  ASSUME TypeOK, RegistryTypeOK, FoundIsRegistered, NEW r \in Request, RequestStep(r)
  PROVE  FoundIsRegistered'
<1>1. registry' = registry
  BY RequestUses
<1>2. \/ UNCHANGED call
      \/ \E b \in Actor : /\ call' = [call EXCEPT ![b] = call'[b]]
                           /\ call'[b].pc # "found"
  <2>1. ASSUME NEW b \in Actor, NEW svc, Call(b, svc)
        PROVE  call' = [call EXCEPT ![b] = call'[b]] /\ call'[b].pc # "found"
    BY <2>1 DEF Call, At, RegistryTypeOK
  <2>2. ASSUME NEW b \in Actor, Return(b)
        PROVE  call' = [call EXCEPT ![b] = call'[b]] /\ call'[b].pc # "found"
    BY <2>2 DEF Return, Idle, RegistryTypeOK
  <2>3. \/ UNCHANGED call
        \/ \E who \in {"handler", "worker"} : \E svc : Call(<<r, who>>, svc)
        \/ \E who \in {"handler", "worker"} : Return(<<r, who>>)
    BY RequestCalls
  <2> QED
    BY <2>1, <2>2, <2>3, ActorsOf
<1> QED
  BY <1>1, <1>2 DEF FoundIsRegistered, RegistryTypeOK

(* A step of a request. *)
LEMMA RequestStepKeeps ==
  ASSUME GatewayIInv, NEW r \in Request, RequestStep(r)
  PROVE  FoundIsRegistered' /\ \A s \in Request : Control(s)' /\ Lookups(s)' /\ Reply(s)'
<1>0. /\ TypeOK /\ RegistryIInv /\ RegistryTypeOK /\ FoundIsRegistered
      /\ \A s \in Request : Control(s) /\ Lookups(s) /\ Reply(s)
  BY DEF GatewayIInv, RegistryIInv
<1>1. CASE HandlerStep(r)
  BY <1>0, <1>1, HandlerControl, HandlerLookups, HandlerReply, OthersUntouched, UntouchedKept,
     FoundKept DEF RequestStep
<1>2. CASE WorkerPrepares(r) \/ RpcResponds(r) \/ RpcStops(r) \/ ClientStep(r)
  BY <1>0, <1>2, WorkerControl, WorkerLookups, WorkerReply, OthersUntouched, UntouchedKept,
     FoundKept DEF RequestStep
<1> QED
  BY <1>1, <1>2 DEF RequestStep

LEMMA GatewayInitIInv == GatewayInit => GatewayIInv
<1> SUFFICES ASSUME GatewayInit PROVE GatewayIInv
  OBVIOUS
<1>1. TypeOK /\ RegistryIInv
  BY GatewayInitTypes, RegistryInitIInv DEF GatewayInit
<1>2. FoundIsRegistered
  BY DEF GatewayInit, RegistryInit, FoundIsRegistered, Idle
<1>3. ASSUME NEW r \in Request
      PROVE  Control(r) /\ Lookups(r) /\ Reply(r)
  <2>1. /\ handler[r] = "start" /\ worker[r] = "none" /\ conn[r] = "none"
        /\ writes[r] = <<>>
    BY DEF GatewayInit
  <2>2. ~WroteLate(r) /\ DOMAIN writes[r] = {}
    BY <2>1 DEF WroteLate
  <2> QED
    BY <2>1, <2>2 DEF Control, Lookups, Reply
<1> QED
  BY <1>1, <1>2, <1>3 DEF GatewayIInv

LEMMA GatewayStepIInv == GatewayIInv /\ [GatewayNext]_vars => GatewayIInv'
<1> SUFFICES ASSUME GatewayIInv, [GatewayNext]_vars PROVE GatewayIInv'
  OBVIOUS
<1>1. TypeOK'
  BY GatewayTypesKept DEF GatewayIInv
<1>2. RegistryIInv'
  BY GatewayUses, RegistryStepIInv DEF GatewayIInv
<1>3. CASE UNCHANGED vars
  <2>1. ASSUME NEW r \in Request PROVE Control(r)' /\ Lookups(r)' /\ Reply(r)'
    <3>1. Untouched(r)
      BY <1>3 DEF vars, registryVars, fileVars, gatewayVars, Untouched
    <3> QED
      BY <3>1, UntouchedKept DEF GatewayIInv
  <2>2. FoundIsRegistered'
    BY <1>3 DEF vars, registryVars, fileVars, GatewayIInv, FoundIsRegistered
  <2> QED
    BY <1>1, <1>2, <2>1, <2>2 DEF GatewayIInv
<1>4. CASE GatewayNext
  BY <1>1, <1>2, <1>4, GatewayStepSplit, ConfigStepKeeps, RequestStepKeeps DEF GatewayIInv
<1> QED
  BY <1>3, <1>4

-----------------------------------------------------------------------------
(* The strengthened invariant holds whenever the system follows its steps.  *)
THEOREM GatewaySafety == GatewaySpec => []GatewayIInv
<1> QED
  BY GatewayInitIInv, GatewayStepIInv, PTL DEF GatewaySpec

(* A worker that is done leaves its connection open only when the           *)
(* descriptor files could not be loaded, or its lookup missed a service     *)
(* that was blanked after the handler's had found it                        *)
(* (endpoint.go 59-64, 162-202).                                            *)
THEOREM LeaksOnlyBeforeDefer == GatewaySpec => []LeakOnlyBeforeDefer
<1>1. GatewayIInv => LeakOnlyBeforeDefer
  BY DEF GatewayIInv, LeakOnlyBeforeDefer, InvokeOver, Stopped, Control, Lookups
<1> QED
  BY <1>1, GatewaySafety, PTL

(* Only a request ended by the timer or by its context is written to after  *)
(* its handler has returned (endpoint.go 71-84).                            *)
THEOREM LateOnlyAfterEarly == GatewaySpec => []LateOnlyAfterEarlyExit
<1>1. GatewayIInv => LateOnlyAfterEarlyExit
  BY DEF GatewayIInv, LateOnlyAfterEarlyExit, Control, WroteLate
<1> QED
  BY <1>1, GatewaySafety, PTL

(* A request whose headers are refused has no connection and never ends by  *)
(* done (endpoint.go 59-64).                                                *)
THEOREM RefusedNeverDone == GatewaySpec => []RefusedNeverFinishes
<1>1. GatewayIInv => RefusedNeverFinishes
  BY DEF GatewayIInv, RefusedNeverFinishes, Control
<1> QED
  BY <1>1, GatewaySafety, PTL

(* After "system error" the worker writes nothing (endpoint.go 48-55,       *)
(* 145-147).                                                                *)
THEOREM SystemErrorAlone == GatewaySpec => []SystemErrorIsAlone
<1>1. GatewayIInv => SystemErrorIsAlone
  <2> SUFFICES ASSUME GatewayIInv, NEW r \in Request, Wrote(r, "systemError")
               PROVE  /\ conn[r] = "none"
                      /\ Len(writes[r]) \in 1..2
                      /\ writes[r][1].what = "systemError"
                      /\ Len(writes[r]) = 2 =>
                           /\ writes[r][2].what \in {"requestTimeout", "requestCancelled"}
                           /\ handler[r] \in {"timedOut", "cancelled"}
    BY DEF SystemErrorIsAlone
  <2>1. Control(r) /\ Reply(r)
    BY DEF GatewayIInv
  <2>2. conn[r] = "none"
    BY <2>1 DEF Reply
  <2>3. worker[r] # "none"
    <3>1. DOMAIN <<>> = {}
      OBVIOUS
    <3> QED
      BY <2>1, <3>1 DEF Reply, Wrote
  <2>4. Len(writes[r]) = 1 \/ Len(writes[r]) = 2
    BY <2>1, <2>2, <2>3 DEF Reply
  <2>5. Len(writes[r]) \in 1..2
    BY <2>4
  <2> QED
    BY <2>1, <2>2, <2>3, <2>5 DEF Reply
<1> QED
  BY <1>1, GatewaySafety, PTL

(* A response that ended by done is whole (endpoint.go 264-288).            *)
THEOREM RepliesComplete == GatewaySpec => []CompleteReply
<1>1. GatewayIInv => CompleteReply
  BY DEF GatewayIInv, CompleteReply, Reply
<1> QED
  BY <1>1, GatewaySafety, PTL

(* When the handler's lookup let it dial, the worker's misses only a service *)
(* that one element gives an address to and a later one leaves blank         *)
(* (endpoint.go 59, 129, config.go 362).                                     *)
THEOREM OnlyBlankedMisses == GatewaySpec => []MissedOnlyIfBlanked
<1>1. GatewayIInv => MissedOnlyIfBlanked
  BY DEF GatewayIInv, MissedOnlyIfBlanked, Lookups
<1> QED
  BY <1>1, GatewaySafety, PTL

(* Only what an element of the file gives an address to is dialled          *)
(* (local.go 37-40).                                                        *)
THEOREM ConfiguredDials == GatewaySpec => []DialsOnlyConfigured
<1>1. RegistryIInv => registry \subseteq Addressed
  <2> SUFFICES ASSUME RegistryIInv, NEW key \in registry PROVE key \in Addressed
    OBVIOUS
  <2>1. decoded \in 0..N /\ N \in Nat
    BY ElementAssumption DEF RegistryIInv, RegistryTypeOK
  <2>2. CASE key \in Given(decoded + 1)
    BY <2>2 DEF Given, Addressed
  <2>3. CASE key \notin Given(decoded + 1)
    <3>1. PICK i \in 1..decoded : key \in Element[i].given
      BY <2>3, RegistryGiven
    <3>2. i \in 1..N
      BY <2>1
    <3> QED
      BY <3>1, <3>2 DEF Addressed
  <2> QED
    BY <2>2, <2>3
<1>2. Blanked \subseteq Addressed
  BY DEF Blanked, Addressed
<1>3. GatewayIInv => DialsOnlyConfigured
  BY <1>1, <1>2 DEF GatewayIInv, DialsOnlyConfigured, Lookups
<1> QED
  BY <1>3, GatewaySafety, PTL
=============================================================================
