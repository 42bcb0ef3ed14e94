------------------------ MODULE LocalRegistry_proofs ------------------------
(***************************************************************************)
(* Proofs about LocalRegistry, for any number of goroutines, any services  *)
(* and any file.                                                           *)
(*                                                                         *)
(* Why the registry is what has been decoded so far: only the goroutine in *)
(* readInConfig writes it, there is at most one (the Once is "running"     *)
(* exactly while there is one), and each of its steps takes keys out of    *)
(* todo and stores them: a given one joins registry, a blank one leaves    *)
(* it.  Once it has returned with no error nothing is left to do.          *)
(***************************************************************************)
EXTENDS LocalRegistry, TLAPS

LoaderPCs == {"read", "decode", "insert", "stored"}

(* The registry when k elements are stored, and all of the next but t.      *)
RegistryAt(k, t) == (DefinedBy(k) \ (Blank(k + 1) \ t)) \cup (Given(k + 1) \ t)

(* The inductive invariant: besides what is to be shown, which keys are     *)
(* still to come, and that a load without an error has decoded them all.    *)
RegistryIInv ==
    /\ RegistryTypeOK
    /\ OneLoader
    /\ todo \subseteq Keys(decoded + 1)
    /\ registry = RegistryAt(decoded, todo)
    /\ Loaded => decoded = N

-----------------------------------------------------------------------------
LEMMA KeysType ==
  \A i : /\ Given(i) \in SUBSET Service
         /\ Blank(i) \in SUBSET Service
         /\ Keys(i) \in SUBSET Service
         /\ Given(i) \cap Blank(i) = {}
  BY ElementAssumption DEF Keys, Given, Blank

(* One more element: what it gives joins, what it leaves blank goes.        *)
LEMMA DefinedByNext ==
  ASSUME NEW k \in Nat, k + 1 \in 1..N
  PROVE  DefinedBy(k + 1) = (DefinedBy(k) \ Blank(k + 1)) \cup Given(k + 1)
<1>1. /\ 1..(k + 1) = 1..k \cup {k + 1}
      /\ (k + 1)..(k + 1) = {k + 1}
      /\ \A i \in 1..k : i..(k + 1) = i..k \cup {k + 1}
  OBVIOUS
<1>2. Given(k + 1) = Element[k + 1].given /\ Blank(k + 1) = Element[k + 1].blank
  BY DEF Given, Blank
<1>3. Given(k + 1) \cap Blank(k + 1) = {} /\ Given(k + 1) \subseteq Service
  BY KeysType
<1>4. ASSUME NEW svc \in DefinedBy(k + 1)
      PROVE  svc \in (DefinedBy(k) \ Blank(k + 1)) \cup Given(k + 1)
  <2>1. PICK i \in 1..(k + 1) : /\ svc \in Element[i].given
                                /\ \A j \in i..(k + 1) : svc \notin Element[j].blank
    BY <1>4 DEF DefinedBy
  <2>2. CASE i = k + 1
    BY <1>2, <2>1, <2>2
  <2>3. CASE i \in 1..k
    BY <1>1, <1>2, <1>4, <2>1, <2>3 DEF DefinedBy
  <2> QED
    BY <1>1, <2>2, <2>3
<1>5. ASSUME NEW svc \in DefinedBy(k) \ Blank(k + 1)
      PROVE  svc \in DefinedBy(k + 1)
  <2>1. PICK i \in 1..k : /\ svc \in Element[i].given
                          /\ \A j \in i..k : svc \notin Element[j].blank
    BY <1>5 DEF DefinedBy
  <2> QED
    BY <1>1, <1>2, <1>5, <2>1 DEF DefinedBy
<1>6. ASSUME NEW svc \in Given(k + 1)
      PROVE  svc \in DefinedBy(k + 1)
  BY <1>1, <1>2, <1>3, <1>6 DEF DefinedBy
<1> QED
  BY <1>4, <1>5, <1>6

LEMMA DefinedByNone == DefinedBy(0) = {}
<1>1. 1..0 = {}
  OBVIOUS
<1> QED
  BY <1>1 DEF DefinedBy

LEMMA RegistryAtTypes ==
  \A k, t : RegistryAt(k, t) \subseteq Service
  BY KeysType DEF RegistryAt, DefinedBy

(* Nothing of the next element is stored ... *)
LEMMA NoneStored ==
  ASSUME NEW k \in Nat
  PROVE  RegistryAt(k, Keys(k + 1)) = DefinedBy(k)
  BY DEF RegistryAt, Keys

(* ... or all of it is. *)
LEMMA AllStored ==
  ASSUME NEW k \in Nat, k + 1 \in 1..N
  PROVE  RegistryAt(k, {}) = DefinedBy(k + 1)
  BY DefinedByNext DEF RegistryAt

(* One more of its keys is stored. *)
LEMMA OneStored ==
  ASSUME NEW k \in Nat, NEW t \in SUBSET Keys(k + 1), NEW key \in t
  PROVE  RegistryAt(k, t \ {key}) = (RegistryAt(k, t) \ {key}) \cup ({key} \cap Given(k + 1))
<1>1. Given(k + 1) \cap Blank(k + 1) = {}
  BY KeysType
<1>2. CASE key \in Given(k + 1)
  BY <1>1, <1>2 DEF RegistryAt
<1>3. CASE key \in Blank(k + 1)
  BY <1>1, <1>3 DEF RegistryAt
<1> QED
  BY <1>2, <1>3 DEF Keys

(* What MoveTo does to the calls. *)
LEMMA MoveToFacts ==
  ASSUME RegistryTypeOK, NEW a \in Actor, call[a].pc # "idle",
         NEW pc2 \in CallPCs, MoveTo(a, pc2)
  PROVE  /\ call' \in [Actor -> {Idle} \cup [pc : CallPCs, svc : Service]]
         /\ call'[a].pc = pc2
         /\ call'[a].svc = call[a].svc
         /\ \A b \in Actor : b # a => call'[b] = call[b]
<1>1. call[a] \in [pc : CallPCs, svc : Service]
  BY DEF RegistryTypeOK, Idle
<1>2. call' = [call EXCEPT ![a] = [call[a] EXCEPT !.pc = pc2]]
  BY DEF MoveTo
<1>3. [call[a] EXCEPT !.pc = pc2] \in [pc : CallPCs, svc : Service]
  BY <1>1
<1>4. /\ [call[a] EXCEPT !.pc = pc2].pc = pc2
      /\ [call[a] EXCEPT !.pc = pc2].svc = call[a].svc
  BY <1>1
<1> QED
  BY <1>2, <1>3, <1>4 DEF RegistryTypeOK

(* A step of one goroutine that stays outside readInConfig, or inside it,   *)
(* and leaves the Once alone, leaves OneLoader alone.                       *)
LEMMA LoaderKept ==
  ASSUME RegistryTypeOK, OneLoader, NEW a \in Actor,
         \A b \in Actor : b # a => call'[b] = call[b],
         call'[a].pc \in LoaderPCs <=> call[a].pc \in LoaderPCs,
         once' = once
  PROVE  OneLoader'
<1>1. Loaders' = Loaders
  BY DEF Loaders, LoaderPCs
<1> QED
  BY <1>1 DEF OneLoader

(* The loader leaves readInConfig and releases the Once. *)
LEMMA LoaderLeaves ==
  ASSUME RegistryTypeOK, OneLoader, NEW a \in Actor,
         \A b \in Actor : b # a => call'[b] = call[b],
         call[a].pc \in LoaderPCs, call'[a].pc \notin LoaderPCs,
         once' = "over"
  PROVE  OneLoader'
<1>1. a \in Loaders
  BY DEF Loaders, LoaderPCs
<1>2. Loaders' = {}
  BY <1>1 DEF Loaders, LoaderPCs, OneLoader
<1> QED
  BY <1>2 DEF OneLoader

-----------------------------------------------------------------------------
LEMMA RegistryInitIInv == RegistryInit => RegistryIInv
<1> SUFFICES ASSUME RegistryInit PROVE RegistryIInv
  OBVIOUS
<1>1. RegistryTypeOK
  <2>1. Keys(1) \in SUBSET Service
    BY KeysType
  <2>2. call \in [Actor -> {Idle} \cup [pc : CallPCs, svc : Service]]
    BY DEF RegistryInit
  <2>3. decoded \in 0..N
    BY ElementAssumption DEF RegistryInit
  <2> QED
    BY <2>1, <2>2, <2>3 DEF RegistryInit, RegistryTypeOK
<1>2. OneLoader
  BY DEF RegistryInit, OneLoader, Loaders, Idle
<1>3. /\ todo \subseteq Keys(decoded + 1)
      /\ registry = RegistryAt(decoded, todo)
  BY DefinedByNone, NoneStored DEF RegistryInit
<1> QED
  BY <1>1, <1>2, <1>3 DEF RegistryIInv, RegistryInit, Loaded

-----------------------------------------------------------------------------
(* Steps that only move a goroutine, on the same side of readInConfig.      *)
LEMMA MovedKeepsIInv ==
  ASSUME RegistryIInv, NEW a \in Actor, NEW pc2 \in CallPCs,
         call[a].pc # "idle", MoveTo(a, pc2),
         call[a].pc \in LoaderPCs <=> pc2 \in LoaderPCs,
         UNCHANGED <<fileVars, once, failed, up>>
  PROVE  RegistryIInv'
<1> USE DEF RegistryIInv, fileVars
<1>1. /\ call' \in [Actor -> {Idle} \cup [pc : CallPCs, svc : Service]]
      /\ call'[a].pc = pc2
      /\ \A b \in Actor : b # a => call'[b] = call[b]
  BY MoveToFacts
<1>2. RegistryTypeOK'
  BY <1>1 DEF RegistryTypeOK
<1>3. OneLoader'
  BY <1>1, LoaderKept
<1> QED
  BY <1>2, <1>3 DEF Loaded

(* The last step of the loader. *)
LEMMA LoaderLeavesIInv ==
  ASSUME RegistryIInv, NEW a \in Actor,
         call[a].pc \in LoaderPCs, MoveTo(a, "lookup"),
         once' = "over",
         UNCHANGED decoded, UNCHANGED up, published' \in BOOLEAN, failed' \in BOOLEAN,
         todo' \subseteq Keys(decoded + 1),
         registry' = RegistryAt(decoded, todo'),
         ~failed' => decoded = N
  PROVE  RegistryIInv'
<1> USE DEF RegistryIInv
<1>0. call[a].pc # "idle" /\ "lookup" \in CallPCs /\ "lookup" \notin LoaderPCs
  BY DEF LoaderPCs, CallPCs
<1>1. /\ call' \in [Actor -> {Idle} \cup [pc : CallPCs, svc : Service]]
      /\ call'[a].pc = "lookup"
      /\ \A b \in Actor : b # a => call'[b] = call[b]
  BY <1>0, MoveToFacts
<1>2. todo' \subseteq Service /\ registry' \subseteq Service
  BY KeysType, RegistryAtTypes
<1>3. RegistryTypeOK'
  BY <1>1, <1>2 DEF RegistryTypeOK
<1>4. OneLoader'
  BY <1>0, <1>1, LoaderLeaves
<1> QED
  BY <1>3, <1>4 DEF Loaded

LEMMA InsideIInv ==
  ASSUME RegistryIInv, NEW a \in Actor, Inside(a)
  PROVE  RegistryIInv'
<1> USE DEF RegistryIInv
<1>n. N \in Nat /\ N # 0
  BY ElementAssumption
<1>1. CASE CheckConf(a)
  <2> DEFINE pc2 == IF published THEN "lookup" ELSE "once"
  <2>1. /\ MoveTo(a, pc2) /\ call[a].pc # "idle" /\ pc2 \in CallPCs
        /\ call[a].pc \in LoaderPCs <=> pc2 \in LoaderPCs
        /\ UNCHANGED <<fileVars, once, failed, up>>
    BY <1>1 DEF CheckConf, IsAt, CallPCs, LoaderPCs
  <2> QED
    BY <2>1, MovedKeepsIInv
<1>2. CASE EnterOnce(a)
  <2>1. call[a].pc # "idle" /\ "read" \in CallPCs /\ MoveTo(a, "read")
    BY <1>2 DEF EnterOnce, IsAt, CallPCs
  <2>2. /\ call' \in [Actor -> {Idle} \cup [pc : CallPCs, svc : Service]]
        /\ call'[a].pc = "read"
        /\ \A b \in Actor : b # a => call'[b] = call[b]
    BY <2>1, MoveToFacts
  <2>3. RegistryTypeOK'
    BY <1>2, <2>2 DEF EnterOnce, RegistryTypeOK, fileVars
  <2>4. Loaders = {} /\ Loaders' = {a}
    BY <1>2, <2>2 DEF EnterOnce, OneLoader, Loaders
  <2>5. OneLoader'
    BY <1>2, <2>4 DEF EnterOnce, OneLoader
  <2> QED
    BY <1>2, <2>3, <2>5 DEF EnterOnce, Loaded, fileVars
<1>3. CASE WaitOnce(a)
  <2>1. /\ MoveTo(a, "lookup") /\ call[a].pc # "idle" /\ "lookup" \in CallPCs
        /\ call[a].pc \in LoaderPCs <=> "lookup" \in LoaderPCs
        /\ UNCHANGED <<fileVars, once, failed, up>>
    BY <1>3 DEF WaitOnce, IsAt, CallPCs, LoaderPCs
  <2> QED
    BY <2>1, MovedKeepsIInv
<1>4. CASE ReadFails(a)
  <2>1. /\ call[a].pc \in LoaderPCs /\ MoveTo(a, "lookup") /\ once' = "over"
        /\ failed' = TRUE /\ UNCHANGED <<published, registry, decoded, todo, up>>
    BY <1>4 DEF ReadFails, IsAt, LoaderPCs, fileVars
  <2> QED
    BY <2>1, LoaderLeavesIInv DEF RegistryTypeOK
<1>5. CASE Publish(a)
  <2>1. /\ call[a].pc # "idle" /\ "decode" \in CallPCs /\ MoveTo(a, "decode")
        /\ call[a].pc \in LoaderPCs /\ "decode" \in LoaderPCs
    BY <1>5 DEF Publish, IsAt, CallPCs, LoaderPCs
  <2>2. /\ call' \in [Actor -> {Idle} \cup [pc : CallPCs, svc : Service]]
        /\ call'[a].pc = "decode"
        /\ \A b \in Actor : b # a => call'[b] = call[b]
    BY <2>1, MoveToFacts
  <2>3. RegistryTypeOK'
    BY <1>5, <2>2 DEF Publish, RegistryTypeOK
  <2>4. OneLoader'
    BY <1>5, <2>1, <2>2, LoaderKept DEF Publish
  <2> QED
    BY <1>5, <2>3, <2>4 DEF Publish, Loaded
<1>6. CASE DecodeFirst(a)
  <2>1. /\ registry' = Given(1) /\ decoded' = 1 /\ todo' = Keys(2) /\ decoded = 0
        /\ UNCHANGED <<published, once, failed, call, up>>
        /\ call[a].pc \in LoaderPCs
    BY <1>6 DEF DecodeFirst, IsAt, LoaderPCs
  <2>2. Given(1) \in SUBSET Service /\ Keys(2) \in SUBSET Service
    BY KeysType
  <2>3. RegistryTypeOK'
    BY <2>1, <2>2, <1>n DEF RegistryTypeOK
  <2>4. OneLoader'
    BY <2>1, LoaderKept
  <2>5. DefinedBy(1) = Given(1)
    <3>1. DefinedBy(0 + 1) = (DefinedBy(0) \ Blank(0 + 1)) \cup Given(0 + 1)
      BY DefinedByNext, <1>n
    <3>2. 0 + 1 = 1
      OBVIOUS
    <3> QED
      BY <3>1, <3>2, DefinedByNone
  <2>6. ~Loaded'
    <3>1. a \in Loaders
      BY <2>1 DEF Loaders, LoaderPCs
    <3> QED
      BY <3>1, <2>1 DEF Loaded, OneLoader
  <2>7. 1 \in Nat /\ 1 + 1 = 2
    OBVIOUS
  <2>8. /\ (todo \subseteq Keys(decoded + 1))'
        /\ (registry = RegistryAt(decoded, todo))'
    BY <2>1, <2>5, <2>7, NoneStored
  <2> QED
    BY <2>3, <2>4, <2>6, <2>8
<1>7. CASE BeginInsert(a)
  <2>1. /\ MoveTo(a, "insert") /\ call[a].pc # "idle" /\ "insert" \in CallPCs
        /\ call[a].pc \in LoaderPCs <=> "insert" \in LoaderPCs
        /\ UNCHANGED <<fileVars, once, failed, up>>
    BY <1>7 DEF BeginInsert, IsAt, CallPCs, LoaderPCs
  <2> QED
    BY <2>1, MovedKeepsIInv
<1>8. CASE StoreKey(a)
  <2>1. PICK key \in todo : /\ registry' = (registry \ {key}) \cup ({key} \cap Given(decoded + 1))
                          /\ todo' = todo \ {key}
    BY <1>8 DEF StoreKey
  <2>2. /\ call[a].pc # "idle" /\ "stored" \in CallPCs /\ MoveTo(a, "stored")
        /\ call[a].pc \in LoaderPCs /\ "stored" \in LoaderPCs
        /\ UNCHANGED <<published, decoded, once, failed, up>>
    BY <1>8 DEF StoreKey, IsAt, CallPCs, LoaderPCs
  <2>3. /\ call' \in [Actor -> {Idle} \cup [pc : CallPCs, svc : Service]]
        /\ call'[a].pc = "stored"
        /\ \A b \in Actor : b # a => call'[b] = call[b]
    BY <2>2, MoveToFacts
  <2>4. RegistryTypeOK'
    BY <2>1, <2>2, <2>3 DEF RegistryTypeOK
  <2>5. OneLoader'
    BY <2>2, <2>3, LoaderKept
  <2>6. decoded \in Nat
    BY <1>n DEF RegistryTypeOK
  <2>7. /\ (todo \subseteq Keys(decoded + 1))'
        /\ (registry = RegistryAt(decoded, todo))'
    BY <2>1, <2>2, <2>6, OneStored
  <2> QED
    BY <2>2, <2>4, <2>5, <2>7 DEF Loaded
<1>9. CASE EndInsert(a)
  <2>1. /\ MoveTo(a, "decode") /\ call[a].pc # "idle" /\ "decode" \in CallPCs
        /\ call[a].pc \in LoaderPCs <=> "decode" \in LoaderPCs
        /\ UNCHANGED <<fileVars, once, failed, up>>
    BY <1>9 DEF EndInsert, IsAt, CallPCs, LoaderPCs
  <2> QED
    BY <2>1, MovedKeepsIInv
<1>10. CASE NextElement(a)
  <2>1. /\ decoded \in 1..(N - 1) /\ todo = {} /\ decoded' = decoded + 1
        /\ todo' = Keys(decoded + 2)
        /\ UNCHANGED <<published, registry, once, failed, call, up>>
        /\ call[a].pc \in LoaderPCs
    BY <1>10 DEF NextElement, IsAt, LoaderPCs
  <2>2. RegistryTypeOK'
    <3>1. Keys(decoded + 2) \in SUBSET Service /\ decoded + 1 \in 0..N
      BY <2>1, <1>n, KeysType
    <3> QED
      BY <2>1, <3>1 DEF RegistryTypeOK
  <2>3. OneLoader'
    BY <2>1, LoaderKept
  <2>4. decoded \in Nat /\ decoded + 1 \in 1..N /\ decoded + 1 + 1 = decoded + 2
    BY <2>1, <1>n
  <2>5. registry = DefinedBy(decoded + 1)
    BY <2>1, <2>4, AllStored
  <2>6. registry = RegistryAt(decoded + 1, Keys(decoded + 2))
    BY <2>4, <2>5, NoneStored
  <2>7. /\ (todo \subseteq Keys(decoded + 1))'
        /\ (registry = RegistryAt(decoded, todo))'
    BY <2>1, <2>4, <2>6
  <2>8. ~Loaded'
    <3>1. a \in Loaders
      BY <2>1 DEF Loaders, LoaderPCs
    <3> QED
      BY <3>1, <2>1 DEF Loaded, OneLoader
  <2> QED
    BY <2>2, <2>3, <2>7, <2>8
<1>11. CASE DecodeFails(a)
  <2>1. PICK good \in (IF decoded = 0 THEN SUBSET todo ELSE {{}}) :
          registry' = registry \cup (good \cap Given(1)) /\ todo' = todo \ good
    BY <1>11 DEF DecodeFails
  <2>2. good \subseteq todo /\ (decoded # 0 => good = {})
    BY <2>1
  <2>3. /\ call[a].pc \in LoaderPCs /\ MoveTo(a, "lookup") /\ once' = "over"
        /\ failed' = TRUE /\ UNCHANGED <<published, decoded, up>>
    BY <1>11 DEF DecodeFails, IsAt, LoaderPCs
  <2>4. todo' \subseteq Keys(decoded + 1)
    BY <2>1, <2>2
  <2>5. registry' = RegistryAt(decoded, todo')
    <3>1. CASE decoded # 0
      BY <2>1, <2>2, <3>1
    <3>2. CASE decoded = 0
      <4>1. 0 + 1 = 1 /\ DefinedBy(0) = {}
        BY DefinedByNone
      <4>2. registry = Given(1) \ todo /\ todo \subseteq Keys(1)
        BY <3>2, <4>1 DEF RegistryAt
      <4>3. RegistryAt(0, todo') = Given(1) \ todo'
        BY <4>1 DEF RegistryAt
      <4> QED
        BY <2>1, <2>2, <3>2, <4>2, <4>3
    <3> QED
      BY <3>1, <3>2
  <2> QED
    BY <2>3, <2>4, <2>5, LoaderLeavesIInv DEF RegistryTypeOK
<1>12. CASE FinishOnce(a)
  <2>1. /\ call[a].pc \in LoaderPCs /\ MoveTo(a, "lookup") /\ once' = "over"
        /\ decoded = N
        /\ UNCHANGED <<published, registry, decoded, todo, failed, up>>
    BY <1>12 DEF FinishOnce, IsAt, LoaderPCs, fileVars
  <2> QED
    BY <2>1, LoaderLeavesIInv DEF RegistryTypeOK
<1>13. CASE Lookup(a)
  <2> DEFINE pc2 == IF call[a].svc \in registry THEN "found" ELSE "missing"
  <2>1. /\ MoveTo(a, pc2) /\ call[a].pc # "idle" /\ pc2 \in CallPCs
        /\ call[a].pc \in LoaderPCs <=> pc2 \in LoaderPCs
        /\ UNCHANGED <<fileVars, once, failed, up>>
    BY <1>13 DEF Lookup, IsAt, CallPCs, LoaderPCs
  <2> QED
    BY <2>1, MovedKeepsIInv
<1>14. CASE LookupThrows(a)
  BY <1>14 DEF LookupThrows, fileVars, RegistryTypeOK, OneLoader, Loaders, Loaded
<1> QED
  BY <1>1, <1>2, <1>3, <1>4, <1>5, <1>6, <1>7, <1>8, <1>9, <1>10, <1>11, <1>12, <1>13,
     <1>14 DEF Inside

-----------------------------------------------------------------------------
LEMMA CallIInv ==
  ASSUME RegistryIInv, NEW a \in Actor, NEW svc \in Service, Call(a, svc)
  PROVE  RegistryIInv'
<1> USE DEF RegistryIInv
<1>1. /\ call[a].pc = "idle"
      /\ call' = [call EXCEPT ![a] = At("conf", svc)]
      /\ UNCHANGED <<published, registry, decoded, todo, once, failed, up>>
  BY DEF Call, IsAt, fileVars
<1>2. At("conf", svc) \in [pc : CallPCs, svc : Service] /\ At("conf", svc).pc = "conf"
  BY DEF At, CallPCs
<1>3. /\ call' \in [Actor -> {Idle} \cup [pc : CallPCs, svc : Service]]
      /\ call'[a].pc = "conf"
      /\ \A b \in Actor : b # a => call'[b] = call[b]
  BY <1>1, <1>2 DEF RegistryTypeOK
<1>4. RegistryTypeOK'
  BY <1>1, <1>3 DEF RegistryTypeOK
<1>5. OneLoader'
  BY <1>1, <1>3, LoaderKept DEF LoaderPCs
<1> QED
  BY <1>1, <1>4, <1>5 DEF Loaded

LEMMA ReturnIInv ==
  ASSUME RegistryIInv, NEW a \in Actor, Return(a)
  PROVE  RegistryIInv'
<1> USE DEF RegistryIInv
<1>1. /\ call[a].pc \in {"found", "missing"}
      /\ call' = [call EXCEPT ![a] = Idle]
      /\ UNCHANGED <<published, registry, decoded, todo, once, failed, up>>
  BY DEF Return, fileVars
<1>2. /\ call' \in [Actor -> {Idle} \cup [pc : CallPCs, svc : Service]]
      /\ call'[a].pc = "idle"
      /\ \A b \in Actor : b # a => call'[b] = call[b]
  BY <1>1 DEF RegistryTypeOK, Idle
<1>3. RegistryTypeOK'
  BY <1>1, <1>2 DEF RegistryTypeOK
<1>4. OneLoader'
  BY <1>1, <1>2, LoaderKept DEF LoaderPCs
<1> QED
  BY <1>1, <1>3, <1>4 DEF Loaded

LEMMA RegistryStepIInv == RegistryIInv /\ [RegistryNext]_registryVars => RegistryIInv'
<1> SUFFICES ASSUME RegistryIInv, [RegistryNext]_registryVars
             PROVE  RegistryIInv'
  OBVIOUS
<1>1. CASE RegistryNext
  BY <1>1, InsideIInv, ReturnIInv, CallIInv DEF RegistryNext
<1>2. CASE UNCHANGED registryVars
  BY <1>2 DEF RegistryIInv, registryVars, fileVars, RegistryTypeOK, OneLoader, Loaders,
              Loaded
<1> QED
  BY <1>1, <1>2

-----------------------------------------------------------------------------
(* The strengthened invariant holds whenever the system follows its steps.  *)
THEOREM RegistrySafety == RegistrySpec => []RegistryIInv
<1> QED
  BY RegistryInitIInv, RegistryStepIInv, PTL DEF RegistrySpec

(* The variables keep their types, for any goroutines, services and file.   *)
THEOREM RegistryTypes == RegistrySpec => []RegistryTypeOK
<1>1. RegistryIInv => RegistryTypeOK
  BY DEF RegistryIInv
<1> QED
  BY <1>1, RegistrySafety, PTL

(* At most one goroutine ever runs readInConfig, exactly while the Once is  *)
(* running (config.go 370).                                                 *)
THEOREM OnceExcludes == RegistrySpec => []OneLoader
<1>1. RegistryIInv => OneLoader
  BY DEF RegistryIInv
<1> QED
  BY <1>1, RegistrySafety, PTL

(* When nothing of the last element is left, the registry is the file.      *)
LEMMA LoadedIsWhole == RegistryIInv /\ Loaded => registry = Configured
<1> SUFFICES ASSUME RegistryIInv, Loaded PROVE registry = Configured
  OBVIOUS
<1>1. decoded = N
  BY DEF RegistryIInv
<1>2. Given(N + 1) = {} /\ Blank(N + 1) = {}
  BY ElementAssumption DEF Given, Blank
<1> QED
  BY <1>1, <1>2 DEF RegistryIInv, RegistryAt, Configured

(* The registry is what has been decoded, later elements over earlier ones, *)
(* however the calls interleave, and the whole file once readInConfig has   *)
(* returned with no error (config.go 362).                                  *)
THEOREM RegistryIsWhatWasDecoded == RegistrySpec => []RegistryIsPrefix
<1>1. RegistryIInv => RegistryIsPrefix
  BY LoadedIsWhole DEF RegistryIInv, RegistryIsPrefix, RegistryAt
<1> QED
  BY <1>1, RegistrySafety, PTL

(* A configured service is reported "not found" only while the load is under *)
(* way or after it has failed (local.go 37-40).                              *)
THEOREM OnlyUnloadedMisses == RegistrySpec => MissOnlyUnloaded
<1> DEFINE Miss == \A a \in Actor :
               /\ call[a].pc = "lookup"
               /\ call'[a].pc = "missing"
               /\ call[a].svc \in Configured
               => ~Loaded
<1>1. RegistryIInv /\ [RegistryNext]_registryVars => Miss
  <2> SUFFICES ASSUME RegistryIInv, [RegistryNext]_registryVars, NEW a \in Actor,
                      call[a].pc = "lookup", call'[a].pc = "missing",
                      call[a].svc \in Configured, Loaded
               PROVE  FALSE
    OBVIOUS
  <2>1. call \in [Actor -> {Idle} \cup [pc : CallPCs, svc : Service]]
    BY DEF RegistryIInv, RegistryTypeOK
  <2>2. call[a].svc \in registry
    BY LoadedIsWhole
  <2>3. ASSUME NEW b \in Actor, Inside(b) \/ Return(b) \/ \E svc \in Service : Call(b, svc),
               call' # call
        PROVE  b = a
    BY <2>1, <2>3 DEF Inside, Return, Call, CheckConf, EnterOnce, WaitOnce, ReadFails,
         Publish, DecodeFirst, BeginInsert, StoreKey, EndInsert, NextElement, DecodeFails,
         FinishOnce, Lookup, LookupThrows, MoveTo
  <2>4. PICK b \in Actor : Inside(b) \/ Return(b) \/ \E svc \in Service : Call(b, svc)
    BY DEF RegistryNext, registryVars
  <2>5. Inside(a) \/ Return(a) \/ \E svc \in Service : Call(a, svc)
    BY <2>3, <2>4
  <2>6. Lookup(a) \/ LookupThrows(a)
    BY <2>5 DEF Inside, Return, Call, CheckConf, EnterOnce, WaitOnce, ReadFails,
         Publish, DecodeFirst, BeginInsert, StoreKey, EndInsert, NextElement, DecodeFails,
         FinishOnce, IsAt
  <2>7. call'[a].pc # "missing"
    BY <2>1, <2>2, <2>6 DEF Lookup, LookupThrows, MoveTo, Idle
  <2> QED
    BY <2>7
<1>2. Miss => [Miss]_registryVars
  OBVIOUS
<1> QED
  BY <1>1, <1>2, RegistrySafety, PTL DEF RegistrySpec, MissOnlyUnloaded
=============================================================================
