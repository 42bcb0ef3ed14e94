--------------------------- MODULE LocalRegistry ---------------------------
(***************************************************************************)
(* The lookup of a service's address in the configuration file, by the     *)
(* goroutines that call registerLocal.Register concurrently                *)
(* (internal/registry/local/local.go 37-40, internal/config/config.go      *)
(* 326-391).                                                               *)
(*                                                                         *)
(* The first goroutine to enter once.Do publishes the pointer conf BEFORE  *)
(* the file is decoded into it, and Conf() tests that pointer with no      *)
(* synchronisation: a goroutine that finds it set reads a registry that is *)
(* still being filled.  The registry of config.yml is a list of maps,      *)
(* which mapstructure decodes into one Go map, element by element: the     *)
(* first element builds a map that is then stored, the later ones insert   *)
(* into the stored map in place, where a concurrent read may end the       *)
(* process ("concurrent map read and map write").                          *)
(*                                                                         *)
(* An element gives an address to some services and leaves others blank    *)
(* ("" or null).  A blank address is stored like any other, over the one   *)
(* an earlier element gave, and Register refuses it like a missing one.    *)
(* What an address says is left out.                                       *)
(***************************************************************************)
EXTENDS Naturals

CONSTANTS
    Actor,     \* the goroutines that may call Register
    Service,   \* the service names requests may carry
    N,         \* the number of elements of the list in the file
    Element    \* the services each element gives an address to, and those
               \* it leaves blank

ASSUME ElementAssumption ==
    /\ N \in Nat \ {0}
    /\ Element \in [1..N -> [given : SUBSET Service, blank : SUBSET Service]]
    /\ \A i \in 1..N : Element[i].given \cap Element[i].blank = {}

VARIABLES
    published, \* conf # nil
    registry,  \* the services conf.LocalRegistry.Registry has an address for
    decoded,   \* how many elements of the list are wholly in registry
    todo,      \* the keys of the next element that are not
    once,      \* the sync.Once that guards readInConfig
    failed,    \* readInConfig returned an error
    call,      \* the call of Register each goroutine is in
    up         \* the process has not been ended by the Go runtime

fileVars == <<published, registry, decoded, todo>>
registryVars == <<fileVars, once, failed, call, up>>

Idle == [pc |-> "idle"]
At(pc, svc) == [pc |-> pc, svc |-> svc]

(* Inside a call: "read" to "stored" is readInConfig, run by the loader.    *)
CallPCs == {"conf", "once", "read", "decode", "insert", "stored",
            "lookup", "found", "missing"}

(* The keys of element i of the list, with an address and without. *)
Given(i) == IF i \in 1..N THEN Element[i].given ELSE {}
Blank(i) == IF i \in 1..N THEN Element[i].blank ELSE {}
Keys(i) == Given(i) \cup Blank(i)

RegistryInit ==
    /\ published = FALSE
    /\ registry = {}
    /\ decoded = 0
    /\ todo = Keys(1)
    /\ once = "fresh"
    /\ failed = FALSE
    /\ call = [a \in Actor |-> Idle]
    /\ up = TRUE

(* Actor a is at pc, and moves to pc2. *)
IsAt(a, pc) == up /\ call[a].pc = pc
MoveTo(a, pc2) == call' = [call EXCEPT ![a].pc = pc2]

-----------------------------------------------------------------------------
(* Register has parsed the service name and calls LocalRegistry(). *)
Call(a, svc) ==
    /\ IsAt(a, "idle")
    /\ call' = [call EXCEPT ![a] = At("conf", svc)]
    /\ UNCHANGED <<fileVars, once, failed, up>>

(* Conf() tests the pointer, unsynchronised. *)
CheckConf(a) ==
    /\ IsAt(a, "conf")
    /\ MoveTo(a, IF published THEN "lookup" ELSE "once")
    /\ UNCHANGED <<fileVars, once, failed, up>>

(* Mutant of EnterOnce: a bare "if conf == nil" without the Once. *)
EnterOnceUnguarded(a) ==
    /\ IsAt(a, "once")
    /\ once' = "running"
    /\ MoveTo(a, "read")
    /\ UNCHANGED <<fileVars, failed, up>>

(* once.Do: the first goroutine runs readInConfig... *)
EnterOnce(a) ==
    /\ IsAt(a, "once")
    /\ once = "fresh"
    /\ once' = "running"
    /\ MoveTo(a, "read")
    /\ UNCHANGED <<fileVars, failed, up>>

(* ... the others wait until it has returned. *)
WaitOnce(a) ==
    /\ IsAt(a, "once")
    /\ once = "over"
    /\ MoveTo(a, "lookup")
    /\ UNCHANGED <<fileVars, once, failed, up>>

(* Mutant of ReadFails: the failed load never releases the waiters. *)
ReadFailsHoldingOnce(a) ==
    /\ IsAt(a, "read")
    /\ failed' = TRUE
    /\ MoveTo(a, "lookup")
    /\ UNCHANGED <<fileVars, once, up>>

(* Mutant of ReadFails: readInConfig logs the error and returns nil. *)
ReadFailsSilently(a) ==
    /\ IsAt(a, "read")
    /\ once' = "over"
    /\ MoveTo(a, "lookup")
    /\ UNCHANGED <<fileVars, failed, up>>

(* The file cannot be read: the error is logged, conf stays nil for good. *)
ReadFails(a) ==
    /\ IsAt(a, "read")
    /\ once' = "over"
    /\ failed' = TRUE
    /\ MoveTo(a, "lookup")
    /\ UNCHANGED <<fileVars, up>>

(* conf = &Config{}: the pointer is visible, the registry is still nil. *)
Publish(a) ==
    /\ IsAt(a, "read")
    /\ published' = TRUE
    /\ MoveTo(a, "decode")
    /\ UNCHANGED <<registry, decoded, todo, once, failed, up>>

(* The first element is decoded into a map of its own, then stored. *)
DecodeFirst(a) ==
    /\ IsAt(a, "decode")
    /\ decoded = 0
    /\ registry' = Given(1)
    /\ decoded' = 1
    /\ todo' = Keys(2)
    /\ UNCHANGED <<published, once, failed, call, up>>

(* A later element is inserted key by key into the stored map, which others *)
(* may be reading: Go flags the map as being written, stores, unflags.      *)
BeginInsert(a) ==
    /\ IsAt(a, "decode")
    /\ decoded > 0
    /\ todo # {}
    /\ MoveTo(a, "insert")
    /\ UNCHANGED <<fileVars, once, failed, up>>

(* Mutant of StoreKey: a blank address never overwrites one. *)
StoreKeyUnlessBlank(a) ==
    /\ IsAt(a, "insert")
    /\ \E key \in todo :
           /\ registry' = registry \cup ({key} \cap Given(decoded + 1))
           /\ todo' = todo \ {key}
    /\ MoveTo(a, "stored")
    /\ UNCHANGED <<published, decoded, once, failed, up>>

StoreKey(a) ==
    /\ IsAt(a, "insert")
    /\ \E key \in todo :
           /\ registry' = (registry \ {key}) \cup ({key} \cap Given(decoded + 1))
           /\ todo' = todo \ {key}
    /\ MoveTo(a, "stored")
    /\ UNCHANGED <<published, decoded, once, failed, up>>

EndInsert(a) ==
    /\ IsAt(a, "stored")
    /\ MoveTo(a, "decode")
    /\ UNCHANGED <<fileVars, once, failed, up>>

(* Mutant of NextElement: the loop runs past the end of the list. *)
NextElementPastEnd(a) ==
    /\ IsAt(a, "decode")
    /\ decoded \in 1..N
    /\ todo = {}
    /\ decoded' = decoded + 1
    /\ todo' = Keys(decoded + 2)
    /\ UNCHANGED <<published, registry, once, failed, call, up>>

NextElement(a) ==
    /\ IsAt(a, "decode")
    /\ decoded \in 1..(N - 1)
    /\ todo = {}
    /\ decoded' = decoded + 1
    /\ todo' = Keys(decoded + 2)
    /\ UNCHANGED <<published, registry, once, failed, call, up>>

(* Mutant of DecodeFails: a failed load takes the registry back. *)
DecodeFailsResetting(a) ==
    /\ IsAt(a, "decode")
    /\ decoded < N
    /\ registry' = {}
    /\ once' = "over"
    /\ failed' = TRUE
    /\ MoveTo(a, "lookup")
    /\ UNCHANGED <<published, decoded, todo, up>>

(* An element that is no map, or has a value that is no string: Unmarshal   *)
(* stores the element's other keys and stops.                               *)
DecodeFails(a) ==
    /\ IsAt(a, "decode")
    /\ decoded < N
    /\ \E good \in IF decoded = 0 THEN SUBSET todo ELSE {{}} :
           /\ registry' = registry \cup (good \cap Given(1))
           /\ todo' = todo \ good
    /\ once' = "over"
    /\ failed' = TRUE
    /\ MoveTo(a, "lookup")
    /\ UNCHANGED <<published, decoded, up>>

(* Mutant of FinishOnce: the last element is never decoded. *)
FinishOncePartial(a) ==
    /\ IsAt(a, "decode")
    /\ decoded = N - 1
    /\ once' = "over"
    /\ MoveTo(a, "lookup")
    /\ UNCHANGED <<fileVars, failed, up>>

(* readInConfig returns nil and once.Do releases those that wait. *)
FinishOnce(a) ==
    /\ IsAt(a, "decode")
    /\ decoded = N
    /\ once' = "over"
    /\ MoveTo(a, "lookup")
    /\ UNCHANGED <<fileVars, failed, up>>

(* Mutant of Lookup: the "ok" of the map lookup is not looked at. *)
LookupUnchecked(a) ==
    /\ IsAt(a, "lookup")
    /\ MoveTo(a, "found")
    /\ UNCHANGED <<fileVars, once, failed, up>>

(* LocalRegistry() returns the map (an empty one when conf or the map is    *)
(* nil) and Register indexes it.                                            *)
Lookup(a) ==
    /\ IsAt(a, "lookup")
    /\ MoveTo(a, IF call[a].svc \in registry THEN "found" ELSE "missing")
    /\ UNCHANGED <<fileVars, once, failed, up>>

(* A read while the map is flagged may instead be caught by the Go runtime, *)
(* which ends the process.                                                  *)
LookupThrows(a) ==
    /\ IsAt(a, "lookup")
    /\ \E b \in Actor : call[b].pc \in {"insert", "stored"}
    /\ up' = FALSE
    /\ UNCHANGED <<fileVars, once, failed, call>>

(* Register returns its result to the caller. *)
Return(a) ==
    /\ up
    /\ call[a].pc \in {"found", "missing"}
    /\ call' = [call EXCEPT ![a] = Idle]
    /\ UNCHANGED <<fileVars, once, failed, up>>

(* What happens inside a call. *)
Inside(a) ==
    \/ CheckConf(a) \/ EnterOnce(a) \/ WaitOnce(a)
    \/ ReadFails(a) \/ Publish(a)
    \/ DecodeFirst(a) \/ BeginInsert(a) \/ StoreKey(a) \/ EndInsert(a)
    \/ NextElement(a) \/ DecodeFails(a) \/ FinishOnce(a)
    \/ Lookup(a) \/ LookupThrows(a)

RegistryNext ==
    \E a \in Actor : Inside(a) \/ Return(a) \/ \E svc \in Service : Call(a, svc)

(* The Go scheduler runs every goroutine that can run. *)
RegistryFairness == \A a \in Actor : WF_registryVars(Inside(a))

RegistrySpec == RegistryInit /\ [][RegistryNext]_registryVars /\ RegistryFairness

-----------------------------------------------------------------------------
(* What the first k elements define: what one of them gives an address to   *)
(* and none after it leaves blank.                                          *)
DefinedBy(k) ==
    {svc \in Service :
        \E i \in 1..k : svc \in Element[i].given
                        /\ \A j \in i..k : svc \notin Element[j].blank}

(* What the file defines. *)
Configured == DefinedBy(N)

Loaded == once = "over" /\ ~failed

RegistryTypeOK ==
    /\ published \in BOOLEAN
    /\ registry \in SUBSET Service
    /\ decoded \in 0..N
    /\ todo \in SUBSET Service
    /\ once \in {"fresh", "running", "over"}
    /\ failed \in BOOLEAN
    /\ call \in [Actor -> {Idle} \cup [pc : CallPCs, svc : Service]]
    /\ up \in BOOLEAN

(* The goroutines that execute readInConfig. *)
Loaders == {a \in Actor : call[a].pc \in {"read", "decode", "insert", "stored"}}

(* once.Do really excludes: at most one goroutine ever runs readInConfig,   *)
(* exactly while the Once is running, and only that one writes the registry *)
(* (config.go 370).                                                         *)
OneLoader ==
    /\ \A a, b \in Loaders : a = b
    /\ once = "running" <=> Loaders # {}

(* However the calls interleave, the registry is what the elements and keys *)
(* decoded so far define, later ones over earlier ones, and all of the file *)
(* once readInConfig has returned with no error: nothing else is lost, and  *)
(* nothing invented, by the order of the calls (config.go 362).             *)
RegistryIsPrefix ==
    /\ registry = (DefinedBy(decoded) \ (Blank(decoded + 1) \ todo))
                       \cup (Given(decoded + 1) \ todo)
    /\ Loaded => registry = Configured

(* A service the file as a whole has an address for is reported "not found" *)
(* only by a lookup made while the load was under way or after it failed: a *)
(* goroutine that waited for the Once, or came after it, sees the whole     *)
(* file (config.go 366-376, local.go 37-40).                                *)
MissOnlyUnloaded ==
    [][\A a \in Actor :
           /\ call[a].pc = "lookup"
           /\ call'[a].pc = "missing"
           /\ call[a].svc \in Configured
           => ~Loaded]_registryVars

(* Every call of Register returns, or the process is down. *)
CallsReturn ==
    \A a \in Actor :
        call[a].pc = "conf" ~> call[a].pc \in {"found", "missing"} \/ ~up
=============================================================================
