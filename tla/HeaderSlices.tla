---------------------------- MODULE HeaderSlices ----------------------------
(***************************************************************************)
(* The header slices of concurrent requests (internal/server/endpoint.go   *)
(* 178-179 and 254-262, invoke.go 90, internal/config/config.go 188-197).  *)
(*                                                                         *)
(* config.AddlHeaders is a slice the flag package built with append, so    *)
(* its array may have room behind its last element.  Every request         *)
(* appends config.ReflHeaders to it, and later config.RpcHeaders and a     *)
(* header of its own: when they fit in that room append stores them there, *)
(* in the one array all requests share, without any synchronisation.       *)
(*                                                                         *)
(* A Go string is two machine words, which a racing reader may get from    *)
(* different stores; slices and the array are therefore sequences of       *)
(* words.  The words of AddlHeaders itself never change and are left out:  *)
(* positions count from the end of AddlHeaders.  A lone word stands for a  *)
(* header where tearing is not of interest.                                *)
(***************************************************************************)
EXTENDS Sequences, Naturals

CONSTANTS
    Request,  \* the requests served concurrently
    Word,     \* the words of all headers
    Spares,   \* how much room there may be behind AddlHeaders, in words
    Refl,     \* config.ReflHeaders
    Rpc,      \* config.RpcHeaders
    Own       \* the header "X-" of each request, forwarded when it is there

ASSUME HeaderAssumption ==
    /\ Spares \subseteq Nat
    /\ Refl \in Seq(Word)
    /\ Rpc \in Seq(Word)
    /\ Own \in [Request -> Seq(Word)]

VARIABLES
    spare,    \* cap(config.AddlHeaders) - len(config.AddlHeaders), in words
    array,    \* the room behind AddlHeaders
    pc,       \* where the worker of each request is
    len,      \* the length of its slice in the shared array
    private,  \* the words of its slice when append had to allocate
    todo,     \* the words append has yet to store in the shared array
    seenRefl, \* the headers of its reflection requests
    seenRpc   \* the headers of its RPC

vars == <<spare, array, pc, len, private, todo, seenRefl, seenRpc>>

(* pc "refl": appending ReflHeaders and reading them; "rpc": appending      *)
(* RpcHeaders; "grow": copying the shared slice to a larger array; "own":   *)
(* appending its own header and reading them all.  len = 0 and a private    *)
(* slice when the slice is not in the shared array.                         *)
PC == {"start", "refl", "rpc", "grow", "own", "done"}

Init ==
    /\ spare \in Spares
    /\ array = [i \in 1..spare |-> <<>>]
    /\ pc = [r \in Request |-> "start"]
    /\ len = [r \in Request |-> 0]
    /\ private = [r \in Request |-> <<>>]
    /\ todo = [r \in Request |-> <<>>]
    /\ seenRefl = [r \in Request |-> <<>>]
    /\ seenRpc = [r \in Request |-> <<>>]

(* Whether append finds room for a slice of n words behind AddlHeaders. *)
Fits(n) == n <= spare

(* append(config.AddlHeaders, words...), up to the stores: request r goes   *)
(* on at pc2 with a slice in the shared array, or with one of its own.      *)
AppendToAddl(r, words, pc2) ==
    /\ pc' = [pc EXCEPT ![r] = pc2]
    /\ len' = [len EXCEPT ![r] = 0]
    /\ IF Fits(Len(words))
       THEN /\ todo' = [todo EXCEPT ![r] = words]
            /\ private' = [private EXCEPT ![r] = <<>>]
       ELSE /\ todo' = [todo EXCEPT ![r] = <<>>]
            /\ private' = [private EXCEPT ![r] = words]

(* One word stored behind the slice, in the shared array. *)
StoreWord(r) ==
    /\ todo[r] # <<>>
    /\ array' = [array EXCEPT ![len[r] + 1] = Head(todo[r])]
    /\ len' = [len EXCEPT ![r] = len[r] + 1]
    /\ todo' = [todo EXCEPT ![r] = Tail(todo[r])]
    /\ UNCHANGED <<spare, pc, private, seenRefl, seenRpc>>

(* The slice of r, read now: its length and its i-th word. *)
SliceLen(r) == len[r] + Len(private[r])
WordAt(r, i) == IF len[r] > 0 THEN array[i] ELSE private[r][i]

-----------------------------------------------------------------------------
(* Line 178: the headers of the reflection requests, ... *)
BeginRefl(r) ==
    /\ pc[r] = "start"
    /\ AppendToAddl(r, Refl, "refl")
    /\ UNCHANGED <<spare, array, seenRefl, seenRpc>>

(* ... which MetadataFromHeaders copies at once, word by word. *)
ReadRefl(r) ==
    /\ pc[r] = "refl"
    /\ todo[r] = <<>>
    /\ Len(seenRefl[r]) < SliceLen(r)
    /\ seenRefl' = [seenRefl EXCEPT ![r] = Append(@, WordAt(r, Len(@) + 1))]
    /\ UNCHANGED <<spare, array, pc, len, private, todo, seenRpc>>

(* Mutant of BeginRpc: RpcHeaders are appended to the reflection's slice. *)
BeginRpcOnRefl(r) ==
    /\ pc[r] = "refl"
    /\ todo[r] = <<>>
    /\ Len(seenRefl[r]) = SliceLen(r)
    /\ AppendToAddl(r, seenRefl[r] \o Rpc, "rpc")
    /\ UNCHANGED <<spare, array, seenRefl, seenRpc>>

(* Line 254: the headers of the RPC. *)
BeginRpc(r) ==
    /\ pc[r] = "refl"
    /\ todo[r] = <<>>
    /\ Len(seenRefl[r]) = SliceLen(r)
    /\ AppendToAddl(r, Rpc, "rpc")
    /\ UNCHANGED <<spare, array, seenRefl, seenRpc>>

(* Mutant of BeginOwn: the header is appended to AddlHeaders, not to those  *)
(* so far.                                                                  *)
BeginOwnOnAddl(r) ==
    /\ pc[r] = "rpc"
    /\ todo[r] = <<>>
    /\ AppendToAddl(r, Own[r], "own")
    /\ UNCHANGED <<spare, array, seenRefl, seenRpc>>

(* Line 260: the request's own header.  It may fit behind those of the RPC, *)
(* or the slice may be private already, ...                                 *)
BeginOwn(r) ==
    /\ pc[r] = "rpc"
    /\ todo[r] = <<>>
    /\ Fits(len[r] + Len(Own[r])) \/ len[r] = 0
    /\ pc' = [pc EXCEPT ![r] = "own"]
    /\ IF private[r] = <<>> /\ Fits(len[r] + Len(Own[r]))
       THEN todo' = [todo EXCEPT ![r] = Own[r]] /\ UNCHANGED private
       ELSE private' = [private EXCEPT ![r] = @ \o Own[r]] /\ UNCHANGED todo
    /\ UNCHANGED <<spare, array, len, seenRefl, seenRpc>>

(* ... or append copies the shared words first, while others store there.   *)
BeginGrow(r) ==
    /\ pc[r] = "rpc"
    /\ todo[r] = <<>>
    /\ ~Fits(len[r] + Len(Own[r]))
    /\ len[r] > 0
    /\ pc' = [pc EXCEPT ![r] = "grow"]
    /\ UNCHANGED <<spare, array, len, private, todo, seenRefl, seenRpc>>

Grow(r) ==
    /\ pc[r] = "grow"
    /\ Len(private[r]) < len[r]
    /\ private' = [private EXCEPT ![r] = Append(@, array[Len(@) + 1])]
    /\ UNCHANGED <<spare, array, pc, len, todo, seenRefl, seenRpc>>

(* Mutant of EndGrow: the header the slice was grown for is not stored. *)
EndGrowOnly(r) ==
    /\ pc[r] = "grow"
    /\ Len(private[r]) = len[r]
    /\ pc' = [pc EXCEPT ![r] = "own"]
    /\ len' = [len EXCEPT ![r] = 0]
    /\ UNCHANGED <<spare, array, private, todo, seenRefl, seenRpc>>

EndGrow(r) ==
    /\ pc[r] = "grow"
    /\ Len(private[r]) = len[r]
    /\ pc' = [pc EXCEPT ![r] = "own"]
    /\ len' = [len EXCEPT ![r] = 0]
    /\ private' = [private EXCEPT ![r] = @ \o Own[r]]
    /\ UNCHANGED <<spare, array, todo, seenRefl, seenRpc>>

(* invoke.go line 90: MetadataFromHeaders reads what is there by then. *)
ReadRpc(r) ==
    /\ pc[r] = "own"
    /\ todo[r] = <<>>
    /\ Len(seenRpc[r]) < SliceLen(r)
    /\ seenRpc' = [seenRpc EXCEPT ![r] = Append(@, WordAt(r, Len(@) + 1))]
    /\ UNCHANGED <<spare, array, pc, len, private, todo, seenRefl>>

Invoke(r) ==
    /\ pc[r] = "own"
    /\ todo[r] = <<>>
    /\ Len(seenRpc[r]) = SliceLen(r)
    /\ pc' = [pc EXCEPT ![r] = "done"]
    /\ UNCHANGED <<spare, array, len, private, todo, seenRefl, seenRpc>>

Next ==
    \E r \in Request :
        \/ BeginRefl(r) \/ StoreWord(r) \/ ReadRefl(r)
        \/ BeginRpc(r) \/ BeginOwn(r) \/ BeginGrow(r) \/ Grow(r) \/ EndGrow(r)
        \/ ReadRpc(r) \/ Invoke(r)

Spec == Init /\ [][Next]_vars

-----------------------------------------------------------------------------
WordsOf(s) == {s[i] : i \in DOMAIN s}

(* The words the RPCs of all requests are meant to carry. *)
RpcWords == WordsOf(Rpc) \cup UNION {WordsOf(Own[r]) : r \in Request}

(* ReflHeaders are never stored behind AddlHeaders. *)
ReflSealed == Refl = <<>> \/ ~Fits(Len(Refl))

(* When ReflHeaders do not fit behind AddlHeaders no RPC of any request     *)
(* carries a word of theirs, however the requests interleave and although   *)
(* the other headers do share the array (endpoint.go 178, 254).             *)
ReflStaysOut ==
    ReflSealed => \A r \in Request : WordsOf(seenRpc[r]) \subseteq RpcWords

(* ... and if in addition no request's own header is ever stored there, the *)
(* RPC of each request carries exactly its headers: all requests then store *)
(* the same words at the same places.                                       *)
RpcExact ==
    /\ ReflSealed
    /\ \A r \in Request : Own[r] = <<>> \/ ~Fits(Len(Rpc) + Len(Own[r]))
    => \A r \in Request : pc[r] = "done" => seenRpc[r] = Rpc \o Own[r]

(* Even where the array is shared, requests only trade words position by    *)
(* position: what an RPC carries at a place is what some request wanted at  *)
(* that place of its RPC or of its reflection requests.                     *)
WantedAt(i) ==
    {s[i] : s \in {t \in {Refl} \cup {Rpc \o Own[q] : q \in Request} : i \in DOMAIN t}}

TradedInPlace ==
    \A r \in Request :
        /\ \A i \in DOMAIN seenRpc[r] : seenRpc[r][i] \in WantedAt(i)
        /\ pc[r] = "done" => Len(seenRpc[r]) = Len(Rpc) + Len(Own[r])

(* config.go 149-153, "These headers will *only* be used during Reflection  *)
(* requests and will be excluded when invoking the requested RPC method".   *)
ReflExcluded == \A r \in Request : WordsOf(seenRpc[r]) \cap WordsOf(Refl) = {}
=============================================================================
