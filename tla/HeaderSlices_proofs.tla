------------------------- MODULE HeaderSlices_proofs -------------------------
(* What an RPC carries, for any requests, headers and capacity: no            *)
(* ReflHeaders where they do not fit behind AddlHeaders, exactly its headers  *)
(* where no request's own are stored there either, and in any case words that *)
(* were meant for the same place.                                             *)
EXTENDS HeaderSlices, TLAPS

(* A place behind AddlHeaders where nothing was stored yet holds <<>>. *)
Cell == Word \cup {<<>>}

TypeInv ==
    /\ spare \in Nat
    /\ array \in [1..spare -> Cell]
    /\ pc \in [Request -> PC]
    /\ len \in [Request -> Nat]
    /\ private \in [Request -> Seq(Cell)]
    /\ todo \in [Request -> Seq(Cell)]
    /\ seenRefl \in [Request -> Seq(Cell)]
    /\ seenRpc \in [Request -> Seq(Cell)]

(* What the slice of r holds behind AddlHeaders, once it is stored. *)
Meant(r) ==
    CASE pc[r] = "start" -> <<>>
      [] pc[r] = "refl" -> Refl
      [] pc[r] \in {"rpc", "grow"} -> Rpc
      [] pc[r] \in {"own", "done"} -> Rpc \o Own[r]

(* What append may ever store in the shared array, and its words at place i. *)
Stored == {s \in {Refl, Rpc} \cup {Rpc \o Own[q] : q \in Request} : Fits(Len(s))}
StoredAt(i) == {s[i] : s \in {t \in Stored : i \in DOMAIN t}}

(* Each word of s is the one meant to be there, or one that some request     *)
(* stored at the same place.                                                 *)
InPlace(s, m) == \A i \in 1..Len(s) : s[i] \in StoredAt(i) \cup {m[i]}

(* The slice of r is in the shared array, perhaps in part only, ... *)
Shared(r) ==
    /\ pc[r] # "grow"
    /\ Meant(r) \in Stored \cup {<<>>}
    /\ private[r] = <<>>
    /\ len[r] + Len(todo[r]) = Len(Meant(r))
    /\ \A i \in 1..Len(todo[r]) : todo[r][i] = Meant(r)[len[r] + i]

(* ... is being copied from there, ... *)
Copying(r) ==
    /\ pc[r] = "grow"
    /\ todo[r] = <<>>
    /\ Fits(Len(Rpc))
    /\ len[r] = Len(Rpc)
    /\ Len(private[r]) <= len[r]
    /\ InPlace(private[r], Rpc)

(* ... or has an array of its own. *)
Private(r) ==
    /\ pc[r] # "grow"
    /\ todo[r] = <<>>
    /\ len[r] = 0
    /\ Len(private[r]) = Len(Meant(r))
    /\ InPlace(private[r], Meant(r))

Slice(r) ==
    /\ Shared(r) \/ Copying(r) \/ Private(r)
    /\ \A i \in 1..len[r] : array[i] \in StoredAt(i)

Seen(r) ==
    /\ pc[r] \notin {"own", "done"} => seenRpc[r] = <<>>
    /\ pc[r] = "done" => Len(seenRpc[r]) = Len(Meant(r))
    /\ Len(seenRpc[r]) <= Len(Meant(r))
    /\ InPlace(seenRpc[r], Meant(r))

SliceInv == \A r \in Request : Slice(r)
SeenInv == \A r \in Request : Seen(r)

Inv == TypeInv /\ SliceInv /\ SeenInv

-----------------------------------------------------------------------------
(* Sequences of words. *)

LEMMA Nothing == <<>> \in Seq(Cell) /\ Len(<<>>) = 0
  OBVIOUS

LEMMA WordAppended ==
  ASSUME NEW s \in Seq(Cell), NEW w \in Cell
  PROVE  /\ Append(s, w) \in Seq(Cell) /\ Len(Append(s, w)) = Len(s) + 1
         /\ \A i \in 1..Len(s) : Append(s, w)[i] = s[i]
         /\ Append(s, w)[Len(s) + 1] = w
         /\ Len(s) \in Nat
  OBVIOUS

LEMMA Concatenated ==
  ASSUME NEW s \in Seq(Cell), NEW t \in Seq(Cell)
  PROVE  /\ s \o t \in Seq(Cell) /\ Len(s \o t) = Len(s) + Len(t)
         /\ \A i \in 1..Len(s) : (s \o t)[i] = s[i]
         /\ \A i \in 1..Len(t) : (s \o t)[Len(s) + i] = t[i]
         /\ Len(s) \in Nat /\ Len(t) \in Nat
  OBVIOUS

LEMMA WithoutHead ==
  ASSUME NEW s \in Seq(Cell), s # <<>>
  PROVE  /\ Tail(s) \in Seq(Cell) /\ Len(Tail(s)) = Len(s) - 1
         /\ Head(s) = s[1] /\ Head(s) \in Cell
         /\ Len(s) \in Nat /\ Len(s) > 0
         /\ \A i \in 1..(Len(s) - 1) : Tail(s)[i] = s[i + 1]
  OBVIOUS

LEMMA HeadersAreCells ==
  /\ spare \in Spares => spare \in Nat
  /\ Refl \in Seq(Cell) /\ Rpc \in Seq(Cell)
  /\ \A r \in Request : Own[r] \in Seq(Cell) /\ Rpc \o Own[r] \in Seq(Cell)
<1>1. Word \subseteq Cell
  BY DEF Cell
<1>2. \A t \in Seq(Word) : t \in Seq(Cell)
  BY <1>1
<1>3. Rpc \in Seq(Cell) /\ \A r \in Request : Own[r] \in Seq(Cell)
  BY <1>2, HeaderAssumption
<1>4. \A r \in Request : Rpc \o Own[r] \in Seq(Cell)
  BY <1>3, Concatenated
<1>5. QED
  BY <1>2, <1>3, <1>4, HeaderAssumption

LEMMA MeantIs ==
  ASSUME NEW r \in Request
  PROVE  /\ pc[r] = "start" => Meant(r) = <<>>
         /\ pc[r] = "refl" => Meant(r) = Refl
         /\ pc[r] \in {"rpc", "grow"} => Meant(r) = Rpc
         /\ pc[r] \in {"own", "done"} => Meant(r) = Rpc \o Own[r]
         /\ pc[r] \in PC => Meant(r) \in Seq(Cell) /\ Len(Meant(r)) \in Nat
<1>1. pc[r] = "start" => Meant(r) = <<>>
  BY DEF Meant
<1>2. pc[r] = "refl" => Meant(r) = Refl
  BY DEF Meant
<1>3. pc[r] \in {"rpc", "grow"} => Meant(r) = Rpc
  BY DEF Meant
<1>4. pc[r] \in {"own", "done"} => Meant(r) = Rpc \o Own[r]
  BY DEF Meant
<1>5. pc[r] \in PC => Meant(r) \in Seq(Cell)
  BY <1>1, <1>2, <1>3, <1>4, HeadersAreCells, Nothing DEF PC
<1>6. QED
  BY <1>1, <1>2, <1>3, <1>4, <1>5

(* What is meant to be in the shared array may be stored there. *)
LEMMA MeantStored ==
  ASSUME NEW r \in Request, pc[r] \in PC, Fits(Len(Meant(r)))
  PROVE  Meant(r) \in Stored \cup {<<>>}
  BY MeantIs DEF Stored, PC

LEMMA RpcStored == Fits(Len(Rpc)) => Rpc \in Stored
  BY DEF Stored

LEMMA StoredSame ==
  ASSUME spare' = spare
  PROVE  /\ Stored' = Stored
         /\ \A i : StoredAt(i)' = StoredAt(i)
         /\ \A s, m : InPlace(s, m) => InPlace(s, m)'
<1>1. Stored' = Stored
  BY DEF Stored, Fits
<1>2. \A i : StoredAt(i)' = StoredAt(i)
  BY <1>1 DEF StoredAt
<1>3. QED
  BY <1>1, <1>2 DEF InPlace

(* The words appended to a slice are at the places they are meant for. *)
LEMMA InPlaceExtended ==
  ASSUME NEW s \in Seq(Cell), NEW m \in Seq(Cell), NEW o \in Seq(Cell),
         Len(s) = Len(m), InPlace(s, m)
  PROVE  InPlace(s \o o, m \o o)
<1> SUFFICES ASSUME NEW i \in 1..Len(s \o o)
             PROVE  (s \o o)[i] \in StoredAt(i) \cup {(m \o o)[i]}
  BY DEF InPlace
<1>1. CASE i \in 1..Len(s)
  BY <1>1, Concatenated DEF InPlace
<1>2. CASE i \notin 1..Len(s)
  <2>1. (s \o o)[i] = o[i - Len(s)] /\ (m \o o)[i] = o[i - Len(m)]
    BY <1>2
  <2>2. QED
    BY <2>1
<1>3. QED
  BY <1>1, <1>2

(* How much room a slice takes and needs behind AddlHeaders. *)
LEMMA SliceShape ==
  ASSUME TypeInv, NEW r \in Request, Slice(r)
  PROVE  /\ len[r] + Len(todo[r]) <= spare
         /\ len[r] \in Nat /\ Len(todo[r]) \in Nat /\ spare \in Nat /\ Len(private[r]) \in Nat
         /\ pc[r] # "grow" /\ (len[r] > 0 \/ todo[r] # <<>>) => private[r] = <<>>
         /\ pc[r] # "grow" /\ todo[r] = <<>> => SliceLen(r) = Len(Meant(r))
<1>1. /\ len[r] \in Nat /\ Len(todo[r]) \in Nat /\ spare \in Nat /\ Len(private[r]) \in Nat
      /\ Len(Meant(r)) \in Nat
  BY MeantIs DEF TypeInv
<1>2. CASE Shared(r)
  <2>1. Len(Meant(r)) <= spare
    BY <1>1, <1>2, Nothing DEF Shared, Stored, Fits
  <2>2. QED
    BY <1>1, <1>2, <2>1, Nothing DEF Shared, SliceLen
<1>3. CASE Copying(r)
  BY <1>1, <1>3, Nothing DEF Copying, Fits
<1>4. CASE Private(r)
  BY <1>1, <1>4, Nothing DEF Private, SliceLen
<1>5. QED
  BY <1>2, <1>3, <1>4 DEF Slice

-----------------------------------------------------------------------------
(* The invariant holds initially. *)
LEMMA InitInv == Init => Inv
<1> SUFFICES ASSUME Init PROVE Inv
  OBVIOUS
<1>1. TypeInv
  BY HeadersAreCells DEF Init, TypeInv, PC, Cell
<1>2. ASSUME NEW r \in Request PROVE Slice(r) /\ Seen(r)
  <2>1. /\ todo[r] = <<>> /\ len[r] = 0 /\ private[r] = <<>> /\ seenRpc[r] = <<>>
        /\ pc[r] = "start" /\ Meant(r) = <<>>
    BY MeantIs DEF Init
  <2>2. Private(r)
    BY <2>1, Nothing DEF Private, InPlace
  <2>3. Seen(r)
    BY <2>1, Nothing DEF Seen, InPlace
  <2>4. QED
    BY <2>1, <2>2, <2>3 DEF Slice
<1>3. QED
  BY <1>1, <1>2 DEF Inv, SliceInv, SeenInv

(* A step of one request disturbs no other, as long as what the others have  *)
(* stored is replaced by what may be stored there.                           *)
LEMMA OthersUndisturbed ==
  ASSUME Inv, TypeInv', spare' = spare, NEW r \in Request,
         \A q \in Request \ {r} :
            /\ pc'[q] = pc[q] /\ len'[q] = len[q] /\ private'[q] = private[q]
            /\ todo'[q] = todo[q] /\ seenRpc'[q] = seenRpc[q],
         \A i \in 1..spare : array[i] \in StoredAt(i) => array'[i] \in StoredAt(i),
         Slice(r)',
         Seen(r)'
  PROVE  Inv'
<1>1. ASSUME NEW q \in Request, q # r PROVE Slice(q)' /\ Seen(q)'
  <2>1. /\ pc'[q] = pc[q] /\ len'[q] = len[q] /\ private'[q] = private[q]
        /\ todo'[q] = todo[q] /\ seenRpc'[q] = seenRpc[q]
    BY <1>1
  <2>2. Slice(q) /\ Seen(q)
    BY DEF Inv, SliceInv, SeenInv
  <2>3. Meant(q)' = Meant(q)
    BY <2>1 DEF Meant
  <2>4. Shared(q) => Shared(q)'
    BY <2>1, <2>3, StoredSame DEF Shared
  <2>5. Copying(q) => Copying(q)'
    BY <2>1, StoredSame DEF Copying, Fits
  <2>6. Private(q) => Private(q)'
    BY <2>1, <2>3, StoredSame DEF Private
  <2>7. \A i \in 1..len[q] : array'[i] \in StoredAt(i)'
    <3>1. len[q] <= spare /\ len[q] \in Nat /\ spare \in Nat
      BY <2>2, SliceShape DEF Inv
    <3>2. QED
      BY <2>2, <3>1, StoredSame DEF Slice
  <2>8. Seen(q)'
    BY <2>1, <2>2, <2>3, StoredSame DEF Seen
  <2>9. QED
    BY <2>1, <2>2, <2>4, <2>5, <2>6, <2>7, <2>8 DEF Slice
<1>2. QED
  BY <1>1 DEF Inv, SliceInv, SeenInv

(* An append to AddlHeaders starts with nothing stored, whether the headers  *)
(* fit behind it or not.                                                     *)
LEMMA AppendInv ==
  ASSUME Inv, NEW r \in Request, NEW words \in Seq(Cell), NEW next \in {"refl", "rpc"},
         pc[r] \in {"start", "refl"}, todo[r] = <<>>,
         AppendToAddl(r, words, next),
         UNCHANGED <<spare, array, seenRefl, seenRpc>>,
         next = "refl" => words = Refl,
         next = "rpc" => words = Rpc
  PROVE  Inv'
<1>1. TypeInv'
  BY DEF Inv, TypeInv, AppendToAddl, PC
<1>2. len'[r] = 0 /\ pc'[r] = next /\ seenRpc'[r] = seenRpc[r] /\ Len(words) \in Nat
  BY DEF Inv, TypeInv, AppendToAddl
<1>3. Meant(r)' = words
  BY <1>2 DEF Meant
<1>4. Slice(r)'
  <2>1. CASE Fits(Len(words))
    <3>1. todo'[r] = words /\ private'[r] = <<>>
      BY <2>1 DEF Inv, TypeInv, AppendToAddl
    <3>2. words \in Stored
      BY <2>1 DEF Stored
    <3>3. Stored' = Stored
      BY StoredSame
    <3>4. Shared(r)'
      BY <1>2, <1>3, <3>1, <3>2, <3>3 DEF Shared
    <3>5. QED
      BY <1>2, <3>4 DEF Slice
  <2>2. CASE ~Fits(Len(words))
    <3>1. todo'[r] = <<>> /\ private'[r] = words
      BY <2>2 DEF Inv, TypeInv, AppendToAddl
    <3>2. Private(r)'
      BY <1>2, <1>3, <3>1 DEF Private, InPlace
    <3>3. QED
      BY <1>2, <3>2 DEF Slice
  <2>3. QED
    BY <2>1, <2>2
<1>5. Seen(r)'
  <2>1. seenRpc[r] = <<>>
    BY DEF Inv, SeenInv, Seen
  <2>2. QED
    BY <1>2, <1>3, <2>1, Nothing DEF Seen, InPlace
<1>6. \A q \in Request \ {r} :
            /\ pc'[q] = pc[q] /\ len'[q] = len[q] /\ private'[q] = private[q]
            /\ todo'[q] = todo[q] /\ seenRpc'[q] = seenRpc[q]
  BY DEF Inv, TypeInv, AppendToAddl
<1>7. QED
  BY <1>1, <1>4, <1>5, <1>6, OthersUndisturbed

(* What a request reads of its slice is meant to be there, or was stored     *)
(* there.                                                                    *)
LEMMA WordRead ==
  ASSUME Inv, NEW r \in Request, NEW t \in Seq(Cell),
         pc[r] # "grow", todo[r] = <<>>, Len(t) < SliceLen(r)
  PROVE  /\ WordAt(r, Len(t) + 1) \in Cell
         /\ WordAt(r, Len(t) + 1) \in StoredAt(Len(t) + 1) \cup {Meant(r)[Len(t) + 1]}
<1> DEFINE p == private[r]
           i == Len(t) + 1
<1>1. /\ p \in Seq(Cell) /\ Len(p) \in Nat /\ len[r] \in Nat /\ spare \in Nat /\ i \in Nat /\ i >= 1
      /\ len[r] <= spare /\ i <= len[r] + Len(p)
  <2>1. TypeInv /\ Slice(r)
    BY DEF Inv, SliceInv
  <2>2. p \in Seq(Cell) /\ Len(t) \in Nat
    BY <2>1 DEF TypeInv
  <2>3. QED
    BY <2>1, <2>2, SliceShape DEF SliceLen
<1>2. CASE len[r] > 0
  <2>1. p = <<>>
    BY <1>2, SliceShape DEF Inv, SliceInv
  <2>2. i \in 1..len[r] /\ i \in 1..spare
    BY <1>1, <2>1, Nothing
  <2>3. WordAt(r, i) = array[i]
    BY <1>2 DEF WordAt
  <2>4. QED
    BY <2>2, <2>3 DEF Inv, TypeInv, SliceInv, Slice
<1>3. CASE len[r] = 0
  <2>1. i \in 1..Len(p)
    BY <1>1, <1>3
  <2>2. WordAt(r, i) = p[i]
    BY <1>3 DEF WordAt
  <2>3. p[i] \in Cell
    BY <1>1, <2>1
  <2>4. ~Copying(r) /\ ~Shared(r)
    BY <1>1, <2>1, Nothing DEF Copying, Shared
  <2>5. Private(r)
    BY <2>4 DEF Inv, SliceInv, Slice
  <2>6. p[i] \in StoredAt(i) \cup {Meant(r)[i]}
    BY <2>1, <2>5 DEF Private, InPlace
  <2>7. QED
    BY <2>2, <2>3, <2>6
<1>4. QED
  BY <1>1, <1>2, <1>3

(* Every step of every request preserves it. *)
LEMMA NextInv == Inv /\ [Next]_vars => Inv'
<1> SUFFICES ASSUME Inv, [Next]_vars PROVE Inv'
  OBVIOUS
<1>0. ASSUME NEW r \in Request PROVE /\ Slice(r) /\ Seen(r) /\ pc[r] \in PC
                                     /\ Meant(r) \in Seq(Cell) /\ Len(Meant(r)) \in Nat
  BY MeantIs DEF Inv, TypeInv, SliceInv, SeenInv
<1>1. CASE UNCHANGED vars
  <2>1. TypeInv'
    BY <1>1 DEF vars, Inv, TypeInv
  <2>2. ASSUME NEW r \in Request PROVE Slice(r)' /\ Seen(r)'
    <3>1. Meant(r)' = Meant(r)
      BY <1>1 DEF vars, Meant
    <3>2. QED
      BY <1>0, <1>1, <3>1, StoredSame DEF vars, Slice, Seen, Shared, Copying, Private, Fits
  <2>3. QED
    BY <2>1, <2>2 DEF Inv, SliceInv, SeenInv
<1>2. ASSUME NEW r \in Request, BeginRefl(r) PROVE Inv'
  <2>1. pc[r] = "start" /\ AppendToAddl(r, Refl, "refl")
        /\ UNCHANGED <<spare, array, seenRefl, seenRpc>>
    BY <1>2 DEF BeginRefl
  <2>2. todo[r] = <<>>
    <3>1. Meant(r) = <<>> /\ Slice(r)
      BY <1>0, <2>1, MeantIs
    <3>2. todo[r] \in Seq(Cell) /\ len[r] \in Nat
      BY DEF Inv, TypeInv
    <3>3. QED
      BY <2>1, <3>1, <3>2, Nothing DEF Slice, Shared, Copying, Private
  <2>3. QED
    BY <2>1, <2>2, AppendInv, HeadersAreCells
<1>3. ASSUME NEW r \in Request, BeginRpc(r) PROVE Inv'
  BY <1>3, AppendInv, HeadersAreCells DEF BeginRpc
<1>4. ASSUME NEW r \in Request, StoreWord(r) PROVE Inv'
  <2> DEFINE s == todo[r]
             n == len[r]
             m == Meant(r)
  <2>1. /\ s \in Seq(Cell) /\ s # <<>> /\ n \in Nat /\ spare \in Nat /\ m \in Seq(Cell)
    BY <1>0, <1>4 DEF Inv, TypeInv, StoreWord
  <2>2. /\ Tail(s) \in Seq(Cell) /\ Len(Tail(s)) = Len(s) - 1
        /\ Head(s) = s[1] /\ Head(s) \in Cell /\ Len(s) \in Nat /\ Len(s) > 0
        /\ \A i \in 1..(Len(s) - 1) : Tail(s)[i] = s[i + 1]
    BY <2>1, WithoutHead
  <2>3. Shared(r)
    BY <1>0, <2>1 DEF Slice, Copying, Private
  <2>4. /\ n + Len(s) = Len(m) /\ \A i \in 1..Len(s) : s[i] = m[n + i]
        /\ m \in Stored /\ Len(m) <= spare /\ pc[r] # "grow" /\ private[r] = <<>>
    <3>1. n + Len(s) = Len(m) /\ \A i \in 1..Len(s) : s[i] = m[n + i]
      BY <2>3 DEF Shared
    <3>2. m # <<>>
      BY <2>1, <2>2, <3>1, Nothing
    <3>3. QED
      BY <2>3, <3>1, <3>2 DEF Shared, Stored, Fits
  <2>5. /\ todo'[r] = Tail(s) /\ len'[r] = n + 1 /\ private'[r] = private[r] /\ pc'[r] = pc[r]
        /\ seenRpc'[r] = seenRpc[r] /\ spare' = spare
    BY <1>4 DEF StoreWord, Inv, TypeInv
  <2>6. \A i \in 1..spare : array'[i] = IF i = n + 1 THEN Head(s) ELSE array[i]
    BY <1>4 DEF StoreWord, Inv, TypeInv
  <2>7. TypeInv'
    <3>1. array' \in [1..spare -> Cell]
      BY <1>4, <2>2 DEF Inv, TypeInv, StoreWord
    <3>2. todo' \in [Request -> Seq(Cell)]
      BY <1>4, <2>2 DEF Inv, TypeInv, StoreWord
    <3>3. len' \in [Request -> Nat]
      <4>1. len \in [Request -> Nat] /\ n + 1 \in Nat
        BY <2>1 DEF Inv, TypeInv
      <4>2. len' = [len EXCEPT ![r] = n + 1]
        BY <1>4 DEF StoreWord
      <4>3. QED
        BY <4>1, <4>2
    <3>4. QED
      BY <1>4, <3>1, <3>2, <3>3 DEF Inv, TypeInv, StoreWord
  <2>8. Head(s) \in StoredAt(n + 1)
    <3>1. Head(s) = m[n + 1] /\ n + 1 \in DOMAIN m
      BY <2>1, <2>2, <2>4
    <3>2. QED
      BY <2>4, <3>1 DEF StoredAt
  <2>9. \A i \in 1..spare : array[i] \in StoredAt(i) => array'[i] \in StoredAt(i)
    BY <2>6, <2>8
  <2>10. Meant(r)' = m
    BY <2>5 DEF Meant
  <2>11. Slice(r)'
    <3>1. Stored' = Stored
      BY <2>5, StoredSame
    <3>2. \A i \in 1..Len(Tail(s)) : Tail(s)[i] = m[n + 1 + i]
      <4>1. ASSUME NEW i \in 1..Len(Tail(s)) PROVE Tail(s)[i] = m[n + 1 + i]
        <5>1. i \in 1..(Len(s) - 1) /\ i + 1 \in 1..Len(s) /\ n + (i + 1) = n + 1 + i
          BY <2>1, <2>2
        <5>2. QED
          BY <2>2, <2>4, <5>1
      <4>2. QED
        BY <4>1
    <3>3. n + 1 + Len(Tail(s)) = Len(m)
      BY <2>1, <2>2, <2>4
    <3>4. Shared(r)'
      BY <2>4, <2>5, <2>10, <3>1, <3>2, <3>3 DEF Shared
    <3>5. \A i \in 1..(n + 1) : array'[i] \in StoredAt(i)
      <4>1. \A i \in 1..n : array[i] \in StoredAt(i)
        BY <1>0 DEF Slice
      <4>2. n + 1 <= spare
        BY <2>1, <2>2, <2>4
      <4>3. QED
        BY <2>1, <2>6, <2>8, <4>1, <4>2
    <3>6. \A i \in 1..len'[r] : array'[i] \in StoredAt(i)'
      BY <2>5, <3>5, StoredSame
    <3>7. QED
      BY <3>4, <3>6 DEF Slice
  <2>12. Seen(r)'
    BY <1>0, <2>5, <2>10, StoredSame DEF Seen
  <2>13. \A q \in Request \ {r} :
            /\ pc'[q] = pc[q] /\ len'[q] = len[q] /\ private'[q] = private[q]
            /\ todo'[q] = todo[q] /\ seenRpc'[q] = seenRpc[q]
    BY <1>4 DEF StoreWord, Inv, TypeInv
  <2>14. QED
    BY <2>5, <2>7, <2>9, <2>11, <2>12, <2>13, OthersUndisturbed
<1>5. ASSUME NEW r \in Request, ReadRefl(r) PROVE Inv'
  <2> DEFINE t == seenRefl[r]
  <2>1. t \in Seq(Cell) /\ pc[r] = "refl" /\ todo[r] = <<>> /\ Len(t) < SliceLen(r)
        /\ UNCHANGED <<spare, array, pc, len, private, todo, seenRpc>>
    BY <1>5 DEF ReadRefl, Inv, TypeInv
  <2>2. WordAt(r, Len(t) + 1) \in Cell
    BY <2>1, WordRead
  <2>3. TypeInv'
    BY <1>5, <2>2 DEF Inv, TypeInv, ReadRefl
  <2>4. Meant(r)' = Meant(r)
    BY <2>1 DEF Meant
  <2>5. Slice(r)' /\ Seen(r)'
    BY <1>0, <2>1, <2>4, StoredSame DEF Slice, Seen, Shared, Copying, Private, Fits
  <2>6. QED
    BY <2>1, <2>3, <2>5, OthersUndisturbed
<1>6. ASSUME NEW r \in Request, BeginOwn(r) PROVE Inv'
  <2> DEFINE p == private[r]
             o == Own[r]
  <2>1. /\ o \in Seq(Cell) /\ p \in Seq(Cell) /\ todo[r] = <<>> /\ pc[r] = "rpc"
        /\ pc'[r] = "own" /\ UNCHANGED <<spare, array, len, seenRefl, seenRpc>>
        /\ len[r] \in Nat /\ spare \in Nat /\ Meant(r) = Rpc /\ Rpc \in Seq(Cell)
    BY <1>6, HeadersAreCells, MeantIs DEF Inv, TypeInv, BeginOwn
  <2>2. /\ p \o o \in Seq(Cell) /\ Len(p \o o) = Len(p) + Len(o)
        /\ \A i \in 1..Len(p) : (p \o o)[i] = p[i]
        /\ \A i \in 1..Len(o) : (p \o o)[Len(p) + i] = o[i]
        /\ Len(p) \in Nat /\ Len(o) \in Nat
    BY <2>1, Concatenated
  <2>3. /\ Len(Rpc \o o) = Len(Rpc) + Len(o)
        /\ \A i \in 1..Len(Rpc) : (Rpc \o o)[i] = Rpc[i]
        /\ \A i \in 1..Len(o) : (Rpc \o o)[Len(Rpc) + i] = o[i]
        /\ Len(Rpc) \in Nat
    BY <2>1, Concatenated
  <2>4. Meant(r)' = Rpc \o o
    BY <2>1 DEF Meant
  <2>5. TypeInv'
    BY <1>6, <2>1, <2>2 DEF Inv, TypeInv, BeginOwn, PC
  <2>6. ASSUME p = <<>> /\ Fits(len[r] + Len(o)) PROVE Slice(r)'
    <3>1. todo'[r] = o /\ private'[r] = <<>>
      BY <1>6, <2>1, <2>6 DEF Inv, TypeInv, BeginOwn
    <3>2. len[r] = Len(Rpc)
      <4>1. Shared(r) \/ Private(r)
        BY <1>0, <2>1 DEF Slice, Copying
      <4>2. QED
        BY <2>1, <2>6, <4>1, Nothing DEF Shared, Private
    <3>3. Rpc \o o \in Stored
      BY <2>3, <2>6, <3>2 DEF Stored
    <3>4. Stored' = Stored
      BY <2>1, StoredSame
    <3>5. Shared(r)'
      BY <2>1, <2>3, <2>4, <3>1, <3>2, <3>3, <3>4 DEF Shared
    <3>6. \A i \in 1..len'[r] : array'[i] \in StoredAt(i)'
      BY <1>0, <2>1, StoredSame DEF Slice
    <3>7. QED
      BY <3>5, <3>6 DEF Slice
  <2>7. ASSUME ~(p = <<>> /\ Fits(len[r] + Len(o))) PROVE Slice(r)'
    <3>1. todo'[r] = <<>> /\ private'[r] = p \o o
      BY <1>6, <2>1, <2>7 DEF Inv, TypeInv, BeginOwn
    <3>2. len[r] = 0 /\ Len(p) = Len(Rpc) /\ InPlace(p, Rpc)
      <4>1. Shared(r) \/ Private(r)
        BY <1>0, <2>1 DEF Slice, Copying
      <4>2. CASE Private(r)
        BY <2>1, <4>2 DEF Private
      <4>3. CASE Shared(r)
        <5>1. p = <<>> /\ len[r] = 0
          BY <1>6, <2>7, <4>3 DEF Shared, BeginOwn
        <5>2. Len(Rpc) = 0
          BY <2>1, <4>3, <5>1, Nothing DEF Shared
        <5>3. QED
          BY <5>1, <5>2, Nothing DEF InPlace
      <4>4. QED
        BY <4>1, <4>2, <4>3
    <3>3. InPlace(p \o o, Rpc \o o)
      BY <2>1, <3>2, InPlaceExtended
    <3>4. Private(r)'
      BY <2>1, <2>2, <2>3, <2>4, <3>1, <3>2, <3>3, StoredSame DEF Private
    <3>5. QED
      BY <2>1, <3>2, <3>4 DEF Slice
  <2>8. Seen(r)'
    <3>1. seenRpc'[r] = <<>>
      BY <1>0, <2>1 DEF Seen
    <3>2. QED
      BY <2>1, <2>3, <2>4, <2>2, <3>1, Nothing DEF Seen, InPlace
  <2>9. \A q \in Request \ {r} :
            /\ pc'[q] = pc[q] /\ len'[q] = len[q] /\ private'[q] = private[q]
            /\ todo'[q] = todo[q] /\ seenRpc'[q] = seenRpc[q]
    BY <1>6 DEF BeginOwn, Inv, TypeInv
  <2>10. QED
    BY <2>1, <2>5, <2>6, <2>7, <2>8, <2>9, OthersUndisturbed
<1>7. ASSUME NEW r \in Request, BeginGrow(r) PROVE Inv'
  <2>1. /\ pc[r] = "rpc" /\ pc'[r] = "grow" /\ todo[r] = <<>> /\ len[r] > 0 /\ Meant(r) = Rpc
        /\ UNCHANGED <<spare, array, len, private, todo, seenRefl, seenRpc>>
    BY <1>7, MeantIs DEF BeginGrow, Inv, TypeInv
  <2>2. TypeInv'
    BY <1>7 DEF Inv, TypeInv, BeginGrow, PC
  <2>3. Shared(r)
    BY <1>0, <2>1 DEF Slice, Copying, Private
  <2>4. /\ len[r] = Len(Rpc) /\ private[r] = <<>> /\ Fits(Len(Rpc)) /\ Len(Rpc) \in Nat
    <3>1. len[r] = Len(Rpc) /\ private[r] = <<>> /\ len[r] \in Nat
      BY <2>1, <2>3, Nothing DEF Shared, Inv, TypeInv
    <3>2. Len(Rpc) <= spare
      BY <2>1, <3>1, SliceShape, <1>0, Nothing DEF Inv
    <3>3. QED
      BY <3>1, <3>2 DEF Fits
  <2>5. Copying(r)'
    BY <2>1, <2>4, Nothing DEF Copying, InPlace, Fits
  <2>6. Slice(r)'
    BY <1>0, <2>1, <2>5, StoredSame DEF Slice
  <2>7. Seen(r)'
    <3>1. Meant(r)' = Rpc /\ seenRpc'[r] = <<>>
      BY <1>0, <2>1 DEF Meant, Seen
    <3>2. QED
      BY <2>1, <2>4, <3>1, Nothing DEF Seen, InPlace
  <2>8. \A q \in Request \ {r} :
            /\ pc'[q] = pc[q] /\ len'[q] = len[q] /\ private'[q] = private[q]
            /\ todo'[q] = todo[q] /\ seenRpc'[q] = seenRpc[q]
    BY <1>7 DEF BeginGrow, Inv, TypeInv
  <2>9. QED
    BY <2>1, <2>2, <2>6, <2>7, <2>8, OthersUndisturbed
<1>8. ASSUME NEW r \in Request, Grow(r) PROVE Inv'
  <2> DEFINE p == private[r]
             w == array[Len(p) + 1]
  <2>1. /\ p \in Seq(Cell) /\ pc[r] = "grow" /\ private'[r] = Append(p, w) /\ Len(p) < len[r]
        /\ UNCHANGED <<spare, array, pc, len, todo, seenRefl, seenRpc>>
        /\ Len(p) \in Nat /\ len[r] \in Nat /\ spare \in Nat /\ len[r] <= spare
    <3>1. p \in Seq(Cell) /\ pc[r] = "grow" /\ private'[r] = Append(p, w) /\ Len(p) < len[r]
          /\ UNCHANGED <<spare, array, pc, len, todo, seenRefl, seenRpc>>
      BY <1>8 DEF Inv, TypeInv, Grow
    <3>2. QED
      BY <3>1, <1>0, SliceShape DEF Inv
  <2>2. Copying(r) /\ \A i \in 1..len[r] : array[i] \in StoredAt(i)
    BY <1>0, <2>1 DEF Slice, Shared, Private
  <2>3. Len(p) + 1 \in 1..len[r] /\ w \in Cell /\ w \in StoredAt(Len(p) + 1)
    BY <2>1, <2>2 DEF Inv, TypeInv
  <2>4. /\ Append(p, w) \in Seq(Cell) /\ Len(Append(p, w)) = Len(p) + 1
        /\ \A i \in 1..Len(p) : Append(p, w)[i] = p[i]
        /\ Append(p, w)[Len(p) + 1] = w
    BY <2>1, <2>3, WordAppended
  <2>5. TypeInv'
    BY <1>8, <2>1, <2>4 DEF Inv, TypeInv, Grow
  <2>6. InPlace(Append(p, w), Rpc)
    BY <2>1, <2>2, <2>3, <2>4 DEF Copying, InPlace
  <2>7. Copying(r)'
    BY <2>1, <2>2, <2>4, <2>6, StoredSame DEF Copying, Fits
  <2>8. Slice(r)'
    BY <2>1, <2>2, <2>7, StoredSame DEF Slice
  <2>9. Seen(r)'
    <3>1. Meant(r)' = Meant(r)
      BY <2>1 DEF Meant
    <3>2. QED
      BY <1>0, <2>1, <3>1, StoredSame DEF Seen
  <2>10. \A q \in Request \ {r} : private'[q] = private[q]
    BY <1>8 DEF Grow, Inv, TypeInv
  <2>11. QED
    BY <2>1, <2>5, <2>8, <2>9, <2>10, OthersUndisturbed
<1>9. ASSUME NEW r \in Request, EndGrow(r) PROVE Inv'
  <2> DEFINE p == private[r]
             o == Own[r]
  <2>1. /\ o \in Seq(Cell) /\ p \in Seq(Cell) /\ Rpc \in Seq(Cell) /\ pc[r] = "grow"
        /\ pc'[r] = "own" /\ len'[r] = 0 /\ private'[r] = p \o o /\ Len(p) = len[r]
        /\ UNCHANGED <<spare, array, todo, seenRefl, seenRpc>>
    BY <1>9, HeadersAreCells DEF Inv, TypeInv, EndGrow
  <2>2. /\ p \o o \in Seq(Cell) /\ Len(p \o o) = Len(p) + Len(o)
        /\ \A i \in 1..Len(p) : (p \o o)[i] = p[i]
        /\ \A i \in 1..Len(o) : (p \o o)[Len(p) + i] = o[i]
        /\ Len(p) \in Nat /\ Len(o) \in Nat
    BY <2>1, Concatenated
  <2>3. /\ Len(Rpc \o o) = Len(Rpc) + Len(o)
        /\ \A i \in 1..Len(Rpc) : (Rpc \o o)[i] = Rpc[i]
        /\ \A i \in 1..Len(o) : (Rpc \o o)[Len(Rpc) + i] = o[i]
        /\ Len(Rpc) \in Nat
    BY <2>1, Concatenated
  <2>4. Copying(r)
    BY <1>0, <2>1 DEF Slice, Shared, Private
  <2>5. Len(p) = Len(Rpc) /\ InPlace(p, Rpc) /\ todo[r] = <<>>
    BY <2>1, <2>4 DEF Copying
  <2>6. TypeInv'
    BY <1>9, <2>1, <2>2 DEF Inv, TypeInv, EndGrow, PC
  <2>7. InPlace(p \o o, Rpc \o o)
    BY <2>1, <2>5, InPlaceExtended
  <2>8. Meant(r)' = Rpc \o o
    BY <2>1 DEF Meant
  <2>9. Private(r)'
    BY <2>1, <2>2, <2>3, <2>5, <2>7, <2>8, StoredSame DEF Private
  <2>10. Slice(r)'
    BY <2>1, <2>9 DEF Slice
  <2>11. Seen(r)'
    <3>1. seenRpc'[r] = <<>>
      BY <1>0, <2>1 DEF Seen
    <3>2. QED
      BY <2>1, <2>2, <2>3, <2>8, <3>1, Nothing DEF Seen, InPlace
  <2>12. \A q \in Request \ {r} :
            /\ pc'[q] = pc[q] /\ len'[q] = len[q] /\ private'[q] = private[q]
    BY <1>9 DEF EndGrow, Inv, TypeInv
  <2>13. QED
    BY <2>1, <2>6, <2>10, <2>11, <2>12, OthersUndisturbed
<1>10. ASSUME NEW r \in Request, ReadRpc(r) PROVE Inv'
  <2> DEFINE t == seenRpc[r]
             w == WordAt(r, Len(t) + 1)
             m == Meant(r)
  <2>1. /\ t \in Seq(Cell) /\ pc[r] = "own" /\ seenRpc'[r] = Append(t, w) /\ todo[r] = <<>>
        /\ Len(t) < SliceLen(r) /\ Len(t) \in Nat
        /\ UNCHANGED <<spare, array, pc, len, private, todo, seenRefl>>
    BY <1>10 DEF Inv, TypeInv, ReadRpc
  <2>2. w \in Cell /\ w \in StoredAt(Len(t) + 1) \cup {m[Len(t) + 1]}
    BY <2>1, WordRead
  <2>3. /\ Append(t, w) \in Seq(Cell) /\ Len(Append(t, w)) = Len(t) + 1
        /\ \A i \in 1..Len(t) : Append(t, w)[i] = t[i]
        /\ Append(t, w)[Len(t) + 1] = w
    BY <2>1, <2>2, WordAppended
  <2>4. TypeInv'
    BY <1>10, <2>1, <2>3 DEF Inv, TypeInv, ReadRpc
  <2>5. Meant(r)' = m
    BY <2>1 DEF Meant
  <2>6. Slice(r)'
    BY <1>0, <2>1, <2>5, StoredSame DEF Slice, Shared, Copying, Private, Fits
  <2>7. Seen(r)'
    <3>1. InPlace(Append(t, w), m)
      BY <1>0, <2>1, <2>2, <2>3 DEF Seen, InPlace
    <3>2. Len(t) + 1 <= Len(m)
      <4>1. SliceLen(r) = Len(m)
        BY <1>0, <2>1, SliceShape DEF Inv
      <4>2. QED
        BY <1>0, <2>1, <4>1
    <3>3. QED
      BY <2>1, <2>3, <2>5, <3>1, <3>2, StoredSame DEF Seen
  <2>8. \A q \in Request \ {r} : seenRpc'[q] = seenRpc[q]
    BY <1>10 DEF ReadRpc, Inv, TypeInv
  <2>9. QED
    BY <2>1, <2>4, <2>6, <2>7, <2>8, OthersUndisturbed
<1>11. ASSUME NEW r \in Request, Invoke(r) PROVE Inv'
  <2>1. /\ pc[r] = "own" /\ pc'[r] = "done" /\ todo[r] = <<>> /\ Len(seenRpc[r]) = SliceLen(r)
        /\ UNCHANGED <<spare, array, len, private, todo, seenRefl, seenRpc>>
    BY <1>11 DEF Inv, TypeInv, Invoke
  <2>2. TypeInv'
    BY <1>11 DEF Inv, TypeInv, Invoke, PC
  <2>3. Meant(r)' = Meant(r)
    BY <2>1, MeantIs DEF Meant
  <2>4. Slice(r)'
    BY <1>0, <2>1, <2>3, StoredSame DEF Slice, Shared, Copying, Private, Fits
  <2>5. Seen(r)'
    <3>1. SliceLen(r) = Len(Meant(r))
      BY <1>0, <2>1, SliceShape DEF Inv
    <3>2. QED
      BY <1>0, <2>1, <2>3, <3>1, StoredSame DEF Seen
  <2>6. \A q \in Request \ {r} : pc'[q] = pc[q]
    BY <1>11 DEF Invoke, Inv, TypeInv
  <2>7. QED
    BY <2>1, <2>2, <2>4, <2>5, <2>6, OthersUndisturbed
<1>12. QED
  BY <1>1, <1>2, <1>3, <1>4, <1>5, <1>6, <1>7, <1>8, <1>9, <1>10, <1>11 DEF Next

LEMMA InvHolds == Spec => []Inv
<1>1. QED
  BY InitInv, NextInv, PTL DEF Spec

-----------------------------------------------------------------------------
(* What the words an RPC carries are, at last. *)

LEMMA SeenWords ==
  ASSUME Inv, NEW r \in Request
  PROVE  /\ seenRpc[r] \in Seq(Cell)
         /\ Len(seenRpc[r]) <= Len(Rpc \o Own[r])
         /\ pc[r] = "done" => Len(seenRpc[r]) = Len(Rpc \o Own[r])
         /\ InPlace(seenRpc[r], Rpc \o Own[r])
<1>1. pc[r] \in PC /\ seenRpc[r] \in Seq(Cell) /\ Seen(r)
  BY DEF Inv, TypeInv, SeenInv
<1>2. CASE pc[r] \in {"own", "done"}
  BY <1>1, <1>2, MeantIs DEF Seen
<1>3. CASE pc[r] \notin {"own", "done"}
  <2>1. seenRpc[r] = <<>>
    BY <1>1, <1>3 DEF Seen
  <2>2. Len(Rpc \o Own[r]) \in Nat
    BY HeadersAreCells
  <2>3. QED
    BY <1>1, <1>3, <2>1, <2>2, Nothing DEF InPlace
<1>4. QED
  BY <1>2, <1>3

(* Where ReflHeaders do not fit behind AddlHeaders, no RPC of any request    *)
(* ever carries a word of them, although the other headers share the array   *)
(* (endpoint.go 178, 254; config.go 149-153).                                *)
THEOREM ReflectionHeadersStayOut == Spec => []ReflStaysOut
<1>1. ASSUME NEW r \in Request PROVE WordsOf(Rpc \o Own[r]) \subseteq RpcWords
  <2> DEFINE o == Own[r]
  <2>1. o \in Seq(Cell) /\ Rpc \in Seq(Cell)
    BY HeadersAreCells
  <2>2. WordsOf(Rpc \o o) \subseteq WordsOf(Rpc) \cup WordsOf(o)
    BY <2>1 DEF WordsOf
  <2>3. QED
    BY <2>2 DEF RpcWords
<1>2. ReflSealed => \A i : StoredAt(i) \subseteq RpcWords
  <2> SUFFICES ASSUME ReflSealed, NEW i, NEW s \in Stored, i \in DOMAIN s PROVE s[i] \in RpcWords
    BY DEF StoredAt
  <2>1. s # Refl
    BY Nothing DEF ReflSealed, Stored
  <2>2. WordsOf(s) \subseteq RpcWords
    BY <1>1, <2>1 DEF Stored, RpcWords
  <2>3. QED
    BY <2>2 DEF WordsOf
<1>3. Inv => ReflStaysOut
  <2> SUFFICES ASSUME Inv, ReflSealed, NEW r \in Request, NEW i \in DOMAIN seenRpc[r]
               PROVE  seenRpc[r][i] \in RpcWords
    BY DEF ReflStaysOut, WordsOf
  <2> DEFINE t == seenRpc[r]
             m == Rpc \o Own[r]
  <2>1. t \in Seq(Cell) /\ m \in Seq(Cell) /\ Len(t) <= Len(m) /\ InPlace(t, m)
    BY SeenWords, HeadersAreCells
  <2>2. i \in 1..Len(t) /\ i \in DOMAIN m
    BY <2>1
  <2>3. m[i] \in RpcWords
    BY <1>1, <2>2 DEF WordsOf
  <2>4. QED
    BY <1>2, <2>1, <2>2, <2>3 DEF InPlace
<1>4. QED
  BY InvHolds, <1>3, PTL

(* ... and where in addition no request's own header fits there, the RPC of  *)
(* each request carries exactly the headers meant for it: all requests then  *)
(* store the same words at the same places (endpoint.go 254-262).            *)
THEOREM RpcHeadersExact == Spec => []RpcExact
<1>1. Inv => RpcExact
  <2> SUFFICES ASSUME Inv, ReflSealed,
                      \A q \in Request : Own[q] = <<>> \/ ~Fits(Len(Rpc) + Len(Own[q])),
                      NEW r \in Request, pc[r] = "done"
               PROVE  seenRpc[r] = Rpc \o Own[r]
    BY DEF RpcExact
  <2> DEFINE t == seenRpc[r]
             o == Own[r]
             m == Rpc \o o
  <2>1. t \in Seq(Cell) /\ m \in Seq(Cell) /\ Len(t) = Len(m) /\ InPlace(t, m)
    BY SeenWords, HeadersAreCells
  <2>2. Stored \subseteq {<<>>, Rpc}
    <3> SUFFICES ASSUME NEW q \in Request, Fits(Len(Rpc \o Own[q])) PROVE Rpc \o Own[q] = Rpc
      BY DEF Stored, ReflSealed
    <3> DEFINE x == Own[q]
    <3>1. x \in Seq(Cell) /\ Rpc \in Seq(Cell)
      BY HeadersAreCells
    <3>2. Len(Rpc \o x) = Len(Rpc) + Len(x)
      BY <3>1, Concatenated
    <3>3. x = <<>>
      BY <3>2
    <3>4. QED
      BY <3>1, <3>3
  <2>3. ASSUME NEW i \in 1..Len(t) PROVE t[i] = m[i]
    <3>1. ASSUME NEW w \in StoredAt(i) PROVE w = m[i]
      <4>1. PICK s \in Stored : i \in DOMAIN s /\ w = s[i]
        BY DEF StoredAt
      <4>2. s = Rpc
        BY <2>2, <4>1, Nothing
      <4>3. Rpc \in Seq(Cell) /\ o \in Seq(Cell)
        BY HeadersAreCells
      <4>4. i \in 1..Len(Rpc)
        BY <4>1, <4>2, <4>3
      <4>5. m[i] = Rpc[i]
        BY <4>3, <4>4, Concatenated
      <4>6. QED
        BY <4>1, <4>2, <4>5
    <3>2. QED
      BY <2>1, <3>1 DEF InPlace
  <2>4. QED
    BY <2>1, <2>3
<1>2. QED
  BY InvHolds, <1>1, PTL

(* Even where the array is shared, an RPC has as many words as were meant    *)
(* for it, and carries at each place what some request wanted there: words   *)
(* are traded, never lost, moved or left unset (endpoint.go 178, 254-262;    *)
(* invoke.go 90).                                                            *)
THEOREM WordsTradedInPlace == Spec => []TradedInPlace
<1>1. ASSUME NEW r \in Request, NEW i, i \in DOMAIN (Rpc \o Own[r])
      PROVE  (Rpc \o Own[r])[i] \in WantedAt(i)
  BY <1>1 DEF WantedAt
<1>2. ASSUME NEW r \in Request, NEW i, NEW w \in StoredAt(i) PROVE w \in WantedAt(i)
  <2>1. PICK s \in Stored : i \in DOMAIN s /\ w = s[i]
    BY <1>2 DEF StoredAt
  <2>2. CASE s = Rpc
    <3> DEFINE o == Own[r]
    <3>1. o \in Seq(Cell) /\ Rpc \in Seq(Cell)
      BY HeadersAreCells
    <3>2. i \in 1..Len(Rpc) /\ i \in DOMAIN (Rpc \o o)
      BY <2>1, <2>2, <3>1
    <3>3. (Rpc \o o)[i] = Rpc[i]
      BY <3>1, <3>2, Concatenated
    <3>4. QED
      BY <1>1, <2>1, <2>2, <3>2, <3>3
  <2>3. CASE s # Rpc
    BY <2>1, <2>3 DEF Stored, WantedAt
  <2>4. QED
    BY <2>2, <2>3
<1>3. Inv => TradedInPlace
  <2> SUFFICES ASSUME Inv, NEW r \in Request
               PROVE  /\ \A i \in DOMAIN seenRpc[r] : seenRpc[r][i] \in WantedAt(i)
                      /\ pc[r] = "done" => Len(seenRpc[r]) = Len(Rpc) + Len(Own[r])
    BY DEF TradedInPlace
  <2> DEFINE t == seenRpc[r]
             o == Own[r]
             m == Rpc \o o
  <2>1. /\ t \in Seq(Cell) /\ m \in Seq(Cell) /\ Len(t) <= Len(m) /\ InPlace(t, m)
        /\ pc[r] = "done" => Len(t) = Len(m)
    BY SeenWords, HeadersAreCells
  <2>2. Len(m) = Len(Rpc) + Len(o)
    BY HeadersAreCells, Concatenated
  <2>3. ASSUME NEW i \in DOMAIN t PROVE t[i] \in WantedAt(i)
    <3>1. i \in 1..Len(t) /\ i \in DOMAIN m
      BY <2>1
    <3>2. t[i] \in StoredAt(i) \cup {m[i]}
      BY <2>1, <3>1 DEF InPlace
    <3>3. QED
      BY <1>1, <1>2, <3>1, <3>2
  <2>4. QED
    BY <2>1, <2>2, <2>3
<1>4. QED
  BY InvHolds, <1>3, PTL
=============================================================================
