---------------------------- MODULE Bank_proofs ----------------------------
(***************************************************************************)
(* Proofs about the demo bank's accounts, for any clients, customers and     *)
(* amounts, with lists that share arrays with copies being saved, and with a *)
(* server that dies and starts from any file it may find:                    *)
(*   EveryNumberOwned         every account number is in one list, once, as  *)
(*                            long as no account was restored from the file; *)
(*   MoneyConserved           all money is accounted for, down to what       *)
(*                            accounts hold that nobody can find;            *)
(*   AccountsImplementLedger  the accounts implement module Ledger;          *)
(*   StoppedMeansSaved        a server stopped by a signal has saved every   *)
(*                            account, unless the background saver was       *)
(*                            still at work.                                 *)
(***************************************************************************)
EXTENDS Bank, FiniteSetTheorems, SequenceTheorems, TLAPS

(* What an account holds makes no difference here. *)
AccountRec(V) == [entries : V, balance : V, restored : BOOLEAN]
HeapInv == \E V : heap \in Seq(AccountRec(V))

Fresh == \A k \in DOMAIN heap : ~heap[k].restored

(* A slice is the beginning of an array. *)
IsSlice(x, inArrays) ==
    /\ x \in [array : Nat, len : Nat]
    /\ x.array \in DOMAIN inArrays
    /\ x.len <= Len(inArrays[x.array])

(* Every customer has a list, in an array of its own. *)
ListsInv ==
    /\ arrays \in Seq(Seq(Nat)) /\ last \in Nat
    /\ \A c \in DOMAIN lists : IsSlice(lists[c], arrays)
    /\ \A c, d \in DOMAIN lists : lists[c].array = lists[d].array => c = d

Distinct(q) == \A i, j \in DOMAIN q : q[i] = q[j] => i = j
Enumerates(q, S) == q \in Seq(S) /\ Distinct(q) /\ \A x \in S : \E i \in DOMAIN q : q[i] = x

CustomersInv == Enumerates(customers, DOMAIN lists)

(* The number at place i of the list of a customer. *)
NumberAt(c, i) == arrays[lists[c].array][i]

OwnInv ==
    Fresh =>
        /\ \A c, d \in DOMAIN lists : \A i \in 1..lists[c].len, j \in 1..lists[d].len :
             NumberAt(c, i) = NumberAt(d, j) => c = d /\ i = j
        /\ \A n : n \in DOMAIN byNumber <=>
             \E c \in DOMAIN lists : \E i \in 1..lists[c].len : NumberAt(c, i) = n
        /\ \A n \in DOMAIN byNumber : n <= last

(* What is saved, or on its way to the file: accounts may be missing, but    *)
(* not all of them while a list has a number.                                *)
IsSaved(data) ==
    /\ Enumerates(data.customers, DOMAIN data.lists)
    /\ \A c \in DOMAIN data.lists : data.lists[c] \in Seq(Nat)
    /\ IsFiniteSet(DOMAIN data.accounts)
    /\ DOMAIN data.accounts = {} => \A c \in DOMAIN data.lists : data.lists[c] = <<>>

(* A copy under way has the lists of the first m customers. *)
CloneRec(r) ==
    [step : {r.step}, customers : {r.customers}, slices : {r.slices}, copies : {r.copies}, next : Nat]

IsCloning(r, m, known, inArrays) ==
    /\ r \in CloneRec(r)
    /\ r.customers \in Seq(known) /\ Distinct(r.customers)
    /\ m \in 0..Len(r.customers) /\ IsFiniteSet(DOMAIN r.slices) /\ Cardinality(DOMAIN r.slices) = m
    /\ DOMAIN r.slices = {r.customers[k] : k \in 1..m}
    /\ \A c \in DOMAIN r.slices : IsSlice(r.slices[c], inArrays)
    /\ IsFiniteSet(DOMAIN r.copies)
    /\ DOMAIN r.copies = {} =>
         r.next = 1 /\ \A k \in 1..(m - 1) : r.slices[r.customers[k]].len = 0

IsSaver(r, known, inArrays) ==
    /\ r.step = "clone" => \E m : IsCloning(r, m, known, inArrays)
    /\ r.step \in {"truncate", "write"} => r = [step |-> r.step, data |-> r.data] /\ IsSaved(r.data)

SaverInv ==
    /\ saver = [s \in {"bgSaver", "main"} |-> saver[s]]
    /\ \A s \in DOMAIN saver : IsSaver(saver[s], DOMAIN lists, arrays)

FileInv == file.is = "saved" => IsSaved(file)

Inv == HeapInv /\ ListsInv /\ CustomersInv /\ OwnInv /\ SaverInv /\ FileInv

---------------------------------------------------------------------------
(* Helpers *)

(* The smallest of some natural numbers is one of them. *)
NatLess == {pair \in Nat \X Nat : pair[1] < pair[2]}

LEMMA NatLessIsLess == OpToRel(<, Nat) = NatLess
BY Zenon DEF OpToRel, NatLess

LEMMA MinOfNats ==
    ASSUME NEW S \in SUBSET Nat, S # {}
    PROVE  Min(S) \in S
<1>1. IsWellFoundedOn(NatLess, Nat)
    BY Zenon, NatLessThanWellFounded, NatLessIsLess
<1>2. PICK x \in S : \A y \in S : ~(<<y, x>> \in NatLess)
    BY <1>1, WFMin
<1>3. \A y \in S : x <= y
    <2>1. \A y \in S : ~(y < x)
        BY Zenon, <1>2 DEF NatLess
    <2> QED BY <2>1
<1> QED BY Zenon, <1>3 DEF Min

LEMMA SeqIsFunction ==
    ASSUME NEW S, NEW q \in Seq(S)
    PROVE  q \in [1..Len(q) -> S] /\ Len(q) \in Nat
OBVIOUS

LEMMA FunctionIsSeq ==
    ASSUME NEW S, NEW n \in Nat, NEW q \in [1..n -> S]
    PROVE  q \in Seq(S)
OBVIOUS

LEMMA SetToSeqOf ==
    ASSUME NEW S, IsFiniteSet(S)
    PROVE  /\ Cardinality(S) \in Nat /\ (S # {} => Cardinality(S) # 0)
           /\ SetToSeq(S) \in [1..Cardinality(S) -> S]
<1>1. Cardinality(S) \in Nat /\ ExistsBijection(1..Cardinality(S), S)
    BY FS_CardinalityType
<1>2. \E f \in [1..Cardinality(S) -> S] : IsInjective(f)
    BY <1>1 DEF ExistsBijection, Bijection, Injection
<1>3. SetToSeq(S) \in [1..Cardinality(S) -> S]
    BY Zenon, <1>2 DEF SetToSeq
<1> QED BY <1>1, <1>3, FS_EmptySet

LEMMA ElementsOf ==
    ASSUME arrays \in Seq(Seq(Nat)), NEW x, IsSlice(x, arrays)
    PROVE  /\ Elements(x) \in Seq(Nat) /\ Len(Elements(x)) = x.len
           /\ \A i \in 1..x.len : Elements(x)[i] = arrays[x.array][i]
<1> DEFINE a == arrays[x.array]
<1>1. a \in Seq(Nat) /\ x.len \in Nat /\ x.len <= Len(a)
    BY DEF IsSlice
<1> HIDE DEF a
<1>2. SubSeq(a, 1, x.len) \in Seq(Nat) /\ Len(SubSeq(a, 1, x.len)) = x.len
      /\ \A i \in 1..x.len : SubSeq(a, 1, x.len)[i] = a[i]
    BY <1>1
<1> QED BY <1>2 DEF Elements, a

---------------------------------------------------------------------------
(* The steps that leave the tables alone *)

Same == UNCHANGED <<byNumber, lists, arrays, customers, last>>

(* An account may get an entry; it stays a restored one or one that is not. *)
LEMMA SameStep ==
    ASSUME Inv, Same, HeapInv', Fresh' => Fresh, SaverInv', FileInv'
    PROVE  Inv'
<1>1. ListsInv' /\ CustomersInv'
    BY DEF Inv, Same, ListsInv, CustomersInv
<1>2. OwnInv'
    BY DEF Inv, Same, OwnInv, NumberAt
<1> QED BY <1>1, <1>2 DEF Inv

LEMMA SaverUnchanged ==
    ASSUME Inv, Same, UNCHANGED saver
    PROVE  SaverInv'
BY DEF Inv, Same, SaverInv

LEMMA RequestStep ==
    ASSUME Inv, Same, UNCHANGED <<heap, saver, file>>
    PROVE  Inv'
<1>1. HeapInv' /\ (Fresh' => Fresh) /\ FileInv'
    BY DEF Inv, HeapInv, Fresh, FileInv
<1> QED BY <1>1, SaverUnchanged, SameStep

LEMMA newTransactionStep ==
    ASSUME Inv, Same, UNCHANGED <<saver, file>>, NEW account, NEW amount,
           newTransaction(account, amount)
    PROVE  Inv'
<1>1. PICK V : heap \in Seq(AccountRec(V))
    BY DEF Inv, HeapInv
<1> DEFINE b == Wrap(heap[account].balance + amount)
           e == Append(heap[account].entries, amount)
           W == V \cup {b, e}
<1>2. heap' = [heap EXCEPT ![account] = [heap[account] EXCEPT !.balance = b, !.entries = e]]
    BY DEF newTransaction
<1>3. heap \in [1..Len(heap) -> AccountRec(V)] /\ Len(heap) \in Nat
    BY <1>1, SeqIsFunction
<1>4. V \subseteq W /\ b \in W /\ e \in W
    OBVIOUS
<1> HIDE DEF b, e, W
<1>5. \A r \in AccountRec(V) :
        /\ [r EXCEPT !.balance = b, !.entries = e] \in AccountRec(W)
        /\ [r EXCEPT !.balance = b, !.entries = e].restored = r.restored
        /\ r \in AccountRec(W)
    BY <1>4 DEF AccountRec
<1>6. heap' \in [1..Len(heap) -> AccountRec(W)]
    BY <1>2, <1>3, <1>5
<1>7. \A k \in DOMAIN heap : heap'[k].restored = heap[k].restored
    BY <1>2, <1>3, <1>5
<1>8. heap' \in Seq(AccountRec(W))
    BY <1>3, <1>6, FunctionIsSeq
<1>9. HeapInv' /\ (Fresh' => Fresh)
    BY <1>3, <1>6, <1>7, <1>8 DEF HeapInv, Fresh
<1>10. FileInv'
    BY DEF Inv, FileInv
<1> QED BY <1>9, <1>10, SaverUnchanged, SameStep

(* Nothing is left in memory. *)
LEMMA DieStep ==
    ASSUME Inv, Die, UNCHANGED file
    PROVE  Inv'
<1>1. HeapInv'
    <2>1. <<>> \in Seq(AccountRec({}))
        OBVIOUS
    <2> QED BY <2>1 DEF HeapInv, Die
<1>2. ListsInv'
    <2>1. <<>> \in Seq(Seq(Nat))
        OBVIOUS
    <2> QED BY <2>1 DEF ListsInv, Die, Empty
<1>3. CustomersInv'
    BY DEF CustomersInv, Enumerates, Distinct, Die, Empty
<1>4. OwnInv'
    BY DEF OwnInv, Die, Empty
<1>5. SaverInv'
    BY DEF SaverInv, IsSaver, Die, NoSavers, Idle
<1>6. FileInv'
    BY DEF Inv, FileInv
<1> QED BY <1>1, <1>2, <1>3, <1>4, <1>5, <1>6 DEF Inv

LEMMA DebitStep ==
    ASSUME Inv, NEW c \in Client, Debit(c)
    PROVE  Inv'
<1>1. CASE Die
    BY <1>1, DieStep DEF Debit
<1>2. CASE ~Die
    <2>1. Same /\ UNCHANGED <<saver, file>>
        BY <1>2 DEF Debit, Same, tables
    <2>2. UNCHANGED heap \/ newTransaction(request[c].from, -request[c].amount)
        BY <1>2 DEF Debit
    <2> QED BY <2>1, <2>2, RequestStep, newTransactionStep
<1> QED BY <1>1, <1>2

LEMMA CreditStep ==
    ASSUME Inv, NEW c \in Client, Credit(c)
    PROVE  Inv'
<1>1. CASE Die
    BY <1>1, DieStep DEF Credit
<1>2. CASE ~Die
    <2>1. Same /\ UNCHANGED <<saver, file>>
        BY <1>2 DEF Credit, Same, tables
    <2>2. UNCHANGED heap \/ newTransaction(request[c].to, request[c].amount)
        BY <1>2 DEF Credit
    <2> QED BY <2>1, <2>2, RequestStep, newTransactionStep
<1> QED BY <1>1, <1>2

---------------------------------------------------------------------------
(* The steps of a saver *)

LEMMA SaverChanged ==
    ASSUME Inv, Same, UNCHANGED heap, FileInv', NEW s \in DOMAIN saver, NEW r,
           saver' = [saver EXCEPT ![s] = r], IsSaver(r, DOMAIN lists, arrays)
    PROVE  Inv'
<1>1. saver' = [t \in {"bgSaver", "main"} |-> IF t = s THEN r ELSE saver[t]]
    BY DEF Inv, SaverInv
<1>2. SaverInv'
    BY <1>1 DEF Inv, SaverInv, Same
<1>3. HeapInv' /\ (Fresh' => Fresh)
    BY DEF Inv, HeapInv, Fresh
<1> QED BY <1>2, <1>3, SameStep

NewClone == [step |-> "clone", customers |-> customers, slices |-> Empty, copies |-> Empty, next |-> 1]

LEMMA NewCloneIsSaver ==
    ASSUME Inv
    PROVE  IsSaver(NewClone, DOMAIN lists, arrays)
<1>1. DOMAIN Empty = {} /\ IsFiniteSet({}) /\ Cardinality({}) = 0
    BY FS_EmptySet DEF Empty
<1>2. customers \in Seq(DOMAIN lists) /\ Distinct(customers) /\ 0 \in 0..Len(customers)
    BY DEF Inv, CustomersInv, Enumerates
<1>3. IsCloning(NewClone, 0, DOMAIN lists, arrays)
    BY <1>1, <1>2 DEF IsCloning, CloneRec, NewClone
<1> QED BY <1>3 DEF IsSaver, NewClone

LEMMA StartSaveStep ==
    ASSUME Inv, StartSave
    PROVE  Inv'
<1>1. saver' = [saver EXCEPT !["bgSaver"] = NewClone] /\ "bgSaver" \in DOMAIN saver
    BY DEF StartSave, NewClone, Inv, SaverInv
<1>2. Same /\ UNCHANGED <<heap, file>>
    BY DEF StartSave, Same, tables
<1>3. FileInv'
    BY <1>2 DEF Inv, FileInv
<1> QED BY <1>1, <1>2, <1>3, NewCloneIsSaver, SaverChanged

LEMMA ServeReturnsStep ==
    ASSUME Inv, ServeReturns
    PROVE  Inv'
<1>1. saver' = [saver EXCEPT !["main"] = NewClone] /\ "main" \in DOMAIN saver
    BY DEF ServeReturns, NewClone, Inv, SaverInv
<1>2. Same /\ UNCHANGED <<heap, file>>
    BY DEF ServeReturns, Same, tables
<1>3. FileInv'
    BY <1>2 DEF Inv, FileInv
<1> QED BY <1>1, <1>2, <1>3, NewCloneIsSaver, SaverChanged

(* How far a copy has got. *)
LEMMA CloningHas ==
    ASSUME Inv, NEW s \in DOMAIN saver, saver[s].step = "clone"
    PROVE  \E m : /\ IsCloning(saver[s], m, DOMAIN lists, arrays)
                  /\ Cardinality(DOMAIN saver[s].slices) = m
                  /\ m # 0 => /\ CurrentSlice(s) = saver[s].slices[saver[s].customers[m]]
                              /\ IsSlice(CurrentSlice(s), arrays)
                  /\ ListDone(s) <=> (m # 0 => saver[s].next > CurrentSlice(s).len)
<1>1. PICK m : IsCloning(saver[s], m, DOMAIN lists, arrays)
    BY DEF Inv, SaverInv, IsSaver
<1> DEFINE r == saver[s]
<1>2. Cardinality(DOMAIN r.slices) = m /\ m \in Nat
    BY <1>1 DEF IsCloning
<1>3. m # 0 => r.customers[m] \in DOMAIN r.slices
    BY <1>1, <1>2 DEF IsCloning
<1>4. m # 0 => CurrentSlice(s) = r.slices[r.customers[m]] /\ IsSlice(CurrentSlice(s), arrays)
    BY <1>1, <1>2, <1>3 DEF IsCloning, CurrentSlice
<1>5. m = 0 <=> DOMAIN r.slices = {}
    <2>1. IsFiniteSet(DOMAIN r.slices)
        BY <1>1 DEF IsCloning
    <2> QED BY <1>2, <2>1, FS_EmptySet
<1>6. ListDone(s) <=> (m # 0 => r.next > CurrentSlice(s).len)
    BY <1>5 DEF ListDone
<1> QED BY <1>1, <1>2, <1>4, <1>6

(* The next list is that of a customer that has none in the copy yet; if no  *)
(* account was copied so far, no list before it has a number.                *)
LEMMA CopyListStep ==
    ASSUME Inv, NEW s \in DOMAIN saver, CopyList(s)
    PROVE  Inv'
<1>1. PICK m : /\ IsCloning(saver[s], m, DOMAIN lists, arrays)
               /\ Cardinality(DOMAIN saver[s].slices) = m
               /\ m # 0 => /\ CurrentSlice(s) = saver[s].slices[saver[s].customers[m]]
                           /\ IsSlice(CurrentSlice(s), arrays)
               /\ ListDone(s) <=> (m # 0 => saver[s].next > CurrentSlice(s).len)
    BY CloningHas DEF CopyList
<1> DEFINE r == saver[s]
           c == r.customers[m + 1]
           new == [d \in DOMAIN r.slices \cup {c} |-> IF d = c THEN lists[d] ELSE r.slices[d]]
<1>0. PICK x : x = [r EXCEPT !.next = 1, !.slices = new]
    OBVIOUS
<1>2. /\ r \in CloneRec(r)
      /\ r.customers \in Seq(DOMAIN lists) /\ Distinct(r.customers)
      /\ m \in 0..Len(r.customers) /\ IsFiniteSet(DOMAIN r.slices)
      /\ DOMAIN r.slices = {r.customers[k] : k \in 1..m}
      /\ \A d \in DOMAIN r.slices : IsSlice(r.slices[d], arrays)
      /\ IsFiniteSet(DOMAIN r.copies)
      /\ DOMAIN r.copies = {} =>
           r.next = 1 /\ \A k \in 1..(m - 1) : r.slices[r.customers[k]].len = 0
    BY <1>1 DEF IsCloning
<1>3. m + 1 \in DOMAIN r.customers
    <2>1. DOMAIN r.slices # ToSet(r.customers)
        BY DEF CopyList, CloneDone
    <2>2. m # Len(r.customers)
        BY <1>2, <2>1 DEF ToSet
    <2> QED BY <1>2, <2>2
<1>4. c \in DOMAIN lists /\ c \notin DOMAIN r.slices
    BY <1>2, <1>3 DEF Distinct
<1>5. saver' = [saver EXCEPT ![s] = x]
    BY <1>0, <1>1 DEF CopyList
<1>6. /\ DOMAIN new = DOMAIN r.slices \cup {c} /\ new[c] = lists[c]
      /\ \A d \in DOMAIN r.slices : new[d] = r.slices[d]
    BY <1>4
<1> HIDE DEF new
<1>7. /\ x \in CloneRec(x)
      /\ x.step = r.step /\ x.customers = r.customers /\ x.slices = new
      /\ x.copies = r.copies /\ x.next = 1
    <2>1. r \in CloneRec(r) /\ 1 \in Nat
        BY <1>2
    <2> HIDE DEF r
    <2> HIDE DEF c
    <2> QED BY <1>0, <2>1 DEF CloneRec
<1>8. IsFiniteSet(DOMAIN new) /\ Cardinality(DOMAIN new) = m + 1
    <2> DEFINE D == DOMAIN r.slices
    <2>1. IsFiniteSet(D) /\ c \notin D /\ Cardinality(D) = m /\ DOMAIN new = D \cup {c}
        BY <1>1, <1>2, <1>4, <1>6
    <2> HIDE DEF D, c
    <2> QED BY <2>1, FS_AddElement
<1>9. DOMAIN new = {r.customers[k] : k \in 1..(m + 1)}
    BY <1>2, <1>6
<1>10. \A d \in DOMAIN new : IsSlice(new[d], arrays)
    BY <1>2, <1>4, <1>6 DEF Inv, ListsInv
<1>11. DOMAIN r.copies = {} => \A k \in 1..m : new[r.customers[k]].len = 0
    <2> SUFFICES ASSUME DOMAIN r.copies = {}, NEW k \in 1..m PROVE new[r.customers[k]].len = 0
        OBVIOUS
    <2>1. r.customers[k] \in DOMAIN r.slices
        BY <1>2
    <2>2. CASE k \in 1..(m - 1)
        BY <1>2, <1>6, <2>1, <2>2
    <2>3. CASE k = m
        <3>3. r.next = 1
            BY <1>2
        <3>4. m # 0
            BY <1>2, <2>3
        <3>5. ListDone(s)
            BY DEF CopyList
        <3>1. m # 0 /\ r.next = 1 /\ r.next > CurrentSlice(s).len /\ CurrentSlice(s).len \in Nat
            BY <1>1, <3>3, <3>4, <3>5 DEF IsSlice
        <3>2. CurrentSlice(s).len = 0
            BY <3>1
        <3> QED BY <1>1, <1>6, <2>1, <2>3, <3>1, <3>2
    <2> QED BY <1>2, <2>2, <2>3
<1>12. IsCloning(x, m + 1, DOMAIN lists, arrays)
    <2>1. m + 1 \in 0..Len(r.customers) /\ (m + 1) - 1 = m
        BY <1>2, <1>3
    <2> QED BY <1>2, <1>7, <1>8, <1>9, <1>10, <1>11, <2>1 DEF IsCloning
<1>13. IsSaver(x, DOMAIN lists, arrays)
    BY <1>7, <1>12 DEF IsSaver, CopyList
<1>14. Same /\ UNCHANGED heap /\ FileInv'
    BY DEF CopyList, Same, tables, Inv, FileInv
<1> QED BY <1>5, <1>13, <1>14, SaverChanged

LEMMA CopyAccountStep ==
    ASSUME Inv, NEW s \in DOMAIN saver, CopyAccount(s)
    PROVE  Inv'
<1>1. CASE Die
    BY <1>1, DieStep DEF CopyAccount
<1>2. CASE ~Die
    <2>1. PICK m : IsCloning(saver[s], m, DOMAIN lists, arrays)
        BY DEF CopyAccount, Inv, SaverInv, IsSaver
    <2> DEFINE r == saver[s]
               number == arrays[CurrentSlice(s).array][r.next]
               new == [n \in DOMAIN r.copies \cup {number} |->
                         IF n = number THEN heap[Account(n)].entries ELSE r.copies[n]]
    <2>0. PICK x : x = [r EXCEPT !.next = r.next + 1, !.copies = new]
        OBVIOUS
    <2>2. saver' = [saver EXCEPT ![s] = x]
        BY <1>2, <2>0 DEF CopyAccount
    <2>3. /\ DOMAIN new = DOMAIN r.copies \cup {number}
          /\ r \in CloneRec(r) /\ IsFiniteSet(DOMAIN r.copies) /\ r.next \in Nat
        BY <2>1 DEF IsCloning, CloneRec
    <2> HIDE DEF new, number
    <2>4. /\ x \in CloneRec(x)
          /\ x.step = r.step /\ x.customers = r.customers /\ x.slices = r.slices
          /\ x.copies = new /\ x.next = r.next + 1
        <3>1. r \in CloneRec(r) /\ r.next + 1 \in Nat
            BY <2>3
        <3> HIDE DEF r
        <3> QED BY <2>0, <3>1 DEF CloneRec
    <2>5. IsFiniteSet(DOMAIN new) /\ DOMAIN new # {}
        BY <2>3, FS_AddElement
    <2>6. IsCloning(x, m, DOMAIN lists, arrays)
        <3>1. /\ r.customers \in Seq(DOMAIN lists) /\ Distinct(r.customers)
              /\ m \in 0..Len(r.customers)
              /\ IsFiniteSet(DOMAIN r.slices) /\ Cardinality(DOMAIN r.slices) = m
              /\ DOMAIN r.slices = {r.customers[k] : k \in 1..m}
              /\ \A c \in DOMAIN r.slices : IsSlice(r.slices[c], arrays)
            BY <2>1 DEF IsCloning
        <3> HIDE DEF r
        <3> QED BY <2>4, <2>5, <3>1 DEF IsCloning
    <2>7. IsSaver(x, DOMAIN lists, arrays)
        BY <2>4, <2>6 DEF IsSaver, CopyAccount
    <2>8. Same /\ UNCHANGED heap /\ FileInv'
        BY <1>2 DEF CopyAccount, Same, tables, Inv, FileInv
    <2> QED BY <2>2, <2>7, <2>8, SaverChanged
<1> QED BY <1>1, <1>2

(* The copy is complete: if it has no account, none of its lists has one.    *)
LEMMA MarshalStep ==
    ASSUME Inv, NEW s \in DOMAIN saver, Marshal(s)
    PROVE  Inv'
<1>1. PICK m : /\ IsCloning(saver[s], m, DOMAIN lists, arrays)
               /\ Cardinality(DOMAIN saver[s].slices) = m
               /\ m # 0 => /\ CurrentSlice(s) = saver[s].slices[saver[s].customers[m]]
                           /\ IsSlice(CurrentSlice(s), arrays)
               /\ ListDone(s) <=> (m # 0 => saver[s].next > CurrentSlice(s).len)
    BY CloningHas DEF Marshal
<1> DEFINE r == saver[s]
           data == [is |-> "saved", customers |-> r.customers,
                    lists |-> [c \in DOMAIN r.slices |-> Elements(r.slices[c])],
                    accounts |-> r.copies]
           x == [step |-> "truncate", data |-> data]
<1>2. /\ r.customers \in Seq(DOMAIN lists) /\ Distinct(r.customers)
      /\ m \in 0..Len(r.customers)
      /\ DOMAIN r.slices = {r.customers[k] : k \in 1..m}
      /\ \A d \in DOMAIN r.slices : IsSlice(r.slices[d], arrays)
      /\ IsFiniteSet(DOMAIN r.copies)
      /\ DOMAIN r.copies = {} =>
           r.next = 1 /\ \A k \in 1..(m - 1) : r.slices[r.customers[k]].len = 0
    BY <1>1 DEF IsCloning
<1>3. saver' = [saver EXCEPT ![s] = x]
    BY DEF Marshal
<1>4. DOMAIN r.slices = ToSet(r.customers) /\ ListDone(s)
    BY DEF Marshal, CloneDone
<1>5. Enumerates(r.customers, DOMAIN r.slices)
    <2>1. r.customers \in [1..Len(r.customers) -> DOMAIN lists] /\ Len(r.customers) \in Nat
        BY <1>2, SeqIsFunction
    <2>2. r.customers \in [1..Len(r.customers) -> DOMAIN r.slices]
        BY <1>4, <2>1 DEF ToSet
    <2>3. r.customers \in Seq(DOMAIN r.slices)
        BY <2>1, <2>2, FunctionIsSeq
    <2> QED BY <1>2, <1>4, <2>3 DEF Enumerates, ToSet
<1>6. \A c \in DOMAIN r.slices :
        /\ Elements(r.slices[c]) \in Seq(Nat)
        /\ Len(Elements(r.slices[c])) = r.slices[c].len
    BY <1>2, ElementsOf DEF Inv, ListsInv
<1>7. DOMAIN r.copies = {} => \A c \in DOMAIN r.slices : Elements(r.slices[c]) = <<>>
    <2> SUFFICES ASSUME DOMAIN r.copies = {}, NEW c \in DOMAIN r.slices
                 PROVE  Elements(r.slices[c]) = <<>>
        OBVIOUS
    <2>1. PICK k \in 1..m : c = r.customers[k]
        BY <1>2
    <2>2. CASE k \in 1..(m - 1)
        BY <1>2, <1>6, <2>1, <2>2, EmptySeq
    <2>3. CASE k = m
        <3>1. m # 0 /\ r.next = 1 /\ r.next > CurrentSlice(s).len /\ CurrentSlice(s).len \in Nat
            BY <1>1, <1>2, <1>4, <2>3 DEF IsSlice
        <3>2. CurrentSlice(s).len = 0
            BY <3>1
        <3>3. r.slices[c].len = 0
            BY <1>1, <2>1, <2>3, <3>1, <3>2
        <3> QED BY <1>6, <3>3, EmptySeq
    <2> QED BY <1>2, <2>2, <2>3
<1>8. IsSaved(data)
    BY <1>2, <1>5, <1>6, <1>7 DEF IsSaved
<1> HIDE DEF data
<1>9. IsSaver(x, DOMAIN lists, arrays)
    BY <1>8 DEF IsSaver
<1>10. Same /\ UNCHANGED heap /\ FileInv'
    BY DEF Marshal, Same, tables, Inv, FileInv
<1> HIDE DEF x
<1> QED BY <1>3, <1>9, <1>10, SaverChanged

LEMMA TruncateStep ==
    ASSUME Inv, NEW s \in DOMAIN saver, Truncate(s)
    PROVE  Inv'
<1> DEFINE x == [saver[s] EXCEPT !.step = "write"]
<1>1. saver[s] = [step |-> saver[s].step, data |-> saver[s].data] /\ IsSaved(saver[s].data)
    BY DEF Truncate, Inv, SaverInv, IsSaver
<1>2. x = [step |-> "write", data |-> saver[s].data]
    BY <1>1
<1>3. IsSaver(x, DOMAIN lists, arrays)
    BY <1>1, <1>2 DEF IsSaver
<1>4. saver' = [saver EXCEPT ![s] = x]
    BY DEF Truncate
<1>5. Same /\ UNCHANGED heap /\ FileInv'
    BY DEF Truncate, Same, tables, FileInv
<1> HIDE DEF x
<1> QED BY <1>3, <1>4, <1>5, SaverChanged

LEMMA WriteStep ==
    ASSUME Inv, NEW s \in DOMAIN saver, Write(s)
    PROVE  Inv'
<1>1. IsSaved(saver[s].data)
    BY DEF Write, Inv, SaverInv, IsSaver
<1>2. file' = saver[s].data \/ file' = [is |-> "garbled"]
    BY DEF Write
<1>3. FileInv'
    BY <1>1, <1>2 DEF FileInv
<1>4. IsSaver(Idle, DOMAIN lists, arrays)
    BY DEF IsSaver, Idle
<1>5. saver' = [saver EXCEPT ![s] = Idle] /\ Same /\ UNCHANGED heap
    BY DEF Write, Same, tables
<1> QED BY <1>3, <1>4, <1>5, SaverChanged

---------------------------------------------------------------------------
(* The steps that change the tables *)

(* A copy under way stays one when customers and arrays are added and no     *)
(* array changes its length.                                                 *)
LEMMA Grown ==
    ASSUME Inv, UNCHANGED saver, DOMAIN lists \subseteq DOMAIN lists',
           DOMAIN arrays \subseteq DOMAIN arrays',
           \A a \in DOMAIN arrays : Len(arrays'[a]) = Len(arrays[a])
    PROVE  SaverInv'
<1>1. \A x : IsSlice(x, arrays) => IsSlice(x, arrays')
    BY DEF IsSlice
<1>2. \A q : q \in Seq(DOMAIN lists) => q \in Seq(DOMAIN lists')
    OBVIOUS
<1>3. \A r, m : IsCloning(r, m, DOMAIN lists, arrays) => IsCloning(r, m, DOMAIN lists', arrays')
    BY <1>1, <1>2 DEF IsCloning
<1>4. \A r : IsSaver(r, DOMAIN lists, arrays) => IsSaver(r, DOMAIN lists', arrays')
    BY <1>3 DEF IsSaver
<1> QED BY <1>4 DEF Inv, SaverInv

(* What append does, in place or to a longer copy of the array.              *)
IsAppended(x, e, A, y) ==
    /\ A \in Seq(Seq(Nat)) /\ DOMAIN arrays \subseteq DOMAIN A
    /\ \A a \in DOMAIN arrays : Len(A[a]) = Len(arrays[a])
    /\ IsSlice(y, A) /\ y.len = x.len + 1
    /\ y.array = x.array \/ y.array \notin DOMAIN arrays
    /\ \A a \in DOMAIN arrays : a # y.array => A[a] = arrays[a]
    /\ \A i \in 1..x.len : A[y.array][i] = arrays[x.array][i]
    /\ A[y.array][x.len + 1] = e

LEMMA AppendedIs ==
    ASSUME arrays \in Seq(Seq(Nat)), NEW x, IsSlice(x, arrays), NEW e \in Nat,
           NEW A, A = Appended(x, e).arrays, NEW y, y = Appended(x, e).slice
    PROVE  IsAppended(x, e, A, y)
<1>0. PICK old : old = arrays[x.array]
    OBVIOUS
<1>1. /\ x \in [array : Nat, len : Nat] /\ x.array \in 1..Len(arrays) /\ x.len \in Nat
      /\ old \in Seq(Nat) /\ Len(old) \in Nat /\ x.len <= Len(old) /\ Len(arrays) \in Nat
    BY <1>0 DEF IsSlice
<1>2. CASE x.len < Len(old)
    <2> DEFINE new == [old EXCEPT ![x.len + 1] = e]
    <2>1. A = [arrays EXCEPT ![x.array] = new] /\ y = [x EXCEPT !.len = x.len + 1]
        BY <1>0, <1>2 DEF Appended
    <2>2. /\ new \in Seq(Nat) /\ Len(new) = Len(old)
          /\ \A i \in 1..x.len : new[i] = old[i]
          /\ new[x.len + 1] = e
        BY <1>1, <1>2
    <2> HIDE DEF new
    <2>3. y.array = x.array /\ y.len = x.len + 1 /\ y \in [array : Nat, len : Nat]
        <3>1. x \in [array : Nat, len : Nat] /\ x.len + 1 \in Nat
            BY <1>1
        <3>2. y = [x EXCEPT !.len = x.len + 1]
            BY <2>1
        <3> QED BY <3>1, <3>2
    <2>4. /\ A \in Seq(Seq(Nat)) /\ Len(A) = Len(arrays) /\ A[x.array] = new
          /\ \A a \in DOMAIN arrays : a # x.array => A[a] = arrays[a]
        <3>1. arrays \in [1..Len(arrays) -> Seq(Nat)]
            BY SeqIsFunction
        <3>2. /\ A \in [1..Len(arrays) -> Seq(Nat)] /\ A[x.array] = new
              /\ \A a \in DOMAIN arrays : a # x.array => A[a] = arrays[a]
            BY <1>1, <2>1, <2>2, <3>1
        <3>3. A \in Seq(Seq(Nat)) /\ Len(A) = Len(arrays)
            <4>1. A \in Seq(Seq(Nat))
                BY <1>1, <3>2, FunctionIsSeq
            <4>2. DOMAIN A = 1..Len(arrays)
                BY <3>2
            <4> QED BY <1>1, <4>1, <4>2
        <3> QED BY <3>2, <3>3
    <2>5. DOMAIN A = DOMAIN arrays /\ DOMAIN arrays = 1..Len(arrays)
        BY <1>1, <2>4
    <2>6. IsSlice(y, A)
        BY <1>1, <1>2, <2>2, <2>3, <2>4, <2>5 DEF IsSlice
    <2>7. \A a \in DOMAIN arrays : Len(A[a]) = Len(arrays[a])
        BY <1>0, <2>2, <2>4
    <2> QED BY <1>0, <2>2, <2>3, <2>4, <2>5, <2>6, <2>7 DEF IsAppended
<1>3. CASE ~(x.len < Len(old))
    <2> DEFINE zeros == [i \in 1..(Len(old) - 1) |-> 0]
               n == Elements(x) \o <<e>>
               new == n \o zeros
    <2>1. A = Append(arrays, new) /\ y = [array |-> Len(arrays) + 1, len |-> x.len + 1]
        BY <1>0, <1>3 DEF Appended
    <2>2. zeros \in Seq(Nat)
        <3>1. CASE Len(old) = 0
            <4>1. zeros \in [1..0 -> Nat]
                BY <3>1
            <4> QED BY <4>1, FunctionIsSeq
        <3>2. CASE Len(old) # 0
            <4>1. Len(old) - 1 \in Nat /\ zeros \in [1..(Len(old) - 1) -> Nat]
                BY <1>1, <3>2
            <4> QED BY <4>1, FunctionIsSeq
        <3> QED BY <3>1, <3>2
    <2> HIDE DEF zeros
    <2>3. /\ Elements(x) \in Seq(Nat) /\ Len(Elements(x)) = x.len
          /\ \A i \in 1..x.len : Elements(x)[i] = old[i]
        BY <1>0, ElementsOf
    <2>4. /\ n \in Seq(Nat) /\ Len(n) = x.len + 1 /\ n[x.len + 1] = e
          /\ \A i \in 1..x.len : n[i] = old[i]
        BY <1>1, <2>3
    <2> HIDE DEF n
    <2>5. /\ new \in Seq(Nat) /\ Len(new) \in Nat /\ Len(new) >= x.len + 1
          /\ new[x.len + 1] = e /\ \A i \in 1..x.len : new[i] = old[i]
        BY <1>1, <2>2, <2>4
    <2> HIDE DEF new
    <2>6. /\ A \in Seq(Seq(Nat)) /\ Len(A) = Len(arrays) + 1 /\ A[Len(arrays) + 1] = new
          /\ \A a \in DOMAIN arrays : A[a] = arrays[a]
        BY <1>1, <2>1, <2>5
    <2>7. y.array = Len(arrays) + 1 /\ y.len = x.len + 1 /\ y \in [array : Nat, len : Nat]
        BY <1>1, <2>1
    <2>8. DOMAIN A = 1..(Len(arrays) + 1) /\ DOMAIN arrays = 1..Len(arrays)
        BY <1>1, <2>6
    <2>9. A[y.array] = new /\ y.array \in DOMAIN A /\ y.array \notin DOMAIN arrays
        BY <1>1, <2>6, <2>7, <2>8
    <2>10. IsSlice(y, A)
        BY <2>5, <2>7, <2>9 DEF IsSlice
    <2>11. DOMAIN arrays \subseteq DOMAIN A /\ \A a \in DOMAIN arrays : Len(A[a]) = Len(arrays[a])
        <3>1. \A k \in 1..Len(arrays) : k \in 1..(Len(arrays) + 1)
            BY <1>1
        <3>2. \A a \in DOMAIN arrays : Len(A[a]) = Len(arrays[a])
            BY <2>6
        <3> QED BY Zenon, <2>8, <3>1, <3>2
    <2>12. /\ \A i \in 1..x.len : A[y.array][i] = arrays[x.array][i]
           /\ A[y.array][x.len + 1] = e
        BY <1>0, <2>5, <2>9
    <2>13. A \in Seq(Seq(Nat)) /\ \A a \in DOMAIN arrays : a # y.array => A[a] = arrays[a]
        BY <2>6
    <2> QED BY Zenon, <2>7, <2>9, <2>10, <2>11, <2>12, <2>13 DEF IsAppended
<1> QED BY <1>2, <1>3

(* The list a new account's number is added to, or the new one.              *)
LEMMA OpenMakes ==
    ASSUME Inv, NEW customer, NEW initial, openAccount(customer, initial)
    PROVE  \E y, n :
             /\ n = IF customer \in DOMAIN lists THEN lists[customer].len ELSE 0
             /\ n \in Nat
             /\ arrays' \in Seq(Seq(Nat)) /\ DOMAIN arrays \subseteq DOMAIN arrays'
             /\ \A a \in DOMAIN arrays : Len(arrays'[a]) = Len(arrays[a])
             /\ IsSlice(y, arrays') /\ y.len = n + 1
             /\ \A c \in DOMAIN lists : c # customer => lists[c].array # y.array
             /\ \A a \in DOMAIN arrays : a # y.array => arrays'[a] = arrays[a]
             /\ customer \in DOMAIN lists => \A i \in 1..n : arrays'[y.array][i] = NumberAt(customer, i)
             /\ arrays'[y.array][n + 1] = last + 1
             /\ DOMAIN lists' = DOMAIN lists \cup {customer}
             /\ lists'[customer] = y
             /\ \A c \in DOMAIN lists : c # customer => lists'[c] = lists[c]
<1>1. /\ arrays \in Seq(Seq(Nat)) /\ last + 1 \in Nat
      /\ \A c \in DOMAIN lists : IsSlice(lists[c], arrays)
      /\ \A c, d \in DOMAIN lists : lists[c].array = lists[d].array => c = d
    BY DEF Inv, ListsInv
<1>2. \A c \in DOMAIN lists : lists[c].array \in DOMAIN arrays /\ lists[c].len \in Nat
    BY <1>1 DEF IsSlice
<1>3. CASE customer \in DOMAIN lists
    <2>1. PICK y : y = Appended(lists[customer], last + 1).slice
        OBVIOUS
    <2>2. /\ arrays' = Appended(lists[customer], last + 1).arrays
          /\ lists' = [c \in DOMAIN lists \cup {customer} |-> IF c = customer THEN y ELSE lists[c]]
        BY <1>3, <2>1 DEF openAccount
    <2>3. PICK x : x = lists[customer]
        OBVIOUS
    <2>4. IsSlice(x, arrays)
        BY <1>1, <1>3, <2>3
    <2>5. /\ arrays' \in Seq(Seq(Nat)) /\ DOMAIN arrays \subseteq DOMAIN arrays'
          /\ \A a \in DOMAIN arrays : Len(arrays'[a]) = Len(arrays[a])
          /\ IsSlice(y, arrays') /\ y.len = x.len + 1
          /\ y.array = x.array \/ y.array \notin DOMAIN arrays
          /\ \A a \in DOMAIN arrays : a # y.array => arrays'[a] = arrays[a]
          /\ \A i \in 1..x.len : arrays'[y.array][i] = arrays[x.array][i]
          /\ arrays'[y.array][x.len + 1] = last + 1
        <3>1. PICK e \in Nat : e = last + 1
            BY <1>1
        <3>2. PICK A : A = Appended(x, e).arrays
            OBVIOUS
        <3>3. y = Appended(x, e).slice /\ arrays' = A
            BY <2>1, <2>2, <2>3, <3>1, <3>2
        <3>4. IsAppended(x, e, A, y)
            BY Zenon, <1>1, <2>4, <3>2, <3>3, AppendedIs
        <3> QED BY Zenon, <3>1, <3>3, <3>4 DEF IsAppended
    <2>6. \A c \in DOMAIN lists : c # customer => lists[c].array # y.array
        BY <1>1, <1>2, <1>3, <2>3, <2>5
    <2>7. /\ DOMAIN lists' = DOMAIN lists \cup {customer} /\ lists'[customer] = y
          /\ \A c \in DOMAIN lists : c # customer => lists'[c] = lists[c]
        BY <2>2
    <2> QED BY <1>2, <1>3, <2>3, <2>5, <2>6, <2>7 DEF NumberAt
<1>4. CASE customer \notin DOMAIN lists
    <2>1. PICK y : y = [array |-> Len(arrays) + 1, len |-> 1]
        OBVIOUS
    <2>2. /\ arrays' = Append(arrays, <<last + 1>>)
          /\ lists' = [c \in DOMAIN lists \cup {customer} |-> IF c = customer THEN y ELSE lists[c]]
        BY <1>4, <2>1 DEF openAccount
    <2>3. /\ arrays' \in Seq(Seq(Nat)) /\ Len(arrays') = Len(arrays) + 1
          /\ arrays'[Len(arrays) + 1] = <<last + 1>> /\ Len(arrays) \in Nat
          /\ \A a \in DOMAIN arrays : arrays'[a] = arrays[a]
        <3>1. <<last + 1>> \in Seq(Nat)
            BY <1>1
        <3>2. PICK e \in Seq(Nat) : e = <<last + 1>>
            BY <3>1
        <3> QED BY <1>1, <2>2, <3>2
    <2>4. DOMAIN arrays = 1..Len(arrays) /\ DOMAIN arrays' = 1..(Len(arrays) + 1)
        BY <1>1, <2>3
    <2>5. y.array = Len(arrays) + 1 /\ y.len = 0 + 1 /\ y \in [array : Nat, len : Nat]
        BY <2>1, <2>3
    <2>6. IsSlice(y, arrays')
        <3>1. Len(arrays'[Len(arrays) + 1]) = 1
            BY <1>1, <2>3
        <3>2. y.array \in DOMAIN arrays'
            BY <2>3, <2>4, <2>5
        <3> QED BY <2>5, <3>1, <3>2 DEF IsSlice
    <2>7. y.array \notin DOMAIN arrays /\ DOMAIN arrays \subseteq DOMAIN arrays'
        <3>1. \A k \in 1..Len(arrays) : k \in 1..(Len(arrays) + 1)
            BY <2>3
        <3>2. Len(arrays) + 1 \notin 1..Len(arrays)
            BY <2>3
        <3> QED BY Zenon, <2>4, <2>5, <3>1, <3>2
    <2>8. /\ DOMAIN lists' = DOMAIN lists \cup {customer} /\ lists'[customer] = y
          /\ \A c \in DOMAIN lists : c # customer => lists'[c] = lists[c]
        BY <2>2
    <2>9. /\ \A c \in DOMAIN lists : c # customer => lists[c].array # y.array
          /\ \A a \in DOMAIN arrays : Len(arrays'[a]) = Len(arrays[a])
          /\ arrays'[y.array][0 + 1] = last + 1
        BY <1>2, <2>3, <2>5, <2>7
    <2> QED BY <1>4, <2>3, <2>5, <2>6, <2>7, <2>8, <2>9
<1> QED BY <1>3, <1>4

LEMMA OpenAccountStep ==
    ASSUME Inv, OpenAccount
    PROVE  Inv'
<1>1. PICK customer \in Customer, initial \in Amount \cup {0} : openAccount(customer, initial)
    BY DEF OpenAccount
<1>2. PICK y, n :
        /\ n = IF customer \in DOMAIN lists THEN lists[customer].len ELSE 0
        /\ n \in Nat
        /\ arrays' \in Seq(Seq(Nat)) /\ DOMAIN arrays \subseteq DOMAIN arrays'
        /\ \A a \in DOMAIN arrays : Len(arrays'[a]) = Len(arrays[a])
        /\ IsSlice(y, arrays') /\ y.len = n + 1
        /\ \A c \in DOMAIN lists : c # customer => lists[c].array # y.array
        /\ \A a \in DOMAIN arrays : a # y.array => arrays'[a] = arrays[a]
        /\ customer \in DOMAIN lists => \A i \in 1..n : arrays'[y.array][i] = NumberAt(customer, i)
        /\ arrays'[y.array][n + 1] = last + 1
        /\ DOMAIN lists' = DOMAIN lists \cup {customer}
        /\ lists'[customer] = y
        /\ \A c \in DOMAIN lists : c # customer => lists'[c] = lists[c]
    BY <1>1, OpenMakes
<1>3. /\ last' = last + 1 /\ last \in Nat
      /\ \A c \in DOMAIN lists : IsSlice(lists[c], arrays) /\ lists[c].array \in DOMAIN arrays
      /\ \A c, d \in DOMAIN lists : lists[c].array = lists[d].array => c = d
    BY <1>1 DEF openAccount, Inv, ListsInv, IsSlice
<1>4. HeapInv' /\ (Fresh' => Fresh)
    <2>1. PICK V : heap \in Seq(AccountRec(V))
        BY DEF Inv, HeapInv
    <2>2. PICK r : r = [entries |-> <<initial>>, balance |-> initial, restored |-> FALSE]
        OBVIOUS
    <2>3. PICK W : V \subseteq W /\ <<initial>> \in W /\ initial \in W
        <3>1. V \subseteq V \cup {<<initial>>, initial}
            OBVIOUS
        <3> QED BY <3>1
    <2>4. r \in AccountRec(W)
        BY <2>2, <2>3 DEF AccountRec
    <2>5. \A q \in AccountRec(V) : q \in AccountRec(W)
        BY <2>3 DEF AccountRec
    <2>6. heap \in [1..Len(heap) -> AccountRec(V)] /\ Len(heap) \in Nat
        BY <2>1, SeqIsFunction
    <2>7. heap \in [1..Len(heap) -> AccountRec(W)]
        BY <2>5, <2>6
    <2>8. heap \in Seq(AccountRec(W))
        BY <2>6, <2>7, FunctionIsSeq
    <2>9. heap' = Append(heap, r)
        BY <1>1, <2>2 DEF openAccount
    <2>10. /\ heap' \in Seq(AccountRec(W))
           /\ \A k \in DOMAIN heap : k \in DOMAIN heap' /\ heap'[k] = heap[k]
        BY <2>4, <2>8, <2>9
    <2> QED BY <2>10 DEF HeapInv, Fresh
<1>5. ListsInv'
    <2>1. \A c \in DOMAIN lists : c # customer =>
            /\ IsSlice(lists'[c], arrays') /\ lists'[c].array = lists[c].array
        BY <1>2, <1>3 DEF IsSlice
    <2>2. IsSlice(lists'[customer], arrays') /\ lists'[customer].array = y.array
        BY <1>2
    <2>3. \A c \in DOMAIN lists' : IsSlice(lists'[c], arrays')
        BY <1>2, <2>1, <2>2
    <2>4. \A c, d \in DOMAIN lists' : lists'[c].array = lists'[d].array => c = d
        BY <1>2, <1>3, <2>1, <2>2
    <2> QED BY <1>2, <1>3, <2>3, <2>4 DEF ListsInv
<1>6. CustomersInv'
    <2>1. customers \in Seq(DOMAIN lists) /\ Distinct(customers)
          /\ \A x \in DOMAIN lists : \E i \in DOMAIN customers : customers[i] = x
        BY DEF Inv, CustomersInv, Enumerates
    <2>2. CASE customer \in DOMAIN lists
        <3>1. customers' = customers /\ DOMAIN lists' = DOMAIN lists
            BY <1>1, <1>2, <2>2 DEF openAccount
        <3> QED BY <2>1, <3>1 DEF CustomersInv, Enumerates, Distinct
    <2>3. CASE customer \notin DOMAIN lists
        <3>1. customers' = Append(customers, customer) /\ DOMAIN lists' = DOMAIN lists \cup {customer}
            BY <1>1, <1>2, <2>3 DEF openAccount
        <3>2. PICK L : L = DOMAIN lists
            OBVIOUS
        <3>3. customers \in Seq(L) /\ customers \in Seq(L \cup {customer})
            BY <2>1, <3>2
        <3>4. /\ customers' \in Seq(L \cup {customer})
              /\ Len(customers') = Len(customers) + 1 /\ Len(customers) \in Nat
              /\ customers'[Len(customers) + 1] = customer
              /\ \A i \in 1..Len(customers) : customers'[i] = customers[i] /\ customers[i] # customer
            BY <2>3, <3>1, <3>2, <3>3
        <3>5. DOMAIN customers = 1..Len(customers) /\ DOMAIN customers' = 1..(Len(customers) + 1)
            BY <3>3, <3>4
        <3>6. Distinct(customers')
            BY <2>1, <3>4, <3>5 DEF Distinct
        <3>7. \A x \in L \cup {customer} : \E i \in DOMAIN customers' : customers'[i] = x
            BY <2>1, <3>2, <3>4, <3>5
        <3> QED BY <3>1, <3>2, <3>4, <3>6, <3>7 DEF CustomersInv, Enumerates
    <2> QED BY <2>2, <2>3
<1>7. OwnInv'
    <2> SUFFICES ASSUME Fresh'
                 PROVE  /\ \A c, d \in DOMAIN lists' : \A i \in 1..lists'[c].len, j \in 1..lists'[d].len :
                             NumberAt(c, i)' = NumberAt(d, j)' => c = d /\ i = j
                        /\ \A k : k \in DOMAIN byNumber' <=>
                             \E c \in DOMAIN lists' : \E i \in 1..lists'[c].len : NumberAt(c, i)' = k
                        /\ \A k \in DOMAIN byNumber' : k <= last'
        BY Zenon DEF OwnInv
    <2>1. /\ \A c, d \in DOMAIN lists : \A i \in 1..lists[c].len, j \in 1..lists[d].len :
               NumberAt(c, i) = NumberAt(d, j) => c = d /\ i = j
          /\ \A k : k \in DOMAIN byNumber <=>
               \E c \in DOMAIN lists : \E i \in 1..lists[c].len : NumberAt(c, i) = k
          /\ \A k \in DOMAIN byNumber : k <= last
        BY Zenon, <1>4 DEF OwnInv, Inv
    <2>2. \A c \in DOMAIN lists : c # customer =>
            lists'[c].len = lists[c].len /\ \A i : NumberAt(c, i)' = NumberAt(c, i)
        BY <1>2, <1>3 DEF NumberAt
    <2>3. /\ lists'[customer].len = n + 1
          /\ customer \in DOMAIN lists =>
               lists[customer].len = n /\ \A i \in 1..n : NumberAt(customer, i)' = NumberAt(customer, i)
          /\ customer \notin DOMAIN lists => n = 0
          /\ NumberAt(customer, n + 1)' = last + 1
        BY <1>2 DEF NumberAt
    <2>4. \A c \in DOMAIN lists' : \A i \in 1..lists'[c].len :
            \/ c \in DOMAIN lists /\ i \in 1..lists[c].len /\ NumberAt(c, i)' = NumberAt(c, i)
            \/ c = customer /\ i = n + 1 /\ NumberAt(c, i)' = last + 1
        <3> SUFFICES ASSUME NEW c \in DOMAIN lists', NEW i \in 1..lists'[c].len
                     PROVE  \/ c \in DOMAIN lists /\ i \in 1..lists[c].len /\ NumberAt(c, i)' = NumberAt(c, i)
                            \/ c = customer /\ i = n + 1 /\ NumberAt(c, i)' = last + 1
            OBVIOUS
        <3>1. CASE c # customer
            BY <1>2, <2>2, <3>1
        <3>2. CASE c = customer /\ i = n + 1
            BY <2>3, <3>2
        <3>3. CASE c = customer /\ i # n + 1
            <4>1. i \in 1..n /\ n # 0
                BY <1>2, <2>3, <3>3
            <4> QED BY <2>3, <3>3, <4>1
        <3> QED BY <3>1, <3>2, <3>3
    <2>5. \A c \in DOMAIN lists : \A i \in 1..lists[c].len :
            /\ NumberAt(c, i) \in DOMAIN byNumber /\ NumberAt(c, i) # last + 1
            /\ c \in DOMAIN lists' /\ i \in 1..lists'[c].len /\ NumberAt(c, i)' = NumberAt(c, i)
        <3> SUFFICES ASSUME NEW c \in DOMAIN lists, NEW i \in 1..lists[c].len
                     PROVE  /\ NumberAt(c, i) \in DOMAIN byNumber /\ NumberAt(c, i) # last + 1
                            /\ c \in DOMAIN lists' /\ i \in 1..lists'[c].len
                            /\ NumberAt(c, i)' = NumberAt(c, i)
            OBVIOUS
        <3>1. NumberAt(c, i) \in DOMAIN byNumber
            BY <2>1
        <3>2. NumberAt(c, i) # last + 1
            BY <1>3, <2>1, <3>1
        <3>3. c \in DOMAIN lists'
            BY <1>2
        <3>4. CASE c # customer
            BY <2>2, <3>1, <3>2, <3>3, <3>4
        <3>5. CASE c = customer
            <4>1. i \in 1..n /\ i \in 1..(n + 1)
                BY <1>2, <2>3, <3>5
            <4> QED BY <2>3, <3>1, <3>2, <3>3, <3>5, <4>1
        <3> QED BY <3>4, <3>5
    <2>6. DOMAIN byNumber' = DOMAIN byNumber \cup {last + 1}
        BY <1>1 DEF openAccount
    <2>7. customer \in DOMAIN lists' /\ n + 1 \in 1..lists'[customer].len
        BY <1>2, <2>3
    <2>8. \A c, d \in DOMAIN lists' : \A i \in 1..lists'[c].len, j \in 1..lists'[d].len :
            NumberAt(c, i)' = NumberAt(d, j)' => c = d /\ i = j
        <3> SUFFICES ASSUME NEW c \in DOMAIN lists', NEW d \in DOMAIN lists',
                            NEW i \in 1..lists'[c].len, NEW j \in 1..lists'[d].len,
                            NumberAt(c, i)' = NumberAt(d, j)'
                     PROVE  c = d /\ i = j
            BY Zenon
        <3>1. \/ c \in DOMAIN lists /\ i \in 1..lists[c].len /\ NumberAt(c, i)' = NumberAt(c, i)
              \/ c = customer /\ i = n + 1 /\ NumberAt(c, i)' = last + 1
            BY Zenon, <2>4
        <3>2. \/ d \in DOMAIN lists /\ j \in 1..lists[d].len /\ NumberAt(d, j)' = NumberAt(d, j)
              \/ d = customer /\ j = n + 1 /\ NumberAt(d, j)' = last + 1
            BY Zenon, <2>4
        <3>3. /\ c \in DOMAIN lists /\ i \in 1..lists[c].len => NumberAt(c, i) # last + 1
              /\ d \in DOMAIN lists /\ j \in 1..lists[d].len => NumberAt(d, j) # last + 1
            BY Zenon, <2>5
        <3>4. c \in DOMAIN lists /\ i \in 1..lists[c].len /\ d \in DOMAIN lists /\ j \in 1..lists[d].len
                /\ NumberAt(c, i) = NumberAt(d, j) => c = d /\ i = j
            BY <2>1
        <3>5. CASE c \in DOMAIN lists /\ i \in 1..lists[c].len /\ NumberAt(c, i)' = NumberAt(c, i)
            <4>1. NumberAt(d, j)' # last + 1
                BY <3>3, <3>5
            <4> QED BY Zenon, <3>2, <3>4, <3>5, <4>1
        <3>6. CASE c = customer /\ i = n + 1 /\ NumberAt(c, i)' = last + 1
            <4>1. ~(d \in DOMAIN lists /\ j \in 1..lists[d].len /\ NumberAt(d, j)' = NumberAt(d, j))
                BY <3>3, <3>6
            <4> QED BY Zenon, <3>2, <3>6, <4>1
        <3> QED BY Zenon, <3>1, <3>5, <3>6
    <2>9. \A k : k \in DOMAIN byNumber' <=>
            \E c \in DOMAIN lists' : \E i \in 1..lists'[c].len : NumberAt(c, i)' = k
        <3>1. \A k : k \in DOMAIN byNumber' =>
                \E c \in DOMAIN lists' : \E i \in 1..lists'[c].len : NumberAt(c, i)' = k
            <4> SUFFICES ASSUME NEW k \in DOMAIN byNumber'
                         PROVE  \E c \in DOMAIN lists' : \E i \in 1..lists'[c].len : NumberAt(c, i)' = k
                OBVIOUS
            <4>1. CASE k = last + 1
                BY Zenon, <2>3, <2>7, <4>1
            <4>2. CASE k \in DOMAIN byNumber
                <5>1. PICK c \in DOMAIN lists : \E i \in 1..lists[c].len : NumberAt(c, i) = k
                    BY Zenon, <2>1, <4>2
                <5>2. PICK i \in 1..lists[c].len : NumberAt(c, i) = k
                    BY <5>1
                <5>3. c \in DOMAIN lists' /\ i \in 1..lists'[c].len /\ NumberAt(c, i)' = k
                    BY Zenon, <2>5, <5>2
                <5> QED BY Zenon, <5>3
            <4> QED BY <2>6, <4>1, <4>2
        <3>2. \A c \in DOMAIN lists' : \A i \in 1..lists'[c].len : NumberAt(c, i)' \in DOMAIN byNumber'
            BY Zenon, <2>4, <2>5, <2>6
        <3> QED BY Zenon, <3>1, <3>2
    <2>10. \A k \in DOMAIN byNumber' : k <= last'
        <3>1. \A k \in DOMAIN byNumber : k \in Nat
            <4> SUFFICES ASSUME NEW k \in DOMAIN byNumber PROVE k \in Nat
                OBVIOUS
            <4>1. PICK c \in DOMAIN lists : \E i \in 1..lists[c].len : NumberAt(c, i) = k
                BY <2>1
            <4>2. PICK i \in 1..lists[c].len : NumberAt(c, i) = k
                BY <4>1
            <4>3. arrays \in Seq(Seq(Nat)) /\ IsSlice(lists[c], arrays)
                BY DEF Inv, ListsInv
            <4>4. PICK a \in Seq(Nat) : a = arrays[lists[c].array]
                BY <4>3 DEF IsSlice
            <4>5. i \in 1..Len(a)
                BY <4>3, <4>4 DEF IsSlice
            <4> QED BY <4>2, <4>4, <4>5 DEF NumberAt
        <3> QED BY <1>3, <2>1, <2>6, <3>1
    <2> QED BY <2>8, <2>9, <2>10
<1>8. SaverInv'
    BY <1>2, Grown DEF OpenAccount
<1>9. FileInv'
    BY DEF OpenAccount, Inv, FileInv
<1> QED BY <1>4, <1>5, <1>6, <1>7, <1>8, <1>9 DEF Inv

(* What moving the elements behind i does.                                   *)
Behind(k, i) == IF k < i THEN k ELSE k + 1

IsShifted(x, i, A) ==
    /\ A \in Seq(Seq(Nat)) /\ DOMAIN A = DOMAIN arrays
    /\ \A a \in DOMAIN arrays : Len(A[a]) = Len(arrays[a])
    /\ \A a \in DOMAIN arrays : a # x.array => A[a] = arrays[a]
    /\ \A k \in 1..(x.len - 1) : A[x.array][k] = arrays[x.array][Behind(k, i)]

LEMMA ShiftedIs ==
    ASSUME arrays \in Seq(Seq(Nat)), NEW x, IsSlice(x, arrays), NEW i \in 1..x.len,
           NEW A, A = Shifted(x, i)
    PROVE  IsShifted(x, i, A)
<1>0. PICK old : old = arrays[x.array]
    OBVIOUS
<1>1. /\ x.array \in DOMAIN arrays /\ x.len \in Nat
      /\ old \in Seq(Nat) /\ Len(old) \in Nat /\ x.len <= Len(old) /\ Len(arrays) \in Nat
    BY <1>0 DEF IsSlice
<1>2. PICK new : new = [k \in DOMAIN old |-> IF k \in i..(x.len - 1) THEN old[k + 1] ELSE old[k]]
    OBVIOUS
<1>3. A = [arrays EXCEPT ![x.array] = new]
    BY <1>0, <1>2 DEF Shifted
<1>4. new \in [1..Len(old) -> Nat]
    <2>1. DOMAIN old = 1..Len(old)
        BY <1>1
    <2>2. \A k \in 1..Len(old) : k \in i..(x.len - 1) => k + 1 \in 1..Len(old)
        BY <1>1
    <2>3. \A k \in 1..Len(old) : old[k] \in Nat
        BY <1>1
    <2>4. \A k \in 1..Len(old) : new[k] \in Nat
        BY <1>2, <2>1, <2>2, <2>3
    <2>5. DOMAIN new = 1..Len(old) /\ new = [k \in DOMAIN new |-> new[k]]
        BY <1>2, <2>1
    <2> QED BY <2>4, <2>5
<1>5. new \in Seq(Nat) /\ Len(new) = Len(old)
    <2>1. new \in Seq(Nat)
        BY <1>1, <1>4, FunctionIsSeq
    <2>2. DOMAIN new = 1..Len(old)
        BY <1>4
    <2> QED BY <1>1, <2>1, <2>2
<1>6. \A k \in 1..(x.len - 1) : new[k] = old[Behind(k, i)]
    <2> SUFFICES ASSUME NEW k \in 1..(x.len - 1) PROVE new[k] = old[Behind(k, i)]
        OBVIOUS
    <2>1. k \in DOMAIN old /\ (k < i <=> k \notin i..(x.len - 1))
        BY <1>1
    <2> QED BY <1>2, <2>1 DEF Behind
<1>7. arrays \in [1..Len(arrays) -> Seq(Nat)]
    BY SeqIsFunction
<1>8. /\ A \in [1..Len(arrays) -> Seq(Nat)] /\ A[x.array] = new
      /\ \A a \in DOMAIN arrays : a # x.array => A[a] = arrays[a]
    BY <1>1, <1>3, <1>5, <1>7
<1>9. A \in Seq(Seq(Nat)) /\ DOMAIN A = DOMAIN arrays
    BY <1>1, <1>7, <1>8, FunctionIsSeq
<1>10. \A a \in DOMAIN arrays : Len(A[a]) = Len(arrays[a])
    BY <1>0, <1>5, <1>8
<1> QED BY <1>0, <1>6, <1>8, <1>9, <1>10 DEF IsShifted

LEMMA CloseAccountStep ==
    ASSUME Inv, CloseAccount
    PROVE  Inv'
<1>1. CASE Die
    BY <1>1, DieStep DEF CloseAccount
<1>2. CASE ~Die
    <2>1. PICK customer \in Customer, number \in Number :
            /\ customer \in DOMAIN lists /\ number \in ToSet(Elements(lists[customer]))
            /\ closeAccount(customer, number)
            /\ UNCHANGED <<heap, customers, last, request, saver, server, raced, ghosts>>
        BY <1>2 DEF CloseAccount, Listed
    <2>2. PICK x : x = lists[customer]
        OBVIOUS
    <2>3. /\ arrays \in Seq(Seq(Nat)) /\ last \in Nat
          /\ \A c \in DOMAIN lists : IsSlice(lists[c], arrays)
          /\ \A c, d \in DOMAIN lists : lists[c].array = lists[d].array => c = d
        BY DEF Inv, ListsInv
    <2>4. IsSlice(x, arrays) /\ x \in [array : Nat, len : Nat]
        BY <2>1, <2>2, <2>3 DEF IsSlice
    <2>5. PICK q : q = Elements(x)
        OBVIOUS
    <2>6. /\ q \in Seq(Nat) /\ Len(q) = x.len /\ x.len \in Nat
          /\ \A i \in 1..x.len : q[i] = arrays[x.array][i]
        BY <2>3, <2>4, <2>5, ElementsOf DEF IsSlice
    <2>7. PICK found : found = SelectInSeq(q, LAMBDA n : n = number)
        OBVIOUS
    <2>8. found \in 1..x.len /\ arrays[x.array][found] = number
        <3>1. PICK k \in 1..Len(q) : q[k] = number
            BY <2>1, <2>2, <2>5, <2>6 DEF ToSet
        <3>2. PICK I : I = {i \in 1..Len(q) : q[i] = number}
            OBVIOUS
        <3>3. I \in SUBSET Nat /\ k \in I
            BY <2>6, <3>1, <3>2
        <3>4. Min(I) \in I
            BY <3>3, MinOfNats
        <3>5. found = Min(I)
            BY <2>7, <3>2, <3>3 DEF SelectInSeq
        <3> QED BY <2>6, <3>2, <3>4, <3>5
    <2>9. PICK A : A = Shifted(x, found)
        OBVIOUS
    <2>10. /\ arrays' = A /\ lists' = [lists EXCEPT ![customer].len = @ - 1]
           /\ DOMAIN byNumber' = DOMAIN byNumber \ {number}
        BY <2>1, <2>2, <2>5, <2>7, <2>9 DEF closeAccount
    <2>11. IsShifted(x, found, A)
        BY Zenon, <2>3, <2>4, <2>8, <2>9, ShiftedIs
    <2>12. PICK y : y = [x EXCEPT !.len = x.len - 1]
        OBVIOUS
    <2>13. y \in [array : Nat, len : Nat] /\ y.array = x.array /\ y.len = x.len - 1
        <3>1. x.len - 1 \in Nat
            BY <2>6, <2>8
        <3> QED BY <2>4, <2>12, <3>1
    <2>14. /\ DOMAIN lists' = DOMAIN lists /\ lists'[customer] = y
           /\ \A c \in DOMAIN lists : c # customer => lists'[c] = lists[c]
        BY <2>1, <2>2, <2>10, <2>12
    <2>15. HeapInv' /\ (Fresh' => Fresh)
        BY <2>1 DEF Inv, HeapInv, Fresh
    <2>16. ListsInv'
        <3>1. \A c \in DOMAIN lists : lists'[c].array = lists[c].array
            BY <2>2, <2>13, <2>14
        <3>2. \A z : IsSlice(z, arrays) => IsSlice(z, A)
            BY <2>11 DEF IsSlice, IsShifted
        <3>3. IsSlice(y, A)
            <4>1. x.array \in DOMAIN A /\ x.len <= Len(A[x.array]) /\ Len(A[x.array]) \in Nat
                BY <2>4, <2>11 DEF IsSlice, IsShifted
            <4> QED BY <2>6, <2>13, <4>1 DEF IsSlice
        <3>4. \A c \in DOMAIN lists' : IsSlice(lists'[c], A)
            BY <2>3, <2>14, <3>2, <3>3
        <3>5. \A c, d \in DOMAIN lists' : lists'[c].array = lists'[d].array => c = d
            BY <2>3, <2>14, <3>1
        <3>6. A \in Seq(Seq(Nat)) /\ last' \in Nat
            BY <2>1, <2>3, <2>11 DEF IsShifted
        <3> QED BY Zenon, <2>10, <3>4, <3>5, <3>6 DEF ListsInv
    <2>17. CustomersInv'
        BY <2>1, <2>14 DEF Inv, CustomersInv, Enumerates, Distinct
    <2>18. SaverInv'
        BY <2>1, <2>10, <2>11, <2>14, Grown DEF IsShifted
    <2>19. OwnInv'
        <3> SUFFICES ASSUME Fresh'
                     PROVE  /\ \A c, d \in DOMAIN lists' : \A i \in 1..lists'[c].len, j \in 1..lists'[d].len :
                                 NumberAt(c, i)' = NumberAt(d, j)' => c = d /\ i = j
                            /\ \A k : k \in DOMAIN byNumber' <=>
                                 \E c \in DOMAIN lists' : \E i \in 1..lists'[c].len : NumberAt(c, i)' = k
                            /\ \A k \in DOMAIN byNumber' : k <= last'
            BY Zenon DEF OwnInv
        <3>1. /\ \A c, d \in DOMAIN lists : \A i \in 1..lists[c].len, j \in 1..lists[d].len :
                   NumberAt(c, i) = NumberAt(d, j) => c = d /\ i = j
              /\ \A k : k \in DOMAIN byNumber <=>
                   \E c \in DOMAIN lists : \E i \in 1..lists[c].len : NumberAt(c, i) = k
              /\ \A k \in DOMAIN byNumber : k <= last
            BY Zenon, <2>15 DEF OwnInv, Inv
        <3> DEFINE Was(c, i) == IF c = customer THEN Behind(i, found) ELSE i
        <3>2. \A c \in DOMAIN lists' : \A i \in 1..lists'[c].len :
                /\ c \in DOMAIN lists /\ Was(c, i) \in 1..lists[c].len
                /\ NumberAt(c, i)' = NumberAt(c, Was(c, i))
                /\ ~(c = customer /\ Was(c, i) = found)
            <4> SUFFICES ASSUME NEW c \in DOMAIN lists', NEW i \in 1..lists'[c].len
                         PROVE  /\ c \in DOMAIN lists /\ Was(c, i) \in 1..lists[c].len
                                /\ NumberAt(c, i)' = NumberAt(c, Was(c, i))
                                /\ ~(c = customer /\ Was(c, i) = found)
                OBVIOUS
            <4>1. CASE c = customer
                <5>1. i \in 1..(x.len - 1) /\ Behind(i, found) \in 1..x.len /\ Behind(i, found) # found
                    <6>1. i \in 1..(x.len - 1)
                        BY <2>13, <2>14, <4>1
                    <6> QED BY <2>6, <2>8, <6>1 DEF Behind
                <5>2. A[x.array][i] = arrays[x.array][Behind(i, found)]
                    BY <2>11, <5>1 DEF IsShifted
                <5>3. /\ NumberAt(c, i)' = A[x.array][i]
                      /\ NumberAt(c, Behind(i, found)) = arrays[x.array][Behind(i, found)]
                    BY <2>2, <2>10, <2>13, <2>14, <4>1 DEF NumberAt
                <5> QED BY <2>1, <2>2, <4>1, <5>1, <5>2, <5>3
            <4>2. CASE c # customer
                <5>1. lists'[c] = lists[c] /\ c \in DOMAIN lists
                    BY <2>14, <4>2
                <5>2. lists[c].array \in DOMAIN arrays /\ lists[c].array # x.array
                    BY <2>1, <2>2, <2>3, <4>2, <5>1 DEF IsSlice
                <5>3. NumberAt(c, i)' = NumberAt(c, i)
                    BY <2>10, <2>11, <5>1, <5>2 DEF NumberAt, IsShifted
                <5> QED BY <4>2, <5>1, <5>3
            <4> QED BY <4>1, <4>2
        <3>3. \A c \in DOMAIN lists : \A k \in 1..lists[c].len :
                ~(c = customer /\ k = found) =>
                  \E i \in 1..lists'[c].len : Was(c, i) = k
            <4> SUFFICES ASSUME NEW c \in DOMAIN lists, NEW k \in 1..lists[c].len,
                                ~(c = customer /\ k = found)
                         PROVE  \E i \in 1..lists'[c].len : Was(c, i) = k
                OBVIOUS
            <4>1. CASE c # customer
                BY <2>14, <4>1
            <4>2. CASE c = customer /\ k < found
                <5>1. k \in 1..lists'[c].len /\ Was(c, k) = k
                    BY <2>2, <2>6, <2>8, <2>13, <2>14, <4>2 DEF Behind
                <5> QED BY <5>1
            <4>3. CASE c = customer /\ found < k
                <5>1. k - 1 \in 1..lists'[c].len /\ Was(c, k - 1) = k
                    BY <2>2, <2>6, <2>8, <2>13, <2>14, <4>3 DEF Behind
                <5> QED BY <5>1
            <4> QED BY <2>6, <2>8, <4>1, <4>2, <4>3
        <3>4. \A i, j \in Nat : Behind(i, found) = Behind(j, found) => i = j
            BY <2>6, <2>8 DEF Behind
        <3>5. \A c, d \in DOMAIN lists' : \A i \in 1..lists'[c].len, j \in 1..lists'[d].len :
                NumberAt(c, i)' = NumberAt(d, j)' => c = d /\ i = j
            <4> SUFFICES ASSUME NEW c \in DOMAIN lists', NEW d \in DOMAIN lists',
                                NEW i \in 1..lists'[c].len, NEW j \in 1..lists'[d].len,
                                NumberAt(c, i)' = NumberAt(d, j)'
                         PROVE  c = d /\ i = j
                BY Zenon
            <4> HIDE DEF Was
            <4>1. NumberAt(c, Was(c, i)) = NumberAt(d, Was(d, j))
                BY Zenon, <3>2
            <4>2. c = d /\ Was(c, i) = Was(d, j)
                <5>1. Was(c, i) \in 1..lists[c].len /\ Was(d, j) \in 1..lists[d].len
                      /\ c \in DOMAIN lists /\ d \in DOMAIN lists
                    BY Zenon, <3>2
                <5>2. PICK k \in 1..lists[c].len : k = Was(c, i)
                    BY <5>1
                <5>3. PICK l \in 1..lists[d].len : l = Was(d, j)
                    BY <5>1
                <5>4. NumberAt(c, k) = NumberAt(d, l)
                    BY Zenon, <4>1, <5>2, <5>3
                <5>5. c = d /\ k = l
                    BY <3>1, <5>1, <5>4
                <5> QED BY <5>2, <5>3, <5>5
            <4>3. i \in Nat /\ j \in Nat
                OBVIOUS
            <4> QED BY <3>4, <4>2, <4>3 DEF Was
        <3>6. NumberAt(customer, found) = number
            BY <2>2, <2>8 DEF NumberAt
        <3> HIDE DEF Was
        <3>7. \A k : k \in DOMAIN byNumber' =>
                \E c \in DOMAIN lists' : \E i \in 1..lists'[c].len : NumberAt(c, i)' = k
            <4> SUFFICES ASSUME NEW k \in DOMAIN byNumber'
                         PROVE  \E c \in DOMAIN lists' : \E i \in 1..lists'[c].len : NumberAt(c, i)' = k
                OBVIOUS
            <4>1. k \in DOMAIN byNumber /\ k # number
                BY <2>10
            <4>2. PICK c \in DOMAIN lists : \E i \in 1..lists[c].len : NumberAt(c, i) = k
                BY Zenon, <3>1, <4>1
            <4>3. PICK j \in 1..lists[c].len : NumberAt(c, j) = k
                BY <4>2
            <4>4. ~(c = customer /\ j = found)
                BY <3>6, <4>1, <4>3
            <4>5. PICK i \in 1..lists'[c].len : Was(c, i) = j
                BY Zenon, <3>3, <4>4
            <4>6. c \in DOMAIN lists' /\ NumberAt(c, i)' = k
                BY <2>14, <3>2, <4>3, <4>5
            <4> QED BY Zenon, <4>6
        <3>8. \A c \in DOMAIN lists' : \A i \in 1..lists'[c].len : NumberAt(c, i)' \in DOMAIN byNumber'
            <4> SUFFICES ASSUME NEW c \in DOMAIN lists', NEW i \in 1..lists'[c].len
                         PROVE  NumberAt(c, i)' \in DOMAIN byNumber'
                OBVIOUS
            <4>1. /\ c \in DOMAIN lists /\ Was(c, i) \in 1..lists[c].len
                  /\ NumberAt(c, i)' = NumberAt(c, Was(c, i))
                  /\ ~(c = customer /\ Was(c, i) = found)
                BY Zenon, <3>2
            <4>2. NumberAt(c, Was(c, i)) \in DOMAIN byNumber
                BY Zenon, <3>1, <4>1
            <4>3. NumberAt(c, Was(c, i)) # number
                <5>1. customer \in DOMAIN lists /\ found \in 1..lists[customer].len
                    BY <2>1, <2>2, <2>8
                <5>2. PICK k \in 1..lists[c].len : k = Was(c, i)
                    BY <4>1
                <5>3. ~(c = customer /\ k = found)
                    BY Zenon, <4>1, <5>2
                <5>4. NumberAt(c, k) # NumberAt(customer, found)
                    BY <3>1, <4>1, <5>1, <5>3
                <5> QED BY Zenon, <3>6, <5>2, <5>4
            <4> QED BY <2>10, <4>1, <4>2, <4>3
        <3>9. \A k : k \in DOMAIN byNumber' <=>
                \E c \in DOMAIN lists' : \E i \in 1..lists'[c].len : NumberAt(c, i)' = k
            BY Zenon, <3>7, <3>8
        <3>10. \A k \in DOMAIN byNumber' : k <= last'
            BY <2>1, <2>10, <3>1
        <3> QED BY Zenon, <3>5, <3>9, <3>10
    <2>20. FileInv'
        BY DEF CloseAccount, Inv, FileInv
    <2> QED BY <2>15, <2>16, <2>17, <2>18, <2>19, <2>20 DEF Inv
<1> QED BY <1>1, <1>2

---------------------------------------------------------------------------
(* The server starts *)

NoFile == [customers |-> <<>>, lists |-> Empty, accounts |-> Empty]

(* Lists without accounts are empty lists: nothing is owned and nothing      *)
(* stands for an account.  Otherwise some account is a restored one.         *)
LEMMA LoadStep ==
    ASSUME Inv, Load
    PROVE  Inv'
<1>1. PICK saved : saved = IF file.is = "saved" THEN file ELSE NoFile
    OBVIOUS
<1>2. IsSaved(saved)
    <2>1. CASE file.is = "saved"
        BY <1>1, <2>1 DEF Inv, FileInv
    <2>2. CASE file.is # "saved"
        <3>1. DOMAIN Empty = {} /\ IsFiniteSet({})
            BY FS_EmptySet DEF Empty
        <3>2. Enumerates(<<>>, {})
            BY DEF Enumerates, Distinct
        <3> QED BY <1>1, <2>2, <3>1, <3>2 DEF IsSaved, NoFile
    <2> QED BY <2>1, <2>2
<1> DEFINE N == DOMAIN saved.accounts
           C == DOMAIN saved.lists
<1>3. /\ saved.customers \in Seq(C) /\ Distinct(saved.customers)
      /\ \A c \in C : \E i \in DOMAIN saved.customers : saved.customers[i] = c
      /\ \A c \in C : saved.lists[c] \in Seq(Nat)
      /\ IsFiniteSet(N)
      /\ N = {} => \A c \in C : saved.lists[c] = <<>>
    BY <1>2 DEF IsSaved, Enumerates
<1>4. PICK numbers : numbers = SetToSeq(N)
    OBVIOUS
<1>5. PICK room \in 0..1 :
        arrays' = [k \in DOMAIN customers' |-> saved.lists[customers'[k]] \o [i \in 1..room |-> 0]]
    BY <1>1 DEF Load, NoFile
<1>6. /\ heap' = [k \in DOMAIN numbers |->
                    [entries |-> saved.accounts[numbers[k]], balance |-> 0, restored |-> TRUE]]
      /\ DOMAIN byNumber' = N
      /\ customers' = saved.customers
      /\ lists' = [c \in C |-> [array |-> SelectInSeq(customers', LAMBDA d : d = c),
                                len |-> Len(saved.lists[c])]]
      /\ last' = 0 /\ saver' = NoSavers /\ file' = file
    BY <1>1, <1>4 DEF Load, NoFile
<1>7. /\ Cardinality(N) \in Nat /\ (N # {} => Cardinality(N) # 0)
      /\ numbers \in [1..Cardinality(N) -> N]
    BY <1>3, <1>4, SetToSeqOf
<1>8. HeapInv' /\ (N # {} => ~Fresh')
    <2>1. PICK V : V = {saved.accounts[n] : n \in N} \cup {0}
        OBVIOUS
    <2>2. \A k \in 1..Cardinality(N) : saved.accounts[numbers[k]] \in V
        BY <1>7, <2>1
    <2>3. \A v \in V : [entries |-> v, balance |-> 0, restored |-> TRUE] \in AccountRec(V)
        BY <2>1 DEF AccountRec
    <2>4. heap' \in [1..Cardinality(N) -> AccountRec(V)]
        BY <1>6, <1>7, <2>2, <2>3
    <2>5. heap' \in Seq(AccountRec(V))
        BY <1>7, <2>4, FunctionIsSeq
    <2>6. N # {} => 1 \in DOMAIN heap' /\ heap'[1].restored
        BY <1>6, <1>7
    <2> QED BY <2>5, <2>6 DEF HeapInv, Fresh
<1>9. \A c \in C : /\ lists'[c].array \in DOMAIN customers' /\ customers'[lists'[c].array] = c
                   /\ lists'[c].len = Len(saved.lists[c])
                   /\ lists'[c] \in [array : Nat, len : Nat]
    <2> SUFFICES ASSUME NEW c \in C
                 PROVE  /\ lists'[c].array \in DOMAIN customers' /\ customers'[lists'[c].array] = c
                        /\ lists'[c].len = Len(saved.lists[c])
                        /\ lists'[c] \in [array : Nat, len : Nat]
        OBVIOUS
    <2>1. PICK q : q = customers'
        OBVIOUS
    <2>2. q \in Seq(C) /\ DOMAIN q = 1..Len(q) /\ Len(q) \in Nat
        BY <1>3, <1>6, <2>1
    <2>3. PICK k \in 1..Len(q) : q[k] = c
        BY <1>3, <1>6, <2>1, <2>2
    <2>4. PICK I : I = {i \in 1..Len(q) : q[i] = c}
        OBVIOUS
    <2>5. I \in SUBSET Nat /\ k \in I
        BY <2>3, <2>4
    <2>6. Min(I) \in I
        BY <2>5, MinOfNats
    <2>7. PICK place : place = SelectInSeq(q, LAMBDA d : d = c)
        OBVIOUS
    <2>8. place = Min(I)
        BY <2>4, <2>5, <2>7 DEF SelectInSeq
    <2>9. place \in Nat /\ place \in DOMAIN q /\ q[place] = c
        BY <2>2, <2>4, <2>5, <2>6, <2>8
    <2>10. lists'[c] = [array |-> place, len |-> Len(saved.lists[c])]
        BY <1>6, <2>1, <2>7
    <2>11. Len(saved.lists[c]) \in Nat
        BY <1>3
    <2> QED BY <2>1, <2>9, <2>10, <2>11
<1>10. \A k \in DOMAIN customers' :
         /\ arrays'[k] \in Seq(Nat) /\ Len(saved.lists[customers'[k]]) <= Len(arrays'[k])
         /\ k \in DOMAIN arrays'
    <2> SUFFICES ASSUME NEW k \in DOMAIN customers'
                 PROVE  /\ arrays'[k] \in Seq(Nat)
                        /\ Len(saved.lists[customers'[k]]) <= Len(arrays'[k])
                        /\ k \in DOMAIN arrays'
        OBVIOUS
    <2>1. customers'[k] \in C
        BY <1>3, <1>6
    <2>2. PICK a \in Seq(Nat) : a = saved.lists[customers'[k]]
        BY <1>3, <2>1
    <2>3. PICK zeros : zeros = [i \in 1..room |-> 0]
        OBVIOUS
    <2>4. zeros \in Seq(Nat)
        <3>1. room \in Nat /\ zeros \in [1..room -> Nat]
            BY <2>3
        <3> QED BY <3>1, FunctionIsSeq
    <2>5. arrays'[k] = a \o zeros /\ k \in DOMAIN arrays'
        BY <1>5, <2>2, <2>3
    <2>6. a \o zeros \in Seq(Nat) /\ Len(a) <= Len(a \o zeros)
        BY <2>4
    <2> QED BY <2>2, <2>5, <2>6
<1>11. ListsInv'
    <2>1. arrays' \in Seq(Seq(Nat))
        <3>1. DOMAIN customers' = 1..Len(saved.customers) /\ Len(saved.customers) \in Nat
            BY <1>3, <1>6
        <3>2. arrays' \in [1..Len(saved.customers) -> Seq(Nat)]
            BY <1>5, <1>10, <3>1
        <3> QED BY <3>1, <3>2, FunctionIsSeq
    <2>2. DOMAIN lists' = C
        BY <1>6
    <2>3. \A c \in C : IsSlice(lists'[c], arrays')
        BY <1>9, <1>10 DEF IsSlice
    <2>4. \A c, d \in C : lists'[c].array = lists'[d].array => c = d
        BY <1>9
    <2> QED BY <1>6, <2>1, <2>2, <2>3, <2>4 DEF ListsInv
<1>12. CustomersInv'
    <2>1. DOMAIN lists' = C /\ customers' = saved.customers
        BY <1>6
    <2> QED BY <1>3, <2>1 DEF CustomersInv, Enumerates, Distinct
<1>13. OwnInv'
    <2>1. CASE N # {}
        BY <1>8, <2>1 DEF OwnInv
    <2>2. CASE N = {}
        <3>1. DOMAIN byNumber' = {}
            BY <1>6, <2>2
        <3>2. \A c \in DOMAIN lists' : lists'[c].len = 0
            BY <1>3, <1>6, <1>9, <2>2
        <3>3. \A c \in DOMAIN lists' : 1..lists'[c].len = {}
            BY <3>2
        <3> QED BY <3>1, <3>3 DEF OwnInv
    <2> QED BY <2>1, <2>2
<1>14. SaverInv'
    BY <1>6 DEF SaverInv, IsSaver, NoSavers, Idle
<1>15. FileInv'
    BY <1>6 DEF Inv, FileInv
<1> QED BY <1>8, <1>11, <1>12, <1>13, <1>14, <1>15 DEF Inv

---------------------------------------------------------------------------
(* The invariant *)

LEMMA InitInv ==
    ASSUME Init
    PROVE  Inv
<1>1. HeapInv
    <2>1. <<>> \in Seq(AccountRec({}))
        OBVIOUS
    <2> QED BY <2>1 DEF HeapInv, Init
<1>2. ListsInv
    <2>1. <<>> \in Seq(Seq(Nat))
        OBVIOUS
    <2> QED BY <2>1 DEF ListsInv, Init, Empty
<1>3. CustomersInv
    BY DEF CustomersInv, Enumerates, Distinct, Init, Empty
<1>4. OwnInv
    BY DEF OwnInv, Init, Empty
<1>5. SaverInv
    BY DEF SaverInv, IsSaver, Init, NoSavers, Idle
<1>6. FileInv
    BY DEF FileInv, Init
<1> QED BY <1>1, <1>2, <1>3, <1>4, <1>5, <1>6 DEF Inv

LEMMA NextInv ==
    ASSUME Inv, [Next]_vars
    PROVE  Inv'
<1>1. CASE OpenAccount
    BY <1>1, OpenAccountStep
<1>2. CASE CloseAccount
    BY <1>2, CloseAccountStep
<1>3. CASE GetAccounts
    BY <1>3, DieStep DEF GetAccounts
<1>4. ASSUME NEW c \in Client, LookupSource(c) \/ LookupDest(c)
      PROVE  Inv'
    BY <1>4, RequestStep DEF LookupSource, LookupDest, Same, tables
<1>5. ASSUME NEW c \in Client, Debit(c)
      PROVE  Inv'
    BY <1>5, DebitStep
<1>6. ASSUME NEW c \in Client, Credit(c)
      PROVE  Inv'
    BY <1>6, CreditStep
<1>7. CASE StartSave
    BY <1>7, StartSaveStep
<1>8. ASSUME NEW s \in DOMAIN saver, CopyList(s)
      PROVE  Inv'
    BY <1>8, CopyListStep
<1>9. ASSUME NEW s \in DOMAIN saver, CopyAccount(s)
      PROVE  Inv'
    BY <1>9, CopyAccountStep
<1>10. ASSUME NEW s \in DOMAIN saver, Marshal(s)
       PROVE  Inv'
    BY <1>10, MarshalStep
<1>11. ASSUME NEW s \in DOMAIN saver, Truncate(s)
       PROVE  Inv'
    BY <1>11, TruncateStep
<1>12. ASSUME NEW s \in DOMAIN saver, Write(s)
       PROVE  Inv'
    BY <1>12, WriteStep
<1>13. CASE Signal
    BY <1>13, RequestStep DEF Signal, Same, tables
<1>14. CASE ServeReturns
    BY <1>14, ServeReturnsStep
<1>15. CASE Kill
    BY <1>15, DieStep DEF Kill
<1>16. CASE Load
    BY <1>16, LoadStep
<1>17. CASE UNCHANGED vars
    BY <1>17, RequestStep DEF vars, Same, tables
<1> QED BY <1>1, <1>2, <1>3, <1>4, <1>5, <1>6, <1>7, <1>8, <1>9, <1>10, <1>11, <1>12, <1>13,
           <1>14, <1>15, <1>16, <1>17 DEF Next

LEMMA InvOneOwner ==
    ASSUME Inv
    PROVE  OneOwner
<1> SUFFICES ASSUME Fresh
             PROVE  /\ \A c \in DOMAIN lists : IsInjective(Elements(lists[c]))
                    /\ \A c, d \in DOMAIN lists :
                         c # d => ToSet(Elements(lists[c])) \cap ToSet(Elements(lists[d])) = {}
                    /\ DOMAIN byNumber = UNION {ToSet(Elements(lists[c])) : c \in DOMAIN lists}
    BY Zenon DEF OneOwner, Fresh
<1>1. \A c \in DOMAIN lists :
        /\ DOMAIN Elements(lists[c]) = 1..lists[c].len
        /\ \A i \in 1..lists[c].len : Elements(lists[c])[i] = NumberAt(c, i)
    BY ElementsOf DEF Inv, ListsInv, NumberAt
<1>2. /\ \A c, d \in DOMAIN lists : \A i \in 1..lists[c].len, j \in 1..lists[d].len :
           NumberAt(c, i) = NumberAt(d, j) => c = d /\ i = j
      /\ \A n : n \in DOMAIN byNumber <=>
           \E c \in DOMAIN lists : \E i \in 1..lists[c].len : NumberAt(c, i) = n
    BY Zenon DEF Inv, OwnInv
<1>3. \A c \in DOMAIN lists : IsInjective(Elements(lists[c]))
    <2> SUFFICES ASSUME NEW c \in DOMAIN lists
                 PROVE  IsInjective(Elements(lists[c]))
        OBVIOUS
    <2>1. \A i, j \in 1..lists[c].len : NumberAt(c, i) = NumberAt(c, j) => i = j
        BY <1>2
    <2>2. PICK q : q = Elements(lists[c])
        OBVIOUS
    <2>3. DOMAIN q = 1..lists[c].len /\ \A i \in 1..lists[c].len : q[i] = NumberAt(c, i)
        BY <1>1, <2>2
    <2>4. \A i, j \in DOMAIN q : q[i] = q[j] => i = j
        BY <2>1, <2>3
    <2> QED BY Zenon, <2>2, <2>4 DEF IsInjective
<1>4. \A c \in DOMAIN lists : \A n : n \in ToSet(Elements(lists[c])) <=>
        \E i \in 1..lists[c].len : NumberAt(c, i) = n
    BY <1>1 DEF ToSet
<1>5. \A c, d \in DOMAIN lists :
        c # d => ToSet(Elements(lists[c])) \cap ToSet(Elements(lists[d])) = {}
    BY <1>2, <1>4
<1>6. DOMAIN byNumber = UNION {ToSet(Elements(lists[c])) : c \in DOMAIN lists}
    BY <1>2, <1>4
<1> QED BY <1>3, <1>5, <1>6

(* Whatever requests and saves interleave, whenever the server dies, and     *)
(* from whatever file it starts again: as long as no account is a restored   *)
(* one, every number is in the list of one customer, once, and stands for an *)
(* account.                                                                  *)
THEOREM EveryNumberOwned == Spec => []OneOwner
<1>1. Init => Inv
    BY InitInv
<1>2. Inv /\ [Next]_vars => Inv'
    BY NextInv
<1>3. Inv => OneOwner
    BY InvOneOwner
<1> QED BY <1>1, <1>2, <1>3, PTL DEF Spec

---------------------------------------------------------------------------
(* Sums: SumFunctionOnSet adds the values in the order of a choice, but the  *)
(* sum is that of any order.                                                 *)

LEMMA AllNats ==
    ASSUME NEW A \in SUBSET Nat, 0 \in A, \A n \in A : n + 1 \in A
    PROVE  A = Nat
<1> SUFFICES ASSUME A # Nat PROVE FALSE
    OBVIOUS
<1>1. PICK B : B = Nat \ A
    OBVIOUS
<1>2. B \in SUBSET Nat /\ B # {}
    BY <1>1
<1>3. IsWellFoundedOn(NatLess, Nat)
    BY Zenon, NatLessThanWellFounded, NatLessIsLess
<1>4. PICK x \in B : \A y \in B : ~(<<y, x>> \in NatLess)
    BY <1>2, <1>3, WFMin
<1>5. x \in Nat /\ x # 0 /\ x - 1 \in Nat /\ x - 1 < x
    BY <1>1
<1>6. x - 1 \in A
    BY <1>1, <1>4, <1>5 DEF NatLess
<1>7. (x - 1) + 1 = x
    BY <1>5
<1> QED BY <1>1, <1>6, <1>7

(* g has the sums of f over all subsets of S, whichever element comes last.  *)
Sums(g, f, S) ==
    /\ g \in [SUBSET S -> Int]
    /\ g[{}] = 0
    /\ \A s \in SUBSET S : \A x \in s : g[s] = f[x] + g[s \ {x}]

Ints(f, S) == \A x \in S : f[x] \in Int
Agree(f, e, S) == \A x \in S : e[x] = f[x]

LEMMA SumsExtended ==
    ASSUME NEW S, NEW y, y \notin S, NEW f, Ints(f, S \cup {y}), NEW g, Sums(g, f, S)
    PROVE  \E h : Sums(h, f, S \cup {y})
<1> DEFINE T == S \cup {y}
           h == [s \in SUBSET T |-> IF y \in s THEN f[y] + g[s \ {y}] ELSE g[s]]
<1>1. g \in [SUBSET S -> Int] /\ g[{}] = 0 /\ f[y] \in Int
    BY DEF Sums, Ints
<1>2. \A s \in SUBSET T : s \ {y} \in SUBSET S /\ (y \notin s => s \in SUBSET S)
    OBVIOUS
<1>3. h \in [SUBSET T -> Int]
    BY <1>1, <1>2
<1>4. h[{}] = 0
    BY <1>1
<1>5. ASSUME NEW s \in SUBSET T, NEW x \in s
      PROVE  h[s] = f[x] + h[s \ {x}]
    <2>1. s \ {x} \in SUBSET T
        OBVIOUS
    <2>2. CASE x = y
        <3>1. y \in s /\ y \notin s \ {x} /\ s \ {x} = s \ {y}
            BY <2>2
        <3>2. h[s] = f[y] + g[s \ {y}] /\ h[s \ {x}] = g[s \ {y}]
            BY <2>1, <3>1
        <3> QED BY <2>2, <3>2
    <2>3. CASE x # y /\ y \in s
        <3>1. PICK t : t = s \ {y}
            OBVIOUS
        <3>2. t \in SUBSET S /\ x \in t /\ t \ {x} = (s \ {x}) \ {y} /\ t \ {x} \in SUBSET S
            BY <2>3, <3>1
        <3>3. g[t] = f[x] + g[t \ {x}]
            BY <3>2 DEF Sums
        <3>4. h[s] = f[y] + g[t] /\ h[s \ {x}] = f[y] + g[t \ {x}]
            BY <2>1, <2>3, <3>1, <3>2
        <3>5. g[t] \in Int /\ g[t \ {x}] \in Int
            BY <1>1, <3>2
        <3>7. f[x] \in Int /\ f[y] \in Int
            BY <2>3 DEF Ints
        <3> HIDE DEF h
        <3> QED BY <3>3, <3>4, <3>5, <3>7
    <2>4. CASE y \notin s
        <3>1. s \in SUBSET S /\ y \notin s \ {x}
            BY <2>4
        <3>2. h[s] = g[s] /\ h[s \ {x}] = g[s \ {x}]
            BY <2>1, <2>4, <3>1
        <3> QED BY <3>1, <3>2 DEF Sums
    <2> QED BY <2>2, <2>3, <2>4
<1> HIDE DEF h
<1> QED BY <1>3, <1>4, <1>5 DEF Sums

LEMMA SumsExist ==
    ASSUME NEW S, IsFiniteSet(S), NEW f, Ints(f, S)
    PROVE  \E g : Sums(g, f, S)
<1> DEFINE A == {n \in Nat : \A T \in SUBSET S : Cardinality(T) = n => \E g : Sums(g, f, T)}
<1>1. 0 \in A
    <2> SUFFICES ASSUME NEW T \in SUBSET S, Cardinality(T) = 0 PROVE \E g : Sums(g, f, T)
        OBVIOUS
    <2>1. T = {}
        BY FS_Subset, FS_EmptySet
    <2>2. PICK g : g = [s \in SUBSET T |-> 0]
        OBVIOUS
    <2>3. Sums(g, f, T)
        BY <2>1, <2>2 DEF Sums
    <2> QED BY <2>3
<1>2. ASSUME NEW n \in A PROVE n + 1 \in A
    <2> SUFFICES ASSUME NEW T \in SUBSET S, Cardinality(T) = n + 1 PROVE \E g : Sums(g, f, T)
        OBVIOUS
    <2>1. IsFiniteSet(T) /\ T # {}
        BY FS_Subset, FS_EmptySet
    <2>2. PICK y \in T : TRUE
        BY <2>1
    <2>3. Cardinality(T \ {y}) = n /\ T \ {y} \in SUBSET S
        <3>1. n \in Nat /\ Cardinality(T \ {y}) = Cardinality(T) - 1
            BY <2>1, FS_RemoveElement
        <3> QED BY <3>1
    <2>4. PICK g : Sums(g, f, T \ {y})
        BY <2>3
    <2>5. PICK R : R = T \ {y}
        OBVIOUS
    <2>6. R \cup {y} = T /\ y \notin R /\ Ints(f, R \cup {y})
        BY <2>5 DEF Ints
    <2>7. \E h : Sums(h, f, R \cup {y})
        BY Zenon, <2>4, <2>5, <2>6, SumsExtended
    <2> QED BY <2>6, <2>7
<1>3. A \in SUBSET Nat
    OBVIOUS
<1> HIDE DEF A
<1>4. A = Nat
    BY <1>1, <1>2, <1>3, AllNats
<1>5. Cardinality(S) \in A
    BY <1>4, FS_CardinalityType
<1> QED BY <1>5 DEF A

(* There is only one such sum. *)
AddsUp(h, f, S) ==
    /\ h[{}] = 0
    /\ \A s \in SUBSET S : s # {} => \E x \in s : h[s] = f[x] + h[s \ {x}]

LEMMA SumsUnique ==
    ASSUME NEW S, IsFiniteSet(S), NEW f, NEW g, Sums(g, f, S), NEW h, AddsUp(h, f, S)
    PROVE  h[S] = g[S]
<1> DEFINE A == {n \in Nat : \A s \in SUBSET S : Cardinality(s) = n => h[s] = g[s]}
<1>1. 0 \in A
    BY FS_Subset, FS_EmptySet DEF Sums, AddsUp
<1>2. ASSUME NEW n \in A PROVE n + 1 \in A
    <2> SUFFICES ASSUME NEW s \in SUBSET S, Cardinality(s) = n + 1 PROVE h[s] = g[s]
        OBVIOUS
    <2>1. IsFiniteSet(s) /\ s # {}
        BY FS_Subset, FS_EmptySet
    <2>2. PICK x \in s : h[s] = f[x] + h[s \ {x}]
        BY <2>1 DEF AddsUp
    <2>3. Cardinality(s \ {x}) = n /\ s \ {x} \in SUBSET S
        <3>1. n \in Nat /\ Cardinality(s \ {x}) = Cardinality(s) - 1
            BY <2>1, FS_RemoveElement
        <3> QED BY <3>1
    <2>4. h[s \ {x}] = g[s \ {x}]
        BY <2>3
    <2> QED BY <2>2, <2>4 DEF Sums
<1>3. A \in SUBSET Nat
    OBVIOUS
<1> HIDE DEF A
<1>4. A = Nat
    BY <1>1, <1>2, <1>3, AllNats
<1>5. Cardinality(S) \in A
    BY <1>4, FS_CardinalityType
<1> QED BY <1>5 DEF A

Chosen(s) == CHOOSE x \in s : TRUE

LEMMA SumIs ==
    ASSUME NEW S, IsFiniteSet(S), NEW f, Ints(f, S)
    PROVE  \E g : Sums(g, f, S) /\ SumFunctionOnSet(f, S) = g[S]
<1> DEFINE It(h) == h = [s \in SUBSET S |->
                           IF s = {} THEN 0 ELSE f[Chosen(s)] + h[s \ {Chosen(s)}]]
<1>1. PICK g : Sums(g, f, S)
    BY SumsExist
<1>2. \A s : s # {} => Chosen(s) \in s
    BY DEF Chosen
<1>3. It(g)
    <2>1. g \in [SUBSET S -> Int] /\ g[{}] = 0
        BY <1>1 DEF Sums
    <2>2. \A s \in SUBSET S : s # {} => g[s] = f[Chosen(s)] + g[s \ {Chosen(s)}]
        BY <1>1, <1>2 DEF Sums
    <2> QED BY <2>1, <2>2
<1>4. PICK h : h = CHOOSE iter : It(iter)
    OBVIOUS
<1>5. It(h)
    <2> HIDE DEF It
    <2> QED BY Zenon, <1>3, <1>4
<1>6. SumFunctionOnSet(f, S) = h[S]
    BY <1>4 DEF SumFunctionOnSet, FoldFunctionOnSet, MapThenFoldSet, Chosen
<1>7. AddsUp(h, f, S)
    <2>1. h[{}] = 0
        BY <1>5
    <2>2. \A s \in SUBSET S : s # {} => h[s] = f[Chosen(s)] + h[s \ {Chosen(s)}]
        BY <1>5
    <2> QED BY <1>2, <2>1, <2>2 DEF AddsUp
<1> HIDE DEF It
<1>8. h[S] = g[S]
    BY Zenon, <1>1, <1>7, SumsUnique
<1> QED BY <1>1, <1>6, <1>8

LEMMA SumOfNothing ==
    ASSUME NEW f
    PROVE  SumFunctionOnSet(f, {}) = 0
<1>1. IsFiniteSet({})
    BY FS_EmptySet
<1>2. PICK g : Sums(g, f, {}) /\ SumFunctionOnSet(f, {}) = g[{}]
    <2>1. Ints(f, {})
        BY DEF Ints
    <2> QED BY Zenon, <1>1, <2>1, SumIs
<1> QED BY <1>2 DEF Sums

(* One value apart, the sum is that of the others. *)
IsApart(f, S, x, e) ==
    /\ SumFunctionOnSet(f, S) = f[x] + SumFunctionOnSet(e, S \ {x})
    /\ SumFunctionOnSet(f, S) \in Int
    /\ SumFunctionOnSet(e, S \ {x}) \in Int

LEMMA SumApart ==
    ASSUME NEW S, IsFiniteSet(S), NEW f, Ints(f, S),
           NEW x, x \in S, NEW e, Agree(f, e, S \ {x})
    PROVE  IsApart(f, S, x, e)
<1>1. PICK T : T = S \ {x}
    OBVIOUS
<1>2. IsFiniteSet(T) /\ T \in SUBSET S /\ S \in SUBSET S
    BY <1>1, FS_Subset
<1>3. PICK g : Sums(g, f, S) /\ SumFunctionOnSet(f, S) = g[S]
    BY SumIs
<1>4. PICK h : Sums(h, e, T) /\ SumFunctionOnSet(e, T) = h[T]
    <2>1. Ints(e, T)
        BY <1>1 DEF Ints, Agree
    <2> QED BY Zenon, <1>2, <2>1, SumIs
<1>5. /\ g \in [SUBSET S -> Int] /\ g[{}] = 0 /\ h \in [SUBSET T -> Int] /\ T \in SUBSET T
      /\ \A s \in SUBSET S : \A y \in s : g[s] = f[y] + g[s \ {y}]
    BY <1>3, <1>4 DEF Sums
<1>6. AddsUp(g, e, T)
    <2> SUFFICES ASSUME NEW s \in SUBSET T, s # {} PROVE \E y \in s : g[s] = e[y] + g[s \ {y}]
        BY <1>5 DEF AddsUp
    <2>1. PICK y \in s : TRUE
        OBVIOUS
    <2>2. s \in SUBSET S /\ e[y] = f[y]
        BY <1>1, <1>2 DEF Agree
    <2> QED BY <1>5, <2>1, <2>2
<1>7. g[T] = h[T]
    BY Zenon, <1>2, <1>4, <1>6, SumsUnique
<1>8. g[S] = f[x] + g[T]
    BY <1>1, <1>2, <1>5
<1> QED BY <1>1, <1>2, <1>3, <1>4, <1>5, <1>7, <1>8 DEF IsApart

(* The sum after one value has changed. *)
Replaced(e, f, x, v) == e = [f EXCEPT ![x] = v]

IsSumExcept(e, f, x, v) ==
    SumFunction(e) = SumFunction(f) - f[x] + v /\ SumFunction(f) \in Int

LEMMA SumExcept ==
    ASSUME NEW S, IsFiniteSet(S), NEW f \in [S -> Int], NEW x \in S, NEW v \in Int,
           NEW e, Replaced(e, f, x, v)
    PROVE  IsSumExcept(e, f, x, v)
<1>1. /\ e \in [S -> Int] /\ e[x] = v
      /\ Ints(f, S) /\ Ints(e, S) /\ Agree(f, e, S \ {x}) /\ Agree(e, e, S \ {x})
    BY DEF Ints, Agree, Replaced
<1>2. IsApart(f, S, x, e) /\ IsApart(e, S, x, e)
    BY Zenon, <1>1, SumApart
<1>4. SumFunction(e) = SumFunctionOnSet(e, S) /\ SumFunction(f) = SumFunctionOnSet(f, S)
    BY <1>1 DEF SumFunction
<1>5. f[x] \in Int
    OBVIOUS
<1> QED BY <1>1, <1>2, <1>4, <1>5 DEF IsApart, IsSumExcept

(* The sum of a sequence and of the sequence with one value more. *)
LEMMA SumAppend ==
    ASSUME NEW q \in Seq(Int), NEW v \in Int
    PROVE  /\ SumFunction(Append(q, v)) = SumFunction(q) + v
           /\ SumFunction(q) \in Int
<1>1. PICK n \in Nat : n = Len(q)
    OBVIOUS
<1>2. PICK p : p = Append(q, v)
    OBVIOUS
<1>3. /\ p \in Seq(Int) /\ DOMAIN p = 1..(n + 1) /\ DOMAIN q = 1..n
      /\ p[n + 1] = v /\ \A k \in 1..n : p[k] = q[k]
    BY <1>1, <1>2
<1>4. PICK I : I = 1..(n + 1)
    OBVIOUS
<1>5. IsFiniteSet(I) /\ I \ {n + 1} = 1..n /\ n + 1 \in I
    <2>1. 1 \in Int /\ n + 1 \in Int
        OBVIOUS
    <2>2. IsFiniteSet(I)
        BY <1>4, <2>1, FS_Interval
    <2>3. (1..(n + 1)) \ {n + 1} = 1..n /\ n + 1 \in 1..(n + 1)
        OBVIOUS
    <2> QED BY <1>4, <2>2, <2>3
<1>6. Ints(p, I) /\ Agree(p, q, I \ {n + 1})
    BY <1>3, <1>4, <1>5 DEF Ints, Agree
<1>7. IsApart(p, I, n + 1, q)
    BY Zenon, <1>5, <1>6, SumApart
<1>8. SumFunction(p) = v + SumFunction(q) /\ SumFunction(q) \in Int
    BY <1>3, <1>4, <1>5, <1>7 DEF SumFunction, IsApart
<1> QED BY <1>2, <1>8

LEMMA SumEmpty ==
    ASSUME NEW f, DOMAIN f = {}
    PROVE  SumFunction(f) = 0
BY SumOfNothing DEF SumFunction

LEMMA SumOfOne ==
    ASSUME NEW v \in Int
    PROVE  SumFunction(<<v>>) = v
<1>1. Append(<<>>, v) = <<v>> /\ <<>> \in Seq(Int) /\ DOMAIN <<>> = {}
    OBVIOUS
<1>2. SumFunction(<<>>) = 0
    BY <1>1, SumEmpty
<1>3. SumFunction(Append(<<>>, v)) = SumFunction(<<>>) + v
    BY <1>1, SumAppend
<1> QED BY <1>1, <1>2, <1>3

LEMMA SumOfZeros ==
    ASSUME NEW S, IsFiniteSet(S), NEW f \in [S -> {0}]
    PROVE  SumFunction(f) = 0
<1>1. PICK g : Sums(g, f, S) /\ SumFunctionOnSet(f, S) = g[S]
    <2>1. Ints(f, S)
        BY DEF Ints
    <2> QED BY Zenon, <2>1, SumIs
<1>2. Sums(g, f, S)
    BY Zenon, <1>1
<1>3. PICK h : h = [s \in SUBSET S |-> 0]
    OBVIOUS
<1>4. AddsUp(h, f, S) /\ h[S] = 0
    BY <1>3 DEF AddsUp
<1>5. h[S] = g[S]
    BY Zenon, <1>2, <1>4, SumsUnique
<1> QED BY <1>1, <1>4, <1>5 DEF SumFunction

---------------------------------------------------------------------------
(* Where the money is.  An account that was looked up stays an account as    *)
(* long as the server lives; a balance fits in an int32 and is not negative. *)

Positive == 1..MaxInt32
AccountOrNil(accounts) == accounts \cup {Nil}

IsRequest(r, accounts) ==
    \/ r = Idle
    \/ /\ r.step = "lookup"
       /\ r = [step |-> r.step, customer |-> r.customer, op |-> r.op, dest |-> r.dest,
               amount |-> r.amount, from |-> r.from]
       /\ r.amount \in Positive /\ r.from \in AccountOrNil(accounts)
    \/ /\ r.step \in {"debit", "credit"}
       /\ r = [step |-> r.step, op |-> r.op, amount |-> r.amount, from |-> r.from, to |-> r.to]
       /\ r.amount \in Positive
       /\ r.from \in AccountOrNil(accounts) /\ r.to \in AccountOrNil(accounts)

RequestsInv ==
    /\ request = [c \in Client |-> request[c]]
    /\ \A c \in Client : IsRequest(request[c], DOMAIN heap)

BalancesInv == \A k \in DOMAIN heap : heap[k].balance \in 0..MaxInt32

NumbersInv ==
    /\ \A n \in DOMAIN byNumber : byNumber[n] \in DOMAIN heap
    /\ \A m, n \in DOMAIN byNumber : byNumber[m] = byNumber[n] => m = n

MoneyInv ==
    /\ RequestsInv /\ BalancesInv /\ NumbersInv
    /\ outside \in Int /\ lost \in Int /\ stranded \in Int /\ Conserved

(* The accounts restored from the file come first.  The others hold the sum  *)
(* of their entries, and no two numbers stand for the same one.              *)
LedgerInv ==
    /\ \A k \in DOMAIN heap : heap[k].restored <=> k <= Restored
    /\ Restored \in 0..Len(heap)
    /\ \A k \in DOMAIN heap : k > Restored =>
         heap[k].entries \in Seq(Int) /\ SumFunction(heap[k].entries) = heap[k].balance
    /\ \A n \in DOMAIN byNumber : byNumber[n] > Restored =>
         /\ n \in 1..last
         /\ \A m \in DOMAIN byNumber : byNumber[m] = byNumber[n] => m = n

(* What is known of heap. *)
LEMMA HeapHas ==
    ASSUME Inv
    PROVE  /\ Len(heap) \in Nat /\ DOMAIN heap = 1..Len(heap)
           /\ heap = [k \in 1..Len(heap) |-> heap[k]]
           /\ \A k \in DOMAIN heap :
                /\ heap[k] = [entries |-> heap[k].entries, balance |-> heap[k].balance,
                              restored |-> heap[k].restored]
                /\ heap[k].restored \in BOOLEAN
<1>1. PICK V : heap \in Seq(AccountRec(V))
    BY DEF Inv, HeapInv
<1>2. heap \in [1..Len(heap) -> AccountRec(V)] /\ Len(heap) \in Nat
    BY <1>1, SeqIsFunction
<1>3. \A r \in AccountRec(V) :
        r = [entries |-> r.entries, balance |-> r.balance, restored |-> r.restored]
        /\ r.restored \in BOOLEAN
    BY DEF AccountRec
<1> QED BY <1>2, <1>3

(* One element more, written as a function. *)
Lengthened(p, q, n, v) ==
    /\ p = [k \in 1..(n + 1) |-> p[k]] /\ p[n + 1] = v
    /\ \A k \in 1..n : p[k] = q[k]

LEMMA AppendIs ==
    ASSUME NEW T, NEW n \in Nat, NEW q \in [1..n -> T], NEW v \in T,
           NEW p, Lengthened(p, q, n, v)
    PROVE  p = Append(q, v)
<1>0. p = [k \in 1..(n + 1) |-> p[k]] /\ p[n + 1] = v /\ \A k \in 1..n : p[k] = q[k]
    BY DEF Lengthened
<1>1. q \in Seq(T) /\ Len(q) = n
    BY FunctionIsSeq
<1>2. p \in [1..(n + 1) -> T]
    <2>1. \A k \in 1..(n + 1) : k \in 1..n \/ k = n + 1
        OBVIOUS
    <2>2. \A k \in 1..(n + 1) : p[k] \in T
        BY <1>0, <2>1
    <2> QED BY <1>0, <2>2
<1>3. PICK a : a = Append(q, v)
    OBVIOUS
<1>4. a \in Seq(T) /\ Len(a) = n + 1 /\ a[n + 1] = v /\ \A k \in 1..n : a[k] = q[k]
    BY <1>1, <1>3
<1>5. a \in [1..(n + 1) -> T]
    BY <1>4, SeqIsFunction
<1>6. ASSUME NEW k \in 1..(n + 1) PROVE p[k] = a[k]
    <2>1. k \in 1..n \/ k = n + 1
        OBVIOUS
    <2>2. CASE k \in 1..n
        BY <1>0, <1>4, <2>2
    <2>3. CASE k = n + 1
        BY <1>0, <1>4, <2>3
    <2> QED BY <2>1, <2>2, <2>3
<1> QED BY <1>2, <1>3, <1>5, <1>6

LEMMA HeapAppended ==
    ASSUME Inv, NEW x, heap' = Append(heap, x), NEW n \in Nat, n = Len(heap)
    PROVE  /\ DOMAIN heap = 1..n /\ DOMAIN heap' = 1..(n + 1) /\ Len(heap') = n + 1
           /\ heap'[n + 1] = x /\ \A k \in 1..n : heap'[k] = heap[k]
<1>1. PICK V : heap \in Seq(AccountRec(V))
    BY DEF Inv, HeapInv
<1>2. PICK S : S = AccountRec(V) \cup {x}
    OBVIOUS
<1>3. heap \in Seq(S) /\ x \in S
    BY <1>1, <1>2
<1> QED BY <1>3

LEMMA SumsAre ==
    ASSUME Inv, MoneyInv
    PROVE  /\ Balances \in [1..Len(heap) -> Int] /\ IsFiniteSet(1..Len(heap))
           /\ Carried \in [Client -> Int] /\ IsFiniteSet(Client)
           /\ SumFunction(Balances) \in Int /\ SumFunction(Carried) \in Int
<1>1. Balances \in [1..Len(heap) -> Int]
    <2>1. \A k \in 1..Len(heap) : heap[k].balance \in Int
        BY HeapHas, BankAssumption DEF MoneyInv, BalancesInv
    <2> QED BY <2>1, HeapHas DEF Balances
<1>2. Carried \in [Client -> Int]
    <2>1. \A c \in Client : request[c].step = "credit" => request[c].amount \in Int
        BY BankAssumption DEF MoneyInv, RequestsInv, IsRequest, Positive, Idle
    <2> QED BY <2>1 DEF Carried
<1>3. IsFiniteSet(1..Len(heap)) /\ IsFiniteSet(Client)
    <2>1. PICK n \in Int : n = Len(heap)
        BY HeapHas
    <2>2. 1 \in Int /\ IsFiniteSet(1..n)
        BY <2>1, FS_Interval
    <2> QED BY <2>1, <2>2, BankAssumption
<1> HIDE DEF Balances, Carried
<1>4. Ints(Balances, 1..Len(heap)) /\ Ints(Carried, Client)
    BY <1>1, <1>2 DEF Ints
<1>5. \A S, f : IsFiniteSet(S) /\ Ints(f, S) => SumFunctionOnSet(f, S) \in Int
    <2> TAKE S, f
    <2> HAVE IsFiniteSet(S) /\ Ints(f, S)
    <2>1. PICK g : Sums(g, f, S) /\ SumFunctionOnSet(f, S) = g[S]
        BY SumIs
    <2> QED BY <2>1 DEF Sums
<1>6. SumFunction(Balances) \in Int /\ SumFunction(Carried) \in Int
    BY <1>1, <1>2, <1>3, <1>4, <1>5 DEF SumFunction
<1> QED BY <1>1, <1>2, <1>3, <1>6

(* What is carried when one request has changed. *)
LEMMA CarriedIs ==
    ASSUME Inv, MoneyInv, NEW c \in Client, NEW r, request' = [request EXCEPT ![c] = r],
           NEW v \in Int, v = IF r.step = "credit" THEN r.amount ELSE 0
    PROVE  /\ SumFunction(Carried)' = SumFunction(Carried) - Carried[c] + v
           /\ Carried[c] \in Int
<1>1. Carried' = [Carried EXCEPT ![c] = v]
    BY DEF Carried, MoneyInv, RequestsInv
<1>2. Carried \in [Client -> Int] /\ IsFiniteSet(Client)
    BY SumsAre
<1> HIDE DEF Carried
<1>3. Carried[c] \in Int
    BY <1>2
<1>4. PICK e, f, S, w : e = Carried' /\ f = Carried /\ S = Client /\ w = v
    OBVIOUS
<1>5. Replaced(e, f, c, w) /\ f \in [S -> Int] /\ c \in S /\ w \in Int /\ IsFiniteSet(S)
    BY <1>1, <1>2, <1>4 DEF Replaced
<1>6. IsSumExcept(e, f, c, w)
    BY Zenon, <1>5, SumExcept
<1> QED BY <1>3, <1>4, <1>6 DEF IsSumExcept

(* What of a deposit can be found. *)
Found(a, amount) == IF a \in Reachable THEN amount ELSE 0

(* The balances when one account has got an entry. *)
LEMMA BalancesAre ==
    ASSUME Inv, MoneyInv, UNCHANGED byNumber, NEW a \in DOMAIN heap, NEW amount \in Int,
           newTransaction(a, amount), heap[a].balance + amount \in 0..MaxInt32,
           Wrap(heap[a].balance + amount) = heap[a].balance + amount
    PROVE  /\ SumFunction(Balances)' = SumFunction(Balances) + Found(a, amount)
           /\ DOMAIN heap' = DOMAIN heap /\ BalancesInv'
<1>1. PICK b \in Int : b = heap[a].balance + amount
    BY BankAssumption DEF MoneyInv, BalancesInv
<1>2. PICK e : e = Append(heap[a].entries, amount)
    OBVIOUS
<1>3. heap' = [heap EXCEPT ![a] = [heap[a] EXCEPT !.balance = b, !.entries = e]]
    BY <1>1, <1>2 DEF newTransaction
<1>4. /\ DOMAIN heap' = DOMAIN heap /\ heap'[a].balance = b
      /\ \A k \in DOMAIN heap : k # a => heap'[k] = heap[k]
    <2>1. PICK r : r = [heap[a] EXCEPT !.balance = b, !.entries = e]
        OBVIOUS
    <2>2. r.balance = b
        BY <2>1, HeapHas
    <2> QED BY <1>3, <2>1, <2>2, HeapHas
<1>5. BalancesInv'
    BY <1>1, <1>4 DEF MoneyInv, BalancesInv
<1>6. Reachable' = Reachable
    BY DEF Reachable
<1>7. PICK v \in Int : v = IF a \in Reachable THEN b ELSE 0
    BY <1>1
<1>8. Balances' = [Balances EXCEPT ![a] = v]
    <2>1. Balances' = [k \in DOMAIN heap |-> IF k \in Reachable THEN heap'[k].balance ELSE 0]
        BY <1>4, <1>6 DEF Balances
    <2> QED BY <1>4, <1>7, <2>1 DEF Balances
<1>9. Balances \in [1..Len(heap) -> Int] /\ IsFiniteSet(1..Len(heap)) /\ a \in 1..Len(heap)
    BY SumsAre, HeapHas
<1>10. v = Balances[a] + Found(a, amount) /\ Balances[a] \in Int /\ SumFunction(Balances) \in Int
    <2>1. heap[a].balance \in Int /\ SumFunction(Balances) \in Int
        BY SumsAre, BankAssumption DEF MoneyInv, BalancesInv
    <2>2. Balances[a] = IF a \in Reachable THEN heap[a].balance ELSE 0
        BY DEF Balances
    <2> QED BY <1>1, <1>7, <2>1, <2>2 DEF Found
<1>11. Found(a, amount) \in Int
    BY DEF Found
<1> HIDE DEF Balances, Found
<1>12. PICK g, f, S : g = Balances' /\ f = Balances /\ S = 1..Len(heap)
    OBVIOUS
<1>13. Replaced(g, f, a, v) /\ f \in [S -> Int] /\ a \in S /\ IsFiniteSet(S)
    BY <1>8, <1>9, <1>12 DEF Replaced
<1>14. IsSumExcept(g, f, a, v)
    BY Zenon, <1>7, <1>13, SumExcept
<1> QED BY <1>4, <1>5, <1>10, <1>11, <1>12, <1>14 DEF IsSumExcept

LEMMA WrapIs ==
    ASSUME NEW balance \in 0..MaxInt32, NEW amount \in Positive
    PROVE  /\ ~(Wrap(balance + amount) < 0) =>
                balance + amount \in 0..MaxInt32 /\ Wrap(balance + amount) = balance + amount
           /\ ~(Wrap(balance + -amount) < 0) =>
                balance + -amount \in 0..MaxInt32 /\ Wrap(balance + -amount) = balance + -amount
<1>1. MaxInt32 \in Nat
    BY BankAssumption
<1>2. \A n \in -MaxInt32..MaxInt32 : Wrap(n) = n
    BY <1>1 DEF Wrap
<1>3. \A n \in (MaxInt32 + 1)..(2 * MaxInt32) : Wrap(n) < 0
    BY <1>1 DEF Wrap
<1> QED BY <1>1, <1>2, <1>3 DEF Positive

Deposited(d) ==
    /\ d \in Int /\ SumFunction(Balances)' = SumFunction(Balances) + d
    /\ DOMAIN heap' = DOMAIN heap /\ BalancesInv'

LEMMA NothingDeposited ==
    ASSUME Inv, MoneyInv, UNCHANGED <<heap, byNumber>>
    PROVE  Deposited(0)
<1>1. Balances' = Balances /\ BalancesInv' /\ DOMAIN heap' = DOMAIN heap
    BY DEF Balances, Reachable, BalancesInv, MoneyInv
<1>2. SumFunction(Balances) \in Int
    BY SumsAre
<1> HIDE DEF Balances
<1> QED BY <1>1, <1>2 DEF Deposited

LEMMA RequestsStay ==
    ASSUME RequestsInv, DOMAIN heap' = DOMAIN heap, UNCHANGED request
    PROVE  RequestsInv'
BY DEF RequestsInv, IsRequest

LEMMA RequestsChange ==
    ASSUME RequestsInv, DOMAIN heap' = DOMAIN heap, NEW c \in Client, NEW r,
           request' = [request EXCEPT ![c] = r], IsRequest(r, DOMAIN heap)
    PROVE  RequestsInv'
<1>1. request' = [d \in Client |-> IF d = c THEN r ELSE request[d]]
    BY DEF RequestsInv
<1>2. \A d \in Client : IsRequest(request'[d], DOMAIN heap)
    BY <1>1 DEF RequestsInv
<1> QED BY <1>1, <1>2 DEF RequestsInv

(* A request that moves on keeps what there is if what it carries, what goes *)
(* in and out, what is lost and what is stranded make up for what was        *)
(* deposited.                                                                *)
Carries(r) == IF r.step = "credit" THEN r.amount ELSE 0

MakesUp(d, c, r) ==
    /\ Carries(r) \in Int /\ outside' \in Int /\ lost' \in Int /\ stranded' \in Int
    /\ d + (Carries(r) - Carried[c]) + (lost' - lost) + (stranded' - stranded) = outside' - outside

LEMMA MoneyMoves ==
    ASSUME Inv, MoneyInv, UNCHANGED byNumber, NEW c \in Client, NEW r,
           request' = [request EXCEPT ![c] = r], IsRequest(r, DOMAIN heap),
           NEW d, Deposited(d), MakesUp(d, c, r)
    PROVE  MoneyInv'
<1>0. PICK v \in Int : v = Carries(r)
    BY DEF MakesUp
<1>1. SumFunction(Carried)' = SumFunction(Carried) - Carried[c] + v /\ Carried[c] \in Int
    BY <1>0, CarriedIs DEF Carries
<1>2. RequestsInv'
    BY RequestsChange DEF MoneyInv, Deposited
<1>3. NumbersInv'
    BY DEF MoneyInv, NumbersInv, Deposited
<1>4. PICK b, t \in Int : b = SumFunction(Balances) /\ t = SumFunction(Carried)
    BY SumsAre
<1>5. b + t + lost + stranded = outside /\ lost \in Int /\ outside \in Int /\ stranded \in Int
    BY <1>4 DEF MoneyInv, Conserved
<1>6. SumFunction(Balances)' = b + d /\ d \in Int /\ SumFunction(Carried)' = t - Carried[c] + v
    BY <1>1, <1>4 DEF Deposited
<1>7. PICK k \in Int : k = Carried[c]
    BY <1>1
<1>8. (b + d) + (t - k + v) + lost' + stranded' = outside'
    <2>1. lost' \in Int /\ outside' \in Int /\ stranded' \in Int /\ d \in Int
        BY <1>6 DEF MakesUp
    <2>2. PICK i, l, n, o, u, w \in Int :
            i = lost /\ l = lost' /\ n = outside /\ o = outside' /\ u = stranded /\ w = stranded'
        BY <1>5, <2>1
    <2>3. d + (v - k) + (l - i) + (w - u) = o - n
        BY <1>0, <1>7, <2>2 DEF MakesUp
    <2>4. b + t + i + u = n
        BY <1>5, <2>2
    <2>5. (b + d) + (t - k + v) + l + w = o
        BY <2>1, <2>3, <2>4
    <2> QED BY <2>2, <2>5
<1>9. Conserved'
    BY <1>6, <1>7, <1>8 DEF Conserved
<1> QED BY <1>2, <1>3, <1>9 DEF MoneyInv, Deposited, MakesUp

LEMMA MoneyStays ==
    ASSUME Inv, MoneyInv, UNCHANGED <<heap, ghosts>>, NumbersInv',
           RequestsInv', Carried' = Carried, Balances' = Balances
    PROVE  MoneyInv'
<1>1. BalancesInv' /\ UNCHANGED <<outside, lost, stranded>>
    BY DEF MoneyInv, BalancesInv, ghosts
<1> HIDE DEF Balances, Carried
<1>2. Conserved'
    BY <1>1 DEF MoneyInv, Conserved
<1> QED BY <1>1, <1>2 DEF MoneyInv

LEMMA UntouchedMoney ==
    ASSUME Inv, MoneyInv, UNCHANGED <<heap, byNumber, request, ghosts>>
    PROVE  MoneyInv'
<1>1. NumbersInv' /\ RequestsInv' /\ Carried' = Carried /\ Balances' = Balances
    BY RequestsStay DEF MoneyInv, NumbersInv, Carried, Balances, Reachable
<1> QED BY <1>1, MoneyStays

(* The server died or starts: no balance, no request. *)
LEMMA NoMoney ==
    ASSUME \A k \in DOMAIN heap' : heap'[k].balance = 0, IsFiniteSet(DOMAIN heap'),
           request' = NoRequests, outside' = 0, lost' = 0, stranded' = 0, NumbersInv'
    PROVE  MoneyInv'
<1>1. request' = [c \in Client |-> Idle]
    BY DEF NoRequests
<1>2. Balances' \in [DOMAIN heap' -> {0}] /\ Carried' \in [Client -> {0}] /\ IsFiniteSet(Client)
    BY <1>1, BankAssumption DEF Balances, Carried, Idle
<1>3. RequestsInv'
    BY <1>1 DEF RequestsInv, IsRequest
<1>4. BalancesInv'
    BY BankAssumption DEF BalancesInv
<1>5. PICK b, t, D : b = Balances' /\ t = Carried' /\ D = DOMAIN heap'
    OBVIOUS
<1>6. SumFunction(b) = 0 /\ SumFunction(t) = 0
    BY <1>2, <1>5, SumOfZeros
<1>7. Conserved'
    BY <1>5, <1>6 DEF Conserved
<1> QED BY <1>3, <1>4, <1>7 DEF MoneyInv

LEMMA DieMoney ==
    ASSUME Die
    PROVE  MoneyInv'
<1>1. DOMAIN heap' = {} /\ IsFiniteSet({}) /\ DOMAIN byNumber' = {}
    BY FS_EmptySet DEF Die, Empty
<1>2. NumbersInv' /\ IsFiniteSet(DOMAIN heap')
    BY <1>1 DEF NumbersInv
<1>3. request' = NoRequests /\ outside' = 0 /\ lost' = 0 /\ stranded' = 0
    BY DEF Die
<1> QED BY <1>1, <1>2, <1>3, NoMoney

LEMMA AccountIs ==
    ASSUME MoneyInv, NEW n
    PROVE  Account(n) \in AccountOrNil(DOMAIN heap)
BY DEF MoneyInv, NumbersInv, Account, AccountOrNil

(* What the accounts that can be found hold when a new number is given out:  *)
(* less by what the account held that had the number.                        *)
LEMMA NumberGivenOut ==
    ASSUME Inv, MoneyInv, NEW n \in Nat, n = Len(heap), NEW number, NEW b,
           NEW gone, gone = IF number \in DOMAIN byNumber THEN heap[byNumber[number]].balance ELSE 0,
           b = [k \in 1..n |-> IF \E m \in DOMAIN byNumber : m # number /\ byNumber[m] = k
                               THEN heap[k].balance ELSE 0]
    PROVE  /\ b \in [1..n -> Int] /\ gone \in Int
           /\ SumFunction(b) \in Int /\ SumFunction(b) = SumFunction(Balances) - gone
<1>1. \A k \in 1..n : heap[k].balance \in Int
    BY HeapHas, BankAssumption DEF MoneyInv, BalancesInv
<1>2. Balances \in [1..n -> Int] /\ IsFiniteSet(1..n) /\ SumFunction(Balances) \in Int
    BY SumsAre
<1>3. b \in [1..n -> Int]
    BY <1>1
<1>4. CASE number \notin DOMAIN byNumber
    <2>1. b = Balances
        BY <1>4, HeapHas DEF Balances, Reachable
    <2> QED BY <1>2, <1>3, <1>4, <2>1
<1>5. CASE number \in DOMAIN byNumber
    <2>1. PICK a \in 1..n : a = byNumber[number]
        BY <1>5, HeapHas DEF MoneyInv, NumbersInv
    <2>2. /\ a \in Reachable
          /\ ~\E m \in DOMAIN byNumber : m # number /\ byNumber[m] = a
          /\ \A k : k # a => (k \in Reachable <=> \E m \in DOMAIN byNumber : m # number /\ byNumber[m] = k)
        BY <1>5, <2>1 DEF Reachable, MoneyInv, NumbersInv
    <2>3. b = [Balances EXCEPT ![a] = 0] /\ Balances[a] = gone
        BY <1>5, <2>1, <2>2, HeapHas DEF Balances
    <2>4. PICK e, f, S, v : e = b /\ f = Balances /\ S = 1..n /\ v = 0
        OBVIOUS
    <2> HIDE DEF Balances
    <2>5. Replaced(e, f, a, v) /\ f \in [S -> Int] /\ a \in S /\ IsFiniteSet(S) /\ v \in Int
        BY <1>2, <2>1, <2>3, <2>4 DEF Replaced
    <2>6. IsSumExcept(e, f, a, v)
        BY Zenon, <2>5, SumExcept
    <2>7. gone \in Int
        BY <1>2, <2>3
    <2>8. SumFunction(b) = SumFunction(Balances) - gone
        <3>1. PICK s, g \in Int : s = SumFunction(Balances) /\ g = gone
            BY <1>2, <2>7
        <3>2. SumFunction(b) = SumFunction(Balances) - Balances[a] + 0
            BY <2>4, <2>6 DEF IsSumExcept
        <3>3. s - g + 0 = s - g
            BY <3>1
        <3> QED BY <2>3, <3>1, <3>2, <3>3
    <2> QED BY <1>2, <1>3, <2>7, <2>8
<1> QED BY <1>4, <1>5

LEMMA OpenAccountMoney ==
    ASSUME Inv, MoneyInv, OpenAccount
    PROVE  MoneyInv'
<1>1. PICK customer \in Customer, initial \in Amount \cup {0} : openAccount(customer, initial)
    BY DEF OpenAccount
<1>2. PICK n \in Nat : n = Len(heap)
    BY HeapHas
<1>3. initial \in 0..MaxInt32 /\ initial \in Int
    BY BankAssumption
<1>4. PICK r : r = [entries |-> <<initial>>, balance |-> initial, restored |-> FALSE]
    OBVIOUS
<1>5. heap' = Append(heap, r) /\ r.balance = initial
    BY <1>1, <1>4 DEF openAccount
<1>6. /\ DOMAIN heap = 1..n /\ DOMAIN heap' = 1..(n + 1) /\ heap'[n + 1] = r
      /\ \A k \in 1..n : heap'[k] = heap[k]
    BY <1>2, <1>5, HeapAppended
<1>7. BalancesInv'
    BY <1>3, <1>5, <1>6, <1>2 DEF MoneyInv, BalancesInv
<1>8. PICK number : number = last + 1
    OBVIOUS
<1>9. /\ DOMAIN byNumber' = DOMAIN byNumber \cup {number} /\ byNumber'[number] = n + 1
      /\ \A m \in DOMAIN byNumber : m # number => byNumber'[m] = byNumber[m]
    <2>1. byNumber' = [m \in DOMAIN byNumber \cup {number} |->
                         IF m = number THEN n + 1 ELSE byNumber[m]]
        BY <1>1, <1>2, <1>8 DEF openAccount
    <2> QED BY <2>1
<1>10. NumbersInv'
    <2>1. n + 1 \in 1..(n + 1) /\ 1..n \subseteq 1..(n + 1) /\ n + 1 \notin 1..n
        BY <1>2
    <2> QED BY <1>6, <1>9, <2>1 DEF MoneyInv, NumbersInv
<1>11. PICK gone : gone = IF number \in DOMAIN byNumber THEN heap[byNumber[number]].balance ELSE 0
    OBVIOUS
<1>12. PICK b : b = [k \in 1..n |-> IF \E m \in DOMAIN byNumber : m # number /\ byNumber[m] = k
                                   THEN heap[k].balance ELSE 0]
    OBVIOUS
<1>13. /\ b \in [1..n -> Int] /\ gone \in Int
       /\ SumFunction(b) \in Int /\ SumFunction(b) = SumFunction(Balances) - gone
    BY <1>2, <1>11, <1>12, NumberGivenOut
<1>14. PICK f : f = Balances'
    OBVIOUS
<1>15. f = Append(b, initial)
    <2>1. n + 1 \in 1..(n + 1) /\ n + 1 \notin 1..n /\ \A k \in 1..n : k \in 1..(n + 1) /\ k # n + 1
        BY <1>2
    <2>2. f = [k \in 1..(n + 1) |-> f[k]] /\ f[n + 1] = initial
        <3>1. n + 1 \in Reachable'
            BY <1>9 DEF Reachable
        <3> QED BY <1>5, <1>6, <1>14, <2>1, <3>1 DEF Balances
    <2>3. ASSUME NEW k \in 1..n PROVE f[k] = b[k]
        <3>1. k \in Reachable' <=> \E m \in DOMAIN byNumber : m # number /\ byNumber[m] = k
            BY <1>9, <2>1 DEF Reachable
        <3>2. f[k] = IF k \in Reachable' THEN heap'[k].balance ELSE 0
            BY <1>6, <1>14, <2>1 DEF Balances
        <3> QED BY <1>6, <1>12, <3>1, <3>2
    <2>4. Lengthened(f, b, n, initial)
        BY <2>2, <2>3 DEF Lengthened
    <2> QED BY Zenon, <1>2, <1>3, <1>13, <2>4, AppendIs
<1>16. SumFunction(Append(b, initial)) = SumFunction(b) + initial
    <2>1. b \in Seq(Int)
        BY <1>2, <1>13, FunctionIsSeq
    <2> QED BY <1>3, <2>1, SumAppend
<1>17. Carried' = Carried /\ request' = request
    BY DEF OpenAccount, Carried
<1>18. PICK s, t \in Int : s = SumFunction(Balances) /\ t = SumFunction(Carried)
    BY SumsAre
<1>19. SumFunction(Balances)' = s - gone + initial /\ SumFunction(Carried)' = t
    BY <1>13, <1>14, <1>15, <1>16, <1>17, <1>18
<1>20. outside' = outside + initial /\ lost' = lost /\ stranded' = stranded + gone
    BY <1>1, <1>8, <1>11 DEF OpenAccount, openAccount
<1>21. outside \in Int /\ lost \in Int /\ stranded \in Int /\ s + t + lost + stranded = outside
    BY <1>18 DEF MoneyInv, Conserved
<1>22. (s - gone + initial) + t + lost + (stranded + gone) = outside + initial
    <2>1. PICK i, l, u, o, g \in Int :
            i = initial /\ l = lost /\ u = stranded /\ o = outside /\ g = gone
        BY <1>3, <1>13, <1>21
    <2>2. s + t + l + u = o
        BY <1>21, <2>1
    <2>3. (s - g + i) + t + l + (u + g) = o + i
        BY <1>18, <2>1, <2>2
    <2> QED BY <2>1, <2>3
<1>23. Conserved' /\ outside' \in Int /\ lost' \in Int /\ stranded' \in Int
    <2>1. outside' \in Int /\ lost' \in Int /\ stranded' \in Int
        BY <1>3, <1>13, <1>20, <1>21
    <2> QED BY <1>19, <1>20, <1>22, <2>1 DEF Conserved
<1>24. RequestsInv'
    <2>1. DOMAIN heap \subseteq DOMAIN heap'
        BY <1>2, <1>6
    <2>2. \A r1 : IsRequest(r1, DOMAIN heap) => IsRequest(r1, DOMAIN heap')
        BY <2>1 DEF IsRequest, AccountOrNil
    <2> QED BY <1>17, <2>2 DEF MoneyInv, RequestsInv
<1> QED BY <1>7, <1>10, <1>23, <1>24 DEF MoneyInv

LEMMA CloseAccountMoney ==
    ASSUME Inv, MoneyInv, CloseAccount
    PROVE  MoneyInv'
<1>1. CASE Die
    BY <1>1, DieMoney
<1>2. CASE ~Die
    <2>1. PICK customer, number : closeAccount(customer, number) /\ number \in DOMAIN byNumber
        BY <1>2 DEF CloseAccount, Account
    <2>2. UNCHANGED <<heap, request, ghosts>>
        BY <1>2 DEF CloseAccount
    <2>3. /\ heap[byNumber[number]].balance = 0
          /\ byNumber' = [n \in DOMAIN byNumber \ {number} |-> byNumber[n]]
        BY <2>1 DEF closeAccount
    <2>4. NumbersInv'
        BY <2>2, <2>3 DEF MoneyInv, NumbersInv
    <2>5. RequestsInv' /\ Carried' = Carried
        BY <2>2, RequestsStay DEF MoneyInv, Carried
    <2>6. Balances' = Balances
        <3>1. \A k : k # byNumber[number] => (k \in Reachable' <=> k \in Reachable)
            BY <2>1, <2>3 DEF Reachable
        <3>2. \A k \in DOMAIN heap : (IF k \in Reachable' THEN heap[k].balance ELSE 0)
                                      = IF k \in Reachable THEN heap[k].balance ELSE 0
            BY <2>3, <3>1
        <3> QED BY <2>2, <3>2 DEF Balances
    <2> QED BY <2>2, <2>4, <2>5, <2>6, MoneyStays
<1> QED BY <1>1, <1>2

LEMMA RequestIs ==
    ASSUME MoneyInv, NEW c \in Client
    PROVE  IsRequest(request[c], DOMAIN heap)
BY DEF MoneyInv, RequestsInv

(* A request that is not at its credit carries nothing. *)
LEMMA LookupMoney ==
    ASSUME Inv, MoneyInv, NEW c \in Client, LookupSource(c) \/ LookupDest(c)
    PROVE  MoneyInv'
<1>1. UNCHANGED <<heap, byNumber, ghosts>>
    BY DEF LookupSource, LookupDest, tables
<1>2. request[c].step # "credit"
    BY DEF LookupSource, LookupDest, Idle
<1>3. PICK r : request' = [request EXCEPT ![c] = r] /\ IsRequest(r, DOMAIN heap)
               /\ r.step # "credit"
    <2>1. CASE LookupSource(c)
        <3>1. PICK customer \in Customer, q \in Request :
                request' = [request EXCEPT ![c] =
                              [step |-> "lookup", customer |-> customer, op |-> q.op,
                               dest |-> q.dest, amount |-> q.amount, from |-> Account(q.src)]]
            BY <2>1 DEF LookupSource
        <3>2. q.amount \in Positive
            BY BankAssumption DEF Request, Positive
        <3>3. PICK from : from = Account(q.src) /\ from \in AccountOrNil(DOMAIN heap)
            BY AccountIs
        <3>4. PICK r : r = [step |-> "lookup", customer |-> customer, op |-> q.op,
                            dest |-> q.dest, amount |-> q.amount, from |-> from]
            OBVIOUS
        <3>5. IsRequest(r, DOMAIN heap) /\ r.step = "lookup"
            BY <3>2, <3>3, <3>4 DEF IsRequest
        <3> QED BY <3>1, <3>3, <3>4, <3>5
    <2>2. CASE LookupDest(c)
        <3>1. PICK q : q = request[c]
            OBVIOUS
        <3>2. q.step = "lookup" /\ IsRequest(q, DOMAIN heap)
            BY <2>2, <3>1, RequestIs DEF LookupDest
        <3>3. q.amount \in Positive /\ q.from \in AccountOrNil(DOMAIN heap)
            BY <3>2 DEF IsRequest, Idle
        <3>4. PICK to : to = Account(q.dest) /\ to \in AccountOrNil(DOMAIN heap)
            BY AccountIs
        <3>5. PICK next : next = [step |-> "debit", op |-> q.op, amount |-> q.amount,
                                  from |-> q.from, to |-> to]
            OBVIOUS
        <3>6. IsRequest(next, DOMAIN heap) /\ next.step = "debit"
            BY <3>3, <3>4, <3>5 DEF IsRequest
        <3>7. IsRequest(Idle, DOMAIN heap) /\ Idle.step = "idle"
            BY DEF IsRequest, Idle
        <3>8. request' = [request EXCEPT ![c] = Idle] \/ request' = [request EXCEPT ![c] = next]
            BY <2>2, <3>1, <3>4, <3>5 DEF LookupDest
        <3> QED BY <3>6, <3>7, <3>8
    <2> QED BY <2>1, <2>2
<1>4. RequestsInv'
    BY <1>1, <1>3, RequestsChange DEF MoneyInv
<1>5. Carried' = Carried
    BY <1>2, <1>3 DEF Carried, MoneyInv, RequestsInv
<1>6. NumbersInv' /\ Balances' = Balances
    BY <1>1 DEF MoneyInv, NumbersInv, Balances, Reachable
<1> QED BY <1>1, <1>4, <1>5, <1>6, MoneyStays

(* What a request was debited it carries; what is refused changes nothing. *)
LEMMA DebitMoney ==
    ASSUME Inv, MoneyInv, NEW c \in Client, Debit(c)
    PROVE  MoneyInv'
<1>1. CASE Die
    BY <1>1, DieMoney
<1> SUFFICES ASSUME ~Die PROVE MoneyInv'
    BY <1>1
<1>2. PICK r : r = request[c]
    OBVIOUS
<1>3. /\ r.step = "debit"
      /\ r = [step |-> r.step, op |-> r.op, amount |-> r.amount, from |-> r.from, to |-> r.to]
      /\ r.amount \in Positive
      /\ r.from \in AccountOrNil(DOMAIN heap) /\ r.to \in AccountOrNil(DOMAIN heap)
    <2>1. r.step = "debit" /\ IsRequest(r, DOMAIN heap)
        BY <1>2, RequestIs DEF Debit
    <2> QED BY <2>1 DEF IsRequest, Idle
<1>4. /\ \/ /\ r.from = Nil
            /\ outside' = outside + r.amount
            /\ request' = [request EXCEPT ![c].step = "credit"]
            /\ UNCHANGED <<heap, stranded>>
         \/ /\ r.from # Nil /\ Refused(r.from, -r.amount)
            /\ request' = [request EXCEPT ![c] = Idle]
            /\ UNCHANGED <<heap, outside, stranded>>
         \/ /\ r.from # Nil /\ ~Refused(r.from, -r.amount)
            /\ newTransaction(r.from, -r.amount)
            /\ request' = [request EXCEPT ![c].step = "credit"]
            /\ UNCHANGED outside
      /\ UNCHANGED <<byNumber, lost>>
    BY <1>2 DEF Debit, tables
<1>5. PICK next : next = [r EXCEPT !.step = "credit"]
    OBVIOUS
<1>6. IsRequest(next, DOMAIN heap) /\ next.step = "credit" /\ next.amount = r.amount
    BY <1>3, <1>5 DEF IsRequest
<1>7. IsRequest(Idle, DOMAIN heap) /\ Idle.step = "idle"
    BY DEF IsRequest, Idle
<1>8. r.amount \in Int /\ -r.amount \in Int /\ outside \in Int /\ lost \in Int /\ stranded \in Int
    BY <1>3, BankAssumption DEF Positive, MoneyInv
<1>9. Carried[c] = 0
    BY <1>2, <1>3 DEF Carried
<1>10. CASE r.from = Nil
    <2>1. /\ outside' = outside + r.amount /\ request' = [request EXCEPT ![c] = next]
          /\ UNCHANGED <<heap, stranded>>
        BY <1>2, <1>4, <1>5, <1>10
    <2>2. Deposited(0)
        BY <1>4, <2>1, NothingDeposited
    <2>3. MakesUp(0, c, next)
        BY <1>4, <1>6, <1>8, <1>9, <2>1 DEF MakesUp, Carries
    <2> QED BY <1>4, <1>6, <2>1, <2>2, <2>3, MoneyMoves
<1>11. CASE r.from # Nil /\ Refused(r.from, -r.amount)
    <2>1. UNCHANGED <<outside, stranded, heap>> /\ request' = [request EXCEPT ![c] = Idle]
        BY <1>4, <1>11
    <2>2. Deposited(0)
        BY <1>4, <2>1, NothingDeposited
    <2>3. MakesUp(0, c, Idle)
        BY <1>4, <1>7, <1>8, <1>9, <2>1 DEF MakesUp, Carries
    <2> QED BY <1>4, <1>7, <2>1, <2>2, <2>3, MoneyMoves
<1>12. CASE r.from # Nil /\ ~Refused(r.from, -r.amount)
    <2>1. /\ newTransaction(r.from, -r.amount) /\ request' = [request EXCEPT ![c] = next]
          /\ UNCHANGED outside
        BY <1>2, <1>4, <1>5, <1>12
    <2>2. PICK a \in DOMAIN heap : a = r.from
        BY <1>3, <1>12 DEF AccountOrNil
    <2>3. heap[a].balance \in 0..MaxInt32
        BY DEF MoneyInv, BalancesInv
    <2>4. /\ heap[a].balance + -r.amount \in 0..MaxInt32
          /\ Wrap(heap[a].balance + -r.amount) = heap[a].balance + -r.amount
        BY <1>3, <1>12, <2>2, <2>3, WrapIs DEF Refused
    <2>5. PICK d \in Int : d = Found(a, -r.amount)
        BY <1>8 DEF Found
    <2>6. stranded' = stranded + (-r.amount - d)
        BY <1>8, <2>1, <2>2, <2>5 DEF newTransaction, Found
    <2>7. Deposited(d)
        BY <1>4, <1>8, <2>1, <2>2, <2>4, <2>5, BalancesAre DEF Deposited
    <2>8. MakesUp(d, c, next)
        BY <1>4, <1>6, <1>8, <1>9, <2>1, <2>5, <2>6 DEF MakesUp, Carries
    <2> QED BY <1>4, <1>6, <2>1, <2>7, <2>8, MoneyMoves
<1> QED BY <1>10, <1>11, <1>12

(* What a request carries arrives, goes out, or is lost. *)
LEMMA CreditMoney ==
    ASSUME Inv, MoneyInv, NEW c \in Client, Credit(c)
    PROVE  MoneyInv'
<1>1. CASE Die
    BY <1>1, DieMoney
<1> SUFFICES ASSUME ~Die PROVE MoneyInv'
    BY <1>1
<1>2. PICK r : r = request[c]
    OBVIOUS
<1>3. r.step = "credit" /\ r.amount \in Positive /\ r.to \in AccountOrNil(DOMAIN heap)
    <2>1. r.step = "credit" /\ IsRequest(r, DOMAIN heap)
        BY <1>2, RequestIs DEF Credit
    <2> QED BY <2>1 DEF IsRequest, Idle
<1>4. /\ \/ /\ r.to = Nil
            /\ outside' = outside - r.amount
            /\ UNCHANGED <<heap, lost, stranded>>
         \/ /\ r.to # Nil /\ Refused(r.to, r.amount)
            /\ outside' = outside - (IF r.from = Nil THEN r.amount ELSE 0)
            /\ lost' = lost + (IF r.from = Nil THEN 0 ELSE r.amount)
            /\ UNCHANGED <<heap, stranded>>
         \/ /\ r.to # Nil /\ ~Refused(r.to, r.amount)
            /\ newTransaction(r.to, r.amount)
            /\ UNCHANGED <<outside, lost>>
      /\ request' = [request EXCEPT ![c] = Idle]
      /\ UNCHANGED byNumber
    BY <1>2 DEF Credit, tables
<1>5. IsRequest(Idle, DOMAIN heap) /\ Idle.step = "idle"
    BY DEF IsRequest, Idle
<1>6. r.amount \in Int /\ outside \in Int /\ lost \in Int /\ stranded \in Int
    BY <1>3, BankAssumption DEF Positive, MoneyInv
<1>7. Carried[c] = r.amount
    BY <1>2, <1>3 DEF Carried
<1>8. CASE r.to = Nil \/ Refused(r.to, r.amount)
    <2>1. UNCHANGED <<heap, stranded>> /\ outside' \in Int /\ lost' \in Int
          /\ 0 + (0 - r.amount) + (lost' - lost) = outside' - outside
        BY <1>4, <1>6, <1>8
    <2>2. Deposited(0)
        BY <1>4, <2>1, NothingDeposited
    <2>3. MakesUp(0, c, Idle)
        BY <1>5, <1>6, <1>7, <2>1 DEF MakesUp, Carries
    <2> QED BY <1>4, <1>5, <2>2, <2>3, MoneyMoves
<1>9. CASE r.to # Nil /\ ~Refused(r.to, r.amount)
    <2>1. newTransaction(r.to, r.amount) /\ UNCHANGED <<outside, lost>>
        BY <1>4, <1>9
    <2>2. PICK a \in DOMAIN heap : a = r.to
        BY <1>3, <1>9 DEF AccountOrNil
    <2>3. heap[a].balance \in 0..MaxInt32
        BY DEF MoneyInv, BalancesInv
    <2>4. /\ heap[a].balance + r.amount \in 0..MaxInt32
          /\ Wrap(heap[a].balance + r.amount) = heap[a].balance + r.amount
        BY <1>3, <1>9, <2>2, <2>3, WrapIs DEF Refused
    <2>5. PICK d \in Int : d = Found(a, r.amount)
        BY <1>6 DEF Found
    <2>6. stranded' = stranded + (r.amount - d)
        BY <1>6, <2>1, <2>2, <2>5 DEF newTransaction, Found
    <2>7. Deposited(d)
        BY <1>4, <1>6, <2>1, <2>2, <2>4, <2>5, BalancesAre DEF Deposited
    <2>8. MakesUp(d, c, Idle)
        BY <1>5, <1>6, <1>7, <2>1, <2>5, <2>6 DEF MakesUp, Carries
    <2> QED BY <1>4, <1>5, <2>7, <2>8, MoneyMoves
<1> QED BY <1>8, <1>9

LEMMA SetToSeqCovers ==
    ASSUME NEW S, IsFiniteSet(S)
    PROVE  \A x \in S : \E i \in 1..Cardinality(S) : SetToSeq(S)[i] = x
<1>1. Cardinality(S) \in Nat /\ ExistsBijection(1..Cardinality(S), S)
    BY FS_CardinalityType
<1>2. \E f \in [1..Cardinality(S) -> S] : IsInjective(f)
    BY <1>1 DEF ExistsBijection, Bijection, Injection
<1>3. PICK q, D : q = SetToSeq(S) /\ D = 1..Cardinality(S)
    OBVIOUS
<1>4. q \in [D -> S] /\ IsInjective(q)
    BY Zenon, <1>2, <1>3 DEF SetToSeq
<1>5. q \in Injection(D, S)
    BY <1>4 DEF Injection
<1>6. Cardinality(D) = Cardinality(S)
    <2>1. PICK n \in Nat : n = Cardinality(S)
        BY <1>1
    <2>2. 1 \in Int /\ n \in Int /\ (IF 1 > n THEN 0 ELSE n - 1 + 1) = n
        OBVIOUS
    <2>3. Cardinality(1..n) = IF 1 > n THEN 0 ELSE n - 1 + 1
        BY <2>2, FS_Interval
    <2> QED BY <1>3, <2>1, <2>2, <2>3
<1>7. q \in Surjection(D, S)
    BY <1>5, <1>6, FS_Injection
<1> QED BY <1>3, <1>7 DEF Surjection

LEMMA LoadMoney ==
    ASSUME Inv, Load
    PROVE  MoneyInv'
<1>1. PICK saved : saved = IF file.is = "saved" THEN file ELSE NoFile
    OBVIOUS
<1>2. IsFiniteSet(DOMAIN saved.accounts)
    <2>1. DOMAIN Empty = {} /\ IsFiniteSet({})
        BY FS_EmptySet DEF Empty
    <2> QED BY <1>1, <2>1 DEF Inv, FileInv, IsSaved, NoFile
<1>3. PICK numbers, N : N = DOMAIN saved.accounts /\ numbers = SetToSeq(N)
    OBVIOUS
<1>4. /\ heap' = [k \in DOMAIN numbers |->
                    [entries |-> saved.accounts[numbers[k]], balance |-> 0, restored |-> TRUE]]
      /\ byNumber' = [n \in N |-> SelectInSeq(numbers, LAMBDA m : m = n)]
      /\ request' = NoRequests /\ outside' = 0 /\ lost' = 0 /\ stranded' = 0
    BY <1>1, <1>3 DEF Load, NoFile
<1>5. PICK m \in Nat : m = Cardinality(N)
    BY <1>2, <1>3, SetToSeqOf
<1>6. numbers \in [1..m -> N] /\ numbers \in Seq(N) /\ Len(numbers) = m
    BY <1>2, <1>3, <1>5, SetToSeqOf, FunctionIsSeq
<1>7. \A k \in DOMAIN heap' : heap'[k].balance = 0
    BY <1>4
<1>8. IsFiniteSet(DOMAIN heap') /\ DOMAIN heap' = 1..m
    <2>1. 1 \in Int /\ m \in Int /\ DOMAIN heap' = 1..m
        BY <1>4, <1>6
    <2> QED BY <2>1, FS_Interval
<1>9. ASSUME NEW n \in N
      PROVE  byNumber'[n] \in DOMAIN heap' /\ numbers[byNumber'[n]] = n
    <2>1. PICK place : place = SelectInSeq(numbers, LAMBDA k : k = n)
        OBVIOUS
    <2>2. PICK I : I = {i \in 1..Len(numbers) : numbers[i] = n}
        OBVIOUS
    <2>3. I # {} /\ I \in SUBSET Nat
        BY <1>2, <1>3, <1>5, <1>6, <2>2, SetToSeqCovers
    <2>4. Min(I) \in I
        BY <2>3, MinOfNats
    <2>5. place = Min(I)
        BY <2>1, <2>2, <2>3 DEF SelectInSeq
    <2> QED BY <1>4, <1>6, <1>8, <2>1, <2>2, <2>4, <2>5
<1>10. NumbersInv'
    <2>1. DOMAIN byNumber' = N
        BY <1>4
    <2> QED BY <1>9, <2>1 DEF NumbersInv
<1> QED BY <1>4, <1>7, <1>8, <1>10, NoMoney

LEMMA NextMoney ==
    ASSUME Inv, MoneyInv, [Next]_vars
    PROVE  MoneyInv'
<1>1. CASE OpenAccount
    BY <1>1, OpenAccountMoney
<1>2. CASE CloseAccount
    BY <1>2, CloseAccountMoney
<1>3. CASE GetAccounts
    BY <1>3, DieMoney DEF GetAccounts
<1>4. ASSUME NEW c \in Client, LookupSource(c) \/ LookupDest(c)
      PROVE  MoneyInv'
    BY <1>4, LookupMoney
<1>5. ASSUME NEW c \in Client, Debit(c)
      PROVE  MoneyInv'
    BY <1>5, DebitMoney
<1>6. ASSUME NEW c \in Client, Credit(c)
      PROVE  MoneyInv'
    BY <1>6, CreditMoney
<1>7. CASE Die
    BY <1>7, DieMoney
<1>8. CASE Load
    BY <1>8, LoadMoney
<1>9. CASE UNCHANGED <<heap, byNumber, request, ghosts>>
    BY <1>9, UntouchedMoney
<1>10. StartSave \/ Signal \/ ServeReturns \/ UNCHANGED vars =>
         UNCHANGED <<heap, byNumber, request, ghosts>>
    BY DEF StartSave, Signal, ServeReturns, vars, tables
<1>11. ASSUME NEW s \in DOMAIN saver,
              CopyList(s) \/ CopyAccount(s) \/ Marshal(s) \/ Truncate(s) \/ Write(s)
       PROVE  Die \/ UNCHANGED <<heap, byNumber, request, ghosts>>
    BY <1>11 DEF CopyList, CopyAccount, Marshal, Truncate, Write, tables
<1>12. Kill => Die
    BY DEF Kill
<1> QED BY <1>1, <1>2, <1>3, <1>4, <1>5, <1>6, <1>7, <1>8, <1>9, <1>10, <1>11, <1>12 DEF Next

LEMMA InitMoney ==
    ASSUME Init
    PROVE  MoneyInv
<1>1. DOMAIN heap = {} /\ DOMAIN byNumber = {} /\ request = [c \in Client |-> Idle]
      /\ outside = 0 /\ lost = 0 /\ stranded = 0
    BY DEF Init, Empty, NoRequests
<1>2. RequestsInv /\ BalancesInv /\ NumbersInv
    BY <1>1 DEF RequestsInv, IsRequest, BalancesInv, NumbersInv
<1>3. DOMAIN Balances = {} /\ Carried \in [Client -> {0}] /\ IsFiniteSet(Client)
    BY <1>1, BankAssumption DEF Balances, Carried, Idle
<1> HIDE DEF Balances, Carried
<1>4. SumFunction(Balances) = 0 /\ SumFunction(Carried) = 0
    BY <1>3, SumEmpty, SumOfZeros
<1>5. Conserved
    BY <1>1, <1>4 DEF Conserved
<1> QED BY <1>1, <1>2, <1>5 DEF MoneyInv

(* Since the server last started, whatever requests and saves interleave, the *)
(* money in accounts that can be found and in transfers is what came in from *)
(* outside, less exactly what refused credits lost and what accounts hold    *)
(* that were closed under a request or whose number was given out again.     *)
THEOREM MoneyConserved == Spec => []Conserved
<1>1. Init => Inv /\ MoneyInv
    BY InitInv, InitMoney
<1>2. Inv /\ MoneyInv /\ [Next]_vars => (Inv /\ MoneyInv)'
    BY NextInv, NextMoney
<1>3. MoneyInv => Conserved
    BY DEF MoneyInv
<1> QED BY <1>1, <1>2, <1>3, PTL DEF Spec

---------------------------------------------------------------------------
(* The accounts implement the ledger *)

LedgerNext == Accounts!Next \/ UNCHANGED <<Entries, Closed>>

LEMMA TotalIs ==
    ASSUME NEW account
    PROVE  Accounts!Total(account) = SumFunction(account)
BY DEF Accounts!Total, Accounts!SumFunction, Accounts!SumFunctionOnSet,
       Accounts!FoldFunctionOnSet, Accounts!MapThenFoldSet,
       SumFunction, SumFunctionOnSet, FoldFunctionOnSet, MapThenFoldSet

LEMMA EntriesAre ==
    ASSUME Inv, LedgerInv
    PROVE  \E n, r, d \in Nat :
             /\ n = Len(heap) /\ r = Restored /\ n = r + d
             /\ DOMAIN heap = 1..n /\ New = 1..d
             /\ Entries \in [1..d -> Seq(Int)] /\ Entries \in Seq(Seq(Int))
             /\ \A k \in 1..d : r + k \in DOMAIN heap /\ Entries[k] = heap[r + k].entries
<1>1. PICK n, r \in Nat : n = Len(heap) /\ r = Restored /\ r <= n
    BY HeapHas DEF LedgerInv
<1>2. PICK d \in Nat : n = r + d
    <2>1. n - r \in Nat /\ n = r + (n - r)
        BY <1>1
    <2> QED BY <2>1
<1>3. DOMAIN heap = 1..n /\ New = 1..d
    <2>1. n - r = d
        BY <1>2
    <2> QED BY <1>1, <2>1, HeapHas DEF New
<1>4. \A k \in 1..d : r + k \in DOMAIN heap /\ r + k > r
    BY <1>2, <1>3
<1>5. \A k \in 1..d : heap[r + k].entries \in Seq(Int)
    BY <1>1, <1>4 DEF LedgerInv
<1>6. Entries = [k \in 1..d |-> heap[r + k].entries]
    BY <1>1, <1>3 DEF Entries
<1>7. Entries \in [1..d -> Seq(Int)] /\ \A k \in 1..d : Entries[k] = heap[r + k].entries
    BY <1>5, <1>6
<1>8. Entries \in Seq(Seq(Int))
    BY <1>7, FunctionIsSeq
<1> QED BY <1>1, <1>2, <1>3, <1>4, <1>7, <1>8

LEMMA LedgerStays ==
    ASSUME LedgerInv, UNCHANGED <<heap, byNumber, last>>
    PROVE  LedgerInv' /\ LedgerNext
<1>1. Restored' = Restored
    BY DEF Restored
<1>2. New' = New
    BY <1>1 DEF New
<1>3. Entries' = Entries /\ Closed' = Closed
    BY <1>1, <1>2 DEF Entries, Closed
<1>4. LedgerInv'
    BY <1>1 DEF LedgerInv
<1> QED BY <1>3, <1>4 DEF LedgerNext

(* No account is left, or only restored ones. *)
LEMMA NoNewAccount ==
    ASSUME NEW m \in Nat, DOMAIN heap' = 1..m, Len(heap') = m,
           \A k \in 1..m : heap'[k].restored = TRUE, NumbersInv'
    PROVE  LedgerInv' /\ LedgerNext
<1>1. {k \in DOMAIN heap' : heap'[k].restored} = 1..m
    OBVIOUS
<1>2. Cardinality(1..m) = m
    <2>1. 1 \in Int /\ m \in Int /\ (IF 1 > m THEN 0 ELSE m - 1 + 1) = m
        OBVIOUS
    <2> QED BY <2>1, FS_Interval
<1>3. Restored' = m
    BY <1>1, <1>2 DEF Restored
<1>4. New' = {}
    BY <1>3 DEF New
<1>5. Entries' = <<>> /\ Closed' = {}
    BY <1>4 DEF Entries, Closed
<1>6. LedgerInv'
    BY <1>3 DEF LedgerInv, NumbersInv
<1> QED BY <1>5, <1>6 DEF LedgerNext, Accounts!Next, Accounts!Restart

LEMMA DieLedger ==
    ASSUME Die
    PROVE  LedgerInv' /\ LedgerNext
<1>1. heap' = <<>> /\ NumbersInv'
    BY DieMoney DEF Die, MoneyInv
<1>2. PICK m \in Nat : m = 0
    OBVIOUS
<1>3. DOMAIN heap' = 1..m /\ Len(heap') = m /\ \A k \in 1..m : heap'[k].restored = TRUE
    BY <1>1, <1>2
<1> QED BY <1>1, <1>3, NoNewAccount

LEMMA LoadLedger ==
    ASSUME Inv, Load
    PROVE  LedgerInv' /\ LedgerNext
<1>1. NumbersInv'
    BY LoadMoney DEF MoneyInv
<1>2. PICK saved : saved = IF file.is = "saved" THEN file ELSE NoFile
    OBVIOUS
<1>3. IsFiniteSet(DOMAIN saved.accounts)
    <2>1. DOMAIN Empty = {} /\ IsFiniteSet({})
        BY FS_EmptySet DEF Empty
    <2> QED BY <1>2, <2>1 DEF Inv, FileInv, IsSaved, NoFile
<1>4. PICK numbers, N : N = DOMAIN saved.accounts /\ numbers = SetToSeq(N)
    OBVIOUS
<1>5. heap' = [k \in DOMAIN numbers |->
                 [entries |-> saved.accounts[numbers[k]], balance |-> 0, restored |-> TRUE]]
    BY <1>2, <1>4 DEF Load, NoFile
<1>6. PICK m \in Nat : m = Cardinality(N)
    BY <1>3, <1>4, SetToSeqOf
<1>7. DOMAIN numbers = 1..m
    BY <1>3, <1>4, <1>6, SetToSeqOf
<1>8. DOMAIN heap' = 1..m /\ \A k \in 1..m : heap'[k].restored = TRUE
    BY <1>5, <1>7
<1>9. Len(heap') = m
    <2>1. PICK h : h = heap'
        OBVIOUS
    <2>2. h \in [1..m -> {h[k] : k \in 1..m}]
        BY <1>5, <1>7, <2>1
    <2>3. h \in Seq({h[k] : k \in 1..m}) /\ DOMAIN h = 1..m
        BY <1>8, <2>1, <2>2, FunctionIsSeq
    <2> QED BY <2>1, <2>3
<1> QED BY <1>1, <1>8, <1>9, NoNewAccount

(* A new account gets a number that stands for no other new one. *)
LEMMA OpenAccountLedger ==
    ASSUME Inv, MoneyInv, LedgerInv, OpenAccount
    PROVE  LedgerInv' /\ LedgerNext
<1>1. PICK customer \in Customer, initial \in Amount \cup {0} : openAccount(customer, initial)
    BY DEF OpenAccount
<1>2. PICK n, r, d \in Nat :
        /\ n = Len(heap) /\ r = Restored /\ n = r + d
        /\ DOMAIN heap = 1..n /\ New = 1..d
        /\ Entries \in [1..d -> Seq(Int)] /\ Entries \in Seq(Seq(Int))
        /\ \A k \in 1..d : r + k \in DOMAIN heap /\ Entries[k] = heap[r + k].entries
    BY EntriesAre
<1>3. initial \in 0..MaxInt32 /\ initial \in Int
    BY BankAssumption
<1>4. PICK one \in Seq(Int) : one = <<initial>>
    <2>1. <<initial>> \in Seq(Int)
        BY <1>3
    <2> QED BY <2>1
<1>5. PICK x : x = [entries |-> one, balance |-> initial, restored |-> FALSE]
    OBVIOUS
<1>6. x.entries = one /\ x.balance = initial /\ x.restored = FALSE
    BY <1>5
<1>7. /\ DOMAIN heap' = 1..(n + 1) /\ heap'[n + 1] = x /\ Len(heap') = n + 1
      /\ \A k \in 1..n : heap'[k] = heap[k]
    <2>1. heap' = Append(heap, x)
        BY <1>1, <1>4, <1>5 DEF openAccount
    <2> QED BY <1>2, <2>1, HeapAppended
<1>8. byNumber' = [m \in DOMAIN byNumber \cup {last + 1} |->
                     IF m = last + 1 THEN n + 1 ELSE byNumber[m]]
    BY <1>1, <1>2 DEF openAccount
<1>9. Restored' = r
    <2>1. {k \in DOMAIN heap' : heap'[k].restored} = {k \in DOMAIN heap : heap[k].restored}
        BY <1>2, <1>6, <1>7
    <2> QED BY <1>2, <2>1 DEF Restored
<1>10. last \in Nat /\ last' = last + 1
    BY <1>1 DEF openAccount, Inv, ListsInv
<1>11. \A m \in DOMAIN byNumber : byNumber[m] \in 1..n
    BY <1>2 DEF MoneyInv, NumbersInv
<1>12. /\ \A k \in 1..n : heap[k].restored <=> k <= r
       /\ \A k \in 1..n : k > r =>
            heap[k].entries \in Seq(Int) /\ SumFunction(heap[k].entries) = heap[k].balance
       /\ \A m \in DOMAIN byNumber : byNumber[m] > r =>
            m \in 1..last /\ \A l \in DOMAIN byNumber : byNumber[l] = byNumber[m] => l = m
    BY <1>2 DEF LedgerInv
<1>13. LedgerInv'
    <2>1. \A k \in DOMAIN heap' : heap'[k].restored <=> k <= Restored'
        BY <1>2, <1>6, <1>7, <1>9, <1>12
    <2>2. Restored' \in 0..Len(heap')
        BY <1>2, <1>7, <1>9
    <2>3. ASSUME NEW k \in DOMAIN heap', k > Restored'
          PROVE  heap'[k].entries \in Seq(Int) /\ SumFunction(heap'[k].entries) = heap'[k].balance
        <3>1. CASE k \in 1..n
            BY <1>7, <1>9, <1>12, <2>3, <3>1
        <3>2. CASE k = n + 1
            <4>1. SumFunction(<<initial>>) = initial
                BY <1>3, SumOfOne
            <4> QED BY <1>4, <1>6, <1>7, <3>2, <4>1
        <3>3. k \in 1..n \/ k = n + 1
            BY <1>2, <1>7
        <3> QED BY <3>1, <3>2, <3>3
    <2>4. ASSUME NEW m \in DOMAIN byNumber', byNumber'[m] > Restored'
          PROVE  m \in 1..last' /\ \A l \in DOMAIN byNumber' : byNumber'[l] = byNumber'[m] => l = m
        <3>1. CASE m = last + 1
            <4>1. byNumber'[m] = n + 1
                BY <1>8, <3>1
            <4>2. \A l \in DOMAIN byNumber' : l # m => byNumber'[l] \in 1..n
                BY <1>8, <1>11, <3>1
            <4>3. n + 1 \notin 1..n
                BY <1>2
            <4> QED BY <1>10, <3>1, <4>1, <4>2, <4>3
        <3>2. CASE m # last + 1
            <4>1. m \in DOMAIN byNumber /\ byNumber'[m] = byNumber[m] /\ byNumber[m] \in 1..n
                BY <1>8, <1>11, <3>2
            <4>2. m \in 1..last /\ \A l \in DOMAIN byNumber : byNumber[l] = byNumber[m] => l = m
                BY <1>9, <1>12, <2>4, <4>1
            <4>3. m \in 1..last'
                BY <1>10, <4>2
            <4>4. ASSUME NEW l \in DOMAIN byNumber', byNumber'[l] = byNumber'[m] PROVE l = m
                <5>1. byNumber'[l] \in 1..n
                    BY <4>1, <4>4
                <5>2. l # last + 1
                    BY <1>2, <1>8, <5>1
                <5> QED BY <1>8, <4>1, <4>2, <4>4, <5>2
            <4> QED BY <4>3, <4>4
        <3> QED BY <3>1, <3>2
    <2> QED BY <2>1, <2>2, <2>3, <2>4 DEF LedgerInv
<1>14. New' = 1..(d + 1)
    BY <1>2, <1>7, <1>9 DEF New
<1>15. Entries' = Append(Entries, one)
    <2>2. PICK q, p : q = Entries /\ p = Entries'
        OBVIOUS
    <2>3. p = [k \in 1..(d + 1) |-> heap'[r + k].entries]
        BY <1>9, <1>14, <2>2 DEF Entries
    <2>4. p = [k \in 1..(d + 1) |-> p[k]]
        BY <2>3
    <2>5. p[d + 1] = one
        <3>1. d + 1 \in 1..(d + 1) /\ r + (d + 1) = n + 1
            BY <1>2
        <3> QED BY <1>6, <1>7, <2>3, <3>1
    <2>6. \A k \in 1..d : p[k] = q[k]
        <3> TAKE k \in 1..d
        <3>1. k \in 1..(d + 1) /\ r + k \in 1..n
            BY <1>2
        <3>2. q[k] = heap[r + k].entries
            BY <1>2, <2>2
        <3> QED BY <1>7, <2>3, <3>1, <3>2
    <2>7. q \in [1..d -> Seq(Int)]
        BY <1>2, <2>2
    <2>8. p = Append(q, one)
        <3>1. Lengthened(p, q, d, one)
            BY <2>4, <2>5, <2>6 DEF Lengthened
        <3> QED BY Zenon, <2>7, <3>1, AppendIs
    <2> QED BY <2>2, <2>8
<1>16. Closed' = Closed
    <2>1. \A k \in New' : k \in Closed' <=> \A m \in DOMAIN byNumber' : byNumber'[m] # r + k
        BY <1>9 DEF Closed
    <2>2. \A k \in New : k \in Closed <=> \A m \in DOMAIN byNumber : byNumber[m] # r + k
        BY <1>2 DEF Closed
    <2>3. Closed' \subseteq New' /\ Closed \subseteq New /\ New \subseteq New'
        BY <1>2, <1>14 DEF Closed
    <2>4. d + 1 \notin Closed'
        <3>1. last + 1 \in DOMAIN byNumber' /\ byNumber'[last + 1] = r + (d + 1)
            BY <1>2, <1>8
        <3> QED BY <2>1, <2>3, <3>1
    <2>5. ASSUME NEW k \in New PROVE k \in Closed' <=> k \in Closed
        <3>1. k \in 1..d /\ r + k \in 1..n /\ r + k > r /\ r + k # n + 1
            BY <1>2
        <3>2. ASSUME NEW m \in DOMAIN byNumber, byNumber[m] = r + k
              PROVE  m \in DOMAIN byNumber' /\ byNumber'[m] = r + k
            <4>1. m \in 1..last
                BY <1>12, <3>1, <3>2
            <4>2. m # last + 1
                BY <1>10, <4>1
            <4> QED BY <1>8, <3>2, <4>2
        <3>3. ASSUME NEW m \in DOMAIN byNumber', byNumber'[m] = r + k
              PROVE  m \in DOMAIN byNumber /\ byNumber[m] = r + k
            BY <1>8, <3>1, <3>3
        <3>4. k \in New'
            BY <2>3
        <3> QED BY <2>1, <2>2, <3>2, <3>3, <3>4
    <2>6. \A k \in New' : k \in New \/ k = d + 1
        BY <1>2, <1>14
    <2> QED BY <2>3, <2>4, <2>5, <2>6
<1>17. Accounts!Open
    BY <1>3, <1>4, <1>15, <1>16 DEF Accounts!Open
<1> QED BY <1>13, <1>17 DEF LedgerNext, Accounts!Next

(* An entry in a new account is one in the ledger; one in a restored account *)
(* is none.                                                                  *)
LEMMA newTransactionLedger ==
    ASSUME Inv, MoneyInv, LedgerInv, UNCHANGED <<byNumber, last>>, NEW a \in DOMAIN heap,
           NEW amount \in -MaxInt32..MaxInt32, newTransaction(a, amount),
           heap[a].balance + amount \in 0..MaxInt32,
           Wrap(heap[a].balance + amount) = heap[a].balance + amount
    PROVE  LedgerInv' /\ LedgerNext
<1>1. PICK n, r, d \in Nat :
        /\ n = Len(heap) /\ r = Restored /\ n = r + d
        /\ DOMAIN heap = 1..n /\ New = 1..d
        /\ Entries \in [1..d -> Seq(Int)] /\ Entries \in Seq(Seq(Int))
        /\ \A k \in 1..d : r + k \in DOMAIN heap /\ Entries[k] = heap[r + k].entries
    BY EntriesAre
<1>2. amount \in Int
    BY BankAssumption
<1>3. PICK b \in 0..MaxInt32 : b = heap[a].balance + amount
    OBVIOUS
<1>4. PICK e, x : e = Append(heap[a].entries, amount)
                  /\ x = [heap[a] EXCEPT !.balance = b, !.entries = e]
    OBVIOUS
<1>5. x.entries = e /\ x.balance = b /\ x.restored = heap[a].restored
    BY <1>4, HeapHas
<1>6. heap' = [heap EXCEPT ![a] = x]
    BY <1>3, <1>4 DEF newTransaction
<1>7. /\ DOMAIN heap' = 1..n /\ Len(heap') = n /\ heap'[a] = x
      /\ \A k \in 1..n : k # a => heap'[k] = heap[k]
    <2>1. PICK V : heap \in Seq(AccountRec(V))
        BY DEF Inv, HeapInv
    <2>2. PICK S : S = AccountRec(V) \cup {x}
        OBVIOUS
    <2>3. heap \in Seq(S) /\ x \in S
        BY <2>1, <2>2
    <2> QED BY <1>1, <1>6, <2>3
<1>8. \A k \in 1..n : heap'[k].restored = heap[k].restored
    BY <1>5, <1>7
<1>9. Restored' = r
    <2>1. {k \in DOMAIN heap' : heap'[k].restored} = {k \in DOMAIN heap : heap[k].restored}
        BY <1>1, <1>7, <1>8
    <2> QED BY <1>1, <2>1 DEF Restored
<1>10. New' = 1..d /\ Closed' = Closed
    <2>1. New' = New
        BY <1>1, <1>7, <1>9 DEF New
    <2> QED BY <1>1, <1>9, <2>1 DEF Closed
<1>11. a > r => heap[a].entries \in Seq(Int) /\ SumFunction(heap[a].entries) = heap[a].balance
                /\ heap[a].balance \in Int
    BY <1>1, BankAssumption DEF LedgerInv, MoneyInv, BalancesInv
<1>12. a > r => e \in Seq(Int) /\ SumFunction(e) = b
    <2> SUFFICES ASSUME a > r PROVE e \in Seq(Int) /\ SumFunction(e) = b
        OBVIOUS
    <2>1. PICK q \in Seq(Int) : q = heap[a].entries
        BY <1>11
    <2>2. SumFunction(Append(q, amount)) = SumFunction(q) + amount
        BY <1>2, <2>1, SumAppend
    <2>3. e = Append(q, amount)
        BY <1>4, <2>1
    <2> QED BY <1>2, <1>3, <1>11, <2>1, <2>2, <2>3
<1>13. LedgerInv'
    <2>1. \A k \in DOMAIN heap' : heap'[k].restored <=> k <= Restored'
        BY <1>1, <1>7, <1>8, <1>9 DEF LedgerInv
    <2>2. Restored' \in 0..Len(heap')
        BY <1>1, <1>7, <1>9
    <2>3. ASSUME NEW k \in DOMAIN heap', k > Restored'
          PROVE  heap'[k].entries \in Seq(Int) /\ SumFunction(heap'[k].entries) = heap'[k].balance
        <3>1. CASE k = a
            BY <1>5, <1>7, <1>9, <1>12, <2>3, <3>1
        <3>2. CASE k # a
            BY <1>1, <1>7, <1>9, <2>3, <3>2 DEF LedgerInv
        <3> QED BY <3>1, <3>2
    <2>4. \A m \in DOMAIN byNumber' : byNumber'[m] > Restored' =>
            /\ m \in 1..last'
            /\ \A l \in DOMAIN byNumber' : byNumber'[l] = byNumber'[m] => l = m
        BY <1>1, <1>9 DEF LedgerInv
    <2> QED BY <2>1, <2>2, <2>3, <2>4 DEF LedgerInv
<1>14. Entries' = [k \in 1..d |-> heap'[r + k].entries]
    BY <1>9, <1>10 DEF Entries
<1>15. CASE a <= r
    <2>1. \A k \in 1..d : r + k # a /\ r + k \in 1..n
        BY <1>1, <1>15
    <2>2. \A k \in 1..d : heap'[r + k].entries = Entries[k]
        BY <1>1, <1>7, <2>1
    <2>3. PICK q : q = Entries
        OBVIOUS
    <2>4. Entries' = [k \in 1..d |-> q[k]] /\ q \in [1..d -> Seq(Int)]
        BY <1>1, <1>14, <2>2, <2>3
    <2> QED BY <1>10, <1>13, <2>3, <2>4 DEF LedgerNext
<1>16. CASE a > r
    <2>1. PICK k \in 1..d : a = r + k
        <3>1. a \in 1..n
            BY <1>1
        <3>2. a - r \in 1..d /\ a = r + (a - r)
            BY <1>1, <1>16, <3>1
        <3> QED BY <3>2
    <2>2. PICK q : q = Entries
        OBVIOUS
    <2>3. q \in [1..d -> Seq(Int)] /\ k \in DOMAIN q /\ q[k] = heap[a].entries
        BY <1>1, <2>1, <2>2
    <2>4. \A i \in 1..d : heap'[r + i].entries = IF i = k THEN e ELSE q[i]
        <3> TAKE i \in 1..d
        <3>1. CASE i = k
            BY <1>5, <1>7, <2>1, <3>1
        <3>2. CASE i # k
            <4>1. r + i # a /\ r + i \in 1..n
                BY <1>1, <2>1, <3>2
            <4> QED BY <1>1, <1>7, <2>2, <3>2, <4>1
        <3> QED BY <3>1, <3>2
    <2>5. Entries' = [q EXCEPT ![k] = e]
        BY <1>14, <2>3, <2>4
    <2>6. e = Append(q[k], amount)
        BY <1>4, <2>3
    <2>7. Accounts!Total(q[k]) + amount \in 0..MaxInt32
        <3>1. Accounts!Total(q[k]) = heap[a].balance
            BY <1>11, <1>16, <2>3, TotalIs
        <3> QED BY <3>1
    <2>8. Accounts!Enter
        <3>1. Entries' = [Entries EXCEPT ![k] = Append(Entries[k], amount)]
            BY <2>2, <2>5, <2>6
        <3>2. k \in DOMAIN Entries /\ Accounts!Total(Entries[k]) + amount \in 0..MaxInt32
            BY <2>2, <2>3, <2>7
        <3> QED BY <1>10, <3>1, <3>2 DEF Accounts!Enter
    <2> QED BY <1>13, <2>8 DEF LedgerNext, Accounts!Next
<1>17. a <= r \/ a > r
    BY <1>1
<1> QED BY <1>15, <1>16, <1>17

(* No other number stands for a new account that is closed. *)
LEMMA CloseAccountLedger ==
    ASSUME Inv, MoneyInv, LedgerInv, CloseAccount
    PROVE  LedgerInv' /\ LedgerNext
<1>1. CASE Die
    BY <1>1, DieLedger
<1> SUFFICES ASSUME ~Die PROVE LedgerInv' /\ LedgerNext
    BY <1>1
<1>2. PICK customer \in Customer, number \in Number :
        closeAccount(customer, number) /\ Account(number) # Nil
    BY DEF CloseAccount
<1>3. UNCHANGED <<heap, last>>
    BY DEF CloseAccount
<1>4. number \in DOMAIN byNumber
    BY <1>2 DEF Account
<1>5. PICK a : a = byNumber[number]
    OBVIOUS
<1>6. a \in DOMAIN heap /\ heap[a].balance = 0
    BY <1>2, <1>4, <1>5 DEF closeAccount, MoneyInv, NumbersInv
<1>7. PICK n, r, d \in Nat :
        /\ n = Len(heap) /\ r = Restored /\ n = r + d
        /\ DOMAIN heap = 1..n /\ New = 1..d
        /\ Entries \in [1..d -> Seq(Int)] /\ Entries \in Seq(Seq(Int))
        /\ \A k \in 1..d : r + k \in DOMAIN heap /\ Entries[k] = heap[r + k].entries
    BY EntriesAre
<1>8. DOMAIN byNumber' = DOMAIN byNumber \ {number} /\ \A m \in DOMAIN byNumber' : byNumber'[m] = byNumber[m]
    BY <1>2 DEF closeAccount
<1>9. Restored' = r /\ New' = New /\ Entries' = Entries
    <2>1. Restored' = Restored
        BY <1>3 DEF Restored
    <2>2. New' = New
        BY <1>3, <2>1 DEF New
    <2> QED BY <1>3, <1>7, <2>1, <2>2 DEF Entries
<1>10. LedgerInv'
    <2>1. Restored' = Restored
        BY <1>7, <1>9
    <2> QED BY <1>3, <1>8, <2>1 DEF LedgerInv
<1>11. \A k \in 1..d : k \in Closed <=> \A m \in DOMAIN byNumber : byNumber[m] # r + k
    BY <1>7 DEF Closed
<1>12. \A k \in 1..d : k \in Closed' <=> \A m \in DOMAIN byNumber' : byNumber'[m] # r + k
    BY <1>7, <1>9 DEF Closed
<1>13. Closed \subseteq 1..d /\ Closed' \subseteq 1..d
    BY <1>7, <1>9 DEF Closed
<1>14. CASE a <= r
    <2>1. \A k \in 1..d : r + k # a
        BY <1>7, <1>14
    <2>2. \A k \in 1..d : k \in Closed' <=> k \in Closed
        BY <1>5, <1>8, <1>11, <1>12, <2>1
    <2>3. Closed' = Closed
        BY <1>13, <2>2
    <2> QED BY <1>9, <1>10, <2>3 DEF LedgerNext
<1>15. CASE a > r
    <2>1. PICK k \in 1..d : a = r + k
        <3>1. a \in 1..n
            BY <1>6, <1>7
        <3>2. a - r \in 1..d /\ a = r + (a - r)
            BY <1>7, <1>15, <3>1
        <3> QED BY <3>2
    <2>2. k \notin Closed
        BY <1>4, <1>5, <1>11, <2>1
    <2>3. \A l \in DOMAIN byNumber : byNumber[l] = a => l = number
        BY <1>4, <1>5, <1>7, <1>15 DEF LedgerInv
    <2>4. k \in Closed'
        BY <1>8, <1>12, <2>1, <2>3
    <2>5. \A i \in 1..d : i # k => (i \in Closed' <=> i \in Closed)
        <3> SUFFICES ASSUME NEW i \in 1..d, i # k PROVE i \in Closed' <=> i \in Closed
            OBVIOUS
        <3>1. r + i # a
            BY <1>7, <2>1
        <3> QED BY <1>5, <1>8, <1>11, <1>12, <3>1
    <2>6. Closed' = Closed \cup {k}
        BY <1>13, <2>4, <2>5
    <2>7. Accounts!Total(Entries[k]) = 0
        <3>1. Entries[k] = heap[a].entries /\ SumFunction(heap[a].entries) = heap[a].balance
            BY <1>6, <1>7, <1>15, <2>1 DEF LedgerInv
        <3> QED BY <1>6, <3>1, TotalIs
    <2>8. k \in DOMAIN Entries \ Closed
        BY <1>7, <2>2
    <2>9. Accounts!Close
        BY <1>9, <2>6, <2>7, <2>8 DEF Accounts!Close
    <2> QED BY <1>10, <2>9 DEF LedgerNext, Accounts!Next
<1>16. a <= r \/ a > r
    BY <1>6, <1>7
<1> QED BY <1>14, <1>15, <1>16

(* A request enters in the account it has looked up, if it is not refused. *)
LEMMA RequestLedger ==
    ASSUME Inv, MoneyInv, LedgerInv, NEW c \in Client, Debit(c) \/ Credit(c)
    PROVE  LedgerInv' /\ LedgerNext
<1>1. CASE Die
    BY <1>1, DieLedger
<1> SUFFICES ASSUME ~Die PROVE LedgerInv' /\ LedgerNext
    BY <1>1
<1>2. UNCHANGED <<byNumber, last>>
    BY DEF Debit, Credit, tables
<1>3. PICK r : r = request[c]
    OBVIOUS
<1>4. /\ r.amount \in Positive
      /\ r.from \in AccountOrNil(DOMAIN heap) /\ r.to \in AccountOrNil(DOMAIN heap)
    <2>1. r.step \in {"debit", "credit"} /\ IsRequest(r, DOMAIN heap)
        BY <1>3, RequestIs DEF Debit, Credit
    <2> QED BY <2>1 DEF IsRequest, Idle
<1>5. \/ UNCHANGED heap
      \/ r.from # Nil /\ ~Refused(r.from, -r.amount) /\ newTransaction(r.from, -r.amount)
      \/ r.to # Nil /\ ~Refused(r.to, r.amount) /\ newTransaction(r.to, r.amount)
    BY <1>3 DEF Debit, Credit
<1>6. r.amount \in -MaxInt32..MaxInt32 /\ -r.amount \in -MaxInt32..MaxInt32
    BY <1>4, BankAssumption DEF Positive
<1>7. CASE UNCHANGED heap
    BY <1>2, <1>7, LedgerStays
<1>8. CASE r.from # Nil /\ ~Refused(r.from, -r.amount) /\ newTransaction(r.from, -r.amount)
    <2>1. PICK a \in DOMAIN heap : a = r.from
        BY <1>4, <1>8 DEF AccountOrNil
    <2>2. heap[a].balance \in 0..MaxInt32
        BY DEF MoneyInv, BalancesInv
    <2>3. /\ heap[a].balance + -r.amount \in 0..MaxInt32
          /\ Wrap(heap[a].balance + -r.amount) = heap[a].balance + -r.amount
        BY <1>4, <1>8, <2>1, <2>2, WrapIs DEF Refused
    <2>4. newTransaction(a, -r.amount)
        BY <1>8, <2>1
    <2> QED BY <1>2, <1>6, <2>3, <2>4, newTransactionLedger
<1>9. CASE r.to # Nil /\ ~Refused(r.to, r.amount) /\ newTransaction(r.to, r.amount)
    <2>1. PICK a \in DOMAIN heap : a = r.to
        BY <1>4, <1>9 DEF AccountOrNil
    <2>2. heap[a].balance \in 0..MaxInt32
        BY DEF MoneyInv, BalancesInv
    <2>3. /\ heap[a].balance + r.amount \in 0..MaxInt32
          /\ Wrap(heap[a].balance + r.amount) = heap[a].balance + r.amount
        BY <1>4, <1>9, <2>1, <2>2, WrapIs DEF Refused
    <2>4. newTransaction(a, r.amount)
        BY <1>9, <2>1
    <2> QED BY <1>2, <1>6, <2>3, <2>4, newTransactionLedger
<1> QED BY <1>5, <1>7, <1>8, <1>9

LEMMA NextLedger ==
    ASSUME Inv, MoneyInv, LedgerInv, [Next]_vars
    PROVE  LedgerInv' /\ LedgerNext
<1>1. CASE OpenAccount
    BY <1>1, OpenAccountLedger
<1>2. CASE CloseAccount
    BY <1>2, CloseAccountLedger
<1>3. ASSUME NEW c \in Client, Debit(c) \/ Credit(c)
      PROVE  LedgerInv' /\ LedgerNext
    BY <1>3, RequestLedger
<1>4. CASE Die
    BY <1>4, DieLedger
<1>5. CASE Load
    BY <1>5, LoadLedger
<1>6. CASE UNCHANGED <<heap, byNumber, last>>
    BY <1>6, LedgerStays
<1>7. ASSUME NEW c \in Client, LookupSource(c) \/ LookupDest(c)
      PROVE  UNCHANGED <<heap, byNumber, last>>
    BY <1>7 DEF LookupSource, LookupDest, tables
<1>8. StartSave \/ Signal \/ ServeReturns \/ UNCHANGED vars =>
        UNCHANGED <<heap, byNumber, last>>
    BY DEF StartSave, Signal, ServeReturns, vars, tables
<1>9. ASSUME NEW s \in DOMAIN saver,
             CopyList(s) \/ CopyAccount(s) \/ Marshal(s) \/ Truncate(s) \/ Write(s)
      PROVE  Die \/ UNCHANGED <<heap, byNumber, last>>
    BY <1>9 DEF CopyList, CopyAccount, Marshal, Truncate, Write, tables
<1>10. Kill \/ GetAccounts => Die
    BY DEF Kill, GetAccounts
<1> QED BY <1>1, <1>2, <1>3, <1>4, <1>5, <1>6, <1>7, <1>8, <1>9, <1>10 DEF Next

(* The accounts made since the last start are what module Ledger promises:   *)
(* every step of the bank is one of the ledger or changes nothing in it.     *)
THEOREM AccountsImplementLedger == Spec => ImplementsLedger
<1>1. Init => Inv /\ MoneyInv /\ LedgerInv /\ Accounts!Init
    <2> SUFFICES ASSUME Init PROVE Inv /\ MoneyInv /\ LedgerInv /\ Accounts!Init
        OBVIOUS
    <2>1. heap = <<>> /\ DOMAIN byNumber = {} /\ IsFiniteSet({})
        BY FS_EmptySet DEF Init, Empty
    <2>2. Restored = 0
        <3>1. {k \in DOMAIN heap : heap[k].restored} = {}
            BY <2>1
        <3> QED BY <3>1, FS_EmptySet DEF Restored
    <2>3. New = {}
        BY <2>1, <2>2 DEF New
    <2>4. LedgerInv
        BY <2>1, <2>2 DEF LedgerInv
    <2>5. Accounts!Init
        BY <2>3 DEF Accounts!Init, Entries, Closed
    <2> QED BY <2>4, <2>5, InitInv, InitMoney
<1>2. Inv /\ MoneyInv /\ LedgerInv /\ [Next]_vars => (Inv /\ MoneyInv /\ LedgerInv)'
    BY NextInv, NextMoney, NextLedger
<1>3. Inv /\ MoneyInv /\ LedgerInv /\ [Next]_vars => [Accounts!Next]_<<Entries, Closed>>
    BY NextLedger DEF LedgerNext
<1> QED BY <1>1, <1>2, <1>3, PTL DEF Spec, ImplementsLedger, Accounts!Spec

---------------------------------------------------------------------------
(* What a server stopped by a signal has saved.  Once Serve has returned no  *)
(* request is left; while only main copies the accounts, nothing changes.    *)

Quiet == server \in {"flushing", "stopped"}

(* All accounts of all customers are in data. *)
IsWhole(data) ==
    /\ data.is = "saved" /\ data.customers = customers
    /\ \A c \in DOMAIN lists :
         /\ data.lists[c] = Elements(lists[c])
         /\ \A n \in ToSet(data.lists[c]) : data.accounts[n] = heap[byNumber[n]].entries

(* Main's copy has the lists of the first m customers, and the accounts of   *)
(* those it is through with and of the places of the last one before next.   *)
IsCopied(r, n) ==
    n \in DOMAIN r.copies /\ n \in DOMAIN byNumber /\ r.copies[n] = heap[byNumber[n]].entries

IsWholeSoFar(r, m) ==
    /\ r.customers = customers
    /\ \A k \in 1..m : r.slices[customers[k]] = lists[customers[k]]
    /\ \A k \in 1..m : \A i \in 1..lists[customers[k]].len :
         k < m \/ i < r.next => IsCopied(r, NumberAt(customers[k], i))

MainSaves ==
    LET r == saver["main"]
    IN  \/ server = "stopped" /\ IsWhole(file)
        \/ server = "flushing" /\ r.step = "clone" /\ IsWholeSoFar(r, Cardinality(DOMAIN r.slices))
        \/ server = "flushing" /\ r.step = "truncate" /\ IsWhole(r.data)
        \/ server = "flushing" /\ r.step = "write" /\ IsWhole(r.data) /\ file.is = "empty"

StopInv ==
    /\ server # "flushing" => saver["main"] = Idle
    /\ Quiet => \A c \in Client : request[c] = Idle
    /\ Quiet /\ ~raced => saver["bgSaver"] = Idle /\ MainSaves

(* What is copied stays what it is as long as nothing else changes. *)
Frozen == UNCHANGED <<heap, byNumber, lists, arrays, customers, last>>

LEMMA WholeStays ==
    ASSUME Frozen
    PROVE  /\ \A data : IsWhole(data)' <=> IsWhole(data)
           /\ \A r, m : IsWholeSoFar(r, m)' <=> IsWholeSoFar(r, m)
<1>1. \A x : Elements(x)' = Elements(x)
    BY DEF Frozen, Elements
<1>2. \A r, n : IsCopied(r, n)' <=> IsCopied(r, n)
    BY DEF Frozen, IsCopied
<1>3. \A c, i : NumberAt(c, i)' = NumberAt(c, i)
    BY DEF Frozen, NumberAt
<1>4. \A data : IsWhole(data)' <=> IsWhole(data)
    BY <1>1 DEF Frozen, IsWhole
<1>5. \A r, m : IsWholeSoFar(r, m)' <=> IsWholeSoFar(r, m)
    BY <1>2, <1>3 DEF Frozen, IsWholeSoFar
<1> QED BY <1>4, <1>5

LEMMA DieStops ==
    ASSUME Die
    PROVE  StopInv'
BY DEF Die, StopInv, Quiet, NoSavers

(* A step of a request, or of a server that is not quiet. *)
LEMMA BusyStops ==
    ASSUME StopInv, UNCHANGED <<saver, server>>, ~Quiet
    PROVE  StopInv'
BY DEF StopInv, Quiet

(* A step of a saver while the server is not quiet, or in a race. *)
LEMMA RacingStops ==
    ASSUME Inv, StopInv, UNCHANGED <<server, request>>,
           ~Quiet \/ raced', NEW s \in DOMAIN saver, NEW x, saver' = [saver EXCEPT ![s] = x],
           s = "main" => server = "flushing"
    PROVE  StopInv'
<1>1. saver' = [t \in {"bgSaver", "main"} |-> IF t = s THEN x ELSE saver[t]]
    BY DEF Inv, SaverInv
<1> QED BY <1>1 DEF StopInv, Quiet

LEMMA SaverSteps ==
    ASSUME Inv, StopInv, NEW s \in DOMAIN saver, saver[s].step # "idle"
    PROVE  /\ s \in {"bgSaver", "main"}
           /\ s = "main" => server = "flushing"
           /\ Quiet /\ ~raced => s = "main" /\ server = "flushing" /\ saver["bgSaver"] = Idle
<1>1. Idle.step = "idle" /\ s \in {"bgSaver", "main"}
    BY DEF Idle, Inv, SaverInv
<1>2. s = "main" => server = "flushing"
    BY <1>1 DEF StopInv
<1>3. Quiet /\ ~raced => s = "main"
    BY <1>1 DEF StopInv
<1> QED BY <1>1, <1>2, <1>3 DEF StopInv

(* A step of main's copy. *)
LEMMA MainStops ==
    ASSUME Inv, StopInv, Quiet, ~raced, UNCHANGED <<server, request, raced>>, server = "flushing",
           NEW x, saver' = [saver EXCEPT !["main"] = x],
           \/ x.step = "clone" /\ IsWholeSoFar(x, Cardinality(DOMAIN x.slices))'
           \/ x.step = "truncate" /\ IsWhole(x.data)'
           \/ x.step = "write" /\ IsWhole(x.data)' /\ file'.is = "empty"
    PROVE  StopInv'
<1>1. saver' = [t \in {"bgSaver", "main"} |-> IF t = "main" THEN x ELSE saver[t]]
    BY DEF Inv, SaverInv
<1>2. saver'["main"] = x /\ saver'["bgSaver"] = Idle
    BY <1>1 DEF StopInv
<1>3. MainSaves'
    BY <1>2 DEF MainSaves
<1> QED BY <1>2, <1>3 DEF StopInv, Quiet

LEMMA CopyListStops ==
    ASSUME Inv, StopInv, NEW s \in DOMAIN saver, CopyList(s)
    PROVE  StopInv'
<1>1. /\ s \in {"bgSaver", "main"} /\ (s = "main" => server = "flushing")
      /\ Quiet /\ ~raced => s = "main" /\ server = "flushing"
    BY SaverSteps DEF CopyList
<1> DEFINE r == saver[s]
           m == Cardinality(DOMAIN r.slices)
           c == r.customers[m + 1]
           new == [d \in DOMAIN r.slices \cup {c} |-> IF d = c THEN lists[d] ELSE r.slices[d]]
<1>2. PICK x : x = [r EXCEPT !.next = 1, !.slices = new]
    OBVIOUS
<1>3. saver' = [saver EXCEPT ![s] = x] /\ UNCHANGED <<server, request, raced>>
    BY <1>2 DEF CopyList
<1>4. CASE ~Quiet \/ raced
    BY <1>1, <1>3, <1>4, RacingStops
<1>5. CASE Quiet /\ ~raced
    <2>1. s = "main" /\ server = "flushing" /\ r.step = "clone" /\ IsWholeSoFar(r, m)
        BY <1>1, <1>5 DEF CopyList, StopInv, MainSaves
    <2>2. /\ IsCloning(r, m, DOMAIN lists, arrays)
          /\ m # 0 => /\ CurrentSlice(s) = r.slices[r.customers[m]]
                      /\ IsSlice(CurrentSlice(s), arrays)
          /\ ListDone(s) <=> (m # 0 => r.next > CurrentSlice(s).len)
        BY <2>1, CloningHas
    <2>3. /\ r \in CloneRec(r) /\ Distinct(r.customers) /\ m \in 0..Len(r.customers)
          /\ r.customers \in Seq(DOMAIN lists)
          /\ DOMAIN r.slices = {r.customers[k] : k \in 1..m} /\ r.next \in Nat
          /\ IsFiniteSet(DOMAIN r.slices)
        BY <2>2 DEF IsCloning, CloneRec
    <2>4. m # Len(r.customers) /\ ListDone(s) /\ m \in Nat
        <3>1. DOMAIN r.slices # ToSet(r.customers) /\ ListDone(s)
            BY DEF CopyList, CloneDone
        <3>2. DOMAIN r.customers = 1..Len(r.customers) /\ Len(r.customers) \in Nat
            BY <2>3
        <3> QED BY <2>3, <3>1, <3>2 DEF ToSet
    <2>5. m + 1 \in DOMAIN r.customers /\ c \notin DOMAIN r.slices
        BY <2>3, <2>4 DEF Distinct
    <2>6. /\ DOMAIN new = DOMAIN r.slices \cup {c} /\ new[c] = lists[c]
          /\ \A d \in DOMAIN r.slices : new[d] = r.slices[d]
        BY <2>5
    <2>7. Cardinality(DOMAIN new) = m + 1
        <3> DEFINE D == DOMAIN r.slices
        <3>1. IsFiniteSet(D) /\ c \notin D /\ Cardinality(D) = m /\ DOMAIN new = D \cup {c}
            BY <2>3, <2>5, <2>6
        <3> HIDE DEF D, c, new
        <3> QED BY <3>1, FS_AddElement
    <2> HIDE DEF new
    <2>8. /\ x.step = "clone" /\ x.customers = r.customers /\ x.slices = new
          /\ x.copies = r.copies /\ x.next = 1
        <3>1. r \in CloneRec(r) /\ r.step = "clone"
            BY <2>1, <2>3
        <3> HIDE DEF r
        <3> QED BY <1>2, <3>1 DEF CloneRec
    <2>9. IsWholeSoFar(x, m + 1)
        <3>1. r.customers = customers
            BY <2>1 DEF IsWholeSoFar
        <3>2. \A k \in 1..(m + 1) : new[customers[k]] = lists[customers[k]]
            <4> SUFFICES ASSUME NEW k \in 1..(m + 1) PROVE new[customers[k]] = lists[customers[k]]
                OBVIOUS
            <4>1. CASE k = m + 1
                BY <2>6, <3>1, <4>1
            <4>2. CASE k \in 1..m
                <5>1. customers[k] \in DOMAIN r.slices
                    BY <2>3, <3>1, <4>2
                <5> QED BY <2>1, <2>6, <4>2, <5>1 DEF IsWholeSoFar
            <4> QED BY <2>3, <4>1, <4>2
        <3>3. \A k \in 1..m : \A i \in 1..lists[customers[k]].len : k < m \/ i < r.next
            <4> SUFFICES ASSUME NEW k \in 1..m, NEW i \in 1..lists[customers[k]].len, ~(k < m)
                         PROVE  i < r.next
                OBVIOUS
            <4>1. k = m /\ m # 0 /\ ListDone(s)
                BY <2>4
            <4>2. r.next > CurrentSlice(s).len /\ CurrentSlice(s) = r.slices[r.customers[m]]
                BY <2>2, <4>1
            <4>3. CurrentSlice(s) = lists[customers[m]]
                BY <2>1, <3>1, <4>1, <4>2 DEF IsWholeSoFar
            <4>4. CurrentSlice(s).len \in Nat
                BY <2>2, <4>1 DEF IsSlice
            <4> QED BY <2>3, <4>1, <4>2, <4>3, <4>4
        <3>4. \A k \in 1..m : \A i \in 1..lists[customers[k]].len : IsCopied(r, NumberAt(customers[k], i))
            BY <2>1, <3>3 DEF IsWholeSoFar
        <3>5. \A n : IsCopied(r, n) => IsCopied(x, n)
            BY <2>8 DEF IsCopied
        <3>6. \A k \in 1..(m + 1) : \A i \in 1..lists[customers[k]].len :
                k < m + 1 \/ i < 1 => IsCopied(x, NumberAt(customers[k], i))
            <4> SUFFICES ASSUME NEW k \in 1..(m + 1), NEW i \in 1..lists[customers[k]].len,
                                k < m + 1 \/ i < 1
                         PROVE  IsCopied(x, NumberAt(customers[k], i))
                OBVIOUS
            <4>1. k \in 1..m
                BY <2>3
            <4> QED BY <3>4, <3>5, <4>1
        <3> QED BY <2>8, <3>1, <3>2, <3>6 DEF IsWholeSoFar
    <2>10. Frozen
        BY DEF CopyList, tables, Frozen
    <2>11. IsWholeSoFar(x, Cardinality(DOMAIN x.slices))'
        BY <2>7, <2>8, <2>9, <2>10, WholeStays
    <2> QED BY <1>3, <1>5, <2>1, <2>8, <2>11, MainStops
<1> QED BY <1>4, <1>5

LEMMA CopyAccountStops ==
    ASSUME Inv, StopInv, NEW s \in DOMAIN saver, CopyAccount(s)
    PROVE  StopInv'
<1>0. CASE Die
    BY <1>0, DieStops
<1>1. /\ s \in {"bgSaver", "main"} /\ (s = "main" => server = "flushing")
      /\ Quiet /\ ~raced => s = "main" /\ server = "flushing"
    BY SaverSteps DEF CopyAccount
<1> DEFINE r == saver[s]
           m == Cardinality(DOMAIN r.slices)
<1>2. PICK number : number = arrays[CurrentSlice(s).array][r.next]
    OBVIOUS
<1>3. PICK new : new = [n \in DOMAIN r.copies \cup {number} |->
                          IF n = number THEN heap[Account(n)].entries ELSE r.copies[n]]
    OBVIOUS
<1>4. PICK x : x = [r EXCEPT !.next = r.next + 1, !.copies = new]
    OBVIOUS
<1>5. CASE ~Die
    <2>1. /\ saver' = [saver EXCEPT ![s] = x] /\ UNCHANGED <<server, request, raced>>
          /\ Account(number) # Nil /\ Frozen
        BY <1>2, <1>3, <1>4, <1>5 DEF CopyAccount, Frozen, tables
    <2>2. CASE ~Quiet \/ raced
        BY <1>1, <2>1, <2>2, RacingStops
    <2>3. CASE Quiet /\ ~raced
        <3>1. s = "main" /\ server = "flushing" /\ r.step = "clone" /\ IsWholeSoFar(r, m)
            BY <1>1, <2>3 DEF CopyAccount, StopInv, MainSaves
        <3>2. /\ IsCloning(r, m, DOMAIN lists, arrays)
              /\ m # 0 => CurrentSlice(s) = r.slices[r.customers[m]]
              /\ ListDone(s) <=> (m # 0 => r.next > CurrentSlice(s).len)
            BY <3>1, CloningHas
        <3>3. r \in CloneRec(r) /\ m \in Nat /\ r.next \in Nat
            BY <3>2 DEF IsCloning, CloneRec
        <3>4. m # 0 /\ ~(r.next > CurrentSlice(s).len)
            BY <3>2 DEF CopyAccount
        <3>5. /\ x.step = "clone" /\ x.customers = r.customers /\ x.slices = r.slices
              /\ x.copies = new /\ x.next = r.next + 1
            <4>1. r \in CloneRec(r) /\ r.step = "clone"
                BY <3>1, <3>3
            <4> HIDE DEF r
            <4> QED BY <1>4, <4>1 DEF CloneRec
        <3>6. number \in DOMAIN byNumber /\ Account(number) = byNumber[number]
            BY <2>1 DEF Account
        <3>7. IsCopied(x, number)
            BY <1>3, <3>5, <3>6 DEF IsCopied
        <3>8. \A n : IsCopied(r, n) => IsCopied(x, n)
            BY <1>3, <3>5, <3>7 DEF IsCopied
        <3>9. IsWholeSoFar(x, m)
            <4>1. /\ r.customers = customers
                  /\ \A k \in 1..m : r.slices[customers[k]] = lists[customers[k]]
                  /\ \A k \in 1..m : \A i \in 1..lists[customers[k]].len :
                       k < m \/ i < r.next => IsCopied(r, NumberAt(customers[k], i))
                BY <3>1 DEF IsWholeSoFar
            <4>2. NumberAt(customers[m], r.next) = number
                BY <1>2, <3>2, <3>3, <3>4, <4>1 DEF NumberAt
            <4>3. \A k \in 1..m : \A i \in 1..lists[customers[k]].len :
                       k < m \/ i < r.next + 1 => IsCopied(x, NumberAt(customers[k], i))
                <5> SUFFICES ASSUME NEW k \in 1..m, NEW i \in 1..lists[customers[k]].len,
                                    k < m \/ i < r.next + 1
                             PROVE  IsCopied(x, NumberAt(customers[k], i))
                    OBVIOUS
                <5>1. k < m \/ i < r.next \/ (k = m /\ i = r.next)
                    BY <3>3
                <5> QED BY <3>7, <3>8, <4>1, <4>2, <5>1
            <4> QED BY <3>5, <4>1, <4>3 DEF IsWholeSoFar
        <3>10. IsWholeSoFar(x, Cardinality(DOMAIN x.slices))'
            BY <2>1, <3>5, <3>9, WholeStays
        <3> QED BY <2>1, <2>3, <3>1, <3>5, <3>10, MainStops
    <2> QED BY <2>2, <2>3
<1> QED BY <1>0, <1>5

LEMMA MarshalStops ==
    ASSUME Inv, StopInv, NEW s \in DOMAIN saver, Marshal(s)
    PROVE  StopInv'
<1>1. /\ s \in {"bgSaver", "main"} /\ (s = "main" => server = "flushing")
      /\ Quiet /\ ~raced => s = "main" /\ server = "flushing"
    BY SaverSteps DEF Marshal
<1> DEFINE r == saver[s]
           m == Cardinality(DOMAIN r.slices)
<1>2. PICK data : data = [is |-> "saved", customers |-> r.customers,
                          lists |-> [c \in DOMAIN r.slices |-> Elements(r.slices[c])],
                          accounts |-> r.copies]
    OBVIOUS
<1>3. PICK x : x = [step |-> "truncate", data |-> data]
    OBVIOUS
<1>4. saver' = [saver EXCEPT ![s] = x] /\ UNCHANGED <<server, request, raced>> /\ Frozen
    BY <1>2, <1>3 DEF Marshal, Frozen, tables
<1>5. CASE ~Quiet \/ raced
    BY <1>1, <1>4, <1>5, RacingStops
<1>6. CASE Quiet /\ ~raced
    <2>1. s = "main" /\ server = "flushing" /\ r.step = "clone" /\ IsWholeSoFar(r, m)
        BY <1>1, <1>6 DEF Marshal, StopInv, MainSaves
    <2>2. /\ IsCloning(r, m, DOMAIN lists, arrays)
          /\ m # 0 => /\ CurrentSlice(s) = r.slices[r.customers[m]]
                      /\ IsSlice(CurrentSlice(s), arrays)
          /\ ListDone(s) <=> (m # 0 => r.next > CurrentSlice(s).len)
        BY <2>1, CloningHas
    <2>3. /\ m \in Nat /\ r.next \in Nat
          /\ DOMAIN r.slices = {r.customers[k] : k \in 1..m}
        BY <2>2 DEF IsCloning, CloneRec
    <2>4. /\ r.customers = customers
          /\ \A k \in 1..m : r.slices[customers[k]] = lists[customers[k]]
          /\ \A k \in 1..m : \A i \in 1..lists[customers[k]].len :
               k < m \/ i < r.next => IsCopied(r, NumberAt(customers[k], i))
        BY <2>1 DEF IsWholeSoFar
    <2>5. DOMAIN r.slices = DOMAIN lists /\ ListDone(s)
        <3>1. DOMAIN r.slices = ToSet(customers) /\ ListDone(s)
            BY <2>4 DEF Marshal, CloneDone
        <3>2. ToSet(customers) = DOMAIN lists
            <4>1. /\ customers \in Seq(DOMAIN lists)
                  /\ \A c \in DOMAIN lists : \E i \in DOMAIN customers : customers[i] = c
                BY DEF Inv, CustomersInv, Enumerates
            <4>2. \A i \in DOMAIN customers : customers[i] \in DOMAIN lists
                BY <4>1
            <4> QED BY <4>1, <4>2 DEF ToSet
        <3> QED BY <3>1, <3>2
    <2>6. \A c \in DOMAIN lists : \A i \in 1..lists[c].len : IsCopied(r, NumberAt(c, i))
        <3> SUFFICES ASSUME NEW c \in DOMAIN lists, NEW i \in 1..lists[c].len
                     PROVE  IsCopied(r, NumberAt(c, i))
            OBVIOUS
        <3>1. PICK k \in 1..m : c = customers[k]
            BY <2>3, <2>4, <2>5
        <3>2. k < m \/ i < r.next
            <4> SUFFICES ASSUME ~(k < m) PROVE i < r.next
                OBVIOUS
            <4>1. k = m /\ m # 0
                BY <2>3
            <4>2. r.next > CurrentSlice(s).len /\ CurrentSlice(s) = lists[c]
                BY <2>2, <2>4, <2>5, <3>1, <4>1
            <4>3. CurrentSlice(s).len \in Nat
                BY <2>2, <4>1 DEF IsSlice
            <4> QED BY <2>3, <4>2, <4>3
        <3> QED BY <2>4, <3>1, <3>2
    <2>7. \A c \in DOMAIN lists : r.slices[c] = lists[c]
        BY <2>3, <2>4, <2>5
    <2>8. IsWhole(data)
        <3>1. /\ data.is = "saved" /\ data.customers = customers /\ data.accounts = r.copies
              /\ \A c \in DOMAIN lists : data.lists[c] = Elements(lists[c])
            BY <1>2, <2>4, <2>5, <2>7
        <3>2. \A c \in DOMAIN lists : \A n \in ToSet(Elements(lists[c])) : IsCopied(r, n)
            <4> SUFFICES ASSUME NEW c \in DOMAIN lists, NEW n \in ToSet(Elements(lists[c]))
                         PROVE  IsCopied(r, n)
                OBVIOUS
            <4>1. arrays \in Seq(Seq(Nat)) /\ IsSlice(lists[c], arrays)
                BY DEF Inv, ListsInv
            <4>2. PICK z : z = lists[c]
                OBVIOUS
            <4>3. /\ Elements(z) \in Seq(Nat) /\ Len(Elements(z)) = z.len
                  /\ \A i \in 1..z.len : Elements(z)[i] = arrays[z.array][i]
                BY <4>1, <4>2, ElementsOf
            <4>4. PICK i \in 1..z.len : n = arrays[z.array][i]
                BY <4>2, <4>3 DEF ToSet
            <4> QED BY <2>6, <4>2, <4>4 DEF NumberAt
        <3> QED BY <3>1, <3>2 DEF IsWhole, IsCopied
    <2>9. IsWhole(x.data)' /\ x.step = "truncate"
        BY <1>3, <1>4, <2>8, WholeStays
    <2> QED BY <1>4, <1>6, <2>1, <2>9, MainStops
<1> QED BY <1>5, <1>6

LEMMA TruncateStops ==
    ASSUME Inv, StopInv, NEW s \in DOMAIN saver, Truncate(s)
    PROVE  StopInv'
<1>1. /\ s \in {"bgSaver", "main"} /\ (s = "main" => server = "flushing")
      /\ Quiet /\ ~raced => s = "main" /\ server = "flushing"
    BY SaverSteps DEF Truncate
<1>2. PICK x : x = [saver[s] EXCEPT !.step = "write"]
    OBVIOUS
<1>3. saver' = [saver EXCEPT ![s] = x] /\ UNCHANGED <<server, request, raced>> /\ Frozen
      /\ file' = [is |-> "empty"]
    BY <1>2 DEF Truncate, Frozen, tables
<1>4. CASE ~Quiet \/ raced
    BY <1>1, <1>3, <1>4, RacingStops
<1>5. CASE Quiet /\ ~raced
    <2>1. s = "main" /\ server = "flushing" /\ IsWhole(saver[s].data)
        BY <1>1, <1>5 DEF Truncate, StopInv, MainSaves
    <2>2. saver[s] = [step |-> saver[s].step, data |-> saver[s].data]
        BY DEF Truncate, Inv, SaverInv, IsSaver
    <2>3. x.step = "write" /\ x.data = saver[s].data
        BY <1>2, <2>2
    <2>4. IsWhole(x.data)'
        BY <1>3, <2>1, <2>3, WholeStays
    <2> QED BY <1>3, <1>5, <2>1, <2>3, <2>4, MainStops
<1> QED BY <1>4, <1>5

LEMMA WriteStops ==
    ASSUME Inv, StopInv, NEW s \in DOMAIN saver, Write(s)
    PROVE  StopInv'
<1>1. /\ s \in {"bgSaver", "main"} /\ (s = "main" => server = "flushing")
      /\ Quiet /\ ~raced => s = "main" /\ server = "flushing"
    BY SaverSteps DEF Write
<1>2. saver' = [saver EXCEPT ![s] = Idle] /\ UNCHANGED <<request, raced>> /\ Frozen
      /\ server' = IF s = "main" THEN "stopped" ELSE server
    BY DEF Write, Frozen, tables
<1>3. saver' = [t \in {"bgSaver", "main"} |-> IF t = s THEN Idle ELSE saver[t]]
    BY <1>2 DEF Inv, SaverInv
<1>4. CASE s = "bgSaver"
    BY <1>1, <1>2, <1>4, RacingStops
<1>5. CASE s = "main"
    <2>1. server = "flushing" /\ server' = "stopped" /\ Quiet /\ saver'["main"] = Idle
          /\ saver'["bgSaver"] = saver["bgSaver"]
        BY <1>1, <1>2, <1>3, <1>5 DEF Quiet
    <2>2. ~raced => IsWhole(file)'
        <3> SUFFICES ASSUME ~raced PROVE IsWhole(file)'
            OBVIOUS
        <3>1. IsWhole(saver["main"].data) /\ file.is = "empty"
            BY <1>5, <2>1 DEF Write, StopInv, MainSaves
        <3>2. file' = saver["main"].data
            BY <1>5, <3>1 DEF Write
        <3> QED BY <1>2, <3>1, <3>2, WholeStays
    <2> QED BY <1>2, <2>1, <2>2 DEF StopInv, Quiet, MainSaves
<1> QED BY <1>1, <1>4, <1>5

LEMMA StartSaveStops ==
    ASSUME Inv, StopInv, StartSave
    PROVE  StopInv'
<1>1. /\ saver' = [saver EXCEPT !["bgSaver"] = NewClone] /\ "bgSaver" \in DOMAIN saver
      /\ UNCHANGED <<server, request>> /\ (~Quiet \/ raced')
    BY DEF StartSave, NewClone, Inv, SaverInv, Up, Quiet
<1> QED BY <1>1, RacingStops

LEMMA ServeReturnsStops ==
    ASSUME Inv, StopInv, ServeReturns
    PROVE  StopInv'
<1>1. /\ saver' = [saver EXCEPT !["main"] = NewClone] /\ server' = "flushing"
      /\ UNCHANGED request /\ \A c \in Client : request[c] = Idle
      /\ raced' = (saver["bgSaver"] # Idle) /\ Frozen
    BY DEF ServeReturns, NewClone, Frozen, tables
<1>2. saver' = [t \in {"bgSaver", "main"} |-> IF t = "main" THEN NewClone ELSE saver[t]]
    BY <1>1 DEF Inv, SaverInv
<1>3. IsWholeSoFar(NewClone, 0)
    BY DEF IsWholeSoFar, NewClone
<1>4. Cardinality(DOMAIN NewClone.slices) = 0
    BY FS_EmptySet DEF NewClone, Empty
<1>5. IsWholeSoFar(NewClone, 0)'
    <2>1. PICK x : x = NewClone
        OBVIOUS
    <2>2. NewClone' = NewClone
        BY <1>1 DEF NewClone, Frozen
    <2>3. IsWholeSoFar(x, 0)'
        BY <1>1, <1>3, <2>1, WholeStays
    <2> QED BY <2>1, <2>2, <2>3
<1> QED
    <2>1. PICK x : x = NewClone
        OBVIOUS
    <2>2. saver'["main"] = x /\ x.step = "clone" /\ saver'["bgSaver"] = saver["bgSaver"]
        BY <1>2, <2>1 DEF NewClone
    <2>3. IsWholeSoFar(x, Cardinality(DOMAIN x.slices))'
        <3>1. IsWholeSoFar(x, 0)'
            BY <1>1, <1>3, <2>1, WholeStays
        <3> QED BY <1>4, <2>1, <3>1
    <2>4. MainSaves'
        BY <1>1, <2>2, <2>3 DEF MainSaves
    <2> QED BY <1>1, <2>2, <2>4 DEF StopInv

LEMMA NextStops ==
    ASSUME Inv, StopInv, [Next]_vars
    PROVE  StopInv'
<1>1. CASE OpenAccount
    BY <1>1, BusyStops DEF OpenAccount, Quiet
<1>2. CASE CloseAccount
    BY <1>2, BusyStops, DieStops DEF CloseAccount, Quiet
<1>3. CASE GetAccounts
    BY <1>3, DieStops DEF GetAccounts
<1>4. ASSUME NEW c \in Client, LookupSource(c)
      PROVE  StopInv'
    BY <1>4, BusyStops DEF LookupSource, Quiet
<1>5. ASSUME NEW c \in Client, LookupDest(c) \/ Debit(c) \/ Credit(c)
      PROVE  StopInv'
    <2>1. ~Quiet
        <3>1. request[c].step \in {"lookup", "debit", "credit"}
            BY <1>5 DEF LookupDest, Debit, Credit
        <3> QED BY <3>1 DEF StopInv, Idle
    <2>2. Die \/ UNCHANGED <<saver, server>>
        BY <1>5 DEF LookupDest, Debit, Credit
    <2> QED BY <2>1, <2>2, BusyStops, DieStops
<1>6. CASE Signal
    <2>1. server' = "stopping" /\ server = "up" /\ saver' = saver
        BY <1>6 DEF Signal
    <2> QED BY <2>1 DEF StopInv, Quiet
<1>7. CASE Kill
    BY <1>7, DieStops DEF Kill
<1>8. CASE Load
    BY <1>8 DEF Load, StopInv, Quiet, NoSavers
<1>9. CASE UNCHANGED vars
    <2>1. Frozen /\ UNCHANGED <<saver, server, request, raced, file>>
        BY <1>9 DEF vars, tables, Frozen
    <2>2. MainSaves => MainSaves'
        BY <2>1, WholeStays DEF MainSaves
    <2> QED BY <2>1, <2>2 DEF StopInv, Quiet
<1> QED BY <1>1, <1>2, <1>3, <1>4, <1>5, <1>6, <1>7, <1>8, <1>9, StartSaveStops, ServeReturnsStops,
           CopyListStops, CopyAccountStops, MarshalStops, TruncateStops, WriteStops DEF Next

(* A server stopped by a signal has saved every account of every customer    *)
(* with all its entries, unless the background saver overlapped the last     *)
(* flush (main.go, db.go flush): for any clients, customers and amounts, and *)
(* however often the server died and was started before.                     *)
THEOREM StoppedMeansSaved == Spec => []StopSaves
<1>1. Init => StopInv
    BY DEF Init, StopInv, Quiet, NoSavers
<1>2. Init => Inv
    BY InitInv
<1>3. Inv /\ [Next]_vars => Inv'
    BY NextInv
<1>4. Inv /\ StopInv /\ [Next]_vars => StopInv'
    BY NextStops
<1>5. StopInv => StopSaves
    BY DEF StopInv, StopSaves, MainSaves, IsWhole, Quiet
<1> QED BY <1>1, <1>2, <1>3, <1>4, <1>5, PTL DEF Spec
=============================================================================
