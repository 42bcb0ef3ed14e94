-------------------------------- MODULE Bank --------------------------------
(***************************************************************************)
(* The accounts of the demo bank (bank.go, db.go) and the server around     *)
(* them (main.go): requests of several clients, each a few critical         *)
(* sections long, the background saver that copies the accounts while they  *)
(* are used, and the server's end, by a signal, a kill or a panic, and      *)
(* restart from its file.                                                   *)
(*                                                                          *)
(* An account is a position in heap, the pointer the code passes around.    *)
(* The lists of account numbers are slices: an array that they may share    *)
(* with the copy being saved, and a length.  AccountNumbers is left out: it *)
(* is never read.                                                           *)
(***************************************************************************)
EXTENDS Integers, Sequences, FiniteSets, SequencesExt, FiniteSetsExt

CONSTANTS
    Client,       \* connections, one request at a time each
    Customer,
    Amount,       \* the positive amounts in requests
    MaxInt32,
    MaxAccounts,  \* bounds: accounts in heap,
    MaxWork,      \* requests that change something and background saves, in all,
    MaxRestarts   \* and starts of the server after the first

(* Amounts are int32 values, and only so many connections are ever made. *)
ASSUME BankAssumption ==
    MaxInt32 \in Nat /\ Amount \subseteq 1..MaxInt32 /\ IsFiniteSet(Client)

VARIABLES
    heap,       \* every account made since the start, also those closed
    byNumber,   \* AccountsByNumber
    lists,      \* AccountNumbersByCustomer, for the customers that have a list
    arrays,     \* the arrays behind the lists; 0 where nothing was stored yet
    customers,  \* Customers
    last,       \* LastAccountNum
    request,    \* what each client's request is doing
    saver,      \* the two goroutines that may flush
    file,       \* the data file: whether it is "none", "empty", "garbled" or
                \* "saved", and then what was saved
    server,     \* "up", "stopping", "flushing", "stopped", "dead"
    raced,      \* whether a background save overlapped the last flush
    outside,    \* ghost: what came in from outside less what went out
    lost,       \* ghost: debited by transfers whose credit was refused
    stranded,   \* ghost: held by accounts no number stands for any more
    count       \* work and restarts so far

tables == <<byNumber, lists, arrays, customers, last>>
ghosts == <<outside, lost, stranded>>
vars == <<heap, tables, request, saver, file, server, raced, ghosts, count>>

Number == 1..MaxAccounts
Nil == 0        \* no account, and an external source or destination

Wrap(n) == ((n + MaxInt32 + 1) % (2 * (MaxInt32 + 1))) - (MaxInt32 + 1)

Idle == [step |-> "idle"]
Empty == [x \in {} |-> Nil]

NoRequests == [c \in Client |-> Idle]
NoSavers == [s \in {"bgSaver", "main"} |-> Idle]

Init ==
    /\ heap = <<>> /\ byNumber = Empty /\ lists = Empty /\ arrays = <<>>
    /\ customers = <<>> /\ last = 0
    /\ request = NoRequests /\ saver = NoSavers
    /\ file = [is |-> "none"] /\ server = "up" /\ raced = FALSE
    /\ outside = 0 /\ lost = 0 /\ stranded = 0
    /\ count = [work |-> 0, restarts |-> 0]

---------------------------------------------------------------------------
(* Slices *)

Elements(slice) == SubSeq(arrays[slice.array], 1, slice.len)

(* arrays and the slice after append: in place if there is room. *)
Appended(slice, number) ==
    LET cap == Len(arrays[slice.array])
    IN  IF slice.len < cap
        THEN [arrays |-> [arrays EXCEPT ![slice.array][slice.len + 1] = number],
              slice |-> [slice EXCEPT !.len = @ + 1]]
        ELSE [arrays |-> Append(arrays, Elements(slice) \o <<number>>
                                          \o [i \in 1..(cap - 1) |-> 0]),
              slice |-> [array |-> Len(arrays) + 1, len |-> slice.len + 1]]

(* Mutant of Shifted: the first element moved is the one behind it. *)
ShiftedLate(slice, i) ==
    [arrays EXCEPT ![slice.array] =
        [k \in DOMAIN @ |-> IF k \in (i + 1)..(slice.len - 1) THEN @[k + 1] ELSE @[k]]]

(* append(s[:i], s[i+1:]...) moves the elements behind i in the array. *)
Shifted(slice, i) ==
    [arrays EXCEPT ![slice.array] =
        [k \in DOMAIN @ |-> IF k \in i..(slice.len - 1) THEN @[k + 1] ELSE @[k]]]

Listed(customer, number) ==
    customer \in DOMAIN lists /\ number \in ToSet(Elements(lists[customer]))

Account(number) == IF number \in DOMAIN byNumber THEN byNumber[number] ELSE Nil

(* The accounts a number stands for: no request that starts finds another.   *)
Reachable == {byNumber[n] : n \in DOMAIN byNumber}

MoreWork ==
    /\ count.work < MaxWork
    /\ count' = [count EXCEPT !.work = @ + 1]

---------------------------------------------------------------------------
(* Requests.  One that is refused for its amount, its type, or because no   *)
(* customer is authenticated changes nothing, and is left out.              *)

(* A kill, or a nil pointer dereferenced in any goroutine: the process ends  *)
(* and what was in memory is gone.                                          *)
Die ==
    /\ server' = "dead"
    /\ heap' = <<>> /\ byNumber' = Empty /\ lists' = Empty /\ arrays' = <<>>
    /\ customers' = <<>> /\ last' = 0
    /\ request' = NoRequests /\ saver' = NoSavers
    /\ raced' = FALSE /\ outside' = 0 /\ lost' = 0 /\ stranded' = 0

(* After a restart the number may be one that is in use: the account it      *)
(* stood for can no longer be found.                                        *)
openAccount(customer, initial) ==
    LET made == IF customer \in DOMAIN lists THEN Appended(lists[customer], last + 1)
                ELSE [arrays |-> Append(arrays, <<last + 1>>),
                      slice |-> [array |-> Len(arrays) + 1, len |-> 1]]
    IN  /\ last' = last + 1
        /\ customers' = IF customer \in DOMAIN lists THEN customers
                        ELSE Append(customers, customer)
        /\ arrays' = made.arrays
        /\ lists' = [c \in DOMAIN lists \cup {customer} |->
                       IF c = customer THEN made.slice ELSE lists[c]]
        /\ heap' = Append(heap, [entries |-> <<initial>>, balance |-> initial,
                                 restored |-> FALSE])
        /\ byNumber' = [n \in DOMAIN byNumber \cup {last + 1} |->
                          IF n = last + 1 THEN Len(heap) + 1 ELSE byNumber[n]]
        /\ outside' = outside + initial
        /\ stranded' = stranded + (IF last + 1 \in DOMAIN byNumber
                                   THEN heap[byNumber[last + 1]].balance ELSE 0)

OpenAccount ==
    /\ server = "up" /\ Len(heap) < MaxAccounts
    /\ MoreWork
    /\ \E customer \in Customer, initial \in Amount \cup {0} : openAccount(customer, initial)
    /\ UNCHANGED <<request, saver, file, server, raced, lost>>

(* Mutant of closeAccount: the balance is not looked at. *)
closeAccountUnchecked(customer, number) ==
    LET slice == lists[customer]
        found == SelectInSeq(Elements(slice), LAMBDA n : n = number)
    IN  /\ arrays' = Shifted(slice, found)
        /\ lists' = [lists EXCEPT ![customer].len = @ - 1]
        /\ byNumber' = [n \in DOMAIN byNumber \ {number} |-> byNumber[n]]

(* The balance is read without the account's lock, and the account deleted   *)
(* later.  One step is enough for both: no request can look the account up   *)
(* in between, and what one that already has it enters there in between is   *)
(* as if entered after the close: the account is found by nobody either way. *)
closeAccount(customer, number) ==
    LET slice == lists[customer]
        found == SelectInSeq(Elements(slice), LAMBDA n : n = number)
    IN  /\ heap[byNumber[number]].balance = 0
        /\ arrays' = Shifted(slice, found)
        /\ lists' = [lists EXCEPT ![customer].len = @ - 1]
        /\ byNumber' = [n \in DOMAIN byNumber \ {number} |-> byNumber[n]]

CloseAccount ==
    /\ server = "up" /\ MoreWork
    /\ \E customer \in Customer, number \in Number :
        /\ Listed(customer, number)
        /\ IF Account(number) = Nil
           THEN Die
           ELSE /\ closeAccount(customer, number)
                /\ UNCHANGED <<heap, customers, last, request, saver, server, raced, ghosts>>
    /\ UNCHANGED file

(* GetAccounts and GetTransactions change nothing, unless a number that is  *)
(* listed has no account.                                                   *)
GetAccounts ==
    /\ server = "up"
    /\ \E customer \in Customer, number \in Number :
        Listed(customer, number) /\ Account(number) = Nil
    /\ Die
    /\ UNCHANGED <<file, count>>

(* Transfer, Deposit (from outside) and Withdraw (to outside).  Transfer    *)
(* alone takes an account that is nil for an external one; the others       *)
(* dereference it.                                                          *)
Request ==
    [op : {"transfer"}, src : Number \cup {Nil}, dest : Number, amount : Amount]
        \cup [op : {"transfer"}, src : Number, dest : {Nil}, amount : Amount]
        \cup [op : {"deposit"}, src : {Nil}, dest : Number, amount : Amount]
        \cup [op : {"withdraw"}, src : Number, dest : {Nil}, amount : Amount]

LookupSource(c) ==
    /\ server = "up" /\ request[c] = Idle /\ MoreWork
    /\ \E customer \in Customer, r \in Request :
        /\ r.src # Nil => Listed(customer, r.src)
        /\ r.src = Nil => Listed(customer, r.dest)
        /\ request' = [request EXCEPT ![c] =
                         [step |-> "lookup", customer |-> customer, op |-> r.op,
                          dest |-> r.dest, amount |-> r.amount, from |-> Account(r.src)]]
    /\ UNCHANGED <<heap, tables, saver, file, server, raced, ghosts>>

LookupDest(c) ==
    /\ request[c].step = "lookup"
    /\ LET r == request[c]
       IN  request' = [request EXCEPT ![c] =
                         IF r.dest # Nil /\ ~Listed(r.customer, r.dest) THEN Idle
                         ELSE [step |-> "debit", op |-> r.op, amount |-> r.amount,
                               from |-> r.from, to |-> Account(r.dest)]]
    /\ UNCHANGED <<heap, tables, saver, file, server, raced, ghosts, count>>

(* Mutant of Refused: the balance is compared before the addition can wrap. *)
RefusedWide(account, amount) == heap[account].balance + amount < 0

(* newTransaction; an overflow makes the balance negative and is refused as *)
(* insufficient funds.                                                      *)
Refused(account, amount) == Wrap(heap[account].balance + amount) < 0

newTransaction(account, amount) ==
    /\ heap' = [heap EXCEPT ![account].balance = Wrap(@ + amount),
                            ![account].entries = Append(@, amount)]
    /\ stranded' = stranded + (IF account \in Reachable THEN 0 ELSE amount)

Debit(c) ==
    /\ request[c].step = "debit"
    /\ LET r == request[c]
       IN  IF r.op = "withdraw" /\ r.from = Nil THEN Die
           ELSE /\ \/ /\ r.from = Nil
                      /\ outside' = outside + r.amount
                      /\ request' = [request EXCEPT ![c].step = "credit"]
                      /\ UNCHANGED <<heap, stranded>>
                   \/ /\ r.from # Nil /\ Refused(r.from, -r.amount)
                      /\ request' = [request EXCEPT ![c] = Idle]
                      /\ UNCHANGED <<heap, outside, stranded>>
                   \/ /\ r.from # Nil /\ ~Refused(r.from, -r.amount)
                      /\ newTransaction(r.from, -r.amount)
                      /\ request' = [request EXCEPT ![c].step = "credit"]
                      /\ UNCHANGED outside
                /\ UNCHANGED <<tables, saver, server, raced, lost>>
    /\ UNCHANGED <<file, count>>

(* Nothing undoes the debit if the credit is refused. *)
Credit(c) ==
    /\ request[c].step = "credit"
    /\ LET r == request[c]
       IN  IF r.op = "deposit" /\ r.to = Nil THEN Die
           ELSE /\ \/ /\ r.to = Nil
                      /\ outside' = outside - r.amount
                      /\ UNCHANGED <<heap, lost, stranded>>
                   \/ /\ r.to # Nil /\ Refused(r.to, r.amount)
                      /\ outside' = outside - (IF r.from = Nil THEN r.amount ELSE 0)
                      /\ lost' = lost + (IF r.from = Nil THEN 0 ELSE r.amount)
                      /\ UNCHANGED <<heap, stranded>>
                   \/ /\ r.to # Nil /\ ~Refused(r.to, r.amount)
                      /\ newTransaction(r.to, r.amount)
                      /\ UNCHANGED <<outside, lost>>
                /\ request' = [request EXCEPT ![c] = Idle]
                /\ UNCHANGED <<tables, saver, server, raced>>
    /\ UNCHANGED <<file, count>>

---------------------------------------------------------------------------
(* flush, by the background saver and at the end by main: clone reads a     *)
(* list or an account at a time, its slices share the arrays of the lists,  *)
(* and what is in them is read again when the copy is marshalled.           *)

Up == server \in {"up", "stopping", "flushing"}

StartSave ==
    /\ Up /\ saver["bgSaver"] = Idle /\ MoreWork
    /\ saver' = [saver EXCEPT !["bgSaver"] =
                   [step |-> "clone", customers |-> customers, slices |-> Empty,
                    copies |-> Empty, next |-> 1]]
    /\ raced' = (server = "flushing")
    /\ UNCHANGED <<heap, tables, request, file, server, ghosts>>

(* The customer whose list is being copied, once its slice is taken. *)
CurrentSlice(s) == saver[s].slices[saver[s].customers[Cardinality(DOMAIN saver[s].slices)]]
ListDone(s) ==
    IF DOMAIN saver[s].slices = {} THEN TRUE ELSE saver[s].next > CurrentSlice(s).len
CloneDone(s) == ListDone(s) /\ DOMAIN saver[s].slices = ToSet(saver[s].customers)

CopyList(s) ==
    /\ Up /\ saver[s].step = "clone"
    /\ ListDone(s) /\ ~CloneDone(s)
    /\ LET customer == saver[s].customers[Cardinality(DOMAIN saver[s].slices) + 1]
       IN  saver' = [saver EXCEPT ![s].next = 1,
                        ![s].slices = [c \in DOMAIN @ \cup {customer} |->
                                         IF c = customer THEN lists[c] ELSE @[c]]]
    /\ UNCHANGED <<heap, tables, request, file, server, raced, ghosts, count>>

(* The number is read from the array as it is now; its account may have     *)
(* been closed since.                                                       *)
CopyAccount(s) ==
    /\ Up /\ saver[s].step = "clone" /\ ~ListDone(s)
    /\ LET number == arrays[CurrentSlice(s).array][saver[s].next]
       IN  IF Account(number) = Nil
           THEN Die
           ELSE /\ saver' = [saver EXCEPT ![s].next = @ + 1,
                               ![s].copies = [n \in DOMAIN @ \cup {number} |->
                                                IF n = number THEN heap[Account(n)].entries
                                                ELSE @[n]]]
                /\ UNCHANGED <<heap, tables, request, server, raced, ghosts>>
    /\ UNCHANGED <<file, count>>

(* The saved accounts have entries but no balance, and LastAccountNum is 0. *)
(* The lists are read in one step: that a close may shift an array while it  *)
(* is read is left out, for no property is about the lists in a file that    *)
(* was written while accounts were closed.                                   *)
Marshal(s) ==
    /\ Up /\ saver[s].step = "clone" /\ CloneDone(s)
    /\ LET slices == saver[s].slices
       IN  saver' = [saver EXCEPT ![s] =
                       [step |-> "truncate",
                        data |-> [is |-> "saved",
                                  customers |-> saver[s].customers,
                                  lists |-> [c \in DOMAIN slices |-> Elements(slices[c])],
                                  accounts |-> saver[s].copies]]]
    /\ UNCHANGED <<heap, tables, request, file, server, raced, ghosts, count>>

Truncate(s) ==
    /\ Up /\ saver[s].step = "truncate"
    /\ file' = [is |-> "empty"]
    /\ saver' = [saver EXCEPT ![s].step = "write"]
    /\ UNCHANGED <<heap, tables, request, server, raced, ghosts, count>>

(* Each writes from the start of the file: what another wrote since it was  *)
(* truncated is overwritten, its end excepted if it was longer.             *)
Write(s) ==
    /\ Up /\ saver[s].step = "write"
    /\ file' \in {saver[s].data}
                 \cup (IF file.is = "empty" \/ file = saver[s].data THEN {} ELSE {[is |-> "garbled"]})
    /\ saver' = [saver EXCEPT ![s] = Idle]
    /\ server' = IF s = "main" THEN "stopped" ELSE server
    /\ UNCHANGED <<heap, tables, request, raced, ghosts, count>>

---------------------------------------------------------------------------
(* The server *)

(* GracefulStop: no new requests, and Serve returns when all have ended.    *)
Signal ==
    /\ server = "up"
    /\ server' = "stopping"
    /\ UNCHANGED <<heap, tables, request, saver, file, raced, ghosts, count>>

(* Mutant of ServeReturns: Stop, not GracefulStop. *)
ServeReturnsAtOnce ==
    /\ server = "stopping"
    /\ server' = "flushing"
    /\ saver' = [saver EXCEPT !["main"] =
                   [step |-> "clone", customers |-> customers, slices |-> Empty,
                    copies |-> Empty, next |-> 1]]
    /\ raced' = (saver["bgSaver"] # Idle)
    /\ UNCHANGED <<heap, tables, request, file, ghosts, count>>

ServeReturns ==
    /\ server = "stopping" /\ \A c \in Client : request[c] = Idle
    /\ server' = "flushing"
    /\ saver' = [saver EXCEPT !["main"] =
                   [step |-> "clone", customers |-> customers, slices |-> Empty,
                    copies |-> Empty, next |-> 1]]
    /\ raced' = (saver["bgSaver"] # Idle)
    /\ UNCHANGED <<heap, tables, request, file, ghosts, count>>

Kill ==
    /\ Up
    /\ Die
    /\ UNCHANGED <<file, count>>

(* load; a file that cannot be decoded ends the server.  How much room a    *)
(* decoded slice has is the decoder's choice.                               *)
Load ==
    /\ ~Up /\ count.restarts < MaxRestarts /\ file.is # "garbled"
    /\ LET saved == IF file.is = "saved" THEN file
                    ELSE [customers |-> <<>>, lists |-> Empty, accounts |-> Empty]
           numbers == SetToSeq(DOMAIN saved.accounts)
       IN  /\ heap' = [k \in DOMAIN numbers |->
                         [entries |-> saved.accounts[numbers[k]], balance |-> 0,
                          restored |-> TRUE]]
           /\ byNumber' = [n \in DOMAIN saved.accounts |-> SelectInSeq(numbers, LAMBDA m : m = n)]
           /\ customers' = saved.customers
           /\ \E room \in 0..1 :
                arrays' = [k \in DOMAIN customers' |->
                             saved.lists[customers'[k]] \o [i \in 1..room |-> 0]]
           /\ lists' = [c \in DOMAIN saved.lists |->
                          [array |-> SelectInSeq(customers', LAMBDA d : d = c), len |-> Len(saved.lists[c])]]
    /\ last' = 0
    /\ request' = NoRequests /\ saver' = NoSavers
    /\ server' = "up" /\ raced' = FALSE
    /\ outside' = 0 /\ lost' = 0 /\ stranded' = 0
    /\ count' = [count EXCEPT !.restarts = @ + 1]
    /\ UNCHANGED file

Next ==
    \/ OpenAccount \/ CloseAccount \/ GetAccounts
    \/ \E c \in Client : LookupSource(c) \/ LookupDest(c) \/ Debit(c) \/ Credit(c)
    \/ StartSave
    \/ \E s \in DOMAIN saver :
        CopyList(s) \/ CopyAccount(s) \/ Marshal(s) \/ Truncate(s) \/ Write(s)
    \/ Signal \/ ServeReturns \/ Kill \/ Load

Spec == Init /\ [][Next]_vars

---------------------------------------------------------------------------
(* Properties *)

(* The accounts made since the last start behave as module Ledger promises, *)
(* whatever requests, saves and deaths of the server interleave: balances   *)
(* are the sums of the entries and never negative or too large, entries are *)
(* never changed or lost, and an account is closed only when it is empty.   *)
(* Restored accounts are left out: their balances are not the sums.         *)
Restored == Cardinality({k \in DOMAIN heap : heap[k].restored})
New == 1..(Len(heap) - Restored)

Entries == [k \in New |-> heap[Restored + k].entries]
Closed == {k \in New : \A n \in DOMAIN byNumber : byNumber[n] # Restored + k}

Accounts == INSTANCE Ledger WITH entries <- Entries, closed <- Closed

ImplementsLedger == Accounts!Spec

(* Since the server last started, whatever its requests interleave, all the  *)
(* money is accounted for: what the accounts hold that can be found and what *)
(* transfers carry is what came in from outside less what went out, but for  *)
(* what was lost in transfers whose credit would have overflowed and what is *)
(* held by accounts nobody finds, those that were closed while a request     *)
(* held them and those whose number was given out again.  A start restores   *)
(* no balance: what was held before it is gone.                              *)
Balances == [k \in DOMAIN heap |-> IF k \in Reachable THEN heap[k].balance ELSE 0]
Carried == [c \in Client |-> IF request[c].step = "credit" THEN request[c].amount ELSE 0]

Conserved == SumFunction(Balances) + SumFunction(Carried) + lost + stranded = outside

(* As long as no account was restored from a file, every account number is   *)
(* in the list of one customer, once, and stands for an account; after that  *)
(* numbers are given out again and lists may name accounts that are gone.    *)
OneOwner ==
    (\A k \in DOMAIN heap : ~heap[k].restored) =>
        /\ \A c \in DOMAIN lists : IsInjective(Elements(lists[c]))
        /\ \A c, d \in DOMAIN lists :
             c # d => ToSet(Elements(lists[c])) \cap ToSet(Elements(lists[d])) = {}
        /\ DOMAIN byNumber = UNION {ToSet(Elements(lists[c])) : c \in DOMAIN lists}

(* A server that was stopped by a signal left every account of every         *)
(* customer in the file, with all its entries, unless the background saver   *)
(* was still writing at the end: nothing waits for it.                       *)
StopSaves ==
    server = "stopped" /\ ~raced =>
        /\ file.is = "saved" /\ file.customers = customers
        /\ \A c \in DOMAIN lists :
             /\ file.lists[c] = Elements(lists[c])
             /\ \A n \in ToSet(file.lists[c]) :
                  file.accounts[n] = heap[byNumber[n]].entries
=============================================================================
