------------------------------- MODULE Ledger -------------------------------
(***************************************************************************)
(* What the accounts of the demo bank promise between two starts of the     *)
(* server: each is a list of entries made one at a time, never sums to less *)
(* than zero or more than an int32 holds, and is closed only when it sums   *)
(* to zero.  An entry may still be made in a closed account, by a request   *)
(* that had looked the account up before.                                   *)
(***************************************************************************)
EXTENDS Integers, Sequences, Functions

CONSTANT MaxInt32

VARIABLES
    entries, \* the accounts opened so far, each as the sequence of its amounts
    closed   \* those that are closed, as positions in entries

Total(account) == SumFunction(account)

Init == entries = <<>> /\ closed = {}

Open ==
    /\ \E amount \in 0..MaxInt32 : entries' = Append(entries, <<amount>>)
    /\ UNCHANGED closed

Enter ==
    /\ \E k \in DOMAIN entries, amount \in -MaxInt32..MaxInt32 :
        /\ Total(entries[k]) + amount \in 0..MaxInt32
        /\ entries' = [entries EXCEPT ![k] = Append(@, amount)]
    /\ UNCHANGED closed

Close ==
    /\ \E k \in DOMAIN entries \ closed :
        /\ Total(entries[k]) = 0
        /\ closed' = closed \cup {k}
    /\ UNCHANGED entries

Restart == entries' = <<>> /\ closed' = {}

Next == Open \/ Enter \/ Close \/ Restart

Spec == Init /\ [][Next]_<<entries, closed>>
=============================================================================
