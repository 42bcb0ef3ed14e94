--------------------------- MODULE MCHeaderSlices ---------------------------
(* Headers of two words.  Three -H flags leave room for one more header,    *)
(* six leave room for two: append grew the array of AddlHeaders to four and *)
(* to eight.  The two reflection headers fit only in the latter.  One of    *)
(* the requests has a header of its own.                                    *)
EXTENDS HeaderSlices, TLC

CONSTANTS r1, r2, refl1, refl2, refl3, refl4, rpc1, rpc2, own1, own2

MCRequest == {r1, r2}
MCWord == {refl1, refl2, refl3, refl4, rpc1, rpc2, own1, own2}
MCSpares == {2, 4}
MCRefl == <<refl1, refl2, refl3, refl4>>
MCRpc == <<rpc1, rpc2>>
MCOwn == (r1 :> <<own1, own2>>) @@ (r2 :> <<>>)
=============================================================================
