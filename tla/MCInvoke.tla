------------------------------ MODULE MCInvoke ------------------------------
(* Every body of at most two items, of which only the last may be bad. *)
EXTENDS Invoke

MCBodies ==
    {<<>>} \cup {<<i>> : i \in Item}
           \cup {<<i, j>> : i \in Item \ {"bad"}, j \in Item}
=============================================================================
