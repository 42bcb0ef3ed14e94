------------------------------- MODULE MCBank -------------------------------
(* Two clients and two customers; the integers are 3 bits wide, so that the   *)
(* second deposit overflows.                                                  *)
EXTENDS Bank, TLC

MCSymmetry == Permutations(Client) \cup Permutations(Customer)
=============================================================================
