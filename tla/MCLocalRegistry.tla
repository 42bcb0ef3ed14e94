-------------------------- MODULE MCLocalRegistry --------------------------
(* A file of two elements, as in config.yml, the second of which leaves one *)
(* service of the first blank, and a service the file lacks.                *)
EXTENDS LocalRegistry

CONSTANTS a1, a2, a3, testing, greeter, absent

MCActor == {a1, a2, a3}
MCService == {testing, greeter, absent}
MCElement == <<[given |-> {testing}, blank |-> {}],
               [given |-> {greeter}, blank |-> {testing}]>>
=============================================================================
