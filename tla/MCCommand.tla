----------------------------- MODULE MCCommand -----------------------------
(* Three files, one of which may define a type that another uses, and three   *)
(* message types.  Descriptor sets of at most two entries with every choice  *)
(* of imports, an entry repeated included, and of three with at most one     *)
(* import each; every world of at most three files.                          *)
EXTENDS Command, TLC

CONSTANTS a, b, c, m, n, o

MCFile == {a, b, c}
MCMessage == {m, n, o}

MCArguments ==
    UNION {[1..k -> {"list", "describe", "server", "word"}] : k \in 0..4}

Imports(k) == UNION {SetToSeqs(s) : s \in {t \in SUBSET MCFile : Cardinality(t) <= k}}
Contents(k) == [deps : Imports(k), defines : SUBSET {m}, uses : SUBSET {m}]
Entries(k) == [name : MCFile, content : Contents(k)]

Plain(content) == content.defines = {} /\ content.uses = {}
Definers(seq) == {i \in DOMAIN seq : seq[i].defines # {}}
Users(seq) == {i \in DOMAIN seq : seq[i].uses # {}}
OnlyOnce(seq) == Cardinality(Definers(seq)) <= 1 /\ Cardinality(Users(seq)) <= 1

MCSets ==
    {s \in UNION {[1..k -> Entries(2)] : k \in 0..2} :
        OnlyOnce([i \in DOMAIN s |-> s[i].content])}
    \cup {s \in [1..3 -> [name : MCFile, content : Contents(1)]] :
            /\ IsInjective([i \in 1..3 |-> s[i].name])
            /\ OnlyOnce([i \in 1..3 |-> s[i].content])}

(* In a world of two files one may use what the other defines.              *)
Plainly(k) == {content \in Contents(k) : Plain(content)}
MCWorlds ==
    {w \in UNION {[s -> Plainly(2)] : s \in SUBSET MCFile} : World(w)}
    \cup {w \in UNION {[s -> Contents(1)] : s \in {t \in SUBSET MCFile : Cardinality(t) = 2}} :
            /\ Cardinality(Definers(w)) = 1 /\ Cardinality(Users(w)) = 1
            /\ Definers(w) # Users(w)
            /\ World(w)}

Field(type, oneof) == [type |-> type, oneof |-> oneof]

(* A chain, two ways to one type, direct and mutual recursion, and oneofs    *)
(* with one, two and three message-typed members.                            *)
MCMessageGraphs ==
    {(m :> <<Field(n, 0)>> @@ n :> <<Field(o, 0)>> @@ o :> <<>>),
     (m :> <<Field(n, 0), Field(o, 1)>> @@ n :> <<Field(o, 0)>> @@ o :> <<Field(m, 0)>>),
     (m :> <<Field(m, 0), Field(n, 0)>> @@ n :> <<>> @@ o :> <<Field(n, 0)>>),
     (m :> <<Field(n, 1), Field(o, 1), Field(o, 0)>> @@ n :> <<Field(m, 0)>> @@ o :> <<Field(n, 2)>>),
     (m :> <<Field(n, 1), Field(m, 2), Field(o, 1), Field(o, 2), Field(n, 2)>>
        @@ n :> <<Field(o, 1)>> @@ o :> <<>>)}

MCSymmetry == Permutations(MCFile)
=============================================================================
