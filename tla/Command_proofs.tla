--------------------------- MODULE Command_proofs ---------------------------
(***************************************************************************)
(* Proofs about the command-line tool, for every set of files, of message   *)
(* types and of command lines: it leaves nothing open; what a template      *)
(* leaves out; a descriptor set is loaded exactly when it can be; and what  *)
(* the tool writes it can load, unless its sources disagree.                *)
(*                                                                         *)
(* The algorithms recurse and fold.  What FoldLeft and a recursive function *)
(* compute is derived here from induction over sets of naturals: folds by   *)
(* the number of rounds, a template by the number of types not yet on the   *)
(* path, loading by the depth of the stack, the other two by the number of  *)
(* files not yet seen.                                                      *)
(***************************************************************************)
EXTENDS Command, FiniteSetTheorems, SequenceTheorems, TLAPS

(* The steps before config.Exit is replaced, and those after it. *)
Early == {"flags", "args", "check", "expand", "files", "load", "loaded", "reflection"}
Verbs == {"list", "describe", "invoke"}
Late == Verbs \cup {"describing", "write", "invoked", "return"}

NothingOpen == cc # "open" /\ refClient # "live"

(* Nothing is opened until config.Exit is replaced; from then on it resets. *)
Steps == pc \in Early \cup Late \cup {"exited"}
VerbKnown == pc \in Early \ {"flags", "args"} => verb \in Verbs
NothingYet == pc \in Early => NothingOpen
Hooked == pc \in Late => hook
Shut == pc = "exited" => NothingOpen
Running == exit # "running" => pc = "exited"

IInv == Steps /\ VerbKnown /\ NothingYet /\ Hooked /\ Shut /\ Running

---------------------------------------------------------------------------
(* Ways for a step to end *)

(* config.Exit closes what is open, in whatever step it is called. *)
LEMMA ExitKeeps ==
    ASSUME IInv, NEW code, Exit(code), pc # "exited"
    PROVE  IInv'
<1>1. pc \in Early \/ pc \in Late
    BY DEF IInv, Steps
<1>2. NothingOpen'
    <2>1. CASE hook
        BY <2>1, Zenon DEF Exit, Reset, NothingOpen
    <2>2. CASE ~hook
        <3>1. pc \in Early
            BY <1>1, <2>2 DEF IInv, Hooked
        <3>2. NothingOpen
            BY <3>1 DEF IInv, NothingYet
        <3> QED BY <2>2, <3>2 DEF Exit, conn, NothingOpen
    <2> QED BY <2>1, <2>2
<1> QED BY <1>2 DEF Exit, IInv, Steps, VerbKnown, NothingYet, Hooked, Shut, Running,
                    Early, Late, Verbs

(* An end without a reset, while nothing is open. *)
LEMMA EndKeeps ==
    ASSUME IInv, pc' = "exited", NothingOpen, UNCHANGED <<cc, refClient>>
    PROVE  IInv'
BY DEF IInv, Steps, VerbKnown, NothingYet, Hooked, Shut, Running, Early, Late, Verbs, NothingOpen

(* A step to another step before the hook is set. *)
LEMMA EarlyKeeps ==
    ASSUME IInv, pc \in Early, NEW step \in Early, Goto(step),
           step \in {"flags", "args"} \/ verb' \in Verbs, UNCHANGED conn
    PROVE  IInv'
BY DEF Goto, conn, IInv, Steps, VerbKnown, NothingYet, Hooked, Shut, Running,
       Early, Late, Verbs, NothingOpen

(* A step to one after the hook is set. *)
LEMMA LateKeeps ==
    ASSUME IInv, pc # "exited", NEW step \in Late, Goto(step), hook'
    PROVE  IInv'
BY DEF Goto, IInv, Steps, VerbKnown, NothingYet, Hooked, Shut, Running, Early, Late, Verbs

---------------------------------------------------------------------------
LEMMA InitIInv == Init => IInv
BY DEF Init, IInv, Steps, VerbKnown, NothingYet, Hooked, Shut, Running, Early, Late, Verbs, NothingOpen

LEMMA NextIInv == IInv /\ [Next]_vars => IInv'
<1> SUFFICES ASSUME IInv, [Next]_vars PROVE IInv'
    OBVIOUS
<1>1. CASE CheckFlags
    <2>1. CASE Exit("0") \/ Exit("2")
        BY <1>1, <2>1, ExitKeeps DEF CheckFlags
    <2>2. CASE Goto("args") /\ UNCHANGED conn
        BY <1>1, <2>2, EarlyKeeps DEF CheckFlags, Early
    <2> QED BY <1>1, <2>1, <2>2 DEF CheckFlags
<1>2. CASE ParseArguments
    <2>1. pc = "args" /\ NothingOpen
        BY <1>2 DEF ParseArguments, IInv, NothingYet, Early
    <2>2. CASE Exit("2")
        BY <2>1, <2>2, ExitKeeps
    <2>3. CASE pc' = "exited" /\ UNCHANGED conn
        BY <2>1, <2>3, EndKeeps DEF conn
    <2>4. CASE verb' \in Verbs /\ Goto("check") /\ UNCHANGED conn
        BY <2>1, <2>4, EarlyKeeps DEF Early
    <2>5. Exit("2") \/ (pc' = "exited" /\ UNCHANGED conn)
              \/ (verb' \in Verbs /\ Goto("check") /\ UNCHANGED conn)
        BY <1>2 DEF ParseArguments, Verbs
    <2> QED BY <2>2, <2>3, <2>4, <2>5
<1>3. CASE CheckSources
    <2>1. pc = "check" /\ verb' \in Verbs
        BY <1>3 DEF CheckSources, cmdline, IInv, VerbKnown, Early
    <2>2. CASE Exit("2")
        BY <2>1, <2>2, ExitKeeps
    <2>3. CASE Goto("expand") /\ UNCHANGED conn
        BY <2>1, <2>3, EarlyKeeps DEF Early
    <2> QED BY <1>3, <2>2, <2>3 DEF CheckSources
<1>4. CASE Expand
    <2>1. pc = "expand" /\ verb' \in Verbs
        BY <1>4 DEF Expand, cmdline, IInv, VerbKnown, Early
    <2>2. CASE Exit("1")
        BY <2>1, <2>2, ExitKeeps
    <2>3. CASE Goto("files") /\ UNCHANGED conn
        BY <2>1, <2>3, EarlyKeeps DEF Early
    <2> QED BY <1>4, <2>2, <2>3 DEF Expand
<1>5. CASE ReadProtosets
    <2>1. pc = "files" /\ verb' \in Verbs
        BY <1>5 DEF ReadProtosets, cmdline, IInv, VerbKnown, Early
    <2>2. CASE Exit("1")
        BY <2>1, <2>2, ExitKeeps
    <2>3. CASE Goto("load") /\ UNCHANGED conn
        BY <2>1, <2>3, EarlyKeeps DEF Early
    <2> QED BY <1>5, <2>2, <2>3 DEF ReadProtosets
<1>6. CASE LoadProtosets
    <2>1. pc = "load" /\ verb' \in Verbs /\ NothingOpen
        BY <1>6 DEF LoadProtosets, cmdline, IInv, VerbKnown, NothingYet, Early
    <2>2. CASE Exit("1")
        BY <2>1, <2>2, ExitKeeps
    <2>3. CASE Goto("loaded") /\ UNCHANGED conn
        BY <2>1, <2>3, EarlyKeeps DEF Early
    <2>4. CASE pc' = "exited" /\ UNCHANGED conn
        BY <2>1, <2>4, EndKeeps DEF conn
    <2>5. Exit("1") \/ (Goto("loaded") /\ UNCHANGED conn) \/ (pc' = "exited" /\ UNCHANGED conn)
        BY <1>6 DEF LoadProtosets
    <2> QED BY <2>2, <2>3, <2>4, <2>5
<1>7. CASE Loaded
    <2>1. pc = "loaded" /\ verb' \in Verbs
        BY <1>7 DEF Loaded, cmdline, IInv, VerbKnown, Early
    <2> QED BY <1>7, <2>1, EarlyKeeps DEF Loaded, Early
<1>8. CASE ParseProtoFiles
    <2>1. pc = "files" /\ verb' \in Verbs
        BY <1>8 DEF ParseProtoFiles, cmdline, IInv, VerbKnown, Early
    <2>2. CASE Exit("1")
        BY <2>1, <2>2, ExitKeeps
    <2>3. CASE Goto("reflection") /\ UNCHANGED conn
        BY <2>1, <2>3, EarlyKeeps DEF Early
    <2> QED BY <1>8, <2>2, <2>3 DEF ParseProtoFiles
<1>9. CASE DialReflection
    <2>1. pc = "reflection" /\ verb \in Late
        BY <1>9 DEF DialReflection, IInv, VerbKnown, Early, Late, Verbs
    <2>2. CASE Exit("1") \/ Exit("2")
        BY <2>1, <2>2, ExitKeeps
    <2>3. CASE hook' = TRUE /\ Goto(verb)
        BY <2>1, <2>3, LateKeeps
    <2> QED BY <1>9, <2>2, <2>3 DEF DialReflection, DialFails
<1>10. CASE NoReflection
    <2>1. pc = "reflection" /\ verb \in Late
        BY <1>10 DEF NoReflection, IInv, VerbKnown, Early, Late, Verbs
    <2> QED BY <1>10, <2>1, LateKeeps DEF NoReflection
<1>11. CASE ListOrDescribeAll
    <2>1. pc \in Late /\ pc # "exited" /\ hook
        BY <1>11 DEF ListOrDescribeAll, IInv, Hooked, Late, Verbs
    <2>2. CASE Exit("1")
        BY <2>1, <2>2, ExitKeeps
    <2>3. CASE Goto(IF verb = "list" THEN "write" ELSE "describing") /\ UNCHANGED conn
        BY <2>1, <2>3, LateKeeps DEF Late, conn
    <2> QED BY <1>11, <2>2, <2>3 DEF ListOrDescribeAll
<1>12. CASE ListOrDescribeOne
    <2>1. pc \in Late /\ pc # "exited" /\ hook
        BY <1>12 DEF ListOrDescribeOne, IInv, Hooked, Late, Verbs
    <2>2. CASE Exit("1")
        BY <2>1, <2>2, ExitKeeps
    <2>3. CASE Goto(IF verb = "list" THEN "write" ELSE "describing") /\ UNCHANGED conn
        BY <2>1, <2>3, LateKeeps DEF Late, conn
    <2> QED BY <1>12, <2>2, <2>3 DEF ListOrDescribeOne
<1>13. CASE Describe
    <2>1. pc = "describing" /\ hook
        BY <1>13 DEF Describe, IInv, Hooked, Late
    <2>2. CASE Exit("1")
        BY <2>1, <2>2, ExitKeeps
    <2>3. CASE Goto("write") /\ UNCHANGED conn
        BY <2>1, <2>3, LateKeeps DEF Late, conn
    <2> QED BY <1>13, <2>2, <2>3 DEF Describe
<1>14. CASE WriteFile
    <2>1. pc = "write" /\ hook
        BY <1>14 DEF WriteFile, IInv, Hooked, Late
    <2>2. CASE Exit("1")
        BY <2>1, <2>2, ExitKeeps
    <2>3. CASE Goto("return") /\ UNCHANGED conn
        BY <2>1, <2>3, LateKeeps DEF Late, conn
    <2> QED BY <1>14, <2>2, <2>3 DEF WriteFile
<1>15. CASE DialForRpc
    <2>1. pc = "invoke" /\ hook
        BY <1>15 DEF DialForRpc, IInv, Hooked, Late, Verbs
    <2>2. CASE Exit("1") \/ Exit("2")
        BY <2>1, <2>2, ExitKeeps
    <2>3. CASE Goto("invoke") /\ UNCHANGED hook
        BY <2>1, <2>3, LateKeeps DEF Late, Verbs
    <2> QED BY <1>15, <2>2, <2>3 DEF DialForRpc, DialFails
<1>16. CASE InvokeRPC
    <2>1. pc = "invoke" /\ hook
        BY <1>16 DEF InvokeRPC, IInv, Hooked, Late, Verbs
    <2>2. CASE Goto("invoked") /\ UNCHANGED conn
        BY <2>1, <2>2, LateKeeps DEF Late, conn
    <2>3. CASE pc' = "exited" /\ Reset
        <3>1. NothingOpen'
            BY <2>3, Zenon DEF Reset, NothingOpen
        <3> QED BY <2>3, <3>1 DEF IInv, Steps, VerbKnown, NothingYet, Hooked, Shut,
                                  Running, Early, Late, Verbs
    <2> QED BY <1>16, <2>2, <2>3 DEF InvokeRPC
<1>17. CASE ReportStatus
    <2>1. pc = "invoked" /\ hook
        BY <1>17 DEF ReportStatus, IInv, Hooked, Late
    <2>2. CASE Exit("1") \/ Exit("status")
        BY <2>1, <2>2, ExitKeeps
    <2>3. CASE Goto("return") /\ UNCHANGED conn
        BY <2>1, <2>3, LateKeeps DEF Late, conn
    <2> QED BY <1>17, <2>2, <2>3 DEF ReportStatus
<1>18. CASE Return
    <2>1. NothingOpen'
        BY <1>18, Zenon DEF Return, Reset, NothingOpen
    <2> QED BY <1>18, <2>1 DEF Return, IInv, Steps, VerbKnown, NothingYet, Hooked, Shut,
                               Running, Early, Late, Verbs
<1>19. CASE UNCHANGED vars
    BY <1>19 DEF vars, cmdline, conn, IInv, Steps, VerbKnown, NothingYet, Hooked, Shut,
                 Running, NothingOpen
<1> QED BY <1>1, <1>2, <1>3, <1>4, <1>5, <1>6, <1>7, <1>8, <1>9, <1>10, <1>11, <1>12,
           <1>13, <1>14, <1>15, <1>16, <1>17, <1>18, <1>19 DEF Next

(* However the process ends (an RPC that fails or panics, a symbol that is   *)
(* not found, a file that cannot be written), cmd/main.go has shut the       *)
(* connection and the reflection stream down, whatever the files, symbols    *)
(* and arguments.                                                            *)
THEOREM ToolLeavesNothingOpen == Spec => []NothingLeftOpen
<1>1. IInv => NothingLeftOpen
    BY DEF IInv, Shut, Running, NothingOpen, NothingLeftOpen
<1> QED BY <1>1, InitIInv, NextIInv, PTL DEF Spec
---------------------------------------------------------------------------
(* Induction over the naturals, as a fact about sets of them. *)
Before == {pair \in Nat \X Nat : pair[1] < pair[2]}

LEMMA BeforeIsLess == OpToRel(<, Nat) = Before
BY Zenon DEF OpToRel, Before

LEMMA Least ==
    ASSUME NEW S \in SUBSET Nat, S # {}
    PROVE  \E x \in S : \A y \in S : x <= y
<1>1. IsWellFoundedOn(Before, Nat)
    BY Zenon, NatLessThanWellFounded, BeforeIsLess
<1>2. PICK x \in S : \A y \in S : ~(<<y, x>> \in Before)
    BY <1>1, WFMin
<1>3. \A y \in S : x <= y
    <2>1. \A y \in S : ~(y < x)
        BY Zenon, <1>2 DEF Before
    <2> QED BY <2>1
<1> QED BY <1>3

LEMMA AllNats ==
    ASSUME NEW A \in SUBSET Nat, 0 \in A, \A n \in A : n + 1 \in A
    PROVE  \A n \in Nat : n \in A
<1> SUFFICES ASSUME NEW n \in Nat, n \notin A PROVE FALSE
    OBVIOUS
<1>1. PICK B : B = Nat \ A
    OBVIOUS
<1>2. PICK x \in B : \A y \in B : x <= y
    <2>1. B \in SUBSET Nat /\ B # {}
        BY <1>1
    <2> QED BY <2>1, Least
<1>3. x \in Nat /\ x # 0 /\ x - 1 \in Nat /\ ~(x <= x - 1)
    BY <1>1
<1>4. x - 1 \in A
    BY <1>1, <1>2, <1>3
<1>5. (x - 1) + 1 = x
    BY <1>3
<1> QED BY <1>1, <1>4, <1>5

---------------------------------------------------------------------------
(* Templates: makeTemplate computes the chains of nested types in which no   *)
(* type but the last is on the path or comes twice.                          *)

Follows(shown, path, c, i) ==
    /\ c[i + 1] \in shown[c[i]]
    /\ c[i] \notin ToSet(path)
    /\ \A j \in 1..(i - 1) : c[j] # c[i]

Chain(shown, path, m, c) ==
    /\ c # <<>> /\ c[1] = m
    /\ \A i \in 1..(Len(c) - 1) : Follows(shown, path, c, i)

Chains(shown, path, m) == {c \in Seq(Message) : Chain(shown, path, m, c)}

LEMMA ToSetAppend ==
    ASSUME NEW S, NEW s \in Seq(S), NEW x \in S
    PROVE  /\ Append(s, x) \in Seq(S)
           /\ ToSet(Append(s, x)) = ToSet(s) \cup {x}
<1>1. /\ Append(s, x) \in Seq(S)
      /\ Len(Append(s, x)) = Len(s) + 1
      /\ \A i \in 1..Len(s) : Append(s, x)[i] = s[i]
      /\ Append(s, x)[Len(s) + 1] = x
    BY AppendProperties
<1>2. Len(s) \in Nat /\ DOMAIN s = 1..Len(s) /\ DOMAIN Append(s, x) = 1..(Len(s) + 1)
    BY <1>1, LenProperties
<1>3. ASSUME NEW y \in ToSet(Append(s, x)) PROVE y \in ToSet(s) \cup {x}
    <2>1. PICK i \in 1..(Len(s) + 1) : y = Append(s, x)[i]
        BY <1>2 DEF ToSet
    <2> QED BY <1>1, <1>2, <2>1 DEF ToSet
<1>4. ASSUME NEW y \in ToSet(s) PROVE y \in ToSet(Append(s, x))
    <2>1. PICK i \in 1..Len(s) : y = s[i]
        BY <1>2 DEF ToSet
    <2>2. i \in 1..(Len(s) + 1)
        BY <1>2
    <2> QED BY <1>1, <1>2, <2>1, <2>2 DEF ToSet
<1>5. x \in ToSet(Append(s, x))
    <2>1. Len(s) + 1 \in 1..(Len(s) + 1)
        BY <1>2
    <2> QED BY <1>1, <1>2, <2>1 DEF ToSet
<1> QED BY <1>1, <1>3, <1>4, <1>5

(* A type before a sequence of types. *)
LEMMA Prefixed ==
    ASSUME NEW S, NEW x \in S, NEW s \in Seq(S)
    PROVE  /\ <<x>> \o s \in Seq(S) /\ <<x>> \o s # <<>>
           /\ Len(<<x>> \o s) = Len(s) + 1 /\ Len(s) \in Nat
           /\ (<<x>> \o s)[1] = x
           /\ \A i \in 1..Len(s) : (<<x>> \o s)[i + 1] = s[i]
<1>1. <<x>> \in Seq(S) /\ Len(<<x>>) = 1 /\ <<x>>[1] = x
    OBVIOUS
<1>2. Len(s) \in Nat
    BY LenProperties
<1>3. /\ <<x>> \o s \in Seq(S)
      /\ Len(<<x>> \o s) = 1 + Len(s)
      /\ \A i \in 1..(1 + Len(s)) :
            (<<x>> \o s)[i] = IF i <= 1 THEN <<x>>[i] ELSE s[i - 1]
    BY <1>1, ConcatProperties
<1>4. \A i \in 1..Len(s) : i + 1 \in 1..(1 + Len(s)) /\ ~(i + 1 <= 1) /\ (i + 1) - 1 = i
    BY <1>2
<1>5. \A i \in 1..Len(s) : (<<x>> \o s)[i + 1] = s[i]
    BY <1>3, <1>4
<1>6. (<<x>> \o s)[1] = x
    BY <1>1, <1>2, <1>3
<1>7. <<x>> \o s # <<>>
    BY <1>2, <1>3, EmptySeq
<1> QED BY <1>2, <1>3, <1>5, <1>6, <1>7

(* A chain that goes on past m goes on as a chain of a field of m. *)
GoesOn(shown, path, m, c) ==
    /\ m \notin ToSet(path)
    /\ c[2] \in shown[m]
    /\ Tail(c) \in Chains(shown, Append(path, m), c[2])
    /\ c = <<m>> \o Tail(c)

LEMMA ChainTail ==
    ASSUME NEW shown \in [Message -> SUBSET Message], NEW path \in Seq(Message),
           NEW m \in Message, NEW c \in Seq(Message), Chain(shown, path, m, c), Len(c) # 1
    PROVE  GoesOn(shown, path, m, c)
<1>1. Len(c) \in Nat /\ Len(c) > 1 /\ c[1] = m /\ c # <<>>
    <2>1. Len(c) \in Nat /\ c # <<>> /\ c[1] = m
        BY LenProperties DEF Chain
    <2>2. Len(c) # 0
        BY <2>1, EmptySeq
    <2>3. PICK n : n = Len(c)
        OBVIOUS
    <2>4. n > 1
        BY <2>1, <2>2, <2>3
    <2> QED BY <2>1, <2>3, <2>4
<1>2. /\ Tail(c) \in Seq(Message) /\ Len(Tail(c)) = Len(c) - 1
      /\ \A i \in 1..Len(Tail(c)) : Tail(c)[i] = c[i + 1]
    BY <1>1, HeadTailProperties
<1>3. c[2] \in shown[m] /\ m \notin ToSet(path)
    <2>1. 1 \in 1..(Len(c) - 1) /\ 1 + 1 = 2
        BY <1>1
    <2>2. Follows(shown, path, c, 1)
        BY <2>1 DEF Chain
    <2> QED BY <1>1, <2>1, <2>2 DEF Follows
<1>4. ASSUME NEW i \in 1..(Len(Tail(c)) - 1)
      PROVE  Follows(shown, Append(path, m), Tail(c), i)
    <2>1. /\ i \in 1..Len(Tail(c)) /\ i + 1 \in 1..Len(Tail(c)) /\ i \in Nat
          /\ i + 1 \in 1..(Len(c) - 1) /\ (i + 1) - 1 = i
        BY <1>1, <1>2
    <2>2. Tail(c)[i] = c[i + 1] /\ Tail(c)[i + 1] = c[(i + 1) + 1]
        BY <1>2, <2>1
    <2>3. Follows(shown, path, c, i + 1)
        BY <2>1 DEF Chain
    <2>4. c[(i + 1) + 1] \in shown[c[i + 1]] /\ c[i + 1] \notin ToSet(path)
          /\ \A j \in 1..i : c[j] # c[i + 1]
        BY <2>1, <2>3 DEF Follows
    <2>5. c[i + 1] # m
        BY <1>1, <2>1, <2>4
    <2>6. Tail(c)[i] \notin ToSet(Append(path, m))
        BY <2>2, <2>4, <2>5, ToSetAppend
    <2>7. ASSUME NEW j \in 1..(i - 1) PROVE Tail(c)[j] # Tail(c)[i]
        <3>1. j \in 1..Len(Tail(c)) /\ j + 1 \in 1..i
            BY <2>1
        <3> QED BY <1>2, <2>2, <2>4, <3>1
    <2> QED BY <2>2, <2>4, <2>6, <2>7 DEF Follows
<1>5. Tail(c) # <<>> /\ Tail(c)[1] = c[2]
    <2>1. 1 \in 1..Len(Tail(c)) /\ 1 + 1 = 2 /\ Len(Tail(c)) # 0
        BY <1>1, <1>2
    <2> QED BY <1>2, <2>1, EmptySeq
<1>6. Tail(c) \in Chains(shown, Append(path, m), c[2])
    BY <1>2, <1>4, <1>5 DEF Chains, Chain
<1>7. c = <<m>> \o Tail(c)
    <2>1. /\ <<m>> \o Tail(c) \in Seq(Message) /\ Len(<<m>> \o Tail(c)) = Len(c)
          /\ (<<m>> \o Tail(c))[1] = m
          /\ \A i \in 1..Len(Tail(c)) : (<<m>> \o Tail(c))[i + 1] = Tail(c)[i]
        BY <1>1, <1>2, Prefixed
    <2>2. ASSUME NEW i \in 1..Len(c) PROVE c[i] = (<<m>> \o Tail(c))[i]
        <3>1. CASE i = 1
            BY <1>1, <2>1, <3>1
        <3>2. CASE i # 1
            <4>1. i - 1 \in 1..Len(Tail(c)) /\ (i - 1) + 1 = i
                BY <1>1, <1>2, <3>2
            <4> QED BY <1>2, <2>1, <4>1
        <3> QED BY <3>1, <3>2
    <2> QED BY <2>1, <2>2, SeqEqual
<1> QED BY <1>3, <1>6, <1>7 DEF GoesOn

LEMMA ChainCons ==
    ASSUME NEW shown \in [Message -> SUBSET Message], NEW path \in Seq(Message),
           NEW m \in Message, m \notin ToSet(path), NEW f \in shown[m],
           NEW t \in Chains(shown, Append(path, m), f)
    PROVE  <<m>> \o t \in Chains(shown, path, m)
<1>1. t \in Seq(Message) /\ Chain(shown, Append(path, m), f, t) /\ t # <<>> /\ t[1] = f
    BY DEF Chains, Chain
<1>2. PICK c : c = <<m>> \o t
    OBVIOUS
<1>3. /\ c \in Seq(Message) /\ c # <<>> /\ Len(c) = Len(t) + 1 /\ Len(t) \in Nat /\ c[1] = m
      /\ \A i \in 1..Len(t) : c[i + 1] = t[i]
    BY <1>1, <1>2, Prefixed
<1>4. Len(t) > 0
    BY <1>1, <1>3, EmptySeq
<1>5. ASSUME NEW i \in 1..(Len(c) - 1) PROVE Follows(shown, path, c, i)
    <2>1. CASE i = 1
        <3>1. 1 \in 1..Len(t) /\ 1..(1 - 1) = {}
            BY <1>3, <1>4
        <3> QED BY <1>1, <1>3, <2>1, <3>1 DEF Follows
    <2>2. CASE i # 1
        <3>1. PICK k : k = i - 1
            OBVIOUS
        <3>2. k \in 1..(Len(t) - 1) /\ i = k + 1 /\ k \in 1..Len(t) /\ i \in 1..Len(t) /\ i \in Nat
            BY <1>3, <2>2, <3>1
        <3>3. c[i] = t[k] /\ c[i + 1] = t[k + 1]
            BY <1>3, <3>2
        <3>4. Follows(shown, Append(path, m), t, k)
            BY <1>1, <3>2 DEF Chain
        <3>5. /\ t[k + 1] \in shown[t[k]] /\ t[k] \notin ToSet(path) /\ t[k] # m
              /\ \A j \in 1..(k - 1) : t[j] # t[k]
            BY <3>4, ToSetAppend DEF Follows
        <3>6. ASSUME NEW j \in 1..(i - 1) PROVE c[j] # c[i]
            <4>1. CASE j = 1
                BY <1>3, <3>3, <3>5, <4>1
            <4>2. CASE j # 1
                <5>1. j - 1 \in 1..(k - 1) /\ j - 1 \in 1..Len(t) /\ (j - 1) + 1 = j
                    BY <3>2, <4>2
                <5>2. c[j] = t[j - 1]
                    BY <1>3, <5>1
                <5>3. t[j - 1] # t[k]
                    BY <3>5, <5>1
                <5> QED BY <3>3, <5>2, <5>3
            <4> QED BY <4>1, <4>2
        <3> QED BY <3>3, <3>5, <3>6 DEF Follows
    <2> QED BY <2>1, <2>2
<1> QED BY <1>2, <1>3, <1>5 DEF Chains, Chain

LEMMA ChainsUnfolded ==
    ASSUME NEW shown \in [Message -> SUBSET Message], NEW T,
           T = [call \in Seq(Message) \X Message |-> Chains(shown, call[1], call[2])],
           NEW path \in Seq(Message), NEW m \in Message
    PROVE  T[<<path, m>>] = Unfold(T, shown, path, m)
<1>1. Append(path, m) \in Seq(Message) /\ \A f \in shown[m] : f \in Message
    BY AppendProperties
<1>2. T[<<path, m>>] = Chains(shown, path, m)
    OBVIOUS
<1>3. \A f \in shown[m] : T[<<Append(path, m), f>>] = Chains(shown, Append(path, m), f)
    BY <1>1
<1>4. ASSUME NEW c \in Chains(shown, path, m) PROVE c \in Unfold(T, shown, path, m)
    <2>1. c \in Seq(Message) /\ Chain(shown, path, m, c)
        BY DEF Chains
    <2>2. CASE Len(c) = 1
        <3>1. <<m>> \in Seq(Message) /\ Len(<<m>>) = 1 /\ <<m>>[1] = m
            OBVIOUS
        <3>2. PICK one : one = <<m>>
            OBVIOUS
        <3>3. one \in Seq(Message) /\ Len(one) = 1 /\ one[1] = m /\ c[1] = m
            BY <2>1, <3>1, <3>2 DEF Chain
        <3>4. \A i \in 1..1 : c[i] = one[i]
            BY <3>3
        <3>5. c = one
            BY <2>1, <2>2, <3>3, <3>4, SeqEqual
        <3> QED BY <3>2, <3>5 DEF Unfold
    <2>3. CASE Len(c) # 1
        <3>1. /\ m \notin ToSet(path) /\ c[2] \in shown[m] /\ c = <<m>> \o Tail(c)
              /\ Tail(c) \in Chains(shown, Append(path, m), c[2])
            <4>1. GoesOn(shown, path, m, c)
                BY <2>1, <2>3, ChainTail
            <4> QED BY <4>1 DEF GoesOn
        <3>2. Tail(c) \in UNION {T[<<Append(path, m), g>>] : g \in shown[m]}
            BY <1>3, <3>1
        <3> QED BY <3>1, <3>2 DEF Unfold
    <2> QED BY <2>2, <2>3
<1>5. ASSUME NEW c \in Unfold(T, shown, path, m) PROVE c \in Chains(shown, path, m)
    <2>1. CASE c = <<m>>
        <3>1. <<m>> \in Seq(Message) /\ <<m>> # <<>> /\ <<m>>[1] = m /\ 1..(Len(<<m>>) - 1) = {}
            OBVIOUS
        <3> QED BY <2>1, <3>1 DEF Chains, Chain
    <2>2. CASE c # <<m>>
        <3>1. m \notin ToSet(path)
            BY <2>2 DEF Unfold
        <3>2. PICK t \in UNION {T[<<Append(path, m), f>>] : f \in shown[m]} : c = <<m>> \o t
            BY <2>2, <3>1 DEF Unfold
        <3>3. PICK f \in shown[m] : t \in T[<<Append(path, m), f>>]
            OBVIOUS
        <3> QED BY <1>3, <3>1, <3>2, <3>3, ChainCons
    <2> QED BY <2>1, <2>2
<1> QED BY <1>2, <1>4, <1>5

(* T gives what makeTemplate returns for the types it is called with. *)
Unfolds(T, shown) ==
    \A path \in Seq(Message), m \in Message : T[<<path, m>>] = Unfold(T, shown, path, m)

Alike(T, U) == \A path \in Seq(Message), m \in Message : T[<<path, m>>] = U[<<path, m>>]

(* The equation has one solution: the path takes up a type with every call. *)
LEMMA UnfoldedOnce ==
    ASSUME IsFiniteSet(Message), NEW shown \in [Message -> SUBSET Message],
           NEW T, Unfolds(T, shown), NEW U, Unfolds(U, shown)
    PROVE  Alike(T, U)
<1> DEFINE Left(path) == Cardinality(Message \ ToSet(path))
           Agrees(path) == \A m \in Message : T[<<path, m>>] = U[<<path, m>>]
           A == {n \in Nat : \A path \in Seq(Message) : Left(path) < n => Agrees(path)}
<1>1. \A path : Left(path) \in Nat
    BY FS_Subset, FS_CardinalityType
<1>2. 0 \in A
    <2>1. \A path : ~(Left(path) < 0)
        BY <1>1
    <2> QED BY <2>1
<1>3. ASSUME NEW n \in A PROVE n + 1 \in A
    <2> SUFFICES ASSUME NEW path \in Seq(Message), Left(path) < n + 1, NEW m \in Message
                 PROVE  T[<<path, m>>] = U[<<path, m>>]
        BY DEF Agrees
    <2>1. CASE m \in ToSet(path)
        BY <2>1 DEF Unfolds, Unfold
    <2>2. CASE m \notin ToSet(path)
        <3>1. /\ Append(path, m) \in Seq(Message)
              /\ Message \ ToSet(Append(path, m)) = (Message \ ToSet(path)) \ {m}
            BY ToSetAppend
        <3>2. IsFiniteSet(Message \ ToSet(path)) /\ m \in Message \ ToSet(path)
            BY <2>2, FS_Subset
        <3>3. Left(Append(path, m)) = Left(path) - 1
            <4>1. PICK D : D = Message \ ToSet(path)
                OBVIOUS
            <4>2. Cardinality(D \ {m}) = Cardinality(D) - 1
                BY <3>2, <4>1, FS_RemoveElement
            <4> QED BY <3>1, <4>1, <4>2
        <3>4. Left(Append(path, m)) < n
            <4>1. PICK k : k = Left(path)
                OBVIOUS
            <4>2. k \in Nat /\ n \in Nat /\ k < n + 1
                BY <1>1, <4>1
            <4> QED BY <3>3, <4>1, <4>2
        <3>5. Agrees(Append(path, m))
            BY <3>1, <3>4
        <3>6. {T[<<Append(path, m), f>>] : f \in shown[m]} = {U[<<Append(path, m), f>>] : f \in shown[m]}
            <4>1. \A f \in shown[m] : T[<<Append(path, m), f>>] = U[<<Append(path, m), f>>]
                <5>1. \A f \in shown[m] : f \in Message
                    OBVIOUS
                <5> QED BY Zenon, <3>5, <5>1
            <4>2. ASSUME NEW x
                  PROVE  x \in {T[<<Append(path, m), f>>] : f \in shown[m]}
                            <=> x \in {U[<<Append(path, m), f>>] : f \in shown[m]}
                BY <4>1
            <4> QED BY Zenon, <4>2
        <3>7. Unfold(T, shown, path, m) = Unfold(U, shown, path, m)
            BY <3>6 DEF Unfold
        <3> QED BY <3>7 DEF Unfolds
    <2> QED BY <2>1, <2>2
<1>4. A \in SUBSET Nat
    OBVIOUS
<1> HIDE DEF A
<1>5. \A n \in Nat : n \in A
    BY <1>2, <1>3, <1>4, AllNats
<1> SUFFICES ASSUME NEW path \in Seq(Message) PROVE Agrees(path)
    BY DEF Alike
<1>6. PICK k : k = Left(path)
    OBVIOUS
<1>7. k \in Nat /\ k + 1 \in Nat /\ k < k + 1
    <2>1. k \in Nat
        BY Zenon, <1>1, <1>6
    <2> QED BY <2>1
<1>8. k + 1 \in A
    BY <1>5, <1>7
<1> QED BY <1>6, <1>7, <1>8 DEF A

IsTemplate(shown, T) ==
    T = [call \in Seq(Message) \X Message |-> Unfold(T, shown, call[1], call[2])]

LEMMA IsTemplateUnfolds ==
    ASSUME NEW shown, NEW T, IsTemplate(shown, T)
    PROVE  Unfolds(T, shown)
BY DEF IsTemplate, Unfolds

LEMMA ShownTypes ==
    ASSUME NEW fields \in [Message -> Fields]
    PROVE  /\ Shown(fields) \in [Message -> SUBSET Message]
           /\ \A m, n \in Message :
                n \in Shown(fields)[m] <=>
                    \E i \in DOMAIN fields[m] :
                        fields[m][i].type = n /\ ~Overwritten(fields[m], i)
<1>1. \A m \in Message : \A i \in DOMAIN fields[m] : fields[m][i].type \in Message
    <2> TAKE m \in Message
    <2>1. PICK F : F = [type : Message, oneof : Nat]
        OBVIOUS
    <2>2. PICK seq \in Seq(F) : seq = fields[m]
        BY <2>1 DEF Fields
    <2>3. \A i \in DOMAIN seq : seq[i] \in F
        BY LenProperties, ElementOfSeq
    <2> QED BY <2>1, <2>2, <2>3
<1>2. \A m \in Message :
        Shown(fields)[m] =
            {fields[m][i].type : i \in {j \in DOMAIN fields[m] : ~Overwritten(fields[m], j)}}
    BY DEF Shown
<1>3. Shown(fields) \in [Message -> SUBSET Message]
    <2>1. \A m \in Message :
            {fields[m][i].type : i \in {j \in DOMAIN fields[m] : ~Overwritten(fields[m], j)}}
                \in SUBSET Message
        BY <1>1
    <2> QED BY <2>1 DEF Shown
<1> QED BY <1>2, <1>3

LEMMA TemplateIs ==
    ASSUME IsFiniteSet(Message), NEW fields, NEW shown \in [Message -> SUBSET Message],
           shown = Shown(fields), NEW md \in Message
    PROVE  Template(fields, md) = Chains(shown, <<>>, md)
<1>1. PICK U : U = [call \in Seq(Message) \X Message |-> Chains(shown, call[1], call[2])]
    OBVIOUS
<1>2. Unfolds(U, shown)
    BY <1>1, ChainsUnfolded DEF Unfolds
<1>3. IsTemplate(shown, U)
    <2>1. \A call \in Seq(Message) \X Message :
              Chains(shown, call[1], call[2]) = Unfold(U, shown, call[1], call[2])
        BY <1>1, <1>2 DEF Unfolds
    <2> QED BY <1>1, <2>1 DEF IsTemplate
<1>4. PICK T : T = CHOOSE makeTemplate : IsTemplate(shown, makeTemplate)
    OBVIOUS
<1>5. IsTemplate(shown, T)
    BY Zenon, <1>3, <1>4
<1>6. Template(fields, md) = T[<<<<>>, md>>]
    BY <1>4 DEF Template, IsTemplate
<1>7. Unfolds(T, shown)
    BY <1>5, IsTemplateUnfolds
<1>8. <<>> \in Seq(Message)
    OBVIOUS
<1>9. T[<<<<>>, md>>] = U[<<<<>>, md>>]
    <2>1. Alike(T, U)
        BY <1>2, <1>7, UnfoldedOnce
    <2> QED BY <1>8, <2>1 DEF Alike
<1> QED BY <1>1, <1>6, <1>8, <1>9

(* What may follow the last type of a chain. *)
LEMMA ChainAppend ==
    ASSUME NEW shown \in [Message -> SUBSET Message], NEW md \in Message,
           NEW c \in Chains(shown, <<>>, md), NEW m \in Message
    PROVE  Append(c, m) \in Chains(shown, <<>>, md)
              <=> m \in shown[Last(c)] /\ Last(c) \notin ToSet(Front(c))
<1>1. c \in Seq(Message) /\ Chain(shown, <<>>, md, c) /\ c # <<>> /\ c[1] = md
    BY DEF Chains, Chain
<1>2. PICK n : n = Len(c)
    OBVIOUS
<1>3. n \in Nat /\ n > 0 /\ DOMAIN c = 1..n
    <2>1. n \in Nat /\ DOMAIN c = 1..n
        BY <1>1, <1>2, LenProperties
    <2>2. n # 0
        BY <1>1, <1>2, EmptySeq
    <2> QED BY <2>1, <2>2
<1>4. PICK e : e = Append(c, m)
    OBVIOUS
<1>5. e \in Seq(Message) /\ e # <<>> /\ Len(e) = n + 1 /\ e[n + 1] = m
      /\ \A i \in 1..n : e[i] = c[i]
    BY <1>1, <1>2, <1>4, AppendProperties
<1>6. ToSet(Front(c)) = {c[j] : j \in 1..(n - 1)} /\ Last(c) = c[n]
    <2>1. \A i \in 1..(n - 1) : c[i] \in Message
        BY <1>1, <1>2, <1>3, ElementOfSeq
    <2>2. /\ SubSeq(c, 1, n - 1) \in Seq(Message)
          /\ Len(SubSeq(c, 1, n - 1)) = IF 1 <= n - 1 THEN (n - 1) - 1 + 1 ELSE 0
          /\ \A i \in 1..((n - 1) - 1 + 1) : SubSeq(c, 1, n - 1)[i] = c[1 + i - 1]
        BY <1>3, <2>1, SubSeqProperties
    <2>3. Front(c) = SubSeq(c, 1, n - 1)
        BY <1>2 DEF Front
    <2>4. /\ DOMAIN Front(c) = 1..(n - 1)
          /\ \A i \in 1..(n - 1) : Front(c)[i] = c[i]
        <3>1. Len(Front(c)) = n - 1
            BY <1>3, <2>2, <2>3
        <3>2. DOMAIN Front(c) = 1..Len(Front(c))
            BY <2>2, <2>3, LenProperties
        <3>3. \A i \in 1..(n - 1) : i \in 1..((n - 1) - 1 + 1) /\ 1 + i - 1 = i
            BY <1>3
        <3> QED BY <2>2, <2>3, <3>1, <3>2, <3>3
    <2>5. Last(c) = c[n]
        BY <1>2 DEF Last
    <2> QED BY <2>4, <2>5 DEF ToSet
<1>7. \A x : x \notin ToSet(<<>>)
    BY DEF ToSet
<1>8. ASSUME NEW i \in 1..(n - 1) PROVE Follows(shown, <<>>, c, i) <=> Follows(shown, <<>>, e, i)
    <2>1. e[i] = c[i] /\ e[i + 1] = c[i + 1] /\ \A j \in 1..(i - 1) : e[j] = c[j]
        <3>1. i \in 1..n /\ i + 1 \in 1..n /\ \A j \in 1..(i - 1) : j \in 1..n
            BY <1>3
        <3> QED BY <1>5, <3>1
    <2> QED BY <2>1 DEF Follows
<1>9. Follows(shown, <<>>, e, n) <=> m \in shown[c[n]] /\ \A j \in 1..(n - 1) : c[j] # c[n]
    <2>1. n \in 1..n /\ \A j \in 1..(n - 1) : j \in 1..n
        BY <1>3
    <2>2. e[n] = c[n] /\ \A j \in 1..(n - 1) : e[j] = c[j]
        BY <1>5, <2>1
    <2> QED BY <1>5, <1>7, <2>2 DEF Follows
<1>10. \A i \in 1..(n - 1) : Follows(shown, <<>>, c, i)
    BY <1>1, <1>2 DEF Chain
<1>11. Chain(shown, <<>>, md, e) <=> Follows(shown, <<>>, e, n)
    <2>1. e[1] = md /\ e # <<>>
        <3>1. 1 \in 1..n
            BY <1>3
        <3> QED BY <1>1, <1>5, <3>1
    <2>2. Len(e) - 1 = n
        BY <1>3, <1>5
    <2>3. n \in 1..n /\ \A i \in 1..n : i = n \/ i \in 1..(n - 1)
        BY <1>3
    <2>4. (\A i \in 1..n : Follows(shown, <<>>, e, i)) <=> Follows(shown, <<>>, e, n)
        BY <1>8, <1>10, <2>3
    <2> QED BY <2>1, <2>2, <2>4 DEF Chain
<1>12. e \in Chains(shown, <<>>, md) <=> Chain(shown, <<>>, md, e)
    BY <1>5 DEF Chains
<1>13. Last(c) \notin ToSet(Front(c)) <=> \A j \in 1..(n - 1) : c[j] # c[n]
    BY <1>6
<1> QED BY <1>4, <1>6, <1>9, <1>11, <1>12, <1>13

(* The template that is being printed is makeTemplate's. *)
TemplateIsMade ==
    template # <<>> =>
        \E fields \in MessageGraphs, md \in Message : template = <<fields, Template(fields, md)>>

LEMMA TemplateKept == TemplateIsMade /\ [Next]_vars => TemplateIsMade'
<1> SUFFICES ASSUME TemplateIsMade, [Next]_vars PROVE TemplateIsMade'
    OBVIOUS
<1>1. CASE UNCHANGED template
    BY <1>1 DEF TemplateIsMade
<1>2. CASE Describe
    BY <1>1, <1>2 DEF Describe, TemplateIsMade
<1>3. CASE WriteFile
    BY <1>3 DEF WriteFile, TemplateIsMade
<1>4. CASE ~Describe /\ ~WriteFile
    BY <1>1, <1>4 DEF Next, vars, work,
       CheckFlags, ParseArguments, CheckSources, Expand, ReadProtosets, LoadProtosets, Loaded,
       ParseProtoFiles, DialReflection, NoReflection, ListOrDescribeAll, ListOrDescribeOne,
       DialForRpc, InvokeRPC, ReportStatus, Return
<1> QED BY <1>2, <1>3, <1>4

LEMMA MadeIsComplete == TemplateIsMade => TemplateComplete
<1> SUFFICES ASSUME TemplateIsMade, template # <<>> PROVE TemplateComplete
    BY DEF TemplateComplete
<1>1. PICK fields \in MessageGraphs, md \in Message : template = <<fields, Template(fields, md)>>
    BY DEF TemplateIsMade
<1>2. fields \in [Message -> Fields] /\ IsFiniteSet(Message)
    BY CommandAssumption, DescriptorsAssumption
<1>3. PICK shown : shown = Shown(fields)
    OBVIOUS
<1>4. shown \in [Message -> SUBSET Message]
    BY <1>2, <1>3, ShownTypes
<1>5. template[1] = fields /\ template[2] = Chains(shown, <<>>, md)
    BY <1>1, <1>2, <1>3, <1>4, TemplateIs
<1> SUFFICES ASSUME NEW c \in Chains(shown, <<>>, md), NEW m \in Message
             PROVE  Append(c, m) \in Chains(shown, <<>>, md) <=>
                        /\ Last(c) \notin ToSet(Front(c))
                        /\ \E i \in DOMAIN fields[Last(c)] :
                              fields[Last(c)][i].type = m /\ ~Overwritten(fields[Last(c)], i)
    BY <1>5 DEF TemplateComplete
<1>6. Append(c, m) \in Chains(shown, <<>>, md)
          <=> m \in shown[Last(c)] /\ Last(c) \notin ToSet(Front(c))
    BY <1>4, ChainAppend
<1>7. Last(c) \in Message
    <2>1. c \in Seq(Message) /\ c # <<>>
        BY DEF Chains, Chain
    <2>2. Len(c) \in DOMAIN c
        BY <2>1
    <2> QED BY <2>1, <2>2 DEF Last
<1> QED BY <1>2, <1>3, <1>6, <1>7, ShownTypes

(* A template shows a message type in full wherever it appears but within    *)
(* itself, and but for the members of a oneof before the last, whatever the  *)
(* message types are (gateway.go 402-537).                                   *)
THEOREM TemplateIsComplete == Spec => []TemplateComplete
<1>1. Init => TemplateIsMade
    BY DEF Init, TemplateIsMade
<1> QED BY <1>1, TemplateKept, MadeIsComplete, PTL DEF Spec

---------------------------------------------------------------------------
(* Folds over a sequence.  FoldLeft is defined over all sets of indices, the *)
(* largest index of a set last; what matters are its values for 1..i.        *)

LEMMA LargestIs ==
    ASSUME NEW n \in Nat, NEW s, n \in s, \A i \in s : i \in 1..n
    PROVE  Max(s) = n
<1>1. \A i \in s : i \in Nat /\ n >= i
    OBVIOUS
<1>2. \A x \in s : (\A y \in s : x >= y) => x = n
    <2> SUFFICES ASSUME NEW x \in s, \A y \in s : x >= y PROVE x = n
        OBVIOUS
    <2>1. x \in Nat /\ n >= x /\ x >= n
        BY <1>1
    <2> QED BY <2>1
<1> DEFINE Largest(x) == x \in s /\ \A y \in s : x >= y
<1>3. Largest(n)
    BY <1>1
<1>4. Largest(CHOOSE x : Largest(x))
    <2> HIDE DEF Largest
    <2> QED BY Zenon, <1>3
<1>5. Max(s) = CHOOSE x : Largest(x)
    BY DEF Max
<1> QED BY <1>2, <1>4, <1>5

TakesSteps(g, F, base, n) ==
    /\ g[{}] = base
    /\ \A s \in SUBSET (1..n) : s # {} => g[s] = F[<<g[s \ {Max(s)}], Max(s)>>]

HasSteps(L, F, base, n) == \E g \in [SUBSET (1..n) -> L] : TakesSteps(g, F, base, n)

(* A step function on L has such values. *)
LEMMA StepsExtended ==
    ASSUME NEW L, NEW base \in L, NEW N \in Nat, NEW F \in [L \X (1..N) -> L],
           NEW n \in Nat, n + 1 <= N, HasSteps(L, F, base, n)
    PROVE  HasSteps(L, F, base, n + 1)
<1> PICK g \in [SUBSET (1..n) -> L] : TakesSteps(g, F, base, n)
    BY DEF HasSteps
<1> DEFINE m == n + 1
           k == [s \in SUBSET (1..m) |-> IF m \in s THEN F[<<g[s \ {m}], m>>] ELSE g[s]]
<1>1. m \in Nat /\ m \in 1..N /\ 1..n \subseteq 1..m /\ m \notin 1..n
      /\ \A i \in 1..m : i = m \/ i \in 1..n
    OBVIOUS
<1>2. ASSUME NEW s \in SUBSET (1..m)
      PROVE  s \ {m} \in SUBSET (1..n) /\ (m \notin s => s \in SUBSET (1..n))
    BY <1>1
<1>3. k \in [SUBSET (1..m) -> L]
    <2> SUFFICES ASSUME NEW s \in SUBSET (1..m)
                 PROVE  (IF m \in s THEN F[<<g[s \ {m}], m>>] ELSE g[s]) \in L
        OBVIOUS
    <2>1. s \ {m} \in SUBSET (1..n) /\ g[s \ {m}] \in L
        BY <1>2
    <2>2. F[<<g[s \ {m}], m>>] \in L
        BY <1>1, <2>1
    <2>3. m \notin s => g[s] \in L
        BY <1>2
    <2> QED BY <2>2, <2>3
<1>4. k[{}] = base
    BY DEF TakesSteps
<1>5. ASSUME NEW s \in SUBSET (1..m), s # {}
      PROVE  k[s] = F[<<k[s \ {Max(s)}], Max(s)>>]
    <2>1. CASE m \in s
        <3>1. Max(s) = m
            BY <1>1, <2>1, LargestIs
        <3>2. k[s] = F[<<g[s \ {m}], m>>]
            BY <2>1
        <3>3. k[s \ {m}] = g[s \ {m}]
            BY <1>2
        <3> QED BY <3>1, <3>2, <3>3
    <2>2. CASE m \notin s
        <3>1. s \in SUBSET (1..n)
            BY <1>2, <2>2
        <3>2. k[s] = g[s]
            BY <2>2
        <3>3. PICK t : t = s \ {Max(s)}
            OBVIOUS
        <3>4. t \in SUBSET (1..m) /\ m \notin t
            BY <2>2, <3>3
        <3>5. k[t] = g[t]
            BY <3>4
        <3>6. g[s] = F[<<g[t], Max(s)>>]
            BY <1>5, <3>1, <3>3 DEF TakesSteps
        <3> QED BY <3>2, <3>3, <3>5, <3>6
    <2> QED BY <2>1, <2>2
<1> HIDE DEF k
<1>6. TakesSteps(k, F, base, m)
    BY <1>4, <1>5 DEF TakesSteps
<1> QED BY <1>3, <1>6 DEF HasSteps

LEMMA StepsExist ==
    ASSUME NEW L, NEW base \in L, NEW N \in Nat, NEW F \in [L \X (1..N) -> L]
    PROVE  HasSteps(L, F, base, N)
<1> DEFINE A == {n \in Nat : n <= N => HasSteps(L, F, base, n)}
<1>1. 0 \in A
    <2>1. PICK g : g = [s \in SUBSET (1..0) |-> base]
        OBVIOUS
    <2>2. \A s \in SUBSET (1..0) : s = {}
        OBVIOUS
    <2>3. g \in [SUBSET (1..0) -> L] /\ TakesSteps(g, F, base, 0)
        BY <2>1, <2>2 DEF TakesSteps
    <2>4. HasSteps(L, F, base, 0)
        BY <2>3 DEF HasSteps
    <2> QED BY <2>4
<1>2. ASSUME NEW n \in A PROVE n + 1 \in A
    <2> SUFFICES ASSUME n + 1 <= N PROVE HasSteps(L, F, base, n + 1)
        OBVIOUS
    <2>1. n \in Nat /\ n <= N
        OBVIOUS
    <2>2. HasSteps(L, F, base, n)
        BY <2>1
    <2> QED BY <2>1, <2>2, StepsExtended
<1>3. A \in SUBSET Nat
    OBVIOUS
<1> HIDE DEF A
<1>4. N \in A
    BY <1>1, <1>2, <1>3, AllNats
<1> QED BY <1>4 DEF A

(* Whatever takes the same steps has the same values. *)
LEMMA StepsAgree ==
    ASSUME NEW N \in Nat, NEW f, NEW g, f[{}] = g[{}],
           \A s \in SUBSET (1..N) :
              s # {} /\ f[s \ {Max(s)}] = g[s \ {Max(s)}] => f[s] = g[s]
    PROVE  f[1..N] = g[1..N]
<1> DEFINE A == {n \in Nat : n <= N => f[1..n] = g[1..n]}
<1>1. 0 \in A
    <2>1. 1..0 = {}
        OBVIOUS
    <2> QED BY <2>1
<1>2. ASSUME NEW n \in A PROVE n + 1 \in A
    <2> SUFFICES ASSUME n + 1 <= N PROVE f[1..(n + 1)] = g[1..(n + 1)]
        OBVIOUS
    <2>1. n \in Nat /\ n <= N /\ f[1..n] = g[1..n]
        OBVIOUS
    <2>2. PICK s : s = 1..(n + 1)
        OBVIOUS
    <2>3. s \in SUBSET (1..N) /\ s # {} /\ n + 1 \in s /\ n + 1 \in Nat
        BY <2>1, <2>2
    <2>4. Max(s) = n + 1
        BY <2>2, <2>3, LargestIs
    <2>5. s \ {Max(s)} = 1..n
        BY <2>1, <2>2, <2>4
    <2>6. f[s] = g[s]
        BY <2>1, <2>3, <2>5
    <2> QED BY <2>2, <2>6
<1>3. A \in SUBSET Nat
    OBVIOUS
<1> HIDE DEF A
<1>4. N \in A
    BY <1>1, <1>2, <1>3, AllNats
<1> QED BY <1>4 DEF A

(* v is what N rounds of h make of base, each round staying in L. *)
FoldValue(v, L, h, base, N) ==
    \E t \in [0..N -> L] : /\ t[0] = base /\ t[N] = v
                           /\ \A i \in 1..N : t[i] = h[<<t[i - 1], i>>]

LEMMA StepsTrace ==
    ASSUME NEW L, NEW base \in L, NEW N \in Nat, NEW F \in [L \X (1..N) -> L],
           NEW g \in [SUBSET (1..N) -> L], TakesSteps(g, F, base, N)
    PROVE  FoldValue(g[1..N], L, F, base, N)
<1> DEFINE t == [i \in 0..N |-> g[1..i]]
<1>1. t \in [0..N -> L]
    <2>1. \A i \in 0..N : 1..i \in SUBSET (1..N)
        OBVIOUS
    <2> QED BY <2>1
<1>2. t[0] = base
    <2>1. 1..0 = {} /\ 0 \in 0..N
        OBVIOUS
    <2> QED BY <2>1 DEF TakesSteps
<1>3. t[N] = g[1..N]
    OBVIOUS
<1>4. ASSUME NEW i \in 1..N PROVE t[i] = F[<<t[i - 1], i>>]
    <2>1. PICK s : s = 1..i
        OBVIOUS
    <2>2. s \in SUBSET (1..N) /\ s # {} /\ i \in s /\ i \in Nat
        BY <2>1
    <2>3. Max(s) = i
        BY <2>1, <2>2, LargestIs
    <2>4. s \ {i} = 1..(i - 1) /\ i - 1 \in 0..N /\ i \in 0..N
        BY <2>1
    <2>5. g[s] = F[<<g[s \ {i}], i>>]
        BY <2>2, <2>3 DEF TakesSteps
    <2> QED BY <2>1, <2>4, <2>5
<1> HIDE DEF t
<1> QED BY <1>1, <1>2, <1>3, <1>4 DEF FoldValue

LEMMA Loop ==
    ASSUME NEW N \in Nat, NEW t, NEW S, t[0] \in S[0],
           \A i \in 1..N : t[i - 1] \in S[i - 1] => t[i] \in S[i]
    PROVE  t[N] \in S[N]
<1> DEFINE A == {n \in Nat : n <= N => t[n] \in S[n]}
<1>1. 0 \in A
    OBVIOUS
<1>2. ASSUME NEW n \in A PROVE n + 1 \in A
    <2> SUFFICES ASSUME n + 1 <= N PROVE t[n + 1] \in S[n + 1]
        OBVIOUS
    <2>1. n + 1 \in 1..N /\ (n + 1) - 1 = n /\ n <= N
        OBVIOUS
    <2> QED BY <2>1
<1>3. A \in SUBSET Nat
    OBVIOUS
<1> HIDE DEF A
<1>4. N \in A
    BY <1>1, <1>2, <1>3, AllNats
<1> QED BY <1>4 DEF A

(* it has the form of MapThenFoldSet's function wherever its values are in L. *)
FoldsAs(it, L, h, base, N) ==
    /\ it[{}] = base
    /\ \A s \in SUBSET (1..N) :
          s # {} /\ it[s \ {Max(s)}] \in L => it[s] = h[<<it[s \ {Max(s)}], Max(s)>>]

LEMMA FoldsAsValue ==
    ASSUME NEW L, NEW base \in L, NEW N \in Nat, NEW h \in [L \X (1..N) -> L],
           NEW it, FoldsAs(it, L, h, base, N)
    PROVE  FoldValue(it[1..N], L, h, base, N)
<1>1. HasSteps(L, h, base, N)
    BY StepsExist
<1>2. PICK g \in [SUBSET (1..N) -> L] : TakesSteps(g, h, base, N)
    BY <1>1 DEF HasSteps
<1>3. FoldValue(g[1..N], L, h, base, N)
    BY <1>2, StepsTrace
<1>4. it[{}] = g[{}]
    BY <1>2 DEF FoldsAs, TakesSteps
<1>5. ASSUME NEW s \in SUBSET (1..N), s # {}, it[s \ {Max(s)}] = g[s \ {Max(s)}]
      PROVE  it[s] = g[s]
    <2>1. PICK r : r = s \ {Max(s)}
        OBVIOUS
    <2>2. g[r] \in L
        BY <2>1
    <2>3. it[s] = h[<<it[r], Max(s)>>] /\ g[s] = h[<<g[r], Max(s)>>]
        BY <1>2, <1>5, <2>1, <2>2 DEF FoldsAs, TakesSteps
    <2> QED BY <1>5, <2>1, <2>3
<1>6. it[1..N] = g[1..N]
    BY <1>4, <1>5, StepsAgree
<1> QED BY <1>3, <1>6

(* The rule for a loop that i counts: S[i] is what holds after i rounds. *)
Rounds(S, L, h, N) ==
    \A i \in 1..N : \A l \in L : l \in S[i - 1] => h[<<l, i>>] \in S[i]

LEMMA FoldRule ==
    ASSUME NEW L, NEW base, NEW N \in Nat, NEW h, NEW v, FoldValue(v, L, h, base, N),
           NEW S, base \in S[0], Rounds(S, L, h, N)
    PROVE  v \in L /\ v \in S[N]
<1>1. PICK t \in [0..N -> L] : /\ t[0] = base /\ t[N] = v
                               /\ \A i \in 1..N : t[i] = h[<<t[i - 1], i>>]
    BY DEF FoldValue
<1>2. ASSUME NEW i \in 1..N, t[i - 1] \in S[i - 1] PROVE t[i] \in S[i]
    <2>1. i - 1 \in 0..N
        OBVIOUS
    <2>2. t[i - 1] \in L
        BY <2>1
    <2> QED BY <1>1, <1>2, <2>2 DEF Rounds
<1>3. t[N] \in S[N]
    BY <1>1, <1>2, Loop
<1>4. t[N] \in L
    <2>1. N \in 0..N
        OBVIOUS
    <2> QED BY <2>1
<1> QED BY <1>1, <1>3, <1>4

LEMMA FoldUnique ==
    ASSUME NEW L, NEW base, NEW N \in Nat, NEW h,
           NEW v, FoldValue(v, L, h, base, N), NEW w, FoldValue(w, L, h, base, N)
    PROVE  v = w
<1>1. PICK t \in [0..N -> L] : /\ t[0] = base /\ t[N] = v
                               /\ \A i \in 1..N : t[i] = h[<<t[i - 1], i>>]
    BY DEF FoldValue
<1>2. PICK S : S = [i \in 0..N |-> {t[i]}]
    OBVIOUS
<1>3. base \in S[0] /\ S[N] = {v}
    <2>1. 0 \in 0..N /\ N \in 0..N
        OBVIOUS
    <2> QED BY <1>1, <1>2, <2>1
<1>4. ASSUME NEW i \in 1..N, NEW l \in L, l \in S[i - 1] PROVE h[<<l, i>>] \in S[i]
    <2>1. i - 1 \in 0..N /\ i \in 0..N
        OBVIOUS
    <2>2. l = t[i - 1] /\ S[i] = {t[i]}
        BY <1>2, <1>4, <2>1
    <2> QED BY <1>1, <2>2
<1>5. Rounds(S, L, h, N)
    BY <1>4 DEF Rounds
<1>6. w \in S[N]
    BY <1>3, <1>5, FoldRule
<1> QED BY <1>3, <1>6

(* The three folds of the algorithms. *)
Folded3(F, e, base, seq) == FoldLeft(LAMBDA l, x : F[<<l, x, e>>], base, seq)
Folded2(F, base, seq) == FoldLeft(LAMBDA l, x : F[<<l, x>>], base, seq)
FoldedFiles(base, seq) == FoldLeft(LAMBDA o, f : AddFilesToSet(o, f.world, f.name), base, seq)

Round3(F, e, seq, L) == [c \in L \X DOMAIN seq |-> F[<<c[1], seq[c[2]], e>>]]
Round2(F, seq, L) == [c \in L \X DOMAIN seq |-> F[<<c[1], seq[c[2]]>>]]
RoundOfFiles(seq, L) ==
    [c \in L \X DOMAIN seq |-> AddFilesToSet(c[1], seq[c[2]].world, seq[c[2]].name)]

Stays3(F, e, L, X) == \A l \in L, x \in X : F[<<l, x, e>>] \in L
Stays2(F, L, X) == \A l \in L, x \in X : F[<<l, x>>] \in L
FilesStay(L, X) == \A l \in L, x \in X : AddFilesToSet(l, x.world, x.name) \in L

LEMMA LargestIn ==
    ASSUME NEW N \in Nat, NEW s \in SUBSET (1..N), s # {}
    PROVE  Max(s) \in s /\ \A i \in s : i <= Max(s)
<1> DEFINE Has(r) == Max(r) \in r /\ \A i \in r : i <= Max(r)
           A == {n \in Nat : \A r \in SUBSET (1..n) : r # {} => Has(r)}
<1>1. 0 \in A
    <2>1. \A r \in SUBSET (1..0) : r = {}
        OBVIOUS
    <2> QED BY <2>1
<1>2. ASSUME NEW n \in A PROVE n + 1 \in A
    <2> SUFFICES ASSUME NEW r \in SUBSET (1..(n + 1)), r # {} PROVE Has(r)
        OBVIOUS
    <2>1. CASE n + 1 \in r
        <3>1. n + 1 \in Nat /\ \A i \in r : i \in 1..(n + 1) /\ i <= n + 1
            OBVIOUS
        <3>2. Max(r) = n + 1
            BY <2>1, <3>1, LargestIs
        <3> QED BY <2>1, <3>1, <3>2
    <2>2. CASE n + 1 \notin r
        <3>1. r \in SUBSET (1..n)
            BY <2>2
        <3> QED BY <3>1
    <2> QED BY <2>1, <2>2
<1>3. A \in SUBSET Nat
    OBVIOUS
<1> HIDE DEF A
<1>4. N \in A
    BY <1>1, <1>2, <1>3, AllNats
<1> QED BY <1>4 DEF A

LEMMA MaxIn == ASSUME NEW N \in Nat, NEW s \in SUBSET (1..N), s # {} PROVE Max(s) \in 1..N
BY LargestIn

Function3(it, F, e, base, seq) ==
    it = [s \in SUBSET DOMAIN seq |->
             IF s = {} THEN base ELSE F[<<it[s \ {Max(s)}], seq[Max(s)], e>>]]

LEMMA Folded3Value ==
    ASSUME NEW L, NEW X, NEW F, NEW e, Stays3(F, e, L, X), NEW base \in L, NEW seq \in Seq(X)
    PROVE  FoldValue(Folded3(F, e, base, seq), L, Round3(F, e, seq, L), base, Len(seq))
<1>1. PICK N : N = Len(seq)
    OBVIOUS
<1>2. N \in Nat /\ DOMAIN seq = 1..N /\ \A i \in 1..N : seq[i] \in X
    BY <1>1, LenProperties, ElementOfSeq
<1>3. PICK h : h = Round3(F, e, seq, L)
    OBVIOUS
<1>4. h \in [L \X (1..N) -> L] /\ \A l \in L, i \in 1..N : h[<<l, i>>] = F[<<l, seq[i], e>>]
    BY <1>2, <1>3 DEF Round3, Stays3
<1>5. PICK g \in [SUBSET (1..N) -> L] : TakesSteps(g, h, base, N)
    BY <1>2, <1>4, StepsExist DEF HasSteps
<1>6. Function3(g, F, e, base, seq)
    <2>1. ASSUME NEW s \in SUBSET (1..N), s # {}
          PROVE  g[s] = F[<<g[s \ {Max(s)}], seq[Max(s)], e>>]
        <3>1. PICK m : m = Max(s)
            OBVIOUS
        <3>2. m \in 1..N /\ g[s \ {m}] \in L
            BY <1>2, <2>1, <3>1, MaxIn
        <3>3. g[s] = h[<<g[s \ {m}], m>>]
            BY <1>5, <2>1, <3>1 DEF TakesSteps
        <3> QED BY <1>4, <3>1, <3>2, <3>3
    <2>2. g[{}] = base
        BY <1>5 DEF TakesSteps
    <2> QED BY <1>2, <2>1, <2>2 DEF Function3
<1>7. PICK it : it = CHOOSE iter : Function3(iter, F, e, base, seq)
    OBVIOUS
<1>8. Function3(it, F, e, base, seq)
    BY Zenon, <1>6, <1>7
<1>9. Folded3(F, e, base, seq) = it[1..N]
    BY <1>2, <1>7 DEF Folded3, FoldLeft, MapThenFoldSet, Function3
<1>10. FoldsAs(it, L, h, base, N)
    <2>1. it[{}] = base
        BY <1>8 DEF Function3
    <2>2. ASSUME NEW s \in SUBSET (1..N), s # {}, it[s \ {Max(s)}] \in L
          PROVE  it[s] = h[<<it[s \ {Max(s)}], Max(s)>>]
        <3>1. PICK m : m = Max(s)
            OBVIOUS
        <3>2. m \in 1..N
            BY <1>2, <2>2, <3>1, MaxIn
        <3>3. it[s] = F[<<it[s \ {m}], seq[m], e>>]
            BY <1>2, <1>8, <2>2, <3>1 DEF Function3
        <3> QED BY <1>4, <2>2, <3>1, <3>2, <3>3
    <2> QED BY <2>1, <2>2 DEF FoldsAs
<1>11. FoldValue(it[1..N], L, h, base, N)
    BY <1>2, <1>4, <1>10, FoldsAsValue
<1> QED BY <1>1, <1>3, <1>9, <1>11

Function2(it, F, base, seq) ==
    it = [s \in SUBSET DOMAIN seq |->
             IF s = {} THEN base ELSE F[<<it[s \ {Max(s)}], seq[Max(s)]>>]]

LEMMA Folded2Value ==
    ASSUME NEW L, NEW X, NEW F, Stays2(F, L, X), NEW base \in L, NEW seq \in Seq(X)
    PROVE  FoldValue(Folded2(F, base, seq), L, Round2(F, seq, L), base, Len(seq))
<1>1. PICK N : N = Len(seq)
    OBVIOUS
<1>2. N \in Nat /\ DOMAIN seq = 1..N /\ \A i \in 1..N : seq[i] \in X
    BY <1>1, LenProperties, ElementOfSeq
<1>3. PICK h : h = Round2(F, seq, L)
    OBVIOUS
<1>4. h \in [L \X (1..N) -> L] /\ \A l \in L, i \in 1..N : h[<<l, i>>] = F[<<l, seq[i]>>]
    BY <1>2, <1>3 DEF Round2, Stays2
<1>5. PICK g \in [SUBSET (1..N) -> L] : TakesSteps(g, h, base, N)
    BY <1>2, <1>4, StepsExist DEF HasSteps
<1>6. Function2(g, F, base, seq)
    <2>1. ASSUME NEW s \in SUBSET (1..N), s # {}
          PROVE  g[s] = F[<<g[s \ {Max(s)}], seq[Max(s)]>>]
        <3>1. PICK m : m = Max(s)
            OBVIOUS
        <3>2. m \in 1..N /\ g[s \ {m}] \in L
            BY <1>2, <2>1, <3>1, MaxIn
        <3>3. g[s] = h[<<g[s \ {m}], m>>]
            BY <1>5, <2>1, <3>1 DEF TakesSteps
        <3> QED BY <1>4, <3>1, <3>2, <3>3
    <2>2. g[{}] = base
        BY <1>5 DEF TakesSteps
    <2> QED BY <1>2, <2>1, <2>2 DEF Function2
<1>7. PICK it : it = CHOOSE iter : Function2(iter, F, base, seq)
    OBVIOUS
<1>8. Function2(it, F, base, seq)
    BY Zenon, <1>6, <1>7
<1>9. Folded2(F, base, seq) = it[1..N]
    BY <1>2, <1>7 DEF Folded2, FoldLeft, MapThenFoldSet, Function2
<1>10. FoldsAs(it, L, h, base, N)
    <2>1. it[{}] = base
        BY <1>8 DEF Function2
    <2>2. ASSUME NEW s \in SUBSET (1..N), s # {}, it[s \ {Max(s)}] \in L
          PROVE  it[s] = h[<<it[s \ {Max(s)}], Max(s)>>]
        <3>1. PICK m : m = Max(s)
            OBVIOUS
        <3>2. m \in 1..N
            BY <1>2, <2>2, <3>1, MaxIn
        <3>3. it[s] = F[<<it[s \ {m}], seq[m]>>]
            BY <1>2, <1>8, <2>2, <3>1 DEF Function2
        <3> QED BY <1>4, <2>2, <3>1, <3>2, <3>3
    <2> QED BY <2>1, <2>2 DEF FoldsAs
<1>11. FoldValue(it[1..N], L, h, base, N)
    BY <1>2, <1>4, <1>10, FoldsAsValue
<1> QED BY <1>1, <1>3, <1>9, <1>11

FunctionOfFiles(it, base, seq) ==
    it = [s \in SUBSET DOMAIN seq |->
             IF s = {} THEN base ELSE AddFilesToSet(it[s \ {Max(s)}], seq[Max(s)].world, seq[Max(s)].name)]

LEMMA FoldedFilesValue ==
    ASSUME NEW L, NEW X, FilesStay(L, X), NEW base \in L, NEW seq \in Seq(X)
    PROVE  FoldValue(FoldedFiles(base, seq), L, RoundOfFiles(seq, L), base, Len(seq))
<1>1. PICK N : N = Len(seq)
    OBVIOUS
<1>2. N \in Nat /\ DOMAIN seq = 1..N /\ \A i \in 1..N : seq[i] \in X
    BY <1>1, LenProperties, ElementOfSeq
<1>3. PICK h : h = RoundOfFiles(seq, L)
    OBVIOUS
<1>4. h \in [L \X (1..N) -> L] /\ \A l \in L, i \in 1..N : h[<<l, i>>] = AddFilesToSet(l, seq[i].world, seq[i].name)
    BY <1>2, <1>3 DEF RoundOfFiles, FilesStay
<1>5. PICK g \in [SUBSET (1..N) -> L] : TakesSteps(g, h, base, N)
    BY <1>2, <1>4, StepsExist DEF HasSteps
<1>6. FunctionOfFiles(g, base, seq)
    <2>1. ASSUME NEW s \in SUBSET (1..N), s # {}
          PROVE  g[s] = AddFilesToSet(g[s \ {Max(s)}], seq[Max(s)].world, seq[Max(s)].name)
        <3>1. PICK m : m = Max(s)
            OBVIOUS
        <3>2. m \in 1..N /\ g[s \ {m}] \in L
            BY <1>2, <2>1, <3>1, MaxIn
        <3>3. g[s] = h[<<g[s \ {m}], m>>]
            BY <1>5, <2>1, <3>1 DEF TakesSteps
        <3> QED BY <1>4, <3>1, <3>2, <3>3
    <2>2. g[{}] = base
        BY <1>5 DEF TakesSteps
    <2> QED BY <1>2, <2>1, <2>2 DEF FunctionOfFiles
<1>7. PICK it : it = CHOOSE iter : FunctionOfFiles(iter, base, seq)
    OBVIOUS
<1>8. FunctionOfFiles(it, base, seq)
    BY Zenon, <1>6, <1>7
<1>9. FoldedFiles(base, seq) = it[1..N]
    BY <1>2, <1>7 DEF FoldedFiles, FoldLeft, MapThenFoldSet, FunctionOfFiles
<1>10. FoldsAs(it, L, h, base, N)
    <2>1. it[{}] = base
        BY <1>8 DEF FunctionOfFiles
    <2>2. ASSUME NEW s \in SUBSET (1..N), s # {}, it[s \ {Max(s)}] \in L
          PROVE  it[s] = h[<<it[s \ {Max(s)}], Max(s)>>]
        <3>1. PICK m : m = Max(s)
            OBVIOUS
        <3>2. m \in 1..N
            BY <1>2, <2>2, <3>1, MaxIn
        <3>3. it[s] = AddFilesToSet(it[s \ {m}], seq[m].world, seq[m].name)
            BY <1>2, <1>8, <2>2, <3>1 DEF FunctionOfFiles
        <3> QED BY <1>4, <2>2, <3>1, <3>2, <3>3
    <2> QED BY <2>1, <2>2 DEF FoldsAs
<1>11. FoldValue(it[1..N], L, h, base, N)
    BY <1>2, <1>4, <1>10, FoldsAsValue
<1> QED BY <1>1, <1>3, <1>9, <1>11

Rounds3(S, F, e, seq, L) ==
    \A i \in DOMAIN seq : \A l \in L : l \in S[i - 1] => F[<<l, seq[i], e>>] \in S[i]

LEMMA FoldRule3 ==
    ASSUME NEW L, NEW X, NEW F, NEW e, Stays3(F, e, L, X), NEW base \in L, NEW seq \in Seq(X),
           NEW S, base \in S[0], Rounds3(S, F, e, seq, L)
    PROVE  Folded3(F, e, base, seq) \in L /\ Folded3(F, e, base, seq) \in S[Len(seq)]
<1>1. Len(seq) \in Nat /\ DOMAIN seq = 1..Len(seq)
    BY LenProperties
<1>2. Rounds(S, L, Round3(F, e, seq, L), Len(seq))
    BY <1>1 DEF Rounds, Rounds3, Round3
<1>3. FoldValue(Folded3(F, e, base, seq), L, Round3(F, e, seq, L), base, Len(seq))
    BY Folded3Value
<1> QED BY <1>1, <1>2, <1>3, FoldRule

Alike3(F, G, e, L, X) == \A l \in L, x \in X : F[<<l, x, e>>] = G[<<l, x, e>>]

LEMMA FoldAlike3 ==
    ASSUME NEW L, NEW X, NEW F, NEW e, Stays3(F, e, L, X), NEW G, Alike3(F, G, e, L, X),
           NEW base \in L, NEW seq \in Seq(X)
    PROVE  Folded3(F, e, base, seq) = Folded3(G, e, base, seq)
<1>1. Len(seq) \in Nat /\ DOMAIN seq = 1..Len(seq) /\ \A i \in DOMAIN seq : seq[i] \in X
    BY LenProperties, ElementOfSeq
<1>2. Stays3(G, e, L, X)
    BY DEF Stays3, Alike3
<1>3. Round3(F, e, seq, L) = Round3(G, e, seq, L)
    BY <1>1 DEF Round3, Alike3
<1>4. PICK v : v = Folded3(F, e, base, seq)
    OBVIOUS
<1>5. PICK w : w = Folded3(G, e, base, seq)
    OBVIOUS
<1>6. FoldValue(v, L, Round3(F, e, seq, L), base, Len(seq))
    BY <1>4, Folded3Value
<1>7. FoldValue(w, L, Round3(F, e, seq, L), base, Len(seq))
    BY <1>2, <1>3, <1>5, Folded3Value
<1> QED BY <1>1, <1>4, <1>5, <1>6, <1>7, FoldUnique

---------------------------------------------------------------------------
(* Loading a descriptor set *)

Files(u) == DOMAIN u \subseteq File /\ u \in [DOMAIN u -> Content]

LEMMA FilesParts ==
    ASSUME NEW u, Files(u), NEW name \in DOMAIN u
    PROVE  name \in File /\ u[name] \in Content /\ u[name].deps \in Seq(File)
BY DEF Files, Content

Settled(l, name) == l.outcome # "ok" \/ name \in ToSet(l.resolved)

(* What one call of resolveFileDescriptor returns, where its own calls       *)
(* return below.                                                             *)
Returned(u, l, name, d, below) ==
    IF Settled(l, name) THEN l
    ELSE IF name \notin DOMAIN u THEN [l EXCEPT !.outcome = "error"]
    ELSE IF d > Cardinality(File) THEN [l EXCEPT !.outcome = "overflow"]
    ELSE IF below.outcome # "ok" THEN below
    ELSE IF ~Links(u, name) THEN [below EXCEPT !.outcome = "error"]
    ELSE [below EXCEPT !.resolved = Append(@, name)]

LEMMA ResolveFileIs ==
    ASSUME NEW r, NEW u, NEW l, NEW name, NEW d
    PROVE  ResolveFile(r, u, l, name, d) = Returned(u, l, name, d, Folded3(r, d + 1, l, u[name].deps))
BY DEF ResolveFile, Returned, Folded3, Settled

Calls == Loading \X File \X Nat

IsResolve(r, u) == r = [call \in Calls |-> ResolveFile(r, u, call[1], call[2], call[3])]

ResolvesFrom(g, u, depth) ==
    /\ g \in [Calls -> Loading]
    /\ \A l \in Loading, name \in File, d \in Nat :
          d >= depth => g[<<l, name, d>>] = ResolveFile(g, u, l, name, d)

LEMMA LoadingParts ==
    ASSUME NEW l \in Loading
    PROVE  l.resolved \in Seq(File) /\ l.outcome \in {"ok", "error", "overflow"}
BY DEF Loading

LEMMA LoadingEnds ==
    ASSUME NEW l \in Loading, NEW o \in {"error", "overflow"},
           NEW x, x = [l EXCEPT !.outcome = o]
    PROVE  x \in Loading /\ x.outcome = o /\ x.resolved = l.resolved
BY DEF Loading

LEMMA LoadingGrows ==
    ASSUME NEW l \in Loading, NEW name \in File,
           NEW x, x = [l EXCEPT !.resolved = Append(@, name)]
    PROVE  x \in Loading /\ x.outcome = l.outcome /\ x.resolved = Append(l.resolved, name)
<1>1. l.resolved \in Seq(File)
    BY LoadingParts
<1>2. Append(l.resolved, name) \in Seq(File)
    BY <1>1, AppendProperties
<1> QED BY <1>2 DEF Loading

LEMMA ResolveFileAlike ==
    ASSUME NEW u, Files(u), NEW d \in Nat, NEW l \in Loading, NEW name \in File,
           NEW r, Stays3(r, d + 1, Loading, File),
           NEW g, d <= Cardinality(File) => Alike3(r, g, d + 1, Loading, File)
    PROVE  /\ ResolveFile(r, u, l, name, d) = ResolveFile(g, u, l, name, d)
           /\ ResolveFile(r, u, l, name, d) \in Loading
<1>1. PICK below : below = Folded3(r, d + 1, l, u[name].deps)
    OBVIOUS
<1>2. PICK other : other = Folded3(g, d + 1, l, u[name].deps)
    OBVIOUS
<1>3. PICK K : K = Cardinality(File)
    OBVIOUS
<1>4. K \in Nat
    BY <1>3, FS_CardinalityType, DescriptorsAssumption
<1>5. PICK v : v = ResolveFile(r, u, l, name, d)
    OBVIOUS
<1>6. PICK w : w = ResolveFile(g, u, l, name, d)
    OBVIOUS
<1>7. v = Returned(u, l, name, d, below)
    BY <1>1, <1>5, ResolveFileIs
<1>8. w = Returned(u, l, name, d, other)
    BY <1>2, <1>6, ResolveFileIs
<1>9. CASE name \in DOMAIN u /\ ~(d > K)
    <2>1. u[name].deps \in Seq(File)
        BY <1>9, FilesParts
    <2>2. Alike3(r, g, d + 1, Loading, File)
        BY <1>3, <1>4, <1>9
    <2>3. below = other
        BY <1>1, <1>2, <2>1, <2>2, FoldAlike3
    <2>4. PICK S : S = [i \in 0..Len(u[name].deps) |-> Loading]
        OBVIOUS
    <2>5. below \in Loading
        <3>1. Len(u[name].deps) \in Nat /\ DOMAIN u[name].deps = 1..Len(u[name].deps)
              /\ \A i \in DOMAIN u[name].deps : u[name].deps[i] \in File
            BY <2>1, LenProperties, ElementOfSeq
        <3>2. Rounds3(S, r, d + 1, u[name].deps, Loading)
            BY <2>4, <3>1 DEF Rounds3, Stays3
        <3>3. l \in S[0]
            BY <2>4, <3>1
        <3> QED BY <1>1, <2>1, <3>2, <3>3, FoldRule3
    <2>6. [below EXCEPT !.resolved = Append(@, name)] \in Loading
        BY <2>5, LoadingGrows
    <2>7. [below EXCEPT !.outcome = "error"] \in Loading
        BY <2>5, LoadingEnds
    <2>8. v \in Loading
        BY <1>3, <1>7, <1>9, <2>5, <2>6, <2>7 DEF Returned
    <2> QED BY <1>5, <1>6, <1>7, <1>8, <2>3, <2>8
<1>10. CASE name \notin DOMAIN u \/ d > K
    <2>1. [l EXCEPT !.outcome = "error"] \in Loading /\ [l EXCEPT !.outcome = "overflow"] \in Loading
        BY LoadingEnds
    <2>2. v \in Loading
        BY <1>3, <1>7, <1>10, <2>1 DEF Returned
    <2>3. v = w
        BY <1>3, <1>7, <1>8, <1>10 DEF Returned
    <2> QED BY <1>5, <1>6, <2>2, <2>3
<1> QED BY <1>9, <1>10

LEMMA ResolvesFurther ==
    ASSUME NEW u, Files(u), NEW g, NEW d \in Nat, ResolvesFrom(g, u, d + 1)
    PROVE  \E k : ResolvesFrom(k, u, d)
<1> DEFINE k == [call \in Calls |-> IF call[3] > d THEN g[call]
                                    ELSE ResolveFile(g, u, call[1], call[2], call[3])]
<1>1. g \in [Calls -> Loading]
    BY DEF ResolvesFrom
<1>2. \A l \in Loading, name \in File, e \in Nat : <<l, name, e>> \in Calls
    BY DEF Calls
<1>3. \A e \in Nat : Stays3(g, e, Loading, File)
    BY <1>1, <1>2 DEF Stays3
<1>4. ASSUME NEW l \in Loading, NEW name \in File, NEW e \in Nat
      PROVE  k[<<l, name, e>>] = IF e > d THEN g[<<l, name, e>>] ELSE ResolveFile(g, u, l, name, e)
    BY <1>2
<1>5. k \in [Calls -> Loading]
    <2> SUFFICES ASSUME NEW call \in Calls
                 PROVE  (IF call[3] > d THEN g[call]
                         ELSE ResolveFile(g, u, call[1], call[2], call[3])) \in Loading
        OBVIOUS
    <2>1. g[call] \in Loading
        BY <1>1
    <2>2. PICK l \in Loading, name \in File, e \in Nat : call = <<l, name, e>>
        BY DEF Calls
    <2>3. e + 1 \in Nat
        OBVIOUS
    <2>4. Alike3(g, g, e + 1, Loading, File)
        BY DEF Alike3
    <2>5. ResolveFile(g, u, l, name, e) \in Loading
        BY <1>3, <2>3, <2>4, ResolveFileAlike
    <2> QED BY <2>1, <2>2, <2>5
<1> HIDE DEF k
<1>6. ASSUME NEW l \in Loading, NEW name \in File, NEW e \in Nat, e >= d
      PROVE  k[<<l, name, e>>] = ResolveFile(k, u, l, name, e)
    <2>1. e + 1 \in Nat /\ e + 1 > d
        BY <1>6
    <2>2. Alike3(g, k, e + 1, Loading, File)
        BY <1>4, <2>1 DEF Alike3
    <2>3. ResolveFile(g, u, l, name, e) = ResolveFile(k, u, l, name, e)
        BY <1>3, <2>1, <2>2, ResolveFileAlike
    <2>4. CASE e > d
        <3>1. e >= d + 1
            BY <2>4
        <3>2. g[<<l, name, e>>] = ResolveFile(g, u, l, name, e)
            BY <3>1 DEF ResolvesFrom
        <3> QED BY <1>4, <2>3, <2>4, <3>2
    <2>5. CASE ~(e > d)
        BY <1>4, <2>3, <2>5
    <2> QED BY <2>4, <2>5
<1>7. ResolvesFrom(k, u, d)
    BY <1>5, <1>6 DEF ResolvesFrom
<1> QED BY <1>7

(* Calls that are too deep return at once; so there is such a function.      *)
LEMMA ResolveExists ==
    ASSUME NEW u, Files(u)
    PROVE  \E r : IsResolve(r, u)
<1>1. PICK K : K = Cardinality(File)
    OBVIOUS
<1>2. K \in Nat
    BY <1>1, FS_CardinalityType, DescriptorsAssumption
<1> DEFINE A == {n \in Nat : n <= K + 1 => \E g : ResolvesFrom(g, u, (K + 1) - n)}
<1>3. 0 \in A
    <2>1. PICK any : any = [call \in Calls |-> call[1]]
        OBVIOUS
    <2>2. any \in [Calls -> Loading]
        BY <2>1 DEF Calls
    <2>3. \A l \in Loading, name \in File, e \in Nat : <<l, name, e>> \in Calls
        BY DEF Calls
    <2>4. \A e \in Nat : Stays3(any, e, Loading, File)
        BY <2>2, <2>3 DEF Stays3
    <2> DEFINE g == [call \in Calls |-> ResolveFile(any, u, call[1], call[2], call[3])]
    <2>5. ASSUME NEW l \in Loading, NEW name \in File, NEW e \in Nat
          PROVE  g[<<l, name, e>>] = ResolveFile(any, u, l, name, e)
        BY <2>3
    <2>6. g \in [Calls -> Loading]
        <3> SUFFICES ASSUME NEW call \in Calls
                     PROVE  ResolveFile(any, u, call[1], call[2], call[3]) \in Loading
            OBVIOUS
        <3>1. PICK l \in Loading, name \in File, e \in Nat : call = <<l, name, e>>
            BY DEF Calls
        <3>2. e + 1 \in Nat
            OBVIOUS
        <3>3. Alike3(any, any, e + 1, Loading, File)
            BY DEF Alike3
        <3>4. ResolveFile(any, u, l, name, e) \in Loading
            BY <2>4, <3>2, <3>3, ResolveFileAlike
        <3> QED BY <3>1, <3>4
    <2> HIDE DEF g
    <2>7. ASSUME NEW l \in Loading, NEW name \in File, NEW e \in Nat, e >= K + 1
          PROVE  g[<<l, name, e>>] = ResolveFile(g, u, l, name, e)
        <3>1. ~(e <= Cardinality(File)) /\ e + 1 \in Nat
            BY <1>1, <1>2, <2>7
        <3>2. ResolveFile(any, u, l, name, e) = ResolveFile(g, u, l, name, e)
            BY <2>4, <3>1, ResolveFileAlike
        <3> QED BY <2>5, <3>2
    <2>8. ResolvesFrom(g, u, K + 1)
        BY <2>6, <2>7 DEF ResolvesFrom
    <2>9. (K + 1) - 0 = K + 1
        BY <1>2
    <2> QED BY <2>8, <2>9
<1>4. ASSUME NEW n \in A PROVE n + 1 \in A
    <2> SUFFICES ASSUME n + 1 <= K + 1 PROVE \E g : ResolvesFrom(g, u, (K + 1) - (n + 1))
        OBVIOUS
    <2>1. n \in Nat
        OBVIOUS
    <2>2. PICK d : d = (K + 1) - (n + 1)
        OBVIOUS
    <2>3. d \in Nat /\ d + 1 = (K + 1) - n /\ n <= K + 1
        BY <1>2, <2>1, <2>2
    <2>4. PICK g : ResolvesFrom(g, u, d + 1)
        BY <2>3
    <2>5. \E k : ResolvesFrom(k, u, d)
        BY <2>3, <2>4, ResolvesFurther
    <2> QED BY <2>2, <2>5
<1>5. A \in SUBSET Nat
    OBVIOUS
<1> HIDE DEF A
<1>6. K + 1 \in A
    <2>1. K + 1 \in Nat
        BY <1>2
    <2> QED BY <1>3, <1>4, <1>5, <2>1, AllNats
<1>7. PICK g : ResolvesFrom(g, u, 0)
    <2>1. (K + 1) - (K + 1) = 0 /\ K + 1 <= K + 1
        BY <1>2
    <2> QED BY <1>6, <2>1 DEF A
<1>8. \A l \in Loading, name \in File, e \in Nat :
          g[<<l, name, e>>] = ResolveFile(g, u, l, name, e)
    <2>1. \A e \in Nat : e >= 0
        OBVIOUS
    <2> QED BY Zenon, <1>7, <2>1 DEF ResolvesFrom
<1>9. g \in [Calls -> Loading]
    BY <1>7 DEF ResolvesFrom
<1>10. \A call \in Calls : g[call] = ResolveFile(g, u, call[1], call[2], call[3])
    <2> SUFFICES ASSUME NEW call \in Calls
                 PROVE  g[call] = ResolveFile(g, u, call[1], call[2], call[3])
        OBVIOUS
    <2>1. PICK l \in Loading, name \in File, e \in Nat : call = <<l, name, e>>
        BY DEF Calls
    <2> QED BY <1>8, <2>1
<1>11. g = [call \in Calls |-> g[call]]
    BY <1>9
<1>12. IsResolve(g, u)
    BY <1>10, <1>11 DEF IsResolve
<1> QED BY <1>12

(* Resolve folds such a function. *)
LEMMA ResolveIs ==
    ASSUME NEW u, Files(u), NEW names
    PROVE  \E r : /\ IsResolve(r, u)
                  /\ Resolve(u, names) = Folded3(r, 1, [resolved |-> <<>>, outcome |-> "ok"], names)
<1>1. PICK g : IsResolve(g, u)
    BY ResolveExists
<1>2. PICK r : r = CHOOSE resolve : IsResolve(resolve, u)
    OBVIOUS
<1>3. IsResolve(r, u)
    BY Zenon, <1>1, <1>2
<1>4. Resolve(u, names) = Folded3(r, 1, [resolved |-> <<>>, outcome |-> "ok"], names)
    BY <1>2 DEF Resolve, Folded3, IsResolve, Calls
<1> QED BY <1>3, <1>4

(* What is resolved is in the set, links, and has every import before it. *)
ImportsFirst(u, s) ==
    \A i \in DOMAIN s :
        /\ s[i] \in DOMAIN u
        /\ Links(u, s[i])
        /\ \A dep \in ToSet(u[s[i]].deps) : \E j \in 1..(i - 1) : s[j] = dep

Sound(u, l) == ImportsFirst(u, l.resolved)

(* l became x by resolving names: what x says of them and of the set. *)
Fine(u, l, x, names) ==
    /\ x \in Loading
    /\ Sound(u, l) => Sound(u, x)
    /\ ToSet(l.resolved) \subseteq ToSet(x.resolved)
    /\ x.outcome = "ok" => l.outcome = "ok" /\ names \subseteq ToSet(x.resolved)
    /\ x.outcome = "error" => l.outcome = "error" \/ ~Closed(u) \/ ~Linked(u) \/ ~(names \subseteq DOMAIN u)
    /\ x.outcome = "overflow" => l.outcome = "overflow" \/ ~Acyclic(u)

LEMMA FineTrans ==
    ASSUME NEW u, NEW l, NEW x, NEW y, NEW A, NEW B, Fine(u, l, x, A), Fine(u, x, y, B)
    PROVE  Fine(u, l, y, A \cup B)
BY DEF Fine

LEMMA FineSelf ==
    ASSUME NEW u, NEW l \in Loading
    PROVE  Fine(u, l, l, {})
BY LoadingParts DEF Fine

(* The files of S and name import one another, and name is not in S. *)
Above(u, S, name) ==
    /\ S \subseteq DOMAIN u
    /\ \A f \in S : ToSet(u[f].deps) \cap (S \cup {name}) # {}

LEMMA AboveItself ==
    ASSUME NEW u, NEW S, NEW name \in S, Above(u, S, name)
    PROVE  ~Acyclic(u)
<1>1. S \subseteq DOMAIN u /\ S # {} /\ S \cup {name} = S
    BY DEF Above
<1>2. \A f \in S : ToSet(u[f].deps) \cap S # {}
    BY <1>1 DEF Above
<1>3. S \in (SUBSET DOMAIN u) \ {{}}
    BY <1>1
<1> QED BY <1>2, <1>3 DEF Acyclic

LEMMA AboveNext ==
    ASSUME NEW u, NEW S, NEW name \in DOMAIN u, Above(u, S, name), NEW dep \in ToSet(u[name].deps)
    PROVE  Above(u, S \cup {name}, dep)
BY DEF Above

(* The calls on the stack are of different files, unless there is a cycle.   *)
Reached(u, name, d) ==
    Acyclic(u) => \E S : Above(u, S, name) /\ IsFiniteSet(S) /\ Cardinality(S) = d - 1

LEMMA ReachedNext ==
    ASSUME NEW u, NEW d \in Nat, NEW name \in DOMAIN u, Reached(u, name, d),
           NEW dep \in ToSet(u[name].deps)
    PROVE  Reached(u, dep, d + 1)
<1> SUFFICES ASSUME Acyclic(u)
             PROVE  \E S : Above(u, S, dep) /\ IsFiniteSet(S) /\ Cardinality(S) = (d + 1) - 1
    BY DEF Reached
<1>1. PICK S : Above(u, S, name) /\ IsFiniteSet(S) /\ Cardinality(S) = d - 1
    BY DEF Reached
<1>2. name \notin S
    BY <1>1, AboveItself
<1>3. Above(u, S \cup {name}, dep)
    BY <1>1, AboveNext
<1>4. IsFiniteSet(S \cup {name}) /\ Cardinality(S \cup {name}) = Cardinality(S) + 1
    BY <1>1, <1>2, FS_AddElement
<1>5. Cardinality(S \cup {name}) = (d + 1) - 1
    <2>1. (d - 1) + 1 = (d + 1) - 1
        OBVIOUS
    <2> QED BY <1>1, <1>4, <2>1
<1> QED BY <1>3, <1>4, <1>5

LEMMA TooDeep ==
    ASSUME NEW u, Files(u), NEW d \in Nat, d > Cardinality(File), NEW name \in DOMAIN u,
           Reached(u, name, d)
    PROVE  ~Acyclic(u)
<1> SUFFICES ASSUME Acyclic(u) PROVE FALSE
    OBVIOUS
<1>1. PICK S : Above(u, S, name) /\ IsFiniteSet(S) /\ Cardinality(S) = d - 1
    BY DEF Reached
<1>2. name \notin S
    BY <1>1, AboveItself
<1>3. Cardinality(S \cup {name}) = Cardinality(S) + 1
    BY <1>1, <1>2, FS_AddElement
<1>4. S \cup {name} \subseteq File
    BY <1>1 DEF Above, Files
<1>5. PICK k : k = Cardinality(S \cup {name})
    OBVIOUS
<1>6. k <= Cardinality(File)
    BY <1>4, <1>5, FS_Subset, DescriptorsAssumption
<1>7. PICK K : K = Cardinality(File)
    OBVIOUS
<1>8. K \in Nat /\ d > K /\ k <= K
    BY <1>6, <1>7, FS_CardinalityType, DescriptorsAssumption
<1>9. k = d
    <2>1. (d - 1) + 1 = d
        OBVIOUS
    <2> QED BY <1>1, <1>3, <1>5, <2>1
<1> QED BY <1>8, <1>9

(* A fold of calls that are fine is fine. *)
AllFine(u, r, e, X) == \A l \in Loading, x \in X : Fine(u, l, r[<<l, x, e>>], {x})

LEMMA FoldFine ==
    ASSUME NEW u, NEW r, NEW e, NEW X, AllFine(u, r, e, X), NEW base \in Loading, NEW seq \in Seq(X)
    PROVE  Fine(u, base, Folded3(r, e, base, seq), ToSet(seq))
<1>1. Len(seq) \in Nat /\ DOMAIN seq = 1..Len(seq) /\ \A i \in DOMAIN seq : seq[i] \in X
    BY LenProperties, ElementOfSeq
<1> DEFINE Named(i) == {seq[j] : j \in 1..i}
<1>2. PICK S : S = [i \in 0..Len(seq) |-> {x \in Loading : Fine(u, base, x, Named(i))}]
    OBVIOUS
<1>3. base \in S[0]
    <2>1. Named(0) = {} /\ 0 \in 0..Len(seq)
        BY <1>1
    <2>2. Fine(u, base, base, {})
        BY FineSelf
    <2> QED BY <1>2, <2>1, <2>2
<1>4. ASSUME NEW i \in DOMAIN seq, NEW l \in Loading, l \in S[i - 1]
      PROVE  r[<<l, seq[i], e>>] \in S[i]
    <2>1. i - 1 \in 0..Len(seq) /\ i \in 0..Len(seq) /\ i \in Nat
        BY <1>1
    <2>2. Fine(u, base, l, Named(i - 1))
        BY <1>2, <1>4, <2>1
    <2>3. PICK x : x = r[<<l, seq[i], e>>]
        OBVIOUS
    <2>4. Fine(u, l, x, {seq[i]})
        BY <1>1, <2>3 DEF AllFine
    <2>5. Named(i - 1) \cup {seq[i]} = Named(i)
        <3>1. \A j \in 1..i : j = i \/ j \in 1..(i - 1)
            BY <2>1
        <3>2. i \in 1..i /\ \A j \in 1..(i - 1) : j \in 1..i
            BY <1>1, <2>1
        <3> QED BY <3>1, <3>2
    <2>6. Fine(u, base, x, Named(i))
        BY <2>2, <2>4, <2>5, FineTrans
    <2>7. x \in Loading
        BY <2>4 DEF Fine
    <2> HIDE DEF Named
    <2> QED BY <1>2, <2>1, <2>3, <2>6, <2>7
<1>5. Rounds3(S, r, e, seq, Loading)
    BY <1>4 DEF Rounds3
<1>6. Stays3(r, e, Loading, X)
    BY DEF AllFine, Fine, Stays3
<1>7. Folded3(r, e, base, seq) \in S[Len(seq)]
    BY <1>3, <1>5, <1>6, FoldRule3
<1>8. Len(seq) \in 0..Len(seq) /\ Named(Len(seq)) = ToSet(seq)
    BY <1>1 DEF ToSet
<1> HIDE DEF Named
<1> QED BY <1>2, <1>7, <1>8

(* r computes what resolveFileDescriptor does, each call in terms of others. *)
LEMMA ResolveStep ==
    ASSUME NEW u, NEW r, IsResolve(r, u), NEW l \in Loading, NEW name \in File, NEW d \in Nat
    PROVE  r[<<l, name, d>>] = Returned(u, l, name, d, Folded3(r, d + 1, l, u[name].deps))
<1>1. <<l, name, d>> \in Calls
    BY DEF Calls
<1>2. r[<<l, name, d>>] = ResolveFile(r, u, l, name, d)
    BY <1>1 DEF IsResolve
<1> QED BY <1>2, ResolveFileIs

LEMMA SoundAppend ==
    ASSUME NEW u, NEW l \in Loading, Sound(u, l), NEW name \in File, name \in DOMAIN u,
           Links(u, name), ToSet(u[name].deps) \subseteq ToSet(l.resolved)
    PROVE  Sound(u, [l EXCEPT !.resolved = Append(@, name)])
<1>1. PICK s : s = l.resolved
    OBVIOUS
<1>2. PICK n : n = Len(s)
    OBVIOUS
<1>3. PICK e : e = Append(s, name)
    OBVIOUS
<1>4. s \in Seq(File) /\ n \in Nat /\ DOMAIN s = 1..n
    BY <1>1, <1>2, LoadingParts, LenProperties
<1>5. /\ e \in Seq(File) /\ Len(e) = n + 1 /\ e[n + 1] = name
      /\ \A i \in 1..n : e[i] = s[i]
    BY <1>2, <1>3, <1>4, AppendProperties
<1>6. DOMAIN e = 1..(n + 1)
    BY <1>5, LenProperties
<1>7. PICK x : x = [l EXCEPT !.resolved = Append(@, name)]
    OBVIOUS
<1>8. x.resolved = e
    BY <1>1, <1>3, <1>7, LoadingGrows
<1>9. ASSUME NEW i \in 1..(n + 1)
      PROVE  /\ e[i] \in DOMAIN u
             /\ Links(u, e[i])
             /\ \A dep \in ToSet(u[e[i]].deps) : \E j \in 1..(i - 1) : e[j] = dep
    <2>1. CASE i = n + 1
        <3>1. e[i] = name
            BY <1>5, <2>1
        <3>2. ASSUME NEW dep \in ToSet(u[name].deps) PROVE \E j \in 1..(i - 1) : e[j] = dep
            <4>1. dep \in ToSet(s)
                BY <1>1
            <4>2. PICK j \in 1..n : s[j] = dep
                BY <1>4, <4>1 DEF ToSet
            <4>3. j \in 1..(i - 1)
                BY <1>4, <2>1
            <4> QED BY <1>5, <4>2, <4>3
        <3> QED BY <3>1, <3>2
    <2>2. CASE i # n + 1
        <3>1. i \in 1..n /\ i \in DOMAIN l.resolved /\ e[i] = l.resolved[i]
            BY <1>1, <1>4, <1>5, <2>2
        <3>2. \A j \in 1..(i - 1) : e[j] = l.resolved[j]
            <4>1. \A j \in 1..(i - 1) : j \in 1..n
                BY <1>4, <3>1
            <4> QED BY <1>1, <1>5, <4>1
        <3>3. /\ l.resolved[i] \in DOMAIN u /\ Links(u, l.resolved[i])
              /\ \A dep \in ToSet(u[l.resolved[i]].deps) :
                     \E j \in 1..(i - 1) : l.resolved[j] = dep
            BY <3>1 DEF Sound, ImportsFirst
        <3>4. ASSUME NEW dep \in ToSet(u[e[i]].deps) PROVE \E j \in 1..(i - 1) : e[j] = dep
            <4>1. PICK j \in 1..(i - 1) : l.resolved[j] = dep
                BY <3>1, <3>3
            <4> QED BY <3>2, <4>1
        <3> QED BY <3>1, <3>3, <3>4
    <2> QED BY <2>1, <2>2
<1>10. Sound(u, x)
    BY <1>6, <1>8, <1>9 DEF Sound, ImportsFirst
<1> QED BY <1>7, <1>10

FineCalls(u, r, d) ==
    \A l \in Loading, name \in File :
        Reached(u, name, d) => Fine(u, l, r[<<l, name, d>>], {name})

LEMMA FineStep ==
    ASSUME NEW u, Files(u), NEW r, IsResolve(r, u), NEW d \in Nat,
           d > Cardinality(File) \/ FineCalls(u, r, d + 1)
    PROVE  FineCalls(u, r, d)
<1> SUFFICES ASSUME NEW l \in Loading, NEW name \in File, Reached(u, name, d)
             PROVE  Fine(u, l, r[<<l, name, d>>], {name})
    BY DEF FineCalls
<1>1. PICK below : below = Folded3(r, d + 1, l, u[name].deps)
    OBVIOUS
<1>2. PICK x : x = r[<<l, name, d>>]
    OBVIOUS
<1>3. x = Returned(u, l, name, d, below)
    BY <1>1, <1>2, ResolveStep
<1>4. CASE Settled(l, name)
    <2>1. x = l /\ (x.outcome = "ok" => name \in ToSet(x.resolved))
        BY <1>3, <1>4 DEF Returned, Settled
    <2> QED BY <1>2, <2>1 DEF Fine
<1>5. CASE ~Settled(l, name) /\ name \notin DOMAIN u
    <2>1. x = [l EXCEPT !.outcome = "error"]
        BY <1>3, <1>5 DEF Returned
    <2>2. x \in Loading /\ x.outcome = "error" /\ x.resolved = l.resolved
        BY <2>1, LoadingEnds
    <2>3. Sound(u, l) => Sound(u, x)
        BY <2>2 DEF Sound
    <2> QED BY <1>2, <1>5, <2>2, <2>3 DEF Fine
<1>6. CASE ~Settled(l, name) /\ name \in DOMAIN u /\ d > Cardinality(File)
    <2>1. x = [l EXCEPT !.outcome = "overflow"]
        BY <1>3, <1>6 DEF Returned
    <2>2. x \in Loading /\ x.outcome = "overflow" /\ x.resolved = l.resolved
        BY <2>1, LoadingEnds
    <2>3. Sound(u, l) => Sound(u, x)
        BY <2>2 DEF Sound
    <2>4. ~Acyclic(u)
        BY <1>6, TooDeep
    <2> QED BY <1>2, <2>2, <2>3, <2>4 DEF Fine
<1>7. CASE ~Settled(l, name) /\ name \in DOMAIN u /\ ~(d > Cardinality(File))
    <2>1. u[name].deps \in Seq(File)
        BY <1>7, FilesParts
    <2>2. PICK deps : deps = ToSet(u[name].deps)
        OBVIOUS
    <2>3. DOMAIN u[name].deps = 1..Len(u[name].deps) /\ u[name].deps \in Seq(deps) /\ deps \subseteq File
        <3>1. u[name].deps \in [1..Len(u[name].deps) -> File] /\ Len(u[name].deps) \in Nat
              /\ DOMAIN u[name].deps = 1..Len(u[name].deps)
            BY <2>1, LenProperties
        <3>2. u[name].deps \in [1..Len(u[name].deps) -> deps]
            BY <2>2, <3>1 DEF ToSet
        <3>3. u[name].deps \in Seq(deps)
            BY <3>1, <3>2, SeqDef
        <3> QED BY <2>2, <3>1, <3>3 DEF ToSet
    <2>4. AllFine(u, r, d + 1, deps)
        <3> SUFFICES ASSUME NEW k \in Loading, NEW dep \in deps
                     PROVE  Fine(u, k, r[<<k, dep, d + 1>>], {dep})
            BY DEF AllFine
        <3>1. Reached(u, dep, d + 1)
            BY <1>7, <2>2, ReachedNext
        <3>2. FineCalls(u, r, d + 1) /\ dep \in File
            BY <1>7, <2>3
        <3> QED BY <3>1, <3>2 DEF FineCalls
    <2>5. Fine(u, l, below, deps)
        BY <1>1, <2>2, <2>3, <2>4, FoldFine
    <2>6. below \in Loading /\ l.outcome = "ok"
        BY <1>7, <2>5 DEF Fine, Settled
    <2>7. CASE below.outcome # "ok"
        <3>1. x = below
            BY <1>3, <1>7, <2>7 DEF Returned
        <3>2. below.outcome = "error" => ~Closed(u) \/ ~Linked(u)
            BY <1>7, <2>2, <2>5, <2>6 DEF Fine, Closed
        <3> QED BY <1>2, <2>5, <2>7, <3>1, <3>2 DEF Fine
    <2>8. CASE below.outcome = "ok" /\ ~Links(u, name)
        <3>1. x = [below EXCEPT !.outcome = "error"]
            BY <1>3, <1>7, <2>8 DEF Returned
        <3>2. x \in Loading /\ x.outcome = "error" /\ x.resolved = below.resolved
            BY <2>6, <3>1, LoadingEnds
        <3>3. ~Linked(u)
            BY <1>7, <2>8 DEF Linked
        <3>4. Sound(u, l) => Sound(u, x)
            BY <2>5, <3>2 DEF Fine, Sound
        <3> QED BY <1>2, <2>5, <3>2, <3>3, <3>4 DEF Fine
    <2>9. CASE below.outcome = "ok" /\ Links(u, name)
        <3>1. x = [below EXCEPT !.resolved = Append(@, name)]
            BY <1>3, <1>7, <2>9 DEF Returned
        <3>2. x \in Loading /\ x.outcome = "ok" /\ x.resolved = Append(below.resolved, name)
            BY <2>6, <2>9, <3>1, LoadingGrows
        <3>3. ToSet(x.resolved) = ToSet(below.resolved) \cup {name}
            BY <2>6, <3>2, LoadingParts, ToSetAppend
        <3>4. Sound(u, l) => Sound(u, x)
            <4>1. deps \subseteq ToSet(below.resolved)
                BY <2>5, <2>9 DEF Fine
            <4> QED BY <1>7, <2>2, <2>5, <2>6, <2>9, <3>1, <4>1, SoundAppend DEF Fine
        <3> QED BY <1>2, <2>5, <2>6, <3>2, <3>3, <3>4 DEF Fine
    <2> QED BY <2>7, <2>8, <2>9
<1> QED BY <1>4, <1>5, <1>6, <1>7

LEMMA AllCallsFine ==
    ASSUME NEW u, Files(u), NEW r, IsResolve(r, u)
    PROVE  FineCalls(u, r, 1)
<1>1. PICK K : K = Cardinality(File)
    OBVIOUS
<1>2. K \in Nat
    BY <1>1, FS_CardinalityType, DescriptorsAssumption
<1> DEFINE A == {n \in Nat : n <= K => FineCalls(u, r, (K + 1) - n)}
<1>3. 0 \in A
    <2>1. PICK d : d = (K + 1) - 0
        OBVIOUS
    <2>2. d \in Nat /\ d > Cardinality(File)
        BY <1>1, <1>2, <2>1
    <2>3. FineCalls(u, r, d)
        BY <2>2, FineStep
    <2> QED BY <2>1, <2>3
<1>4. ASSUME NEW n \in A PROVE n + 1 \in A
    <2> SUFFICES ASSUME n + 1 <= K PROVE FineCalls(u, r, (K + 1) - (n + 1))
        OBVIOUS
    <2>1. n \in Nat
        OBVIOUS
    <2>2. PICK d : d = (K + 1) - (n + 1)
        OBVIOUS
    <2>3. d \in Nat /\ d + 1 = (K + 1) - n /\ n <= K
        BY <1>2, <2>1, <2>2
    <2>4. FineCalls(u, r, d + 1)
        BY <2>3
    <2>5. FineCalls(u, r, d)
        BY <2>3, <2>4, FineStep
    <2> QED BY <2>2, <2>5
<1>5. A \in SUBSET Nat
    OBVIOUS
<1> HIDE DEF A
<1>6. K \in A
    BY <1>2, <1>3, <1>4, <1>5, AllNats
<1>7. (K + 1) - K = 1 /\ K <= K
    BY <1>2
<1> QED BY <1>6, <1>7 DEF A

(* Of a call at the top of the stack no import is waiting. *)
LEMMA TopReached == ASSUME NEW u, NEW name PROVE Reached(u, name, 1)
<1>1. Above(u, {}, name)
    BY DEF Above
<1>2. IsFiniteSet({}) /\ Cardinality({}) = 1 - 1
    BY FS_EmptySet
<1> QED BY <1>1, <1>2 DEF Reached

LEMMA ResolveFine ==
    ASSUME NEW u, Files(u), NEW names \in Seq(File)
    PROVE  Fine(u, [resolved |-> <<>>, outcome |-> "ok"], Resolve(u, names), ToSet(names))
<1>1. PICK r : /\ IsResolve(r, u)
               /\ Resolve(u, names) = Folded3(r, 1, [resolved |-> <<>>, outcome |-> "ok"], names)
    BY ResolveIs
<1>2. AllFine(u, r, 1, File)
    BY <1>1, AllCallsFine, TopReached DEF FineCalls, AllFine
<1>3. [resolved |-> <<>>, outcome |-> "ok"] \in Loading
    <2>1. <<>> \in Seq(File)
        OBVIOUS
    <2> QED BY <2>1 DEF Loading
<1> QED BY <1>1, <1>2, <1>3, FoldFine

LEMMA UnresolvedFiles ==
    ASSUME NEW s \in Seq(Entry)
    PROVE  /\ Files(Unresolved(s)) /\ DOMAIN Unresolved(s) = {s[i].name : i \in DOMAIN s}
           /\ \A name \in DOMAIN Unresolved(s) :
                 \E i \in DOMAIN s : /\ s[i].name = name /\ Unresolved(s)[name] = s[i].content
                                     /\ \A j \in DOMAIN s : s[j].name = name => j <= i
<1>1. PICK N : N = Len(s)
    OBVIOUS
<1>2. /\ N \in Nat /\ DOMAIN s = 1..N
      /\ \A i \in DOMAIN s : s[i].name \in File /\ s[i].content \in Content
    <2>1. N \in Nat /\ DOMAIN s = 1..N
        BY <1>1, LenProperties
    <2>2. \A i \in 1..Len(s) : s[i] \in Entry
        BY ElementOfSeq
    <2> QED BY <1>1, <2>1, <2>2 DEF Entry
<1> DEFINE IsLast(name, i) == i \in DOMAIN s /\ s[i].name = name
                               /\ \A j \in DOMAIN s : s[j].name = name => j <= i
           TheLast(name) == CHOOSE i \in DOMAIN s : s[i].name = name
                               /\ \A j \in DOMAIN s : s[j].name = name => j <= i
           Names == {s[i].name : i \in DOMAIN s}
<1>3. ASSUME NEW name \in Names PROVE IsLast(name, TheLast(name))
    <2>1. PICK r : r = {i \in DOMAIN s : s[i].name = name}
        OBVIOUS
    <2>2. r \in SUBSET (1..N) /\ r # {}
        BY <1>2, <2>1
    <2>3. IsLast(name, Max(r))
        BY <1>2, <2>1, <2>2, LargestIn
    <2>4. TheLast(name) = CHOOSE i : IsLast(name, i)
        OBVIOUS
    <2> HIDE DEF IsLast
    <2> QED BY Zenon, <2>3, <2>4
<1>4. Unresolved(s) = [name \in Names |-> s[TheLast(name)].content]
    BY DEF Unresolved
<1> HIDE DEF TheLast
<1>5. Unresolved(s) \in [Names -> Content]
    BY <1>2, <1>3, <1>4
<1>6. Names \subseteq File
    BY <1>2
<1> QED BY <1>3, <1>4, <1>5, <1>6 DEF Files

Nothing == [resolved |-> <<>>, outcome |-> "ok"]

LEMMA LoadFine ==
    ASSUME NEW s \in Seq(Entry)
    PROVE  Fine(Unresolved(s), Nothing, Load(s), DOMAIN Unresolved(s))
<1>1. PICK names : names = [i \in DOMAIN s |-> s[i].name]
    OBVIOUS
<1>2. names \in Seq(File) /\ ToSet(names) = {s[i].name : i \in DOMAIN s}
    <2>1. Len(s) \in Nat /\ DOMAIN s = 1..Len(s)
        BY LenProperties
    <2>2. \A i \in 1..Len(s) : s[i] \in Entry
        BY ElementOfSeq
    <2>3. PICK n : n = Len(s)
        OBVIOUS
    <2>4. n \in Nat /\ names \in [1..n -> File]
        BY <1>1, <2>1, <2>2, <2>3 DEF Entry
    <2>5. names \in Seq(File)
        BY <2>4, SeqDef
    <2> QED BY <1>1, <2>5 DEF ToSet
<1>3. Files(Unresolved(s)) /\ DOMAIN Unresolved(s) = ToSet(names)
    BY <1>2, UnresolvedFiles
<1>4. Load(s) = Resolve(Unresolved(s), names)
    BY <1>1 DEF Load
<1> QED BY <1>2, <1>3, <1>4, ResolveFine DEF Nothing

(* Files that can be put in an order in which imports come first. *)
LEMMA SoundIsAcyclic ==
    ASSUME NEW u, NEW x \in Loading, Sound(u, x), DOMAIN u \subseteq ToSet(x.resolved)
    PROVE  /\ Closed(u) /\ Acyclic(u) /\ Linked(u) /\ ToSet(x.resolved) = DOMAIN u
<1>1. PICK s : s = x.resolved
    OBVIOUS
<1>2. DOMAIN s \subseteq Nat /\ DOMAIN s = 1..Len(s) /\ Len(s) \in Nat
    <2>1. s \in Seq(File)
        BY <1>1, LoadingParts
    <2>2. Len(s) \in Nat /\ DOMAIN s = 1..Len(s)
        BY <2>1, LenProperties
    <2> QED BY <2>2
<1>3. ASSUME NEW i \in DOMAIN s
      PROVE  /\ s[i] \in DOMAIN u
             /\ Links(u, s[i])
             /\ \A dep \in ToSet(u[s[i]].deps) : \E j \in DOMAIN s : j < i /\ s[j] = dep
    <2>1. /\ s[i] \in DOMAIN u
          /\ Links(u, s[i])
          /\ \A dep \in ToSet(u[s[i]].deps) : \E j \in 1..(i - 1) : s[j] = dep
        BY <1>1 DEF Sound, ImportsFirst
    <2>2. \A j \in 1..(i - 1) : j \in DOMAIN s /\ j < i
        BY <1>2
    <2> QED BY <2>1, <2>2
<1>4. ToSet(s) = DOMAIN u
    <2>1. ASSUME NEW name \in ToSet(s) PROVE name \in DOMAIN u
        <3>1. PICK i \in DOMAIN s : s[i] = name
            BY DEF ToSet
        <3> QED BY <1>3, <3>1
    <2> QED BY <1>1, <2>1
<1>5. Closed(u)
    <2> SUFFICES ASSUME NEW name \in DOMAIN u, NEW dep \in ToSet(u[name].deps) PROVE dep \in DOMAIN u
        BY DEF Closed
    <2>1. PICK i \in DOMAIN s : s[i] = name
        BY <1>4 DEF ToSet
    <2> QED BY <1>3, <2>1
<1>6. Acyclic(u)
    <2> SUFFICES ASSUME NEW C \in SUBSET DOMAIN u, C # {}
                 PROVE  \E name \in C : ToSet(u[name].deps) \cap C = {}
        BY DEF Acyclic
    <2>1. PICK D : D = {i \in DOMAIN s : s[i] \in C}
        OBVIOUS
    <2>2. D \in SUBSET Nat /\ D # {}
        BY <1>2, <1>4, <2>1 DEF ToSet
    <2>3. PICK i \in D : \A j \in D : i <= j
        BY <2>2, Least
    <2>4. i \in DOMAIN s /\ s[i] \in C /\ i \in Nat
        BY <1>2, <2>1
    <2>5. ASSUME NEW dep \in ToSet(u[s[i]].deps), dep \in C PROVE FALSE
        <3>1. PICK j \in DOMAIN s : j < i /\ s[j] = dep
            BY <1>3, <2>4
        <3>2. j \in D /\ j \in Nat
            BY <1>2, <2>1, <2>5, <3>1
        <3> QED BY <2>3, <2>4, <3>1, <3>2
    <2> QED BY <2>4, <2>5
<1>7. Linked(u)
    <2> SUFFICES ASSUME NEW name \in DOMAIN u PROVE Links(u, name)
        BY DEF Linked
    <2>1. PICK i \in DOMAIN s : s[i] = name
        BY <1>4 DEF ToSet
    <2> QED BY <1>3, <2>1
<1> QED BY <1>1, <1>4, <1>5, <1>6, <1>7

LEMMA LoadOutcome ==
    ASSUME NEW s \in Seq(Entry), NEW u, u = Unresolved(s)
    PROVE  /\ Load(s).outcome = "ok" => Closed(u) /\ Acyclic(u) /\ Linked(u) /\ LoadedFiles(s) = u
           /\ Load(s).outcome = "error" => ~Closed(u) \/ ~Linked(u)
           /\ Load(s).outcome = "overflow" => ~Acyclic(u)
<1>1. PICK x : x = Load(s)
    OBVIOUS
<1>2. Fine(u, Nothing, x, DOMAIN u)
    BY <1>1, LoadFine
<1>3. Nothing.outcome = "ok" /\ Sound(u, Nothing)
    BY DEF Nothing, Sound, ImportsFirst
<1>4. CASE x.outcome = "ok"
    <2>1. Sound(u, x) /\ DOMAIN u \subseteq ToSet(x.resolved) /\ x \in Loading
        BY <1>2, <1>3, <1>4 DEF Fine
    <2>2. Closed(u) /\ Acyclic(u) /\ Linked(u) /\ ToSet(x.resolved) = DOMAIN u
        BY <2>1, SoundIsAcyclic
    <2>3. LoadedFiles(s) = [name \in DOMAIN u |-> u[name]]
        BY <1>1, <2>2 DEF LoadedFiles
    <2>4. u = [name \in DOMAIN u |-> u[name]]
        BY UnresolvedFiles DEF Files
    <2> QED BY <1>1, <1>4, <2>2, <2>3, <2>4
<1>5. CASE x.outcome # "ok"
    <2>1. /\ x.outcome = "error" => ~Closed(u) \/ ~Linked(u)
          /\ x.outcome = "overflow" => ~Acyclic(u)
        BY <1>2, <1>3 DEF Fine
    <2> QED BY <1>1, <1>5, <2>1
<1> QED BY <1>4, <1>5

(* The set in hand: what was read, and what loading it came to. *)
BeingLoaded ==
    /\ pc = "load" => set \in Sets
    /\ pc = "loaded" => set \in Sets /\ Load(set).outcome = "ok" /\ fileSource = LoadedFiles(set)
    /\ set # <<>> => pc \in {"load", "loaded", "exited"}
    /\ pc = "exited" /\ set # <<>> =>
          set \in Sets /\ Load(set).outcome = IF exit = "1" THEN "error" ELSE "overflow"

(* The steps that have nothing to do with the set. *)
Elsewhere ==
    /\ pc \notin {"load", "loaded", "exited"}
    /\ pc' \notin {"load", "loaded"}
    /\ UNCHANGED set

LEMMA ElsewhereKeeps == BeingLoaded /\ Elsewhere => BeingLoaded'
BY DEF BeingLoaded, Elsewhere

LEMMA Elsewheres ==
    ASSUME IInv, Next, ~ReadProtosets, ~LoadProtosets, ~Loaded
    PROVE  Elsewhere
<1>1. CASE CheckFlags \/ ParseArguments \/ CheckSources \/ Expand
    BY <1>1 DEF CheckFlags, ParseArguments, CheckSources, Expand, sources, Exit, Goto, Elsewhere
<1>2. CASE ParseProtoFiles
    BY <1>2 DEF ParseProtoFiles, Exit, Goto, Elsewhere
<1>3. CASE DialReflection \/ NoReflection
    <2>1. pc = "reflection" /\ verb \notin {"load", "loaded"}
        BY <1>3 DEF DialReflection, NoReflection, IInv, VerbKnown, Early, Verbs
    <2> QED BY <1>3, <2>1 DEF DialReflection, NoReflection, DialFails, sources, Exit, Goto, Elsewhere
<1>4. CASE ListOrDescribeAll \/ ListOrDescribeOne
    BY <1>4 DEF ListOrDescribeAll, ListOrDescribeOne, sources, Exit, Goto, Elsewhere
<1>5. CASE Describe
    BY <1>5 DEF Describe, sources, Exit, Goto, Elsewhere
<1>6. CASE WriteFile
    BY <1>6 DEF WriteFile, sources, Exit, Goto, Elsewhere
<1>7. CASE DialForRpc \/ InvokeRPC \/ ReportStatus \/ Return
    BY <1>7 DEF DialForRpc, DialFails, InvokeRPC, ReportStatus, Return, sources, Exit, Goto, Elsewhere
<1> QED BY <1>1, <1>2, <1>3, <1>4, <1>5, <1>6, <1>7 DEF Next

LEMMA LoadKept == IInv /\ BeingLoaded /\ [Next]_vars => BeingLoaded'
<1> SUFFICES ASSUME IInv, BeingLoaded, [Next]_vars PROVE BeingLoaded'
    OBVIOUS
<1>1. CASE UNCHANGED vars
    BY <1>1 DEF vars, sources, BeingLoaded
<1>2. CASE ReadProtosets
    <2>1. pc = "files" /\ set = <<>>
        BY <1>2 DEF ReadProtosets, BeingLoaded
    <2>2. CASE Exit("1") /\ UNCHANGED set
        BY <2>1, <2>2 DEF Exit, BeingLoaded
    <2>3. CASE set' \in Sets /\ Goto("load")
        BY <2>3 DEF Goto, BeingLoaded
    <2> QED BY <1>2, <2>2, <2>3 DEF ReadProtosets
<1>3. CASE LoadProtosets
    <2>1. pc = "load" /\ set \in Sets /\ set' = set
        BY <1>3 DEF LoadProtosets, BeingLoaded
    <2>2. CASE Load(set).outcome = "ok" /\ fileSource' = LoadedFiles(set) /\ Goto("loaded")
        BY <2>1, <2>2 DEF Goto, BeingLoaded
    <2>3. CASE Load(set).outcome = "error" /\ Exit("1")
        BY <2>1, <2>3 DEF Exit, BeingLoaded
    <2>4. CASE Load(set).outcome = "overflow" /\ pc' = "exited" /\ exit' = "crash"
        BY <2>1, <2>4 DEF BeingLoaded
    <2> QED BY <1>3, <2>2, <2>3, <2>4 DEF LoadProtosets
<1>4. CASE Loaded
    BY <1>4 DEF Loaded, Goto, BeingLoaded
<1>5. CASE Next /\ ~ReadProtosets /\ ~LoadProtosets /\ ~Loaded
    BY <1>5, Elsewheres, ElsewhereKeeps
<1> QED BY <1>1, <1>2, <1>3, <1>4, <1>5

LEMMA LoadingDecides == BeingLoaded => LoadDecides
<1> SUFFICES ASSUME BeingLoaded PROVE LoadDecides
    OBVIOUS
<1>1. PICK u : u = Unresolved(set)
    OBVIOUS
<1>2. ASSUME set \in Sets
      PROVE  /\ Load(set).outcome = "ok" => Closed(u) /\ Acyclic(u) /\ Linked(u) /\ LoadedFiles(set) = u
             /\ Load(set).outcome = "error" => ~Closed(u) \/ ~Linked(u)
             /\ Load(set).outcome = "overflow" => ~Acyclic(u)
    <2>1. set \in Seq(Entry)
        BY <1>2, CommandAssumption
    <2> QED BY <1>1, <2>1, LoadOutcome
<1>3. pc = "loaded" => Closed(u) /\ Acyclic(u) /\ Linked(u) /\ fileSource = u
    BY <1>2 DEF BeingLoaded
<1>4. pc = "exited" /\ set # <<>> => IF exit = "1" THEN ~(Closed(u) /\ Linked(u)) ELSE ~Acyclic(u)
    BY <1>2 DEF BeingLoaded
<1> QED BY <1>1, <1>3, <1>4 DEF LoadDecides

(* Whatever the descriptor set: resolveFileDescriptor takes it exactly when  *)
(* its imports are all in it and form no cycle and its files use only types  *)
(* that they or their imports define, refuses it only for an import that is  *)
(* not there or a type that is not, and overflows its stack only on a cycle. *)
THEOREM LoadingIsDecided == Spec => []LoadDecides
<1>1. Init => BeingLoaded
    BY DEF Init, BeingLoaded
<1> QED BY <1>1, InitIInv, NextIInv, LoadKept, LoadingDecides, PTL DEF Spec

---------------------------------------------------------------------------
(* Recursive functions.  m counts what a call has left to do; Phi gives the  *)
(* function that calls a where the recursive one calls itself.  If a is only *)
(* called with less left to do, and what it returns is in R, then Phi of a   *)
(* returns what is in R too.  g may be any value at all, a function with     *)
(* other values than those of S included.                                    *)
Same(a, b, C, m, n) == \A c \in C : m[c] < n => a[c] = b[c]
Meets(a, C, m, R, n) == \A c \in C : m[c] < n => <<c, a[c]>> \in R

Descends(Phi, g, C, S, m, R) ==
    \A n \in Nat : \A a \in [C -> S] :
        \A b \in [C -> S] \cup {g} :
            Meets(a, C, m, R, n) /\ Same(a, b, C, m, n)
                => Same(Phi[a], Phi[b], C, m, n + 1) /\ Meets(Phi[a], C, m, R, n + 1)

LEMMA FixedPoint ==
    ASSUME NEW C, NEW S, NEW m \in [C -> Nat], NEW N \in Nat, \A c \in C : m[c] < N,
           NEW R, NEW Phi, \A a \in [C -> S] : Phi[a] \in [C -> S],
           NEW g, Descends(Phi, g, C, S, m, R), NEW any \in [C -> S]
    PROVE  \E a \in [C -> S] : a = Phi[a]
<1> DEFINE Has(n) == \E a \in [C -> S] : Meets(a, C, m, R, n) /\ Same(a, Phi[a], C, m, n)
           A == {n \in Nat : Has(n)}
<1>1. 0 \in A
    <2>1. Meets(any, C, m, R, 0) /\ Same(any, Phi[any], C, m, 0)
        BY DEF Meets, Same
    <2> QED BY <2>1
<1>2. ASSUME NEW n \in A PROVE n + 1 \in A
    <2>1. PICK a \in [C -> S] : Meets(a, C, m, R, n) /\ Same(a, Phi[a], C, m, n)
        OBVIOUS
    <2>2. n \in Nat /\ Phi[a] \in [C -> S]
        OBVIOUS
    <2>3. Same(Phi[a], Phi[Phi[a]], C, m, n + 1) /\ Meets(Phi[a], C, m, R, n + 1)
        BY <2>1, <2>2 DEF Descends
    <2> QED BY <2>2, <2>3
<1>3. A \in SUBSET Nat
    OBVIOUS
<1> HIDE DEF A
<1>4. N \in A
    BY <1>1, <1>2, <1>3, AllNats
<1>5. PICK a \in [C -> S] : Same(a, Phi[a], C, m, N)
    BY <1>4 DEF A
<1>6. \A c \in C : a[c] = Phi[a][c]
    BY <1>5 DEF Same
<1>7. Phi[a] \in [C -> S]
    OBVIOUS
<1>8. a = Phi[a]
    BY <1>6, <1>7
<1> QED BY <1>8

LEMMA FixedPointMeets ==
    ASSUME NEW C, NEW S, NEW m \in [C -> Nat], NEW N \in Nat, \A c \in C : m[c] < N,
           NEW R, NEW Phi, NEW g, Descends(Phi, g, C, S, m, R), g = Phi[g],
           NEW f \in [C -> S], f = Phi[f]
    PROVE  \A c \in C : <<c, g[c]>> \in R
<1> DEFINE A == {n \in Nat : Meets(f, C, m, R, n) /\ Same(f, g, C, m, n)}
<1>1. 0 \in A
    BY DEF Meets, Same
<1>2. ASSUME NEW n \in A PROVE n + 1 \in A
    <2>1. n \in Nat /\ Meets(f, C, m, R, n) /\ Same(f, g, C, m, n)
        OBVIOUS
    <2>2. Same(Phi[f], Phi[g], C, m, n + 1) /\ Meets(Phi[f], C, m, R, n + 1)
        BY <2>1 DEF Descends
    <2> QED BY <2>2
<1>3. A \in SUBSET Nat
    OBVIOUS
<1> HIDE DEF A
<1>4. N \in A
    BY <1>1, <1>2, <1>3, AllNats
<1> QED BY <1>4 DEF A, Meets, Same

(* A fold of calls with two arguments. *)
Rounds2(S, F, seq, L) ==
    \A i \in DOMAIN seq : \A l \in L : l \in S[i - 1] => F[<<l, seq[i]>>] \in S[i]

LEMMA FoldRule2 ==
    ASSUME NEW L, NEW X, NEW F, Stays2(F, L, X), NEW base \in L, NEW seq \in Seq(X),
           NEW S, base \in S[0], Rounds2(S, F, seq, L)
    PROVE  Folded2(F, base, seq) \in L /\ Folded2(F, base, seq) \in S[Len(seq)]
<1>1. Len(seq) \in Nat /\ DOMAIN seq = 1..Len(seq)
    BY LenProperties
<1>2. Rounds(S, L, Round2(F, seq, L), Len(seq))
    BY <1>1 DEF Rounds, Rounds2, Round2
<1>3. FoldValue(Folded2(F, base, seq), L, Round2(F, seq, L), base, Len(seq))
    BY Folded2Value
<1> QED BY <1>1, <1>2, <1>3, FoldRule

Alike2(F, G, L, X) == \A l \in L, x \in X : F[<<l, x>>] = G[<<l, x>>]

LEMMA FoldAlike2 ==
    ASSUME NEW L, NEW X, NEW F, Stays2(F, L, X), NEW G, Alike2(F, G, L, X),
           NEW base \in L, NEW seq \in Seq(X)
    PROVE  Folded2(F, base, seq) = Folded2(G, base, seq)
<1>1. Len(seq) \in Nat /\ DOMAIN seq = 1..Len(seq) /\ \A i \in DOMAIN seq : seq[i] \in X
    BY LenProperties, ElementOfSeq
<1>2. Stays2(G, L, X)
    BY DEF Stays2, Alike2
<1>3. Round2(F, seq, L) = Round2(G, seq, L)
    BY <1>1 DEF Round2, Alike2
<1>4. PICK v : v = Folded2(F, base, seq)
    OBVIOUS
<1>5. PICK w : w = Folded2(G, base, seq)
    OBVIOUS
<1>6. FoldValue(v, L, Round2(F, seq, L), base, Len(seq))
    BY <1>4, Folded2Value
<1>7. FoldValue(w, L, Round2(F, seq, L), base, Len(seq))
    BY <1>2, <1>3, <1>5, Folded2Value
<1> QED BY <1>1, <1>4, <1>5, <1>6, <1>7, FoldUnique

---------------------------------------------------------------------------
(* Parsed files *)

(* Of the files added, those in A may have imports that are not. *)
OpenOnly(parsed, fds, A) == \A f \in fds \ A : ToSet(parsed[f].deps) \subseteq fds
Keeps(parsed, fds, v) ==
    \A A \in SUBSET DOMAIN parsed : OpenOnly(parsed, fds, A) => OpenOnly(parsed, v, A)
Added(parsed, fds, name, v) ==
    v \in SUBSET DOMAIN parsed /\ fds \cup {name} \subseteq v /\ Keeps(parsed, fds, v)

AllAdded(parsed, a, L) == \A s \in L, x \in DOMAIN parsed : Added(parsed, s, x, a[<<s, x>>])

LEMMA ImportsOf ==
    ASSUME NEW w, World(w), NEW name \in DOMAIN w
    PROVE  w[name].deps \in Seq(DOMAIN w)
<1>1. PICK s : s = w[name].deps
    OBVIOUS
<1>2. PICK n : n = Len(s)
    OBVIOUS
<1>3. s \in Seq(File) /\ ToSet(s) \subseteq DOMAIN w
    BY <1>1 DEF World, Closed, Content
<1>4. n \in Nat /\ DOMAIN s = 1..n /\ s \in [1..n -> File]
    BY <1>2, <1>3, LenProperties
<1>5. s \in [1..n -> DOMAIN w]
    BY <1>3, <1>4 DEF ToSet
<1>6. s \in Seq(DOMAIN w)
    BY <1>4, <1>5, SeqDef
<1> QED BY <1>1, <1>6

LEMMA AddedBelow ==
    ASSUME NEW w, World(w), NEW fds \in SUBSET DOMAIN w, NEW name \in DOMAIN w, name \notin fds,
           NEW a, AllAdded(w, a, {s \in SUBSET DOMAIN w : fds \cup {name} \subseteq s})
    PROVE  Added(w, fds, name, Folded2(a, fds \cup {name}, w[name].deps))
<1>1. PICK base : base = fds \cup {name}
    OBVIOUS
<1>2. PICK L : L = {s \in SUBSET DOMAIN w : base \subseteq s}
    OBVIOUS
<1>3. PICK seq : seq = w[name].deps
    OBVIOUS
<1>4. seq \in Seq(DOMAIN w) /\ base \in L
    BY <1>1, <1>2, <1>3, ImportsOf
<1>5. Len(seq) \in Nat /\ DOMAIN seq = 1..Len(seq) /\ \A i \in DOMAIN seq : seq[i] \in DOMAIN w
    BY <1>4, LenProperties, ElementOfSeq
<1>6. ASSUME NEW s \in L, NEW x \in DOMAIN w
      PROVE  a[<<s, x>>] \in L /\ s \cup {x} \subseteq a[<<s, x>>] /\ Keeps(w, s, a[<<s, x>>])
    <2>1. Added(w, s, x, a[<<s, x>>])
        BY <1>1, <1>2 DEF AllAdded
    <2> QED BY <1>2, <2>1 DEF Added
<1>7. Stays2(a, L, DOMAIN w)
    BY <1>6 DEF Stays2
<1> DEFINE Named(i) == {seq[j] : j \in 1..i}
<1>8. PICK S : S = [i \in 0..Len(seq) |-> {s \in L : Named(i) \subseteq s /\ Keeps(w, base, s)}]
    OBVIOUS
<1>9. base \in S[0]
    <2>1. Named(0) = {} /\ 0 \in 0..Len(seq)
        BY <1>5
    <2>2. Keeps(w, base, base)
        BY DEF Keeps
    <2> QED BY <1>4, <1>8, <2>1, <2>2
<1>10. ASSUME NEW i \in DOMAIN seq, NEW s \in L, s \in S[i - 1]
       PROVE  a[<<s, seq[i]>>] \in S[i]
    <2>1. i - 1 \in 0..Len(seq) /\ i \in 0..Len(seq) /\ i \in Nat
        BY <1>5
    <2>2. Named(i - 1) \subseteq s /\ Keeps(w, base, s)
        BY <1>8, <1>10, <2>1
    <2>3. PICK v : v = a[<<s, seq[i]>>]
        OBVIOUS
    <2>4. v \in L /\ s \cup {seq[i]} \subseteq v /\ Keeps(w, s, v)
        BY <1>5, <1>6, <2>3
    <2>5. Named(i) \subseteq v
        <3>1. \A j \in 1..i : j = i \/ j \in 1..(i - 1)
            BY <2>1
        <3> QED BY <2>2, <2>4, <3>1
    <2>6. Keeps(w, base, v)
        BY <2>2, <2>4 DEF Keeps
    <2> HIDE DEF Named
    <2> QED BY <1>8, <2>1, <2>3, <2>4, <2>5, <2>6
<1>11. PICK v : v = Folded2(a, base, seq)
    OBVIOUS
<1>12. v \in S[Len(seq)]
    <2>1. Rounds2(S, a, seq, L)
        BY <1>10 DEF Rounds2
    <2> QED BY <1>4, <1>7, <1>9, <1>11, <2>1, FoldRule2
<1>13. Len(seq) \in 0..Len(seq) /\ Named(Len(seq)) = ToSet(seq)
    BY <1>5 DEF ToSet
<1> HIDE DEF Named
<1>14. v \in L /\ ToSet(seq) \subseteq v /\ Keeps(w, base, v)
    BY <1>8, <1>12, <1>13
<1>15. ASSUME NEW A \in SUBSET DOMAIN w, OpenOnly(w, fds, A) PROVE OpenOnly(w, v, A)
    <2>1. OpenOnly(w, base, A \cup {name})
        BY <1>1, <1>15 DEF OpenOnly
    <2>2. OpenOnly(w, v, A \cup {name})
        BY <1>14, <2>1 DEF Keeps
    <2> QED BY <1>3, <1>14, <2>2 DEF OpenOnly
<1>16. Added(w, fds, name, v)
    BY <1>1, <1>2, <1>14, <1>15 DEF Added, Keeps
<1> QED BY <1>1, <1>3, <1>11, <1>16

AddCalls(w) == (SUBSET DOMAIN w) \X DOMAIN w
AddMeasure(w) == [c \in AddCalls(w) |-> Cardinality(DOMAIN w \ c[1])]
AddResults(w) == {p \in AddCalls(w) \X SUBSET DOMAIN w : Added(w, p[1][1], p[1][2], p[2])}
(* The fewer files are left the fewer there are. *)
LEMMA LeftLess ==
    ASSUME NEW D, IsFiniteSet(D), NEW s \in SUBSET D, NEW t \in SUBSET D, s \subseteq t
    PROVE  /\ Cardinality(D \ s) \in Nat
           /\ Cardinality(D \ t) <= Cardinality(D \ s)
           /\ \A x \in t \ s : Cardinality(D \ t) < Cardinality(D \ s)
<1>1. IsFiniteSet(D \ s) /\ IsFiniteSet(D \ t) /\ D \ t \subseteq D \ s
    BY FS_Subset
<1>2. Cardinality(D \ s) \in Nat /\ Cardinality(D \ t) \in Nat
    BY <1>1, FS_CardinalityType
<1>3. Cardinality(D \ t) <= Cardinality(D \ s)
    BY <1>1, FS_Subset
<1>4. ASSUME NEW x \in t \ s PROVE Cardinality(D \ t) < Cardinality(D \ s)
    <2>1. D \ t # D \ s
        OBVIOUS
    <2> QED BY <1>1, <1>2, <1>3, <2>1, FS_Subset
<1> QED BY <1>2, <1>3, <1>4

LEMMA AddFileIs ==
    ASSUME NEW a, NEW w, NEW fds, NEW name
    PROVE  AddFile(a, w, fds, name) =
              IF name \in fds THEN fds ELSE Folded2(a, fds \cup {name}, w[name].deps)
BY DEF AddFile, Folded2

AddStep(w, g) == [a \in [AddCalls(w) -> SUBSET DOMAIN w] \cup {g} |->
                     [c \in AddCalls(w) |-> AddFile(a, w, c[1], c[2])]]

LEMMA AddStepType ==
    ASSUME NEW w, World(w), NEW g, NEW a \in [AddCalls(w) -> SUBSET DOMAIN w]
    PROVE  AddStep(w, g)[a] \in [AddCalls(w) -> SUBSET DOMAIN w]
<1> DEFINE D == DOMAIN w
<1> SUFFICES ASSUME NEW fds \in SUBSET D, NEW name \in D
             PROVE  AddFile(a, w, fds, name) \in SUBSET D
    BY DEF AddStep, AddCalls
<1>1. PICK L : L = SUBSET D
    OBVIOUS
<1>2. Stays2(a, L, D)
    BY <1>1 DEF Stays2, AddCalls
<1>3. PICK seq : seq = w[name].deps
    OBVIOUS
<1>4. seq \in Seq(D) /\ fds \cup {name} \in L
    BY <1>1, <1>3, ImportsOf
<1>5. Len(seq) \in Nat /\ DOMAIN seq = 1..Len(seq) /\ \A i \in DOMAIN seq : seq[i] \in D
    BY <1>4, LenProperties, ElementOfSeq
<1>6. PICK S : S = [i \in 0..Len(seq) |-> L]
    OBVIOUS
<1>7. Rounds2(S, a, seq, L) /\ fds \cup {name} \in S[0]
    BY <1>2, <1>4, <1>5, <1>6 DEF Rounds2, Stays2
<1>8. Folded2(a, fds \cup {name}, seq) \in L
    BY <1>2, <1>4, <1>7, FoldRule2
<1> QED BY <1>1, <1>3, <1>8, AddFileIs

LEMMA AddFileDescends ==
    ASSUME NEW w, World(w), NEW n \in Nat, NEW a, NEW b,
           Meets(a, AddCalls(w), AddMeasure(w), AddResults(w), n),
           Same(a, b, AddCalls(w), AddMeasure(w), n),
           NEW c \in AddCalls(w), AddMeasure(w)[c] < n + 1
    PROVE  /\ AddFile(a, w, c[1], c[2]) = AddFile(b, w, c[1], c[2])
           /\ <<c, AddFile(a, w, c[1], c[2])>> \in AddResults(w)
<1> DEFINE D == DOMAIN w
           C == AddCalls(w)
           m == AddMeasure(w)
<1>1. PICK fds \in SUBSET D, name \in D : c = <<fds, name>>
    BY DEF AddCalls
<1>2. IsFiniteSet(D)
    BY DescriptorsAssumption, FS_Subset DEF World
<1>3. AddFile(a, w, c[1], c[2]) = AddFile(a, w, fds, name)
      /\ AddFile(b, w, c[1], c[2]) = AddFile(b, w, fds, name)
    BY <1>1
<1>4. Cardinality(D \ fds) < n + 1 /\ Cardinality(D \ fds) \in Nat
    BY <1>1, <1>2, LeftLess DEF AddMeasure
<1>5. CASE name \in fds
    <2>1. AddFile(a, w, fds, name) = fds /\ AddFile(b, w, fds, name) = fds
        BY <1>5, AddFileIs
    <2>2. Added(w, fds, name, fds)
        BY <1>5 DEF Added, Keeps
    <2>3. <<c, fds>> \in AddResults(w)
        BY <1>1, <2>2 DEF AddResults
    <2> QED BY <1>3, <2>1, <2>3
<1>6. CASE name \notin fds
    <2>1. PICK base : base = fds \cup {name}
        OBVIOUS
    <2>2. PICK L : L = {s \in SUBSET D : base \subseteq s}
        OBVIOUS
    <2>3. ASSUME NEW s \in L, NEW x \in D
          PROVE  <<s, x>> \in C /\ m[<<s, x>>] < n
        <3>1. <<s, x>> \in C /\ m[<<s, x>>] = Cardinality(D \ s)
            BY <2>2 DEF AddCalls, AddMeasure
        <3>2. fds \subseteq s /\ name \in s \ fds /\ s \in SUBSET D
            BY <1>6, <2>1, <2>2
        <3>3. Cardinality(D \ s) < Cardinality(D \ fds) /\ Cardinality(D \ s) \in Nat
            BY <1>2, <3>2, LeftLess
        <3> QED BY <1>4, <3>1, <3>3
    <2>4. ASSUME NEW s \in L, NEW x \in D
          PROVE  Added(w, s, x, a[<<s, x>>]) /\ a[<<s, x>>] = b[<<s, x>>]
        <3>1. <<<<s, x>>, a[<<s, x>>]>> \in AddResults(w) /\ a[<<s, x>>] = b[<<s, x>>]
            BY <2>3 DEF Meets, Same
        <3> QED BY <3>1 DEF AddResults
    <2>5. AllAdded(w, a, L) /\ Alike2(a, b, L, D)
        BY <2>4 DEF AllAdded, Alike2
    <2>6. Stays2(a, L, D)
        BY <2>2, <2>4 DEF Stays2, Added
    <2>7. w[name].deps \in Seq(D) /\ base \in L
        BY <2>1, <2>2, ImportsOf
    <2>8. PICK v : v = Folded2(a, base, w[name].deps)
        OBVIOUS
    <2>9. v = Folded2(b, base, w[name].deps)
        BY <2>5, <2>6, <2>7, <2>8, FoldAlike2
    <2>10. Added(w, fds, name, v)
        BY <1>6, <2>1, <2>2, <2>5, <2>8, AddedBelow
    <2>11. AddFile(a, w, fds, name) = v /\ AddFile(b, w, fds, name) = v
        BY <1>6, <2>1, <2>8, <2>9, AddFileIs
    <2>12. <<c, v>> \in AddResults(w)
        BY <1>1, <2>10 DEF AddResults, Added
    <2> QED BY <1>3, <2>11, <2>12
<1> QED BY <1>5, <1>6

LEMMA AddDescends ==
    ASSUME NEW w, World(w), NEW g
    PROVE  Descends(AddStep(w, g), g, AddCalls(w), SUBSET DOMAIN w, AddMeasure(w), AddResults(w))
<1> DEFINE C == AddCalls(w)
           m == AddMeasure(w)
           Phi == AddStep(w, g)
<1>1. ASSUME NEW n \in Nat, NEW a \in [C -> SUBSET DOMAIN w],
             NEW b \in [C -> SUBSET DOMAIN w] \cup {g},
             Meets(a, C, m, AddResults(w), n), Same(a, b, C, m, n),
             NEW c \in C, m[c] < n + 1
      PROVE  Phi[a][c] = Phi[b][c] /\ <<c, Phi[a][c]>> \in AddResults(w)
    <2>1. Phi[a][c] = AddFile(a, w, c[1], c[2]) /\ Phi[b][c] = AddFile(b, w, c[1], c[2])
        BY DEF AddStep
    <2> QED BY <1>1, <2>1, AddFileDescends
<1> HIDE DEF C, m, Phi
<1>2. Descends(Phi, g, C, SUBSET DOMAIN w, m, AddResults(w))
    <2> SUFFICES ASSUME NEW n \in Nat, NEW a \in [C -> SUBSET DOMAIN w],
                        NEW b \in [C -> SUBSET DOMAIN w] \cup {g},
                        Meets(a, C, m, AddResults(w), n), Same(a, b, C, m, n)
                 PROVE  /\ Same(Phi[a], Phi[b], C, m, n + 1)
                        /\ Meets(Phi[a], C, m, AddResults(w), n + 1)
        BY Zenon DEF Descends
    <2>1. ASSUME NEW c \in C, m[c] < n + 1
          PROVE  Phi[a][c] = Phi[b][c] /\ <<c, Phi[a][c]>> \in AddResults(w)
        BY Zenon, <1>1, <2>1
    <2>2. Same(Phi[a], Phi[b], C, m, n + 1)
        BY Zenon, <2>1 DEF Same
    <2>3. Meets(Phi[a], C, m, AddResults(w), n + 1)
        BY Zenon, <2>1 DEF Meets
    <2> QED BY <2>2, <2>3
<1> QED BY <1>2 DEF C, m, Phi

IsAddFile(a, w) == a = [c \in AddCalls(w) |-> AddFile(a, w, c[1], c[2])]

LEMMA AddFileAdds ==
    ASSUME NEW w, World(w), NEW a, a = CHOOSE addFile : IsAddFile(addFile, w)
    PROVE  AllAdded(w, a, SUBSET DOMAIN w)
<1> DEFINE D == DOMAIN w
           C == AddCalls(w)
           m == AddMeasure(w)
<1>1. IsFiniteSet(D)
    BY DescriptorsAssumption, FS_Subset DEF World
<1>2. ASSUME NEW c \in C PROVE m[c] \in Nat /\ m[c] < Cardinality(D) + 1
    <2>1. c[1] \in SUBSET D /\ m[c] = Cardinality(D \ c[1])
        BY DEF AddCalls, AddMeasure
    <2>2. Cardinality(D) \in Nat /\ Cardinality(D \ c[1]) \in Nat
        BY <1>1, <2>1, FS_CardinalityType, LeftLess
    <2>3. Cardinality(D \ c[1]) <= Cardinality(D)
        BY <1>1, FS_Subset
    <2> QED BY <2>1, <2>2, <2>3
<1>3. m \in [C -> Nat]
    BY <1>2 DEF AddMeasure
<1>4. PICK N : N = Cardinality(D) + 1
    OBVIOUS
<1>5. N \in Nat /\ \A c \in C : m[c] < N
    BY <1>1, <1>2, <1>4, FS_CardinalityType
<1>6. \E any : any \in [C -> SUBSET D]
    <2>1. [c \in C |-> {}] \in [C -> SUBSET D]
        OBVIOUS
    <2> QED BY <2>1
<1>7. PICK any \in [C -> SUBSET D] : TRUE
    BY <1>6
<1>8. PICK Phi : Phi = AddStep(w, a)
    OBVIOUS
<1>9. \A f \in [C -> SUBSET D] : Phi[f] \in [C -> SUBSET D]
    BY <1>8, AddStepType
<1>10. Descends(Phi, a, C, SUBSET D, m, AddResults(w))
    BY <1>8, AddDescends
<1> HIDE DEF m
<1>11. PICK f \in [C -> SUBSET D] : f = Phi[f]
    BY <1>3, <1>5, <1>7, <1>9, <1>10, FixedPoint
<1>12. IsAddFile(f, w)
    BY <1>8, <1>11 DEF AddStep, IsAddFile
<1>13. IsAddFile(a, w)
    BY Zenon, <1>12
<1>14. a = Phi[a]
    BY <1>8, <1>13 DEF AddStep, IsAddFile
<1>15. \A c \in C : <<c, a[c]>> \in AddResults(w)
    BY <1>3, <1>5, <1>10, <1>11, <1>14, FixedPointMeets
<1>16. ASSUME NEW s \in SUBSET D, NEW x \in D PROVE Added(w, s, x, a[<<s, x>>])
    <2>1. <<s, x>> \in C
        BY DEF AddCalls
    <2>2. <<<<s, x>>, a[<<s, x>>]>> \in AddResults(w)
        BY <1>15, <2>1
    <2> QED BY <2>2 DEF AddResults
<1> QED BY <1>16 DEF AllAdded

(* What ParseProtoFiles takes from what was parsed. *)
LEMMA AddFilesWorld ==
    ASSUME NEW w, World(w), NEW names \in Seq(DOMAIN w)
    PROVE  World(AddFiles(w, names))
<1>1. PICK a : a = CHOOSE addFile : IsAddFile(addFile, w)
    OBVIOUS
<1>2. PICK added : added = Folded2(a, {}, names)
    OBVIOUS
<1>3. AddFiles(w, names) = [name \in added |-> w[name]]
    <2>1. AddFiles(w, names) = [name \in Folded2(CHOOSE addFile : IsAddFile(addFile, w), {}, names) |->
                                  w[name]]
        BY Zenon DEF AddFiles, Folded2, IsAddFile, AddCalls
    <2> QED BY <1>1, <1>2, <2>1
<1>4. PICK L : L = {s \in SUBSET DOMAIN w : OpenOnly(w, s, {})}
    OBVIOUS
<1>5. AllAdded(w, a, SUBSET DOMAIN w)
    BY <1>1, AddFileAdds
<1>6. Stays2(a, L, DOMAIN w)
    <2> SUFFICES ASSUME NEW s \in L, NEW x \in DOMAIN w PROVE a[<<s, x>>] \in L
        BY DEF Stays2
    <2>1. Added(w, s, x, a[<<s, x>>]) /\ OpenOnly(w, s, {})
        BY <1>4, <1>5 DEF AllAdded
    <2> QED BY <1>4, <2>1 DEF Added, Keeps
<1>7. Len(names) \in Nat /\ DOMAIN names = 1..Len(names) /\ \A i \in DOMAIN names : names[i] \in DOMAIN w
    BY LenProperties, ElementOfSeq
<1>8. PICK S : S = [i \in 0..Len(names) |-> L]
    OBVIOUS
<1>9. {} \in L
    BY <1>4 DEF OpenOnly
<1>10. Rounds2(S, a, names, L) /\ {} \in S[0]
    BY <1>6, <1>7, <1>8, <1>9 DEF Rounds2, Stays2
<1>11. added \in L
    BY <1>2, <1>6, <1>9, <1>10, FoldRule2
<1>12. PICK v : v = AddFiles(w, names)
    OBVIOUS
<1>13. DOMAIN v = added /\ \A name \in added : v[name] = w[name]
    BY <1>3, <1>12
<1>14. added \subseteq DOMAIN w /\ OpenOnly(w, added, {})
    BY <1>4, <1>11
<1>15. Closed(v)
    BY <1>13, <1>14 DEF Closed, OpenOnly
<1>16. Acyclic(v)
    <2> SUFFICES ASSUME NEW some \in (SUBSET added) \ {{}}
                 PROVE  \E name \in some : ToSet(v[name].deps) \cap some = {}
        BY <1>13 DEF Acyclic
    <2>1. some \in (SUBSET DOMAIN w) \ {{}}
        BY <1>14
    <2>2. PICK name \in some : ToSet(w[name].deps) \cap some = {}
        BY <2>1 DEF World, Acyclic
    <2>3. v[name] = w[name]
        BY <1>13
    <2> QED BY <2>2, <2>3
<1>17. DOMAIN v \subseteq File /\ v \in [DOMAIN v -> Content]
    <2>1. v = [name \in added |-> w[name]]
        BY <1>3, <1>12
    <2>2. \A name \in added : w[name] \in Content
        BY <1>14 DEF World
    <2> QED BY <1>14, <2>1, <2>2 DEF World
<1>18. Linked(v)
    <2> SUFFICES ASSUME NEW name \in added PROVE Links(v, name)
        BY <1>13 DEF Linked
    <2>1. Links(w, name) /\ ToSet(w[name].deps) \subseteq added
        BY <1>14 DEF World, Linked, OpenOnly
    <2>2. v[name] = w[name] /\ \A dep \in ToSet(w[name].deps) : v[dep] = w[dep]
        BY <1>13, <2>1
    <2>3. {v[dep].defines : dep \in ToSet(v[name].deps)} = {w[dep].defines : dep \in ToSet(w[name].deps)}
        BY <2>2
    <2> QED BY <2>1, <2>2, <2>3 DEF Links
<1> QED BY <1>12, <1>15, <1>16, <1>17, <1>18 DEF World

---------------------------------------------------------------------------
(* Writing a descriptor set *)

(* No file twice, and each after its imports. *)
InOrder(files) ==
    \A i \in DOMAIN files :
        /\ \A j \in DOMAIN files : files[j].name = files[i].name => j = i
        /\ \A dep \in ToSet(files[i].content.deps) : \E j \in 1..(i - 1) : files[j].name = dep

FileNames(files) == {files[i].name : i \in DOMAIN files}

(* The entries for files of w, as w has them. *)
EntriesOf(w) == {e \in Entry : e.name \in DOMAIN w /\ e.content = w[e.name]}

(* The files entered but not written yet are those of A. *)
Ordered(o, A) ==
    /\ InOrder(o.files)
    /\ FileNames(o.files) \cap A = {}
    /\ FileNames(o.files) \cup A = o.expanded

Entered(o, name) == [o EXCEPT !.expanded = @ \cup {name}]
Emitted(w, below, name) == [below EXCEPT !.files = Append(@, [name |-> name, content |-> w[name]])]

LEMMA AddFileToSetIs ==
    ASSUME NEW a, NEW w, NEW o, NEW name
    PROVE  AddFileToSet(a, w, o, name) =
              IF name \in o.expanded THEN o
              ELSE Emitted(w, Folded2(a, Entered(o, name), w[name].deps), name)
BY DEF AddFileToSet, Folded2, Entered, Emitted

LEMMA WrittenParts ==
    ASSUME NEW o \in Written
    PROVE  o.files \in Seq(Entry) /\ o.expanded \in SUBSET File
BY DEF Written, Entry

LEMMA EnteredParts ==
    ASSUME NEW o \in Written, NEW name \in File, NEW x, x = Entered(o, name)
    PROVE  x \in Written /\ x.files = o.files /\ x.expanded = o.expanded \cup {name}
BY DEF Written, Entered

LEMMA EmittedParts ==
    ASSUME NEW below \in Written, NEW w, NEW name \in File, w[name] \in Content,
           NEW x, x = Emitted(w, below, name)
    PROVE  /\ x \in Written /\ x.expanded = below.expanded
           /\ x.files = Append(below.files, [name |-> name, content |-> w[name]])
<1>1. PICK e : e = [name |-> name, content |-> w[name]]
    OBVIOUS
<1>2. e \in Entry
    BY <1>1 DEF Entry
<1>3. below.files \in Seq(Entry)
    BY WrittenParts
<1>4. Append(below.files, e) \in Seq(Entry)
    BY <1>2, <1>3, AppendProperties
<1> QED BY <1>1, <1>4 DEF Written, Emitted, Entry

LEMMA EmittedKeeps ==
    ASSUME NEW w, NEW below \in Written, NEW name \in File, w[name] \in Content,
           NEW x, x = Emitted(w, below, name)
    PROVE  x \in Written /\ x.expanded = below.expanded
<1>1. PICK t : t = Append(below.files, [name |-> name, content |-> w[name]])
    OBVIOUS
<1>2. x \in Written /\ x.expanded = below.expanded /\ x.files = t
    BY <1>1, EmittedParts
<1> QED BY <1>2

LEMMA EnteredOrdered ==
    ASSUME NEW o \in Written, NEW name \in File, name \notin o.expanded, NEW A, Ordered(o, A)
    PROVE  Ordered(Entered(o, name), A \cup {name})
<1>1. PICK x : x = Entered(o, name)
    OBVIOUS
<1>2. x.files = o.files /\ x.expanded = o.expanded \cup {name}
    BY <1>1, EnteredParts
<1>3. Ordered(x, A \cup {name})
    BY <1>2 DEF Ordered
<1> QED BY <1>1, <1>3

LEMMA EmittedAdds ==
    ASSUME NEW w, NEW below \in Written, NEW name \in File, name \in DOMAIN w, w[name] \in Content,
           NEW x, x = Emitted(w, below, name)
    PROVE  ToSet(x.files) \subseteq ToSet(below.files) \cup EntriesOf(w)
<1>1. PICK e : e = [name |-> name, content |-> w[name]]
    OBVIOUS
<1>2. x.files = Append(below.files, e)
    BY <1>1, EmittedParts
<1>3. e \in Entry /\ e \in EntriesOf(w)
    BY <1>1 DEF Entry, EntriesOf
<1>4. ToSet(x.files) = ToSet(below.files) \cup {e}
    BY <1>2, <1>3, WrittenParts, ToSetAppend
<1> QED BY <1>3, <1>4

(* A file can be written once its imports are. *)
LEMMA EmittedOrdered ==
    ASSUME NEW w, NEW below \in Written, NEW name \in File, w[name] \in Content,
           NEW A, name \notin A, Ordered(below, A \cup {name}),
           ToSet(w[name].deps) \subseteq FileNames(below.files)
    PROVE  Ordered(Emitted(w, below, name), A)
<1>1. PICK x : x = Emitted(w, below, name)
    OBVIOUS
<1>2. PICK s : s = below.files
    OBVIOUS
<1>3. PICK n : n = Len(s)
    OBVIOUS
<1>4. PICK e : e = [name |-> name, content |-> w[name]]
    OBVIOUS
<1>5. PICK t : t = Append(s, e)
    OBVIOUS
<1>6. x.expanded = below.expanded /\ x.files = t
    BY <1>1, <1>2, <1>4, <1>5, EmittedParts
<1>7. s \in Seq(Entry) /\ n \in Nat /\ DOMAIN s = 1..n /\ e \in Entry
      /\ e.name = name /\ e.content = w[name]
    BY <1>2, <1>3, <1>4, WrittenParts, LenProperties DEF Entry
<1>8. /\ t \in Seq(Entry) /\ Len(t) = n + 1 /\ t[n + 1] = e
      /\ \A i \in 1..n : t[i] = s[i]
    BY <1>3, <1>5, <1>7, AppendProperties
<1>9. DOMAIN t = 1..(n + 1) /\ \A i \in 1..(n + 1) : i = n + 1 \/ i \in 1..n
    BY <1>7, <1>8, LenProperties
<1>10. FileNames(t) = FileNames(s) \cup {name}
    <2>1. n + 1 \in 1..(n + 1) /\ \A i \in 1..n : i \in 1..(n + 1)
        BY <1>7
    <2>2. ASSUME NEW f \in FileNames(t) PROVE f \in FileNames(s) \cup {name}
        <3>1. PICK i \in 1..(n + 1) : t[i].name = f
            BY <1>9 DEF FileNames
        <3> QED BY <1>7, <1>8, <1>9, <3>1 DEF FileNames
    <2>3. ASSUME NEW f \in FileNames(s) PROVE f \in FileNames(t)
        <3>1. PICK i \in 1..n : s[i].name = f
            BY <1>7 DEF FileNames
        <3> QED BY <1>8, <1>9, <2>1, <3>1 DEF FileNames
    <2>4. name \in FileNames(t)
        BY <1>7, <1>8, <1>9, <2>1 DEF FileNames
    <2> QED BY <2>2, <2>3, <2>4
<1>11. InOrder(s) /\ FileNames(s) \cap (A \cup {name}) = {}
       /\ FileNames(s) \cup (A \cup {name}) = below.expanded
    BY <1>2 DEF Ordered
<1>12. ASSUME NEW i \in 1..n PROVE t[i] = s[i] /\ s[i].name # name
    BY <1>7, <1>8, <1>11 DEF FileNames
<1>13. ASSUME NEW i \in 1..(n + 1)
       PROVE  /\ \A j \in 1..(n + 1) : t[j].name = t[i].name => j = i
              /\ \A dep \in ToSet(t[i].content.deps) : \E j \in 1..(i - 1) : t[j].name = dep
    <2>1. CASE i = n + 1
        <3>1. t[i].name = name /\ t[i].content = w[name]
            BY <1>7, <1>8, <2>1
        <3>2. \A j \in 1..n : t[j].name # name
            BY <1>12
        <3>3. ASSUME NEW dep \in ToSet(w[name].deps) PROVE \E j \in 1..(i - 1) : t[j].name = dep
            <4>1. PICK j \in 1..n : s[j].name = dep
                BY <1>2, <1>7 DEF FileNames
            <4>2. j \in 1..(i - 1) /\ t[j].name = dep
                BY <1>7, <1>12, <2>1, <4>1
            <4> QED BY <4>2
        <3> QED BY <1>9, <2>1, <3>1, <3>2, <3>3
    <2>2. CASE i \in 1..n
        <3>1. t[i] = s[i] /\ s[i].name # name /\ t[n + 1].name = name
            BY <1>7, <1>8, <1>12, <2>2
        <3>2. \A j \in 1..n : s[j].name = s[i].name => j = i
            BY <1>7, <1>11, <2>2 DEF InOrder
        <3>3. \A j \in 1..(n + 1) : t[j].name = t[i].name => j = i
            BY <1>9, <1>12, <3>1, <3>2
        <3>4. ASSUME NEW dep \in ToSet(s[i].content.deps) PROVE \E j \in 1..(i - 1) : t[j].name = dep
            <4>1. PICK j \in 1..(i - 1) : s[j].name = dep
                BY <1>7, <1>11, <2>2 DEF InOrder
            <4>2. j \in 1..n
                BY <1>7, <2>2
            <4> QED BY <1>12, <4>1, <4>2
        <3> QED BY <3>1, <3>3, <3>4
    <2> QED BY <1>9, <2>1, <2>2
<1>14. InOrder(t)
    BY <1>9, <1>13 DEF InOrder
<1>15. Ordered(x, A)
    BY <1>6, <1>10, <1>11, <1>14 DEF Ordered
<1> QED BY <1>1, <1>15

(* What addFilesToSet makes of o when it is called with the imports of A     *)
(* entered but not written.                                                  *)
Wrote(w, o, name, v) ==
    /\ v \in Written
    /\ o.expanded \cup {name} \subseteq v.expanded
    /\ ToSet(v.files) \subseteq ToSet(o.files) \cup EntriesOf(w)
    /\ \A A \in SUBSET File : Above(w, A, name) /\ Ordered(o, A) => Ordered(v, A)

AllWrote(w, a, L) == \A o \in L, x \in DOMAIN w : Wrote(w, o, x, a[<<o, x>>])

AllAbove(w, A, names) == \A name \in names : Above(w, A, name)
KeepsOrder(w, base, v, names) ==
    \A A \in SUBSET File : AllAbove(w, A, names) /\ Ordered(base, A) => Ordered(v, A)

LEMMA FoldWrote ==
    ASSUME NEW w, NEW base \in Written,
           NEW a, AllWrote(w, a, {o \in Written : base.expanded \subseteq o.expanded}),
           NEW seq \in Seq(DOMAIN w), NEW v, v = Folded2(a, base, seq)
    PROVE  /\ v \in Written /\ base.expanded \cup ToSet(seq) \subseteq v.expanded
           /\ ToSet(v.files) \subseteq ToSet(base.files) \cup EntriesOf(w)
           /\ KeepsOrder(w, base, v, ToSet(seq))
<1>1. PICK L : L = {o \in Written : base.expanded \subseteq o.expanded}
    OBVIOUS
<1>2. base \in L
    BY <1>1
<1>3. Len(seq) \in Nat /\ DOMAIN seq = 1..Len(seq) /\ \A i \in DOMAIN seq : seq[i] \in DOMAIN w
    BY LenProperties, ElementOfSeq
<1>4. ASSUME NEW o \in L, NEW x \in DOMAIN w
      PROVE  a[<<o, x>>] \in L /\ o.expanded \cup {x} \subseteq a[<<o, x>>].expanded
             /\ Wrote(w, o, x, a[<<o, x>>])
    <2>1. Wrote(w, o, x, a[<<o, x>>])
        BY <1>1 DEF AllWrote
    <2> QED BY <1>1, <2>1 DEF Wrote
<1>5. Stays2(a, L, DOMAIN w)
    BY <1>4 DEF Stays2
<1> DEFINE Named(i) == {seq[j] : j \in 1..i}
<1>6. PICK S : S = [i \in 0..Len(seq) |->
                       {o \in L : /\ Named(i) \subseteq o.expanded
                                 /\ ToSet(o.files) \subseteq ToSet(base.files) \cup EntriesOf(w)
                                 /\ KeepsOrder(w, base, o, ToSet(seq))}]
    OBVIOUS
<1>7. base \in S[0]
    <2>1. Named(0) = {} /\ 0 \in 0..Len(seq)
        BY <1>3
    <2>2. KeepsOrder(w, base, base, ToSet(seq))
        BY DEF KeepsOrder
    <2> QED BY <1>2, <1>6, <2>1, <2>2
<1>8. ASSUME NEW i \in DOMAIN seq, NEW o \in L, o \in S[i - 1]
      PROVE  a[<<o, seq[i]>>] \in S[i]
    <2>1. i - 1 \in 0..Len(seq) /\ i \in 0..Len(seq) /\ i \in Nat
        BY <1>3
    <2>2. /\ Named(i - 1) \subseteq o.expanded /\ KeepsOrder(w, base, o, ToSet(seq))
          /\ ToSet(o.files) \subseteq ToSet(base.files) \cup EntriesOf(w)
        BY <1>6, <1>8, <2>1
    <2>3. PICK x : x = a[<<o, seq[i]>>]
        OBVIOUS
    <2>4. x \in L /\ o.expanded \cup {seq[i]} \subseteq x.expanded /\ Wrote(w, o, seq[i], x)
        BY <1>3, <1>4, <2>3
    <2>5. Named(i) \subseteq x.expanded
        <3>1. \A j \in 1..i : j = i \/ j \in 1..(i - 1)
            BY <2>1
        <3> QED BY <2>2, <2>4, <3>1
    <2>6. KeepsOrder(w, base, x, ToSet(seq))
        <3> SUFFICES ASSUME NEW A \in SUBSET File, AllAbove(w, A, ToSet(seq)), Ordered(base, A)
                     PROVE  Ordered(x, A)
            BY DEF KeepsOrder
        <3>1. Ordered(o, A)
            BY <2>2 DEF KeepsOrder
        <3>2. seq[i] \in ToSet(seq)
            BY DEF ToSet
        <3>3. Above(w, A, seq[i])
            BY <3>2 DEF AllAbove
        <3> QED BY <2>4, <3>1, <3>3 DEF Wrote
    <2>7. ToSet(x.files) \subseteq ToSet(base.files) \cup EntriesOf(w)
        BY <2>2, <2>4 DEF Wrote
    <2> HIDE DEF Named
    <2> QED BY <1>6, <2>1, <2>3, <2>4, <2>5, <2>6, <2>7
<1>9. v \in S[Len(seq)]
    <2>1. Rounds2(S, a, seq, L)
        BY <1>8 DEF Rounds2
    <2> QED BY <1>2, <1>5, <1>7, <2>1, FoldRule2
<1>10. Len(seq) \in 0..Len(seq) /\ Named(Len(seq)) = ToSet(seq)
    BY <1>3 DEF ToSet
<1> HIDE DEF Named
<1>11. /\ v \in L /\ ToSet(seq) \subseteq v.expanded /\ KeepsOrder(w, base, v, ToSet(seq))
       /\ ToSet(v.files) \subseteq ToSet(base.files) \cup EntriesOf(w)
    BY <1>6, <1>9, <1>10
<1> QED BY <1>1, <1>11

LEMMA WroteBelow ==
    ASSUME NEW w, World(w), NEW o \in Written, NEW name \in DOMAIN w, name \notin o.expanded,
           NEW base, base = Entered(o, name),
           NEW a, AllWrote(w, a, {x \in Written : base.expanded \subseteq x.expanded})
    PROVE  Wrote(w, o, name, Emitted(w, Folded2(a, base, w[name].deps), name))
<1>1. PICK seq : seq = w[name].deps
    OBVIOUS
<1>2. PICK below : below = Folded2(a, base, seq)
    OBVIOUS
<1>3. PICK v : v = Emitted(w, below, name)
    OBVIOUS
<1>4. seq \in Seq(DOMAIN w) /\ name \in File /\ w[name] \in Content
    BY <1>1, ImportsOf DEF World
<1>5. base \in Written /\ base.expanded = o.expanded \cup {name} /\ base.files = o.files
    BY <1>4, EnteredParts
<1>6. below \in Written /\ base.expanded \cup ToSet(seq) \subseteq below.expanded
      /\ KeepsOrder(w, base, below, ToSet(seq))
      /\ ToSet(below.files) \subseteq ToSet(base.files) \cup EntriesOf(w)
    BY <1>2, <1>4, <1>5, FoldWrote
<1>7. v \in Written /\ v.expanded = below.expanded
    BY <1>3, <1>4, <1>6, EmittedKeeps
<1>8. ASSUME NEW A \in SUBSET File, Above(w, A, name), Ordered(o, A) PROVE Ordered(v, A)
    <2>1. name \notin A
        BY <1>8 DEF Ordered
    <2>2. Ordered(base, A \cup {name})
        BY <1>4, <1>8, EnteredOrdered
    <2>3. \A dep \in ToSet(seq) : Above(w, A \cup {name}, dep)
        BY <1>1, <1>8, AboveNext
    <2>4. Ordered(below, A \cup {name})
        <3>1. AllAbove(w, A \cup {name}, ToSet(seq)) /\ A \cup {name} \in SUBSET File
            BY <1>4, <2>3 DEF AllAbove
        <3> QED BY <1>6, <2>2, <3>1 DEF KeepsOrder
    <2>5. ASSUME NEW dep \in ToSet(seq) PROVE dep \in FileNames(below.files)
        <3>1. Acyclic(w)
            BY DEF World
        <3>2. dep \notin A \cup {name}
            BY <2>3, <3>1, AboveItself
        <3>3. dep \in below.expanded
            BY <1>6
        <3> QED BY <2>4, <3>2, <3>3 DEF Ordered
    <2> QED BY <1>1, <1>3, <1>4, <1>6, <2>1, <2>4, <2>5, EmittedOrdered
<1>9. ToSet(v.files) \subseteq ToSet(o.files) \cup EntriesOf(w)
    <2>1. ToSet(v.files) \subseteq ToSet(below.files) \cup EntriesOf(w)
        BY <1>3, <1>4, <1>6, EmittedAdds
    <2> QED BY <1>5, <1>6, <2>1
<1>10. Wrote(w, o, name, v)
    BY <1>5, <1>6, <1>7, <1>8, <1>9 DEF Wrote
<1> QED BY <1>1, <1>2, <1>3, <1>10

WriteCalls(w) == Written \X DOMAIN w
WriteMeasure(w) == [c \in WriteCalls(w) |-> Cardinality(File \ c[1].expanded)]
WriteResults(w) == {p \in WriteCalls(w) \X Written : Wrote(w, p[1][1], p[1][2], p[2])}
WriteStep(w, g) == [a \in [WriteCalls(w) -> Written] \cup {g} |->
                       [c \in WriteCalls(w) |-> AddFileToSet(a, w, c[1], c[2])]]

LEMMA WriteStepType ==
    ASSUME NEW w, World(w), NEW g, NEW a \in [WriteCalls(w) -> Written]
    PROVE  WriteStep(w, g)[a] \in [WriteCalls(w) -> Written]
<1> DEFINE D == DOMAIN w
<1> SUFFICES ASSUME NEW o \in Written, NEW name \in D
             PROVE  AddFileToSet(a, w, o, name) \in Written
    BY DEF WriteStep, WriteCalls
<1>1. Stays2(a, Written, D)
    BY DEF Stays2, WriteCalls
<1>2. PICK seq : seq = w[name].deps
    OBVIOUS
<1>3. PICK base : base = Entered(o, name)
    OBVIOUS
<1>4. name \in File /\ w[name] \in Content
    BY DEF World
<1>5. seq \in Seq(D) /\ base \in Written
    BY <1>2, <1>3, <1>4, ImportsOf, EnteredParts
<1>6. Len(seq) \in Nat /\ DOMAIN seq = 1..Len(seq) /\ \A i \in DOMAIN seq : seq[i] \in D
    BY <1>5, LenProperties, ElementOfSeq
<1>7. PICK S : S = [i \in 0..Len(seq) |-> Written]
    OBVIOUS
<1>8. Rounds2(S, a, seq, Written) /\ base \in S[0]
    BY <1>1, <1>5, <1>6, <1>7 DEF Rounds2, Stays2
<1>9. PICK below : below = Folded2(a, base, seq)
    OBVIOUS
<1>10. below \in Written
    BY <1>1, <1>5, <1>8, <1>9, FoldRule2
<1>11. Emitted(w, below, name) \in Written
    BY <1>4, <1>10, EmittedKeeps
<1> QED BY <1>2, <1>3, <1>9, <1>11, AddFileToSetIs

LEMMA AddFileToSetDescends ==
    ASSUME NEW w, World(w), NEW n \in Nat, NEW a, NEW b,
           Meets(a, WriteCalls(w), WriteMeasure(w), WriteResults(w), n),
           Same(a, b, WriteCalls(w), WriteMeasure(w), n),
           NEW c \in WriteCalls(w), WriteMeasure(w)[c] < n + 1
    PROVE  /\ AddFileToSet(a, w, c[1], c[2]) = AddFileToSet(b, w, c[1], c[2])
           /\ <<c, AddFileToSet(a, w, c[1], c[2])>> \in WriteResults(w)
<1> DEFINE D == DOMAIN w
           C == WriteCalls(w)
           m == WriteMeasure(w)
<1>1. PICK o \in Written, name \in D : c = <<o, name>>
    BY DEF WriteCalls
<1>2. IsFiniteSet(File) /\ name \in File /\ o.expanded \in SUBSET File
    BY DescriptorsAssumption, WrittenParts DEF World
<1>3. AddFileToSet(a, w, c[1], c[2]) = AddFileToSet(a, w, o, name)
      /\ AddFileToSet(b, w, c[1], c[2]) = AddFileToSet(b, w, o, name)
    BY <1>1
<1>4. Cardinality(File \ o.expanded) < n + 1 /\ Cardinality(File \ o.expanded) \in Nat
    BY <1>1, <1>2, LeftLess DEF WriteMeasure
<1>5. CASE name \in o.expanded
    <2>1. AddFileToSet(a, w, o, name) = o /\ AddFileToSet(b, w, o, name) = o
        BY <1>5, AddFileToSetIs
    <2>2. Wrote(w, o, name, o)
        BY <1>5 DEF Wrote
    <2>3. <<c, o>> \in WriteResults(w)
        BY <1>1, <2>2 DEF WriteResults
    <2> QED BY <1>3, <2>1, <2>3
<1>6. CASE name \notin o.expanded
    <2>1. PICK base : base = Entered(o, name)
        OBVIOUS
    <2>2. PICK L : L = {s \in Written : base.expanded \subseteq s.expanded}
        OBVIOUS
    <2>3. base \in Written /\ base.expanded = o.expanded \cup {name}
        BY <1>2, <2>1, EnteredParts
    <2>4. ASSUME NEW s \in L, NEW x \in D
          PROVE  <<s, x>> \in C /\ m[<<s, x>>] < n
        <3>1. <<s, x>> \in C /\ m[<<s, x>>] = Cardinality(File \ s.expanded)
            BY <2>2 DEF WriteCalls, WriteMeasure
        <3>2. PICK e : e = s.expanded
            OBVIOUS
        <3>3. o.expanded \subseteq e /\ name \in e \ o.expanded /\ e \in SUBSET File
            BY <1>6, <2>2, <2>3, <3>2, WrittenParts
        <3>4. Cardinality(File \ e) < Cardinality(File \ o.expanded) /\ Cardinality(File \ e) \in Nat
            BY <1>2, <3>3, LeftLess
        <3> QED BY <1>4, <3>1, <3>2, <3>4
    <2>5. ASSUME NEW s \in L, NEW x \in D
          PROVE  Wrote(w, s, x, a[<<s, x>>]) /\ a[<<s, x>>] = b[<<s, x>>]
        <3>1. <<<<s, x>>, a[<<s, x>>]>> \in WriteResults(w) /\ a[<<s, x>>] = b[<<s, x>>]
            BY <2>4 DEF Meets, Same
        <3> QED BY <3>1 DEF WriteResults
    <2>6. AllWrote(w, a, L) /\ Alike2(a, b, L, D)
        BY <2>5 DEF AllWrote, Alike2
    <2>7. Stays2(a, L, D)
        BY <2>2, <2>5 DEF Stays2, Wrote
    <2>8. w[name].deps \in Seq(D) /\ base \in L
        BY <2>2, <2>3, ImportsOf
    <2>9. PICK below : below = Folded2(a, base, w[name].deps)
        OBVIOUS
    <2>10. below = Folded2(b, base, w[name].deps)
        BY <2>6, <2>7, <2>8, <2>9, FoldAlike2
    <2>11. PICK v : v = Emitted(w, below, name)
        OBVIOUS
    <2>12. Wrote(w, o, name, v)
        BY <1>6, <2>1, <2>2, <2>6, <2>9, <2>11, WroteBelow
    <2>13. AddFileToSet(a, w, o, name) = v /\ AddFileToSet(b, w, o, name) = v
        BY <1>6, <2>1, <2>9, <2>10, <2>11, AddFileToSetIs
    <2>14. <<c, v>> \in WriteResults(w)
        BY <1>1, <2>12 DEF WriteResults, Wrote
    <2> QED BY <1>3, <2>13, <2>14
<1> QED BY <1>5, <1>6

LEMMA WriteDescends ==
    ASSUME NEW w, World(w), NEW g
    PROVE  Descends(WriteStep(w, g), g, WriteCalls(w), Written, WriteMeasure(w), WriteResults(w))
<1> DEFINE C == WriteCalls(w)
           m == WriteMeasure(w)
           Phi == WriteStep(w, g)
<1>1. ASSUME NEW n \in Nat, NEW a \in [C -> Written], NEW b \in [C -> Written] \cup {g},
             Meets(a, C, m, WriteResults(w), n), Same(a, b, C, m, n),
             NEW c \in C, m[c] < n + 1
      PROVE  Phi[a][c] = Phi[b][c] /\ <<c, Phi[a][c]>> \in WriteResults(w)
    <2>1. Phi[a][c] = AddFileToSet(a, w, c[1], c[2]) /\ Phi[b][c] = AddFileToSet(b, w, c[1], c[2])
        BY DEF WriteStep
    <2> QED BY <1>1, <2>1, AddFileToSetDescends
<1> HIDE DEF C, m, Phi
<1>2. Descends(Phi, g, C, Written, m, WriteResults(w))
    <2> SUFFICES ASSUME NEW n \in Nat, NEW a \in [C -> Written],
                        NEW b \in [C -> Written] \cup {g},
                        Meets(a, C, m, WriteResults(w), n), Same(a, b, C, m, n)
                 PROVE  /\ Same(Phi[a], Phi[b], C, m, n + 1)
                        /\ Meets(Phi[a], C, m, WriteResults(w), n + 1)
        BY Zenon DEF Descends
    <2>1. ASSUME NEW c \in C, m[c] < n + 1
          PROVE  Phi[a][c] = Phi[b][c] /\ <<c, Phi[a][c]>> \in WriteResults(w)
        BY Zenon, <1>1, <2>1
    <2>2. Same(Phi[a], Phi[b], C, m, n + 1)
        BY Zenon, <2>1 DEF Same
    <2>3. Meets(Phi[a], C, m, WriteResults(w), n + 1)
        BY Zenon, <2>1 DEF Meets
    <2> QED BY <2>2, <2>3
<1> QED BY <1>2 DEF C, m, Phi

IsAddFileToSet(a, w) == a = [c \in WriteCalls(w) |-> AddFileToSet(a, w, c[1], c[2])]

(* A file is written with all it imports, each after its own imports. *)
LEMMA AddFilesToSetWrites ==
    ASSUME NEW w, World(w), NEW o \in Written, NEW name \in DOMAIN w
    PROVE  Wrote(w, o, name, AddFilesToSet(o, w, name))
<1> DEFINE C == WriteCalls(w)
           m == WriteMeasure(w)
<1>1. IsFiniteSet(File)
    BY DescriptorsAssumption
<1>2. ASSUME NEW c \in C PROVE m[c] \in Nat /\ m[c] < Cardinality(File) + 1
    <2>1. PICK e : e = c[1].expanded
        OBVIOUS
    <2>2. e \in SUBSET File /\ m[c] = Cardinality(File \ e)
        BY <2>1, WrittenParts DEF WriteCalls, WriteMeasure
    <2>3. Cardinality(File) \in Nat /\ Cardinality(File \ e) \in Nat
        BY <1>1, <2>2, FS_CardinalityType, LeftLess
    <2>4. Cardinality(File \ e) <= Cardinality(File)
        BY <1>1, FS_Subset
    <2> QED BY <2>2, <2>3, <2>4
<1>3. m \in [C -> Nat]
    BY <1>2 DEF WriteMeasure
<1>4. PICK N : N = Cardinality(File) + 1
    OBVIOUS
<1>5. N \in Nat /\ \A c \in C : m[c] < N
    BY <1>1, <1>2, <1>4, FS_CardinalityType
<1>6. PICK any : any = [c \in C |-> c[1]]
    OBVIOUS
<1>7. any \in [C -> Written]
    BY <1>6 DEF WriteCalls
<1>8. PICK a : a = CHOOSE add : IsAddFileToSet(add, w)
    OBVIOUS
<1>9. PICK Phi : Phi = WriteStep(w, a)
    OBVIOUS
<1>10. \A f \in [C -> Written] : Phi[f] \in [C -> Written]
    BY <1>9, WriteStepType
<1>11. Descends(Phi, a, C, Written, m, WriteResults(w))
    BY <1>9, WriteDescends
<1> HIDE DEF m
<1>12. PICK f \in [C -> Written] : f = Phi[f]
    BY <1>3, <1>5, <1>7, <1>10, <1>11, FixedPoint
<1>13. IsAddFileToSet(f, w)
    BY <1>9, <1>12 DEF WriteStep, IsAddFileToSet
<1>14. IsAddFileToSet(a, w)
    BY Zenon, <1>8, <1>13
<1>15. a = Phi[a]
    BY <1>9, <1>14 DEF WriteStep, IsAddFileToSet
<1>16. \A c \in C : <<c, a[c]>> \in WriteResults(w)
    BY <1>3, <1>5, <1>11, <1>12, <1>15, FixedPointMeets
<1>17. <<o, name>> \in C
    BY DEF WriteCalls
<1>18. <<<<o, name>>, a[<<o, name>>]>> \in WriteResults(w)
    BY <1>16, <1>17
<1>19. AddFilesToSet(o, w, name) = a[<<o, name>>]
    BY Zenon, <1>8 DEF AddFilesToSet, IsAddFileToSet, WriteCalls
<1> QED BY <1>18, <1>19 DEF WriteResults

(* The file that is written holds no file twice, and each after its imports. *)
LEMMA ProtosetInOrder ==
    ASSUME NEW E, NEW X, NEW found \in Seq(X),
           \A f \in X : World(f.world) /\ f.name \in DOMAIN f.world /\ EntriesOf(f.world) \subseteq E
    PROVE  /\ WriteProtoset(found) \in Seq(Entry) /\ InOrder(WriteProtoset(found))
           /\ ToSet(WriteProtoset(found)) \subseteq E
<1>1. PICK none : none = [files |-> <<>>, expanded |-> {}]
    OBVIOUS
<1>2. PICK v : v = FoldedFiles(none, found)
    OBVIOUS
<1>3. WriteProtoset(found) = v.files
    BY <1>1, <1>2 DEF WriteProtoset, FoldedFiles
<1>4. PICK L : L = {o \in Written : Ordered(o, {}) /\ ToSet(o.files) \subseteq E}
    OBVIOUS
<1>5. none \in L
    <2>1. none \in Written /\ none.files = <<>> /\ none.expanded = {}
        BY <1>1 DEF Written
    <2>2. DOMAIN none.files = {}
        BY <2>1
    <2>3. Ordered(none, {})
        BY <2>1, <2>2 DEF Ordered, InOrder, FileNames
    <2>4. ToSet(none.files) \subseteq E
        BY <2>2 DEF ToSet
    <2> QED BY <1>4, <2>1, <2>3, <2>4
<1>6. FilesStay(L, X)
    <2> SUFFICES ASSUME NEW o \in L, NEW f \in X PROVE AddFilesToSet(o, f.world, f.name) \in L
        BY DEF FilesStay
    <2>1. /\ o \in Written /\ Ordered(o, {}) /\ World(f.world) /\ f.name \in DOMAIN f.world
          /\ ToSet(o.files) \subseteq E /\ EntriesOf(f.world) \subseteq E
        BY <1>4
    <2>2. Wrote(f.world, o, f.name, AddFilesToSet(o, f.world, f.name))
        BY <2>1, AddFilesToSetWrites
    <2>3. Above(f.world, {}, f.name)
        BY DEF Above
    <2>4. {} \in SUBSET File
        OBVIOUS
    <2> QED BY <1>4, <2>1, <2>2, <2>3, <2>4 DEF Wrote
<1>7. PICK h : h = RoundOfFiles(found, L)
    OBVIOUS
<1>8. Len(found) \in Nat /\ DOMAIN found = 1..Len(found) /\ \A i \in DOMAIN found : found[i] \in X
    BY LenProperties, ElementOfSeq
<1>9. FoldValue(v, L, h, none, Len(found))
    BY <1>2, <1>5, <1>6, <1>7, FoldedFilesValue
<1>10. PICK S : S = [i \in 0..Len(found) |-> L]
    OBVIOUS
<1>11. Rounds(S, L, h, Len(found)) /\ none \in S[0]
    BY <1>5, <1>6, <1>7, <1>8, <1>10 DEF Rounds, RoundOfFiles, FilesStay
<1>12. v \in L
    BY <1>8, <1>9, <1>11, FoldRule
<1> QED BY <1>3, <1>4, <1>12, WrittenParts DEF Ordered

LEMMA SeqOfItsOwn ==
    ASSUME NEW S, NEW s \in Seq(S)
    PROVE  s \in Seq(ToSet(s))
<1>1. PICK n : n = Len(s)
    OBVIOUS
<1>2. n \in Nat /\ DOMAIN s = 1..n /\ s \in [1..n -> S]
    BY <1>1, LenProperties
<1>3. s \in [1..n -> ToSet(s)]
    BY <1>2 DEF ToSet
<1> QED BY <1>2, <1>3, SeqDef

Appended(l, name) == [l EXCEPT !.resolved = Append(@, name)]

LEMMA AppendedTo ==
    ASSUME NEW s, NEW name, NEW l, l = [resolved |-> s, outcome |-> "ok"]
    PROVE  Appended(l, name) = [resolved |-> Append(s, name), outcome |-> "ok"]
BY DEF Appended

(* Where every import of a file is resolved, resolving the file appends it. *)
LEMMA ResolvesNext ==
    ASSUME NEW u, Files(u), NEW r, IsResolve(r, u), NEW l \in Loading, l.outcome = "ok",
           NEW name \in DOMAIN u, name \notin ToSet(l.resolved), Links(u, name),
           ToSet(u[name].deps) \subseteq ToSet(l.resolved)
    PROVE  r[<<l, name, 1>>] = Appended(l, name)
<1>1. name \in File /\ u[name].deps \in Seq(File)
    BY FilesParts
<1>2. PICK seq : seq = u[name].deps
    OBVIOUS
<1>3. PICK deps : deps = ToSet(seq)
    OBVIOUS
<1>4. seq \in Seq(deps) /\ deps \subseteq ToSet(l.resolved)
    BY <1>1, <1>2, <1>3, SeqOfItsOwn
<1>5. deps \subseteq File
    <2>1. DOMAIN seq = 1..Len(seq) /\ \A i \in 1..Len(seq) : seq[i] \in File
        BY <1>1, <1>2, LenProperties, ElementOfSeq
    <2> QED BY <1>3, <2>1 DEF ToSet
<1>6. PICK below : below = Folded3(r, 2, l, seq)
    OBVIOUS
<1>7. below = l
    <2>1. PICK L : L = {l}
        OBVIOUS
    <2>2. ASSUME NEW dep \in deps PROVE r[<<l, dep, 2>>] = l
        <3>1. PICK other : other = Folded3(r, 2 + 1, l, u[dep].deps)
            OBVIOUS
        <3>2. r[<<l, dep, 2>>] = Returned(u, l, dep, 2, other)
            BY <1>5, <3>1, ResolveStep
        <3>3. Settled(l, dep)
            BY <1>4 DEF Settled
        <3> QED BY <3>2, <3>3 DEF Returned
    <2>3. Stays3(r, 2, L, deps)
        BY <2>1, <2>2 DEF Stays3
    <2>4. Len(seq) \in Nat /\ DOMAIN seq = 1..Len(seq) /\ \A i \in DOMAIN seq : seq[i] \in deps
        BY <1>4, LenProperties, ElementOfSeq
    <2>5. PICK S : S = [i \in 0..Len(seq) |-> L]
        OBVIOUS
    <2>6. Rounds3(S, r, 2, seq, L) /\ l \in S[0]
        BY <2>1, <2>3, <2>4, <2>5 DEF Rounds3, Stays3
    <2>7. l \in L
        BY <2>1
    <2>8. below \in L
        BY <1>4, <1>6, <2>3, <2>6, <2>7, FoldRule3
    <2> QED BY <2>1, <2>8
<1>8. r[<<l, name, 1>>] = Returned(u, l, name, 1, below)
    <2>1. 1 \in Nat /\ 1 + 1 = 2
        OBVIOUS
    <2> QED BY <1>1, <1>2, <1>6, <2>1, ResolveStep
<1>9. ~(1 > Cardinality(File))
    <2>1. IsFiniteSet(File) /\ File # {}
        BY <1>1, DescriptorsAssumption
    <2>2. PICK K : K = Cardinality(File)
        OBVIOUS
    <2>3. K \in Nat /\ K # 0
        BY <2>1, <2>2, FS_CardinalityType, FS_EmptySet
    <2> QED BY <2>2, <2>3
<1>10. ~Settled(l, name)
    BY DEF Settled
<1> QED BY <1>7, <1>8, <1>9, <1>10 DEF Returned, Appended

(* Files in order are entries of a closed set without cycles. *)
LEMMA InOrderParts ==
    ASSUME NEW files \in Seq(Entry), InOrder(files), NEW u, u = Unresolved(files)
    PROVE  /\ Files(u) /\ DOMAIN u = {files[i].name : i \in DOMAIN files}
           /\ \A i \in DOMAIN files : files[i].name \in DOMAIN u /\ u[files[i].name] = files[i].content
<1>1. /\ Files(u) /\ DOMAIN u = {files[i].name : i \in DOMAIN files}
      /\ \A name \in DOMAIN u :
             \E i \in DOMAIN files : files[i].name = name /\ u[name] = files[i].content
    BY UnresolvedFiles
<1>2. ASSUME NEW i \in DOMAIN files
      PROVE  files[i].name \in DOMAIN u /\ u[files[i].name] = files[i].content
    <2>1. files[i].name \in DOMAIN u
        BY <1>1
    <2>2. PICK j \in DOMAIN files : files[j].name = files[i].name /\ u[files[i].name] = files[j].content
        BY <1>1, <2>1
    <2>3. j = i
        BY <2>2 DEF InOrder
    <2> QED BY <2>1, <2>2, <2>3
<1> QED BY <1>1, <1>2

LEMMA InOrderCloses ==
    ASSUME NEW files \in Seq(Entry), InOrder(files), NEW u, u = Unresolved(files)
    PROVE  Closed(u) /\ Acyclic(u)
<1>1. Len(files) \in Nat /\ DOMAIN files = 1..Len(files)
    BY LenProperties
<1>2. /\ DOMAIN u = {files[i].name : i \in DOMAIN files}
      /\ \A i \in DOMAIN files : files[i].name \in DOMAIN u /\ u[files[i].name] = files[i].content
    BY InOrderParts
<1>3. ASSUME NEW i \in DOMAIN files, NEW dep \in ToSet(u[files[i].name].deps)
      PROVE  \E j \in DOMAIN files : j < i /\ files[j].name = dep
    <2>1. PICK j \in 1..(i - 1) : files[j].name = dep
        BY <1>2 DEF InOrder
    <2>2. j \in DOMAIN files /\ j < i
        BY <1>1
    <2> QED BY <2>1, <2>2
<1>4. Closed(u)
    <2> SUFFICES ASSUME NEW name \in DOMAIN u, NEW dep \in ToSet(u[name].deps) PROVE dep \in DOMAIN u
        BY DEF Closed
    <2>1. PICK i \in DOMAIN files : files[i].name = name
        BY <1>2
    <2> QED BY <1>2, <1>3, <2>1
<1>5. Acyclic(u)
    <2> SUFFICES ASSUME NEW C \in SUBSET DOMAIN u, C # {}
                 PROVE  \E name \in C : ToSet(u[name].deps) \cap C = {}
        BY DEF Acyclic
    <2>1. PICK D : D = {i \in DOMAIN files : files[i].name \in C}
        OBVIOUS
    <2>2. D \in SUBSET Nat /\ D # {}
        BY <1>1, <1>2, <2>1
    <2>3. PICK i \in D : \A j \in D : i <= j
        BY <2>2, Least
    <2>4. i \in DOMAIN files /\ files[i].name \in C /\ i \in Nat
        BY <1>1, <2>1
    <2>5. ASSUME NEW dep \in ToSet(u[files[i].name].deps), dep \in C PROVE FALSE
        <3>1. PICK j \in DOMAIN files : j < i /\ files[j].name = dep
            BY <1>3, <2>4
        <3>2. j \in D /\ j \in Nat
            BY <1>1, <2>1, <2>5, <3>1
        <3> QED BY <2>3, <2>4, <3>1, <3>2
    <2> QED BY <2>4, <2>5
<1> QED BY <1>4, <1>5

(* Files in order that link are loaded, one after the other. *)
LEMMA InOrderLoads ==
    ASSUME NEW files \in Seq(Entry), InOrder(files), Linked(Unresolved(files))
    PROVE  Load(files) = [resolved |-> [i \in DOMAIN files |-> files[i].name], outcome |-> "ok"]
<1>1. PICK u : u = Unresolved(files)
    OBVIOUS
<1>2. PICK names : names = [i \in DOMAIN files |-> files[i].name]
    OBVIOUS
<1>3. PICK N : N = Len(files)
    OBVIOUS
<1>4. N \in Nat /\ DOMAIN files = 1..N
      /\ \A i \in 1..N : files[i].name \in File /\ files[i].content \in Content
    <2>1. N \in Nat /\ DOMAIN files = 1..N /\ \A i \in 1..N : files[i] \in Entry
        BY <1>3, LenProperties, ElementOfSeq
    <2> QED BY <2>1 DEF Entry
<1>5. names \in Seq(File) /\ DOMAIN names = 1..N /\ Len(names) = N
    <2>1. names \in [1..N -> File]
        BY <1>2, <1>4
    <2> QED BY <1>4, <2>1, SeqDef, LenProperties
<1>6. Files(u) /\ \A i \in 1..N : names[i] \in DOMAIN u /\ u[names[i]] = files[i].content
    <2>1. Files(u)
        BY <1>1, InOrderParts
    <2>2. \A i \in DOMAIN files : files[i].name \in DOMAIN u /\ u[files[i].name] = files[i].content
        BY <1>1, InOrderParts
    <2>3. \A i \in 1..N : names[i] = files[i].name
        BY <1>2, <1>4
    <2> QED BY <1>4, <2>1, <2>2, <2>3
<1>7. PICK none : none = [resolved |-> <<>>, outcome |-> "ok"]
    OBVIOUS
<1>8. PICK r : IsResolve(r, u) /\ Resolve(u, names) = Folded3(r, 1, none, names)
    BY <1>6, <1>7, ResolveIs
<1> DEFINE First(i) == [j \in 1..i |-> names[j]]
           After(i) == [resolved |-> First(i), outcome |-> "ok"]
<1>9. ASSUME NEW i \in 0..N
      PROVE  /\ First(i) \in Seq(File) /\ Len(First(i)) = i /\ ToSet(First(i)) = {names[j] : j \in 1..i}
             /\ After(i) \in Loading
    <2>1. \A j \in 1..i : names[j] \in File
        BY <1>2, <1>4
    <2>2. First(i) \in [1..i -> File] /\ i \in Nat
        BY <2>1
    <2>3. First(i) \in Seq(File) /\ Len(First(i)) = i
        BY <2>2, SeqDef, LenProperties
    <2>4. ToSet(First(i)) = {names[j] : j \in 1..i}
        BY <2>2 DEF ToSet
    <2>5. After(i) \in Loading
        BY <2>3 DEF Loading
    <2> QED BY <2>3, <2>4, <2>5
<1>10. ASSUME NEW i \in 1..N PROVE r[<<After(i - 1), names[i], 1>>] = After(i)
    <2>1. i - 1 \in 0..N /\ i \in 0..N /\ i \in Nat
        BY <1>4
    <2>2. PICK l : l = After(i - 1)
        OBVIOUS
    <2>3. PICK s : s = First(i - 1)
        OBVIOUS
    <2>4. s \in Seq(File) /\ Len(s) = i - 1 /\ ToSet(s) = {names[j] : j \in 1..(i - 1)} /\ l \in Loading
        BY <1>9, <2>1, <2>2, <2>3
    <2>5. l.outcome = "ok" /\ l.resolved = s
        BY <2>2, <2>3
    <2>6. names[i] \notin ToSet(s)
        <3>1. ASSUME NEW j \in 1..(i - 1) PROVE names[j] # names[i]
            <4>1. j \in 1..N /\ j # i
                BY <1>4, <2>1
            <4> QED BY <1>2, <1>4, <4>1 DEF InOrder
        <3> QED BY <2>4, <3>1
    <2>7. ToSet(u[names[i]].deps) \subseteq ToSet(s)
        <3>1. ASSUME NEW dep \in ToSet(files[i].content.deps) PROVE dep \in ToSet(s)
            <4>1. PICK j \in 1..(i - 1) : files[j].name = dep
                BY <1>4 DEF InOrder
            <4>2. j \in 1..N
                BY <1>4, <2>1
            <4> QED BY <1>2, <1>4, <2>4, <4>1, <4>2
        <3> QED BY <1>6, <3>1
    <2>8. r[<<l, names[i], 1>>] = Appended(l, names[i])
        <3>1. PICK name : name = names[i]
            OBVIOUS
        <3>2. name \in DOMAIN u /\ name \notin ToSet(l.resolved) /\ ToSet(u[name].deps) \subseteq ToSet(l.resolved)
            BY <1>6, <2>5, <2>6, <2>7, <3>1
        <3>3. Links(u, name)
            BY <1>1, <3>2 DEF Linked
        <3>4. r[<<l, name, 1>>] = Appended(l, name)
            BY <1>6, <1>8, <2>4, <2>5, <3>2, <3>3, ResolvesNext
        <3> QED BY <3>1, <3>4
    <2>9. Append(s, names[i]) = First(i)
        <3>1. PICK t : t = Append(s, names[i])
            OBVIOUS
        <3>2. names[i] \in File
            BY <1>2, <1>4
        <3>3. /\ t \in Seq(File) /\ Len(t) = (i - 1) + 1
              /\ \A j \in 1..(i - 1) : t[j] = s[j]
              /\ t[(i - 1) + 1] = names[i]
            BY <2>4, <3>1, <3>2, AppendProperties
        <3>4. Len(t) = i /\ t[i] = names[i]
            BY <2>1, <3>3
        <3>5. DOMAIN t = 1..i /\ t \in [1..i -> File]
            BY <3>3, <3>4, LenProperties
        <3>6. \A j \in 1..i : t[j] = names[j]
            <4>1. \A j \in 1..i : j = i \/ j \in 1..(i - 1)
                BY <2>1
            <4>2. \A j \in 1..(i - 1) : s[j] = names[j]
                BY <2>3
            <4> QED BY <3>3, <3>4, <4>1, <4>2
        <3>7. t = [j \in 1..i |-> names[j]]
            BY <3>5, <3>6
        <3> QED BY <3>1, <3>7
    <2>10. Appended(l, names[i]) = After(i)
        <3>1. l = [resolved |-> s, outcome |-> "ok"]
            BY <2>2, <2>3
        <3>2. PICK name : name = names[i]
            OBVIOUS
        <3>3. Appended(l, name) = [resolved |-> Append(s, name), outcome |-> "ok"]
            BY <3>1, AppendedTo
        <3>4. After(i) = [resolved |-> Append(s, name), outcome |-> "ok"]
            BY <2>9, <3>2
        <3> QED BY <3>2, <3>3, <3>4
    <2> HIDE DEF After
    <2> QED BY <2>2, <2>8, <2>10
<1>11. none = After(0)
    <2>1. First(0) = <<>>
        OBVIOUS
    <2> QED BY <1>7, <2>1
<1>12. PICK S : S = [i \in 0..N |-> {After(i)}]
    OBVIOUS
<1>13. After(N) = [resolved |-> names, outcome |-> "ok"]
    <2>1. names = [j \in 1..N |-> names[j]]
        BY <1>2, <1>4
    <2> QED BY <2>1
<1> HIDE DEF First, After
<1>14. PICK v : v = Folded3(r, 1, none, names)
    OBVIOUS
<1>15. v = After(N)
    <2>1. AllFine(u, r, 1, File)
        BY <1>6, <1>8, AllCallsFine, TopReached DEF FineCalls, AllFine
    <2>2. Stays3(r, 1, Loading, File)
        BY <2>1 DEF AllFine, Fine, Stays3
    <2>3. 0 \in 0..N /\ N \in 0..N
        BY <1>4
    <2>4. none \in Loading /\ none \in S[0]
        BY <1>9, <1>11, <1>12, <2>3
    <2>5. ASSUME NEW i \in 1..N, NEW l \in Loading, l \in S[i - 1]
          PROVE  r[<<l, names[i], 1>>] \in S[i]
        <3>1. i - 1 \in 0..N /\ i \in 0..N
            BY <1>4
        <3>2. l = After(i - 1)
            BY <1>12, <2>5, <3>1
        <3> QED BY <1>10, <1>12, <3>1, <3>2
    <2>6. Rounds3(S, r, 1, names, Loading)
        BY <1>5, <2>5 DEF Rounds3
    <2>7. v \in S[N]
        BY <1>5, <1>14, <2>2, <2>4, <2>6, FoldRule3
    <2> QED BY <1>12, <2>3, <2>7
<1>16. Load(files) = Resolve(u, names)
    BY <1>1, <1>2 DEF Load
<1> QED BY <1>2, <1>8, <1>13, <1>14, <1>15, <1>16

(* Files in order that do not link are refused, without overflowing.  *)
LEMMA InOrderRefused ==
    ASSUME NEW files \in Seq(Entry), InOrder(files), ~Linked(Unresolved(files))
    PROVE  Load(files).outcome = "error"
<1>1. PICK u : u = Unresolved(files)
    OBVIOUS
<1>2. Closed(u) /\ Acyclic(u)
    BY <1>1, InOrderCloses
<1>3. Load(files).outcome # "ok" /\ Load(files).outcome # "overflow"
    BY <1>1, <1>2, LoadOutcome
<1>4. Load(files) \in Loading
    BY LoadFine DEF Fine
<1>5. PICK x : x = Load(files)
    OBVIOUS
<1>6. x.outcome \in {"ok", "error", "overflow"}
    BY <1>4, <1>5, LoadingParts
<1> QED BY <1>3, <1>5, <1>6

(* Files of two worlds that agree link, each file with its imports. *)
LEMMA InOrderLinks ==
    ASSUME NEW files \in Seq(Entry), InOrder(files), NEW v, World(v), NEW w, World(w),
           ToSet(files) \subseteq EntriesOf(v) \cup EntriesOf(w),
           \A name \in DOMAIN v \cap DOMAIN w : v[name] = w[name]
    PROVE  Linked(Unresolved(files))
<1>1. PICK u : u = Unresolved(files)
    OBVIOUS
<1>2. /\ DOMAIN u = {files[i].name : i \in DOMAIN files}
      /\ \A i \in DOMAIN files : files[i].name \in DOMAIN u /\ u[files[i].name] = files[i].content
    BY Zenon, <1>1, InOrderParts
<1>3. ASSUME NEW name \in DOMAIN u
      PROVE  \/ name \in DOMAIN v /\ u[name] = v[name]
             \/ name \in DOMAIN w /\ u[name] = w[name]
    <2>1. PICK i \in DOMAIN files : files[i].name = name
        BY <1>2
    <2>2. files[i] \in EntriesOf(v) \cup EntriesOf(w)
        BY DEF ToSet
    <2> QED BY <1>2, <2>1, <2>2 DEF EntriesOf
<1>4. Closed(u)
    BY <1>1, InOrderCloses
<1>5. ASSUME NEW x, World(x), NEW name \in DOMAIN u, name \in DOMAIN x, u[name] = x[name],
             \A dep \in DOMAIN u : dep \in DOMAIN x => u[dep] = x[dep]
      PROVE  Links(u, name)
    <2>1. Links(x, name) /\ ToSet(x[name].deps) \subseteq DOMAIN x /\ ToSet(u[name].deps) \subseteq DOMAIN u
        BY <1>4, <1>5 DEF World, Linked, Closed
    <2>2. \A dep \in ToSet(u[name].deps) : u[dep] = x[dep]
        BY <1>5, <2>1
    <2>3. {u[dep].defines : dep \in ToSet(u[name].deps)} = {x[dep].defines : dep \in ToSet(x[name].deps)}
        BY <1>5, <2>2
    <2> QED BY <1>5, <2>1, <2>3 DEF Links
<1>6. ASSUME NEW name \in DOMAIN u PROVE Links(u, name)
    <2>1. \A dep \in DOMAIN u : dep \in DOMAIN v => u[dep] = v[dep]
        BY <1>3
    <2>2. \A dep \in DOMAIN u : dep \in DOMAIN w => u[dep] = w[dep]
        BY <1>3
    <2> QED BY <1>3, <1>5, <2>1, <2>2
<1> QED BY <1>1, <1>6 DEF Linked

(* The sources hold files that import one another, and a written descriptor  *)
(* set is in order and of files that the sources, which stay what they were, *)
(* hold.                                                                     *)
IsSequence(s) == \E n \in Nat : DOMAIN s = 1..n
FromSources == ToSet(protoset) \subseteq EntriesOf(fileSource) \cup EntriesOf(server)
InOrderIfWritten ==
    out = "written" =>
        pc \in {"return", "exited"} /\ protoset \in Seq(Entry) /\ InOrder(protoset) /\ FromSources
SourcesHold == World(fileSource) /\ World(server) /\ IsSequence(symbols) /\ InOrderIfWritten

LEMMA NoFilesWorld == World(NoFiles)
<1>1. DOMAIN NoFiles = {}
    BY DEF NoFiles
<1>2. NoFiles \in [{} -> Content]
    BY DEF NoFiles
<1>3. (SUBSET DOMAIN NoFiles) \ {{}} = {}
    BY <1>1
<1> QED BY <1>1, <1>2, <1>3 DEF World, Closed, Acyclic, Linked

LEMMA FoundParts ==
    ASSUME SourcesHold, NEW name, NEW f \in Finds(name)
    PROVE  /\ World(f.world) /\ f.name \in DOMAIN f.world
           /\ f.world \in {fileSource, server}
<1>1. f \in FoundIn(server, name) \/ f \in FoundIn(fileSource, name)
    BY DEF Finds
<1>2. ASSUME NEW w, World(w), f \in FoundIn(w, name)
      PROVE  World(f.world) /\ f.name \in DOMAIN f.world /\ f.world = w
    <2>1. name \in DOMAIN w /\ f = [name |-> name, world |-> w]
        BY <1>2 DEF FoundIn
    <2>2. f.world = w /\ f.name = name
        BY <2>1
    <2> QED BY <1>2, <2>1, <2>2
<1> QED BY <1>1, <1>2 DEF SourcesHold

LEMMA ListingIsSequence ==
    ASSUME SourcesHold, NEW s \in Listings
    PROVE  IsSequence(s)
<1>1. PICK w : w = IF flags.reflection THEN server ELSE fileSource
    OBVIOUS
<1>2. World(w)
    BY <1>1 DEF SourcesHold
<1>3. IsFiniteSet(DOMAIN w)
    BY <1>2, DescriptorsAssumption, FS_Subset DEF World
<1>4. Cardinality(DOMAIN w) \in Nat
    BY <1>3, FS_CardinalityType
<1>5. s \in SetToSeqs(DOMAIN w)
    BY <1>1 DEF Listings
<1>6. DOMAIN s = 1..Cardinality(DOMAIN w)
    BY <1>5 DEF SetToSeqs
<1> QED BY <1>4, <1>6 DEF IsSequence

LEMMA WrittenInOrder ==
    ASSUME SourcesHold,
           NEW found \in [DOMAIN symbols -> UNION {Finds(symbols[i]) : i \in DOMAIN symbols}],
           \A i \in DOMAIN symbols : found[i] \in Finds(symbols[i])
    PROVE  /\ WriteProtoset(found) \in Seq(Entry) /\ InOrder(WriteProtoset(found))
           /\ ToSet(WriteProtoset(found)) \subseteq EntriesOf(fileSource) \cup EntriesOf(server)
<1>1. PICK n \in Nat : DOMAIN symbols = 1..n
    BY DEF SourcesHold, IsSequence
<1>2. PICK X : X = {found[i] : i \in 1..n}
    OBVIOUS
<1>3. ASSUME NEW f \in X
      PROVE  /\ World(f.world) /\ f.name \in DOMAIN f.world
             /\ EntriesOf(f.world) \subseteq EntriesOf(fileSource) \cup EntriesOf(server)
    <2>1. PICK i \in 1..n : f \in Finds(symbols[i])
        BY <1>1, <1>2
    <2> QED BY <2>1, FoundParts
<1>4. found \in [1..n -> X]
    BY <1>1, <1>2
<1>5. found \in Seq(X)
    BY <1>4, SeqDef
<1> QED BY <1>3, <1>5, ProtosetInOrder

LEMMA LoadedWorld ==
    ASSUME NEW s \in Sets, Load(s).outcome = "ok"
    PROVE  World(LoadedFiles(s))
<1>1. PICK u : u = Unresolved(s)
    OBVIOUS
<1>2. s \in Seq(Entry)
    BY CommandAssumption
<1>3. Closed(u) /\ Acyclic(u) /\ Linked(u) /\ LoadedFiles(s) = u
    BY <1>1, <1>2, LoadOutcome
<1>4. Files(u)
    BY <1>1, <1>2, UnresolvedFiles
<1> QED BY <1>3, <1>4 DEF World, Files

LEMMA SourcesKept == BeingLoaded /\ SourcesHold /\ [Next]_vars => SourcesHold'
<1> SUFFICES ASSUME BeingLoaded, SourcesHold, [Next]_vars PROVE SourcesHold'
    OBVIOUS
<1> USE DEF SourcesHold
<1>1. CASE UNCHANGED <<fileSource, server, symbols, protoset>> /\ out' # "written"
    BY <1>1 DEF IsSequence, InOrderIfWritten
<1>2. CASE UNCHANGED <<pc, fileSource, server, symbols, out, protoset>>
    BY <1>2 DEF IsSequence, InOrderIfWritten, FromSources
<1>3. CASE Return
    <2>1. pc' = "exited" /\ UNCHANGED <<fileSource, server, symbols, out, protoset>>
        BY <1>3 DEF Return, sources, work
    <2> QED BY <2>1 DEF IsSequence, InOrderIfWritten, FromSources
<1>4. CASE LoadProtosets
    <2>1. out # "written" /\ UNCHANGED <<server, symbols, out, protoset>>
        BY <1>4 DEF LoadProtosets, work, InOrderIfWritten
    <2>2. CASE UNCHANGED fileSource
        BY <1>1, <2>1, <2>2
    <2>3. CASE pc = "load" /\ Load(set).outcome = "ok" /\ fileSource' = LoadedFiles(set)
        <3>1. World(LoadedFiles(set))
            BY <2>3, LoadedWorld DEF BeingLoaded
        <3>2. World(fileSource')
            BY <2>3, <3>1
        <3> QED BY <2>1, <3>2 DEF IsSequence, InOrderIfWritten
    <2> QED BY <1>4, <2>2, <2>3 DEF LoadProtosets
<1>5. CASE ParseProtoFiles
    <2>1. out # "written" /\ UNCHANGED <<server, symbols, out, protoset>>
        BY <1>5 DEF ParseProtoFiles, work, InOrderIfWritten
    <2>2. CASE UNCHANGED fileSource
        BY <1>1, <2>1, <2>2
    <2>3. ASSUME NEW parsed \in Worlds, NEW name \in DOMAIN parsed,
                 fileSource' = AddFiles(parsed, <<name>>)
          PROVE  SourcesHold'
        <3>1. World(parsed)
            BY CommandAssumption
        <3>2. <<name>> \in Seq(DOMAIN parsed)
            OBVIOUS
        <3>3. World(fileSource')
            BY <2>3, <3>1, <3>2, AddFilesWorld
        <3> QED BY <2>1, <3>3 DEF IsSequence, InOrderIfWritten
    <2> QED BY <1>5, <2>2, <2>3 DEF ParseProtoFiles
<1>6. CASE DialReflection
    <2>1. out # "written" /\ UNCHANGED <<fileSource, symbols, out, protoset>>
        BY <1>6 DEF DialReflection, work, InOrderIfWritten
    <2>2. server' = server \/ server' \in Worlds
        BY <1>6 DEF DialReflection
    <2>3. World(server')
        BY <2>2, CommandAssumption
    <2> QED BY <2>1, <2>3 DEF IsSequence, InOrderIfWritten
<1>7. CASE ListOrDescribeAll \/ ListOrDescribeOne
    <2>1. out # "written" /\ UNCHANGED <<fileSource, server, out, protoset>>
        BY <1>7 DEF ListOrDescribeAll, ListOrDescribeOne, sources, InOrderIfWritten
    <2>2. symbols' = symbols \/ symbols' \in Listings \/ symbols' = <<symbol>>
        BY <1>7 DEF ListOrDescribeAll, ListOrDescribeOne
    <2>3. IsSequence(<<symbol>>)
        <3>1. DOMAIN <<symbol>> = 1..1 /\ 1 \in Nat
            OBVIOUS
        <3> QED BY <3>1 DEF IsSequence
    <2>4. IsSequence(symbols')
        BY <2>2, <2>3, ListingIsSequence
    <2> QED BY <2>1, <2>4 DEF InOrderIfWritten
<1>8. CASE WriteFile
    <2>1. pc = "write" /\ out # "written" /\ UNCHANGED <<fileSource, server, symbols>>
        BY <1>8 DEF WriteFile, sources, InOrderIfWritten
    <2>2. CASE UNCHANGED <<out, protoset>>
        BY <1>1, <2>1, <2>2
    <2>3. CASE out' = "created"
        BY <2>1, <2>3 DEF IsSequence, InOrderIfWritten
    <2>4. ASSUME NEW found \in [DOMAIN symbols -> UNION {Finds(symbols[i]) : i \in DOMAIN symbols}],
                 \A i \in DOMAIN symbols : found[i] \in Finds(symbols[i]),
                 protoset' = WriteProtoset(found), pc' = "return"
          PROVE  SourcesHold'
        <3>1. protoset' \in Seq(Entry) /\ InOrder(protoset') /\ FromSources'
            BY <2>1, <2>4, WrittenInOrder DEF FromSources
        <3> QED BY <2>1, <2>4, <3>1 DEF IsSequence, InOrderIfWritten
    <2> QED BY <1>8, <2>2, <2>3, <2>4 DEF WriteFile, Goto
<1>9. CASE /\ ~LoadProtosets /\ ~ParseProtoFiles /\ ~DialReflection /\ ~Return
           /\ ~ListOrDescribeAll /\ ~ListOrDescribeOne /\ ~WriteFile /\ ~UNCHANGED vars
    <2>1. UNCHANGED <<fileSource, server, symbols, out, protoset>> /\ pc \notin {"return", "exited"}
        BY <1>9 DEF Next, sources, work,
           CheckFlags, ParseArguments, CheckSources, Expand, ReadProtosets, Loaded,
           NoReflection, Describe, DialForRpc, InvokeRPC, ReportStatus
    <2> QED BY <1>1, <2>1 DEF InOrderIfWritten
<1> QED BY <1>2, <1>3, <1>4, <1>5, <1>6, <1>7, <1>8, <1>9 DEF vars, sources, work

(* Whatever the symbols: when the sources their files came from agree, what  *)
(* WriteProtoset writes is a descriptor set that                             *)
(* DescriptorSourceFromFileDescriptorSet loads, file by file.  When they do  *)
(* not it is loaded so too, or refused for a type that is not defined where  *)
(* it is used, never for want of an import and never by an overflow.         *)
THEOREM WhatIsWrittenReloads == Spec => []ProtosetReloads
<1>1. Init => SourcesHold
    <2>1. DOMAIN <<>> = 1..0 /\ 0 \in Nat
        OBVIOUS
    <2>2. IsSequence(<<>>)
        BY <2>1 DEF IsSequence
    <2> QED BY <2>2, NoFilesWorld DEF Init, SourcesHold, InOrderIfWritten
<1>2. Init => BeingLoaded
    BY DEF Init, BeingLoaded
<1>3. SourcesHold => ProtosetReloads
    <2> SUFFICES ASSUME SourcesHold, out = "written" PROVE ProtosetReloads
        BY DEF ProtosetReloads
    <2>1. protoset \in Seq(Entry) /\ InOrder(protoset)
        BY DEF SourcesHold, InOrderIfWritten
    <2>2. PICK files : files = Unresolved(protoset)
        OBVIOUS
    <2>3. Closed(files)
        BY <2>1, <2>2, InOrderCloses
    <2>4. CASE Linked(files)
        <3>1. Load(protoset) = [resolved |-> [i \in DOMAIN protoset |-> protoset[i].name], outcome |-> "ok"]
            BY <2>1, <2>2, <2>4, InOrderLoads
        <3> QED BY <2>2, <2>3, <2>4, <3>1 DEF ProtosetReloads
    <2>5. CASE ~Linked(files)
        <3>1. Load(protoset).outcome = "error"
            BY <2>1, <2>2, <2>5, InOrderRefused
        <3>2. ~SourcesAgree
            BY <2>1, <2>2, <2>5, InOrderLinks DEF SourcesAgree, SourcesHold, InOrderIfWritten, FromSources
        <3> QED BY <2>2, <2>3, <2>5, <3>1, <3>2 DEF ProtosetReloads
    <2> QED BY <2>4, <2>5
<1> QED BY <1>1, <1>2, <1>3, InitIInv, NextIInv, LoadKept, SourcesKept, PTL DEF Spec

=============================================================================
