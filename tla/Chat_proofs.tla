---------------------------- MODULE Chat_proofs ----------------------------
(***************************************************************************)
(* Proofs that an open session is in the queue, once, just when no agent    *)
(* has joined it or is about to, and that whoever is in a session misses    *)
(* nothing that is said there, for any streams of the customer and of       *)
(* agents and any number of sessions, channels and entries.                 *)
(***************************************************************************)
EXTENDS Chat, FiniteSetTheorems, SequenceTheorems, TLAPS

AgentMap == UNION {[A -> Nat] : A \in SUBSET AgentStream}

SessionRec == [active : BOOLEAN, listed : BOOLEAN, history : Seq(Stream), cust : Nat,
               agents : AgentMap]

InSession == {"join", "snapshot", "checked", "publish", "sending", "unlist", "cleanup"}

StreamRec == [at : InSession \cup {"recv", "over"}, sess : Nat, ch : Nat, joins : Nat,
              returns : BOOLEAN, entry : Nat, to : SUBSET Nat]

Channel == [stream : Stream, sess : Nat, holds : Seq(Nat), closed : BOOLEAN]

TypeInv ==
    /\ session \in Seq(SessionRec)
    /\ queue \in Seq(Nat)
    /\ stream \in [Stream -> StreamRec]
    /\ channel \in Seq(Channel)

(* A handler is in a session that exists, in the steps that need one. *)
KnownInv ==
    /\ \A i \in DOMAIN queue : queue[i] \in DOMAIN session
    /\ \A p \in Stream : stream[p].sess \in DOMAIN session \cup {None}
    /\ \A p \in Stream : stream[p].at \in InSession => stream[p].sess # None
    /\ \A p \in Stream : stream[p].at = "join" => p \in AgentStream

(* The agents of a session are those whose stream has joined it. *)
MembersInv ==
    \A p \in AgentStream, s \in DOMAIN session :
        p \in DOMAIN session[s].agents <=> stream[p].sess = s /\ stream[p].at # "join"

(* A session is unlisted by a stream that has closed it. *)
Closing(p) ==
    \/ stream[p].at = "unlist"
    \/ stream[p].at \in {"publish", "sending"} /\ stream[p].entry = End

ListedInv ==
    /\ \A s \in DOMAIN session : session[s].active => session[s].listed
    /\ \A p \in Stream : Closing(p) => ~session[stream[p].sess].active

(* A session in the queue, being joined, and joined. *)
IsJoining(p, s) == p \in AgentStream /\ stream[p].at = "join" /\ stream[p].sess = s
IsAgent(p, s) == p \in DOMAIN session[s].agents

Once(q, s) == \E i \in DOMAIN q : q[i] = s /\ \A j \in DOMAIN q : q[j] = s => j = i
Never(q, s) == \A i \in DOMAIN q : q[i] # s

Waiting(s) ==
    /\ Once(queue, s)
    /\ \A p \in AgentStream : ~IsJoining(p, s) /\ ~IsAgent(p, s)

Handed(s) ==
    /\ Never(queue, s)
    /\ \E p \in AgentStream :
         /\ IsJoining(p, s) \/ IsAgent(p, s)
         /\ \A q \in AgentStream : IsJoining(q, s) \/ IsAgent(q, s) => q = p

AttendedInv ==
    \A s \in DOMAIN session : session[s].active => Waiting(s) \/ Handed(s)

Inv == TypeInv /\ KnownInv /\ MembersInv /\ ListedInv /\ AttendedInv

(* The process that has ended has no sessions. *)
StoppedInv == crashed => session = <<>>

---------------------------------------------------------------------------
(* Helpers *)

LEMMA AgentMapDomain == \A f \in AgentMap : DOMAIN f \subseteq AgentStream
BY DEF AgentMap

LEMMA AgentMapMade ==
    ASSUME NEW D \in SUBSET AgentStream, NEW f \in [D -> Nat]
    PROVE  f \in AgentMap
BY DEF AgentMap

(* Taking the i-th element out of a sequence moves up those behind it. *)
LEMMA RemoveAtProperties ==
    ASSUME NEW S, NEW q \in Seq(S), NEW i \in DOMAIN q
    PROVE  /\ RemoveAt(q, i) \in Seq(S)
           /\ Len(RemoveAt(q, i)) = Len(q) - 1
           /\ \A j \in 1..(Len(q) - 1) :
                RemoveAt(q, i)[j] = IF j < i THEN q[j] ELSE q[j + 1]
<1>1. i \in 1..Len(q) /\ Len(q) \in Nat
    OBVIOUS
<1>2. SubSeq(q, 1, i - 1) \in Seq(S) /\ Len(SubSeq(q, 1, i - 1)) = i - 1
    BY <1>1
<1>3. SubSeq(q, i + 1, Len(q)) \in Seq(S) /\ Len(SubSeq(q, i + 1, Len(q))) = Len(q) - i
    BY <1>1
<1> DEFINE a == SubSeq(q, 1, i - 1)
           b == SubSeq(q, i + 1, Len(q))
<1>4. \A j \in 1..(i - 1) : a[j] = q[j]
    BY <1>1
<1>5. \A j \in 1..(Len(q) - i) : b[j] = q[i + j]
    BY <1>1
<1>6. /\ a \o b \in Seq(S)
      /\ Len(a \o b) = Len(q) - 1
      /\ \A j \in 1..(Len(q) - 1) :
            (a \o b)[j] = IF j < i THEN a[j] ELSE b[j - (i - 1)]
    <2> HIDE DEF a, b
    <2>1. a \in Seq(S) /\ Len(a) = i - 1 /\ b \in Seq(S) /\ Len(b) = Len(q) - i
        BY <1>2, <1>3 DEF a, b
    <2>2. /\ a \o b \in Seq(S)
          /\ Len(a \o b) = Len(a) + Len(b)
          /\ \A j \in 1..Len(a) + Len(b) :
               (a \o b)[j] = IF j <= Len(a) THEN a[j] ELSE b[j - Len(a)]
        BY <2>1, ConcatProperties
    <2>3. Len(a) + Len(b) = Len(q) - 1
        BY <1>1, <2>1
    <2>4. ASSUME NEW j \in 1..(Len(q) - 1)
          PROVE  (a \o b)[j] = IF j < i THEN a[j] ELSE b[j - (i - 1)]
        <3>1. (a \o b)[j] = IF j <= Len(a) THEN a[j] ELSE b[j - Len(a)]
            BY <2>2, <2>3
        <3>2. (j <= Len(a) <=> j < i) /\ j - Len(a) = j - (i - 1)
            BY <1>1, <2>1
        <3> QED BY <3>1, <3>2
    <2> QED BY <2>2, <2>3, <2>4
<1>7. \A j \in 1..(Len(q) - 1) : ~(j < i) => b[j - (i - 1)] = q[j + 1]
    <2> SUFFICES ASSUME NEW j \in 1..(Len(q) - 1), ~(j < i) PROVE b[j - (i - 1)] = q[j + 1]
        OBVIOUS
    <2>1. j - (i - 1) \in 1..(Len(q) - i) /\ i + (j - (i - 1)) = j + 1
        BY <1>1
    <2> QED BY <2>1, <1>5
<1>8. \A j \in 1..(Len(q) - 1) : j < i => a[j] = q[j]
    BY <1>1, <1>4
<1>9. RemoveAt(q, i) = a \o b
    BY DEF RemoveAt, a, b
<1> QED BY <1>6, <1>7, <1>8, <1>9

(* What that and Append do to the places of an element. *)
LEMMA RemoveAtKeeps ==
    ASSUME NEW q \in Seq(Nat), NEW i \in DOMAIN q
    PROVE  /\ \A D : (\A j \in DOMAIN q : q[j] \in D)
                       => \A j \in DOMAIN RemoveAt(q, i) : RemoveAt(q, i)[j] \in D
           /\ \A s : s # q[i] /\ Once(q, s) => Once(RemoveAt(q, i), s)
           /\ \A s : Never(q, s) => Never(RemoveAt(q, i), s)
           /\ \A s : s = q[i] /\ Once(q, s) => Never(RemoveAt(q, i), s)
<1> DEFINE r == RemoveAt(q, i)
<1>1. /\ r \in Seq(Nat) /\ Len(r) = Len(q) - 1
      /\ \A j \in 1..(Len(q) - 1) : r[j] = IF j < i THEN q[j] ELSE q[j + 1]
    BY RemoveAtProperties
<1>2. i \in 1..Len(q) /\ Len(q) \in Nat /\ DOMAIN q = 1..Len(q) /\ DOMAIN r = 1..(Len(q) - 1)
    BY <1>1
<1> HIDE DEF r
<1>3. \A j \in DOMAIN r : \E k \in DOMAIN q \ {i} : r[j] = q[k] /\ j = IF k < i THEN k ELSE k - 1
    <2> SUFFICES ASSUME NEW j \in DOMAIN r
                 PROVE  \E k \in DOMAIN q \ {i} : r[j] = q[k] /\ j = IF k < i THEN k ELSE k - 1
        OBVIOUS
    <2>1. PICK k : k = IF j < i THEN j ELSE j + 1
        OBVIOUS
    <2>2. j \in 1..(Len(q) - 1) /\ k \in DOMAIN q \ {i}
        BY <1>2, <2>1
    <2>3. r[j] = q[k]
        BY <1>1, <2>1, <2>2
    <2>4. j = IF k < i THEN k ELSE k - 1
        BY <1>2, <2>1
    <2> QED BY <2>2, <2>3, <2>4
<1>4. \A k \in DOMAIN q \ {i} : \E j \in DOMAIN r : r[j] = q[k]
    <2> SUFFICES ASSUME NEW k \in DOMAIN q \ {i} PROVE \E j \in DOMAIN r : r[j] = q[k]
        OBVIOUS
    <2>1. CASE k < i
        <3>1. k \in DOMAIN r /\ r[k] = q[k]
            BY <1>1, <1>2, <2>1
        <3> QED BY <3>1
    <2>2. CASE ~(k < i)
        <3>1. k - 1 \in DOMAIN r /\ ~(k - 1 < i) /\ (k - 1) + 1 = k
            BY <1>2, <2>2
        <3> QED BY <1>1, <1>2, <3>1
    <2> QED BY <2>1, <2>2
<1>5. \A s : s # q[i] /\ Once(q, s) => Once(r, s)
    <2> SUFFICES ASSUME NEW s, s # q[i], Once(q, s) PROVE Once(r, s)
        OBVIOUS
    <2>1. PICK k \in DOMAIN q : q[k] = s /\ \A j \in DOMAIN q : q[j] = s => j = k
        BY DEF Once
    <2>2. PICK j \in DOMAIN r : r[j] = s
        BY <1>4, <2>1
    <2>3. \A m \in DOMAIN r : r[m] = s => m = IF k < i THEN k ELSE k - 1
        BY <1>3, <2>1
    <2> QED BY <2>2, <2>3 DEF Once
<1> QED BY <1>3, <1>5 DEF Once, Never, r

LEMMA AppendKeeps ==
    ASSUME NEW q \in Seq(Nat), NEW e \in Nat
    PROVE  /\ Append(q, e) \in Seq(Nat)
           /\ \A D : e \in D /\ (\A j \in DOMAIN q : q[j] \in D)
                       => \A j \in DOMAIN Append(q, e) : Append(q, e)[j] \in D
           /\ \A s : s # e /\ Once(q, s) => Once(Append(q, e), s)
           /\ \A s : s # e /\ Never(q, s) => Never(Append(q, e), s)
           /\ Never(q, e) => Once(Append(q, e), e)
<1> DEFINE r == Append(q, e)
<1>1. /\ r \in Seq(Nat) /\ Len(r) = Len(q) + 1 /\ r[Len(q) + 1] = e
      /\ \A j \in 1..Len(q) : r[j] = q[j]
    BY AppendProperties
<1>2. /\ DOMAIN q = 1..Len(q) /\ DOMAIN r = DOMAIN q \cup {Len(q) + 1}
      /\ Len(q) + 1 \notin DOMAIN q
    BY <1>1
<1> HIDE DEF r
<1> QED BY <1>1, <1>2 DEF Once, Never, r

---------------------------------------------------------------------------
(* The steps that leave alone who is given which session *)

Quiet(p) ==
    /\ DOMAIN session' = DOMAIN session
    /\ \A s \in DOMAIN session :
         /\ DOMAIN session'[s].agents = DOMAIN session[s].agents
         /\ session'[s].active =>
              /\ session[s].active /\ session'[s].listed
              /\ Once(queue, s) => Once(queue', s)
              /\ Never(queue, s) => Never(queue', s)
    /\ \A i \in DOMAIN queue' : queue'[i] \in DOMAIN session
    /\ \A q \in Stream \ {p} : stream'[q] = stream[q]
    /\ stream'[p].sess \in DOMAIN session \cup {None}
    /\ stream'[p].at \in InSession => stream'[p].sess # None
    /\ stream'[p].at # "join"
    /\ p \in AgentStream => stream'[p].sess = stream[p].sess /\ stream[p].at # "join"
    /\ Closing(p)' => ~session'[stream'[p].sess].active

LEMMA ClosingInSession ==
    ASSUME KnownInv, NEW p \in Stream, Closing(p)
    PROVE  stream[p].sess \in DOMAIN session
BY DEF KnownInv, Closing, InSession

LEMMA QuietStep ==
    ASSUME Inv, TypeInv', NEW p \in Stream, Quiet(p)
    PROVE  Inv'
<1>1. KnownInv'
    BY DEF Inv, KnownInv, Quiet
<1>2. \A q \in AgentStream, s \in DOMAIN session :
        (IsJoining(q, s)' <=> IsJoining(q, s)) /\ (IsAgent(q, s)' <=> IsAgent(q, s))
    BY DEF Quiet, IsJoining, IsAgent, Stream
<1>3. MembersInv'
    BY DEF Inv, MembersInv, Quiet, Stream
<1>4. ListedInv'
    <2>1. \A q \in Stream \ {p} : Closing(q)' => ~session'[stream'[q].sess].active
        BY ClosingInSession DEF Inv, ListedInv, Quiet, Closing
    <2> QED BY <2>1 DEF ListedInv, Quiet
<1>5. AttendedInv'
    <2> SUFFICES ASSUME NEW s \in DOMAIN session, session'[s].active
                 PROVE  Waiting(s)' \/ Handed(s)'
        BY DEF AttendedInv, Quiet
    <2>1. Waiting(s) \/ Handed(s)
        BY DEF Inv, AttendedInv, Quiet
    <2>2. Waiting(s) => Waiting(s)'
        BY <1>2 DEF Waiting, Quiet
    <2>3. Handed(s) => Handed(s)'
        BY <1>2 DEF Handed, Quiet
    <2> QED BY <2>1, <2>2, <2>3
<1> QED BY <1>1, <1>3, <1>4, <1>5 DEF Inv

---------------------------------------------------------------------------
(* Types *)

LEMMA InitTypeInv == Init => TypeInv
BY DEF Init, TypeInv, NoSession, None, StreamRec, InSession

LEMMA CrashTypeInv == Crash => TypeInv'
BY DEF Crash, TypeInv, NoSession, None, StreamRec, InSession

LEMMA OverType ==
    ASSUME TypeInv, NEW p \in Stream, Over(p)
    PROVE  stream' \in [Stream -> StreamRec]
BY DEF Over, TypeInv, NoSession, None, StreamRec, InSession

LEMMA AbandonedType ==
    ASSUME NEW p \in Stream, NEW channels \in Seq(Channel), NEW readers, Abandoned(p, channels, readers)
    PROVE  channel' \in Seq(Channel)
<1>1. channel' = [c \in 1..Len(channels) |->
                     IF channels[c].stream = p THEN [channels[c] EXCEPT !.holds = <<>>]
                     ELSE channels[c]]
    BY DEF Abandoned
<1>2. \A c \in 1..Len(channels) : channels[c] \in Channel
    OBVIOUS
<1>3. \A c \in 1..Len(channels) : [channels[c] EXCEPT !.holds = <<>>] \in Channel
    <2>1. <<>> \in Seq(Nat)
        OBVIOUS
    <2>2. \A x \in Channel, h \in Seq(Nat) : [x EXCEPT !.holds = h] \in Channel
        BY DEF Channel
    <2> QED BY <1>2, <2>1, <2>2
<1>4. channel' \in [1..Len(channels) -> Channel]
    BY <1>1, <1>2, <1>3
<1> QED BY <1>4

LEMMA MakeChannelType ==
    ASSUME TypeInv, NEW p \in Stream, NEW s \in Nat, MakeChannel(p, s)
    PROVE  channel' \in Seq(Channel)
<1>1. [stream |-> p, sess |-> s, holds |-> <<>>, closed |-> FALSE] \in Channel
    <2>1. <<>> \in Seq(Nat)
        OBVIOUS
    <2> QED BY <2>1 DEF Channel
<1> QED BY <1>1 DEF MakeChannel, TypeInv

LEMMA JoinsType ==
    ASSUME TypeInv, NEW p \in Stream, NEW s \in Nat, Joins(p, s)
    PROVE  stream' \in [Stream -> StreamRec]
<1>1. Len(channel) + 1 \in Nat
    BY DEF TypeInv
<1>2. stream[p] \in StreamRec /\ stream[p].joins + 1 \in Nat
    BY DEF TypeInv, StreamRec
<1>3. \A c, n \in Nat :
        [stream[p] EXCEPT !.at = "snapshot", !.sess = s, !.ch = c, !.joins = n] \in StreamRec
    BY <1>2 DEF StreamRec, InSession
<1>4. stream' = [stream EXCEPT ![p] = [stream[p] EXCEPT !.at = "snapshot", !.sess = s,
                                         !.ch = Len(channel) + 1, !.joins = stream[p].joins + 1]]
    BY DEF Joins, TypeInv
<1> QED BY <1>1, <1>2, <1>3, <1>4 DEF TypeInv

(* One field of a stream, of a session or of a channel changes. *)
LEMMA GotoType ==
    ASSUME TypeInv, NEW p \in Stream, NEW step \in InSession \cup {"recv", "over"}, Goto(p, step)
    PROVE  stream' \in [Stream -> StreamRec]
BY DEF Goto, TypeInv, StreamRec

LEMMA StreamType ==
    ASSUME TypeInv, NEW p \in Stream, NEW r \in StreamRec
    PROVE  [stream EXCEPT ![p] = r] \in [Stream -> StreamRec]
BY DEF TypeInv

LEMMA SessionExcept ==
    ASSUME TypeInv, NEW s \in DOMAIN session, NEW r \in SessionRec
    PROVE  LET changed == [session EXCEPT ![s] = r]
           IN  /\ changed \in Seq(SessionRec)
               /\ DOMAIN changed = DOMAIN session
               /\ \A t \in DOMAIN session : changed[t] = IF t = s THEN r ELSE session[t]
<1> DEFINE changed == [session EXCEPT ![s] = r]
<1>1. session \in [1..Len(session) -> SessionRec] /\ Len(session) \in Nat
    BY DEF TypeInv
<1>2. changed \in [1..Len(session) -> SessionRec]
    BY <1>1
<1>3. changed \in Seq(SessionRec)
    BY <1>1, <1>2
<1>4. \A t \in DOMAIN session : changed[t] = IF t = s THEN r ELSE session[t]
    BY <1>1
<1>5. DOMAIN changed = DOMAIN session
    OBVIOUS
<1> QED BY <1>3, <1>4, <1>5

LEMMA SessionIn ==
    ASSUME TypeInv, NEW s \in DOMAIN session
    PROVE  session[s] \in SessionRec /\ DOMAIN session[s].agents \subseteq AgentStream
<1>1. session[s] \in SessionRec
    BY DEF TypeInv
<1>2. session[s].agents \in AgentMap
    BY <1>1 DEF SessionRec
<1> QED BY <1>1, <1>2, AgentMapDomain

LEMMA ReadyAt ==
    ASSUME TypeInv, NEW p \in Stream, Ready(p) \/ Waits(p)
    PROVE  stream[p].at \in {"recv", "checked"}
BY DEF Ready, Waits, At

---------------------------------------------------------------------------
(* The steps of a stream *)

LEMMA CrashStep == Crash => Inv'
<1> SUFFICES ASSUME Crash PROVE Inv'
    OBVIOUS
<1>1. TypeInv'
    BY CrashTypeInv
<1>2. KnownInv' /\ MembersInv' /\ ListedInv' /\ AttendedInv'
    BY DEF Crash, KnownInv, MembersInv, ListedInv, AttendedInv, NoSession, None, InSession, Closing, Stream
<1> QED BY <1>1, <1>2 DEF Inv

(* The sessions and the queue stay as they are, or a session is closed. *)
Kept ==
    /\ DOMAIN session' = DOMAIN session
    /\ \A s \in DOMAIN session :
         /\ DOMAIN session'[s].agents = DOMAIN session[s].agents
         /\ session'[s].active => session[s].active /\ session'[s].listed
    /\ session' \in Seq(SessionRec)
    /\ channel' \in Seq(Channel)

LEMMA SameKept ==
    ASSUME Inv, UNCHANGED session, channel' \in Seq(Channel)
    PROVE  Kept
BY DEF Kept, Inv, TypeInv, ListedInv

EndsSession(r) == 
    \/ r.at = "unlist"
    \/ r.at \in {"publish", "sending"} /\ r.entry = End

LEMMA StaysStep ==
    ASSUME Inv, Kept, UNCHANGED queue,
           NEW p \in Stream, NEW r \in StreamRec, stream' = [stream EXCEPT ![p] = r],
           stream[p].at # "join", r.at # "join", r.sess = stream[p].sess,
           r.at \in InSession => r.sess # None,
           EndsSession(r) => ~session'[r.sess].active
    PROVE  Inv'
<1>1. stream' \in [Stream -> StreamRec] /\ stream'[p] = r
    BY DEF Inv, TypeInv
<1>2. \A q \in Stream \ {p} : stream'[q] = stream[q]
    BY DEF Inv, TypeInv
<1>3. TypeInv'
    BY <1>1 DEF Inv, TypeInv, Kept
<1>4. Closing(p)' <=> EndsSession(r)
    BY <1>1 DEF Closing, EndsSession
<1>5. Quiet(p)
    BY <1>1, <1>2, <1>4 DEF Inv, KnownInv, Quiet, Kept
<1> QED BY <1>3, <1>5, QuietStep

(* The handler of a stream that is in no session returns. *)
LEMMA OverStep ==
    ASSUME Inv, NEW p \in Stream, stream[p].sess = None, stream[p].at # "join", Over(p),
           Abandoned(p, channel, reader), UNCHANGED <<session, queue>>
    PROVE  Inv'
<1> DEFINE r == [NoSession EXCEPT !.at = "over"]
<1>1. r \in StreamRec /\ r.at = "over" /\ r.sess = None
    BY DEF NoSession, StreamRec, InSession, None
<1>2. Kept
    BY AbandonedType, SameKept DEF Inv, TypeInv
<1>3. stream' = [stream EXCEPT ![p] = r]
    BY DEF Over
<1> HIDE DEF r
<1> QED BY <1>1, <1>2, <1>3, StaysStep DEF InSession, EndsSession

LEMMA checkSessionStep ==
    ASSUME Inv, NEW p \in Stream, checkSession(p)
    PROVE  Inv'
<1>1. PICK step \in {"checked", "cleanup"} : stream' = [stream EXCEPT ![p] = [stream[p] EXCEPT !.at = step]]
    BY DEF checkSession, Goto
<1> DEFINE r == [stream[p] EXCEPT !.at = step]
<1>2. r \in StreamRec /\ r.at = step /\ r.sess = stream[p].sess
    BY DEF Inv, TypeInv, StreamRec, InSession
<1>3. stream[p].sess # None /\ stream[p].at = "recv"
    BY DEF checkSession, Waits, At
<1>4. Kept
    BY SameKept DEF Inv, TypeInv, checkSession
<1> HIDE DEF r
<1> QED BY <1>1, <1>2, <1>3, <1>4, StaysStep DEF r, EndsSession, checkSession

LEMMA ReturnStep ==
    ASSUME Inv, NEW p \in Stream, Return(p)
    PROVE  Inv'
<1> DEFINE r == [stream[p] EXCEPT !.returns = TRUE, !.at = "cleanup"]
<1>1. stream' = [stream EXCEPT ![p] = r]
    BY DEF Inv, TypeInv, Return
<1>2. r \in StreamRec /\ r.at = "cleanup" /\ r.sess = stream[p].sess
    BY DEF Inv, TypeInv, StreamRec, InSession
<1>3. stream[p].sess # None /\ stream[p].at # "join"
    BY ReadyAt DEF Return, Inv
<1>4. Kept
    BY SameKept DEF Inv, TypeInv, Return
<1> HIDE DEF r
<1> QED BY <1>1, <1>2, <1>3, <1>4, StaysStep DEF EndsSession, Return

LEMMA SnapshotStep ==
    ASSUME Inv, NEW p \in Stream, Snapshot(p)
    PROVE  Inv'
<1>1. stream[p].sess # None /\ stream[p].at = "snapshot"
    BY DEF Snapshot, At, Inv, KnownInv, InSession
<1>2. Kept /\ UNCHANGED queue
    BY SameKept DEF Inv, TypeInv, Snapshot
<1>3. PICK r \in {[stream[p] EXCEPT !.at = "recv"],
                  [stream[p] EXCEPT !.at = "cleanup", !.returns = TRUE]} :
        stream' = [stream EXCEPT ![p] = r]
    BY DEF Inv, TypeInv, Snapshot, Goto
<1>4. r \in StreamRec /\ r.at \in {"recv", "cleanup"} /\ r.sess = stream[p].sess
    BY DEF Inv, TypeInv, StreamRec, InSession
<1> QED BY <1>1, <1>2, <1>3, <1>4, StaysStep DEF EndsSession

LEMMA MessageStep ==
    ASSUME Inv, NEW p \in Stream, Message(p)
    PROVE  Inv'
<1>1. /\ stream[p].at # "join" /\ stream[p].sess # None /\ stream[p].sess \in DOMAIN session
      /\ UNCHANGED <<queue, channel>> /\ channel' \in Seq(Channel) /\ stream[p] \in StreamRec
    BY ReadyAt DEF Message, Inv, TypeInv, KnownInv
<1>2. CASE UNCHANGED session /\ stream' = [stream EXCEPT ![p].at = "cleanup", ![p].returns = TRUE]
    <2> DEFINE r == [stream[p] EXCEPT !.at = "cleanup", !.returns = TRUE]
    <2>1. stream' = [stream EXCEPT ![p] = r]
        BY <1>2 DEF Inv, TypeInv
    <2>2. r \in StreamRec /\ r.at = "cleanup" /\ r.sess = stream[p].sess
        BY <1>1 DEF StreamRec, InSession
    <2>3. Kept
        BY <1>1, <1>2, SameKept
    <2> HIDE DEF r
    <2> QED BY <1>1, <2>1, <2>2, <2>3, StaysStep DEF EndsSession
<1>3. CASE /\ session' = [session EXCEPT ![stream[p].sess].history = Append(@, p)]
           /\ stream' = [stream EXCEPT ![p].at = "publish", ![p].entry = Len(Sess(p).history) + 1]
    <2> DEFINE n == Len(Sess(p).history) + 1
               r == [stream[p] EXCEPT !.at = "publish", !.entry = n]
               s == stream[p].sess
               h == Append(session[s].history, p)
               x == [session[s] EXCEPT !.history = h]
    <2>1. session[s] \in SessionRec
        BY <1>1, SessionIn DEF Inv
    <2>2. h \in Seq(Stream) /\ n \in Nat /\ n # End
        BY <2>1 DEF SessionRec, Sess, End
    <2>3. stream' = [stream EXCEPT ![p] = r]
        BY <1>3 DEF Inv, TypeInv
    <2>4. session' = [session EXCEPT ![s] = x]
        BY <1>1, <1>3
    <2> HIDE DEF n, h
    <2>5. r \in StreamRec /\ r.at = "publish" /\ r.entry = n /\ r.sess = s
        BY <1>1, <2>2 DEF StreamRec, InSession
    <2>6. /\ x \in SessionRec /\ x.agents = session[s].agents
          /\ x.active = session[s].active /\ x.listed = session[s].listed
        BY <2>1, <2>2 DEF SessionRec
    <2> HIDE DEF r, x, s
    <2>7. Kept
        BY <1>1, <2>4, <2>6, SessionExcept DEF Inv, ListedInv, Kept, s
    <2> QED BY <1>1, <2>2, <2>3, <2>5, <2>7, StaysStep DEF EndsSession, s
<1> QED BY <1>2, <1>3 DEF Message

LEMMA closeSessionStep ==
    ASSUME Inv, NEW p \in Stream, closeSession(p)
    PROVE  Inv'
<1>1. /\ stream[p].at # "join" /\ stream[p].sess # None /\ stream[p].sess \in DOMAIN session
      /\ UNCHANGED <<queue, channel>> /\ channel' \in Seq(Channel) /\ stream[p] \in StreamRec
    BY ReadyAt DEF closeSession, Inv, TypeInv, KnownInv
<1> DEFINE s == stream[p].sess
           x == [session[s] EXCEPT !.active = FALSE]
<1>2. session[s] \in SessionRec
    BY <1>1, SessionIn DEF Inv
<1>3. session' = [session EXCEPT ![s] = x]
    BY <1>1 DEF closeSession
<1>4. /\ x \in SessionRec /\ x.agents = session[s].agents /\ ~x.active
      /\ x.listed = session[s].listed
    BY <1>2 DEF SessionRec
<1> DEFINE told == [stream[p] EXCEPT !.at = "publish", !.entry = End]
           left == [stream[p] EXCEPT !.at = "cleanup"]
<1>5. PICK r \in {told, left} : stream' = [stream EXCEPT ![p] = r]
    BY DEF closeSession, Goto, Inv, TypeInv
<1>6. r \in StreamRec /\ r.at \in {"publish", "cleanup"} /\ r.sess = s
    <2>1. CASE r = told
        BY <1>1, <2>1 DEF StreamRec, InSession, End
    <2>2. CASE r = left
        BY <1>1, <2>2 DEF StreamRec, InSession
    <2> QED BY <1>5, <2>1, <2>2
<1> HIDE DEF x, s, told, left
<1>7. Kept
    BY <1>1, <1>3, <1>4, SessionExcept DEF Inv, ListedInv, Kept, s
<1>8. ~session'[s].active
    <2>1. s \in DOMAIN session /\ TypeInv
        BY <1>1 DEF Inv, s
    <2> QED BY <1>3, <1>4, <2>1, SessionExcept
<1> QED BY <1>1, <1>5, <1>6, <1>7, <1>8, StaysStep DEF s

(* Whom p is yet to send its entry. *)
LEMMA SendToStep ==
    ASSUME Inv, UNCHANGED <<session, queue>>, channel' \in Seq(Channel), NEW p \in Stream,
           stream[p].at \in {"publish", "sending"}, NEW rest \in SUBSET Nat, SendTo(p, rest)
    PROVE  Inv'
<1>1. /\ stream[p].sess # None /\ stream[p] \in StreamRec
      /\ stream[p].entry = End => ~session[stream[p].sess].active
    BY DEF Inv, TypeInv, KnownInv, ListedInv, InSession, Closing
<1> DEFINE more == [stream[p] EXCEPT !.at = "sending", !.to = rest]
           last == [stream[p] EXCEPT !.to = {}, !.entry = None,
                                     !.at = IF stream[p].entry = End THEN "unlist" ELSE "recv"]
<1>2. PICK r \in {more, last} : stream' = [stream EXCEPT ![p] = r]
    BY DEF SendTo, Inv, TypeInv
<1>3. /\ r \in StreamRec /\ r.at \in {"sending", "unlist", "recv"} /\ r.sess = stream[p].sess
      /\ r.at = "sending" => r.entry = stream[p].entry
      /\ r.at = "unlist" => stream[p].entry = End
    <2>1. CASE r = more
        BY <1>1, <2>1 DEF StreamRec, InSession
    <2>2. CASE r = last
        BY <1>1, <2>2 DEF StreamRec, InSession, None
    <2> QED BY <1>2, <2>1, <2>2
<1>4. Kept
    BY SameKept
<1> QED BY <1>1, <1>2, <1>3, <1>4, StaysStep DEF EndsSession

LEMMA PublishStep ==
    ASSUME Inv, NEW p \in Stream, Publish(p)
    PROVE  Inv'
<1>1. stream[p].sess \in DOMAIN session /\ stream[p].at = "publish"
    BY DEF Publish, At, Inv, KnownInv, InSession
<1>2. Sess(p).agents \in AgentMap /\ Sess(p).cust \in Nat
    BY <1>1, SessionIn DEF Inv, Sess, SessionRec
<1>3. Recipients(p) \in SUBSET Nat
    <2>1. \A a \in DOMAIN Sess(p).agents : Sess(p).agents[a] \in Nat
        BY <1>2 DEF AgentMap
    <2> QED BY <1>2, <2>1 DEF Recipients, Range
<1>4. UNCHANGED <<session, queue>> /\ channel' \in Seq(Channel)
    BY DEF Publish, Inv, TypeInv
<1> QED BY <1>1, <1>3, <1>4, SendToStep DEF Publish

LEMMA HoldsType ==
    ASSUME NEW channels \in Seq(Channel), NEW c, NEW h \in Seq(Nat)
    PROVE  [channels EXCEPT ![c].holds = h] \in Seq(Channel)
<1>1. channels \in [1..Len(channels) -> Channel] /\ Len(channels) \in Nat
    OBVIOUS
<1>2. \A x \in Channel : [x EXCEPT !.holds = h] \in Channel
    BY DEF Channel
<1>3. [channels EXCEPT ![c].holds = h] \in [1..Len(channels) -> Channel]
    BY <1>1, <1>2
<1> QED BY <1>1, <1>3

LEMMA ClosedType ==
    ASSUME NEW channels \in Seq(Channel), NEW c
    PROVE  [channels EXCEPT ![c].closed = TRUE] \in Seq(Channel)
<1>1. channels \in [1..Len(channels) -> Channel] /\ Len(channels) \in Nat
    OBVIOUS
<1>2. \A x \in Channel : [x EXCEPT !.closed = TRUE] \in Channel
    BY DEF Channel
<1>3. [channels EXCEPT ![c].closed = TRUE] \in [1..Len(channels) -> Channel]
    BY <1>1, <1>2
<1> QED BY <1>1, <1>3

LEMMA SendStep ==
    ASSUME Inv, NEW p \in Stream, Send(p)
    PROVE  Inv'
<1>1. CASE Crash
    BY <1>1, CrashStep
<1>2. CASE ~Crash
    <2>1. PICK c \in stream[p].to :
            /\ \/ channel' = [channel EXCEPT ![c].holds = <<stream[p].entry>>]
               \/ UNCHANGED channel
            /\ SendTo(p, stream[p].to \ {c})
            /\ UNCHANGED <<session, queue>>
        BY <1>2 DEF Send
    <2>2. stream[p].at = "sending" /\ <<stream[p].entry>> \in Seq(Nat) /\ stream[p].to \ {c} \in SUBSET Nat
        BY DEF Send, At, Inv, TypeInv, StreamRec
    <2>3. channel' \in Seq(Channel)
        <3> DEFINE h == <<stream[p].entry>>
        <3>1. channel \in Seq(Channel) /\ h \in Seq(Nat)
            BY <2>2 DEF Inv, TypeInv
        <3>2. channel' = [channel EXCEPT ![c].holds = h] \/ channel' = channel
            BY <2>1
        <3> HIDE DEF h
        <3> QED BY <3>1, <3>2, HoldsType
    <2> QED BY <2>1, <2>2, <2>3, SendToStep
<1> QED BY <1>1, <1>2

LEMMA UnlistStep ==
    ASSUME Inv, NEW p \in Stream, Unlist(p)
    PROVE  Inv'
<1> DEFINE s == stream[p].sess
           x == [session[s] EXCEPT !.listed = FALSE]
           r == [stream[p] EXCEPT !.at = "cleanup"]
<1>1. /\ stream[p].at = "unlist" /\ s \in DOMAIN session /\ s # None /\ ~session[s].active
      /\ stream[p] \in StreamRec /\ UNCHANGED channel
    BY ClosingInSession DEF Unlist, At, Inv, TypeInv, KnownInv, ListedInv, InSession, Closing
<1>2. session[s] \in SessionRec
    BY <1>1, SessionIn DEF Inv
<1>3. session' = [session EXCEPT ![s] = x]
    BY <1>1 DEF Unlist
<1>4. x \in SessionRec /\ x.agents = session[s].agents /\ x.active = session[s].active
    BY <1>2 DEF SessionRec
<1>5. stream' = [stream EXCEPT ![p] = r]
    BY DEF Unlist, Goto
<1>6. r \in StreamRec /\ r.at = "cleanup" /\ r.sess = s
    BY <1>1 DEF StreamRec, InSession
<1>7. /\ queue' \in Seq(Nat) /\ \A i \in DOMAIN queue' : queue'[i] \in DOMAIN session
      /\ \A t \in DOMAIN session \ {s} :
           (Once(queue, t) => Once(queue', t)) /\ (Never(queue, t) => Never(queue', t))
    <2>1. CASE UNCHANGED queue
        BY <2>1 DEF Inv, TypeInv, KnownInv
    <2>2. CASE \E i \in DOMAIN queue : queue[i] = s /\ queue' = RemoveAt(queue, i)
        <3>1. PICK i \in DOMAIN queue : queue[i] = s /\ queue' = RemoveAt(queue, i)
            BY <2>2
        <3>2. queue \in Seq(Nat) /\ \A j \in DOMAIN queue : queue[j] \in DOMAIN session
            BY DEF Inv, TypeInv, KnownInv
        <3>3. queue' \in Seq(Nat)
            BY <3>1, <3>2, RemoveAtProperties
        <3> HIDE DEF s
        <3> QED BY <3>1, <3>2, <3>3, RemoveAtKeeps
    <2> QED BY <2>1, <2>2 DEF Unlist
<1> HIDE DEF s, x, r
<1>8. /\ session' \in Seq(SessionRec) /\ DOMAIN session' = DOMAIN session
      /\ \A t \in DOMAIN session : session'[t] = IF t = s THEN x ELSE session[t]
    BY <1>1, <1>3, <1>4, SessionExcept DEF Inv
<1>9. stream' \in [Stream -> StreamRec] /\ \A q \in Stream : stream'[q] = IF q = p THEN r ELSE stream[q]
    BY <1>5, <1>6 DEF Inv, TypeInv
<1>10. TypeInv'
    BY <1>1, <1>7, <1>8, <1>9 DEF TypeInv, Inv
<1>11. Quiet(p)
    BY <1>1, <1>4, <1>6, <1>7, <1>8, <1>9 DEF Quiet, Inv, KnownInv, ListedInv, Closing, s
<1> QED BY <1>10, <1>11, QuietStep

(* What p does when it has a channel for session s. *)
LEMMA JoinsProperties ==
    ASSUME TypeInv, NEW p \in Stream, NEW s \in Nat, Joins(p, s), MakeChannel(p, s)
    PROVE  /\ stream' \in [Stream -> StreamRec] /\ channel' \in Seq(Channel)
           /\ \A q \in Stream \ {p} : stream'[q] = stream[q]
           /\ stream'[p].at = "snapshot" /\ stream'[p].sess = s
<1>1. stream' \in [Stream -> StreamRec] /\ channel' \in Seq(Channel)
    BY JoinsType, MakeChannelType
<1> QED BY <1>1 DEF Joins, TypeInv, StreamRec

LEMMA resumeSessionStep ==
    ASSUME Inv, NEW p \in Stream, resumeSession(p)
    PROVE  Inv'
<1>1. /\ stream[p].at # "join" /\ stream[p].sess = None /\ p \notin AgentStream
      /\ session \in Seq(SessionRec)
    BY ReadyAt, StreamAssumption DEF resumeSession, Inv, TypeInv
<1>2. CASE Crash
    BY <1>2, CrashStep
<1>3. CASE Over(p) /\ Abandoned(p, channel, reader) /\ UNCHANGED <<session, queue>>
    BY <1>1, <1>3, OverStep
<1>4. ASSUME NEW s \in DOMAIN session, session' = [session EXCEPT ![s].cust = Len(channel) + 1],
             MakeChannel(p, s), Joins(p, s), UNCHANGED queue
      PROVE  Inv'
    <2>1. s \in Nat /\ s # None /\ session[s] \in SessionRec /\ Len(channel) + 1 \in Nat
        BY <1>1, SessionIn DEF Inv, TypeInv, None
    <2> DEFINE x == [session[s] EXCEPT !.cust = Len(channel) + 1]
    <2>2. /\ x \in SessionRec /\ x.agents = session[s].agents
          /\ x.active = session[s].active /\ x.listed = session[s].listed
        BY <2>1 DEF SessionRec
    <2>3. session' = [session EXCEPT ![s] = x]
        BY <1>4
    <2> HIDE DEF x
    <2>4. /\ session' \in Seq(SessionRec) /\ DOMAIN session' = DOMAIN session
          /\ \A t \in DOMAIN session : session'[t] = IF t = s THEN x ELSE session[t]
        BY <2>2, <2>3, SessionExcept DEF Inv
    <2>5. /\ stream' \in [Stream -> StreamRec] /\ channel' \in Seq(Channel)
          /\ \A q \in Stream \ {p} : stream'[q] = stream[q]
          /\ stream'[p].at = "snapshot" /\ stream'[p].sess = s
        BY <1>4, <2>1, JoinsProperties DEF Inv
    <2>6. TypeInv'
        BY <1>4, <2>4, <2>5 DEF Inv, TypeInv
    <2>7. Quiet(p)
        BY <1>1, <1>4, <2>1, <2>2, <2>4, <2>5 DEF Quiet, Inv, KnownInv, ListedInv, Closing
    <2> QED BY <2>6, <2>7, QuietStep
<1> QED BY <1>2, <1>3, <1>4 DEF resumeSession

(* The session is new to the queue and to every agent. *)
LEMMA newSessionStep ==
    ASSUME Inv, NEW p \in Stream, newSession(p)
    PROVE  Inv'
<1>0. PICK s : s = Len(session) + 1
    OBVIOUS
<1> DEFINE x == [active |-> TRUE, listed |-> TRUE, history |-> <<>>,
                 cust |-> Len(channel) + 1, agents |-> [a \in {} |-> None]]
<1>1. /\ stream[p].sess = None /\ p \notin AgentStream
      /\ session \in Seq(SessionRec) /\ queue \in Seq(Nat) /\ stream \in [Stream -> StreamRec]
    BY StreamAssumption DEF newSession, Inv, TypeInv
<1>2. /\ s \in Nat /\ s # None /\ s \notin DOMAIN session /\ Len(channel) + 1 \in Nat
      /\ 1..s = DOMAIN session \cup {s}
    BY <1>0, <1>1 DEF Inv, TypeInv, None
<1>3. x \in SessionRec
    <2>1. [a \in {} |-> None] \in [{} -> Nat]
        OBVIOUS
    <2>2. [a \in {} |-> None] \in AgentMap
        BY <2>1, AgentMapMade
    <2>3. <<>> \in Seq(Stream)
        OBVIOUS
    <2> QED BY <1>2, <2>2, <2>3 DEF SessionRec
<1>4. x.active /\ x.listed /\ DOMAIN x.agents = {}
    OBVIOUS
<1>5. session' = Append(session, x) /\ queue' = Append(queue, s) /\ MakeChannel(p, s) /\ Joins(p, s)
    BY <1>0 DEF newSession
<1> HIDE DEF x
<1>6. /\ session' \in Seq(SessionRec) /\ DOMAIN session' = DOMAIN session \cup {s} /\ session'[s] = x
      /\ \A t \in DOMAIN session : session'[t] = session[t]
    BY <1>0, <1>1, <1>2, <1>3, <1>5
<1>7. /\ stream' \in [Stream -> StreamRec] /\ channel' \in Seq(Channel)
      /\ \A q \in Stream \ {p} : stream'[q] = stream[q]
      /\ stream'[p].at = "snapshot" /\ stream'[p].sess = s
    BY <1>2, <1>5, JoinsProperties DEF Inv
<1>8. \A q \in Stream : stream[q].sess # s
    BY <1>2 DEF Inv, KnownInv
<1>9. TypeInv'
    BY <1>1, <1>2, <1>5, <1>6, <1>7, AppendKeeps DEF TypeInv
<1>10. KnownInv'
    <2>1. \A i \in DOMAIN queue' : queue'[i] \in DOMAIN session'
        BY <1>1, <1>2, <1>5, <1>6, AppendKeeps DEF Inv, KnownInv
    <2> QED BY <1>2, <1>6, <1>7, <2>1 DEF Inv, KnownInv
<1>11. MembersInv'
    <2>1. \A q \in AgentStream, t \in DOMAIN session :
            q \in DOMAIN session'[t].agents <=> stream'[q].sess = t /\ stream'[q].at # "join"
        <3> SUFFICES ASSUME NEW q \in AgentStream, NEW t \in DOMAIN session
                     PROVE  q \in DOMAIN session'[t].agents
                              <=> stream'[q].sess = t /\ stream'[q].at # "join"
            OBVIOUS
        <3>1. stream'[q] = stream[q]
            BY <1>1, <1>7 DEF Stream
        <3>2. session'[t] = session[t]
            BY <1>6
        <3> QED BY <3>1, <3>2 DEF Inv, MembersInv
    <2>2. \A q \in AgentStream : q \notin DOMAIN session'[s].agents /\ stream'[q].sess # s
        BY <1>1, <1>4, <1>6, <1>7, <1>8 DEF Stream
    <2> QED BY <1>6, <2>1, <2>2 DEF MembersInv
<1>12. ListedInv'
    <2>1. ~Closing(p)'
        BY <1>7 DEF Closing
    <2>2. \A q \in Stream \ {p} : Closing(q)' => ~session'[stream'[q].sess].active
        BY <1>6, <1>7, ClosingInSession DEF Inv, ListedInv, Closing
    <2> QED BY <1>4, <1>6, <2>1, <2>2 DEF Inv, ListedInv
<1>13. AttendedInv'
    <2>1. \A t \in DOMAIN session, q \in AgentStream :
            (IsJoining(q, t)' <=> IsJoining(q, t)) /\ (IsAgent(q, t)' <=> IsAgent(q, t))
        BY <1>1, <1>6, <1>7 DEF IsJoining, IsAgent, Stream
    <2>2. \A t \in DOMAIN session :
            (Once(queue, t) => Once(queue', t)) /\ (Never(queue, t) => Never(queue', t))
        BY <1>1, <1>2, <1>5, AppendKeeps
    <2>3. \A t \in DOMAIN session : (Waiting(t) => Waiting(t)') /\ (Handed(t) => Handed(t)')
        BY <2>1, <2>2 DEF Waiting, Handed
    <2>4. Waiting(s)'
        <3>1. Never(queue, s)
            BY <1>2 DEF Inv, KnownInv, Never
        <3>2. Once(queue', s)
            BY <1>1, <1>2, <1>5, <3>1, AppendKeeps
        <3>3. \A q \in AgentStream : ~IsJoining(q, s)' /\ ~IsAgent(q, s)'
            BY <1>1, <1>4, <1>6, <1>7, <1>8 DEF IsJoining, IsAgent, Stream
        <3> QED BY <3>2, <3>3 DEF Waiting
    <2> QED BY <1>6, <2>3, <2>4 DEF Inv, AttendedInv
<1> QED BY <1>9, <1>10, <1>11, <1>12, <1>13 DEF Inv

(* Of an open session that is in the queue, no one is an agent, and the one  *)
(* who takes it is alone to join it.                                         *)
LEMMA acceptSessionStep ==
    ASSUME Inv, NEW p \in Stream, acceptSession(p)
    PROVE  Inv'
<1>1. /\ p \in AgentStream /\ stream[p].at # "join" /\ stream[p].sess = None
      /\ queue \in Seq(Nat) /\ stream \in [Stream -> StreamRec] /\ UNCHANGED session
    BY ReadyAt DEF acceptSession, Inv, TypeInv
<1>2. CASE Over(p) /\ Abandoned(p, channel, reader) /\ UNCHANGED queue
    BY <1>1, <1>2, OverStep
<1>3. ASSUME NEW i \in DOMAIN queue, queue' = RemoveAt(queue, i)
      PROVE  /\ queue' \in Seq(Nat) /\ \A j \in DOMAIN queue' : queue'[j] \in DOMAIN session
             /\ queue[i] \in DOMAIN session /\ queue[i] \in Nat
             /\ \A t \in DOMAIN session \ {queue[i]} :
                  (Once(queue, t) => Once(queue', t)) /\ (Never(queue, t) => Never(queue', t))
             /\ Once(queue, queue[i]) => Never(queue', queue[i])
    <2>1. queue' \in Seq(Nat) /\ queue[i] \in Nat
        BY <1>1, <1>3, RemoveAtProperties
    <2>2. \A j \in DOMAIN queue : queue[j] \in DOMAIN session
        BY DEF Inv, KnownInv
    <2> QED BY <1>1, <1>3, <2>1, <2>2, RemoveAtKeeps
<1>4. ASSUME NEW i \in DOMAIN queue, queue' = RemoveAt(queue, i), ~session[queue[i]].listed,
             Over(p), Abandoned(p, channel, reader)
      PROVE  Inv'
    <2>1. stream' \in [Stream -> StreamRec] /\ channel' \in Seq(Channel)
        BY <1>4, OverType, AbandonedType DEF Inv, TypeInv
    <2>2. stream'[p].at = "over" /\ stream'[p].sess = None
        BY <1>1, <1>4 DEF Over, NoSession
    <2>3. \A q \in Stream \ {p} : stream'[q] = stream[q]
        BY <1>1, <1>4 DEF Over
    <2>4. TypeInv'
        BY <1>1, <1>3, <1>4, <2>1 DEF Inv, TypeInv
    <2>5. ~session[queue[i]].active /\ \A t \in DOMAIN session : session[t].active => session[t].listed
        BY <1>3, <1>4 DEF Inv, ListedInv
    <2>6. Quiet(p)
        BY <1>1, <1>3, <1>4, <2>2, <2>3, <2>5 DEF Quiet, InSession, Closing
    <2> QED BY <2>4, <2>6, QuietStep
<1>5. ASSUME NEW i \in DOMAIN queue, queue' = RemoveAt(queue, i), UNCHANGED channel,
             stream' = [stream EXCEPT ![p].at = "join", ![p].sess = queue[i]]
      PROVE  Inv'
    <2>0. PICK s : s = queue[i]
        OBVIOUS
    <2> DEFINE r == [stream[p] EXCEPT !.at = "join", !.sess = s]
    <2>1. r \in StreamRec /\ r.at = "join" /\ r.sess = s
        BY <1>1, <1>3, <1>5, <2>0 DEF StreamRec, InSession
    <2>2. stream' = [stream EXCEPT ![p] = r]
        BY <1>1, <1>5, <2>0
    <2> HIDE DEF r
    <2>3. /\ stream' \in [Stream -> StreamRec] /\ stream'[p].at = "join" /\ stream'[p].sess = s
          /\ \A q \in Stream \ {p} : stream'[q] = stream[q]
        BY <1>1, <2>1, <2>2
    <2>4. /\ queue' \in Seq(Nat) /\ \A j \in DOMAIN queue' : queue'[j] \in DOMAIN session
          /\ s \in DOMAIN session /\ s # None
          /\ \A t \in DOMAIN session \ {s} :
               (Once(queue, t) => Once(queue', t)) /\ (Never(queue, t) => Never(queue', t))
          /\ Once(queue, s) => Never(queue', s)
        BY <1>3, <1>5, <2>0 DEF Inv, TypeInv, None
    <2>5. TypeInv'
        BY <1>1, <1>5, <2>3, <2>4 DEF Inv, TypeInv
    <2>6. KnownInv'
        BY <1>1, <2>3, <2>4 DEF Inv, KnownInv
    <2>7. \A q \in AgentStream, t \in DOMAIN session :
            /\ IsAgent(q, t)' <=> IsAgent(q, t)
            /\ q # p \/ t # s => (IsJoining(q, t)' <=> IsJoining(q, t))
        BY <1>1, <2>3 DEF IsJoining, IsAgent, Stream
    <2>8. \A t \in DOMAIN session : ~IsAgent(p, t) /\ ~IsJoining(p, t)
        BY <1>1 DEF Inv, MembersInv, IsJoining, IsAgent, None, TypeInv
    <2>9. MembersInv'
        <3>1. \A t \in DOMAIN session : p \notin DOMAIN session[t].agents
            BY <2>8 DEF IsAgent
        <3> QED BY <1>1, <2>3, <3>1 DEF Inv, MembersInv, Stream
    <2>10. ListedInv'
        <3>1. ~Closing(p)'
            BY <2>3 DEF Closing
        <3> QED BY <1>1, <2>3, <3>1 DEF Inv, ListedInv, Closing
    <2>11. AttendedInv'
        <3> SUFFICES ASSUME NEW t \in DOMAIN session, session[t].active
                     PROVE  Waiting(t)' \/ Handed(t)'
            BY <1>1 DEF AttendedInv
        <3>1. Waiting(t) \/ Handed(t)
            BY DEF Inv, AttendedInv
        <3>2. CASE t # s
            <4>1. Waiting(t) => Waiting(t)'
                BY <2>4, <2>7, <3>2 DEF Waiting
            <4>2. Handed(t) => Handed(t)'
                BY <2>4, <2>7, <3>2 DEF Handed
            <4> QED BY <3>1, <4>1, <4>2
        <3>3. CASE t = s
            <4>1. ~Handed(s)
                BY <1>5, <2>0 DEF Handed, Never
            <4>2. Waiting(s)
                BY <3>1, <3>3, <4>1
            <4>3. Never(queue', s)
                BY <2>4, <4>2 DEF Waiting
            <4>4. IsJoining(p, s)'
                BY <1>1, <2>3 DEF IsJoining
            <4>5. \A q \in AgentStream \ {p} : ~IsJoining(q, s)' /\ ~IsAgent(q, s)'
                BY <2>4, <2>7, <4>2 DEF Waiting
            <4>6. Handed(s)'
                BY <1>1, <4>3, <4>4, <4>5 DEF Handed
            <4> QED BY <3>3, <4>6
        <3> QED BY <3>2, <3>3
    <2> QED BY <2>5, <2>6, <2>9, <2>10, <2>11 DEF Inv
<1> QED BY <1>2, <1>4, <1>5 DEF acceptSession

LEMMA JoinSessionStep ==
    ASSUME Inv, NEW p \in Stream, JoinSession(p)
    PROVE  Inv'
<1>0. PICK s : s = stream[p].sess
    OBVIOUS
<1>1. /\ stream[p].at = "join" /\ s \in DOMAIN session /\ s # None /\ s \in Nat
      /\ session \in Seq(SessionRec) /\ stream \in [Stream -> StreamRec]
      /\ Len(channel) + 1 \in Nat /\ UNCHANGED queue
    BY <1>0 DEF JoinSession, At, Inv, TypeInv, KnownInv, InSession, None
<1>2. session[s] \in SessionRec /\ session[s].agents \in AgentMap
      /\ DOMAIN session[s].agents \subseteq AgentStream
    BY <1>1, SessionIn DEF Inv, SessionRec
<1> DEFINE f == [a \in DOMAIN session[s].agents \cup {p} |->
                   IF a = p THEN Len(channel) + 1 ELSE session[s].agents[a]]
           x == [session[s] EXCEPT !.agents = f]
<1>3. p \in AgentStream
    BY <1>1 DEF Inv, KnownInv
<1>4. f \in AgentMap /\ DOMAIN f = DOMAIN session[s].agents \cup {p}
    <2>1. \A a \in DOMAIN session[s].agents : session[s].agents[a] \in Nat
        BY <1>2 DEF AgentMap
    <2>2. f \in [DOMAIN session[s].agents \cup {p} -> Nat]
        BY <1>1, <2>1
    <2>3. DOMAIN session[s].agents \cup {p} \in SUBSET AgentStream
        BY <1>2, <1>3
    <2> HIDE DEF f
    <2> QED BY <2>2, <2>3, AgentMapMade
<1>5. session' = [session EXCEPT ![s] = x]
    BY <1>0, <1>1 DEF JoinSession
<1> HIDE DEF f
<1>6. /\ x \in SessionRec /\ x.agents = f
      /\ x.active = session[s].active /\ x.listed = session[s].listed
    BY <1>2, <1>4 DEF SessionRec
<1> HIDE DEF x
<1>7. /\ session' \in Seq(SessionRec) /\ DOMAIN session' = DOMAIN session
      /\ \A t \in DOMAIN session : session'[t] = IF t = s THEN x ELSE session[t]
    BY <1>1, <1>5, <1>6, SessionExcept DEF Inv
<1>8. /\ stream' \in [Stream -> StreamRec] /\ channel' \in Seq(Channel)
      /\ \A q \in Stream \ {p} : stream'[q] = stream[q]
      /\ stream'[p].at = "snapshot" /\ stream'[p].sess = s
    BY <1>0, <1>1, JoinsProperties DEF Inv, JoinSession
<1>9. TypeInv'
    BY <1>1, <1>7, <1>8 DEF Inv, TypeInv
<1>10. KnownInv'
    BY <1>1, <1>7, <1>8 DEF Inv, KnownInv
<1>11. \A t \in DOMAIN session :
        /\ DOMAIN session'[t].agents
             = IF t = s THEN DOMAIN session[s].agents \cup {p} ELSE DOMAIN session[t].agents
        /\ session'[t].active = session[t].active /\ session'[t].listed = session[t].listed
    BY <1>4, <1>6, <1>7
<1>12. MembersInv'
    <2> SUFFICES ASSUME NEW q \in AgentStream, NEW t \in DOMAIN session
                 PROVE  q \in DOMAIN session'[t].agents
                          <=> stream'[q].sess = t /\ stream'[q].at # "join"
        BY <1>7 DEF MembersInv
    <2>1. q \in DOMAIN session[t].agents <=> stream[q].sess = t /\ stream[q].at # "join"
        BY DEF Inv, MembersInv
    <2>2. CASE q = p
        BY <1>0, <1>1, <1>8, <1>11, <2>1, <2>2
    <2>3. CASE q # p
        BY <1>8, <1>11, <2>1, <2>3 DEF Stream
    <2> QED BY <2>2, <2>3
<1>13. ListedInv'
    <2>1. ~Closing(p)'
        BY <1>8 DEF Closing
    <2>2. \A q \in Stream \ {p} : Closing(q)' => ~session'[stream'[q].sess].active
        BY <1>8, <1>11, ClosingInSession DEF Inv, ListedInv, Closing
    <2> QED BY <1>7, <1>11, <2>1, <2>2 DEF Inv, ListedInv
<1>14. \A q \in AgentStream, t \in DOMAIN session :
        IsJoining(q, t)' \/ IsAgent(q, t)' <=> IsJoining(q, t) \/ IsAgent(q, t)
    <2> SUFFICES ASSUME NEW q \in AgentStream, NEW t \in DOMAIN session
                 PROVE  IsJoining(q, t)' \/ IsAgent(q, t)' <=> IsJoining(q, t) \/ IsAgent(q, t)
        OBVIOUS
    <2>1. q \in DOMAIN session[t].agents <=> stream[q].sess = t /\ stream[q].at # "join"
        BY DEF Inv, MembersInv
    <2>2. CASE q = p
        BY <1>0, <1>1, <1>8, <1>11, <2>1, <2>2 DEF IsJoining, IsAgent
    <2>3. CASE q # p
        BY <1>8, <1>11, <2>3 DEF IsJoining, IsAgent, Stream
    <2> QED BY <2>2, <2>3
<1>15. \A t \in DOMAIN session : (Waiting(t) => Waiting(t)') /\ (Handed(t) => Handed(t)')
    BY <1>1, <1>14 DEF Waiting, Handed
<1>16. AttendedInv'
    BY <1>7, <1>11, <1>15 DEF Inv, AttendedInv
<1> QED BY <1>9, <1>10, <1>12, <1>13, <1>16 DEF Inv

(* What becomes of the session, the stream and the queue. *)
Left(p, s) ==
    /\ stream[p].at = "cleanup" /\ s \in DOMAIN session /\ s # None
    /\ DOMAIN session' = DOMAIN session
    /\ \A t \in DOMAIN session :
         /\ DOMAIN session'[t].agents =
              IF t = s /\ p \in AgentStream THEN DOMAIN session[t].agents \ {p}
              ELSE DOMAIN session[t].agents
         /\ session'[t].active = session[t].active /\ session'[t].listed = session[t].listed
    /\ \A q \in Stream \ {p} : stream'[q] = stream[q]
    /\ stream'[p].sess = None /\ stream'[p].at \in {"recv", "over"}
    /\ queue' = IF p \in AgentStream /\ DOMAIN session[s].agents \ {p} = {}
                THEN Append(queue, s) ELSE queue

LEMMA cleanupLeft ==
    ASSUME Inv, NEW p \in Stream, cleanup(p), NEW s, s = stream[p].sess
    PROVE  TypeInv' /\ Left(p, s)
<1>1. /\ stream[p].at = "cleanup" /\ s \in DOMAIN session /\ s # None /\ s \in Nat
      /\ session \in Seq(SessionRec) /\ stream \in [Stream -> StreamRec]
      /\ queue \in Seq(Nat) /\ channel \in Seq(Channel) /\ stream[p] \in StreamRec
    BY DEF cleanup, At, Inv, TypeInv, KnownInv, InSession, None
<1>2. session[s] \in SessionRec /\ session[s].agents \in AgentMap
      /\ DOMAIN session[s].agents \subseteq AgentStream
    BY <1>1, SessionIn DEF Inv, SessionRec
<1> DEFINE f == Restrict(session[s].agents, DOMAIN session[s].agents \ {p})
           custLeft == [session[s] EXCEPT !.cust = None]
           agentLeft == [session[s] EXCEPT !.agents = f]
           left == IF p \in CustomerStream THEN custLeft ELSE agentLeft
           closed == [channel EXCEPT ![stream[p].ch].closed = TRUE]
<1>3. f \in AgentMap /\ DOMAIN f = DOMAIN session[s].agents \ {p}
    <2>1. \A a \in DOMAIN session[s].agents : session[s].agents[a] \in Nat
        BY <1>2 DEF AgentMap
    <2>2. f \in [DOMAIN session[s].agents \ {p} -> Nat]
        BY <2>1 DEF Restrict
    <2> HIDE DEF f
    <2> QED BY <1>2, <2>2, AgentMapMade
<1>4. queue' = IF p \in AgentStream /\ DOMAIN f = {} THEN Append(queue, s) ELSE queue
    BY DEF cleanup
<1>5. session' = [session EXCEPT ![s] =
                    IF left.listed \/ \E q \in Stream \ {p} : stream[q].sess = s THEN left
                    ELSE [left EXCEPT !.history = <<>>]]
    BY DEF cleanup
<1>6. \/ Over(p) /\ Abandoned(p, closed, reader)
      \/ channel' = closed /\ stream' = [stream EXCEPT ![p].sess = None, ![p].at = "recv"]
    BY DEF cleanup
<1> HIDE DEF f
<1>7. /\ left \in SessionRec
      /\ DOMAIN left.agents = IF p \in AgentStream THEN DOMAIN session[s].agents \ {p}
                              ELSE DOMAIN session[s].agents
      /\ left.active = session[s].active /\ left.listed = session[s].listed
    <2>1. CASE p \in CustomerStream
        <3>1. p \notin AgentStream
            BY <2>1, StreamAssumption
        <3> QED BY <1>2, <2>1, <3>1 DEF SessionRec, None
    <2>2. CASE p \notin CustomerStream
        BY <1>2, <1>3, <2>2 DEF SessionRec, Stream
    <2> QED BY <2>1, <2>2
<1> HIDE DEF left
<1>8. PICK x \in {left, [left EXCEPT !.history = <<>>]} : session' = [session EXCEPT ![s] = x]
    BY <1>5
<1>9. /\ x \in SessionRec /\ x.agents = left.agents
      /\ x.active = left.active /\ x.listed = left.listed
    <2>1. <<>> \in Seq(Stream)
        OBVIOUS
    <2> QED BY <1>7, <1>8, <2>1 DEF SessionRec
<1>10. /\ session' \in Seq(SessionRec) /\ DOMAIN session' = DOMAIN session
       /\ \A t \in DOMAIN session : session'[t] = IF t = s THEN x ELSE session[t]
    BY <1>1, <1>8, <1>9, SessionExcept DEF Inv
<1>11. queue' \in Seq(Nat)
    BY <1>1, <1>4, AppendProperties
<1>12. closed \in Seq(Channel)
    BY <1>1, ClosedType
<1> HIDE DEF closed
<1>13. /\ channel' \in Seq(Channel) /\ stream' \in [Stream -> StreamRec]
       /\ \A q \in Stream \ {p} : stream'[q] = stream[q]
       /\ stream'[p].sess = None /\ stream'[p].at \in {"recv", "over"}
    <2>1. CASE Over(p) /\ Abandoned(p, closed, reader)
        <3>1. channel' \in Seq(Channel) /\ stream' \in [Stream -> StreamRec]
            BY <1>12, <2>1, OverType, AbandonedType DEF Inv
        <3> QED BY <1>1, <2>1, <3>1 DEF Over, NoSession
    <2>2. CASE channel' = closed /\ stream' = [stream EXCEPT ![p].sess = None, ![p].at = "recv"]
        <3> DEFINE r == [stream[p] EXCEPT !.sess = None, !.at = "recv"]
        <3>1. r \in StreamRec /\ r.sess = None /\ r.at = "recv"
            BY <1>1 DEF StreamRec, None
        <3>2. stream' = [stream EXCEPT ![p] = r]
            BY <1>1, <2>2
        <3> HIDE DEF r
        <3> QED BY <1>1, <1>12, <2>2, <3>1, <3>2
    <2> QED BY <1>6, <2>1, <2>2
<1>14. TypeInv'
    BY <1>10, <1>11, <1>13 DEF TypeInv
<1> QED BY <1>1, <1>3, <1>4, <1>7, <1>9, <1>10, <1>13, <1>14 DEF Left

(* An agent that leaves an open session was its only one: the session goes   *)
(* back to the queue, which it was not in.                                   *)
LEMMA cleanupStep ==
    ASSUME Inv, NEW p \in Stream, cleanup(p)
    PROVE  Inv'
<1>0. PICK s : s = stream[p].sess
    OBVIOUS
<1>1. TypeInv' /\ Left(p, s)
    BY <1>0, cleanupLeft
<1>2. queue \in Seq(Nat) /\ s \in Nat /\ \A i \in DOMAIN queue : queue[i] \in DOMAIN session
    BY <1>0, <1>1 DEF Left, Inv, TypeInv, KnownInv, StreamRec
<1>3. CASE p \notin AgentStream
    <2>1. Quiet(p)
        BY <1>1, <1>2, <1>3 DEF Left, Quiet, Inv, ListedInv, InSession, Closing
    <2> QED BY <1>1, <2>1, QuietStep DEF Left
<1>4. CASE p \in AgentStream
    <2>1. /\ \A i \in DOMAIN queue' : queue'[i] \in DOMAIN session
          /\ \A t \in DOMAIN session \ {s} :
               (Once(queue, t) => Once(queue', t)) /\ (Never(queue, t) => Never(queue', t))
        BY <1>1, <1>2, AppendKeeps DEF Left
    <2>2. KnownInv'
        BY <1>1, <2>1 DEF Left, Inv, KnownInv, InSession
    <2>3. MembersInv'
        <3> SUFFICES ASSUME NEW q \in AgentStream, NEW t \in DOMAIN session
                     PROVE  q \in DOMAIN session'[t].agents
                              <=> stream'[q].sess = t /\ stream'[q].at # "join"
            BY <1>1 DEF Left, MembersInv
        <3>1. q \in DOMAIN session[t].agents <=> stream[q].sess = t /\ stream[q].at # "join"
            BY DEF Inv, MembersInv
        <3>2. CASE q = p
            <4>1. t # None
                BY DEF Inv, TypeInv, None
            <4> QED BY <1>0, <1>1, <1>4, <3>1, <3>2, <4>1 DEF Left
        <3>3. CASE q # p
            BY <1>1, <3>1, <3>3 DEF Left, Stream
        <3> QED BY <3>2, <3>3
    <2>4. ListedInv'
        <3>1. ~Closing(p)'
            BY <1>1 DEF Left, Closing
        <3>2. \A q \in Stream \ {p} : Closing(q)' => ~session'[stream'[q].sess].active
            <4>1. \A q \in Stream : Closing(q) =>
                    stream[q].sess \in DOMAIN session /\ ~session[stream[q].sess].active
                BY ClosingInSession DEF Inv, ListedInv
            <4>2. \A q \in Stream \ {p} : Closing(q)' => Closing(q)
                BY <1>1 DEF Left, Closing
            <4> QED BY <1>1, <4>1, <4>2 DEF Left
        <3>3. \A t \in DOMAIN session' : session'[t].active => session'[t].listed
            <4>1. \A t \in DOMAIN session : session[t].active => session[t].listed
                BY DEF Inv, ListedInv
            <4> QED BY <1>1, <4>1 DEF Left
        <3> QED BY <3>1, <3>2, <3>3 DEF ListedInv
    <2>5. \A q \in AgentStream, t \in DOMAIN session :
            /\ IsJoining(q, t)' => IsJoining(q, t)
            /\ IsAgent(q, t)' => IsAgent(q, t)
            /\ t # s => (IsJoining(q, t) => IsJoining(q, t)') /\ (IsAgent(q, t) => IsAgent(q, t)')
        <3> SUFFICES ASSUME NEW q \in AgentStream, NEW t \in DOMAIN session
                     PROVE  /\ IsJoining(q, t)' => IsJoining(q, t)
                            /\ IsAgent(q, t)' => IsAgent(q, t)
                            /\ t # s => /\ IsJoining(q, t) => IsJoining(q, t)'
                                        /\ IsAgent(q, t) => IsAgent(q, t)'
            OBVIOUS
        <3>1. IsJoining(q, t)' <=> IsJoining(q, t)
            BY <1>0, <1>1 DEF Left, IsJoining, Stream
        <3>2. (IsAgent(q, t)' => IsAgent(q, t)) /\ (t # s => (IsAgent(q, t) => IsAgent(q, t)'))
            BY <1>1 DEF Left, IsAgent
        <3> QED BY <3>1, <3>2
    <2>6. AttendedInv'
        <3> SUFFICES ASSUME NEW t \in DOMAIN session, session[t].active
                     PROVE  Waiting(t)' \/ Handed(t)'
            BY <1>1 DEF Left, AttendedInv
        <3>1. Waiting(t) \/ Handed(t)
            BY DEF Inv, AttendedInv
        <3>2. CASE t # s
            <4>1. Waiting(t) => Waiting(t)'
                BY <2>1, <2>5, <3>2 DEF Waiting
            <4>2. Handed(t) => Handed(t)'
                BY <2>1, <2>5, <3>2 DEF Handed
            <4> QED BY <3>1, <4>1, <4>2
        <3>3. CASE t = s
            <4>1. IsAgent(p, s)
                BY <1>0, <1>1, <1>4 DEF Left, Inv, MembersInv, IsAgent
            <4>2. Handed(s)
                BY <1>4, <3>1, <3>3, <4>1 DEF Waiting
            <4>3. \A q \in AgentStream : IsJoining(q, s) \/ IsAgent(q, s) => q = p
                BY <1>4, <4>1, <4>2 DEF Handed
            <4>4. DOMAIN session[s].agents \subseteq AgentStream
                BY <1>1, SessionIn DEF Left, Inv
            <4>5. DOMAIN session[s].agents \ {p} = {}
                BY <4>3, <4>4 DEF IsAgent
            <4>6. Once(queue', s)
                BY <1>1, <1>2, <1>4, <4>2, <4>5, AppendKeeps DEF Left, Handed
            <4>7. ~IsJoining(p, s)' /\ ~IsAgent(p, s)'
                BY <1>1, <1>4 DEF Left, IsJoining, IsAgent
            <4>8. \A q \in AgentStream : ~IsJoining(q, s)' /\ ~IsAgent(q, s)'
                BY <1>1, <2>5, <4>3, <4>7 DEF Left
            <4> QED BY <3>3, <4>6, <4>8 DEF Waiting
        <3> QED BY <3>2, <3>3
    <2> QED BY <1>1, <2>2, <2>3, <2>4, <2>6 DEF Left, Inv
<1> QED BY <1>3, <1>4

---------------------------------------------------------------------------
(* The invariant *)

(* Broken streams and the goroutines change no session, queue or handler. *)
LEMMA ChannelStep ==
    ASSUME Inv, UNCHANGED <<session, queue, stream>>, channel' \in Seq(Channel)
    PROVE  Inv'
<1>1. TypeInv'
    BY DEF Inv, TypeInv
<1>2. KnownInv' /\ MembersInv' /\ ListedInv'
    BY DEF Inv, KnownInv, MembersInv, ListedInv, Closing
<1>3. AttendedInv'
    BY DEF Inv, AttendedInv, Waiting, Handed, Once, Never, IsJoining, IsAgent
<1> QED BY <1>1, <1>2, <1>3 DEF Inv

LEMMA BreakStep ==
    ASSUME Inv, NEW p \in Stream, Break(p)
    PROVE  Inv'
<1>1. channel' \in Seq(Channel)
    BY AbandonedType DEF Break, Inv, TypeInv
<1> QED BY <1>1, ChannelStep DEF Break

LEMMA ReaderStep ==
    ASSUME Inv, NEW c \in DOMAIN channel, Take(c) \/ Show(c) \/ Drain(c)
    PROVE  Inv'
<1>1. UNCHANGED channel \/ \E from : channel' = [channel EXCEPT ![from].holds = <<>>]
    BY DEF Take, Show, Drain
<1>2. channel \in Seq(Channel) /\ <<>> \in Seq(Nat)
    BY DEF Inv, TypeInv
<1>3. channel' \in Seq(Channel)
    <2>1. ASSUME NEW from, channel' = [channel EXCEPT ![from].holds = <<>>]
          PROVE  channel' \in Seq(Channel)
        <3> DEFINE h == <<>>
        <3>1. h \in Seq(Nat) /\ channel' = [channel EXCEPT ![from].holds = h]
            BY <1>2, <2>1
        <3> HIDE DEF h
        <3> QED BY <1>2, <3>1, HoldsType
    <2> QED BY <1>1, <1>2, <2>1
<1>4. UNCHANGED <<session, queue, stream>>
    BY DEF Take, Show, Drain
<1> QED BY <1>3, <1>4, ChannelStep

LEMMA InitInv == Init => Inv
<1> SUFFICES ASSUME Init PROVE Inv
    OBVIOUS
<1>1. TypeInv
    BY InitTypeInv
<1>2. KnownInv /\ MembersInv /\ ListedInv /\ AttendedInv
    BY DEF Init, KnownInv, MembersInv, ListedInv, AttendedInv, NoSession, None, InSession, Closing, Stream
<1> QED BY <1>1, <1>2 DEF Inv

LEMMA NextInv == Inv /\ [Next]_vars => Inv'
<1> SUFFICES ASSUME Inv, [Next]_vars PROVE Inv'
    OBVIOUS
<1>1. ASSUME NEW p \in Stream, newSession(p) PROVE Inv'
    BY <1>1, newSessionStep
<1>2. ASSUME NEW p \in Stream, resumeSession(p) PROVE Inv'
    BY <1>2, resumeSessionStep
<1>3. ASSUME NEW p \in Stream, checkSession(p) PROVE Inv'
    BY <1>3, checkSessionStep
<1>4. ASSUME NEW p \in Stream, acceptSession(p) PROVE Inv'
    BY <1>4, acceptSessionStep
<1>5. ASSUME NEW p \in Stream, JoinSession(p) PROVE Inv'
    BY <1>5, JoinSessionStep
<1>6. ASSUME NEW p \in Stream, Snapshot(p) PROVE Inv'
    BY <1>6, SnapshotStep
<1>7. ASSUME NEW p \in Stream, Message(p) PROVE Inv'
    BY <1>7, MessageStep
<1>8. ASSUME NEW p \in Stream, closeSession(p) PROVE Inv'
    BY <1>8, closeSessionStep
<1>9. ASSUME NEW p \in Stream, Publish(p) PROVE Inv'
    BY <1>9, PublishStep
<1>10. ASSUME NEW p \in Stream, Send(p) PROVE Inv'
    BY <1>10, SendStep
<1>11. ASSUME NEW p \in Stream, Unlist(p) PROVE Inv'
    BY <1>11, UnlistStep
<1>12. ASSUME NEW p \in Stream, cleanup(p) PROVE Inv'
    BY <1>12, cleanupStep
<1>13. ASSUME NEW p \in Stream, Return(p) PROVE Inv'
    BY <1>13, ReturnStep
<1>14. ASSUME NEW p \in Stream, Break(p) PROVE Inv'
    BY <1>14, BreakStep
<1>15. ASSUME NEW c \in DOMAIN channel, Take(c) \/ Show(c) \/ Drain(c) PROVE Inv'
    BY <1>15, ReaderStep
<1>16. ASSUME UNCHANGED <<session, queue, stream, channel>> PROVE Inv'
    BY <1>16, ChannelStep DEF Inv, TypeInv
<1> QED BY <1>1, <1>2, <1>3, <1>4, <1>5, <1>6, <1>7, <1>8, <1>9, <1>10, <1>11, <1>12, <1>13,
           <1>14, <1>15, <1>16 DEF Next, Finished, vars

LEMMA NextStopped == StoppedInv /\ [Next]_vars => StoppedInv'
<1> SUFFICES ASSUME StoppedInv, [Next]_vars PROVE StoppedInv'
    OBVIOUS
<1>1. CASE Crash
    BY <1>1 DEF Crash, StoppedInv
<1>2. ASSUME NEW p \in Stream, ~Crash,
             \/ newSession(p) \/ resumeSession(p) \/ checkSession(p) \/ acceptSession(p)
             \/ JoinSession(p) \/ Snapshot(p) \/ Message(p) \/ closeSession(p) \/ Publish(p)
             \/ Send(p) \/ Unlist(p) \/ cleanup(p) \/ Return(p) \/ Break(p)
      PROVE  StoppedInv'
    <2>1. ~crashed
        BY <1>2 DEF newSession, resumeSession, checkSession, acceptSession, JoinSession, Snapshot,
                    Message, closeSession, Publish, Send, Unlist, cleanup, Return, Break,
                    Ready, Waits, At
    <2>2. crashed' = crashed
        BY <1>2 DEF newSession, resumeSession, checkSession, acceptSession, JoinSession, Snapshot,
                    Message, closeSession, Publish, Send, Unlist, cleanup, Return, Break
    <2> QED BY <2>1, <2>2 DEF StoppedInv
<1>3. ASSUME NEW c \in DOMAIN channel, Take(c) \/ Show(c) \/ Drain(c)
      PROVE  StoppedInv'
    BY <1>3 DEF Take, Show, Drain, StoppedInv
<1>4. CASE UNCHANGED vars
    BY <1>4 DEF vars, StoppedInv
<1> QED BY <1>1, <1>2, <1>3, <1>4 DEF Next, Finished

(* Either one place in the queue, or one agent. *)
LEMMA InvAttended == Inv /\ StoppedInv => Attended
<1> SUFFICES ASSUME Inv, StoppedInv, NEW s \in DOMAIN session, session[s].active
             PROVE  /\ Cardinality(Queued(s)) <= 1
                    /\ Queued(s) = {} <=> Joining(s) \cup DOMAIN session[s].agents # {}
    BY DEF Attended
<1>1. ~crashed
    BY DEF StoppedInv
<1>2. DOMAIN session[s].agents \subseteq AgentStream
    BY SessionIn DEF Inv
<1>3. Joining(s) = {p \in AgentStream : IsJoining(p, s)}
    BY <1>1 DEF Joining, IsJoining, At
<1>4. Cardinality({}) = 0 /\ \A e : Cardinality({e}) = 1
    BY FS_EmptySet, FS_Singleton
<1>5. CASE Waiting(s)
    <2>1. PICK i : Queued(s) = {i}
        BY <1>5 DEF Waiting, Once, Queued
    <2>2. Joining(s) = {} /\ DOMAIN session[s].agents = {}
        BY <1>2, <1>3, <1>5 DEF Waiting, IsAgent
    <2>3. Cardinality(Queued(s)) = 1 /\ Queued(s) # {}
        BY <1>4, <2>1
    <2> QED BY <2>2, <2>3
<1>6. CASE Handed(s)
    <2>1. Queued(s) = {}
        BY <1>6 DEF Handed, Never, Queued
    <2>2. Joining(s) \cup DOMAIN session[s].agents # {}
        BY <1>3, <1>6 DEF Handed, IsAgent
    <2>3. Cardinality(Queued(s)) = 0
        BY <1>4, <2>1
    <2> QED BY <2>1, <2>2, <2>3
<1> QED BY <1>5, <1>6 DEF Inv, AttendedInv

(* A session that is open is never forgotten, whatever agents accept, join,  *)
(* break off or leave at the same time: it is in the queue, and only once,   *)
(* just when no agent has joined it or is about to.                          *)
THEOREM SessionsAttended == Spec => []Attended
<1>1. Init => Inv /\ StoppedInv
    BY InitInv DEF Init, StoppedInv
<1>2. (Inv /\ StoppedInv) /\ [Next]_vars => (Inv /\ StoppedInv)'
    BY NextInv, NextStopped
<1>3. Inv /\ StoppedInv => Attended
    BY InvAttended
<1> QED BY <1>1, <1>2, <1>3, PTL DEF Spec
---------------------------------------------------------------------------
(* Nothing is missed: how what is said reaches the streams of a session *)

Goroutine == [at : {"none", "done", "wait", "show", "start"}, on : Nat, entry : Nat]
Readers == [monitor : Goroutine, drain : Goroutine]

ReaderTypes ==
    /\ reader \in Seq(Readers) /\ Len(reader) = Len(channel)
    /\ seen \in [Stream -> SUBSET Nat]

(* A stream that has joined a session is registered there with its channel,  *)
(* which is open, its own and not being drained.                             *)
Registered(p) ==
    LET ch == stream[p].ch
    IN  /\ ch # None => ch \in DOMAIN channel /\ channel[ch].stream = p
        /\ stream[p].sess # None /\ stream[p].at # "join" =>
             /\ ch # None /\ ~channel[ch].closed /\ reader[ch].drain \in {NotStarted, Done}
             /\ channel[ch].sess = stream[p].sess
             /\ p \in CustomerStream => Sess(p).cust = ch
             /\ p \in AgentStream => p \in DOMAIN Sess(p).agents /\ Sess(p).agents[p] = ch

(* The goroutines of a stream are on its channels, and there is a channel as *)
(* long as one of them may have to look for it.                              *)
IsOn(g, p) == g.on # None => g.on \in DOMAIN channel /\ channel[g.on].stream = p

Serves(c, p) ==
    /\ IsOn(reader[c].monitor, p) /\ IsOn(reader[c].drain, p)
    /\ reader[c].monitor.at \in {"wait", "show"} => reader[c].monitor.on # None
    /\ reader[c].drain.at = "wait" <=> reader[c].drain.on # None
    /\ reader[c].monitor.at \in {"wait", "show"} \/ reader[c].drain.at \in {"start", "wait"}
         => stream[p].ch # None

Served(p) == \A c \in DOMAIN reader : channel[c].stream = p => Serves(c, p)

(* What a stream says is the entry of the history it made. *)
Author(p) ==
    stream[p].at \in {"publish", "sending"} /\ stream[p].entry # End =>
        /\ stream[p].entry \in DOMAIN Sess(p).history
        /\ Sess(p).history[stream[p].entry] = p

(* From the snapshot to the cleanup an entry that is due was shown to the    *)
(* client, or is in the channel, with a monitor, or with who publishes it.   *)
InTouch(p) ==
    /\ p \notin gone /\ stream[p].at \in {"recv", "checked", "publish", "sending"}
    /\ stream[p].sess # None
    /\ \A c \in DOMAIN reader : reader[c].drain.on # stream[p].ch

IsDue(p, i) ==
    \/ /\ i \in DOMAIN Sess(p).history
       /\ p \in CustomerStream => Sess(p).history[i] \in AgentStream
       /\ p \notin CustomerStream => Sess(p).history[i] # p
    \/ i = End /\ p \in AgentStream /\ ~Sess(p).active

Held(p, i) == channel[stream[p].ch].holds = <<i>>

Told(p, i) ==
    \E c \in DOMAIN reader :
        /\ channel[c].stream = p /\ OfSession(c)
        /\ reader[c].monitor.at = "show" /\ reader[c].monitor.entry = i

Sends(r, p, i) ==
    /\ stream[r].entry = i
    /\ \/ stream[r].at = "publish" /\ stream[r].sess = stream[p].sess
       \/ stream[r].at = "sending" /\ stream[p].ch \in stream[r].to

Shown(p, i) == i \in seen[p] \/ Held(p, i) \/ Told(p, i) \/ \E r \in Stream : Sends(r, p, i)

Informed(p) == InTouch(p) => \A i : IsDue(p, i) => Shown(p, i)

Follows(p) == Registered(p) /\ Served(p) /\ Author(p) /\ Informed(p)

NewsInv == ReaderTypes /\ \A p \in Stream : Follows(p)

---------------------------------------------------------------------------
(* A step of p leaves the streams and the channels of the others alone. *)
Aside(p) ==
    /\ \A q \in Stream \ {p} :
         stream'[q] = stream[q] /\ seen'[q] = seen[q] /\ (q \in gone => q \in gone')
    /\ \A c \in DOMAIN channel :
         /\ c \in DOMAIN channel'
         /\ channel'[c].stream = channel[c].stream /\ channel'[c].sess = channel[c].sess
         /\ channel[c].stream # p => channel'[c].closed = channel[c].closed /\ reader'[c] = reader[c]
    /\ \A c \in DOMAIN channel' \ DOMAIN channel : channel'[c].stream = p

HoldsKept(p) ==
    \A c \in DOMAIN channel : channel[c].stream # p => channel'[c].holds = channel[c].holds

(* ... and what a stream that is in a session finds there. *)
PlaceKept(q) ==
    stream[q].sess # None /\ stream[q].at # "join" =>
        LET s == stream[q].sess
        IN  /\ q \in CustomerStream => session'[s].cust = session[s].cust
            /\ q \in AgentStream /\ q \in DOMAIN session[s].agents =>
                 q \in DOMAIN session'[s].agents /\ session'[s].agents[q] = session[s].agents[q]

HistoryKept(s) ==
    \A i \in DOMAIN session[s].history :
        i \in DOMAIN session'[s].history /\ session'[s].history[i] = session[s].history[i]

SaidKept(s) ==
    session'[s].history = session[s].history /\ session'[s].active = session[s].active

LEMMA ReaderDomain == ReaderTypes => DOMAIN reader = DOMAIN channel
BY DEF ReaderTypes

LEMMA ChannelIn ==
    ASSUME Inv, NEW c \in DOMAIN channel
    PROVE  /\ channel[c] \in Channel /\ channel[c].stream \in Stream
           /\ channel[c].holds \in Seq(Nat) /\ channel[c].closed \in BOOLEAN
<1>1. channel[c] \in Channel
    BY DEF Inv, TypeInv
<1> QED BY <1>1 DEF Channel

LEMMA OthersRegistered ==
    ASSUME NEW p \in Stream, NEW q \in Stream \ {p}, Registered(q), Aside(p), PlaceKept(q)
    PROVE  Registered(q)'
<1> DEFINE ch == stream[q].ch
<1>1. stream'[q] = stream[q]
    BY DEF Aside
<1>2. ch # None => /\ ch \in DOMAIN channel /\ ch \in DOMAIN channel' /\ channel'[ch].stream = q
                   /\ channel'[ch].sess = channel[ch].sess
                   /\ channel'[ch].closed = channel[ch].closed /\ reader'[ch] = reader[ch]
    BY DEF Registered, Aside
<1> QED BY <1>1, <1>2 DEF Registered, PlaceKept, Sess

LEMMA OthersServed ==
    ASSUME NEW p \in Stream, NEW q \in Stream \ {p}, Served(q), Aside(p), ReaderTypes, ReaderTypes'
    PROVE  Served(q)'
<1>1. stream'[q] = stream[q] /\ DOMAIN reader = DOMAIN channel /\ DOMAIN reader' = DOMAIN channel'
    BY ReaderDomain DEF Aside, ReaderTypes
<1>2. \A c \in DOMAIN reader' : channel'[c].stream = q =>
        c \in DOMAIN reader /\ channel[c].stream = q /\ reader'[c] = reader[c]
    BY <1>1 DEF Aside
<1>3. \A g, h : h = g /\ IsOn(g, q) =>
        (h.on # None => h.on \in DOMAIN channel' /\ channel'[h.on].stream = q)
    BY DEF Aside, IsOn
<1> QED BY <1>1, <1>2, <1>3 DEF Served, Serves, IsOn

LEMMA OthersAuthor ==
    ASSUME NEW p \in Stream, NEW q \in Stream \ {p}, Author(q), Aside(p),
           stream[q].at \in {"publish", "sending"} => HistoryKept(stream[q].sess)
    PROVE  Author(q)'
<1>1. stream'[q] = stream[q]
    BY DEF Aside
<1> QED BY <1>1 DEF Author, HistoryKept, Sess

(* They are as well informed as before if what p brings forth and ceases to  *)
(* send is on its way to them.                                               *)
LEMMA OthersInformed ==
    ASSUME Inv, NewsInv, NEW p \in Stream, NEW q \in Stream \ {p}, Aside(p), ReaderTypes',
           InTouch(q)' => \A i : IsDue(q, i)' => IsDue(q, i) \/ Shown(q, i)',
           InTouch(q)' => \A i : IsDue(q, i)' /\ Sends(p, q, i) => Shown(q, i)',
           InTouch(q)' => \A i : Held(q, i) => Held(q, i)'
    PROVE  Informed(q)'
<1>1. stream'[q] = stream[q] /\ DOMAIN reader = DOMAIN channel /\ DOMAIN reader' = DOMAIN channel'
      /\ seen'[q] = seen[q] /\ Follows(q) /\ ReaderTypes
    BY ReaderDomain DEF Aside, ReaderTypes, NewsInv
<1>2. \A c \in DOMAIN reader : channel[c].stream = q =>
        c \in DOMAIN reader' /\ channel'[c].stream = q /\ reader'[c] = reader[c]
    BY <1>1 DEF Aside
<1>3. InTouch(q)' => InTouch(q)
    <2> SUFFICES ASSUME InTouch(q)' PROVE InTouch(q)
        OBVIOUS
    <2>1. stream[q].sess # None /\ stream[q].at # "join"
        BY <1>1 DEF InTouch
    <2>2. stream[q].ch # None
        BY <1>1, <2>1 DEF Follows, Registered
    <2>3. ASSUME NEW c \in DOMAIN reader, reader[c].drain.on = stream[q].ch PROVE FALSE
        <3>1. stream[q].ch \in DOMAIN channel /\ channel[stream[q].ch].stream = q
            BY <1>1, <2>2 DEF Follows, Registered
        <3>2. channel[c].stream \in Stream
            BY <1>1, ChannelIn
        <3>3. channel[c].stream = q
            BY <2>2, <2>3, <3>1, <3>2 DEF NewsInv, Follows, Served, Serves, IsOn
        <3> QED BY <1>1, <1>2, <2>3, <3>3 DEF InTouch
    <2> QED BY <1>1, <2>1, <2>3 DEF InTouch, Aside
<1>4. \A i : Told(q, i) => Told(q, i)'
    <2> SUFFICES ASSUME NEW c \in DOMAIN reader, channel[c].stream = q, OfSession(c),
                        reader[c].monitor.at = "show"
                 PROVE  OfSession(c)'
        BY <1>1, <1>2 DEF Told
    <2>1. PICK o : o = reader[c].monitor.on
        OBVIOUS
    <2>2. o \in DOMAIN channel
        BY <1>1, <2>1 DEF Follows, Served, Serves, IsOn
    <2>3. channel'[o].sess = channel[o].sess
        BY <2>2 DEF Aside
    <2> QED BY <1>1, <1>2, <2>1, <2>3 DEF OfSession
<1>5. \A i : \A r \in Stream \ {p} : Sends(r, q, i) => Sends(r, q, i)'
    BY <1>1 DEF Sends, Aside
<1> QED BY <1>1, <1>3, <1>4, <1>5 DEF Follows, Informed, Shown

(* Mostly p says nothing new, and leaves what others say alone. *)
Silent(p) == stream[p].at \notin {"publish", "sending"} \/ stream'[p] = stream[p]

LEMMA OthersFollow ==
    ASSUME Inv, NewsInv, NEW p \in Stream, Aside(p), HoldsKept(p), Silent(p), ReaderTypes',
           \A q \in Stream \ {p} : PlaceKept(q),
           \A q \in Stream \ {p} : stream[q].sess # None => SaidKept(stream[q].sess)
    PROVE  \A q \in Stream \ {p} : Follows(q)'
<1> SUFFICES ASSUME NEW q \in Stream \ {p} PROVE Follows(q)'
    OBVIOUS
<1>1. Follows(q) /\ ReaderTypes /\ stream'[q] = stream[q]
    BY DEF NewsInv, Aside
<1>2. Registered(q)'
    BY <1>1, OthersRegistered DEF Follows
<1>3. Served(q)'
    BY <1>1, OthersServed DEF Follows
<1>4. Author(q)'
    <2>1. stream[q].at \in {"publish", "sending"} => stream[q].sess # None
        BY DEF Inv, KnownInv, InSession
    <2> QED BY <1>1, <2>1, OthersAuthor DEF Follows, HistoryKept, SaidKept
<1>5. ASSUME InTouch(q)'
      PROVE  /\ \A i : IsDue(q, i)' => IsDue(q, i)
             /\ \A i : Sends(p, q, i) => Sends(p, q, i)'
             /\ \A i : Held(q, i) => Held(q, i)'
    <2>1. stream[q].sess # None /\ stream[q].at # "join"
        BY <1>1, <1>5 DEF InTouch
    <2>2. stream[q].ch \in DOMAIN channel /\ channel[stream[q].ch].stream = q
        BY <1>1, <2>1 DEF Follows, Registered
    <2>3. \A i : Held(q, i) => Held(q, i)'
        BY <1>1, <2>2 DEF Held, HoldsKept
    <2>4. \A i : IsDue(q, i)' => IsDue(q, i)
        BY <1>1, <2>1 DEF IsDue, SaidKept, Sess
    <2>5. \A i : Sends(p, q, i) => Sends(p, q, i)'
        BY <1>1 DEF Sends, Silent
    <2> QED BY <2>3, <2>4, <2>5
<1>6. Informed(q)'
    <2>1. /\ InTouch(q)' => \A i : IsDue(q, i)' => IsDue(q, i) \/ Shown(q, i)'
          /\ InTouch(q)' => \A i : IsDue(q, i)' /\ Sends(p, q, i) => Shown(q, i)'
          /\ InTouch(q)' => \A i : Held(q, i) => Held(q, i)'
        BY <1>5 DEF Shown
    <2> QED BY <2>1, OthersInformed
<1> QED BY <1>2, <1>3, <1>4, <1>6 DEF Follows

(* Steps within a session, that neither touch a channel nor say anything. *)
SessionsKept ==
    \A s \in DOMAIN session :
        SaidKept(s) /\ session'[s].cust = session[s].cust /\ session'[s].agents = session[s].agents

LEMMA StaysAside ==
    ASSUME Inv, NEW p \in Stream, NEW r, stream' = [stream EXCEPT ![p] = r],
           UNCHANGED <<gone, channel, reader, seen>>, ReaderTypes
    PROVE  Aside(p) /\ HoldsKept(p) /\ ReaderTypes' /\ stream'[p] = r
BY DEF Inv, TypeInv, Aside, HoldsKept, ReaderTypes

LEMMA StaysNews ==
    ASSUME Inv, NewsInv, NEW p \in Stream, NEW r, stream' = [stream EXCEPT ![p] = r],
           UNCHANGED <<gone, channel, reader, seen>>, SessionsKept,
           r.ch = stream[p].ch, r.sess = stream[p].sess,
           stream[p].at \notin {"join", "publish", "sending"}, r.at \notin {"join", "publish", "sending"},
           r.at \in {"recv", "checked"} => stream[p].at \in {"recv", "checked"}
    PROVE  NewsInv'
<1>1. Aside(p) /\ HoldsKept(p) /\ ReaderTypes' /\ stream'[p] = r /\ Follows(p) /\ ReaderTypes
    BY StaysAside DEF NewsInv
<1>2. \A q \in Stream : stream[q].sess # None => stream[q].sess \in DOMAIN session
    BY DEF Inv, KnownInv
<1>3. \A q \in Stream \ {p} : Follows(q)'
    <2>1. \A q \in Stream \ {p} : PlaceKept(q)
        BY <1>2 DEF PlaceKept, SessionsKept
    <2>2. \A q \in Stream \ {p} : stream[q].sess # None => SaidKept(stream[q].sess)
        BY <1>2 DEF SessionsKept
    <2> QED BY <1>1, <2>1, <2>2, OthersFollow DEF Silent
<1>4. Registered(p)'
    BY <1>1, <1>2 DEF Follows, Registered, SessionsKept, Sess
<1>5. Served(p)'
    BY <1>1 DEF Follows, Served, Serves, IsOn
<1>6. Author(p)'
    BY <1>1 DEF Author
<1>7. Informed(p)'
    <2> SUFFICES ASSUME InTouch(p)', NEW i, IsDue(p, i)' PROVE Shown(p, i)'
        BY DEF Informed
    <2>1. InTouch(p)
        BY <1>1 DEF InTouch
    <2>2. stream[p].sess \in DOMAIN session
        BY <1>2, <2>1 DEF InTouch
    <2>3. IsDue(p, i)
        BY <1>1, <2>2 DEF IsDue, SessionsKept, SaidKept, Sess
    <2>4. Shown(p, i)
        BY <1>1, <2>1, <2>3 DEF Follows, Informed
    <2>5. (i \in seen[p] => i \in seen'[p]) /\ (Held(p, i) => Held(p, i)') /\ (Told(p, i) => Told(p, i)')
        BY <1>1 DEF Held, Told, OfSession
    <2>6. \A q \in Stream : Sends(q, p, i) => Sends(q, p, i)'
        BY <1>1 DEF Sends, Aside
    <2> QED BY <2>4, <2>5, <2>6 DEF Shown
<1> QED BY <1>1, <1>3, <1>4, <1>5, <1>6, <1>7 DEF NewsInv, Follows

(* A stream that gets a channel of a session has no snapshot yet. *)
LEMMA JoinsNews ==
    ASSUME Inv, NewsInv, NEW p \in Stream, NEW s \in Nat, s # None, Joins(p, s), MakeChannel(p, s),
           UNCHANGED <<gone, seen>>, stream[p].at \notin {"publish", "sending"},
           p \in CustomerStream => session'[s].cust = Len(channel) + 1,
           p \in AgentStream => /\ p \in DOMAIN session'[s].agents
                                /\ session'[s].agents[p] = Len(channel) + 1,
           \A q \in Stream \ {p} : PlaceKept(q),
           \A q \in Stream \ {p} : stream[q].sess # None => SaidKept(stream[q].sess)
    PROVE  NewsInv'
<1>1. PICK n \in Nat : n = Len(channel) + 1
    BY DEF Inv, TypeInv
<1>2. /\ channel \in Seq(Channel) /\ reader \in Seq(Readers) /\ Len(reader) = Len(channel)
      /\ stream \in [Stream -> StreamRec] /\ ReaderTypes /\ Follows(p)
    BY DEF Inv, TypeInv, NewsInv, ReaderTypes
<1>3. PICK new : new = [stream |-> p, sess |-> s, holds |-> <<>>, closed |-> FALSE]
    OBVIOUS
<1>4. PICK idle \in Readers : idle = [monitor |-> NotStarted, drain |-> NotStarted]
    BY DEF Readers, Goroutine, NotStarted, None
<1>5. /\ DOMAIN channel' = DOMAIN channel \cup {n} /\ n \notin DOMAIN channel /\ channel'[n] = new
      /\ \A c \in DOMAIN channel : channel'[c] = channel[c]
    BY <1>1, <1>2, <1>3 DEF MakeChannel
<1>6. /\ reader' \in Seq(Readers) /\ Len(reader') = Len(channel') /\ DOMAIN reader = DOMAIN channel
      /\ DOMAIN reader' = DOMAIN reader \cup {n} /\ reader'[n] = idle
      /\ \A c \in DOMAIN reader : reader'[c] = reader[c]
    BY <1>1, <1>2, <1>4 DEF MakeChannel
<1>7. ReaderTypes'
    BY <1>6 DEF NewsInv, ReaderTypes
<1>8. /\ \A q \in Stream \ {p} : stream'[q] = stream[q]
      /\ stream'[p].at = "snapshot" /\ stream'[p].sess = s /\ stream'[p].ch = n
    BY <1>1, <1>2 DEF Joins, StreamRec
<1>9. new.stream = p /\ new.sess = s /\ ~new.closed
    BY <1>3
<1>10. Aside(p) /\ HoldsKept(p)
    BY <1>5, <1>6, <1>8, <1>9 DEF Aside, HoldsKept
<1>11. \A q \in Stream \ {p} : Follows(q)'
    BY <1>7, <1>10, OthersFollow DEF Silent
<1>12. n # None /\ n \in DOMAIN channel'
    BY <1>1, <1>2, <1>5 DEF None
<1>13. Registered(p)'
    <2>1. reader'[n].drain = NotStarted
        BY <1>4, <1>6
    <2> QED BY <1>1, <1>5, <1>8, <1>9, <1>12, <2>1 DEF Registered, Sess
<1>14. Served(p)'
    <2> SUFFICES ASSUME NEW c \in DOMAIN reader', channel'[c].stream = p PROVE Serves(c, p)'
        BY DEF Served
    <2>1. CASE c = n
        <3>1. /\ idle.monitor.on = None /\ idle.drain.on = None
              /\ idle.monitor.at = "none" /\ idle.drain.at = "none"
            BY <1>4 DEF NotStarted
        <3> QED BY <1>6, <2>1, <3>1 DEF Serves, IsOn
    <2>2. CASE c # n
        <3>1. c \in DOMAIN reader /\ channel[c].stream = p /\ reader'[c] = reader[c]
            BY <1>5, <1>6, <2>2
        <3>2. Serves(c, p)
            BY <1>2, <3>1 DEF Follows, Served
        <3> QED BY <1>5, <1>8, <1>12, <3>1, <3>2 DEF Serves, IsOn
    <2> QED BY <2>1, <2>2
<1>15. Author(p)' /\ Informed(p)'
    BY <1>8 DEF Author, Informed, InTouch
<1> QED BY <1>7, <1>11, <1>13, <1>14, <1>15 DEF NewsInv, Follows

(* The channels of a stream that is over have no goroutines any more. *)
LEMMA AbandonedIs ==
    ASSUME NEW p, NEW channels \in Seq(Channel), NEW readers \in Seq(Readers),
           Len(channels) = Len(readers), Abandoned(p, channels, readers)
    PROVE  /\ DOMAIN channel' = DOMAIN channels
           /\ reader' \in Seq(Readers) /\ Len(reader') = Len(channel')
           /\ \A c \in DOMAIN channels :
                /\ channel'[c].stream = channels[c].stream /\ channel'[c].sess = channels[c].sess
                /\ channel'[c].closed = channels[c].closed
                /\ channels[c].stream # p =>
                     channel'[c].holds = channels[c].holds /\ reader'[c] = readers[c]
                /\ channels[c].stream = p => reader'[c] = [monitor |-> Done, drain |-> Done]
<1>1. PICK n \in Nat : n = Len(channels) /\ DOMAIN channels = 1..n /\ DOMAIN readers = 1..n
    OBVIOUS
<1>2. PICK done : done = [monitor |-> Done, drain |-> Done]
    OBVIOUS
<1>3. done \in Readers
    BY <1>2 DEF Done, NotStarted, Readers, Goroutine, None
<1>4. reader' = [c \in 1..n |-> IF channels[c].stream = p THEN done ELSE readers[c]]
    BY <1>1, <1>2 DEF Abandoned
<1>5. \A c \in 1..n : readers[c] \in Readers
    BY <1>1
<1>6. reader' \in [1..n -> Readers]
    BY <1>3, <1>4, <1>5
<1>7. reader' \in Seq(Readers) /\ Len(reader') = n
    BY <1>6
<1>8. channel' = [c \in 1..n |-> IF channels[c].stream = p THEN [channels[c] EXCEPT !.holds = <<>>]
                                 ELSE channels[c]]
    BY <1>1 DEF Abandoned
<1>9. DOMAIN channel' = 1..n /\ Len(channel') = n
    BY <1>8
<1>10. ASSUME NEW c \in 1..n
       PROVE  /\ channel'[c].stream = channels[c].stream /\ channel'[c].sess = channels[c].sess
              /\ channel'[c].closed = channels[c].closed
              /\ channels[c].stream # p => channel'[c].holds = channels[c].holds
    <2>1. channels[c] \in Channel
        BY <1>1
    <2> QED BY <1>8, <2>1 DEF Channel
<1> QED BY <1>1, <1>2, <1>4, <1>7, <1>9, <1>10

(* What has been done to the channels of p only. *)
OfOthersSame(p, channels) ==
    /\ channels \in Seq(Channel) /\ DOMAIN channels = DOMAIN channel
    /\ \A c \in DOMAIN channel :
         /\ channels[c].stream = channel[c].stream /\ channels[c].sess = channel[c].sess
         /\ channel[c].stream # p => channels[c] = channel[c]

LEMMA OverNews ==
    ASSUME Inv, NewsInv, NEW p \in Stream, NEW channels, OfOthersSame(p, channels),
           Over(p), Abandoned(p, channels, reader), stream[p].at \notin {"publish", "sending"},
           seen' \in [Stream -> SUBSET Nat], \A q \in Stream \ {p} : seen'[q] = seen[q],
           \A q \in Stream \ {p} : PlaceKept(q),
           \A q \in Stream \ {p} : stream[q].sess # None => SaidKept(stream[q].sess)
    PROVE  NewsInv'
<1>1. /\ channel \in Seq(Channel) /\ reader \in Seq(Readers) /\ Len(reader) = Len(channel)
      /\ stream \in [Stream -> StreamRec] /\ DOMAIN reader = DOMAIN channel
      /\ channels \in Seq(Channel) /\ Len(channels) = Len(reader)
    BY DEF Inv, TypeInv, NewsInv, ReaderTypes, OfOthersSame
<1>2. /\ DOMAIN channel' = DOMAIN channel
      /\ reader' \in Seq(Readers) /\ Len(reader') = Len(channel')
      /\ \A c \in DOMAIN channel :
           /\ channel'[c].stream = channel[c].stream /\ channel'[c].sess = channel[c].sess
           /\ channel[c].stream # p =>
                /\ channel'[c].closed = channel[c].closed /\ channel'[c].holds = channel[c].holds
                /\ reader'[c] = reader[c]
           /\ channel[c].stream = p => reader'[c] = [monitor |-> Done, drain |-> Done]
    BY <1>1, AbandonedIs DEF OfOthersSame
<1>3. ReaderTypes'
    BY <1>2 DEF ReaderTypes
<1>4. /\ \A q \in Stream \ {p} : stream'[q] = stream[q] /\ (q \in gone => q \in gone')
      /\ stream'[p].at = "over" /\ stream'[p].sess = None /\ stream'[p].ch = None
    BY <1>1 DEF Over, NoSession
<1>5. Aside(p) /\ HoldsKept(p)
    BY <1>2, <1>4 DEF Aside, HoldsKept
<1>6. \A q \in Stream \ {p} : Follows(q)'
    BY <1>3, <1>5, OthersFollow DEF Silent
<1>7. Registered(p)' /\ Author(p)' /\ Informed(p)'
    BY <1>4 DEF Registered, Author, Informed, InTouch
<1>8. Served(p)'
    <2> SUFFICES ASSUME NEW c \in DOMAIN reader', channel'[c].stream = p PROVE Serves(c, p)'
        BY DEF Served
    <2>1. PICK done : done = [monitor |-> Done, drain |-> Done]
        OBVIOUS
    <2>2. reader'[c] = done
        BY <1>2, <2>1
    <2>3. done.monitor.on = None /\ done.drain.on = None /\ done.monitor.at = "done" /\ done.drain.at = "done"
        BY <2>1 DEF Done, NotStarted
    <2> QED BY <2>2, <2>3 DEF Serves, IsOn
<1> QED BY <1>3, <1>6, <1>7, <1>8 DEF NewsInv, Follows

---------------------------------------------------------------------------
(* The steps of a stream *)

LEMMA SameSessions ==
    ASSUME UNCHANGED session
    PROVE  /\ SessionsKept /\ \A s : SaidKept(s) /\ HistoryKept(s)
           /\ \A q : PlaceKept(q)
BY DEF SessionsKept, SaidKept, HistoryKept, PlaceKept

LEMMA Unabandoned ==
    ASSUME Inv, NEW p
    PROVE  OfOthersSame(p, channel)
BY DEF Inv, TypeInv, OfOthersSame

LEMMA CrashNews == Crash => NewsInv'
<1> SUFFICES ASSUME Crash PROVE NewsInv'
    OBVIOUS
<1>1. \A p \in Stream : /\ stream'[p].at = "recv" /\ stream'[p].sess = None /\ stream'[p].ch = None
                        /\ stream'[p].entry = None
    BY DEF Crash, NoSession
<1>2. reader' = <<>> /\ channel' = <<>> /\ seen' = [p \in Stream |-> {}]
    BY DEF Crash
<1>3. ReaderTypes'
    BY <1>2 DEF ReaderTypes
<1> QED BY <1>1, <1>2, <1>3 DEF NewsInv, Follows, Registered, Served, Author, Informed, InTouch

LEMMA checkSessionNews ==
    ASSUME Inv, NewsInv, NEW p \in Stream, checkSession(p)
    PROVE  NewsInv'
<1>1. PICK step \in {"checked", "cleanup"} : stream' = [stream EXCEPT ![p] = [stream[p] EXCEPT !.at = step]]
    BY DEF checkSession, Goto
<1>2. PICK r : r = [stream[p] EXCEPT !.at = step]
    OBVIOUS
<1>3. r.at = step /\ r.sess = stream[p].sess /\ r.ch = stream[p].ch
    BY <1>2 DEF Inv, TypeInv, StreamRec
<1>4. stream[p].at = "recv" /\ UNCHANGED <<session, gone, channel, reader, seen>>
    BY DEF checkSession, Waits, At
<1> QED BY <1>1, <1>2, <1>3, <1>4, SameSessions, StaysNews

LEMMA ReturnNews ==
    ASSUME Inv, NewsInv, NEW p \in Stream, Return(p)
    PROVE  NewsInv'
<1>1. PICK r : r = [stream[p] EXCEPT !.returns = TRUE, !.at = "cleanup"]
    OBVIOUS
<1>2. stream' = [stream EXCEPT ![p] = r]
    BY <1>1 DEF Inv, TypeInv, Return
<1>3. r.at = "cleanup" /\ r.sess = stream[p].sess /\ r.ch = stream[p].ch
    BY <1>1 DEF Inv, TypeInv, StreamRec
<1>4. stream[p].at \in {"recv", "checked"} /\ UNCHANGED <<session, gone, channel, reader, seen>>
    BY ReadyAt DEF Return, Inv
<1> QED BY <1>2, <1>3, <1>4, SameSessions, StaysNews

LEMMA UnlistNews ==
    ASSUME Inv, NewsInv, NEW p \in Stream, Unlist(p)
    PROVE  NewsInv'
<1>1. PICK r : r = [stream[p] EXCEPT !.at = "cleanup"]
    OBVIOUS
<1>2. stream' = [stream EXCEPT ![p] = r]
    BY <1>1 DEF Unlist, Goto
<1>3. r.at = "cleanup" /\ r.sess = stream[p].sess /\ r.ch = stream[p].ch
    BY <1>1 DEF Inv, TypeInv, StreamRec
<1>4. stream[p].at = "unlist" /\ UNCHANGED <<gone, channel, reader, seen>>
    BY DEF Unlist, At
<1>5. PICK s : s = stream[p].sess
    OBVIOUS
<1>6. s \in DOMAIN session
    BY <1>4, <1>5 DEF Inv, KnownInv, InSession
<1>7. PICK x : x = [session[s] EXCEPT !.listed = FALSE]
    OBVIOUS
<1>8. /\ x.history = session[s].history /\ x.active = session[s].active
      /\ x.cust = session[s].cust /\ x.agents = session[s].agents
    BY <1>6, <1>7, SessionIn DEF Inv, SessionRec
<1>9. session' = [session EXCEPT ![s] = x]
    BY <1>5, <1>7 DEF Unlist
<1>10. \A t \in DOMAIN session : session'[t] = IF t = s THEN x ELSE session[t]
    BY <1>9
<1>11. SessionsKept
    BY <1>8, <1>10 DEF SessionsKept, SaidKept
<1> QED BY <1>2, <1>3, <1>4, <1>11, StaysNews

LEMMA newSessionNews ==
    ASSUME Inv, NewsInv, NEW p \in Stream, newSession(p)
    PROVE  NewsInv'
<1>1. PICK s : s = Len(session) + 1
    OBVIOUS
<1>2. PICK n : n = Len(channel) + 1
    OBVIOUS
<1>3. PICK x : x = [active |-> TRUE, listed |-> TRUE, history |-> <<>>,
                    cust |-> n, agents |-> [a \in {} |-> None]]
    OBVIOUS
<1>4. /\ s \in Nat /\ s # None /\ s \notin DOMAIN session /\ DOMAIN session = 1..Len(session)
      /\ \A t \in DOMAIN session : Append(session, x)[t] = session[t]
      /\ Append(session, x)[s] = x
    BY <1>1 DEF Inv, TypeInv, None
<1>5. session' = Append(session, x) /\ MakeChannel(p, s) /\ Joins(p, s) /\ UNCHANGED <<gone, seen>>
    BY <1>2, <1>1, <1>3 DEF newSession
<1>6. stream[p].at \notin {"publish", "sending"} /\ p \notin AgentStream
    BY ReadyAt, StreamAssumption DEF newSession, Inv
<1>7. session'[s].cust = Len(channel) + 1
    <2>1. x.cust = n
        BY <1>3
    <2> QED BY <1>2, <1>4, <1>5, <2>1
<1>8. \A q \in Stream : stream[q].sess # None => session'[stream[q].sess] = session[stream[q].sess]
    BY <1>4, <1>5 DEF Inv, KnownInv
<1>9. \A q \in Stream \ {p} : PlaceKept(q)
    BY <1>8 DEF PlaceKept
<1>10. \A q \in Stream \ {p} : stream[q].sess # None => SaidKept(stream[q].sess)
    BY <1>8 DEF SaidKept
<1> QED BY <1>4, <1>5, <1>6, <1>7, <1>9, <1>10, JoinsNews

(* A customer in the session would be its customer. *)
LEMMA resumeSessionNews ==
    ASSUME Inv, NewsInv, NEW p \in Stream, resumeSession(p)
    PROVE  NewsInv'
<1>1. /\ stream[p].at \notin {"publish", "sending"} /\ p \notin AgentStream
    BY ReadyAt, StreamAssumption DEF resumeSession, Inv
<1>2. CASE Crash
    BY <1>2, CrashNews
<1>3. CASE Over(p) /\ Abandoned(p, channel, reader) /\ UNCHANGED <<session, seen>>
    BY <1>1, <1>3, SameSessions, Unabandoned, OverNews DEF NewsInv, ReaderTypes
<1>4. ASSUME NEW s \in DOMAIN session, session' = [session EXCEPT ![s].cust = Len(channel) + 1],
             session[s].cust = None, MakeChannel(p, s), Joins(p, s), UNCHANGED <<gone, seen>>
      PROVE  NewsInv'
    <2>1. s \in Nat /\ s # None
        BY DEF Inv, TypeInv, None
    <2>2. PICK n : n = Len(channel) + 1
        OBVIOUS
    <2>3. PICK x : x = [session[s] EXCEPT !.cust = n]
        OBVIOUS
    <2>4. /\ x.history = session[s].history /\ x.active = session[s].active
          /\ x.cust = n /\ x.agents = session[s].agents
        BY <2>3, SessionIn DEF Inv, SessionRec
    <2>5. \A t \in DOMAIN session : session'[t] = IF t = s THEN x ELSE session[t]
        BY <1>4, <2>2, <2>3
    <2>6. \A q \in Stream \ {p} : stream[q].sess # None => stream[q].sess \in DOMAIN session
        BY DEF Inv, KnownInv
    <2>7. \A q \in Stream \ {p} : stream[q].sess # None => SaidKept(stream[q].sess)
        BY <2>4, <2>5, <2>6 DEF SaidKept
    <2>8. \A q \in CustomerStream : stream[q].sess # None /\ stream[q].at # "join" => stream[q].sess # s
        BY <1>4 DEF NewsInv, Follows, Registered, Sess, Stream
    <2>9. \A q \in Stream \ {p} : PlaceKept(q)
        <3> SUFFICES ASSUME NEW q \in Stream \ {p}, stream[q].sess # None, stream[q].at # "join"
                     PROVE  LET t == stream[q].sess
                            IN  /\ q \in CustomerStream => session'[t].cust = session[t].cust
                                /\ q \in AgentStream /\ q \in DOMAIN session[t].agents =>
                                     /\ q \in DOMAIN session'[t].agents
                                     /\ session'[t].agents[q] = session[t].agents[q]
            BY DEF PlaceKept
        <3> QED BY <2>4, <2>5, <2>6, <2>8
    <2>10. session'[s].cust = Len(channel) + 1
        BY <2>2, <2>4, <2>5
    <2> QED BY <1>1, <1>4, <2>1, <2>7, <2>9, <2>10, JoinsNews
<1> QED BY <1>2, <1>3, <1>4 DEF resumeSession

LEMMA acceptSessionNews ==
    ASSUME Inv, NewsInv, NEW p \in Stream, acceptSession(p)
    PROVE  NewsInv'
<1>1. /\ stream[p].at \notin {"publish", "sending"} /\ p \in AgentStream
      /\ UNCHANGED <<session, seen>>
    BY ReadyAt DEF acceptSession, Inv
<1>2. CASE Over(p) /\ Abandoned(p, channel, reader)
    BY <1>1, <1>2, SameSessions, Unabandoned, OverNews DEF NewsInv, ReaderTypes
<1>3. ASSUME NEW s, stream' = [stream EXCEPT ![p].at = "join", ![p].sess = s],
             UNCHANGED <<gone, channel, reader>>
      PROVE  NewsInv'
    <2>1. PICK r : r = [stream[p] EXCEPT !.at = "join", !.sess = s]
        OBVIOUS
    <2>2. r.at = "join" /\ r.ch = stream[p].ch
        BY <2>1 DEF Inv, TypeInv, StreamRec
    <2>3. stream' = [stream EXCEPT ![p] = r]
        BY <1>3, <2>1 DEF Inv, TypeInv
    <2>4. Aside(p) /\ HoldsKept(p) /\ ReaderTypes' /\ stream'[p] = r /\ Follows(p)
        BY <1>1, <1>3, <2>3, StaysAside DEF NewsInv
    <2>5. \A q \in Stream \ {p} : Follows(q)'
        BY <1>1, <2>4, SameSessions, OthersFollow DEF Silent
    <2>6. Registered(p)' /\ Author(p)' /\ Informed(p)'
        BY <1>3, <2>2, <2>4 DEF Follows, Registered, Author, Informed, InTouch
    <2>7. Served(p)'
        BY <1>3, <2>2, <2>4 DEF Follows, Served, Serves, IsOn
    <2> QED BY <2>4, <2>5, <2>6, <2>7 DEF NewsInv, Follows
<1> QED BY <1>2, <1>3 DEF acceptSession

LEMMA JoinSessionNews ==
    ASSUME Inv, NewsInv, NEW p \in Stream, JoinSession(p)
    PROVE  NewsInv'
<1>1. PICK s : s = stream[p].sess
    OBVIOUS
<1>2. /\ stream[p].at = "join" /\ s \in DOMAIN session /\ s # None /\ s \in Nat
      /\ UNCHANGED <<gone, seen>> /\ MakeChannel(p, s) /\ Joins(p, s)
    BY <1>1 DEF JoinSession, At, Inv, TypeInv, KnownInv, InSession, None
<1>3. p \in AgentStream /\ p \notin CustomerStream
    BY <1>2, StreamAssumption DEF Inv, KnownInv
<1>4. PICK n : n = Len(channel) + 1
    OBVIOUS
<1>5. PICK f : f = [a \in DOMAIN session[s].agents \cup {p} |->
                      IF a = p THEN n ELSE session[s].agents[a]]
    OBVIOUS
<1>6. PICK x : x = [session[s] EXCEPT !.agents = f]
    OBVIOUS
<1>7. /\ x.history = session[s].history /\ x.active = session[s].active
      /\ x.cust = session[s].cust /\ x.agents = f
    BY <1>2, <1>6, SessionIn DEF Inv, SessionRec
<1>8. session' = [session EXCEPT ![s] = x]
    BY <1>1, <1>2, <1>4, <1>5, <1>6 DEF JoinSession
<1>9. \A t \in DOMAIN session : session'[t] = IF t = s THEN x ELSE session[t]
    BY <1>8
<1>10. \A q \in Stream \ {p} : stream[q].sess # None => stream[q].sess \in DOMAIN session
    BY DEF Inv, KnownInv
<1>11. \A q \in Stream \ {p} : stream[q].sess # None => SaidKept(stream[q].sess)
    BY <1>7, <1>9, <1>10 DEF SaidKept
<1>12. \A q \in Stream \ {p} : PlaceKept(q)
    BY <1>5, <1>7, <1>9, <1>10 DEF PlaceKept
<1>13. p \in DOMAIN session'[s].agents /\ session'[s].agents[p] = Len(channel) + 1
    BY <1>2, <1>4, <1>5, <1>7, <1>9
<1> QED BY <1>2, <1>3, <1>11, <1>12, <1>13, JoinsNews

(* The snapshot has all that was said so far, and what the monitor starts    *)
(* with comes after.                                                         *)
LEMMA ReadingIs ==
    ASSUME Inv, NewsInv, NEW o, NEW channels, OfOthersSame(o, channels), NEW c \in DOMAIN channel
    PROVE  /\ Reading(channels, c) \in Goroutine
           /\ Reading(channels, c).on \in {None, c}
           /\ Reading(channels, c).at \in {"wait", "done"}
           /\ Reading(channels, c).at = "wait" => Reading(channels, c).on = c
           /\ Reading(channels, c).on # None => Reading(channels, c).at = "wait"
           /\ ~channels[c].closed => Reading(channels, c).on = c
BY DEF Reading, Done, NotStarted, Goroutine, None, Inv, TypeInv

LEMMA SnapshotNews ==
    ASSUME Inv, NewsInv, NEW p \in Stream, Snapshot(p)
    PROVE  NewsInv'
<1>1. /\ stream[p].at = "snapshot" /\ UNCHANGED <<session, gone, channel>>
      /\ stream[p].sess # None /\ stream[p].sess \in DOMAIN session /\ Follows(p) /\ ReaderTypes
      /\ stream[p].ch \in DOMAIN channel /\ channel[stream[p].ch].stream = p
    BY DEF Snapshot, At, Inv, KnownInv, InSession, NewsInv, Follows, Registered
<1>2. CASE /\ stream' = [stream EXCEPT ![p].at = "cleanup", ![p].returns = TRUE]
           /\ UNCHANGED <<seen, reader>>
    <2>1. PICK r : r = [stream[p] EXCEPT !.returns = TRUE, !.at = "cleanup"]
        OBVIOUS
    <2>2. stream' = [stream EXCEPT ![p] = r]
        BY <1>2, <2>1 DEF Inv, TypeInv
    <2>3. r.at = "cleanup" /\ r.sess = stream[p].sess /\ r.ch = stream[p].ch
        BY <2>1 DEF Inv, TypeInv, StreamRec
    <2> QED BY <1>1, <1>2, <2>2, <2>3, SameSessions, StaysNews
<1>3. CASE /\ Goto(p, "recv")
           /\ seen' = [seen EXCEPT ![p] = DOMAIN Sess(p).history
                                            \cup (IF Sess(p).active THEN {} ELSE {End})]
           /\ reader' = [reader EXCEPT ![stream[p].ch].monitor = Reading(channel, stream[p].ch)]
    <2>1. PICK r : r = [stream[p] EXCEPT !.at = "recv"]
        OBVIOUS
    <2>2. r.at = "recv" /\ r.sess = stream[p].sess /\ r.ch = stream[p].ch
        BY <2>1 DEF Inv, TypeInv, StreamRec
    <2>3. stream'[p] = r /\ \A q \in Stream \ {p} : stream'[q] = stream[q]
        BY <1>3, <2>1 DEF Goto, Inv, TypeInv
    <2>4. PICK ch : ch = stream[p].ch
        OBVIOUS
    <2>5. PICK g : g = Reading(channel, ch)
        OBVIOUS
    <2>6. g \in Goroutine /\ g.on \in {None, ch} /\ g.at \in {"wait", "done"} /\ (g.at = "wait" => g.on = ch)
        BY <1>1, <2>4, <2>5, ReadingIs, Unabandoned
    <2>7. PICK d : d = [reader[ch] EXCEPT !.monitor = g]
        OBVIOUS
    <2>8. ch \in DOMAIN reader /\ reader[ch] \in Readers /\ DOMAIN reader = DOMAIN channel
        BY <1>1, <2>4 DEF ReaderTypes
    <2>9. d \in Readers /\ d.monitor = g /\ d.drain = reader[ch].drain
        BY <2>6, <2>7, <2>8 DEF Readers
    <2>10. reader' = [reader EXCEPT ![ch] = d]
        BY <1>3, <2>4, <2>5, <2>7
    <2>11. /\ reader' \in Seq(Readers) /\ Len(reader') = Len(channel') /\ DOMAIN reader' = DOMAIN reader
           /\ \A c \in DOMAIN reader : reader'[c] = IF c = ch THEN d ELSE reader[c]
        BY <1>1, <2>8, <2>9, <2>10 DEF ReaderTypes
    <2>12. DOMAIN Sess(p).history \cup {End} \subseteq Nat
        BY <1>1, SessionIn DEF Inv, SessionRec, Sess, End
    <2>13. /\ seen' \in [Stream -> SUBSET Nat] /\ \A q \in Stream \ {p} : seen'[q] = seen[q]
           /\ seen'[p] = DOMAIN Sess(p).history \cup (IF Sess(p).active THEN {} ELSE {End})
        BY <1>1, <1>3, <2>12 DEF ReaderTypes
    <2>14. ReaderTypes'
        BY <2>11, <2>13 DEF ReaderTypes
    <2>15. Aside(p) /\ HoldsKept(p)
        BY <1>1, <2>3, <2>4, <2>8, <2>11, <2>13 DEF Aside, HoldsKept
    <2>16. \A q \in Stream \ {p} : Follows(q)'
        BY <1>1, <2>14, <2>15, SameSessions, OthersFollow DEF Silent
    <2>17. Registered(p)' /\ Author(p)'
        <3>1. reader'[ch].drain = reader[ch].drain
            BY <2>8, <2>9, <2>11
        <3> QED BY <1>1, <2>2, <2>3, <2>4, <3>1 DEF Follows, Registered, Author, Sess
    <2>18. Served(p)'
        <3> SUFFICES ASSUME NEW c \in DOMAIN reader, channel[c].stream = p PROVE Serves(c, p)'
            BY <1>1, <2>11 DEF Served
        <3>1. Serves(c, p)
            BY <1>1 DEF Follows, Served
        <3>2. CASE c = ch
            BY <1>1, <2>2, <2>3, <2>4, <2>6, <2>9, <2>11, <3>1, <3>2 DEF Serves, IsOn, Follows, Registered
        <3>3. CASE c # ch
            BY <1>1, <2>2, <2>3, <2>11, <3>1, <3>3 DEF Serves, IsOn
        <3> QED BY <3>2, <3>3
    <2>19. Informed(p)'
        <3> SUFFICES ASSUME NEW i, IsDue(p, i)' PROVE i \in seen'[p]
            BY DEF Informed, Shown
        <3> QED BY <1>1, <2>2, <2>3, <2>13 DEF IsDue, Sess
    <2> QED BY <2>14, <2>16, <2>17, <2>18, <2>19 DEF NewsInv, Follows
<1> QED BY <1>2, <1>3 DEF Snapshot

---------------------------------------------------------------------------
(* Saying something: whatever is due, and not on its way any more because p  *)
(* has sent it or new because p has said it, is on its way then.             *)
PublicStep(p, r) ==
    /\ stream' = [stream EXCEPT ![p] = r] /\ r.ch = stream[p].ch /\ r.sess = stream[p].sess
    /\ stream[p].at # "join" /\ r.at # "join"
    /\ r.at \in {"recv", "checked", "publish", "sending"} =>
         stream[p].at \in {"recv", "checked", "publish", "sending"}
    /\ UNCHANGED <<gone, reader, seen>>
    /\ DOMAIN channel' = DOMAIN channel /\ Len(channel') = Len(channel)
    /\ \A c \in DOMAIN channel :
         /\ channel'[c].stream = channel[c].stream /\ channel'[c].sess = channel[c].sess
         /\ channel'[c].closed = channel[c].closed
    /\ \A s \in DOMAIN session :
         /\ HistoryKept(s)
         /\ session'[s].cust = session[s].cust /\ session'[s].agents = session[s].agents

LEMMA PublicNews ==
    ASSUME Inv, NewsInv, NEW p \in Stream, NEW r, PublicStep(p, r), Author(p)',
           \A q \in Stream : InTouch(q) => \A i : IsDue(q, i)' =>
               /\ IsDue(q, i) \/ Shown(q, i)'
               /\ Sends(p, q, i) => Shown(q, i)'
               /\ Held(q, i) => Shown(q, i)'
    PROVE  NewsInv'
<1>1. /\ stream'[p] = r /\ \A q \in Stream \ {p} : stream'[q] = stream[q]
      /\ \A q \in Stream : stream'[q].sess = stream[q].sess /\ stream'[q].ch = stream[q].ch
    BY DEF PublicStep, Inv, TypeInv
<1>2. ReaderTypes' /\ ReaderTypes /\ DOMAIN reader = DOMAIN channel
    BY ReaderDomain DEF PublicStep, NewsInv, ReaderTypes
<1>3. Aside(p)
    BY <1>1 DEF Aside, PublicStep
<1>4. \A q \in Stream : stream[q].sess # None => stream[q].sess \in DOMAIN session
    BY DEF Inv, KnownInv
<1>5. ASSUME NEW q \in Stream PROVE Registered(q)'
    <2>1. Registered(q) /\ (stream'[q].at # "join" => stream[q].at # "join")
        BY <1>1 DEF NewsInv, Follows, PublicStep
    <2>2. stream[q].ch # None => /\ channel'[stream[q].ch].stream = channel[stream[q].ch].stream
                                 /\ channel'[stream[q].ch].sess = channel[stream[q].ch].sess
                                 /\ channel'[stream[q].ch].closed = channel[stream[q].ch].closed
        BY <2>1 DEF Registered, PublicStep
    <2> QED BY <1>1, <1>4, <2>1, <2>2 DEF Registered, PublicStep, Sess
<1>6. ASSUME NEW q \in Stream PROVE Served(q)'
    <2> SUFFICES ASSUME NEW c \in DOMAIN reader, channel[c].stream = q PROVE Serves(c, q)'
        BY <1>2 DEF Served, PublicStep
    <2>1. Serves(c, q)
        BY DEF NewsInv, Follows, Served
    <2> QED BY <1>1, <2>1 DEF Serves, IsOn, PublicStep
<1>7. ASSUME NEW q \in Stream PROVE Author(q)'
    <2>1. CASE q = p
        BY <2>1
    <2>2. CASE q # p
        <3>1. stream[q].at \in {"publish", "sending"} => HistoryKept(stream[q].sess)
            BY <1>4 DEF PublicStep, Inv, KnownInv, InSession
        <3> QED BY <1>3, <2>2, <3>1, OthersAuthor DEF NewsInv, Follows
    <2> QED BY <2>1, <2>2
<1>8. ASSUME NEW q \in Stream PROVE Informed(q)'
    <2> SUFFICES ASSUME InTouch(q)', NEW i, IsDue(q, i)' PROVE Shown(q, i)'
        BY DEF Informed
    <2>1. InTouch(q)
        BY <1>1 DEF InTouch, PublicStep
    <2>2. IsDue(q, i) => Shown(q, i)
        BY <2>1 DEF NewsInv, Follows, Informed
    <2>3. (i \in seen[q] => i \in seen'[q]) /\ (Told(q, i) => Told(q, i)')
        <3> SUFFICES ASSUME NEW c \in DOMAIN reader, channel[c].stream = q, OfSession(c),
                            reader[c].monitor.at = "show"
                     PROVE  OfSession(c)' /\ channel'[c].stream = q
            BY <1>2 DEF Told, PublicStep
        <3>1. PICK o : o = reader[c].monitor.on
            OBVIOUS
        <3>2. o \in DOMAIN channel
            BY <1>2, <3>1 DEF NewsInv, Follows, Served, Serves, IsOn
        <3>3. channel'[o].sess = channel[o].sess /\ channel'[c].stream = channel[c].stream
            BY <1>2, <3>2 DEF PublicStep
        <3> QED BY <1>1, <1>2, <3>1, <3>3 DEF OfSession, PublicStep
    <2>4. \A o \in Stream \ {p} : Sends(o, q, i) => Sends(o, q, i)'
        BY <1>1 DEF Sends
    <2> QED BY <2>1, <2>2, <2>3, <2>4 DEF Shown
<1> QED BY <1>2, <1>5, <1>6, <1>7, <1>8 DEF NewsInv, Follows

(* Entry n is new in session s, which is x then. *)
SaysStep(p, r, n, s, x) ==
    /\ stream' = [stream EXCEPT ![p] = r] /\ r.ch = stream[p].ch /\ r.sess = s
    /\ s \in DOMAIN session /\ stream[p].sess = s /\ stream[p].at \in {"recv", "checked"}
    /\ r.at = "publish" /\ r.entry = n
    /\ UNCHANGED <<gone, channel, reader, seen>>
    /\ session' = [session EXCEPT ![s] = x]
    /\ x.cust = session[s].cust /\ x.agents = session[s].agents
    /\ \A i \in DOMAIN session[s].history :
         i \in DOMAIN x.history /\ x.history[i] = session[s].history[i]
    /\ \A i \in DOMAIN x.history : i \in DOMAIN session[s].history \/ i = n
    /\ ~x.active => ~session[s].active \/ n = End
    /\ n # End => n \in DOMAIN x.history /\ x.history[n] = p

LEMMA SaysNews ==
    ASSUME Inv, NewsInv, NEW p \in Stream, NEW r, NEW n, NEW s, NEW x, SaysStep(p, r, n, s, x)
    PROVE  NewsInv'
<1>1. \A t \in DOMAIN session : session'[t] = IF t = s THEN x ELSE session[t]
    BY DEF SaysStep
<1>2. PublicStep(p, r)
    BY <1>1 DEF PublicStep, HistoryKept, SaysStep
<1>3. stream'[p] = r /\ \A q \in Stream \ {p} : stream'[q] = stream[q]
    BY DEF Inv, TypeInv, SaysStep
<1>4. Author(p)'
    BY <1>1, <1>3 DEF Author, Sess, SaysStep
<1>5. ASSUME NEW q \in Stream, InTouch(q), NEW i, IsDue(q, i)'
      PROVE  IsDue(q, i) \/ Shown(q, i)'
    <2>1. stream'[q].sess = stream[q].sess /\ stream[q].sess \in DOMAIN session
        BY <1>3, <1>5 DEF InTouch, Inv, KnownInv, SaysStep
    <2>2. CASE i = n /\ stream[q].sess = s
        <3>1. Sends(p, q, i)'
            BY <1>3, <2>1, <2>2 DEF Sends, SaysStep
        <3> QED BY <3>1 DEF Shown
    <2>3. CASE ~(i = n /\ stream[q].sess = s)
        <3>1. IsDue(q, i)
            <4>1. CASE stream[q].sess = s
                BY <1>1, <1>5, <2>1, <2>3, <4>1 DEF IsDue, Sess, SaysStep
            <4>2. CASE stream[q].sess # s
                BY <1>1, <1>5, <2>1, <4>2 DEF IsDue, Sess
            <4> QED BY <4>1, <4>2
        <3> QED BY <3>1
    <2> QED BY <2>2, <2>3
<1>6. ASSUME NEW q \in Stream, NEW i
      PROVE  ~Sends(p, q, i) /\ (Held(q, i) => Shown(q, i)')
    <2>1. stream'[q].ch = stream[q].ch
        BY <1>3 DEF SaysStep
    <2> QED BY <2>1 DEF Sends, Held, Shown, SaysStep
<1> QED BY <1>2, <1>4, <1>5, <1>6, PublicNews

LEMMA MessageNews ==
    ASSUME Inv, NewsInv, NEW p \in Stream, Message(p)
    PROVE  NewsInv'
<1>1. PICK s : s = stream[p].sess
    OBVIOUS
<1>2. /\ stream[p].at \in {"recv", "checked"} /\ s \in DOMAIN session
      /\ session[s] \in SessionRec /\ UNCHANGED <<gone, channel, reader, seen>>
    BY <1>1, ReadyAt, SessionIn DEF Message, Inv, KnownInv
<1>3. CASE UNCHANGED session /\ stream' = [stream EXCEPT ![p].at = "cleanup", ![p].returns = TRUE]
    <2>1. PICK r : r = [stream[p] EXCEPT !.at = "cleanup", !.returns = TRUE]
        OBVIOUS
    <2>2. stream' = [stream EXCEPT ![p] = r]
        BY <1>3, <2>1 DEF Inv, TypeInv
    <2>3. r.at = "cleanup" /\ r.sess = stream[p].sess /\ r.ch = stream[p].ch
        BY <2>1 DEF Inv, TypeInv, StreamRec
    <2> QED BY <1>2, <1>3, <2>2, <2>3, SameSessions, StaysNews
<1>4. CASE /\ session' = [session EXCEPT ![stream[p].sess].history = Append(@, p)]
           /\ stream' = [stream EXCEPT ![p].at = "publish", ![p].entry = Len(Sess(p).history) + 1]
    <2>1. session[s].history \in Seq(Stream)
        BY <1>2 DEF SessionRec
    <2>2. PICK n, h : n = Len(session[s].history) + 1 /\ h = Append(session[s].history, p)
        OBVIOUS
    <2>3. /\ n \in DOMAIN h /\ h[n] = p
          /\ \A i \in DOMAIN session[s].history : i \in DOMAIN h /\ h[i] = session[s].history[i]
          /\ \A i \in DOMAIN h : i \in DOMAIN session[s].history \/ i = n
        BY <2>1, <2>2
    <2>4. PICK x : x = [session[s] EXCEPT !.history = h]
        OBVIOUS
    <2>5. /\ x.history = h /\ x.active = session[s].active
          /\ x.cust = session[s].cust /\ x.agents = session[s].agents
        BY <1>2, <2>4 DEF SessionRec
    <2>6. session' = [session EXCEPT ![s] = x]
        BY <1>1, <1>4, <2>2, <2>4
    <2>7. PICK r : r = [stream[p] EXCEPT !.at = "publish", !.entry = n]
        OBVIOUS
    <2>8. r.at = "publish" /\ r.entry = n /\ r.sess = s /\ r.ch = stream[p].ch
        BY <1>1, <2>7 DEF Inv, TypeInv, StreamRec
    <2>9. stream' = [stream EXCEPT ![p] = r]
        BY <1>1, <1>4, <2>2, <2>7 DEF Inv, TypeInv, Sess
    <2>10. /\ \A i \in DOMAIN session[s].history :
                i \in DOMAIN x.history /\ x.history[i] = session[s].history[i]
           /\ \A i \in DOMAIN x.history : i \in DOMAIN session[s].history \/ i = n
           /\ ~x.active => ~session[s].active \/ n = End
           /\ n # End => n \in DOMAIN x.history /\ x.history[n] = p
        BY <2>3, <2>5
    <2>11. SaysStep(p, r, n, s, x)
        BY <1>1, <1>2, <2>5, <2>6, <2>8, <2>9, <2>10 DEF SaysStep
    <2> QED BY <2>11, SaysNews
<1> QED BY <1>3, <1>4 DEF Message

LEMMA closeSessionNews ==
    ASSUME Inv, NewsInv, NEW p \in Stream, closeSession(p)
    PROVE  NewsInv'
<1>1. PICK s : s = stream[p].sess
    OBVIOUS
<1>2. /\ stream[p].at \in {"recv", "checked"} /\ s \in DOMAIN session
      /\ session[s] \in SessionRec /\ UNCHANGED <<gone, channel, reader, seen>>
    BY <1>1, ReadyAt, SessionIn DEF closeSession, Inv, KnownInv
<1>3. PICK x : x = [session[s] EXCEPT !.active = FALSE]
    OBVIOUS
<1>4. /\ x.history = session[s].history /\ x.active = FALSE
      /\ x.cust = session[s].cust /\ x.agents = session[s].agents
    BY <1>2, <1>3 DEF SessionRec
<1>5. session' = [session EXCEPT ![s] = x]
    BY <1>1, <1>3 DEF closeSession
<1>6. CASE session[s].active
    <2>1. PICK r : r = [stream[p] EXCEPT !.at = "publish", !.entry = End]
        OBVIOUS
    <2>2. r.at = "publish" /\ r.entry = End /\ r.sess = s /\ r.ch = stream[p].ch
        BY <1>1, <2>1 DEF Inv, TypeInv, StreamRec
    <2>3. stream' = [stream EXCEPT ![p] = r]
        BY <1>1, <1>6, <2>1 DEF Inv, TypeInv, Sess, closeSession
    <2>4. SaysStep(p, r, End, s, x)
        BY <1>1, <1>2, <1>4, <1>5, <2>2, <2>3 DEF SaysStep
    <2> QED BY <2>4, SaysNews
<1>7. CASE ~session[s].active
    <2>1. PICK r : r = [stream[p] EXCEPT !.at = "cleanup"]
        OBVIOUS
    <2>2. r.at = "cleanup" /\ r.sess = stream[p].sess /\ r.ch = stream[p].ch
        BY <1>1, <2>1 DEF Inv, TypeInv, StreamRec
    <2>3. stream' = [stream EXCEPT ![p] = r]
        BY <1>1, <1>7, <2>1 DEF Goto, Sess, closeSession
    <2>4. \A t \in DOMAIN session : session'[t] = IF t = s THEN x ELSE session[t]
        BY <1>5
    <2>5. session[s].active = FALSE
        BY <1>2, <1>7 DEF SessionRec
    <2>6. SessionsKept
        BY <1>4, <2>4, <2>5 DEF SessionsKept, SaidKept
    <2> QED BY <1>2, <2>2, <2>3, <2>6, StaysNews
<1> QED BY <1>6, <1>7

(* Whom p has not sent its entry yet is told later; the others hold it. *)
LEMMA SendsToNews ==
    ASSUME Inv, NewsInv, NEW p \in Stream, NEW rest, SendTo(p, rest),
           stream[p].at \in {"publish", "sending"}, UNCHANGED <<session, gone, reader, seen>>,
           DOMAIN channel' = DOMAIN channel, Len(channel') = Len(channel),
           \A c \in DOMAIN channel :
               /\ channel'[c].stream = channel[c].stream /\ channel'[c].sess = channel[c].sess
               /\ channel'[c].closed = channel[c].closed,
           \A q \in Stream : InTouch(q) => \A i : IsDue(q, i) =>
               /\ Sends(p, q, i) => stream[q].ch \in rest \/ channel'[stream[q].ch].holds = <<i>>
               /\ Held(q, i) => channel'[stream[q].ch].holds = <<i>>
    PROVE  NewsInv'
<1>1. PICK r : stream' = [stream EXCEPT ![p] = r]
              /\ r = IF rest # {} THEN [stream[p] EXCEPT !.at = "sending", !.to = rest]
                     ELSE [stream[p] EXCEPT !.to = {}, !.entry = None,
                             !.at = IF stream[p].entry = End THEN "unlist" ELSE "recv"]
    BY DEF SendTo, Inv, TypeInv
<1>2. /\ r.sess = stream[p].sess /\ r.ch = stream[p].ch /\ r.at \in {"sending", "unlist", "recv"}
      /\ rest # {} => r.at = "sending" /\ r.entry = stream[p].entry /\ r.to = rest
      /\ rest = {} => r.at \in {"unlist", "recv"}
    <2>1. stream[p] \in StreamRec
        BY DEF Inv, TypeInv
    <2>2. CASE rest = {}
        BY <1>1, <2>1, <2>2 DEF StreamRec
    <2>3. CASE rest # {}
        BY <1>1, <2>1, <2>3 DEF StreamRec
    <2> QED BY <2>2, <2>3
<1>3. stream'[p] = r /\ \A q \in Stream \ {p} : stream'[q] = stream[q]
    BY <1>1 DEF Inv, TypeInv
<1>4. PublicStep(p, r)
    BY <1>1, <1>2, SameSessions DEF PublicStep, SessionsKept
<1>5. Author(p)'
    BY <1>2, <1>3 DEF NewsInv, Follows, Author, Sess
<1>6. ASSUME NEW q \in Stream, InTouch(q), NEW i, IsDue(q, i)'
      PROVE  /\ IsDue(q, i)
             /\ Sends(p, q, i) => Shown(q, i)'
             /\ Held(q, i) => Shown(q, i)'
    <2>1. stream'[q].sess = stream[q].sess /\ stream'[q].ch = stream[q].ch
        BY <1>2, <1>3
    <2>2. IsDue(q, i)
        BY <1>6, <2>1 DEF IsDue, Sess
    <2>3. channel'[stream[q].ch].holds = <<i>> => Shown(q, i)'
        BY <2>1 DEF Shown, Held
    <2>4. Sends(p, q, i) /\ stream[q].ch \in rest => Shown(q, i)'
        <3> SUFFICES ASSUME Sends(p, q, i), stream[q].ch \in rest PROVE Sends(p, q, i)'
            BY DEF Shown
        <3> QED BY <1>2, <1>3, <2>1 DEF Sends
    <2> QED BY <1>6, <2>2, <2>3, <2>4
<1> QED BY <1>4, <1>5, <1>6, PublicNews

(* Publish finds everyone the entry is due to. *)
LEMMA PublishNews ==
    ASSUME Inv, NewsInv, NEW p \in Stream, Publish(p)
    PROVE  NewsInv'
<1>1. /\ stream[p].at = "publish" /\ SendTo(p, Recipients(p))
      /\ UNCHANGED <<session, gone, channel, reader, seen>>
    BY DEF Publish, At
<1>2. ASSUME NEW q \in Stream, InTouch(q), NEW i, IsDue(q, i), Sends(p, q, i)
      PROVE  stream[q].ch \in Recipients(p)
    <2>1. PICK s : s = stream[p].sess
        OBVIOUS
    <2>2. /\ stream[p].entry = i /\ stream[q].sess = s /\ s # None
          /\ stream[q].at # "join"
        BY <1>1, <1>2, <2>1 DEF Sends, InTouch
    <2>3. /\ stream[q].ch # None
          /\ q \in CustomerStream => session[s].cust = stream[q].ch
          /\ q \in AgentStream => q \in DOMAIN session[s].agents /\ session[s].agents[q] = stream[q].ch
        BY <2>2 DEF NewsInv, Follows, Registered, Sess
    <2>4. CASE i = End
        <3>1. q \in AgentStream
            <4>1. session[s] \in SessionRec
                BY <2>1, <2>2, SessionIn DEF Inv, KnownInv
            <4>2. 0 \notin DOMAIN session[s].history
                BY <4>1 DEF SessionRec
            <4> QED BY <1>2, <2>2, <2>4, <4>2 DEF IsDue, Sess, End
        <3> QED BY <2>1, <2>2, <2>3, <2>4, <3>1 DEF Recipients, Range, Sess
    <2>5. CASE i # End
        <3>1. i \in DOMAIN session[s].history /\ session[s].history[i] = p
            BY <1>1, <2>1, <2>2, <2>5 DEF NewsInv, Follows, Author, Sess
        <3>2. CASE q \in CustomerStream
            <4>1. p \in AgentStream
                BY <1>2, <2>2, <2>5, <3>1, <3>2 DEF IsDue, Sess
            <4> QED BY <2>1, <2>2, <2>3, <2>5, <3>2, <4>1 DEF Recipients, Sess
        <3>3. CASE q \notin CustomerStream
            <4>1. q # p /\ q \in AgentStream
                BY <1>2, <2>2, <2>5, <3>1, <3>3 DEF IsDue, Sess, Stream
            <4> QED BY <2>1, <2>2, <2>3, <2>5, <4>1 DEF Recipients, Sess
        <3> QED BY <3>2, <3>3
    <2> QED BY <2>4, <2>5
<1> QED BY <1>1, <1>2, SendsToNews DEF Held

(* What is sent is held by the channel, unless the listener is gone. *)
LEMMA SendNews ==
    ASSUME Inv, NewsInv, NEW p \in Stream, Send(p)
    PROVE  NewsInv'
<1>1. CASE Crash
    BY <1>1, CrashNews
<1>2. CASE ~Crash
    <2>1. PICK c \in stream[p].to :
            /\ \/ /\ channel[c].holds = <<>> /\ channel[c].stream \notin gone
                  /\ channel' = [channel EXCEPT ![c].holds = <<stream[p].entry>>]
               \/ channel[c].stream \in gone /\ UNCHANGED channel
            /\ SendTo(p, stream[p].to \ {c})
            /\ UNCHANGED <<session, gone, reader, seen>>
        BY <1>2 DEF Send
    <2>2. stream[p].at = "sending"
        BY DEF Send, At
    <2>3. /\ DOMAIN channel' = DOMAIN channel /\ Len(channel') = Len(channel)
          /\ \A d \in DOMAIN channel :
               /\ channel'[d].stream = channel[d].stream /\ channel'[d].sess = channel[d].sess
               /\ channel'[d].closed = channel[d].closed
               /\ d # c => channel'[d].holds = channel[d].holds
               /\ d = c /\ channel[c].stream \notin gone =>
                    channel[c].holds = <<>> /\ channel'[c].holds = <<stream[p].entry>>
        <3>1. CASE UNCHANGED channel /\ channel[c].stream \in gone
            BY <3>1
        <3>2. CASE channel' = [channel EXCEPT ![c].holds = <<stream[p].entry>>] /\ channel[c].holds = <<>>
            <4>1. PICK h : h = <<stream[p].entry>>
                OBVIOUS
            <4>2. channel' = [channel EXCEPT ![c].holds = h]
                BY <3>2, <4>1
            <4>3. channel \in Seq(Channel) /\ \A d \in DOMAIN channel : channel[d] \in Channel
                BY ChannelIn DEF Inv, TypeInv
            <4>4. DOMAIN channel' = DOMAIN channel /\ Len(channel') = Len(channel)
                BY <4>2, <4>3
            <4>5. \A d \in DOMAIN channel : channel'[d] = IF d = c THEN [channel[d] EXCEPT !.holds = h] ELSE channel[d]
                BY <4>2, <4>3
            <4> QED BY <3>2, <4>1, <4>3, <4>4, <4>5 DEF Channel
        <3> QED BY <2>1, <3>1, <3>2
    <2>4. ASSUME NEW q \in Stream, InTouch(q), NEW i
          PROVE  /\ Sends(p, q, i) => stream[q].ch \in stream[p].to \ {c} \/ channel'[stream[q].ch].holds = <<i>>
                 /\ Held(q, i) => channel'[stream[q].ch].holds = <<i>>
        <3>1. stream[q].ch \in DOMAIN channel /\ channel[stream[q].ch].stream = q /\ q \notin gone
            BY <2>4 DEF NewsInv, Follows, Registered, InTouch
        <3>2. CASE stream[q].ch = c
            <4>1. channel[c].holds = <<>> /\ channel'[c].holds = <<stream[p].entry>>
                BY <2>3, <3>1, <3>2
            <4>2. <<>> # <<i>>
                OBVIOUS
            <4> QED BY <3>2, <4>1, <4>2 DEF Sends, Held
        <3>3. CASE stream[q].ch # c
            BY <2>2, <2>3, <3>1, <3>3 DEF Sends, Held
        <3> QED BY <3>2, <3>3
    <2>5. PICK rest : rest = stream[p].to \ {c}
        OBVIOUS
    <2>6. \A q \in Stream : InTouch(q) => \A i : IsDue(q, i) =>
            /\ Sends(p, q, i) => stream[q].ch \in rest \/ channel'[stream[q].ch].holds = <<i>>
            /\ Held(q, i) => channel'[stream[q].ch].holds = <<i>>
        BY <2>4, <2>5
    <2>7. /\ SendTo(p, rest) /\ UNCHANGED <<session, gone, reader, seen>>
          /\ stream[p].at \in {"publish", "sending"}
        BY <2>1, <2>2, <2>5
    <2>8. /\ DOMAIN channel' = DOMAIN channel /\ Len(channel') = Len(channel)
          /\ \A d \in DOMAIN channel :
               /\ channel'[d].stream = channel[d].stream /\ channel'[d].sess = channel[d].sess
               /\ channel'[d].closed = channel[d].closed
        BY <2>3
    <2> QED BY <2>6, <2>7, <2>8, SendsToNews
<1> QED BY <1>1, <1>2

---------------------------------------------------------------------------
(* Leaving, and breaking off: only p is concerned, for the others of the     *)
(* session have its history, and channels of their own.                      *)
LEMMA cleanupNews ==
    ASSUME Inv, NewsInv, NEW p \in Stream, cleanup(p)
    PROVE  NewsInv'
<1>1. PICK s : s = stream[p].sess
    OBVIOUS
<1>2. PICK ch : ch = stream[p].ch
    OBVIOUS
<1>3. /\ stream[p].at = "cleanup" /\ s \in DOMAIN session /\ s # None /\ session[s] \in SessionRec
      /\ stream \in [Stream -> StreamRec] /\ channel \in Seq(Channel)
    BY <1>1, SessionIn DEF cleanup, At, Inv, TypeInv, KnownInv, InSession
<1>4. /\ Follows(p) /\ ReaderTypes /\ ch # None /\ ch \in DOMAIN channel /\ channel[ch].stream = p
      /\ reader[ch].drain \in {NotStarted, Done}
      /\ DOMAIN reader = DOMAIN channel
    BY <1>1, <1>2, <1>3, ReaderDomain DEF NewsInv, Follows, Registered
<1>5. PICK f : f = Restrict(session[s].agents, DOMAIN session[s].agents \ {p})
    OBVIOUS
<1>6. PICK left : left = IF p \in CustomerStream THEN [session[s] EXCEPT !.cust = None]
                         ELSE [session[s] EXCEPT !.agents = f]
    OBVIOUS
<1>7. /\ left.history = session[s].history /\ left.active = session[s].active
      /\ left.cust = IF p \in CustomerStream THEN None ELSE session[s].cust
      /\ left.agents = IF p \in CustomerStream THEN session[s].agents ELSE f
    BY <1>3, <1>6 DEF SessionRec
<1>8. PICK x : /\ session' = [session EXCEPT ![s] = x]
               /\ x = IF left.listed \/ \E q \in Stream \ {p} : stream[q].sess = s THEN left
                      ELSE [left EXCEPT !.history = <<>>]
    BY <1>1, <1>5, <1>6 DEF cleanup
<1>9. \A t \in DOMAIN session : session'[t] = IF t = s THEN x ELSE session[t]
    BY <1>8
<1>10. \A q \in Stream \ {p} : stream[q].sess # None => stream[q].sess \in DOMAIN session
    BY DEF Inv, KnownInv
<1>11. \A q \in Stream \ {p} : stream[q].sess = s => x = left
    BY <1>8
<1>12. \A q \in Stream \ {p} : stream[q].sess # None => SaidKept(stream[q].sess)
    BY <1>7, <1>9, <1>10, <1>11 DEF SaidKept
<1>13. ASSUME NEW q \in Stream \ {p} PROVE PlaceKept(q)
    <2> SUFFICES ASSUME stream[q].sess = s, stream[q].at # "join"
                 PROVE  /\ q \in CustomerStream => left.cust = session[s].cust
                        /\ q \in AgentStream /\ q \in DOMAIN session[s].agents =>
                             q \in DOMAIN left.agents /\ left.agents[q] = session[s].agents[q]
        BY <1>9, <1>10, <1>11 DEF PlaceKept
    <2>1. q \in CustomerStream => p \notin CustomerStream
        <3> SUFFICES ASSUME q \in CustomerStream, p \in CustomerStream PROVE FALSE
            OBVIOUS
        <3>1. session[s].cust = stream[q].ch /\ session[s].cust = ch
            BY <1>1, <1>2, <1>3 DEF NewsInv, Follows, Registered, Sess
        <3>2. channel[stream[q].ch].stream = q
            BY <1>3 DEF NewsInv, Follows, Registered
        <3> QED BY <1>4, <3>1, <3>2
    <2>2. q \in DOMAIN session[s].agents => q \in DOMAIN f /\ f[q] = session[s].agents[q]
        BY <1>5 DEF Restrict
    <2> QED BY <1>7, <2>1, <2>2
<1>14. PICK closed : closed = [channel EXCEPT ![ch].closed = TRUE]
    OBVIOUS
<1>15. OfOthersSame(p, closed)
    <2>1. closed \in Seq(Channel)
        BY <1>3, <1>14, ClosedType
    <2>2. \A c \in DOMAIN channel : channel[c] \in Channel
        BY ChannelIn
    <2>3. DOMAIN closed = DOMAIN channel
          /\ \A c \in DOMAIN channel :
               closed[c] = IF c = ch THEN [channel[c] EXCEPT !.closed = TRUE] ELSE channel[c]
        BY <1>14
    <2> QED BY <1>4, <2>1, <2>2, <2>3 DEF OfOthersSame, Channel
<1>16. seen' = [seen EXCEPT ![p] = {}]
    BY DEF cleanup
<1>17. seen' \in [Stream -> SUBSET Nat] /\ \A q \in Stream \ {p} : seen'[q] = seen[q]
    BY <1>4, <1>16 DEF ReaderTypes
<1>18. CASE Over(p) /\ Abandoned(p, closed, reader)
    BY <1>3, <1>12, <1>13, <1>15, <1>17, <1>18, OverNews
<1>19. CASE /\ channel' = closed
            /\ reader' = [reader EXCEPT
                 ![ch].drain.at = "start",
                 ![ch].monitor = IF @.at = "wait" THEN Reading(closed, @.on) ELSE @]
            /\ stream' = [stream EXCEPT ![p].sess = None, ![p].at = "recv"]
            /\ UNCHANGED gone
    <2>1. PICK r : r = [stream[p] EXCEPT !.sess = None, !.at = "recv"]
        OBVIOUS
    <2>2. r.sess = None /\ r.at = "recv" /\ r.ch = ch
        BY <1>2, <1>3, <2>1 DEF StreamRec
    <2>3. stream'[p] = r /\ \A q \in Stream \ {p} : stream'[q] = stream[q]
        BY <1>3, <1>19, <2>1
    <2>4. reader[ch] \in Readers /\ ch \in DOMAIN reader /\ Serves(ch, p)
        BY <1>4 DEF ReaderTypes, Follows, Served
    <2>5. PICK m : m = IF reader[ch].monitor.at = "wait" THEN Reading(closed, reader[ch].monitor.on)
                       ELSE reader[ch].monitor
        OBVIOUS
    <2>6. m \in Goroutine /\ IsOn(m, p) /\ (m.at \in {"wait", "show"} => m.on # None)
        <3>1. CASE reader[ch].monitor.at = "wait"
            <4>1. PICK o : o = reader[ch].monitor.on
                OBVIOUS
            <4>2. o # None /\ o \in DOMAIN channel /\ channel[o].stream = p
                BY <2>4, <3>1, <4>1 DEF Serves, IsOn
            <4> QED BY <1>15, <2>5, <3>1, <4>1, <4>2, ReadingIs DEF IsOn
        <3>2. CASE reader[ch].monitor.at # "wait"
            BY <2>4, <2>5, <3>2 DEF Serves, Readers
        <3> QED BY <3>1, <3>2
    <2>7. PICK d : d = [reader[ch].drain EXCEPT !.at = "start"]
        OBVIOUS
    <2>8. d \in Goroutine /\ d.at = "start" /\ d.on = None
        BY <1>4, <2>7 DEF Goroutine, NotStarted, Done, None
    <2>9. PICK g : g = [reader[ch] EXCEPT !.drain = d, !.monitor = m]
        OBVIOUS
    <2>10. g \in Readers /\ g.monitor = m /\ g.drain = d
        BY <2>4, <2>6, <2>8, <2>9 DEF Readers
    <2>11. reader' = [reader EXCEPT ![ch] = g]
        <3>1. PICK h : h = [reader[ch] EXCEPT !.drain.at = "start",
                              !.monitor = IF @.at = "wait" THEN Reading(closed, @.on) ELSE @]
            OBVIOUS
        <3>2. h = g
            BY <2>4, <2>5, <2>7, <2>9, <3>1 DEF Readers
        <3>3. reader' = [reader EXCEPT ![ch] = h]
            BY <1>19, <2>4, <3>1 DEF Readers
        <3> QED BY <3>2, <3>3
    <2>12. /\ reader' \in Seq(Readers) /\ Len(reader') = Len(reader) /\ DOMAIN reader' = DOMAIN reader
           /\ \A c \in DOMAIN reader : reader'[c] = IF c = ch THEN g ELSE reader[c]
        BY <1>4, <2>10, <2>11 DEF ReaderTypes
    <2>13. DOMAIN channel' = DOMAIN channel /\ Len(channel') = Len(channel)
        BY <1>3, <1>14, <1>19
    <2>14. ReaderTypes'
        BY <1>4, <1>17, <2>12, <2>13 DEF ReaderTypes
    <2>15. Aside(p) /\ HoldsKept(p)
        BY <1>4, <1>15, <1>17, <1>19, <2>3, <2>12, <2>13 DEF Aside, HoldsKept, OfOthersSame
    <2>16. \A q \in Stream \ {p} : Follows(q)'
        BY <1>3, <1>12, <1>13, <2>14, <2>15, OthersFollow DEF Silent
    <2>17. \A c \in DOMAIN channel : channel'[c].stream = channel[c].stream /\ channel'[c].sess = channel[c].sess
        BY <1>15, <1>19 DEF OfOthersSame
    <2>18. Registered(p)' /\ Author(p)' /\ Informed(p)'
        BY <1>4, <2>2, <2>3, <2>13, <2>17 DEF Registered, Author, Informed, InTouch
    <2>19. Served(p)'
        <3> SUFFICES ASSUME NEW c \in DOMAIN reader, channel[c].stream = p PROVE Serves(c, p)'
            BY <1>4, <2>12, <2>17 DEF Served
        <3>1. Serves(c, p)
            BY <1>4 DEF Follows, Served
        <3>2. CASE c = ch
            BY <1>4, <2>2, <2>3, <2>6, <2>8, <2>10, <2>12, <2>13, <2>17, <3>1, <3>2 DEF Serves, IsOn
        <3>3. CASE c # ch
            BY <1>4, <2>2, <2>3, <2>12, <2>13, <2>17, <3>1, <3>3 DEF Serves, IsOn
        <3> QED BY <3>2, <3>3
    <2> QED BY <2>14, <2>16, <2>18, <2>19 DEF NewsInv, Follows
<1>20. \/ Over(p) /\ Abandoned(p, closed, reader)
       \/ /\ channel' = closed
          /\ reader' = [reader EXCEPT
               ![ch].drain.at = "start",
               ![ch].monitor = IF @.at = "wait" THEN Reading(closed, @.on) ELSE @]
          /\ stream' = [stream EXCEPT ![p].sess = None, ![p].at = "recv"]
          /\ UNCHANGED gone
    BY <1>2, <1>14 DEF cleanup
<1> QED BY <1>18, <1>19, <1>20

LEMMA BreakNews ==
    ASSUME Inv, NewsInv, NEW p \in Stream, Break(p)
    PROVE  NewsInv'
<1>1. /\ Abandoned(p, channel, reader) /\ gone' = gone \cup {p} /\ UNCHANGED <<session, stream, seen>>
      /\ channel \in Seq(Channel) /\ reader \in Seq(Readers) /\ Len(reader) = Len(channel)
      /\ DOMAIN reader = DOMAIN channel /\ Follows(p)
    BY DEF Break, Inv, TypeInv, NewsInv, ReaderTypes
<1>2. /\ DOMAIN channel' = DOMAIN channel
      /\ reader' \in Seq(Readers) /\ Len(reader') = Len(channel')
      /\ \A c \in DOMAIN channel :
           /\ channel'[c].stream = channel[c].stream /\ channel'[c].sess = channel[c].sess
           /\ channel'[c].closed = channel[c].closed
           /\ channel[c].stream # p =>
                channel'[c].holds = channel[c].holds /\ reader'[c] = reader[c]
           /\ channel[c].stream = p => reader'[c] = [monitor |-> Done, drain |-> Done]
    BY <1>1, AbandonedIs
<1>3. ReaderTypes'
    BY <1>1, <1>2 DEF ReaderTypes, NewsInv
<1>4. Aside(p) /\ HoldsKept(p)
    BY <1>1, <1>2 DEF Aside, HoldsKept
<1>5. \A q \in Stream \ {p} : Follows(q)'
    BY <1>1, <1>3, <1>4, SameSessions, OthersFollow DEF Silent
<1>6. PICK done : done = [monitor |-> Done, drain |-> Done]
    OBVIOUS
<1>7. /\ done.monitor.on = None /\ done.drain.on = None /\ done.drain = Done
      /\ done.monitor.at = "done" /\ done.drain.at = "done"
    BY <1>6 DEF Done, NotStarted
<1>8. Registered(p)' /\ Author(p)' /\ Informed(p)'
    BY <1>1, <1>2, <1>6, <1>7 DEF Follows, Registered, Author, Informed, InTouch, Sess
<1>9. Served(p)'
    <2> SUFFICES ASSUME NEW c \in DOMAIN channel, channel[c].stream = p PROVE Serves(c, p)'
        BY <1>1, <1>2 DEF Served
    <2> QED BY <1>2, <1>6, <1>7 DEF Serves, IsOn
<1> QED BY <1>3, <1>5, <1>8, <1>9 DEF NewsInv, Follows

---------------------------------------------------------------------------
(* The goroutines of p: no entry leaves the channel but to the monitor that  *)
(* shows it, or to a drain, which is not on the channel of a stream that is  *)
(* in touch.                                                                 *)
OwnStep(p, c, g) ==
    /\ channel[c].stream = p /\ g \in Readers
    /\ reader' = [reader EXCEPT ![c] = g]
    /\ UNCHANGED <<session, stream, gone>>
    /\ DOMAIN channel' = DOMAIN channel /\ Len(channel') = Len(channel)
    /\ \A d \in DOMAIN channel :
         /\ channel'[d].stream = channel[d].stream /\ channel'[d].sess = channel[d].sess
         /\ channel'[d].closed = channel[d].closed
         /\ channel[d].stream # p => channel'[d].holds = channel[d].holds
    /\ seen' \in [Stream -> SUBSET Nat] /\ \A q \in Stream \ {p} : seen'[q] = seen[q]

LEMMA OwnNews ==
    ASSUME Inv, NewsInv, NEW p \in Stream, NEW c \in DOMAIN channel, NEW g, OwnStep(p, c, g), Serves(c, p)',
           g.drain = reader[c].drain \/ reader[c].drain.at \in {"start", "wait"},
           Informed(p)'
    PROVE  NewsInv'
<1>1. ReaderTypes /\ Follows(p) /\ DOMAIN reader = DOMAIN channel
    BY ReaderDomain DEF NewsInv
<1>2. reader' = [reader EXCEPT ![c] = g] /\ g \in Readers
    BY DEF OwnStep
<1>3. /\ reader' \in Seq(Readers) /\ Len(reader') = Len(reader) /\ DOMAIN reader' = DOMAIN reader
      /\ \A d \in DOMAIN reader : reader'[d] = IF d = c THEN g ELSE reader[d]
    BY <1>1, <1>2 DEF ReaderTypes
<1>4. ReaderTypes'
    BY <1>1, <1>3 DEF OwnStep, ReaderTypes
<1>5. Aside(p) /\ HoldsKept(p)
    BY <1>1, <1>3 DEF Aside, HoldsKept, OwnStep
<1>6. \A q \in Stream \ {p} : Follows(q)'
    BY <1>4, <1>5, SameSessions, OthersFollow DEF Silent, OwnStep
<1>7. Registered(p)'
    <2>1. ASSUME stream[p].sess # None, stream[p].at # "join"
          PROVE  reader'[stream[p].ch].drain = reader[stream[p].ch].drain
        <3>1. reader[stream[p].ch].drain \in {NotStarted, Done} /\ stream[p].ch \in DOMAIN channel
            BY <1>1, <2>1 DEF Follows, Registered
        <3>2. NotStarted.at = "none" /\ Done.at = "done"
            BY DEF NotStarted, Done
        <3> QED BY <1>1, <1>3, <3>1, <3>2
    <2> QED BY <1>1, <2>1 DEF Follows, Registered, OwnStep, Sess
<1>8. Served(p)'
    <2> SUFFICES ASSUME NEW d \in DOMAIN reader, channel[d].stream = p PROVE Serves(d, p)'
        BY <1>1, <1>3 DEF Served, OwnStep
    <2>1. Serves(d, p)
        BY <1>1 DEF Follows, Served
    <2>2. CASE d # c
        BY <1>3, <2>1, <2>2 DEF Serves, IsOn, OwnStep
    <2> QED BY <2>2
<1>9. Author(p)'
    BY <1>1 DEF Follows, Author, OwnStep, Sess
<1> QED BY <1>4, <1>6, <1>7, <1>8, <1>9 DEF NewsInv, Follows

(* Where goroutine steps start from. *)
LEMMA ReaderIs ==
    ASSUME Inv, NewsInv, NEW c \in DOMAIN channel, NEW p, p = channel[c].stream
    PROVE  /\ p \in Stream /\ reader[c] \in Readers /\ Serves(c, p) /\ Follows(p)
           /\ DOMAIN reader = DOMAIN channel /\ ReaderTypes /\ Ch(c) = stream[p].ch
           /\ stream[p].ch # None => stream[p].ch \in DOMAIN channel /\ channel[stream[p].ch].stream = p
<1>1. p \in Stream /\ ReaderTypes /\ DOMAIN reader = DOMAIN channel
    BY ChannelIn, ReaderDomain DEF NewsInv
<1>2. Follows(p) /\ reader[c] \in Readers
    BY <1>1 DEF NewsInv, ReaderTypes
<1> QED BY <1>1, <1>2 DEF Follows, Served, Registered, Ch

(* Only p's own goroutine c, channels and seen entries change: the rest of   *)
(* what p is to be shown stays on its way.                                   *)
LEMMA OwnInformed ==
    ASSUME Inv, NewsInv, NEW p \in Stream, NEW c \in DOMAIN channel, NEW g, OwnStep(p, c, g),
           InTouch(p)' => reader[c].drain.on # stream[p].ch,
           \A i : i \in seen[p] => i \in seen'[p],
           InTouch(p)' => \A i : Held(p, i) => Shown(p, i)',
           \A i : reader[c].monitor.at = "show" /\ OfSession(c) /\ reader[c].monitor.entry = i
                   => Shown(p, i)'
    PROVE  Informed(p)'
<1>1. ReaderTypes /\ Follows(p) /\ DOMAIN reader = DOMAIN channel
    BY ReaderDomain DEF NewsInv
<1>2. /\ DOMAIN reader' = DOMAIN reader
      /\ \A d \in DOMAIN reader : reader'[d] = IF d = c THEN g ELSE reader[d]
    BY <1>1 DEF OwnStep
<1> SUFFICES ASSUME InTouch(p)', NEW i, IsDue(p, i)' PROVE Shown(p, i)'
    BY DEF Informed
<1>3. InTouch(p)
    BY <1>1, <1>2 DEF InTouch, OwnStep
<1>4. IsDue(p, i)
    BY DEF IsDue, OwnStep, Sess
<1>5. Shown(p, i)
    BY <1>1, <1>3, <1>4 DEF Follows, Informed
<1>6. Told(p, i) => Shown(p, i)'
    <2> SUFFICES ASSUME NEW d \in DOMAIN reader, channel[d].stream = p, OfSession(d), d # c,
                        reader[d].monitor.at = "show", reader[d].monitor.entry = i
                 PROVE  Told(p, i)'
        BY DEF Told, Shown
    <2>1. PICK o : o = reader[d].monitor.on
        OBVIOUS
    <2>2. o \in DOMAIN channel
        BY <1>1, <2>1 DEF Follows, Served, Serves, IsOn
    <2>3. channel'[o].sess = channel[o].sess /\ channel'[d].stream = p /\ reader'[d] = reader[d]
        BY <1>1, <1>2, <2>2 DEF OwnStep
    <2>4. OfSession(d)'
        BY <2>1, <2>3 DEF OfSession, OwnStep
    <2> QED BY <1>1, <1>2, <2>3, <2>4 DEF Told
<1>7. \A q \in Stream : Sends(q, p, i) => Shown(p, i)'
    BY DEF Sends, Shown, OwnStep
<1> QED BY <1>5, <1>6, <1>7 DEF Shown

LEMMA EmptiedIs ==
    ASSUME Inv, NEW o, NEW none, channel' = [channel EXCEPT ![o].holds = none]
    PROVE  /\ DOMAIN channel' = DOMAIN channel /\ Len(channel') = Len(channel)
           /\ \A d \in DOMAIN channel :
                /\ channel'[d].stream = channel[d].stream /\ channel'[d].sess = channel[d].sess
                /\ channel'[d].closed = channel[d].closed
                /\ d # o => channel'[d].holds = channel[d].holds
<1>1. channel \in Seq(Channel) /\ \A d \in DOMAIN channel : channel[d] \in Channel
    BY ChannelIn DEF Inv, TypeInv
<1>2. \A d \in DOMAIN channel :
        channel'[d] = IF d = o THEN [channel[d] EXCEPT !.holds = none] ELSE channel[d]
    BY <1>1
<1>3. DOMAIN channel' = DOMAIN channel /\ Len(channel') = Len(channel)
    BY <1>1
<1> QED BY <1>1, <1>2, <1>3 DEF Channel

LEMMA TakeNews ==
    ASSUME Inv, NewsInv, NEW c \in DOMAIN channel, Take(c)
    PROVE  NewsInv'
<1>1. PICK p : p = channel[c].stream
    OBVIOUS
<1>2. /\ p \in Stream /\ reader[c] \in Readers /\ Serves(c, p) /\ Follows(p)
      /\ DOMAIN reader = DOMAIN channel /\ ReaderTypes
    BY <1>1, ReaderIs
<1>3. PICK o : o = reader[c].monitor.on
    OBVIOUS
<1>4. /\ reader[c].monitor.at = "wait" /\ o # None /\ o \in DOMAIN channel /\ channel[o].stream = p
      /\ stream[p].ch # None /\ UNCHANGED <<session, stream, gone, seen>>
    BY <1>2, <1>3 DEF Take, Serves, IsOn
<1>5. CASE channel[o].holds = <<>> /\ reader' = [reader EXCEPT ![c].monitor = Done] /\ UNCHANGED channel
    <2>1. PICK m : m = Done
        OBVIOUS
    <2>2. m \in Goroutine /\ m.at = "done" /\ m.on = None
        BY <2>1 DEF Done, NotStarted, Goroutine, None
    <2>3. PICK g : g = [reader[c] EXCEPT !.monitor = m]
        OBVIOUS
    <2>4. g \in Readers /\ g.monitor = m /\ g.drain = reader[c].drain
        BY <1>2, <2>2, <2>3 DEF Readers
    <2>5. reader' = [reader EXCEPT ![c] = g] /\ reader'[c] = g
        BY <1>2, <1>5, <2>1, <2>3
    <2>6. OwnStep(p, c, g)
        BY <1>1, <1>2, <1>4, <1>5, <2>4, <2>5 DEF OwnStep, ReaderTypes
    <2>7. Serves(c, p)'
        BY <1>2, <1>4, <1>5, <2>2, <2>4, <2>5 DEF Serves, IsOn
    <2>8. Informed(p)'
        <3>1. InTouch(p)' => reader[c].drain.on # stream[p].ch
            BY <1>2, <1>4, <2>4, <2>5, <2>6 DEF InTouch, OwnStep
        <3>2. \A i : Held(p, i) => Shown(p, i)'
            BY <1>4, <1>5 DEF Held, Shown
        <3> QED BY <1>2, <1>4, <2>6, <3>1, <3>2, OwnInformed
    <2> QED BY <1>2, <2>4, <2>6, <2>7, <2>8, OwnNews
<1>6. CASE /\ channel[o].holds # <<>>
           /\ reader' = [reader EXCEPT ![c].monitor.at = "show",
                                       ![c].monitor.entry = Head(channel[o].holds)]
           /\ channel' = [channel EXCEPT ![o].holds = <<>>]
    <2>1. PICK e : e = Head(channel[o].holds)
        OBVIOUS
    <2>2. e \in Nat
        BY <1>4, <1>6, <2>1, ChannelIn
    <2>3. PICK m : m = [reader[c].monitor EXCEPT !.at = "show", !.entry = e]
        OBVIOUS
    <2>4. m \in Goroutine /\ m.at = "show" /\ m.on = o /\ m.entry = e
        BY <1>2, <1>3, <2>2, <2>3 DEF Readers, Goroutine
    <2>5. PICK g : g = [reader[c] EXCEPT !.monitor = m]
        OBVIOUS
    <2>6. g \in Readers /\ g.monitor = m /\ g.drain = reader[c].drain
        BY <1>2, <2>4, <2>5 DEF Readers
    <2>7. reader' = [reader EXCEPT ![c] = g] /\ reader'[c] = g
        <3>1. PICK h : h = [reader[c] EXCEPT !.monitor.at = "show", !.monitor.entry = e]
            OBVIOUS
        <3>2. h = g
            BY <1>2, <2>3, <2>5, <3>1 DEF Readers
        <3>3. reader' = [reader EXCEPT ![c] = h]
            BY <1>2, <1>6, <2>1, <3>1 DEF Readers
        <3> QED BY <1>2, <3>2, <3>3
    <2>8. PICK none : none = <<>>
        OBVIOUS
    <2>9. /\ DOMAIN channel' = DOMAIN channel /\ Len(channel') = Len(channel)
          /\ \A d \in DOMAIN channel :
               /\ channel'[d].stream = channel[d].stream /\ channel'[d].sess = channel[d].sess
               /\ channel'[d].closed = channel[d].closed
               /\ d # o => channel'[d].holds = channel[d].holds
        BY <1>6, <2>8, EmptiedIs
    <2>10. OwnStep(p, c, g)
        BY <1>1, <1>2, <1>4, <2>6, <2>7, <2>9 DEF OwnStep, ReaderTypes
    <2>11. Serves(c, p)'
        BY <1>2, <1>4, <2>4, <2>6, <2>7, <2>9 DEF Serves, IsOn
    <2>12. Informed(p)'
        <3>1. InTouch(p)' => reader[c].drain.on # stream[p].ch
            BY <1>2, <1>4, <2>6, <2>7, <2>10 DEF InTouch, OwnStep
        <3>2. ASSUME InTouch(p)', NEW i, Held(p, i) PROVE Shown(p, i)'
            <4>1. CASE stream[p].ch = o
                <5>1. e = i
                    BY <2>1, <3>2, <4>1 DEF Held
                <5>2. channel[o].sess = stream[p].sess
                    BY <1>2, <1>4, <3>2, <4>1 DEF InTouch, Follows, Registered
                <5>3. channel'[o].sess = stream[p].sess
                    BY <1>4, <2>9, <5>2
                <5>4. OfSession(c)'
                    BY <1>1, <1>4, <2>4, <2>6, <2>7, <2>9, <5>3 DEF OfSession
                <5>5. Told(p, i)'
                    BY <1>1, <1>2, <2>4, <2>6, <2>7, <2>10, <5>1, <5>4 DEF Told, OwnStep
                <5> QED BY <5>5 DEF Shown
            <4>2. CASE stream[p].ch # o
                <5>1. stream[p].ch \in DOMAIN channel
                    BY <1>1, <1>4, ReaderIs
                <5>2. Held(p, i)'
                    BY <1>4, <2>9, <3>2, <4>2, <5>1 DEF Held
                <5> QED BY <5>2 DEF Shown
            <4> QED BY <4>1, <4>2
        <3> QED BY <1>2, <1>4, <2>10, <3>1, <3>2, OwnInformed
    <2> QED BY <1>2, <2>6, <2>10, <2>11, <2>12, OwnNews
<1> QED BY <1>3, <1>5, <1>6 DEF Take

LEMMA ShowNews ==
    ASSUME Inv, NewsInv, NEW c \in DOMAIN channel, Show(c)
    PROVE  NewsInv'
<1>1. PICK p : p = channel[c].stream
    OBVIOUS
<1>2. /\ p \in Stream /\ reader[c] \in Readers /\ Serves(c, p) /\ Follows(p)
      /\ DOMAIN reader = DOMAIN channel /\ ReaderTypes /\ Ch(c) = stream[p].ch
      /\ stream[p].ch # None => stream[p].ch \in DOMAIN channel /\ channel[stream[p].ch].stream = p
    BY <1>1, ReaderIs
<1>3. PICK o : o = stream[p].ch
    OBVIOUS
<1>4. PICK e : e = reader[c].monitor.entry
    OBVIOUS
<1>5. /\ reader[c].monitor.at = "show" /\ o # None /\ o \in DOMAIN channel /\ channel[o].stream = p
      /\ e \in Nat /\ UNCHANGED <<session, stream, gone, channel>>
    BY <1>2, <1>3, <1>4 DEF Show, Serves, Readers, Goroutine
<1>6. PICK new \in SUBSET Nat : new = IF OfSession(c) THEN {e} ELSE {}
    BY <1>5
<1>7. seen' = [seen EXCEPT ![p] = @ \cup new] /\ seen \in [Stream -> SUBSET Nat]
    BY <1>1, <1>2, <1>4, <1>6 DEF Show, ReaderTypes
<1>8. /\ seen' \in [Stream -> SUBSET Nat] /\ \A q \in Stream \ {p} : seen'[q] = seen[q]
      /\ seen'[p] = seen[p] \cup new
    BY <1>2, <1>5, <1>7
<1>9. PICK m : m = Reading(channel, o)
    OBVIOUS
<1>10. m \in Goroutine /\ IsOn(m, p) /\ (m.at = "wait" => m.on # None)
    BY <1>5, <1>9, Unabandoned, ReadingIs DEF IsOn
<1>11. m.at \in {"wait", "done"}
    BY <1>5, <1>9, Unabandoned, ReadingIs
<1>12. PICK g : g = [reader[c] EXCEPT !.monitor = m]
    OBVIOUS
<1>13. g \in Readers /\ g.monitor = m /\ g.drain = reader[c].drain
    BY <1>2, <1>10, <1>12 DEF Readers
<1>14. reader' = [reader EXCEPT ![c] = g] /\ reader'[c] = g
    BY <1>2, <1>3, <1>9, <1>12 DEF Show
<1>15. OwnStep(p, c, g)
    BY <1>1, <1>2, <1>5, <1>8, <1>13, <1>14 DEF OwnStep
<1>16. Serves(c, p)'
    BY <1>2, <1>3, <1>5, <1>10, <1>11, <1>13, <1>14 DEF Serves, IsOn
<1>17. Informed(p)'
    <2>1. InTouch(p)' => reader[c].drain.on # stream[p].ch
        BY <1>2, <1>5, <1>13, <1>14, <1>15 DEF InTouch, OwnStep
    <2>2. \A i : i \in seen[p] \cup new => Shown(p, i)' /\ i \in seen'[p]
        BY <1>8 DEF Shown
    <2>3. \A i : Held(p, i) => Shown(p, i)'
        BY <1>5 DEF Held, Shown
    <2>4. \A i : i = e /\ OfSession(c) => Shown(p, i)'
        BY <1>6, <2>2
    <2> QED BY <1>2, <1>4, <1>15, <2>1, <2>2, <2>3, <2>4, OwnInformed
<1> QED BY <1>2, <1>13, <1>15, <1>16, <1>17, OwnNews

(* A drain that has taken the channel of a stream in touch would stay on it, *)
(* for that channel is open.                                                 *)
LEMMA DrainNews ==
    ASSUME Inv, NewsInv, NEW c \in DOMAIN channel, Drain(c)
    PROVE  NewsInv'
<1>1. PICK p : p = channel[c].stream
    OBVIOUS
<1>2. /\ p \in Stream /\ reader[c] \in Readers /\ Serves(c, p) /\ Follows(p)
      /\ DOMAIN reader = DOMAIN channel /\ ReaderTypes /\ Ch(c) = stream[p].ch
      /\ stream[p].ch # None => stream[p].ch \in DOMAIN channel /\ channel[stream[p].ch].stream = p
    BY <1>1, ReaderIs
<1>3. PICK o : o = IF reader[c].drain.at = "start" THEN stream[p].ch ELSE reader[c].drain.on
    OBVIOUS
<1>4. PICK drained : drained = [channel EXCEPT ![o].holds = <<>>]
    OBVIOUS
<1>5. PICK d : d = Reading(drained, o)
    OBVIOUS
<1>6. /\ reader[c].drain.at \in {"start", "wait"}
      /\ channel' = drained /\ reader' = [reader EXCEPT ![c].drain = d]
      /\ UNCHANGED <<session, stream, gone, seen>>
    BY <1>2, <1>3, <1>4, <1>5 DEF Drain
<1>7. /\ stream[p].ch # None /\ o # None /\ o \in DOMAIN channel /\ channel[o].stream = p
      /\ reader[c].drain.on # None => reader[c].drain.on = o
    BY <1>2, <1>3, <1>6 DEF Serves, IsOn
<1>8. PICK none : none = <<>>
    OBVIOUS
<1>9. channel' = [channel EXCEPT ![o].holds = none]
    BY <1>4, <1>6, <1>8
<1>10. /\ DOMAIN channel' = DOMAIN channel /\ Len(channel') = Len(channel)
       /\ \A b \in DOMAIN channel :
            /\ channel'[b].stream = channel[b].stream /\ channel'[b].sess = channel[b].sess
            /\ channel'[b].closed = channel[b].closed
            /\ b # o => channel'[b].holds = channel[b].holds
    BY <1>9, EmptiedIs
<1>11. OfOthersSame(p, drained)
    <2>1. channel \in Seq(Channel) /\ channel[o] \in Channel
        BY <1>7, ChannelIn DEF Inv, TypeInv
    <2>2. PICK b : b = [channel[o] EXCEPT !.holds = none]
        OBVIOUS
    <2>3. b \in Channel
        <3>1. <<>> \in Seq(Nat)
            OBVIOUS
        <3>2. none \in Seq(Nat)
            BY <1>8, <3>1
        <3> QED BY <2>1, <2>2, <3>2 DEF Channel
    <2>4. drained = [channel EXCEPT ![o] = b]
        BY <1>4, <1>8, <2>2
    <2>5. drained \in Seq(Channel) /\ \A a \in DOMAIN channel : a # o => drained[a] = channel[a]
        BY <1>7, <2>1, <2>3, <2>4
    <2> QED BY <1>6, <1>7, <1>10, <2>5 DEF OfOthersSame
<1>12. /\ d \in Goroutine /\ d.on \in {None, o} /\ d.at \in {"wait", "done"}
       /\ d.at = "wait" <=> d.on # None
       /\ ~channel[o].closed => d.on = o
    <2>1. drained[o].closed = channel[o].closed
        BY <1>6, <1>7, <1>10
    <2> QED BY <1>5, <1>7, <1>11, <2>1, ReadingIs
<1>13. PICK g : g = [reader[c] EXCEPT !.drain = d]
    OBVIOUS
<1>14. g \in Readers /\ g.monitor = reader[c].monitor /\ g.drain = d
    BY <1>2, <1>12, <1>13 DEF Readers
<1>15. reader' = [reader EXCEPT ![c] = g] /\ reader'[c] = g
    BY <1>2, <1>6, <1>13
<1>16. OwnStep(p, c, g)
    BY <1>1, <1>2, <1>6, <1>7, <1>10, <1>14, <1>15 DEF OwnStep, ReaderTypes
<1>17. Serves(c, p)'
    BY <1>2, <1>6, <1>7, <1>10, <1>12, <1>14, <1>15 DEF Serves, IsOn
<1>18. InTouch(p)' => o # stream[p].ch
    <2> SUFFICES ASSUME InTouch(p)', o = stream[p].ch PROVE FALSE
        OBVIOUS
    <2>1. stream[p].sess # None /\ stream[p].at # "join" /\ reader'[c].drain.on # o
        BY <1>2, <1>6, <1>15 DEF InTouch
    <2>2. ~channel[o].closed
        BY <1>2, <2>1 DEF Follows, Registered
    <2> QED BY <1>12, <1>14, <1>15, <2>1, <2>2
<1>19. Informed(p)'
    <2>1. InTouch(p)' => reader[c].drain.on # stream[p].ch
        BY <1>7, <1>18
    <2>2. InTouch(p)' => \A i : Held(p, i) => Shown(p, i)'
        BY <1>2, <1>6, <1>7, <1>10, <1>18 DEF Held, Shown
    <2>3. reader[c].monitor.at = "show" /\ OfSession(c) => OfSession(c)'
        BY <1>1, <1>2, <1>6, <1>10, <1>14, <1>15 DEF OfSession, Serves, IsOn
    <2>4. \A i : reader[c].monitor.at = "show" /\ OfSession(c) /\ reader[c].monitor.entry = i
                  => Shown(p, i)'
        BY <1>1, <1>2, <1>10, <1>14, <1>15, <2>3 DEF Told, Shown
    <2>5. \A i : i \in seen[p] => i \in seen'[p]
        BY <1>6
    <2> QED BY <1>2, <1>16, <2>1, <2>2, <2>4, <2>5, OwnInformed
<1> QED BY <1>2, <1>6, <1>14, <1>16, <1>17, <1>19, OwnNews

---------------------------------------------------------------------------
LEMMA InitNews == Init => NewsInv
<1> SUFFICES ASSUME Init PROVE NewsInv
    OBVIOUS
<1>1. \A p \in Stream : /\ stream[p].at = "recv" /\ stream[p].sess = None /\ stream[p].ch = None
                        /\ stream[p].entry = None
    BY DEF Init, NoSession
<1>2. reader = <<>> /\ channel = <<>> /\ seen = [p \in Stream |-> {}]
    BY DEF Init
<1>3. ReaderTypes
    BY <1>2 DEF ReaderTypes
<1> QED BY <1>1, <1>2, <1>3 DEF NewsInv, Follows, Registered, Served, Author, Informed, InTouch

LEMMA NextNews ==
    ASSUME Inv, NewsInv, [Next]_vars
    PROVE  NewsInv'
<1>1. ASSUME NEW p \in Stream,
             \/ newSession(p) \/ resumeSession(p) \/ checkSession(p) \/ acceptSession(p)
             \/ JoinSession(p) \/ Snapshot(p) \/ Message(p) \/ closeSession(p) \/ Publish(p)
             \/ Send(p) \/ Unlist(p) \/ cleanup(p) \/ Return(p) \/ Break(p)
      PROVE  NewsInv'
    BY <1>1, newSessionNews, resumeSessionNews, checkSessionNews, acceptSessionNews,
       JoinSessionNews, SnapshotNews, MessageNews, closeSessionNews, PublishNews,
       SendNews, UnlistNews, cleanupNews, ReturnNews, BreakNews
<1>2. ASSUME NEW c \in DOMAIN channel, Take(c) \/ Show(c) \/ Drain(c)
      PROVE  NewsInv'
    BY <1>2, TakeNews, ShowNews, DrainNews
<1>3. CASE UNCHANGED vars
    <2>1. UNCHANGED <<session, stream, gone, channel, reader, seen>>
        BY <1>3 DEF vars
    <2>2. ReaderTypes'
        BY <2>1 DEF NewsInv, ReaderTypes
    <2>3. ASSUME NEW p \in Stream PROVE Registered(p)' /\ Served(p)' /\ Author(p)'
        BY <2>1 DEF NewsInv, Follows, Registered, Served, Serves, IsOn, Author, Sess
    <2>4. ASSUME NEW p \in Stream PROVE Informed(p)'
        <3>1. \A i : (IsDue(p, i)' => IsDue(p, i)) /\ (Shown(p, i) => Shown(p, i)')
            BY <2>1 DEF IsDue, Shown, Held, Told, OfSession, Sends, Sess
        <3>2. InTouch(p)' => InTouch(p)
            BY <2>1 DEF InTouch
        <3> QED BY <3>1, <3>2 DEF NewsInv, Follows, Informed
    <2> QED BY <2>2, <2>3, <2>4 DEF NewsInv, Follows
<1> QED BY <1>1, <1>2, <1>3 DEF Next, Finished

(* An entry on its way is in one of the places that OnItsWay collects; a     *)
(* process that has crashed has no sessions.                                 *)
LEMMA NewsMissesNothing == Inv /\ NewsInv => NothingMissed
<1> SUFFICES ASSUME Inv, NewsInv, NEW p \in Stream \ gone, Waits(p) \/ At(p, "checked"),
                    stream[p].sess # None, \A c \in DOMAIN reader : reader[c].drain.on # stream[p].ch,
                    NEW i \in Due(p)
             PROVE  i \in seen[p] \cup OnItsWay(p)
    BY DEF NothingMissed
<1>1. InTouch(p) /\ ~crashed
    BY DEF InTouch, Waits, At
<1>2. IsDue(p, i)
    BY StreamAssumption DEF Due, IsDue, Stream
<1>3. Shown(p, i)
    BY <1>1, <1>2 DEF NewsInv, Follows, Informed
<1>4. Held(p, i) => i \in ToSet(channel[stream[p].ch].holds)
    <2> SUFFICES ASSUME Held(p, i) PROVE i \in ToSet(channel[stream[p].ch].holds)
        OBVIOUS
    <2>1. PICK h : h = channel[stream[p].ch].holds
        OBVIOUS
    <2>2. h = <<i>> /\ 1 \in DOMAIN h /\ h[1] = i
        BY <2>1 DEF Held
    <2> QED BY <2>1, <2>2 DEF ToSet
<1>5. Told(p, i) => i \in {reader[c].monitor.entry : c \in {d \in DOMAIN reader :
                                channel[d].stream = p /\ reader[d].monitor.at = "show" /\ OfSession(d)}}
    BY DEF Told
<1>6. (\E r \in Stream : Sends(r, p, i)) =>
        i \in {stream[q].entry : q \in {r \in Stream :
                \/ At(r, "publish") /\ stream[r].sess = stream[p].sess
                \/ At(r, "sending") /\ stream[p].ch \in stream[r].to}}
    BY <1>1 DEF Sends, At
<1> QED BY <1>3, <1>4, <1>5, <1>6 DEF Shown, OnItsWay

(* Whoever is in a session misses nothing that is said there, by any number  *)
(* of streams, however their handlers and goroutines interleave, join, leave *)
(* and break off: what is in the history and due to a stream was in its      *)
(* snapshot, was forwarded since, is in its channel, or is still with the    *)
(* handler that says it (NothingMissed of Chat, the forwarding of chat.go).  *)
THEOREM NothingIsMissed == Spec => []NothingMissed
<1>1. Init => Inv /\ NewsInv
    BY InitInv, InitNews
<1>2. Inv /\ NewsInv /\ [Next]_vars => (Inv /\ NewsInv)'
    BY NextInv, NextNews
<1>3. Inv /\ NewsInv => NothingMissed
    BY NewsMissesNothing
<1> QED BY <1>1, <1>2, <1>3, PTL DEF Spec
=============================================================================
