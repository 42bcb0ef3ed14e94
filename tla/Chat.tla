-------------------------------- MODULE Chat --------------------------------
(***************************************************************************)
(* The support chat of the demo bank, chat.go: the streams of one customer  *)
(* and of the agents, each a handler that takes requests and goroutines     *)
(* that forward what the others say, and the sessions that connect them.    *)
(*                                                                          *)
(* A critical section that cannot block is one step; a section that sends   *)
(* while it holds the read lock of the session keeps out, step by step,     *)
(* those that want the lock.  An entry of the history is its position; End  *)
(* is the nil that tells an agent that the session has ended.               *)
(***************************************************************************)
EXTENDS Naturals, Sequences, FiniteSets, SequencesExt, Functions

CONSTANTS
    CustomerStream, \* streams of the one customer
    Starter,        \* those that start sessions; the others only resume
    AgentStream,    \* streams of agents with different names
    MaxWork,        \* bounds: what customers start and resume and all say, in all,
    MaxJoins        \* and channels made, by one stream and by all

ASSUME StreamAssumption ==
    /\ CustomerStream \cap AgentStream = {}
    /\ Starter \subseteq CustomerStream

VARIABLES
    session, \* every session started: active, listed (in chatsBySession), its
             \* cust and agents (channels, by stream) and its history
    queue,   \* chatsAwaitingAgent
    stream,  \* what the handler of each stream is doing; its sess and ch
    gone,    \* the streams whose context is done
    channel, \* every channel made: its stream, the session it was made for,
             \* what is in it, whether it is closed
    reader,  \* for each channel, the goroutine started to forward what comes
             \* in, and the one started to drain it
    seen,    \* what each stream's client was shown of its session since it joined
    crashed  \* whether a handler dereferenced nil

vars == <<session, queue, stream, gone, channel, reader, seen, crashed>>

Stream == CustomerStream \cup AgentStream
None == 0
End == 0
NotStarted == [at |-> "none", on |-> None, entry |-> None]
Done == [NotStarted EXCEPT !.at = "done"]

NoSession == [at |-> "recv", sess |-> None, ch |-> None, joins |-> 0,
              returns |-> FALSE, entry |-> None, to |-> {}]

Init ==
    /\ session = <<>> /\ queue = <<>>
    /\ stream = [p \in Stream |-> NoSession]
    /\ gone = {} /\ channel = <<>> /\ reader = <<>>
    /\ seen = [p \in Stream |-> {}]
    /\ crashed = FALSE

(* The process ends, and with it everything. *)
Crash ==
    /\ session' = <<>> /\ queue' = <<>>
    /\ stream' = [p \in Stream |-> NoSession]
    /\ gone' = {} /\ channel' = <<>> /\ reader' = <<>>
    /\ seen' = [p \in Stream |-> {}]
    /\ crashed' = TRUE

At(p, step) == stream[p].at = step /\ ~crashed
Sess(p) == session[stream[p].sess]
MayJoin(p) == stream[p].joins < MaxJoins[1] /\ Len(channel) < MaxJoins[2]

MoreWork ==
    Cardinality({c \in DOMAIN channel : channel[c].stream \in CustomerStream})
        + FoldLeft(LAMBDA sum, s : sum + Len(s.history), 0, session)
    < MaxWork

(* sess.mu can be locked when no one holds it to send. *)
Free(s) == \A p \in Stream : stream[p].at = "sending" => stream[p].sess # s

(* Waiting for a request, and having one; an agent's session is checked first. *)
Waits(p) == At(p, "recv")
Ready(p) == /\ p \notin gone
            /\ IF p \in AgentStream /\ stream[p].sess # None
               THEN At(p, "checked") ELSE At(p, "recv")

Goto(p, step) == stream' = [stream EXCEPT ![p].at = step]

(* What happens to the channels of a stream is seen by no one once its      *)
(* context is done or its handler has returned.                             *)
Abandoned(p, channels, readers) ==
    /\ channel' = [c \in DOMAIN channels |->
                     IF channels[c].stream = p THEN [channels[c] EXCEPT !.holds = <<>>]
                     ELSE channels[c]]
    /\ reader' = [c \in DOMAIN readers |->
                    IF channels[c].stream = p THEN [monitor |-> Done, drain |-> Done]
                    ELSE readers[c]]

Over(p) ==
    /\ stream' = [stream EXCEPT ![p] = [NoSession EXCEPT !.at = "over"]]
    /\ gone' = gone \ {p}

(* A channel of capacity 1, and its goroutines. *)
MakeChannel(p, s) ==
    /\ channel' = Append(channel, [stream |-> p, sess |-> s, holds |-> <<>>, closed |-> FALSE])
    /\ reader' = Append(reader, [monitor |-> NotStarted, drain |-> NotStarted])

Joins(p, s) ==
    stream' = [stream EXCEPT ![p].at = "snapshot", ![p].sess = s,
                             ![p].ch = Len(channel) + 1, ![p].joins = @ + 1]

(* The goroutines refer to the variable ch of the stream, which may be       *)
(* another channel by the time they read it; for and select end on a channel *)
(* that is closed and empty.                                                 *)
Ch(c) == stream[channel[c].stream].ch

Reading(channels, c) ==
    IF channels[c].closed /\ channels[c].holds = <<>> THEN Done
    ELSE [at |-> "wait", on |-> c, entry |-> None]

---------------------------------------------------------------------------
(* Joining a session *)

newSession(p) ==
    /\ Ready(p) /\ p \in Starter /\ stream[p].sess = None /\ MayJoin(p)
    /\ MoreWork
    /\ session' = Append(session, [active |-> TRUE, listed |-> TRUE, history |-> <<>>,
                                   cust |-> Len(channel) + 1, agents |-> [a \in {} |-> None]])
    /\ queue' = Append(queue, Len(session) + 1)
    /\ MakeChannel(p, Len(session) + 1) /\ Joins(p, Len(session) + 1)
    /\ UNCHANGED <<gone, seen, crashed>>

(* A session that is not listed, or never was, is dereferenced all the same. *)
resumeSession(p) ==
    /\ Ready(p) /\ p \in CustomerStream /\ stream[p].sess = None /\ MayJoin(p)
    /\ \/ Crash
       \/ \E s \in {t \in DOMAIN session : session[t].listed} :
            \/ /\ ~session[s].active \/ session[s].cust # None
               /\ Over(p)
               /\ Abandoned(p, channel, reader)
               /\ UNCHANGED <<session, queue, seen, crashed>>
            \/ /\ session[s].active /\ session[s].cust = None
               /\ MoreWork
               /\ session' = [session EXCEPT ![s].cust = Len(channel) + 1]
               /\ MakeChannel(p, s) /\ Joins(p, s)
               /\ UNCHANGED <<queue, gone, seen, crashed>>

checkSession(p) ==
    /\ Waits(p) /\ p \notin gone /\ p \in AgentStream /\ stream[p].sess # None
    /\ Goto(p, IF Sess(p).active THEN "checked" ELSE "cleanup")
    /\ UNCHANGED <<session, queue, gone, channel, reader, seen, crashed>>

(* acceptSession, under s.mu and then under sess.mu: any session that waits, *)
(* or the first.  The agent's stream ends if there is none.                  *)
acceptSession(p) ==
    /\ Ready(p) /\ p \in AgentStream /\ stream[p].sess = None /\ MayJoin(p)
    /\ \/ queue = <<>> /\ Over(p) /\ Abandoned(p, channel, reader) /\ UNCHANGED queue
       \/ \E i \in DOMAIN queue :
            /\ queue' = RemoveAt(queue, i)
            /\ IF session[queue[i]].listed
               THEN /\ stream' = [stream EXCEPT ![p].at = "join", ![p].sess = queue[i]]
                    /\ UNCHANGED <<gone, channel, reader>>
               ELSE Over(p) /\ Abandoned(p, channel, reader)
    /\ UNCHANGED <<session, seen, crashed>>

JoinSession(p) ==
    /\ At(p, "join") /\ Free(stream[p].sess)
    /\ session' = [session EXCEPT ![stream[p].sess].agents =
                     [a \in DOMAIN @ \cup {p} |-> IF a = p THEN Len(channel) + 1 ELSE @[a]]]
    /\ MakeChannel(p, stream[p].sess) /\ Joins(p, stream[p].sess)
    /\ UNCHANGED <<queue, gone, seen, crashed>>

(* copySession, and the goroutine that forwards what comes after.  A session *)
(* that is over is shown as any other.                                       *)
Snapshot(p) ==
    /\ At(p, "snapshot")
    /\ \/ /\ p \notin gone
          /\ Goto(p, "recv")
          /\ seen' = [seen EXCEPT ![p] = DOMAIN Sess(p).history
                                            \cup (IF Sess(p).active THEN {} ELSE {End})]
          /\ reader' = [reader EXCEPT ![stream[p].ch].monitor = Reading(channel, stream[p].ch)]
       \/ /\ p \in gone
          /\ stream' = [stream EXCEPT ![p].at = "cleanup", ![p].returns = TRUE]
          /\ UNCHANGED <<seen, reader>>
    /\ UNCHANGED <<session, queue, gone, channel, crashed>>

---------------------------------------------------------------------------
(* Saying something, and ending the session *)

Message(p) ==
    /\ Ready(p) /\ stream[p].sess # None /\ Free(stream[p].sess)
    /\ IF p \in AgentStream /\ ~Sess(p).active
       THEN /\ stream' = [stream EXCEPT ![p].at = "cleanup", ![p].returns = TRUE]
            /\ UNCHANGED session
       ELSE /\ MoreWork
            /\ session' = [session EXCEPT ![stream[p].sess].history = Append(@, p)]
            /\ stream' = [stream EXCEPT ![p].at = "publish",
                                        ![p].entry = Len(Sess(p).history) + 1]
    /\ UNCHANGED <<queue, gone, channel, reader, seen, crashed>>

(* HangUp and LeaveSession: closeSession, then cleanup. *)
closeSession(p) ==
    /\ Ready(p) /\ stream[p].sess # None /\ Free(stream[p].sess)
    /\ session' = [session EXCEPT ![stream[p].sess].active = FALSE]
    /\ IF Sess(p).active
       THEN stream' = [stream EXCEPT ![p].at = "publish", ![p].entry = End]
       ELSE Goto(p, "cleanup")
    /\ UNCHANGED <<queue, gone, channel, reader, seen, crashed>>

(* The read lock is taken for those who are to be sent the entry: all agents *)
(* the end, the customer (what an agent says) and the other agents the rest. *)
Recipients(p) ==
    LET agents == Sess(p).agents
    IN  IF stream[p].entry = End THEN Range(agents)
        ELSE {agents[a] : a \in DOMAIN agents \ {p}}
               \cup (IF p \in AgentStream THEN {Sess(p).cust} \ {None} ELSE {})

SendTo(p, rest) ==
    stream' = [stream EXCEPT ![p] =
        IF rest # {} THEN [@ EXCEPT !.at = "sending", !.to = rest]
        ELSE [@ EXCEPT !.to = {}, !.entry = None,
                       !.at = IF stream[p].entry = End THEN "unlist" ELSE "recv"]]

Publish(p) ==
    /\ At(p, "publish")
    /\ SendTo(p, Recipients(p))
    /\ UNCHANGED <<session, queue, gone, channel, reader, seen, crashed>>

(* Mutant of Send: send does not wait for a channel that is full. *)
SendOrDrop(p) ==
    /\ At(p, "sending")
    /\ \E c \in stream[p].to :
        \/ channel[c].closed /\ Crash
        \/ /\ ~channel[c].closed
           /\ channel' = [channel EXCEPT ![c].holds = IF @ = <<>> THEN <<stream[p].entry>> ELSE @]
           /\ SendTo(p, stream[p].to \ {c})
           /\ UNCHANGED <<session, queue, gone, reader, seen, crashed>>

(* listener.send gives up only when the context of the listener is done; to  *)
(* send on a closed channel would be a panic.                                *)
Send(p) ==
    /\ At(p, "sending")
    /\ \E c \in stream[p].to :
        \/ channel[c].closed /\ Crash
        \/ /\ ~channel[c].closed
           /\ \/ /\ channel[c].holds = <<>> /\ channel[c].stream \notin gone
                 /\ channel' = [channel EXCEPT ![c].holds = <<stream[p].entry>>]
              \/ channel[c].stream \in gone /\ UNCHANGED channel
           /\ SendTo(p, stream[p].to \ {c})
           /\ UNCHANGED <<session, queue, gone, reader, seen, crashed>>

Unlist(p) ==
    /\ At(p, "unlist")
    /\ session' = [session EXCEPT ![stream[p].sess].listed = FALSE]
    /\ \/ /\ \A i \in DOMAIN queue : queue[i] # stream[p].sess
          /\ UNCHANGED queue
       \/ \E i \in DOMAIN queue :
            /\ queue[i] = stream[p].sess /\ \A j \in 1..(i - 1) : queue[j] # stream[p].sess
            /\ queue' = RemoveAt(queue, i)
    /\ Goto(p, "cleanup")
    /\ UNCHANGED <<gone, channel, reader, seen, crashed>>

(* Mutant of cleanup: only an agent that leaves the session, not one whose   *)
(* stream ends, puts it back.                                                *)
cleanupForgetting(p) ==
    /\ At(p, "cleanup") /\ Free(stream[p].sess)
    /\ LET s == stream[p].sess
       IN  session' = [session EXCEPT ![s].cust = IF p \in CustomerStream THEN None ELSE @,
                                      ![s].agents = Restrict(@, DOMAIN @ \ {p})]
    /\ LET closed == [channel EXCEPT ![stream[p].ch].closed = TRUE]
       IN  IF stream[p].returns
           THEN Over(p) /\ Abandoned(p, closed, reader) /\ UNCHANGED queue
           ELSE /\ channel' = closed
                /\ reader' = [reader EXCEPT ![stream[p].ch].drain.at = "start"]
                /\ stream' = [stream EXCEPT ![p].sess = None, ![p].at = "recv"]
                /\ queue' = IF p \in AgentStream THEN Append(queue, stream[p].sess) ELSE queue
                /\ UNCHANGED gone
    /\ seen' = [seen EXCEPT ![p] = {}]
    /\ UNCHANGED crashed

(* The last agent to leave puts the session back in the queue, also one that *)
(* has been closed.  The stream's own ch is closed, and drained.             *)
cleanup(p) ==
    /\ At(p, "cleanup") /\ Free(stream[p].sess)
    /\ LET s == stream[p].sess
           agents == Restrict(session[s].agents, DOMAIN session[s].agents \ {p})
           left == IF p \in CustomerStream THEN [session[s] EXCEPT !.cust = None]
                   ELSE [session[s] EXCEPT !.agents = agents]
       IN  /\ session' = [session EXCEPT ![s] =
                 IF left.listed \/ \E q \in Stream \ {p} : stream[q].sess = s THEN left
                 ELSE [left EXCEPT !.history = <<>>]]  \* out of reach
           /\ queue' = IF p \in AgentStream /\ DOMAIN agents = {} THEN Append(queue, s) ELSE queue
    /\ LET closed == [channel EXCEPT ![stream[p].ch].closed = TRUE]
       IN  IF stream[p].returns
           THEN Over(p) /\ Abandoned(p, closed, reader)
           ELSE /\ channel' = closed
                /\ reader' = [reader EXCEPT
                     ![stream[p].ch].drain.at = "start",
                     ![stream[p].ch].monitor =
                        IF @.at = "wait" THEN Reading(closed, @.on) ELSE @]
                /\ stream' = [stream EXCEPT ![p].sess = None, ![p].at = "recv"]
                /\ UNCHANGED gone
    /\ seen' = [seen EXCEPT ![p] = {}]
    /\ UNCHANGED crashed

(* The client half-closes, breaks the stream, or sends a request out of     *)
(* place: the handler returns, and its deferred cleanup runs.  Without a    *)
(* session that changes nothing.                                            *)
Return(p) ==
    /\ Waits(p) \/ Ready(p)
    /\ stream[p].sess # None
    /\ stream' = [stream EXCEPT ![p].returns = TRUE, ![p].at = "cleanup"]
    /\ UNCHANGED <<session, queue, gone, channel, reader, seen, crashed>>

(* A stream that breaks has its context done.  A handler that waits for a    *)
(* request returns when it does; elsewhere it goes on until it waits.        *)
Break(p) ==
    /\ p \notin gone /\ ~crashed
    /\ stream[p].at \in {"join", "snapshot", "sending", "cleanup"}
    /\ gone' = gone \cup {p}
    /\ Abandoned(p, channel, reader)
    /\ UNCHANGED <<session, queue, stream, seen, crashed>>

---------------------------------------------------------------------------
(* The goroutines *)

Take(c) ==
    /\ ~crashed /\ reader[c].monitor.at = "wait"
    /\ LET from == reader[c].monitor.on
       IN  IF channel[from].holds = <<>>
           THEN /\ channel[from].closed
                /\ reader' = [reader EXCEPT ![c].monitor = Done]
                /\ UNCHANGED channel
           ELSE /\ reader' = [reader EXCEPT ![c].monitor.at = "show",
                                            ![c].monitor.entry = Head(channel[from].holds)]
                /\ channel' = [channel EXCEPT ![from].holds = <<>>]
    /\ UNCHANGED <<session, queue, stream, gone, seen, crashed>>

(* An entry says nothing of its session: what a monitor still shows of the   *)
(* last session is not an entry of the one the stream has joined since.      *)
OfSession(c) == channel[reader[c].monitor.on].sess = stream[channel[c].stream].sess

Show(c) ==
    /\ ~crashed /\ reader[c].monitor.at = "show"
    /\ seen' = [seen EXCEPT ![channel[c].stream] =
                  @ \cup (IF OfSession(c) THEN {reader[c].monitor.entry} ELSE {})]
    /\ reader' = [reader EXCEPT ![c].monitor = Reading(channel, Ch(c))]
    /\ UNCHANGED <<session, queue, stream, gone, channel, crashed>>

(* The drain starts on the channel that ch is by then, and takes what comes  *)
(* until that one is closed.                                                 *)
Drain(c) ==
    /\ ~crashed
    /\ LET drain == reader[c].drain
           from == IF drain.at = "start" THEN Ch(c) ELSE drain.on
           drained == [channel EXCEPT ![from].holds = <<>>]
       IN  /\ \/ drain.at = "start"
              \/ drain.at = "wait" /\ (channel[from].holds # <<>> \/ channel[from].closed)
           /\ channel' = drained
           /\ reader' = [reader EXCEPT ![c].drain = Reading(drained, from)]
    /\ UNCHANGED <<session, queue, stream, gone, seen, crashed>>

(* Nobody is in a session any more. *)
Finished ==
    /\ crashed \/ \A p \in Stream : stream[p].sess = None
    /\ UNCHANGED vars

Next ==
    \/ \E p \in Stream :
        \/ newSession(p) \/ resumeSession(p) \/ checkSession(p) \/ acceptSession(p)
        \/ JoinSession(p) \/ Snapshot(p) \/ Message(p) \/ closeSession(p) \/ Publish(p)
        \/ Send(p) \/ Unlist(p) \/ cleanup(p) \/ Return(p) \/ Break(p)
    \/ \E c \in DOMAIN channel :
        Take(c) \/ Show(c) \/ Drain(c)
    \/ Finished

Spec == Init /\ [][Next]_vars

---------------------------------------------------------------------------
(* Properties *)

Queued(s) == {i \in DOMAIN queue : queue[i] = s}
Joining(s) == {p \in AgentStream : At(p, "join") /\ stream[p].sess = s}

(* A session that is open is never forgotten: it waits in the queue, and     *)
(* only once, just when no agent has joined it or is about to, whatever      *)
(* agents accept, break off or leave at the same time.  (That several agents *)
(* can be connected to a session, as support.proto says, is not of the code: *)
(* the queue is the only way in, and a session is not in it while an agent   *)
(* is there.)                                                                *)
Attended ==
    \A s \in DOMAIN session :
        session[s].active =>
            /\ Cardinality(Queued(s)) <= 1
            /\ Queued(s) = {} <=> Joining(s) \cup DOMAIN session[s].agents # {}

(* Whoever is in a session misses nothing that is said there: what is in its *)
(* history was in what the client was first shown, was forwarded since, or   *)
(* is on its way.  An agent is also told that the session ended if it was    *)
(* shown to it before that.  The only exception is a stream that joins again *)
(* while the drain of its last session has yet to start: that one empties    *)
(* the new channel.                                                          *)
Due(p) ==
    (IF p \in CustomerStream
     THEN {i \in DOMAIN Sess(p).history : Sess(p).history[i] \in AgentStream}
     ELSE {i \in DOMAIN Sess(p).history : Sess(p).history[i] # p})
    \cup (IF p \in AgentStream /\ ~Sess(p).active THEN {End} ELSE {})

OnItsWay(p) ==
    LET ch == stream[p].ch
    IN  ToSet(channel[ch].holds)
        \cup {reader[c].monitor.entry : c \in {d \in DOMAIN reader :
                channel[d].stream = p /\ reader[d].monitor.at = "show" /\ OfSession(d)}}
        \cup {stream[q].entry : q \in {r \in Stream :
                \/ At(r, "publish") /\ stream[r].sess = stream[p].sess
                \/ At(r, "sending") /\ ch \in stream[r].to}}

NothingMissed ==
    \A p \in Stream \ gone :
        /\ Waits(p) \/ At(p, "checked")
        /\ stream[p].sess # None
        /\ \A c \in DOMAIN reader : reader[c].drain.on # stream[p].ch
        => Due(p) \subseteq seen[p] \cup OnItsWay(p)
=============================================================================
