--------------------------- MODULE PrivateSession ---------------------------
(***************************************************************************)
(* The sessions of the Private Control Link (private_control.go,           *)
(* private_control_snapshot.go, relay_diagnostics.go): what a Management   *)
(* Service receives on its connection while the Relay goes on.             *)
(*                                                                         *)
(* The goroutines that change the Relay's table (the run loop, cleanupLoop *)
(* and the revocations) drop server.mu before they publish the events of   *)
(* the change, and not every change has one. Publishing takes eventMu and  *)
(* the link's mutex, and puts the event in the bounded queue of every      *)
(* session. A connection has a reader (handleConnection), which answers    *)
(* requests through the same queue, and a writer (writeSession), which     *)
(* empties it. A state snapshot is captured and queued chunk by chunk      *)
(* under eventMu. The service_admission events say nothing of the table    *)
(* and are left out.                                                       *)
(***************************************************************************)
EXTENDS SnapshotChunks

CONSTANTS
    Publishers,    \* goroutines that change the table and publish
    RunLoop,       \* the one of them that handles datagrams
    NumConns,      \* bound on the connections, numbered as their hellos come
    Owner,         \* Owner[c]: the service that authenticates on c
    Wants,         \* the capabilities the hellos may ask for
    QueueDepth,    \* privateControlSessionQueueDepth
    MaxConns,      \* privateControlMaxConnections
    Limit,         \* maxActiveTalkers
    InitialTable,  \* server.channels when the link starts
    Packets,       \* datagrams that come: [type, channel, sender, addr]
    Sweeps,        \* what ends in one critical section: [by, gone, over]
    MaxChanges,    \* bound on the changes of the table, without
    MaxFloor,      \* the PTT_REQUESTs and their bound
    MaxRequests    \* MaxRequests[c]: bound on the requests of a connection

Conns == 1 .. NumConns
NoConn == 0

Services == {Owner[c] : c \in Conns}

ASSUME PrivateSessionAssumption ==
    /\ NumConns \in Nat /\ IsFiniteSet(Publishers) /\ RunLoop \in Publishers
    /\ DOMAIN Owner = Conns
    /\ Wants \subseteq [Conns -> [events: BOOLEAN, audits: BOOLEAN]]
    /\ InitialTable \in Tables
    /\ Packets \subseteq [type: {"JOIN", "LEAVE", "PTT_ON", "PTT_REQUEST"},
                          channel: Channels, sender: Senders, addr: Addrs]
    /\ Sweeps \subseteq [by: Publishers, gone: SUBSET (Channels \X Addrs),
                         over: SUBSET (Channels \X Senders)]
    /\ {QueueDepth, MaxConns, Limit} \subseteq Nat \ {0}
    /\ {MaxChanges, MaxFloor} \subseteq Nat /\ MaxRequests \in [Conns -> Nat]

VARIABLES
    past,      \* the tables so far, the present one last; history
    owed,      \* owed[p]: the messages p has still to publish, in order
    announced, \* the events that were ever owed and got a message id, or
               \* have still to get one; history
    dropped,   \* link.dropped is not zero
    eventMu,   \* the connection that holds eventMu to send a snapshot
    sessions,  \* link.sessions: the registered connection of a service
    stage,     \* where the reader of a connection is
    want,      \* the capabilities of the session
    previous,  \* the session a reader has replaced and not closed yet
    queued,    \* how many messages are in session.send
    log,       \* the events and chunks put in it, in order, while the
               \* session is open; history
    done,      \* session.done is closed
    writer,    \* where the writer of a connection is
    open,      \* the connection itself
    pending,   \* the chunks a reader has still to queue
    asked,     \* requests of a connection so far
    floor      \* PTT_REQUESTs so far

relayVars == <<past, floor, announced>>
queueVars == <<log, queued, dropped>>
readerVars == <<sessions, want, previous, pending, asked>>
connVars == <<done, writer, open>>

vars == <<relayVars, owed, eventMu, queueVars, readerVars, stage, connVars>>

table == past[Len(past)]

(* The k-th event of change n.                                             *)
Event(what, n, k) == [kind |-> "event", what |-> what, n |-> n, k |-> k]
Plain(kind) == [kind |-> kind]

(* Where handleConnection is: before its hello, in addSession ("close"),   *)
(* before the hello_ack and the health event, at the read of the next      *)
(* frame, in a snapshot, at the deferred calls, at the end.                *)
Stages == {"off", "close", "ack", "health", "read", "chunk", "leave", "gone"}

Lifecycle == {"talk_started", "talk_ended", "participant_joined", "participant_left"}

EventType ==
    [kind: {"event"}, what: Lifecycle, n: 1 .. MaxChanges + MaxFloor, k: Nat \ {0}]

MessageType ==
    EventType \cup {Plain(kind) : kind \in {"hello_ack", "health", "audit", "answer"}}

IsChunk(m) == m.kind = "chunk"

(* Types, and no queue holds more than QueueDepth.                         *)
TypeOK ==
    /\ Len(past) \in 1 .. MaxChanges + MaxFloor + 1
    /\ \A i \in DOMAIN past : past[i] \in Tables
    /\ \A p \in Publishers : \A i \in DOMAIN owed[p] : owed[p][i] \in MessageType
    /\ announced \subseteq EventType
    /\ dropped \in BOOLEAN
    /\ eventMu \in Conns \cup {NoConn}
    /\ queued \in [Conns -> 0 .. QueueDepth]
    /\ sessions \in [Services -> Conns \cup {NoConn}]
    /\ stage \in [Conns -> Stages]
    /\ want \in Wants
    /\ previous \in [Conns -> Conns \cup {NoConn}]
    /\ \A c \in Conns :
         /\ \A i \in DOMAIN log[c] : IsChunk(log[c][i]) \/ log[c][i] \in MessageType
         /\ \A i \in DOMAIN pending[c] : IsChunk(pending[c][i])
    /\ done \in [Conns -> BOOLEAN]
    /\ writer \in [Conns -> {"off", "select", "blocked"}]
    /\ open \in [Conns -> BOOLEAN]
    /\ \A c \in Conns : asked[c] \in 0 .. MaxRequests[c]
    /\ floor \in 0 .. MaxFloor

Init ==
    /\ past = <<InitialTable>>
    /\ owed = [p \in Publishers |-> <<>>]
    /\ announced = {}
    /\ dropped = FALSE
    /\ eventMu = NoConn
    /\ sessions = [v \in Services |-> NoConn]
    /\ stage = [c \in Conns |-> "off"]
    /\ want \in Wants
    /\ previous = [c \in Conns |-> NoConn]
    /\ log = [c \in Conns |-> <<>>]
    /\ queued = [c \in Conns |-> 0]
    /\ done = [c \in Conns |-> FALSE]
    /\ writer = [c \in Conns |-> "off"]
    /\ open = [c \in Conns |-> TRUE]
    /\ pending = [c \in Conns |-> <<>>]
    /\ asked = [c \in Conns |-> 0]
    /\ floor = 0

-----------------------------------------------------------------------------
(* session.enqueue: a closed session and a full queue refuse the message.  *)

CanEnqueue(c) == ~done[c] /\ queued[c] < QueueDepth

Recorded(m) == IsChunk(m) \/ m.kind = "event"

Enqueue(m, receivers) ==
    LET takes == {c \in receivers : CanEnqueue(c)}
    IN /\ queued' = [c \in Conns |-> IF c \in takes THEN queued[c] + 1 ELSE queued[c]]
       /\ log' = [c \in Conns |-> IF c \in takes /\ Recorded(m) THEN Append(log[c], m) ELSE log[c]]

\* Mutant of Deliver: what a full queue refuses is not counted.
DeliverUncounted(m, receivers) ==
    /\ Enqueue(m, receivers)
    /\ UNCHANGED dropped

(* enqueueLifecycleEvent, enqueueAuditInput.                               *)
Deliver(m, receivers) ==
    /\ Enqueue(m, receivers)
    /\ dropped' = (dropped \/ \E c \in receivers : ~CanEnqueue(c))

Registered == {c \in Conns : sessions[Owner[c]] = c}

(* The reader of c queues its message and goes on, or returns.             *)
Reply(c, m, next) ==
    /\ Enqueue(m, {c})
    /\ stage' = [stage EXCEPT ![c] = IF CanEnqueue(c) THEN next ELSE "leave"]
    /\ UNCHANGED dropped

-----------------------------------------------------------------------------
(* The goroutines that change the table: what they change under server.mu, *)
(* then what they publish, without it.                                     *)

(* The goroutine by leaves server.mu with a new table. It has to publish   *)
(* the events of the change, then what it had to publish before or has to  *)
(* publish after it.                                                       *)
Announce(by, newTable, whats, rest) ==
    LET events == [k \in DOMAIN whats |-> Event(whats[k], Len(past), k)]
    IN /\ past' = Append(past, newTable)
       /\ owed' = [owed EXCEPT ![by] = events \o rest]
       /\ announced' = announced \cup {events[k] : k \in DOMAIN events}

(* The next datagram, or the next round of a goroutine.                    *)
Ready(by) == owed[by] = <<>> /\ Len(past) <= MaxChanges

(* JOIN: upsertPeer, which takes the endpoint from the sender that had it  *)
(* and tells nobody. participant_joined is published at the end of the     *)
(* handler, for a repeated JOIN too; a handler that can not attach an      *)
(* admission or start the membership returns before it.                    *)
Join(x) ==
    /\ x.type = "JOIN" /\ Ready(RunLoop)
    /\ \E whats \in {<<>>, <<"participant_joined">>} :
         Announce(RunLoop, [table EXCEPT ![x.channel].peers[x.addr] = x.sender], whats, <<>>)
    /\ UNCHANGED <<floor, eventMu, queueVars, readerVars, stage, connVars>>

(* The table in which x.sender talks.                                      *)
Granted(x) == [table EXCEPT ![x.channel].talkers = @ \cup {x.sender}]

(* handlePttOn.                                                            *)
PttOn(x) ==
    /\ x.type = "PTT_ON" /\ Ready(RunLoop)
    /\ x.channel \in Existing(table) /\ x.sender \notin table[x.channel].talkers
    /\ Cardinality(table[x.channel].talkers) < Limit
    /\ Announce(RunLoop, Granted(x), <<"talk_started">>, <<>>)
    /\ UNCHANGED <<floor, eventMu, queueVars, readerVars, stage, connVars>>

(* A channel that loses endpoints and talkers; with the last endpoint it   *)
(* is deleted, and whoever still talked in it.                             *)
Reduced(row, gone, ended) ==
    LET left == [row EXCEPT !.peers = [a \in Addrs |-> IF a \in gone THEN NoSender ELSE @[a]],
                            !.talkers = @ \ ended]
    IN IF Empty(left) THEN [left EXCEPT !.talkers = {}] ELSE left

(* LEAVE, once releaseTalkIfNeeded has ended the sender's tenure, which is *)
(* a Sweep: removePeer takes out the endpoint of the packet or, when it    *)
(* has gone in between, another one of the sender, if there is one.        *)
LeavePacket(x) ==
    LET row   == table[x.channel]
        those == Endpoints(table, x.channel, x.sender)
    IN /\ x.type = "LEAVE" /\ Ready(RunLoop)
       /\ x.sender \notin row.talkers
       /\ \E gone \in IF x.addr \in those THEN {{x.addr}}
                    ELSE IF those = {} THEN {{}} ELSE {{a} : a \in those} :
            Announce(RunLoop, [table EXCEPT ![x.channel] = Reduced(row, gone, {})],
                     <<"participant_left">>, <<>>)
       /\ UNCHANGED <<floor, eventMu, queueVars, readerVars, stage, connVars>>

(* The tenures that end with the endpoints gone, or by themselves.         *)
EndedIn(ch, x) ==
    {s \in table[ch].talkers :
       <<ch, s>> \in x.over \/ \E a \in Addrs : <<ch, a>> \in x.gone /\ table[ch].peers[a] = s}

Ended(x) == {q \in Channels \X Senders : q[2] \in EndedIn(q[1], x)}
Departed(x) == {q \in x.gone : table[q[1]].peers[q[2]] # NoSender}

(* What cleanupLoop, expireMembershipIfNeeded, expireTalkIfNeeded, a       *)
(* revocation, PTT_OFF and releaseTalkIfNeeded take out in one critical    *)
(* section. Each tenure that ends and each endpoint that goes has its      *)
(* event; that all of the former come first is the order of cleanupLoop.   *)
(* A JOIN ends overdue tenures before its participant_joined is published. *)
Sweep(x) ==
    LET ended == Cardinality(Ended(x))
        left  == Cardinality(Departed(x))
        whats == [k \in 1 .. ended + left |-> IF k <= ended THEN "talk_ended" ELSE "participant_left"]
    IN /\ Len(past) <= MaxChanges
       /\ \/ owed[x.by] = <<>>
          \/ /\ x.by = RunLoop /\ x.gone = {}
             /\ Len(owed[RunLoop]) = 1 /\ Head(owed[RunLoop]).kind = "event"
             /\ Head(owed[RunLoop]).what = "participant_joined"
       /\ ended + left > 0
       /\ Announce(x.by,
                   [ch \in Channels |->
                      Reduced(table[ch], {a \in Addrs : <<ch, a>> \in x.gone}, EndedIn(ch, x))],
                   whats, owed[x.by])
       /\ UNCHANGED <<floor, eventMu, queueVars, readerVars, stage, connVars>>

(* handlePttRequest. Who may interrupt whom is left to the Relay module,   *)
(* what is counted to RelayDiagnostics. The first branch is a request that *)
(* is refused, or made by a sender who talks; one without an admission is  *)
(* not audited and changes nothing here.                                   *)
PttRequest(x) ==
    LET row   == table[x.channel]
        idle  == row.peers[x.addr] = x.sender /\ x.sender \notin row.talkers
        audit == <<Plain("audit")>>
    IN /\ x.type = "PTT_REQUEST" /\ owed[RunLoop] = <<>>
       /\ floor < MaxFloor
       /\ floor' = floor + 1
       /\ \/ owed' = [owed EXCEPT ![RunLoop] = audit] /\ UNCHANGED <<past, announced>>
          \/ /\ idle /\ Cardinality(row.talkers) < Limit
             /\ Announce(RunLoop, Granted(x), <<"talk_started">>, audit)
          \/ /\ idle /\ Cardinality(row.talkers) >= Limit
             /\ \E victim \in row.talkers :
                  Announce(RunLoop,
                           [table EXCEPT ![x.channel].talkers = (@ \ {victim}) \cup {x.sender}],
                           <<"talk_ended", "talk_started">>, audit)
       /\ UNCHANGED <<eventMu, queueVars, readerVars, stage, connVars>>

(* eventMu can be taken.                                                   *)
EventsFree == eventMu = NoConn

\* Mutant of PublishEvent: the event waits for room in every queue.
PublishEventBlocking(p) ==
    /\ owed[p] # <<>> /\ Head(owed[p]).kind = "event"
    /\ EventsFree
    /\ \A c \in Registered : want[c].events => CanEnqueue(c)
    /\ Deliver(Head(owed[p]), {c \in Registered : want[c].events})
    /\ owed' = [owed EXCEPT ![p] = Tail(@)]
    /\ UNCHANGED <<relayVars, eventMu, readerVars, stage, connVars>>

(* publishLifecycleEvent. An event for which there is no message id is     *)
(* logged and not sent.                                                    *)
PublishEvent(p) ==
    /\ owed[p] # <<>> /\ Head(owed[p]).kind = "event"
    /\ EventsFree
    /\ \/ Deliver(Head(owed[p]), {c \in Registered : want[c].events}) /\ UNCHANGED announced
       \/ announced' = announced \ {Head(owed[p])} /\ UNCHANGED queueVars
    /\ owed' = [owed EXCEPT ![p] = Tail(@)]
    /\ UNCHANGED <<past, floor, eventMu, readerVars, stage, connVars>>

(* publishFloorInterruptAudit, without eventMu.                            *)
PublishAudit(p) ==
    /\ owed[p] # <<>> /\ Head(owed[p]).kind = "audit"
    /\ \/ Deliver(Head(owed[p]), {c \in Registered : want[c].audits})
       \/ UNCHANGED queueVars
    /\ owed' = [owed EXCEPT ![p] = Tail(@)]
    /\ UNCHANGED <<relayVars, eventMu, readerVars, stage, connVars>>

-----------------------------------------------------------------------------
(* The reader of a connection: acceptLoop and handleConnection.            *)

At(c, s) == stage[c] = s
GoTo(c, s) == stage' = [stage EXCEPT ![c] = s]

InUse == {c \in Conns : stage[c] \notin {"off", "gone"}}

(* The connection has no slot (acquireConnection), or the hello is refused *)
(* or does not come before its deadline.                                   *)
Refused(c) ==
    /\ At(c, "off")
    /\ GoTo(c, "gone")
    /\ open' = [open EXCEPT ![c] = FALSE]
    /\ UNCHANGED <<relayVars, owed, eventMu, queueVars, readerVars, done, writer>>

(* A hello; the first half of addSession.                                  *)
Hello(c) ==
    /\ At(c, "off") /\ Cardinality(InUse) < MaxConns
    /\ \A d \in Conns : d < c => ~At(d, "off")
    /\ previous' = [previous EXCEPT ![c] = sessions[Owner[c]]]
    /\ sessions' = [sessions EXCEPT ![Owner[c]] = c]
    /\ GoTo(c, "close")
    /\ UNCHANGED <<relayVars, owed, eventMu, queueVars, want, pending, asked, connVars>>

(* The session that was replaced is closed, and the writer is started.     *)
ClosePrevious(c) ==
    /\ At(c, "close")
    /\ done' = [d \in Conns |-> done[d] \/ d = previous[c]]
    /\ previous' = [previous EXCEPT ![c] = NoConn]
    /\ writer' = [writer EXCEPT ![c] = "select"]
    /\ log' = [d \in Conns |-> IF d = previous[c] THEN <<>> ELSE log[d]]
    /\ GoTo(c, "ack")
    /\ UNCHANGED <<relayVars, owed, eventMu, queued, dropped, sessions, want, pending, asked, open>>

HelloAck(c) ==
    /\ At(c, "ack")
    /\ Reply(c, Plain("hello_ack"), IF want[c].events THEN "health" ELSE "read")
    /\ UNCHANGED <<relayVars, owed, eventMu, readerVars, connVars>>

Health(c) ==
    /\ At(c, "health")
    /\ Reply(c, Plain("health"), "read")
    /\ UNCHANGED <<relayVars, owed, eventMu, readerVars, connVars>>

(* A frame of the service has been read.                                   *)
Request(c) ==
    /\ At(c, "read") /\ open[c]
    /\ asked[c] < MaxRequests[c]
    /\ asked' = [asked EXCEPT ![c] = @ + 1]

(* A ping, a request for diagnostics, or a message that is not supported:  *)
(* a pong, the counters, or an error.                                      *)
Ask(c) ==
    /\ Request(c)
    /\ Reply(c, Plain("answer"), "read")
    /\ UNCHANGED <<relayVars, owed, eventMu, sessions, want, previous, pending, connVars>>

(* The frames of a snapshot of the present table.                          *)
SnapshotOf(c) ==
    LET chunks == Chunks(table)
    IN [i \in DOMAIN chunks |->
          [kind |-> "chunk", id |-> asked[c] + 1, n |-> Len(past) - 1,
           index |-> i, count |-> Len(chunks), channels |-> chunks[i]]]

(* handleRelayStateSnapshot: eventMu is taken, the table read.             *)
Snapshot(c) ==
    /\ EventsFree
    /\ Request(c)
    /\ IF TooLarge(table)
       THEN /\ Reply(c, Plain("answer"), "read")
            /\ UNCHANGED <<eventMu, pending>>
       ELSE /\ eventMu' = c
            /\ pending' = [pending EXCEPT ![c] = SnapshotOf(c)]
            /\ GoTo(c, "chunk")
            /\ UNCHANGED queueVars
    /\ UNCHANGED <<relayVars, owed, sessions, want, previous, connVars>>

\* Mutant of Chunk: a chunk that the queue refuses is skipped.
ChunkSkipped(c) ==
    /\ At(c, "chunk")
    /\ LET last == Len(pending[c]) = 1
       IN /\ Enqueue(Head(pending[c]), {c})
          /\ UNCHANGED dropped
          /\ GoTo(c, IF last THEN "read" ELSE "chunk")
          /\ eventMu' = IF last THEN NoConn ELSE c
          /\ pending' = [pending EXCEPT ![c] = Tail(@)]
    /\ UNCHANGED <<relayVars, owed, sessions, want, previous, asked, connVars>>

(* The next chunk is queued; eventMu is held to the last one, or to the    *)
(* one that the queue refuses.                                             *)
Chunk(c) ==
    /\ At(c, "chunk")
    /\ LET last == Len(pending[c]) = 1
       IN /\ Reply(c, Head(pending[c]), IF last THEN "read" ELSE "chunk")
          /\ eventMu' = IF last \/ ~CanEnqueue(c) THEN NoConn ELSE c
          /\ pending' = [pending EXCEPT ![c] = IF CanEnqueue(c) THEN Tail(@) ELSE <<>>]
    /\ UNCHANGED <<relayVars, owed, sessions, want, previous, asked, connVars>>

(* There is no id for the hello_ack, the health event, the snapshot or its *)
(* next chunk: the reader returns.                                         *)
IdFails(c) ==
    /\ stage[c] \in {"ack", "health", "chunk"}
    /\ GoTo(c, "leave")
    /\ eventMu' = IF At(c, "chunk") THEN NoConn ELSE eventMu
    /\ pending' = [pending EXCEPT ![c] = <<>>]
    /\ UNCHANGED <<relayVars, owed, queueVars, sessions, want, previous, asked, connVars>>

(* The connection is closed, a frame is malformed, or there is no id for   *)
(* the answer.                                                             *)
ReadFails(c) ==
    /\ At(c, "read")
    /\ GoTo(c, "leave")
    /\ UNCHANGED <<relayVars, owed, eventMu, queueVars, readerVars, connVars>>

\* Mutant of Leave: the entry is deleted whoever's it is.
LeaveUnchecked(c) ==
    /\ At(c, "leave")
    /\ sessions' = [sessions EXCEPT ![Owner[c]] = NoConn]
    /\ done' = [done EXCEPT ![c] = TRUE]
    /\ open' = [open EXCEPT ![c] = FALSE]
    /\ log' = [log EXCEPT ![c] = <<>>]
    /\ queued' = [queued EXCEPT ![c] = 0]
    /\ GoTo(c, "gone")
    /\ UNCHANGED <<relayVars, owed, eventMu, dropped, want, previous, pending, asked, writer>>

(* The deferred calls: removeSession takes out its own entry and no other  *)
(* and closes the session, the connection is closed, the slot returned.    *)
(* Nothing that is left in the queue can be sent any more.                 *)
Leave(c) ==
    /\ At(c, "leave")
    /\ sessions' = [sessions EXCEPT ![Owner[c]] = IF @ = c THEN NoConn ELSE @]
    /\ done' = [done EXCEPT ![c] = TRUE]
    /\ open' = [open EXCEPT ![c] = FALSE]
    /\ log' = [log EXCEPT ![c] = <<>>]
    /\ queued' = [queued EXCEPT ![c] = 0]
    /\ GoTo(c, "gone")
    /\ UNCHANGED <<relayVars, owed, eventMu, dropped, want, previous, pending, asked, writer>>

-----------------------------------------------------------------------------
(* The writer of a connection, writeSession, and the service.              *)

\* Mutant of WriterStops: the connection is left open.
WriterStopsOpen(c) ==
    /\ writer[c] = "select" /\ done[c]
    /\ writer' = [writer EXCEPT ![c] = "off"]
    /\ UNCHANGED <<relayVars, owed, eventMu, queueVars, readerVars, stage, done, open>>

(* session.done: what is still in the queue is not sent.                   *)
WriterStops(c) ==
    /\ writer[c] = "select" /\ done[c]
    /\ writer' = [writer EXCEPT ![c] = "off"]
    /\ open' = [open EXCEPT ![c] = FALSE]
    /\ UNCHANGED <<relayVars, owed, eventMu, queueVars, readerVars, stage, done>>

(* A message is taken and written. There is no deadline on the write: it   *)
(* may wait for the service to read. When it fails the writer closes the   *)
(* connection.                                                             *)
Write(c) ==
    /\ writer[c] = "select" /\ queued[c] > 0
    /\ queued' = [queued EXCEPT ![c] = @ - 1]
    /\ \/ \E w \in {"select", "blocked"} : writer' = [writer EXCEPT ![c] = w] /\ UNCHANGED open
       \/ writer' = [writer EXCEPT ![c] = "off"] /\ open' = [open EXCEPT ![c] = FALSE]
    /\ UNCHANGED <<relayVars, owed, eventMu, log, dropped, readerVars, stage, done>>

(* The service reads again.                                                *)
Unblocked(c) ==
    /\ writer[c] = "blocked" /\ open[c]
    /\ writer' = [writer EXCEPT ![c] = "select"]
    /\ UNCHANGED <<relayVars, owed, eventMu, queueVars, readerVars, stage, done, open>>

(* The write that waits fails: the reader has closed the connection, or    *)
(* the service has disconnected.                                           *)
WriteFails(c) ==
    /\ writer[c] = "blocked"
    /\ writer' = [writer EXCEPT ![c] = "off"]
    /\ open' = [open EXCEPT ![c] = FALSE]
    /\ UNCHANGED <<relayVars, owed, eventMu, queueVars, readerVars, stage, done>>

-----------------------------------------------------------------------------
Next ==
    \/ \E x \in Packets : Join(x) \/ PttOn(x) \/ LeavePacket(x) \/ PttRequest(x)
    \/ \E x \in Sweeps : Sweep(x)
    \/ \E p \in Publishers :
         \/ PublishEvent(p) \/ PublishAudit(p)
    \/ \E c \in Conns :
         \/ Refused(c) \/ Hello(c) \/ ClosePrevious(c) \/ HelloAck(c) \/ Health(c)
         \/ Ask(c) \/ Snapshot(c) \/ Chunk(c) \/ IdFails(c) \/ ReadFails(c) \/ Leave(c)
         \/ WriterStops(c) \/ Write(c) \/ Unblocked(c) \/ WriteFails(c)

Spec == Init /\ [][Next]_vars

(* What a goroutine does without waiting for a service: it goes on with    *)
(* what it publishes and what it queues, and ends when its connection is   *)
(* closed. That a service sends, reads or disconnects is not assumed.      *)
(* Publishing is strongly fair: a Go mutex that is free again and again is *)
(* given to a goroutine that waits for it.                                 *)
ReaderGoesOn(c) ==
    \/ ClosePrevious(c) \/ HelloAck(c) \/ Health(c) \/ Chunk(c) \/ Leave(c)
    \/ ~open[c] /\ ReadFails(c)

WriterGoesOn(c) == WriterStops(c) \/ Write(c) \/ (~open[c] /\ WriteFails(c))

Fairness ==
    /\ \A p \in Publishers : SF_vars(PublishEvent(p)) /\ WF_vars(PublishAudit(p))
    /\ \A c \in Conns : WF_vars(ReaderGoesOn(c)) /\ WF_vars(WriterGoesOn(c))

-----------------------------------------------------------------------------
(* Properties.                                                             *)

(* A message queued before a chunk of a snapshot is never the event of a   *)
(* change that the snapshot does not hold (handleRelayStateSnapshot).      *)
SnapshotBoundary ==
    \A c \in Conns : \A i, j \in DOMAIN log[c] :
        (i < j /\ log[c][i].kind = "event" /\ IsChunk(log[c][j])) => log[c][i].n <= log[c][j].n

(* Frame k of snapshot id is the j-th entry of c's queue.                  *)
FrameAt(c, j, id, k) ==
    /\ j \in DOMAIN log[c]
    /\ IsChunk(log[c][j]) /\ log[c][j].id = id /\ log[c][j].index = k

(* The frames of one snapshot are queued in order, each once, with no      *)
(* event between them, and once the last one is there they are the table   *)
(* the snapshot was taken from; a session that serves the next request has *)
(* no snapshot it broke off.                                               *)
SnapshotWhole ==
    \A c \in Conns : \A i \in DOMAIN log[c] :
        IsChunk(log[c][i]) =>
            LET m     == log[c][i]
                start == i - m.index
            IN /\ \A k \in 1 .. m.index : FrameAt(c, start + k, m.id, k)
               /\ \A j \in DOMAIN log[c] : \A k \in 1 .. m.count :
                    FrameAt(c, j, m.id, k) => j = start + k
               /\ m.index = m.count =>
                    Represents([k \in 1 .. m.count |-> log[c][start + k].channels], past[m.n + 1])
               /\ At(c, "read") => FrameAt(c, start + m.count, m.id, m.count)

(* A snapshot is whole, and a boundary in the stream of events             *)
(* (handleRelayStateSnapshot).                                             *)
SnapshotSound == SnapshotBoundary /\ SnapshotWhole

(* While no message was dropped, a service that has a snapshot and is      *)
(* registered misses no event of a later change: each event that was owed  *)
(* and got an id is in its queue after the snapshot, or its publisher      *)
(* still owes it (publishManagementEvent, handleRelayStateSnapshot).       *)
NoEventMissed ==
    \A c \in Registered : \A i \in DOMAIN log[c] :
        (~dropped /\ want[c].events /\ IsChunk(log[c][i])) =>
            \A e \in announced : e.n > log[c][i].n =>
                \/ \E j \in i + 1 .. Len(log[c]) : log[c][j] = e
                \/ \E p \in Publishers : \E j \in DOMAIN owed[p] : owed[p][j] = e

(* A session that serves and was not replaced is the one events are sent   *)
(* to, and a registered session is never closed (addSession,               *)
(* removeSession).                                                         *)
LiveSessionRegistered ==
    \A c \in Conns :
        /\ /\ stage[c] \in {"ack", "health", "read", "chunk"} /\ ~done[c]
           /\ \A d \in Conns : previous[d] # c
           => c \in Registered
        /\ c \in Registered => ~done[c] /\ stage[c] \notin {"off", "gone"}

(* Types, the bound of the queues, and the register of sessions            *)
(* (enqueue, addSession, removeSession).                                   *)
SessionsSound == TypeOK /\ LiveSessionRegistered

(* A service that does not read, or a snapshot that goes on, never holds   *)
(* up the goroutines that run the Relay (enqueue does not wait).           *)
PublisherNotBlocked == \A p \in Publishers : owed[p] # <<>> ~> owed[p] = <<>>

(* A session that was replaced ends, and its slot comes back, unless its   *)
(* writer waits for a service that neither reads nor disconnects.          *)
ReplacedSessionEnds ==
    \A c \in Conns : done[c] ~> At(c, "gone") \/ writer[c] = "blocked"
=============================================================================
