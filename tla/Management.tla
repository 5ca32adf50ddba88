----------------------------- MODULE Management -----------------------------
(***************************************************************************)
(* The event streams and views of the Management Plane (management.go).    *)
(*                                                                         *)
(* The goroutines of the Relay change its tables under server.mu, drop it, *)
(* and publish the events of the change one after another. Publishing      *)
(* numbers the event and copies the list of subscribers under the plane's  *)
(* mutex, then offers the event to each of them: whether it may see it is  *)
(* looked up under the mutex again, and a stream whose queue is full loses *)
(* it. A request for the channels holds the plane's mutex while it waits   *)
(* for server.mu. Every stream, view and grant is a request of its own.    *)
(***************************************************************************)
EXTENDS GrantIssue, Sequences, FiniteSets

CONSTANTS
    Feeders,       \* goroutines that publish
    Starter,       \* the one that starts the plane and then runs the Relay
    Feeds,         \* what a change of the tables publishes: [by, channel, count]
    Streams,       \* requests to /v1/events
    Viewers,       \* requests to /v1/channels
    ServiceOf,     \* ServiceOf[x]: the service of a stream, view or grant
    ApiRole,       \* ApiRole[v]: role of service v
    HealthReaders, \* the services that have health.read
    Listed,        \* Listed[v]: the channels with an enabled row of service v
    Granting,      \* requests to /v1/service-admission-grants, feeders too
    GrantRow,      \* GrantRow[x]: the row and the request of a grant
    StreamDepth,   \* the queue of a stream, 64
    MaxEvents      \* bound on the events

Nobody == "nobody"
NoChannel == -1   \* an event of the Relay itself: relay_health_changed

ASSUME ManagementAssumption ==
    /\ Feeds \subseteq [by: Feeders \ Granting, channel: Nat, count: Nat \ {0}]
    /\ Granting \subseteq Feeders /\ Starter \in Feeders \ Granting
    /\ Nobody \notin Feeders \cup Viewers
    /\ StreamDepth \in Nat \ {0} /\ MaxEvents \in Nat
    /\ \A x \in Granting : RowAccepted(GrantRow[x].row) /\ GrantRow[x].channel \in Nat

VARIABLES
    serverMu,     \* who holds server.mu
    planeMu,      \* who holds the plane's mutex
    feeding,      \* feeding[f]: what f has changed and still publishes
    targets,      \* targets[f]: the subscribers f has still to offer its event to
    current,      \* current[f]: the number of that event
    events,       \* the events, by number; history
    subscribers,  \* plane.subscribers
    since,        \* since[u]: the events there were when u subscribed; history
    stream,       \* stream[u]: the events put in the queue of u, in order; history
    taken,        \* taken[u]: how many of them the stream has sent
    lost,         \* lost[u]: the events its full queue refused; history
    ended,        \* the streams whose client has gone
    viewing       \* viewing[v]: where a request for the channels is

lockVars == <<serverMu, planeMu>>
feedVars == <<feeding, targets, current, events>>
streamVars == <<subscribers, since, stream, taken, lost, ended>>
mgmtVars == <<lockVars, feedVars, streamVars, viewing>>

MgmtTypeOK ==
    /\ serverMu \in Feeders \cup Viewers \cup {Nobody}
    /\ planeMu \in Viewers \cup {Nobody}
    /\ feeding \in [Feeders -> [channel: Int, count: Nat]]
    /\ targets \in [Feeders -> SUBSET Streams]
    /\ current \in [Feeders -> Nat]
    /\ events \in Seq([by: Feeders, channel: Int])
    /\ subscribers \subseteq Streams /\ ended \subseteq Streams
    /\ since \in [Streams -> Nat]
    /\ stream \in [Streams -> Seq(Nat)]
    /\ taken \in [Streams -> Nat]
    /\ \A u \in Streams : Len(stream[u]) - taken[u] \in 0 .. StreamDepth
    /\ lost \in [Streams -> SUBSET Nat]
    /\ viewing \in [Viewers -> {"idle", "plane", "table"}]

(* startManagementPlane: the listener serves, and the health of the Relay  *)
(* is still to be published.                                               *)
MgmtInit ==
    /\ serverMu = Nobody
    /\ planeMu = Nobody
    /\ feeding = [f \in Feeders |->
                    [channel |-> NoChannel, count |-> IF f = Starter THEN 1 ELSE 0]]
    /\ targets = [f \in Feeders |-> {}]
    /\ current = [f \in Feeders |-> 0]
    /\ events = <<>>
    /\ subscribers = {}
    /\ since = [u \in Streams |-> 0]
    /\ stream = [u \in Streams |-> <<>>]
    /\ taken = [u \in Streams |-> 0]
    /\ lost = [u \in Streams |-> {}]
    /\ ended = {}
    /\ viewing = [v \in Viewers |-> "idle"]

-----------------------------------------------------------------------------
(* Who may see what; the policy does not change.                           *)

Viewing == {"viewer", "recorder", "operator"}

(* canViewChannel, canAuditChannel.                                        *)
MaySee(x, ch) ==
    /\ ApiRole[ServiceOf[x]] \in Viewing \cup {"auditor"}
    /\ ch \in Listed[ServiceOf[x]]

(* eventAllowed.                                                           *)
Allowed(u, event) ==
    IF event.channel = NoChannel THEN ServiceOf[u] \in HealthReaders
    ELSE MaySee(u, event.channel)

CanStream(u) ==
    \/ ServiceOf[u] \in HealthReaders
    \/ ApiRole[ServiceOf[u]] \in Viewing \cup {"auditor"} /\ Listed[ServiceOf[u]] # {}

CanList(v) == ApiRole[ServiceOf[v]] \in Viewing /\ Listed[ServiceOf[v]] # {}

-----------------------------------------------------------------------------
(* The goroutines that publish.                                            *)

Published(f) == feeding[f].count = 0 /\ targets[f] = {}

(* The tables are changed under server.mu.                                 *)
LockTables(f) ==
    /\ Published(f) /\ serverMu = Nobody
    /\ f \notin Granting
    /\ Len(events) < MaxEvents
    /\ serverMu' = f
    /\ UNCHANGED <<planeMu, feedVars, streamVars, viewing>>

\* Mutant of Changed: server.mu is held while the events are published.
ChangedHolding(f, feed) ==
    /\ serverMu = f /\ feed.by = f
    /\ feeding' = [feeding EXCEPT ![f] = [channel |-> feed.channel, count |-> feed.count]]
    /\ UNCHANGED <<serverMu, planeMu, targets, current, events, streamVars, viewing>>

(* server.mu is dropped; the change has feed.count events.                 *)
Changed(f, feed) ==
    /\ serverMu = f /\ feed.by = f
    /\ serverMu' = Nobody
    /\ feeding' = [feeding EXCEPT ![f] = [channel |-> feed.channel, count |-> feed.count]]
    /\ UNCHANGED <<planeMu, targets, current, events, streamVars, viewing>>

(* handleServiceGrants: a grant that is issued is published.               *)
Grant(f) ==
    /\ f \in Granting /\ Published(f) /\ planeMu = Nobody
    /\ current[f] = 0
    /\ Len(events) < MaxEvents
    /\ Authorized(ApiRole[ServiceOf[f]], GrantRow[f].row, GrantRow[f].request)
    /\ feeding' = [feeding EXCEPT ![f] = [channel |-> GrantRow[f].channel, count |-> 1]]
    /\ UNCHANGED <<lockVars, targets, current, events, streamVars, viewing>>

(* publishEvent: the event gets its number, the list is copied.            *)
Number(f) ==
    /\ feeding[f].count > 0 /\ targets[f] = {} /\ planeMu = Nobody
    /\ events' = Append(events, [by |-> f, channel |-> feeding[f].channel])
    /\ current' = [current EXCEPT ![f] = Len(events) + 1]
    /\ targets' = [targets EXCEPT ![f] = subscribers]
    /\ feeding' = [feeding EXCEPT ![f] = [channel |-> @.channel, count |-> @.count - 1]]
    /\ UNCHANGED <<lockVars, streamVars, viewing>>

(* The event of f is offered to u, in any order of the subscribers.        *)
Offer(f, u) ==
    LET id   == current[f]
        room == Len(stream[u]) - taken[u] < StreamDepth
        may  == Allowed(u, events[id])
    IN /\ u \in targets[f] /\ planeMu = Nobody
       /\ targets' = [targets EXCEPT ![f] = @ \ {u}]
       /\ stream' = IF may /\ room THEN [stream EXCEPT ![u] = Append(@, id)] ELSE stream
       /\ lost' = IF may /\ ~room THEN [lost EXCEPT ![u] = @ \cup {id}] ELSE lost
       /\ UNCHANGED <<lockVars, feeding, current, events, subscribers, since, taken, ended, viewing>>

-----------------------------------------------------------------------------
(* A stream, handleEvents.                                                 *)

\* Mutant of Subscribe: the stream is registered before the event that is
\* under way has been offered, and gets it too.
SubscribeLate(u) ==
    /\ u \notin subscribers \cup ended /\ planeMu = Nobody
    /\ CanStream(u)
    /\ subscribers' = subscribers \cup {u}
    /\ since' = [since EXCEPT ![u] = Len(events)]
    /\ targets' = [f \in Feeders |-> IF targets[f] = {} THEN {} ELSE targets[f] \cup {u}]
    /\ UNCHANGED <<lockVars, feeding, current, events, stream, taken, lost, ended, viewing>>

(* Permission is checked, and the stream registered, under the plane's     *)
(* mutex; the policy does not change in between.                           *)
Subscribe(u) ==
    /\ u \notin subscribers \cup ended /\ planeMu = Nobody
    /\ CanStream(u)
    /\ subscribers' = subscribers \cup {u}
    /\ since' = [since EXCEPT ![u] = Len(events)]
    /\ UNCHANGED <<lockVars, feedVars, stream, taken, lost, ended, viewing>>

(* writeManagementSSE; a client that does not read holds it up.            *)
SendNext(u) ==
    /\ u \in subscribers
    /\ taken[u] < Len(stream[u])
    /\ taken' = [taken EXCEPT ![u] = @ + 1]
    /\ UNCHANGED <<lockVars, feedVars, subscribers, since, stream, lost, ended, viewing>>

(* The client has gone. What is offered to the stream later stays in its   *)
(* queue.                                                                  *)
Unsubscribe(u) ==
    /\ u \in subscribers /\ planeMu = Nobody
    /\ subscribers' = subscribers \ {u}
    /\ ended' = ended \cup {u}
    /\ UNCHANGED <<lockVars, feedVars, since, stream, taken, lost, viewing>>

-----------------------------------------------------------------------------
(* A view, handleChannels: the plane's mutex, then server.mu inside it.    *)

LockPlane(v) ==
    /\ viewing[v] = "idle" /\ planeMu = Nobody
    /\ CanList(v)
    /\ planeMu' = v
    /\ viewing' = [viewing EXCEPT ![v] = "plane"]
    /\ UNCHANGED <<serverMu, feedVars, streamVars>>

ReadTables(v) ==
    /\ viewing[v] = "plane" /\ serverMu = Nobody
    /\ serverMu' = v
    /\ viewing' = [viewing EXCEPT ![v] = "table"]
    /\ UNCHANGED <<planeMu, feedVars, streamVars>>

Answer(v) ==
    /\ viewing[v] = "table"
    /\ serverMu' = Nobody
    /\ planeMu' = Nobody
    /\ viewing' = [viewing EXCEPT ![v] = "idle"]
    /\ UNCHANGED <<feedVars, streamVars>>

-----------------------------------------------------------------------------
Publishes(f) == Number(f) \/ \E u \in Streams : Offer(f, u)

MgmtNext ==
    \/ \E f \in Feeders :
         \/ LockTables(f) \/ Grant(f)
         \/ \E feed \in Feeds : Changed(f, feed)
         \/ Number(f)
         \/ \E u \in Streams : Offer(f, u)
    \/ \E u \in Streams : Subscribe(u) \/ SendNext(u) \/ Unsubscribe(u)
    \/ \E v \in Viewers : LockPlane(v) \/ ReadTables(v) \/ Answer(v)

MgmtSpec == MgmtInit /\ [][MgmtNext]_mgmtVars

(* A goroutine that holds a mutex goes on, and one that waits for a mutex  *)
(* that is free again and again gets it (a Go mutex hands itself over to a *)
(* waiter that starves). That clients ask, read or go is not assumed.      *)
MgmtFairness ==
    /\ \A f \in Feeders : SF_mgmtVars(Publishes(f)) /\ WF_mgmtVars(\E feed \in Feeds : Changed(f, feed))
    /\ \A v \in Viewers : SF_mgmtVars(ReadTables(v)) /\ WF_mgmtVars(Answer(v))

-----------------------------------------------------------------------------
(* Properties.                                                             *)

(* The events that are in the queue of u, were sent, or were refused.      *)
Offered(u) == {stream[u][i] : i \in DOMAIN stream[u]} \cup lost[u]

InFlight(u) == {current[f] : f \in {g \in Feeders : u \in targets[g]}}

(* A stream is exactly the events published from its subscription on that  *)
(* its service may see: none from before, none of another channel, none    *)
(* twice, and while it is subscribed none missing but those its full queue *)
(* refused and those under way (publishEvent, handleEvents).               *)
StreamExact ==
    \A u \in Streams :
        /\ \A i, j \in DOMAIN stream[u] : stream[u][i] = stream[u][j] => i = j
        /\ \A i \in DOMAIN stream[u] : stream[u][i] \notin lost[u]
        /\ \A id \in Offered(u) :
             id \in since[u] + 1 .. Len(events) /\ Allowed(u, events[id])
        /\ u \in subscribers =>
             \A id \in since[u] + 1 .. Len(events) :
                 Allowed(u, events[id]) => id \in Offered(u) \cup InFlight(u)

(* No stream that is not read, and no view that waits for the tables,      *)
(* holds up the goroutines that run the Relay (publishEvent does not wait, *)
(* and is called without server.mu).                                       *)
RelayNotHeldUp ==
    \A f \in Feeders :
        (serverMu = f \/ ~Published(f)) ~> (serverMu # f /\ Published(f))
=============================================================================
