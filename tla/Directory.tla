----------------------------- MODULE Directory -----------------------------
(***************************************************************************)
(* The Directory UDP v3 service (directory_v3.go): its workers, which open *)
(* a client datagram, commit it to the replay and registration tables and  *)
(* answer requests page by page, the publisher and the cleanup loop. They  *)
(* share the tables under directoryV3.mu, which a worker takes and drops   *)
(* several times for one datagram; every critical section is one action.   *)
(*                                                                         *)
(* The network may lose, repeat, delay and reorder datagrams. A datagram   *)
(* the rate limits or the full job queue drop is a lost one.               *)
(***************************************************************************)
EXTENDS Integers, FiniteSets

CONSTANTS
    Workers,           \* the worker goroutines (two in start)
    Datagrams,         \* the authentic datagrams clients have sealed
    Channels,          \* channels with a Directory key and metadata
    Pages,             \* Pages[c]: snapshot pages of channel c
    Window,            \* directoryReplayWindowSize
    MaxReplayDomains,  \* directoryMaxReplayDomains
    MaxRegistrations,  \* directoryMaxRegistrations
    MaxSnapshotPages,  \* directoryMaxSnapshotPages
    RegistrationTTL,   \* directoryRegistrationTTL
    SessionTTL,        \* lifetime of a paging session
    MaxCursors,        \* bound on the cursors issued
    MaxTime            \* bound on the clock

Epochs == {d.epoch : d \in Datagrams}
Instances == {d.instance : d \in Datagrams}
Addrs == {d.addr : d \in Datagrams}

(* resource and cursor are those of a request (cursor 0: none), instance   *)
(* that of a register or heartbeat. A cursor is the number under which it  *)
(* was issued; a client may present one that is gone or never was.         *)
DatagramType ==
    [type: {"request", "register", "heartbeat"}, channel: Channels,
     epoch: Epochs, seq: Nat \ {0}, expires: Nat, addr: Addrs,
     instance: Instances, resource: {"none", "participants", "snapshot"},
     cursor: Nat]

ASSUME DirectoryAssumption ==
    /\ Datagrams \subseteq DatagramType
    /\ \A d \in Datagrams : (d.type = "request") <=> (d.resource # "none")
    /\ \A d \in Datagrams : d.cursor > 0 => d.resource = "snapshot"
    /\ IsFiniteSet(Epochs) /\ IsFiniteSet(Instances) /\ IsFiniteSet(Channels)
    /\ Pages \in [Channels -> Nat \ {0}]
    /\ {Window, MaxReplayDomains, MaxRegistrations, MaxSnapshotPages,
        RegistrationTTL, SessionTTL} \subseteq Nat \ {0}
    /\ {MaxCursors, MaxTime} \subseteq Nat

VARIABLES
    now,            \* the clock
    worker,         \* what each worker is doing
    replay,         \* replay window and expiry of each (channel, epoch)
    registrations,  \* endpoint and deadline of each (channel, instance)
    cursors,        \* where each outstanding cursor continues
    issued,         \* cursors issued so far; numbers them
    round,          \* what publishParticipants is doing
    commits,        \* history: how often each datagram was committed ...
    liveCommits,    \* history: ... and how often before it expired
    confirmed,      \* history: last commit of an instance from an endpoint
    continued       \* history: pages sent for each cursor

vars == <<now, worker, replay, registrations, cursors, issued, round, commits,
          liveCommits, confirmed, continued>>

Domains == Channels \X Epochs
Clients == Channels \X Instances

WindowType == [highest: Nat, seen: SUBSET (0 .. Window - 1), expires: Nat]

NoWindow == [highest |-> 0, seen |-> {}, expires |-> 0]

RegistrationType == [addr: Addrs, deadline: Nat]

NoRegistration == [deadline |-> 0]

CursorType == [id: 1 .. MaxCursors, channel: Channels, page: Nat, expires: Nat]

NoDatagram == [type |-> "none"]

Idle == [stage |-> "idle", d |-> NoDatagram]

Opened == [stage: {"commit", "serve"}, d: Datagrams, at: Nat]

(* The paging session a worker serves and the page it is at.               *)
Serving == [stage: {"session", "page", "send"}, d: Datagrams, channel: Channels,
            page: Nat, expires: Nat]

TargetType == [client: Clients, addr: Addrs]

(* The tables stay within their bounds.                                    *)
TypeOK ==
    /\ now \in Nat
    /\ worker \in [Workers -> {Idle} \cup Opened \cup Serving]
    /\ replay \in [Domains -> WindowType]
    /\ Cardinality({x \in Domains : replay[x] # NoWindow}) <= MaxReplayDomains
    /\ registrations \in [Clients -> RegistrationType \cup {NoRegistration}]
    /\ Cardinality({x \in Clients : registrations[x] # NoRegistration})
          <= MaxRegistrations
    /\ cursors \subseteq CursorType
    /\ issued \in 0 .. MaxCursors
    /\ round \in [stage: {"idle", "copy", "send"}, at: Nat, targets: SUBSET TargetType]
    /\ commits \in [Datagrams -> Nat]
    /\ liveCommits \in [Datagrams -> Nat]
    /\ confirmed \in [Clients \X Addrs -> Int]
    /\ continued \in [1 .. MaxCursors -> Nat]

Init ==
    /\ now = 0
    /\ worker = [w \in Workers |-> Idle]
    /\ replay = [x \in Domains |-> NoWindow]
    /\ registrations = [x \in Clients |-> NoRegistration]
    /\ cursors = {}
    /\ issued = 0
    /\ round = [stage |-> "idle", at |-> 0, targets |-> {}]
    /\ commits = [d \in Datagrams |-> 0]
    /\ liveCommits = [d \in Datagrams |-> 0]
    /\ confirmed = [x \in Clients \X Addrs |-> -RegistrationTTL]
    /\ continued = [c \in 1 .. MaxCursors |-> 0]

-----------------------------------------------------------------------------
(* Helpers.                                                                *)

Later(a, b) == IF a > b THEN a ELSE b

(* purgeLocked at the given time.                                          *)
LiveReplay(time) ==
    [x \in Domains |-> IF replay[x].expires > time THEN replay[x] ELSE NoWindow]

LiveRegistrations(time) ==
    [x \in Clients |-> IF registrations[x].deadline > time
                       THEN registrations[x] ELSE NoRegistration]

LiveCursors(time) == {c \in cursors : c.expires > time}

Purge(time) ==
    /\ replay' = LiveReplay(time)
    /\ registrations' = LiveRegistrations(time)
    /\ cursors' = LiveCursors(time)

(* directoryReplayState.accept; a window with highest 0 is a new one.      *)
CanAccept(rec, seq) ==
    \/ rec.highest = 0
    \/ seq > rec.highest
    \/ rec.highest - seq < Window /\ rec.highest - seq \notin rec.seen

Seen(rec, seq) ==
    IF seq > rec.highest
    THEN {0} \cup {k \in 1 .. Window - 1 : k - (seq - rec.highest) \in rec.seen}
    ELSE rec.seen \cup {rec.highest - seq}

\* Mutant of Recorded: the last payload sets the expiry of the record.
RecordedLast(rec, d) ==
    [highest |-> IF d.seq > rec.highest THEN d.seq ELSE rec.highest,
     seen    |-> Seen(rec, d.seq),
     expires |-> d.expires]

(* The record lives as long as any payload it has to recognise.            *)
Recorded(rec, d) ==
    [highest |-> IF d.seq > rec.highest THEN d.seq ELSE rec.highest,
     seen    |-> Seen(rec, d.seq),
     expires |-> Later(rec.expires, d.expires)]

Domain(d) == <<d.channel, d.epoch>>
Client(d) == <<d.channel, d.instance>>

Count(table, none) == Cardinality({x \in DOMAIN table : table[x] # none})

(* A new epoch needs a free record, any datagram a fresh sequence number.  *)
Admitted(table, d) ==
    /\ table[Domain(d)] # NoWindow \/ Count(table, NoWindow) < MaxReplayDomains
    /\ CanAccept(table[Domain(d)], d.seq)

\* Mutant of Registers: a heartbeat from any endpoint counts.
RegistersAnywhere(table, d) ==
    CASE d.type = "register"  -> \/ table[Client(d)] # NoRegistration
                                 \/ Count(table, NoRegistration) < MaxRegistrations
      [] d.type = "heartbeat" -> table[Client(d)] # NoRegistration
      [] d.type = "request"   -> FALSE

(* A register needs a free place, a heartbeat the registered endpoint.     *)
Registers(table, d) ==
    CASE d.type = "register"  -> \/ table[Client(d)] # NoRegistration
                                 \/ Count(table, NoRegistration) < MaxRegistrations
      [] d.type = "heartbeat" -> /\ table[Client(d)] # NoRegistration
                                 /\ table[Client(d)].addr = d.addr
      [] d.type = "request"   -> FALSE

(* What a committed register or heartbeat makes of the entry.              *)
Registration(entry, d, time) ==
    [addr     |-> IF d.type = "register" THEN d.addr ELSE entry.addr,
     deadline |-> time + RegistrationTTL]

At(w, stage) == worker[w].stage = stage

Goto(w, state) == worker' = [worker EXCEPT ![w] = state]

Move(w, stage) == worker' = [worker EXCEPT ![w].stage = stage]

-----------------------------------------------------------------------------
(* A worker.                                                               *)

(* handle: openDirectoryDatagram authenticates the datagram and checks its *)
(* expiry, before the mutex is taken.                                      *)
Open(w, d) ==
    /\ At(w, "idle")
    /\ d.expires > now
    /\ Goto(w, [stage |-> "commit", d |-> d, at |-> now])
    /\ UNCHANGED <<now, replay, registrations, cursors, issued, round, commits,
                   liveCommits, confirmed, continued>>

(* commitInbound, which reads the clock before it has the mutex.           *)
Commit(w, time) ==
    LET d    == worker[w].d
        live == LiveReplay(time)
        regs == LiveRegistrations(time)
        ok   == Admitted(live, d)
        reg  == ok /\ Registers(regs, d)
    IN /\ At(w, "commit")
       /\ replay' = IF ok THEN [live EXCEPT ![Domain(d)] = Recorded(@, d)] ELSE live
       /\ registrations' = IF reg THEN [regs EXCEPT ![Client(d)] = Registration(@, d, time)]
                           ELSE regs
       /\ cursors' = LiveCursors(time)
       /\ IF ok /\ d.type = "request" THEN Move(w, "serve") ELSE Goto(w, Idle)
       /\ commits' = IF ok THEN [commits EXCEPT ![d] = @ + 1] ELSE commits
       /\ liveCommits' = IF ok /\ d.expires > now
                         THEN [liveCommits EXCEPT ![d] = @ + 1] ELSE liveCommits
       /\ confirmed' = IF reg THEN [confirmed EXCEPT ![<<Client(d), d.addr>>] = Later(@, time)]
                       ELSE confirmed
       /\ UNCHANGED <<now, issued, round, continued>>

(* serveRequest, participants: reads the Relay's table and answers.        *)
ServeParticipants(w) ==
    /\ At(w, "serve")
    /\ worker[w].d.resource = "participants"
    /\ Goto(w, Idle)
    /\ UNCHANGED <<now, replay, registrations, cursors, issued, round, commits,
                   liveCommits, confirmed, continued>>

(* sendSnapshot without a cursor opens a paging session at page 0, or      *)
(* answers RESPONSE_TOO_LARGE.                                             *)
ServeSnapshot(w) ==
    LET d == worker[w].d
    IN /\ At(w, "serve")
       /\ d.resource = "snapshot" /\ d.cursor = 0
       /\ IF Pages[d.channel] > MaxSnapshotPages THEN Goto(w, Idle)
          ELSE Goto(w, [stage |-> "page", d |-> d, channel |-> d.channel,
                        page |-> 0, expires |-> now + SessionTTL])
       /\ UNCHANGED <<now, replay, registrations, cursors, issued, round, commits,
                      liveCommits, confirmed, continued>>

\* Mutant of Taken: the cursor stays valid.
TakenKeeps(table, found) == table

(* A cursor serves once.                                                   *)
Taken(table, found) == table \ found

(* sendSnapshotCursor: the cursor is taken, or answered INVALID_CURSOR.    *)
TakeCursor(w) ==
    LET d     == worker[w].d
        found == {c \in LiveCursors(now) : c.id = d.cursor}
    IN /\ At(w, "serve")
       /\ d.cursor > 0
       /\ replay' = LiveReplay(now)
       /\ registrations' = LiveRegistrations(now)
       /\ cursors' = Taken(LiveCursors(now), found)
       /\ \/ found = {} /\ Goto(w, Idle)
          \/ \E c \in found :
               Goto(w, [stage |-> "session", d |-> d, channel |-> c.channel,
                        page |-> c.page, expires |-> c.expires])
       /\ UNCHANGED <<now, issued, round, commits, liveCommits, confirmed, continued>>

(* ... and the clock is read again: PAGING_SESSION_EXPIRED.                *)
CheckSession(w) ==
    /\ At(w, "session")
    /\ IF worker[w].expires > now THEN Move(w, "page") ELSE Goto(w, Idle)
    /\ UNCHANGED <<now, replay, registrations, cursors, issued, round, commits,
                   liveCommits, confirmed, continued>>

(* sendSnapshotPage: the cursor of the next page is stored                 *)
(* (storeSnapshotCursor) before the page is sent.                          *)
StoreCursor(w) ==
    LET s == worker[w]
    IN /\ At(w, "page")
       /\ s.page + 1 < Pages[s.channel]
       /\ issued < MaxCursors
       /\ replay' = LiveReplay(now)
       /\ registrations' = LiveRegistrations(now)
       /\ cursors' = LiveCursors(now) \cup
                        {[id |-> issued + 1, channel |-> s.channel,
                          page |-> s.page + 1, expires |-> s.expires]}
       /\ issued' = issued + 1
       /\ Move(w, "send")
       /\ UNCHANGED <<now, round, commits, liveCommits, confirmed, continued>>

LastPage(w) ==
    /\ At(w, "page")
    /\ worker[w].page + 1 >= Pages[worker[w].channel]
    /\ Move(w, "send")
    /\ UNCHANGED <<now, replay, registrations, cursors, issued, round, commits,
                   liveCommits, confirmed, continued>>

(* The page goes out, sealed for the channel of the request.               *)
SendPage(w) ==
    LET c == worker[w].d.cursor
    IN /\ At(w, "send")
       /\ Goto(w, Idle)
       /\ continued' = IF c > 0 THEN [continued EXCEPT ![c] = @ + 1] ELSE continued
       /\ UNCHANGED <<now, replay, registrations, cursors, issued, round, commits,
                      liveCommits, confirmed>>

-----------------------------------------------------------------------------
(* The other goroutines.                                                   *)

(* publishParticipants reads the clock, then takes the mutex ...           *)
PublishStart ==
    /\ round.stage = "idle"
    /\ round' = [stage |-> "copy", at |-> now, targets |-> {}]
    /\ UNCHANGED <<now, worker, replay, registrations, cursors, issued, commits,
                   liveCommits, confirmed, continued>>

(* ... copies the registrations ...                                        *)
PublishCopy ==
    /\ round.stage = "copy"
    /\ Purge(round.at)
    /\ round' = [round EXCEPT !.stage = "send",
                   !.targets = {[client |-> x, addr |-> registrations'[x].addr] :
                                  x \in {y \in Clients : registrations'[y] # NoRegistration}}]
    /\ UNCHANGED <<now, worker, issued, commits, liveCommits, confirmed, continued>>

(* ... and sends to one after the other.                                   *)
PublishSend ==
    /\ round.stage = "send"
    /\ \/ \E t \in round.targets : round' = [round EXCEPT !.targets = @ \ {t}]
       \/ round.targets = {} /\ round' = [round EXCEPT !.stage = "idle"]
    /\ UNCHANGED <<now, worker, replay, registrations, cursors, issued, commits,
                   liveCommits, confirmed, continued>>

(* cleanupLoop, once a second.                                             *)
Cleanup ==
    /\ Purge(now)
    /\ UNCHANGED <<now, worker, issued, round, commits, liveCommits, confirmed, continued>>

Tick ==
    /\ now < MaxTime
    /\ now' = now + 1
    /\ UNCHANGED <<worker, replay, registrations, cursors, issued, round, commits,
                   liveCommits, confirmed, continued>>

-----------------------------------------------------------------------------
Step(w) ==
    \/ At(w, "commit") /\ \E time \in worker[w].at .. now : Commit(w, time)
    \/ ServeParticipants(w) \/ ServeSnapshot(w) \/ TakeCursor(w) \/ CheckSession(w)
    \/ StoreCursor(w) \/ LastPage(w) \/ SendPage(w)

Next ==
    \/ \E w \in Workers, d \in Datagrams : Open(w, d)
    \/ \E w \in Workers : Step(w)
    \/ PublishStart \/ PublishCopy \/ PublishSend
    \/ Cleanup
    \/ Tick

Spec == Init /\ [][Next]_vars

-----------------------------------------------------------------------------
(* Properties.                                                             *)

(* A datagram takes effect once while it is valid, however it is repeated, *)
(* reordered and handed to both workers, and although its replay record is *)
(* purged on time alone (commitInbound, purgeLocked).                      *)
LiveDatagramOnce == \A d \in Datagrams : liveCommits[d] <= 1

(* "The Relay enforces ... a 64-entry authenticated replay window per      *)
(* client direction/channel/epoch" (directory-v3.md): a datagram takes     *)
(* effect once. The code does not keep this once the datagram has expired: *)
(* a copy opened before and committed after the purge counts again.        *)
DatagramOnce == \A d \in Datagrams : commits[d] <= 1

(* A publication goes to an endpoint only if the registered instance was   *)
(* heard from that very endpoint within the registration's lifetime before *)
(* the round (commitInbound, publishParticipants): a heartbeat from        *)
(* elsewhere keeps nothing alive.                                          *)
PublishedOnlyToConfirmed ==
    \A t \in round.targets :
        confirmed[<<t.client, t.addr>>] + RegistrationTTL > round.at

(* The replay and registration tables keep their types and their bounds    *)
(* when a client moves or starts a new epoch, and publications go only to  *)
(* confirmed endpoints (commitInbound, publishParticipants).               *)
RegistrationsSound == TypeOK /\ PublishedOnlyToConfirmed

(* A cursor continues its session once, also when both workers hold a      *)
(* request for it (sendSnapshotCursor).                                    *)
CursorUsedOnce == \A c \in 1 .. MaxCursors : continued[c] <= 1

(* The Relay publishes "metadata and current participants for the          *)
(* requested channel" (directory-v3.md): a snapshot page is one of the     *)
(* channel the request was made for. The code does not keep this: a cursor *)
(* is looked up by its text only.                                          *)
PageOfRequestedChannel ==
    \A w \in Workers :
        At(w, "send") => worker[w].channel = worker[w].d.channel
=============================================================================
