--------------------------- MODULE PrivateControl ---------------------------
(***************************************************************************)
(* Revocation commands of the Private Control Link: the idempotency cache, *)
(* the bounded deny rules and the state file that makes both survive a     *)
(* restart (private_control.go handleRevocation, private_control_state.go, *)
(* service_admission.go installRevocation).                                *)
(*                                                                         *)
(* Every connection is one goroutine, which reads one command after the    *)
(* other (handleConnection). The link's mutex guards the idempotency map,  *)
(* serviceAdmission's mutex the deny rules, and nothing guards the state   *)
(* file: each critical section and the rename of the file are one action.  *)
(* The removal of the matching memberships is modelled in Relay.           *)
(***************************************************************************)
EXTENDS Integers, FiniteSets

CONSTANTS
    Handlers,        \* connection goroutines
    Commands,        \* [key, target, until]; the same key may come with two bodies
    TTL,             \* privateControlIdempotencyTTL
    MaxDeny,         \* privateControlMaxDenyPeriod
    MaxIdempotency,  \* privateControlMaxIdempotency
    MaxCommands,     \* privateControlMaxCommands
    MaxRules,        \* maxServiceAdmissionDenyRules
    WritesFail,      \* the file system may refuse a write
    Crashes,         \* how often the process may die
    MaxRequests,     \* bound on the commands received
    MaxTime          \* bound on the clock

(* A key is a management service with the message id it chose.             *)
Keys == {c.key : c \in Commands}
Targets == {c.target : c \in Commands}

ASSUME PrivateControlAssumption ==
    /\ Commands \subseteq [key: Keys, target: Targets, until: Nat \ {0}]
    /\ IsFiniteSet(Commands)
    /\ IsFiniteSet(Handlers)
    /\ {TTL, MaxDeny, MaxIdempotency, MaxCommands, MaxRules} \subseteq Nat \ {0}
    /\ {Crashes, MaxRequests, MaxTime} \subseteq Nat
    /\ WritesFail \in BOOLEAN

VARIABLES
    status,    \* the process: "up", "down", or "refused" to start
    now,       \* the clock
    entry,     \* link.idempotency: entry[k], NoEntry when there is none
    rules,     \* serviceAdmission.denied: deadline per target, 0 = no rule
    slots,     \* the handlers holding one of link.commandSlots
    file,      \* the state file
    conn,      \* per connection: where its goroutine is, and its locals
    requests,  \* commands received so far; numbers the requests
    crashes,   \* crashes so far
    released   \* history: the acknowledgements handed to a session

vars == <<status, now, entry, rules, slots, file, conn, requests, crashes, released>>

NoAck == [outcome |-> "none", until |-> 0, req |-> 0, at |-> 0]

(* req stands for the fresh message id of the acknowledgement.             *)
AckType == [outcome: {"none", "applied", "already_expired"},
            until: Nat, req: Nat, at: Nat]

NoEntry == [req |-> 0]

(* done is open while the entry of request req is in the map uncompleted.  *)
EntryType == [req: Nat, cmd: Commands, ack: AckType, completed: BOOLEAN,
              expires: Nat]

EmptyFile == [rules |-> [t \in Targets |-> 0], idem |-> {}]

Idle == [pc |-> "idle"]

Stages == {"wait", "slot", "install", "ack", "snapRules", "snapIdem", "write",
           "complete", "abandon"}

IdemType == [key: Keys, cmd: Commands, ack: AckType, expires: Nat]

FileType == [rules: [Targets -> Nat], idem: SUBSET IdemType]

ConnType == [pc: Stages, cmd: Commands, req: Nat, at: Nat, ack: AckType,
             snap: FileType]

TypeOK ==
    /\ status \in {"up", "down", "refused"}
    /\ now \in Nat
    /\ entry \in [Keys -> EntryType \cup {NoEntry}]
    /\ rules \in [Targets -> Nat]
    /\ slots \subseteq Handlers
    /\ file \in FileType
    /\ conn \in [Handlers -> ConnType \cup {Idle}]
    /\ requests \in Nat /\ crashes \in Nat
    /\ released \subseteq [cmd: Commands, ack: AckType]

Init ==
    /\ status = "up"
    /\ now = 0
    /\ entry = [k \in Keys |-> NoEntry]
    /\ rules = [t \in Targets |-> 0]
    /\ slots = {}
    /\ file = EmptyFile
    /\ conn = [h \in Handlers |-> Idle]
    /\ requests = 0
    /\ crashes = 0
    /\ released = {}

-----------------------------------------------------------------------------
(* Helpers.                                                                *)

\* Mutant of CleanEntries: an entry may expire while its command is under way.
CleanEntriesPending(time) ==
    [k \in Keys |->
        IF entry[k] # NoEntry /\ entry[k].expires <= time THEN NoEntry ELSE entry[k]]

(* cleanupIdempotencyLocked(time).                                         *)
CleanEntries(time) ==
    [k \in Keys |->
        IF entry[k] # NoEntry /\ entry[k].completed /\ entry[k].expires <= time
        THEN NoEntry ELSE entry[k]]

(* The deny rules after cleanupLocked(time).                               *)
CleanRules(time) == [t \in Targets |-> IF rules[t] > time THEN rules[t] ELSE 0]

RulesIn(table) == {t \in Targets : table[t] > 0}

Held(cache) == {k \in Keys : cache[k] # NoEntry}

Later(a, b) == IF a > b THEN a ELSE b

(* privateControlIdempotencyExpiry as completeRevocation calls it: the     *)
(* write comes first, so the interval is reserved twice.                   *)
Expiry(ack) ==
    IF ack.outcome = "applied" THEN Later(ack.at + 2 * TTL, ack.until)
    ELSE ack.at + 2 * TTL

At(h, stage) == status = "up" /\ conn[h].pc = stage

Goto(h, stage) == conn' = [conn EXCEPT ![h].pc = stage]

(* handleRevocation returns; its deferred releaseCommand runs.             *)
Return(h) ==
    /\ conn' = [conn EXCEPT ![h] = Idle]
    /\ slots' = slots \ {h}

(* The entry of h's request is still in the map, and not completed.        *)
Owns(h) ==
    LET e == entry[conn[h].cmd.key]
    IN e # NoEntry /\ e.cmd = conn[h].cmd /\ ~e.completed

-----------------------------------------------------------------------------
(* beginRevocation: one critical section with five outcomes.               *)

Start(h, c, stage, req) ==
    conn' = [conn EXCEPT ![h] = [pc |-> stage, cmd |-> c, req |-> req, at |-> 0,
                                 ack |-> NoAck, snap |-> EmptyFile]]

Begin(h, c) ==
    /\ status = "up"
    /\ conn[h] = Idle
    /\ requests < MaxRequests
    /\ requests' = requests + 1
    /\ LET kept == CleanEntries(now)
           e    == kept[c.key]
       IN \* the message id was used with another body: the link is closed
          \/ /\ e # NoEntry /\ e.cmd # c
             /\ entry' = kept
             /\ UNCHANGED <<conn, released>>
          \* a completed duplicate gets the cached acknowledgement
          \/ /\ e # NoEntry /\ e.cmd = c /\ e.completed
             /\ entry' = kept
             /\ released' = released \cup {[cmd |-> c, ack |-> e.ack]}
             /\ UNCHANGED conn
          \* a duplicate of a command under way waits for its done channel
          \/ /\ e # NoEntry /\ e.cmd = c /\ ~e.completed
             /\ entry' = kept
             /\ Start(h, c, "wait", e.req)
             /\ UNCHANGED released
          \* the cache is full: overloaded
          \/ /\ e = NoEntry
             /\ Cardinality(Held(kept)) >= MaxIdempotency
             /\ entry' = kept
             /\ UNCHANGED <<conn, released>>
          \* this caller executes the command
          \/ /\ e = NoEntry
             /\ Cardinality(Held(kept)) < MaxIdempotency
             /\ entry' = [kept EXCEPT ![c.key] =
                            [req |-> requests + 1, cmd |-> c, ack |-> NoAck,
                             completed |-> FALSE, expires |-> now + TTL]]
             /\ Start(h, c, "slot", requests + 1)
             /\ UNCHANGED released
    /\ UNCHANGED <<status, now, rules, slots, file, crashes>>

(* The done channel is closed: cachedCompletedRevocation looks again.      *)
Wake(h) ==
    /\ At(h, "wait")
    /\ LET c == conn[h].cmd
           e == entry[c.key]
       IN /\ ~(e # NoEntry /\ e.req = conn[h].req /\ ~e.completed)
          /\ released' = IF e # NoEntry /\ e.cmd = c /\ e.completed
                         THEN released \cup {[cmd |-> c, ack |-> e.ack]}
                         ELSE released
    /\ Return(h)
    /\ UNCHANGED <<status, now, entry, rules, file, requests, crashes>>

(* privateControlHelloDeadline passes first: overloaded.                   *)
WaitTimeout(h) ==
    /\ At(h, "wait")
    /\ Return(h)
    /\ UNCHANGED <<status, now, entry, rules, file, requests, crashes, released>>

-----------------------------------------------------------------------------
(* The execution of a command.                                             *)

\* Mutant of Acquire: a deadline may be as far ahead as the service likes.
AcquireUnlimited(h) ==
    /\ At(h, "slot")
    /\ Cardinality(slots) < MaxCommands
    /\ slots' = slots \cup {h}
    /\ conn[h].cmd.until > now
    /\ conn' = [conn EXCEPT ![h].pc = "install", ![h].at = now]
    /\ UNCHANGED <<status, now, entry, rules, file, requests, crashes, released>>

(* acquireCommand, then the deadline against the time read here.           *)
Acquire(h) ==
    /\ At(h, "slot")
    /\ LET c   == conn[h].cmd
           ack == [outcome |-> "already_expired", until |-> c.until,
                   req |-> conn[h].req, at |-> now]
       IN \/ /\ Cardinality(slots) >= MaxCommands
             /\ Goto(h, "abandon")
             /\ UNCHANGED slots
          \/ /\ Cardinality(slots) < MaxCommands
             /\ slots' = slots \cup {h}
             /\ \/ /\ c.until > now + MaxDeny
                   /\ Goto(h, "abandon")
                \/ /\ c.until <= now
                   /\ conn' = [conn EXCEPT ![h].pc = "ack", ![h].at = now, ![h].ack = ack]
                \/ /\ now < c.until /\ c.until <= now + MaxDeny
                   /\ conn' = [conn EXCEPT ![h].pc = "install", ![h].at = now]
    /\ UNCHANGED <<status, now, entry, rules, file, requests, crashes, released>>

\* Mutant of Install: the later deadline of an overlapping rule is lost.
InstallShortens(h) ==
    /\ At(h, "install")
    /\ LET c == conn[h].cmd IN
       /\ rules' = [CleanRules(conn[h].at) EXCEPT ![c.target] = c.until]
       /\ conn' = [conn EXCEPT ![h].pc = "ack",
                               ![h].ack = [outcome |-> "applied", until |-> c.until,
                                           req |-> conn[h].req, at |-> conn[h].at]]
    /\ UNCHANGED <<status, now, entry, slots, file, requests, crashes, released>>

(* installRevocation: an existing rule keeps the later deadline, a new one *)
(* must fit in the bounded set.                                            *)
Install(h) ==
    /\ At(h, "install")
    /\ LET c    == conn[h].cmd
           kept == CleanRules(conn[h].at)
       IN \/ /\ kept[c.target] > 0 \/ Cardinality(RulesIn(kept)) < MaxRules
             /\ rules' = [kept EXCEPT ![c.target] = Later(@, c.until)]
             /\ conn' = [conn EXCEPT ![h].pc = "ack",
                                     ![h].ack = [outcome |-> "applied",
                                                 until |-> c.until,
                                                 req |-> conn[h].req,
                                                 at |-> conn[h].at]]
          \/ /\ kept[c.target] = 0 /\ Cardinality(RulesIn(kept)) >= MaxRules
             /\ rules' = kept
             /\ Goto(h, "abandon")
    /\ UNCHANGED <<status, now, entry, slots, file, requests, crashes, released>>

(* completeRevocation, first critical section: the acknowledgement is in   *)
(* the entry before it is durable.                                         *)
SetAck(h) ==
    /\ At(h, "ack")
    /\ IF Owns(h)
       THEN /\ entry' = [entry EXCEPT ![conn[h].cmd.key] =
                           [@ EXCEPT !.ack = conn[h].ack,
                                     !.expires = Expiry(conn[h].ack)]]
            /\ Goto(h, "snapRules")
            /\ UNCHANGED slots
       ELSE Return(h) /\ UNCHANGED entry
    /\ UNCHANGED <<status, now, rules, file, requests, crashes, released>>

\* Mutant of SnapshotRules: the rules of the previous file are kept.
SnapshotOldRules(h) ==
    /\ At(h, "snapRules")
    /\ conn' = [conn EXCEPT ![h].pc = "snapIdem", ![h].snap.rules = file.rules]
    /\ UNCHANGED <<status, now, entry, rules, slots, file, requests, crashes, released>>

(* persistentStateSnapshot: the rules under one mutex ...                  *)
SnapshotRules(h) ==
    /\ At(h, "snapRules")
    /\ rules' = CleanRules(conn[h].at)
    /\ conn' = [conn EXCEPT ![h].pc = "snapIdem", ![h].snap.rules = rules']
    /\ UNCHANGED <<status, now, entry, slots, file, requests, crashes, released>>

\* Mutant of SnapshotIdempotency: the acknowledgements are not saved.
SnapshotNoAcks(h) ==
    /\ At(h, "snapIdem")
    /\ entry' = CleanEntries(conn[h].at)
    /\ Goto(h, "write")
    /\ UNCHANGED <<status, now, rules, slots, file, requests, crashes, released>>

(* ... the acknowledgements under the other.                               *)
SnapshotIdempotency(h) ==
    /\ At(h, "snapIdem")
    /\ entry' = CleanEntries(conn[h].at)
    /\ LET saved == {k \in Keys : /\ entry'[k] # NoEntry
                                  /\ entry'[k].ack # NoAck
                                  /\ entry'[k].expires > conn[h].at}
       IN conn' = [conn EXCEPT ![h].pc = "write",
                               ![h].snap.idem =
                                  {[key |-> k, cmd |-> entry'[k].cmd,
                                    ack |-> entry'[k].ack,
                                    expires |-> entry'[k].expires] : k \in saved}]
    /\ UNCHANGED <<status, now, rules, slots, file, requests, crashes, released>>

(* writePrivateControlPersistentState: the rename puts the whole snapshot  *)
(* in place, synced.                                                       *)
Write(h) ==
    /\ At(h, "write")
    /\ file' = conn[h].snap
    /\ Goto(h, "complete")
    /\ UNCHANGED <<status, now, entry, rules, slots, requests, crashes, released>>

(* It fails before the rename, or after it when the directory is synced.   *)
WriteFails(h) ==
    /\ WritesFail
    /\ At(h, "write")
    /\ file' \in {file, conn[h].snap}
    /\ Goto(h, "abandon")
    /\ UNCHANGED <<status, now, entry, rules, slots, requests, crashes, released>>

(* completeRevocation, second critical section, and the acknowledgement.   *)
Complete(h) ==
    /\ At(h, "complete")
    /\ IF Owns(h) /\ entry[conn[h].cmd.key].ack # NoAck
       THEN /\ entry' = [entry EXCEPT ![conn[h].cmd.key] = [@ EXCEPT !.completed = TRUE]]
            /\ released' = released \cup {[cmd |-> conn[h].cmd, ack |-> conn[h].ack]}
       ELSE UNCHANGED <<entry, released>>
    /\ Return(h)
    /\ UNCHANGED <<status, now, rules, file, requests, crashes>>

\* Mutant of Abandon: the entry stays and its done channel is never closed.
AbandonKeepsEntry(h) ==
    /\ At(h, "abandon")
    /\ Return(h)
    /\ UNCHANGED <<status, now, entry, rules, file, requests, crashes, released>>

\* Mutant of Abandon: the command slot is not given back.
AbandonKeepsSlot(h) ==
    /\ At(h, "abandon")
    /\ entry' = IF Owns(h) THEN [entry EXCEPT ![conn[h].cmd.key] = NoEntry] ELSE entry
    /\ conn' = [conn EXCEPT ![h] = Idle]
    /\ UNCHANGED <<status, now, rules, slots, file, requests, crashes, released>>

(* abandonRevocation: the caller got an error and may retry.               *)
Abandon(h) ==
    /\ At(h, "abandon")
    /\ entry' = IF Owns(h) THEN [entry EXCEPT ![conn[h].cmd.key] = NoEntry] ELSE entry
    /\ Return(h)
    /\ UNCHANGED <<status, now, rules, file, requests, crashes, released>>

-----------------------------------------------------------------------------
(* Crash, restart and time.                                                *)

Crash ==
    /\ status = "up"
    /\ crashes < Crashes
    /\ crashes' = crashes + 1
    /\ status' = "down"
    /\ entry' = [k \in Keys |-> NoEntry]
    /\ rules' = [t \in Targets |-> 0]
    /\ slots' = {}
    /\ conn' = [h \in Handlers |-> Idle]
    /\ UNCHANGED <<now, file, requests, released>>

(* restorePersistentState accepts the file ...                             *)
LiveRules == {t \in Targets : file.rules[t] > now}

Restorable ==
    /\ Cardinality(LiveRules) <= MaxRules
    /\ \A i \in file.idem : i.expires > now

\* Mutant of Restart: the deny rules are not installed again.
RestartNoRules ==
    /\ status = "down"
    /\ Restorable
    /\ status' = "up"
    /\ entry' = [k \in Keys |->
                   IF \E i \in file.idem : i.key = k
                   THEN LET i == CHOOSE x \in file.idem : x.key = k
                        IN [req |-> i.ack.req, cmd |-> i.cmd, ack |-> i.ack,
                            completed |-> TRUE, expires |-> i.expires]
                   ELSE NoEntry]
    /\ UNCHANGED <<now, rules, slots, file, conn, requests, crashes, released>>

Restart ==
    /\ status = "down"
    /\ Restorable
    /\ status' = "up"
    /\ rules' = [t \in Targets |-> IF t \in LiveRules THEN file.rules[t] ELSE 0]
    /\ entry' = [k \in Keys |->
                   IF \E i \in file.idem : i.key = k
                   THEN LET i == CHOOSE x \in file.idem : x.key = k
                        IN [req |-> i.ack.req, cmd |-> i.cmd, ack |-> i.ack,
                            completed |-> TRUE, expires |-> i.expires]
                   ELSE NoEntry]
    /\ UNCHANGED <<now, slots, file, conn, requests, crashes, released>>

(* ... or startPrivateControlLink fails and the Relay exits.               *)
RefuseToStart ==
    /\ status = "down"
    /\ ~Restorable
    /\ status' = "refused"
    /\ UNCHANGED <<now, entry, rules, slots, file, conn, requests, crashes, released>>

Tick ==
    /\ now < MaxTime
    /\ now' = now + 1
    /\ UNCHANGED <<status, entry, rules, slots, file, conn, requests, crashes, released>>

-----------------------------------------------------------------------------
(* What handler h does without being asked.                                *)
Step(h) ==
    \/ Wake(h) \/ Acquire(h) \/ Install(h) \/ SetAck(h)
    \/ SnapshotRules(h) \/ SnapshotIdempotency(h) \/ Write(h) \/ Complete(h)
    \/ Abandon(h)

Next ==
    \/ \E h \in Handlers, c \in Commands : Begin(h, c)
    \/ \E h \in Handlers : Step(h) \/ WaitTimeout(h) \/ WriteFails(h)
    \/ Crash \/ Restart \/ RefuseToStart
    \/ Tick

Spec == Init /\ [][Next]_vars

(* A goroutine that can go on does. Nothing is assumed of the 5 s timer of *)
(* a waiting duplicate: it must not be needed.                             *)
FairSpec == Spec /\ \A h \in Handlers : WF_vars(Step(h))

-----------------------------------------------------------------------------
(* Properties.                                                             *)

Executing(h) == conn[h].pc \in Stages \ {"wait"}

(* beginRevocation gives "authority for this caller to execute the command *)
(* exactly once": no two connections execute one message id at a time,     *)
(* across duplicates, failed writes, expiries and restarts.                *)
ExclusiveExecution ==
    \A g, h \in Handlers :
        Executing(g) /\ Executing(h) /\ conn[g].cmd.key = conn[h].cmd.key => g = h

(* Past acquireCommand.                                                    *)
Acquired == {"install", "ack", "snapRules", "snapIdem", "write", "complete"}

(* A command slot is held only by a connection that executes a command, so *)
(* every return of handleRevocation gives it back; and from acquireCommand *)
(* to its acknowledgement no command runs without one.                     *)
SlotsReturned ==
    /\ \A h \in slots : Executing(h)
    /\ \A h \in Handlers : conn[h].pc \in Acquired => h \in slots

(* The tables stay within privateControlMaxCommands,                       *)
(* privateControlMaxIdempotency and maxServiceAdmissionDenyRules. Only the *)
(* last is checked at a restart: a saved cache is no larger than it was.   *)
WithinLimits ==
    /\ Cardinality(slots) <= MaxCommands
    /\ Cardinality(Held(entry)) <= MaxIdempotency
    /\ Cardinality(RulesIn(rules)) <= MaxRules

(* The tables have their types and keep their limits, across failed        *)
(* writes, crashes and restarts, and no command slot is lost or passed by. *)
SlotsSound == TypeOK /\ WithinLimits /\ SlotsReturned

(* An "applied" acknowledgement means that the target is denied until the  *)
(* acknowledged deadline, after a restart as well: "Deny rules and         *)
(* duplicate-command acknowledgements are persisted before an `applied`    *)
(* acknowledgement is released" (README, Private Control Link).            *)
AppliedAckEnforced ==
    status = "up" =>
        \A r \in released :
            r.ack.outcome = "applied" /\ r.ack.until > now
                => rules[r.cmd.target] >= r.ack.until

(* All who send one command get one acknowledgement, until its cache entry *)
(* has expired; a second one belongs to an execution after that. Also      *)
(* after a restart: "the original acknowledgement and deadline are         *)
(* restored" (README).                                                     *)
DuplicatesGetOriginalAck ==
    \A r, q \in released :
        r.cmd = q.cmd =>
            \/ r.ack = q.ack
            \/ r.ack.at >= Expiry(q.ack)
            \/ q.ack.at >= Expiry(r.ack)

(* In the state file, an "applied" acknowledgement comes with the rule it  *)
(* acknowledges: completeRevocation "makes the acknowledgement and the     *)
(* matching deny rule durable before making a duplicate command observable *)
(* as completed", and a restart makes every saved one so observable.       *)
FileCoherent ==
    \A i \in file.idem :
        i.ack.outcome = "applied" /\ i.ack.until > now
            => file.rules[i.cmd.target] >= i.ack.until

(* "The original acknowledgement and deadline are restored after a Relay   *)
(* restart" (README): the Relay does not refuse to start over its own file *)
(* while an acknowledgement in it has not expired.                         *)
LiveStateRestored ==
    status = "refused" => \A i \in file.idem : i.expires <= now

(* Overlapping revocations of one target only extend its deny rule: while  *)
(* the process lives, no rule loses a deadline that has not passed         *)
(* (installRevocation, cleanupLocked with the time a handler read before). *)
RulesOnlyExtended ==
    [][status = "up" /\ status' = "up" =>
         \A t \in Targets : rules[t] > now => rules'[t] >= rules[t]]_vars

(* What is denied: the rules, and while the process is down those of the   *)
(* file.                                                                   *)
Rev == INSTANCE Revocations WITH
        up     <- status = "up",
        denied <- IF status = "up" THEN rules ELSE file.rules,
        told   <- released

(* PrivateControl implements Revocations: whatever connections, duplicates *)
(* and failing writes do between them, a rule is only extended or dropped  *)
(* after its deadline, a crash takes back only what no acknowledgement     *)
(* released has promised, and every acknowledgement is true of its command *)
(* and the only one until it expires (installRevocation,                   *)
(* completeRevocation, restorePersistentState).                            *)
ImplementsRevocations == Rev!RevocationSpec

(* Every command is answered: whoever executes it completes or abandons    *)
(* its entry, so that a waiting duplicate does not depend on its timeout.  *)
CommandAnswered == \A h \in Handlers : conn[h] # Idle ~> conn[h] = Idle
=============================================================================
