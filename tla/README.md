# TLA+ models and proofs of the IncomUdon Relay

This directory holds a formal model of the IncomUdon Relay server: TLA+ modules
translated from the Go source under `src/`, TLC configurations that model-check
them on small instances, and theorems that TLAPS checks for every value of the
constants. `PROJECT.json` lists the components, the runs with their properties
and mutants, the source lines each definition stands for, the findings, the
hazards and the theorems.

To run a check: `tlc -config MCRelay_floor.cfg MCRelay`; to check proofs:
`tlapm RelayProofs.tla`.

## 1. The system

The Relay is one Go process. It forwards half-duplex voice ("push to talk")
between the UDP endpoints of a channel, arbitrates who has the floor, checks who
may join and talk, and publishes directory data.

| Component | Source | State | Operations |
|---|---|---|---|
| Relay core | `main.go` | `channels[id]`: `peers` by endpoint (sender id, membership deadline, admission), `activeTalkers` with grant time, `codecConfigs` by sender id | JOIN, LEAVE, KEEPALIVE, PING, PTT_ON/OFF, PTT_REQUEST, CODEC_CONFIG, AUDIO/FEC, cleanup ticker |
| Control Authentication v1 | `control_auth.go` | cookie challenges, provisional and joined 64-counter replay windows, the Relay's own nonces | AUTH_HELLO, cookie, JOIN, per-packet MAC and counter check, expiry |
| Identity Admission v1 | `identity_admission.go` | flows per sender and session: challenge, verified ticket | BEGIN, PROOF, consumption by JOIN or by a joined endpoint, failure, expiry |
| Managed Service Admission | `service_admission.go` | the same for service grants, and bounded deny rules with deadlines | the same, and `installRevocation`, sweep of memberships |
| Private Control Link (PCL) | `private_control.go`, `private_control_state.go`, `private_control_snapshot.go` | sessions with bounded queues, idempotency map of commands, command slots, state file | hello, ping, revoke, state snapshot, events, diagnostics; persist and restore |
| Relay diagnostics | `relay_diagnostics.go` | floor-interrupt counters and their epoch | count an outcome, snapshot |
| Directory UDP v3 | `directory_v3.go` | replay windows per client, direction, channel and epoch; registrations; snapshot cursors | register, heartbeat, request, publication rounds |
| Management plane | `management.go` | policy (fixed), SSE subscribers with bounded queues, event numbers | health, views, event streams, grant issuing, revocation |
| Transports, state path checks, configuration, cryptography | remaining files | - | - |

How they interact. The run loop takes one datagram at a time, but takes and drops
`server.mu` several times for it, and calls the admission managers, which have
mutexes of their own. `cleanupLoop` and one goroutine per PCL command change the
same tables in between. Announcements (the TALK_GRANT / TALK_RELEASE broadcast
with its `talk_started` / `talk_ended` event) are made after the mutex is
dropped. A PCL command installs a deny rule in the service admission manager,
sweeps the Relay's memberships, writes the state file and then acknowledges.
The Directory has its own socket and workers, and reads the channel table.
The goroutines that change that table publish what they changed, without its
mutex, to the streams of the management plane and to the sessions of the PCL; a
session answers snapshots of the table through the same queue.

What is hard here:

- *critical sections between checks*: a JOIN is resolve, upsert, attach and
  start; a PTT_ON is allow, refresh and grant; a revocation or an expiry fits
  between any two;
- *several goroutines end one tenure of the floor*: the run loop, the cleanup
  ticker and revokers must produce one release each time, never none or two;
- *replay windows at their edge*, and their hand-over from the provisional to
  the joined state;
- *idempotent commands*: duplicates that arrive while the original executes, after
  it failed, after it expired, or after a restart;
- *durability*: an acknowledgement is released after the file is replaced, while
  other commands do the same without a common lock;
- *slow readers*: a management service or a stream that does not read meets
  bounded queues; nobody may wait for it with a mutex that the floor needs;
- *streams against snapshots*: a change is made under one mutex and published
  under another, while a snapshot is read and sent in several frames;
- *sizes that depend on themselves*: the number of fragments of a directory answer
  is part of the text of every fragment;
- *checks that go stale*: a datagram's expiry is checked before the mutex that
  guards the replay record, and a cursor is looked up by its text.

What makes each component correct: the floor keeps its limit and changes hands
only lawfully, every tenure is announced and ended once, memberships end; no counter is accepted twice and no fresh one in the window is lost;
an endpoint has one admission path, a proof counts once, a revoked grant admits
nobody; a command executes once and is answered once, an applied acknowledgement
implies the rule, now and after a restart; a directory datagram takes effect
once, goes only to confirmed endpoints, and a page belongs to its channel; a
stream holds what it should and nothing else, a snapshot is whole, what is dropped
is counted, and no service holds up the Relay.

## 2. Modules

| Module | Models | Used by |
|---|---|---|
| `Relay` | membership table and floor of one channel, run loop, cleanup, revokers | `RelayProofs`, `MCRelay` |
| `Floor` | abstract: what the Relay promises about the floor | `Relay` (refinement mapping) |
| `ControlAuth` | handshake and replay windows of one endpoint | `ControlAuthProofs`, `MCControlAuth` |
| `RelayNonce` | the nonces of what the Relay signs | `ControlAuthProofs`, `MCControlAuth` |
| `AdmissionFlow` | identity and service flows of one endpoint, deny rules | `AdmissionFlowProofs`, `MCAdmissionFlow` |
| `PrivateControl` | revocation commands, idempotency, state file, crash and restart | `PrivateControlProofs`, `MCPrivateControl` |
| `Revocations` | abstract: what the link promises about revocations | `PrivateControl` (refinement mapping) |
| `PrivateSession` | PCL connections, queues, events, snapshots | `PrivateSessionProofs`, `MCPrivateSession` |
| `SnapshotChunks` | pure: cutting a snapshot into frames | `PrivateSession`, `SnapshotCuts` |
| `SnapshotCuts` | one table and the frames it is cut into | `PrivateSessionProofs`, `MCPrivateSession` |
| `RelayDiagnostics` | floor-interrupt counters and epochs | `PrivateSessionProofs`, `MCPrivateSession` |
| `Management` | event streams, publication and views of the management plane | `ManagementProofs`, `MCManagement` |
| `GrantIssue` | pure: the rules that issue a grant and those that accept it | `Management`, `GrantPolicy` |
| `GrantPolicy` | one request for a grant under any row of the policy | `ManagementProofs`, `MCManagement` |
| `Directory` | workers, replay, registrations, publication, cursors | `DirectoryProofs`, `MCDirectory` |
| `FragmentPacking` | pure: cutting a directory answer into datagrams and pages | `DirectoryProofs`, `MCDirectory` |
| `Sums` | sums of sequences of sizes | `SnapshotChunks`, `FragmentPacking` |
| `InductionLemmas` | proofs only: induction over numbers, recursive functions, sums, sizes of tables | the proof modules with limits or algorithms |

Definitions whose comment begins "Mutant of" are plausible bugs of the
definition named there. No specification uses them; replacing the definition by
its mutant makes TLC report the property named in `PROJECT.json`.

### Relay

Every critical section of `server.mu` is one action. `pc` is the run loop's next
critical section and `pkt` the datagram it handles, with the locals that survive
an unlock (the admission a JOIN consumed). `peer[a]` is `channel.peers` at
endpoint `a`; `talkers` and `age` are `activeTalkers`; `codec` is
`codecConfigs`; `out[t]` holds the announcements goroutine `t` still has to make
after its critical section; `denied` and `target[r]` are the deny rules and the
sweep revoker `r` still owes. `balance` is a history variable. Time is relative:
`lease`, `life` and `age` count down or up with `Tick`, so a run needs no clock
bound. Most sections read the clock before they lock the mutex (`time.Now()`, then
`s.mu.Lock()`, for instance main.go:779), so time may pass in between: `late[t]` is
how long ago goroutine `t` read the clock its next section goes by, at most
`MaxDelay`, and a deadline has passed for that section only if it had when the clock
was read. So a packet may renew a membership that ran out while the run loop waited,
which the code allows, and what the properties say of time holds in spite of it.
`EarlyClock` names these sections; handlePttOn reads the clock inside.

Abstractions: one channel; a datagram's authenticity and replay are decided in
`ControlAuth`, and that an admission is complete in `AdmissionFlow`; a JOIN that
is refused because its flow is pending or failed has no effect here and is left
there; packets that only answer one endpoint (TALK_DENY, a repeated grant,
SERVER_CONFIG, talk-state synchronisation) and the reason of a release change no
state; `lastSeen` is only logged; the AES-GCM flag check of media is part of
what is not sent; a revocation targets one service admission; the deadline of a
deny rule may pass at any moment (it is absolute in `PrivateControl` and
`AdmissionFlow`).

`Floor` has four variables: who holds the floor, how many grants and releases
are still to be announced for each sender, and what a listener has counted. Its
actions are `Take`, `Exchange`, ending tenures, making an announcement, and the
deletion of the channel. The refinement mapping of `Relay` takes `talkers` for the
holders, `balance` for what was shown, and counts the goroutines that owe an
announcement.

### ControlAuth and RelayNonce

One endpoint. `AUTH_HELLO` creates a challenge and a provisional window; a JOIN
with the cookie consumes both and installs the window in the peer in one step;
later packets go through the joined window; cookies expire and the provisional
tables are bounded. MACs are abstract: only authentic packets appear.

`RelayNonce` is `nextRelayNonce`: an instance id in the high half and a counter in
the low half; when the counter is exhausted a new id is drawn until one is found
that was not used. The random source may give any id, used ones included. Every
call is one critical section, so the callers need no names.

### AdmissionFlow

One endpoint with several (sender, session) keys. BEGIN verifies a ticket and
stores a challenge, PROOF completes the flow, JOIN or a joined endpoint consumes
it and attaches it in a later critical section; one revocation command may run
between any two of these. Control sessions are in `ControlAuth`: since an
AUTH_HELLO opens any session id again, every session may await a JOIN here. A
ticket check is its field `valid` with its sender and
expiry; a random challenge is a fresh number; the listen-only grace is zero (it
is in `Relay`); the test `peerHasIdentityAdmission` is folded into taking the
flow and into the refused attachment; `startMembership` is in `Relay`.

### PrivateControl

One goroutine per connection, one command at a time. `conn[h].pc` walks through
`handleRevocation`: begin (new, duplicate, conflict), command slot, install the
rule, set the acknowledgement, the two halves of the snapshot, the replacement of
the file, complete or abandon. `Crash` loses everything but the file; `Restart`
restores it or refuses to start. A request's number stands for the message id of
its acknowledgement, and the body of a command for its hash. The sweep of the
memberships is in `Relay`. Encoding, fsync and rename are one atomic step;
`Unix()`'s whole seconds are the model's clock.

`Revocations` has no connections, slots, caches or files: a clock, whether the
process runs, a deadline per target and the answers given. A deadline is extended
(`Deny`) or dropped once it is past (`Lapse`); an answer (`Tell`) is about its
command as things were when it was executed, is in force, and is the only one until
it is forgotten; a stop may set a deadline back only if no answer promised it, and
never adds one; `Resume` brings back what the stop left. The refinement mapping
takes the rules of the process, or those of the file while it is down, for what is
denied, and `released` for what was told.

### PrivateSession

A connection has a reader (`stage`: hello, replacement of the previous session,
hello_ack, health, requests, the frames of a snapshot, the deferred calls) and a
writer (`writer`), and between them a queue: `queued` is its length and `log` the
events and frames put in it. `past` is the history of the channel table, so that a
message can name the change it tells of. A publisher changes the table in one step
and publishes its events one by one in later steps (`owed`); lifecycle events wait
for `eventMu`, which a snapshot holds to its last frame; audit inputs do not. The
table says who is at each endpoint of a channel and who talks. `Join`, `LeavePacket`,
`PttOn` and `PttRequest` are the datagrams of the run loop, one at a time; `Sweep` is
every section that takes out what expired, is overdue, revoked or given back, with an
event for each tenure and endpoint. Not every change has an event: a JOIN that
returns after its upsert has none, nor has the sender whose endpoint a JOIN takes
over, nor a talker lost with its channel. An event or a reply for which no message id
can be drawn is not sent. The `service_admission_*` events say nothing of the table
and are left out. A
write may wait for ever for a service that does not read; there is no deadline on
it. Who may take the floor is decided in `Relay`; here a PTT_REQUEST is refused,
granted or granted by exchange, and audited. `SnapshotChunks` computes the frames,
with sizes abstracted to a cost per channel and one per participant. As in the code
a participant is an endpoint: a sender at two endpoints of a channel is named twice.
`RelayDiagnostics` counts the outcomes of PTT_REQUESTs, one critical section each;
`seen` holds the states of the counters so far, any of which a reply may have read.
The answer to a request for them is an answer like any other here. Commands are in `PrivateControl`.

### Management

A feeder is a goroutine that publishes: one of the Relay's (it changes the tables
under `server.mu`, drops it, and publishes one or several events) or a request for
a grant. `Number` is the critical section of `publishEvent`, `Offer` the later
look-up and non-blocking send to one subscriber of the copied list. The channel
view takes the plane's mutex and then `server.mu`. The policy never changes while
the process runs, so it is constants. Before the first change the goroutine that
starts the plane publishes the health of the Relay. `GrantIssue` holds the rules
of `issueGrant` and of `validateGrant` as predicates over the same claims.

### Directory and FragmentPacking

`Workers` handle datagrams concurrently: opening (decryption and the expiry check)
is a step, and the commit under the mutex another, with the time read before the
mutex. Only authentic datagrams appear. Rate limits, the job queue and the
response budget lose datagrams, which is what not handling them is. A process has
one transport, so the binding check cannot fail; a random cursor is a fresh
number; the keys and the metadata name the same channels by construction
(`newDirectoryV3`), so its "channel not found" branches are unreachable.

`FragmentPacking` is a pure algorithm: a row is its size; a fragment's text has the
digits of its index, of the number of fragments and of its sequence number, its
rows and their commas, and in the first fragment of a snapshot the channel row. As
the slices of the code do, the fragments divide the rows where they stand:
`starts[i]` rows come before those of fragment `i`. `DatagramLimit >= 6` says that a
datagram has room for its three numbers, which are sent even for an answer without
rows, and `Capacity >= 2 * ChannelCost` in `SnapshotChunks` that a frame of 63 KiB
holds more than one channel id.

## 3. Runs

All bounds are constants of the configurations. `CHECK_DEADLOCK FALSE` is set
where a bounded clock or counter (`MaxTime`, `MaxRequests`, `MaxCounter`,
`MaxChallenges`, `MaxChanges`, `MaxEvents`, `NumConns`) lets a behaviour end; the Relay's runs check deadlock.

| Run | Shows | Bounds and why they are enough |
|---|---|---|
| `relay_floor` | `AnnouncementsBalanced`, `TalkTimeLimited`, `MembershipExpires` | two senders for one floor place; one endpoint used by both senders and one sender at two endpoints, so that entries change their sender id and outlive it; a lease of two ticks, a talk limit of one and clocks up to one tick old, so that a deadline passes before, between and after the critical sections of a packet and while one of them waits for the mutex; every packet a client sends without an admission, media and codec configurations included |
| `relay_interrupt` | `JoinedPeersHaveDeadline`, `PreemptionLawful`, `ImplementsFloor` | three endpoints, two floor places, two priorities in required mode: a full floor, equal and unequal priorities, a talker whose entry or admission expired; a lease of two ticks, tickets of one (the lower priority) and two, clocks up to one tick old |
| `relay_revoke` | `RevocationFailsClosed`, `FloorLossAnnounced` | one revoker against JOIN and PROOF of two grants (one may talk, one may only listen and has a grace period), with room for one deny rule; a lease of one tick and clocks up to one tick old |
| `private_overlap` | `ExclusiveExecution`, `ImplementsRevocations` | two connections, three commands on one target (two deadlines, one message id with two bodies), failing writes, three requests: original, duplicate and a third in any order |
| `private_restart` | `AppliedAckEnforced`, `DuplicatesGetOriginalAck`, `FileCoherent`, `SlotsSound`, `ImplementsRevocations`, `CommandAnswered` | two connections with one command slot, one deny rule, two cache entries, three commands (one with a deadline too far ahead), failing writes and a crash at any step: every limit is hit |
| `control_replay` | `ReplayRefused`, `LateAccepted`, `PendingSound`, `NonceNeverRepeated` | two sessions, window of two and three counters (both edges, a slide and a gap), one provisional place, expiring cookies; or else three instance ids with three counters each: two rollovers and the end of the ids |
| `admission_flows` | `OneAdmissionPath`, `ProofsSound`, `DeniedNotStored`, `RevokedNotMember` | an identity ticket, a grant and an invalid grant over two sessions in optional mode, rules by service and by grant with room for one |
| `directory_datagrams` | `LiveDatagramOnce`, `RegistrationsSound`, `CursorUsedOnce`, `PackingExact`, `SnapshotPagesSent` | two workers and one of two scenarios: five datagrams with different expiries of a client that moves and starts a new epoch and of a second client, with a window of two, one replay record and one registration; or snapshots of three pages with a cursor presented twice, and one of too many pages. Packing: all answers of up to five rows of three sizes, four fragments, numbers of two digits from 3 on, so that the number of digits changes while packing |
| `session_serve` | `SnapshotSound`, `NoEventMissed`, `SessionsSound`, `ChunksRepresentTable`, `CountersConsistent`, `PublisherNotBlocked`, `ReplacedSessionEnds` | two connections of one service, so that one replaces the other at any step; a queue of two and snapshots of two frames, so that a frame, an event or an answer meets a full queue; two changes of the table by the run loop and the cleanup, and one PTT_REQUEST, among them a JOIN with and without its event and one that takes over an endpoint of a sender who has two; a table that grows too large. After the first change the next comes while a snapshot is being queued, and two changes come with one connection only (`Overlapping`): other orders of changes only repeat a change before or after the snapshot. Chunks: all tables of two channels, two senders and three endpoints; counters: all sequences of five outcomes with counters that end at two |
| `management_streams` | `StreamExact`, `GrantHonoured`, `RelayNotHeldUp` | the run loop and a grant request publish up to five events (a departure has two); two streams of services with different rights, with queues of one; one view. Grants: all rows, roles and requests, three priorities, uses just before and at the end of the lifetime |

`ControlAuth` and `RelayNonce` share no state: `control_replay` looks at the
behaviours in which one of them moves. The two scenarios of `directory_datagrams`
are chosen in the initial state. The invariants `SlotsSound`, `PendingSound`,
`ProofsSound`, `RegistrationsSound` and `SessionsSound` are the type invariant of
their module, the limits of its tables or queues, and the property of those tables
that matters most; all of them are proved, as are the types of `Relay` and
`Management`. The limits are named parts (`WithinLimits`, `WithinLimit`) or, in
`Directory` and `PrivateSession`, part of `TypeOK`; the code has none for the verified
and failed flows of an endpoint, which only expire.

`private_restart` has one command slot because, with two, the properties of the
file do not hold across a crash (section 4): one slot serialises the writers, and
then they do. With two slots and no crash, `private_overlap` covers what is
promised while the process lives.

`ImplementsFloor` contains the limit of the floor (`FloorLimit`, proved on its own),
and `ImplementsRevocations` that rules are only extended (`RulesOnlyExtended`, also
proved).

Symmetry is used for interchangeable workers, connections and sessions, in runs
without temporal properties other than action properties and refinements without
fairness; sender ids are ordered
by the code and are never symmetric.

Three of the runs also check pure algorithms over bounded inputs. The input is a
variable of the MC module or of the algorithm's: the component runs from the initial state with the
default input, and every other input is an initial state of its own in which the
component stands still. So the inputs are not multiplied with the behaviours
(`FragmentPacking!answer`, `SnapshotCuts!captured`, `GrantPolicy!posed`).
`RelayDiagnostics` shares no state with the sessions either: it moves in the
behaviours of `session_serve` in which they stand still.

Fairness. `Relay!FairSpec`: weak fairness of the run loop's critical sections
(a goroutine that has a datagram goes on with it), of the cleanup ticker, of
revokers and announcements (goroutines that run to their end) and of time. Clients
owe nothing: receiving a datagram is not fair. `PrivateControl!FairSpec`: weak
fairness of each handler's steps; the five-second timer of a waiting duplicate is
not among them, so the answer never rests on it. `PrivateSession!Fairness` and
`Management!MgmtFairness`: weak fairness of what a goroutine does without waiting
for a peer, and strong fairness of taking `eventMu`, the plane's mutex and
`server.mu`, because a Go mutex that is free again and again is handed to a
goroutine that has waited for it for a millisecond. That a service or a client
sends, reads or disconnects is never assumed.

## 4. Findings

Two runs of kind "violation" check one statement of a document or a comment
against what the code does; TLC's trace shows the difference.

| Run | Property | What the trace shows |
|---|---|---|
| `relay_deny_race` | `JoinedPeersHaveDeadline` | a deny rule between upsert and attachment of a JOIN leaves an entry without a membership deadline, which never expires |
| `private_lost_update` | `AppliedAckEnforced` | two commands write their snapshots in the opposite order; after a crash an acknowledged rule is missing |

The passing runs state what does hold next to each: deadlines for every member
when no deny rule interferes, acknowledged rules with one writer at a time.

The modules define eight more statements of the documents that the code does not
keep, for which no configuration is kept. Each is refuted in seconds by adding it
as an INVARIANT (the third as a PROPERTY) to a configuration with the constants
given here.

| Property | Violated with | Behaviour |
|---|---|---|
| `Relay!CodecFromCurrentEndpoint` | `relay_floor` | a second JOIN under another sender id leaves the former id's codec configuration for the next endpoint with that id (main.go:680; comment at main.go:875) |
| `Relay!FloorHolderAdmitted` | `relay_interrupt` | an expiry between the checks of a PTT_ON and its grant gives the floor to a sender that is no longer admitted (main.go:1136; README.md:215); only the talk limit ends that tenure |
| `ControlAuth!JoinedSessionRemembers` | `control_replay` | a second handshake with the session id of the joined peer resets its replay window (control_auth.go:316; README.md:108) |
| `AdmissionFlow!AdmissionBoundToSender` | `admission_flows` with a second key of sender 2 | in optional mode a JOIN under another sender id keeps the admission of the first (control_auth.go:501; README.md:213) |
| `PrivateControl!FileCoherent` | `private_lost_update` | rules and acknowledgements are copied under two mutexes, so the file may hold an acknowledgement without its rule (private_control_state.go:155; comment at private_control.go:532) |
| `PrivateControl!LiveStateRestored` | `private_lost_update` with one handler and `MaxTime = 4` | one acknowledgement in the Relay's own file that expired while the process was down makes the start fail, although others are live (private_control_state.go:218; README.md:366) |
| `Directory!DatagramOnce` | `directory_datagrams` | a copy opened just before its expiry and committed after the purge of its replay record takes effect again (directory_v3.go:943; directory-v3.md:65) |
| `Directory!PageOfRequestedChannel` | `directory_datagrams` with a request of channel c2 for cursor 1 | a cursor presented under another channel is answered with the first channel's page (directory_v3.go:1317; directory-v3.md:4) |

`NoEventMissed` is about events. That a service which has a snapshot and applies every
later event knows the table would be more, and the code does not give it, with nothing
dropped: an aborted JOIN leaves a row and publishes nothing (main.go:459-470), a JOIN
under another sender id replaces a row without `participant_left` (main.go:691), a
talker without an endpoint is lost with its channel in silence, and an event without a
message id is only logged (private_control.go:778). The comment at
private_control_snapshot.go:18 promises the order of what is queued (`SnapshotSound`),
and no document more.

Four orders that the model shows and that no document rules out, so that nothing is
stated about them: a lifecycle event may be queued on a session before its
hello_ack and its health event, since the session is registered first
(private_control.go:1126); the event of a change that a snapshot already holds may
follow the snapshot (private_control.go:775); a stream of the management plane may
carry event numbers out of order when two goroutines publish (management.go:511);
and a register of the Directory that is committed late sets a registration back
(directory_v3.go:978).

## 5. Proofs

| Theorem | States | Inductive invariant |
|---|---|---|
| `RelayProofs!TypeCorrect` | `[]TypeOK` | `TypeOK` itself |
| `RelayProofs!FloorLimited` | `[]FloorLimit` | `TypeOK /\ FloorLimit`; a preemption removes one talker before it adds one, so the cardinality lemmas of finite sets are needed |
| `RelayProofs!RevocationSafe` | `[]RevocationFailsClosed` | `RevocationInv`: besides it, only service admissions are denied, and an endpoint without an entry has no admission |
| `RelayProofs!JoinedAlwaysHaveDeadline`, `TicketsAlwaysHaveDeadline` | `[]JoinedPeersHaveDeadline`, the first under `[]GrantOutlivesJoin`, the second with identity tickets only | `JoiningInv` (with `RevocationInv`): an entry without a deadline belongs to the JOIN under way, under its sender id, and has no admission until the JOIN attaches one |
| `RelayProofs!RelayImplementsFloor` | `ImplementsFloor`, a refinement | `TypeOK` and the balance of announcements; every critical section changes the goroutines that owe an announcement about a sender by at most one, so the counts of the mapping change as `Floor` says |
| `RelayProofs!AnnouncementsAlwaysBalanced` | `[]AnnouncementsBalanced` | the same |
| `RelayProofs!PreemptionsLawful` | `PreemptionLawful`, an action property | `TypeOK`; only `RequestFull` gives and takes the floor in one step |
| `RelayProofs!FloorLossAlwaysAnnounced` | `FloorLossAnnounced`, an action property | `SweepsWithCleanBooks` (a revoker that sweeps has no earlier announcement to make) and `LeaverSilent` (who leaves has given the floor back before its entry goes) |
| `ControlAuthProofs!ReplaySafe`, `LateSafe` | `[]ReplayRefused`, `[]LateAccepted` | `ReplayInv`: in every provisional window and in the joined one (`WindowInv`), the marks of the window are exactly the accepted counters within it, and no accepted counter is above the highest |
| `ControlAuthProofs!PendingAlwaysSound` | `[]PendingSound` | `PairInv`: while it is live, a challenge has the expiry of the provisional state of its session, and a client answers a challenge in its session; `LimitInv`: only the provisional sessions are counted, and after the cleanup that comes before the count every challenge left has one of them |
| `ControlAuthProofs!NonceUnique` | `NonceSpec => []NonceNeverRepeated` | `NonceInv`: every nonce issued has an instance id that is recorded as used, and under the present id a counter below the next one |
| `AdmissionFlowProofs!DeniedNeverStored`, `RevokedNeverMember`, `OnePath` | `[]DeniedNotStored`, `[]RevokedNotMember`, `[]OneAdmissionPath` | `FlowInv`: the three together with `KindsAgree`, that a flow's ticket is of the flow's kind wherever the flow is held, also in the run loop between taking and attaching it |
| `AdmissionFlowProofs!ProofsAlwaysSound` | `[]ProofsSound` | `UseInv`: a challenge is in one place (pending, verified or taken by the run loop) and not attached while it is in one; challenges not issued are nowhere; `LimitsInv`: the limits, and a key has one flow of a kind in a table |
| `PrivateControlProofs!SlotsAlwaysSound`, `ExecutionExclusive`, `RulesAlwaysExtended` | `[]SlotsSound`, `[]ExclusiveExecution`, `RulesOnlyExtended` | `ControlInv`: who executes a command owns its entry and, from the slot on, a slot; every clock reading a handler holds is in the past; for the limits `LimitsInv`: a restart makes an entry of every saved acknowledgement and counts none, so the file, and a snapshot that is about to become one, keep the limit of the cache too |
| `PrivateControlProofs!AppliedAcksEnforced`, `OriginalAcksGiven` | `Spec /\ ([]OneAtATime \/ []Alive) => []AppliedAckEnforced`, and the same for `DuplicatesGetOriginalAck` | `AckInv` (with `ShapeInv`): every acknowledgement that was told, or that an entry would tell, is enforced by the rules, is the only live one of its command, and its entry answers with it until it expires; across restarts also `FileInv` |
| `PrivateControlProofs!FileAlwaysCoherent` | `Spec /\ []OneAtATime => []FileCoherent` | `FileInv`: the file, and the snapshot that is about to replace it, say everything that was told and nothing against it |
| `PrivateControlProofs!RevocationsImplemented` | `Spec /\ ([]OneAtATime \/ []Alive) => ImplementsRevocations`, a refinement | the invariants of the three above and, without any condition, `SaysInv` (every acknowledgement made, cached, saved or in a snapshot is about its command and within the longest deny period) and `BelowInv` (no file and no snapshot denies longer than the rules do) |
| `PrivateSessionProofs!SessionsAlwaysSound` | `[]SessionsSound` | `Base /\ Register`: a replaced session is not registered, and only a connection before its hello enters the register |
| `PrivateSessionProofs!NoEventEverMissed` | `[]NoEventMissed` | `StreamInv`: what was queued or is owed is of the past; who still has frames to queue holds `eventMu` and every event announced since its capture is owed; the boundary; the property itself |
| `PrivateSessionProofs!SnapshotsAlwaysSound` | `[]SnapshotSound` | `WholeInv`: every frame is a frame of the table at its change number, the frames of one request are consecutive from the first on, what is pending is the rest of them, and a session that goes on has queued all |
| `PrivateSessionProofs!ChunksAlwaysRepresentTable` | `CutSpec => []ChunksRepresentTable` | none over time; an induction over the participants: what is complete, current and in the batch has a place for each participant so far and no other, the participants are as many as the endpoints, and two chunks that follow each other weigh at least a frame |
| `PrivateSessionProofs!CountersAlwaysConsistent` | `DiagSpec => []CountersConsistent` | `DiagInv`: the property and one state more than outcomes; the point since which is counted stays, or moves to the last outcome |
| `ManagementProofs!ManagementTypes`, `StreamsExact` | `[]MgmtTypeOK`, `[]StreamExact` | `StreamInv`: besides them, `UnderWay` (what a feeder still has to offer is an event of its own, newer than the subscription of each stream on its list and not offered to it yet) and `Untouched` (a stream that never subscribed has nothing) |
| `ManagementProofs!GrantsAlwaysHonoured` | `GrantSpec => []GrantHonoured` | none: a case split over the permissions, for every row, request and delay |
| `DirectoryProofs!DatagramSafe` | `[]LiveDatagramOnce` | `OnceInv`: a datagram that took effect and has not expired is refused by its replay record, which lives at least as long as the datagram, and no clock reading is in the future |
| `DirectoryProofs!RegistrationsAlwaysSound` | `[]RegistrationsSound` | `RegInv`: the types and bounds, and that the deadline of a registration is at most a lifetime after the last confirmation by its own endpoint |
| `DirectoryProofs!CursorsUsedOnce` | `[]CursorUsedOnce` | `UsedInv`: a cursor in the table was never used, one that a worker holds was taken out of it, and numbers not issued are nowhere |
| `DirectoryProofs!PackingAlwaysExact` | `PackSpec => []PackingExact` | none over time; an induction over the rows: the greedy pass is never behind any cut that can be sent |
| `DirectoryProofs!PagesAlwaysSent` | `PackSpec => []SnapshotPagesSent` | none over time; an induction over the rows of a page: after `k` rows there are at most `k + 1` fragments |

Where nothing else is said the theorem is `Spec => ...`. The assumptions are the
named `ASSUME`s of the component modules: finite sets of senders, endpoints and
workers, positive limits, fields of the right type. TLC evaluates them in every run.
The argument is the usual one in each module: `Init` implies the invariant, one lemma
per group of actions that it is preserved, and the invariant implies the property;
propositional temporal logic combines them.

Two conditions go beyond that.

- `GrantOutlivesJoin`: no service grant is denied or expires between the critical
  sections of its own JOIN. The finding of `relay_deny_race` is a behaviour in which
  one is; the theorem says that there is no other way to an entry without a deadline.
  With identity tickets only, the condition always holds, which is the second theorem.
- `OneAtATime` (no two commands hold a slot at once) or `Alive` (no crash). The code
  has 32 slots, and `private_lost_update` is a behaviour with both an overlap and a
  crash; the theorems say that it takes both. The condition is one on the behaviour and not on
  the number of slots; `private_restart` has one slot, with which no two commands can
  hold one.

Why strengthening is needed: that no counter is accepted twice speaks of the
history only; it is inductive together with what the window's marks say about the
history. That a datagram takes effect once needs the record's lifetime: records
are purged on time alone, and only the maximum of the expiries it has recorded
keeps a record alive for each of them. `RevocationFailsClosed` speaks of
memberships only, although the run loop may hold an admission that was checked
before the rule was installed; it is inductive because attaching looks at the
rules again in the critical section that stores the admission, and because a rule
is installed before the sweep.

That a stream gets no event twice cannot be seen from the stream alone: the copied
list outlives the mutex, and it is `UnderWay` that says that two feeders never have
the same event and that a stream is on the list of an event at most once. Nor can
one event's number be taken for another's: the argument that two feeders differ
goes through the author recorded with the event.

What was acknowledged is history; the process decides from its cache, its rules and
its file. `AckInv` ties the three to the history while the process lives, and says it
also of the acknowledgement a handler has made and not yet released, for the next
step releases it. A crash leaves the file only, so `FileInv` says the same of the
file, and of the snapshot a handler holds between reading the rules, reading the
acknowledgements and writing: another command in between would make it false, which
is where `OneAtATime` is used.

`NoEventMissed` is about sessions that have a snapshot; its proof needs the moment
before, when the frames are pending: no event of a later change can have been
queued, because its publisher waits for `eventMu`. `SnapshotWhole` compares the
frames in the log with a table of the past, and is inductive with the rest of the
snapshot that the reader still holds.

`JoinedPeersHaveDeadline` speaks of the time between two packets; the invariant
names, for the time in between, the one entry that may be without a deadline.

The refinements are the strongest statements. `FloorLimit` and
`AnnouncementsBalanced` are invariants of `Floor`, and both are also proved of
`Relay` directly. `AppliedAckEnforced` and `DuplicatesGetOriginalAck` are
invariants of `Revocations`, proved of `PrivateControl` first because its
answering step needs them: `Tell` asks that the answer is in force and does not
contradict an earlier one. `Stop` is the step that needs the state file: that it
enforces what was told is `FileInv`, and that it denies nothing beyond the rules is
`BelowInv`. With overlapping commands and a crash the refinement fails at `Stop`,
which is the lost update of section 4.

The three algorithms are recursive functions, and what they compute is proved by
induction. The induction theorems of the library take the formula as a parameter,
which the provers cannot instantiate; `InductionLemmas` states induction with a set
in its place (a set that has 0 and with every number the next has them all), and
recursion with a function in the place of the step. A proof defines the set of the
`n` for which its claim holds and shows that it is all of them.

Chunks. That a table is refused only when it would half fill all the frames allowed
rests on neighbours: a batch starts a new chunk only if it did not fit in the one
before, so the two weigh more than a frame together. A channel that is cut is named
once more in each batch, which the count of the participants does not pay for; but a
channel is cut only where a batch fills a frame, and the price of the name is counted
with the last batch of the channel. `EveryCutWhole`, the consequence the sessions
need, is a lemma, so the theorems about them hold of every table.

Packing. Let a cut be any division of the rows into fragments that fit for some
number of fragments. `Ahead` says that after `k` rows the greedy pass is in an
earlier fragment than the cut, or in the same one, started no earlier; adding a row
keeps it, if the guess has no more digits than the number of the cut. So a pass for
a low guess needs no more fragments than any cut that can be sent, and its own number
is again a low guess; if it fails, nothing can be sent. Since a number of fragments
has one digit or two, the digits of the guess change once at most: the third attempt
of the six, if not an earlier one, is right or fails. `MaxAttempts >= 3` is all that
is assumed, and "unable to stabilize" is never returned.

Only model-checked: liveness (`TalkTimeLimited`, `MembershipExpires`,
`CommandAnswered`, `PublisherNotBlocked`, `ReplacedSessionEnds`, `RelayNotHeldUp`).
Fairness is a matter of `ENABLED`, which is out of the prover's reach. Every other
property of the passing runs is stated by a theorem.

## 6. Not modelled

- Cryptography: HMAC, Ed25519, HKDF and AES-GCM are the question whether a packet,
  proof or ticket is authentic.
- Transports (mTLS, Unix sockets with peer credentials), state path and secret
  file checks: operating-system calls without protocol state.
- Configuration, CSV loading, fixed-header and JSON encoding, logging.
- PCL: the limiter of failed connections, the limit on the rate of diagnostics
  requests (a refused request is an answer), the framing of messages.
- Management plane: audit retrieval is never switched on (`auditRetrieval` is not
  set anywhere), so its records stay empty and its paging is unreachable; the health
  and participant views read one table and change nothing.
- Directory: rate limits, job queue and response budget (they lose datagrams).

## 7. Plan

Done, in this order: `Relay` (most important behaviour: who is a member and who
talks), `PrivateControl`, `ControlAuth`, `AdmissionFlow`, `Directory`; then the
abstract `Floor` and the refinement, `RelayNonce`, `PrivateSession` with
`SnapshotChunks` and `RelayDiagnostics`, `Management` with `GrantIssue` and
`GrantPolicy`, and `FragmentPacking`.

Proved since: every invariant and action property of the runs, the two refinements
(`Floor`, and `Revocations` with the second) and what the recursive algorithms
compute (section 5).

Next:

1. the composition of `PrivateControl` with `PrivateSession`: acknowledgements that
   meet a full queue or a replaced session;
2. the limiter of failed PCL connections.
