------------------------------- MODULE Relay -------------------------------
(***************************************************************************)
(* The membership table and the floor of one Relay channel (main.go), as   *)
(* changed by the three kinds of goroutine that share server.mu:           *)
(*                                                                         *)
(*   - the run loop, which handles one datagram at a time (handlePacket,   *)
(*     handleMediaPacket) but takes and drops the mutex several times per  *)
(*     datagram: every critical section is one action here, and the run    *)
(*     loop's program counter pc says which one comes next;                *)
(*   - cleanupLoop, one critical section per tick, then the announcements; *)
(*   - one goroutine per Private Control Link command, which installs a    *)
(*     deny rule, removes the matching memberships in one critical         *)
(*     section and then announces (revokeManagedServiceAdmission).         *)
(*                                                                         *)
(* Announcements (the TALK_GRANT / TALK_RELEASE broadcast together with    *)
(* the talk_started / talk_ended event) are made after the mutex is        *)
(* released, so each goroutine keeps the ones it still owes in out[t].     *)
(*                                                                         *)
(* Time is relative: lease, life and age are the time left to a deadline   *)
(* and the time since a grant; Tick moves all of them. Most sections read  *)
(* time.Now() before they lock the mutex, so that time may pass between    *)
(* the two: late[t] is how long ago goroutine t read the clock that its    *)
(* next section decides by.                                                *)
(***************************************************************************)
EXTENDS Integers, FiniteSets

CONSTANTS
    Senders,           \* sender ids the clients use (non-zero, ordered)
    Addrs,             \* UDP endpoints; the keys of channel.peers
    NoAddr,            \* no endpoint
    Clients,           \* who sends from where: <<sender, endpoint>> pairs
    Packets,           \* the packet types the clients send in this instance
    Admissions,        \* what the admission flows can hand to an endpoint
    Revokers,          \* goroutines that run a PCL revocation command
    MultiTalk,         \* server.multiTalk
    MaxActiveTalkers,  \* server.maxActiveTalkers
    TalkMax,           \* server.talkMax in ticks, 0 = no limit
    Lease,             \* server.membershipLease in ticks
    MaxDelay,          \* bound on the wait for the mutex after the clock is read
    ControlAuth,       \* controlAuthRequired(channel)
    AdmissionRequired, \* Identity Admission mode "required"
    FloorInterrupt,    \* server.floorInterrupt
    MaxDenyRules       \* maxServiceAdmissionDenyRules

PacketTypes == {"JOIN", "LEAVE", "KEEPALIVE", "PING", "PTT_ON", "PTT_OFF",
                "PTT_REQUEST", "CODEC_CONFIG", "PROOF", "MEDIA"}

(* An identity ticket or a service grant after its proof was verified.     *)
(* life is the time to its expiry when the packet that uses it arrives,    *)
(* grace the extra time a listen-only service membership may outlive it.   *)
AdmissionType ==
    [kind: {"identity", "service"}, talk: BOOLEAN, interrupt: BOOLEAN,
     priority: 0..255, life: Nat, grace: Nat]

NoAdmission ==
    [kind |-> "none", talk |-> FALSE, interrupt |-> FALSE,
     priority |-> 0, life |-> 0, grace |-> 0]

ASSUME RelayAssumption ==
    /\ Senders \subseteq Nat \ {0}
    /\ IsFiniteSet(Senders)
    /\ IsFiniteSet(Addrs)
    /\ IsFiniteSet(Revokers)
    /\ NoAddr \notin Addrs
    /\ Clients \subseteq Senders \X Addrs
    /\ Packets \subseteq PacketTypes
    /\ Admissions \subseteq AdmissionType
    /\ Revokers \cap {"run", "cleanup"} = {}
    /\ {MultiTalk, ControlAuth, AdmissionRequired, FloorInterrupt}
          \subseteq BOOLEAN
    /\ MaxActiveTalkers \in 1..16
    /\ TalkMax \in Nat
    /\ Lease \in Nat \ {0}
    /\ MaxDelay \in Nat
    /\ MaxDenyRules \in Nat

VARIABLES
    peer,      \* channel.peers: peer[a] = NoPeer when a has no entry
    talkers,   \* the keys of channel.activeTalkers
    age,       \* time since the grant of each active talker
    codec,     \* codec[s]: endpoint whose CODEC_CONFIG is cached for s
    pc,        \* next critical section of the run loop
    pkt,       \* the packet the run loop is handling
    late,      \* late[t]: time since t read the clock of its next section
    out,       \* announcements each goroutine still has to make
    denied,    \* service admissions under an installed deny rule
    target,    \* target[r]: what revoker r is about to sweep
    balance    \* history: per sender, grants announced minus tenures ended

vars == <<peer, talkers, age, codec, pc, pkt, late, out, denied, target, balance>>

Threads == {"run", "cleanup"} \cup Revokers

(* The goroutines whose sections look at deadlines.                        *)
Clocked == {"run", "cleanup"}

(* channel.peers is keyed by endpoint. deadline says whether               *)
(* membershipDeadline is set; the entry of an upserted endpoint has none   *)
(* until startMembership. lease and life go below 0 once the deadline has  *)
(* passed, down to -MaxDelay.                                              *)
NoPeer == [sender |-> 0, deadline |-> FALSE, lease |-> 0,
           adm |-> NoAdmission, life |-> 0]

PeerType ==
    [sender: Senders \cup {0}, deadline: BOOLEAN, lease: Int,
     adm: Admissions \cup {NoAdmission}, life: Int]

NoPkt == [type |-> "NONE", sender |-> 0, addr |-> NoAddr,
          adm |-> NoAdmission, life |-> 0]

PktType ==
    [type: PacketTypes, sender: Senders, addr: Addrs,
     adm: Admissions \cup {NoAdmission}, life: Int]

Quiet == [rel |-> {}, grant |-> {}]

Stages == {"idle", "resolve", "upsert", "attach", "start", "accept", "admit",
           "talk", "leaveTalk", "leavePeer", "refresh", "allow", "grant",
           "request", "off", "cache", "media", "mediaAllow", "mediaCodec",
           "forward"}

(* The sections that begin with a clock read before the mutex is locked.   *)
EarlyClock == {"idle", "resolve", "admit", "start", "talk", "refresh",
               "allow", "request", "mediaAllow"}

TypeOK ==
    /\ peer \in [Addrs -> PeerType]
    /\ talkers \subseteq Senders
    /\ age \in [Senders -> Nat]
    /\ codec \in [Senders -> Addrs \cup {NoAddr}]
    /\ pc \in Stages
    /\ pkt \in PktType \cup {NoPkt}
    /\ (pc # "idle") => (pkt \in PktType)
    /\ late \in [Clocked -> 0..MaxDelay]
    /\ out \in [Threads -> [rel: SUBSET Senders, grant: SUBSET Senders]]
    /\ denied \subseteq Admissions
    /\ target \in [Revokers -> Admissions \cup {NoAdmission}]
    /\ balance \in [Senders -> Int]

Init ==
    /\ peer = [a \in Addrs |-> NoPeer]
    /\ talkers = {}
    /\ age = [s \in Senders |-> 0]
    /\ codec = [s \in Senders |-> NoAddr]
    /\ pc = "idle"
    /\ pkt = NoPkt
    /\ late = [t \in Clocked |-> 0]
    /\ out = [t \in Threads |-> Quiet]
    /\ denied = {}
    /\ target = [r \in Revokers |-> NoAdmission]
    /\ balance = [s \in Senders |-> 0]

-----------------------------------------------------------------------------
(* Helpers.                                                                *)

Present(a) == peer[a].sender # 0

(* channels[id] exists exactly while it has a peer: every removal of the   *)
(* last one deletes the channel in the same critical section.              *)
ChannelExists == \E a \in Addrs : Present(a)

(* The entry at the packet's endpoint still belongs to the packet's sender.*)
SenderMatches == peer[pkt.addr].sender = pkt.sender

ActiveLimit == IF MultiTalk THEN MaxActiveTalkers ELSE 1

(* A deadline was still ahead when goroutine t read its clock.             *)
Ahead(left, t) == left + late[t] > 0

\* Mutant of Expired: the membership lease is not looked at.
ExpiredAdmissionOnly(a, t) ==
    Present(a) /\ peer[a].adm # NoAdmission /\ ~Ahead(peer[a].life, t)

(* membershipExpired, by the clock of goroutine t.                         *)
Expired(a, t) ==
    /\ Present(a)
    /\ \/ peer[a].deadline /\ ~Ahead(peer[a].lease, t)
       \/ peer[a].adm # NoAdmission /\ ~Ahead(peer[a].life, t)

ExpiredAddrs(t) == {a \in Addrs : Expired(a, t)}

TalkOverdue(t) == {s \in talkers : TalkMax > 0 /\ age[s] - late[t] >= TalkMax}

(* Time a membership may last on admission adm with life left on it.       *)
ExpiryDeadline(adm, life) ==
    IF adm.kind = "service" /\ ~adm.talk /\ ~adm.interrupt
    THEN life + adm.grace ELSE life

AllowsTalk(a) ==
    IF peer[a].adm = NoAdmission THEN ~AdmissionRequired
    ELSE Ahead(peer[a].life, "run") /\ peer[a].adm.talk

AllowsInterrupt(a) ==
    /\ peer[a].adm # NoAdmission
    /\ Ahead(peer[a].life, "run")
    /\ peer[a].adm.talk
    /\ peer[a].adm.interrupt
    /\ peer[a].adm.priority # 0

(* The priorities activeTalkerPriority may return for s: that of any entry *)
(* of s whose admission is current, in map order, or 0.                    *)
PrioritiesOf(s) ==
    LET current == {a \in Addrs : /\ peer[a].sender = s
                                  /\ peer[a].adm # NoAdmission
                                  /\ Ahead(peer[a].life, "run")}
    IN IF current = {} THEN {0} ELSE {peer[a].adm.priority : a \in current}

Priorities == {0} \cup {adm.priority : adm \in Admissions}

(* Lowest priority first, lowest sender id among equals.                   *)
Lowest(v, prio) ==
    \A w \in talkers : prio[v] < prio[w] \/ (prio[v] = prio[w] /\ v <= w)

(* The next section of t reads the clock again.                            *)
NewClock(t) == late' = [late EXCEPT ![t] = 0]

Goto(stage) == pc' = stage /\ UNCHANGED pkt /\ NewClock("run")

Finish == pc' = "idle" /\ pkt' = NoPkt /\ NewClock("run")

(* A critical section of the run loop runs once the announcements of the   *)
(* previous one are out.                                                   *)
At(stage) == pc = stage /\ out["run"] = Quiet

SendersAt(gone) == {peer[a].sender : a \in gone}

(* One critical section of goroutine t that removes the entries at gone    *)
(* with the codec configurations of their senders, ends the tenures in     *)
(* ended, and deletes the channel when no entry is left. A talker that is  *)
(* not in ended loses its tenure with the channel, unannounced.            *)
Depart(t, gone, ended) ==
    LET empty  == \A a \in Addrs : Present(a) => a \in gone
        remain == IF empty THEN {} ELSE talkers \ ended
        lost   == talkers \ (remain \cup ended)
    IN /\ peer' = [a \in Addrs |-> IF a \in gone THEN NoPeer ELSE peer[a]]
       /\ talkers' = remain
       /\ age' = [s \in Senders |-> IF s \in remain THEN age[s] ELSE 0]
       /\ codec' = [s \in Senders |->
                       IF empty \/ s \in SendersAt(gone) THEN NoAddr ELSE codec[s]]
       /\ out' = [out EXCEPT ![t].rel = talkers \cap ended]
       /\ balance' = [s \in Senders |->
                         IF s \in lost THEN balance[s] - 1 ELSE balance[s]]

\* Mutant of Release: releases senders that do not have the floor.
ReleaseUnchecked(ended) ==
    /\ talkers' = talkers \ ended
    /\ age' = [s \in Senders |-> IF s \in ended THEN 0 ELSE age[s]]
    /\ out' = [out EXCEPT !["run"].rel = ended]

(* One critical section of the run loop that ends the tenures of ended.    *)
Release(ended) ==
    /\ talkers' = talkers \ ended
    /\ age' = [s \in Senders |-> IF s \in ended THEN 0 ELSE age[s]]
    /\ out' = [out EXCEPT !["run"].rel = talkers \cap ended]

(* Talk time is told apart up to AgeCap, and not at all without a limit.   *)
AgeCap == IF TalkMax = 0 THEN 0 ELSE TalkMax + MaxDelay

StartAge == IF TalkMax = 0 THEN 0 ELSE late["run"]

(* s takes the floor; its talk time counts from the clock of the section.  *)
Grant(s) ==
    /\ talkers' = talkers \cup {s}
    /\ age' = [age EXCEPT ![s] = StartAge]
    /\ out' = [out EXCEPT !["run"].grant = {s}]

-----------------------------------------------------------------------------
(* The run loop.                                                           *)

FirstStage(type) ==
    CASE type = "JOIN"  -> "resolve"
      [] type = "MEDIA" -> "media"
      [] type = "PROOF" -> "admit"
      [] OTHER          -> "accept"

(* A datagram arrives and handlePacket sweeps the expired memberships of   *)
(* its channel. A PING only reads the table after that (touchKnownPeer).   *)
Receive(type, s, a, adm) ==
    /\ At("idle")
    /\ adm # NoAdmission => type \in {"JOIN", "PROOF"} /\ ControlAuth
    /\ type = "PROOF" => adm # NoAdmission
    /\ LET gone == ExpiredAddrs("run") IN Depart("run", gone, SendersAt(gone))
    /\ NewClock("run")
    /\ IF type = "PING"
       THEN UNCHANGED <<pc, pkt>>
       ELSE /\ pc' = FirstStage(type)
            /\ pkt' = [type |-> type, sender |-> s, addr |-> a,
                       adm |-> adm, life |-> adm.life]
    /\ UNCHANGED <<denied, target>>

(* JOIN: resolveJoinAdmission, called for an authenticated JOIN only. A    *)
(* service admission that was denied or has expired meanwhile is gone from *)
(* the verified set, so the JOIN has none.                                 *)
JoinResolve ==
    /\ At("resolve")
    /\ LET usable   == /\ pkt.adm # NoAdmission
                       /\ Ahead(pkt.life, "run") /\ pkt.adm \notin denied
           required == ControlAuth /\ AdmissionRequired
       IN \/ /\ usable
             /\ Goto("upsert")
          \/ /\ ~usable /\ ~required
             /\ pc' = "upsert"
             /\ pkt' = [pkt EXCEPT !.adm = NoAdmission, !.life = 0]
             /\ NewClock("run")
          \/ /\ ~usable /\ required
             /\ Finish
    /\ UNCHANGED <<peer, talkers, age, codec, out, denied, target, balance>>

(* JOIN: upsertPeer / upsertAuthenticatedPeerWithReplay. An entry already  *)
(* at the endpoint keeps its deadline and admission under the new sender.  *)
JoinUpsert ==
    /\ At("upsert")
    /\ peer' = [peer EXCEPT ![pkt.addr].sender = pkt.sender]
    /\ Goto(IF pkt.adm = NoAdmission THEN "start" ELSE "attach")
    /\ UNCHANGED <<talkers, age, codec, out, denied, target, balance>>

(* PROOF from an endpoint that has joined: the completed flow is consumed  *)
(* (takeVerifiedAdmission) before it is attached.                          *)
AdmitProof ==
    /\ At("admit")
    /\ IF SenderMatches /\ Ahead(pkt.life, "run") /\ pkt.adm \notin denied
       THEN Goto("attach") ELSE Finish
    /\ UNCHANGED <<peer, talkers, age, codec, out, denied, target, balance>>

\* Mutant of CanAttach: the deny rules are not looked at again.
CanAttachUnchecked ==
    /\ SenderMatches
    /\ peer[pkt.addr].adm.kind \in {"none", pkt.adm.kind}

(* setPeerIdentityAdmission / setPeerServiceAdmission: an entry has one    *)
(* kind of admission, and a deny rule or the expiry of the grant since it  *)
(* was consumed still refuses a service admission.                         *)
CanAttach ==
    /\ SenderMatches
    /\ peer[pkt.addr].adm.kind \in {"none", pkt.adm.kind}
    /\ pkt.adm.kind = "service" => pkt.life > 0 /\ pkt.adm \notin denied

\* Mutant of Attach: a JOIN ends before startMembership.
AttachNoStart ==
    /\ At("attach")
    /\ peer' = IF CanAttach
               THEN [peer EXCEPT ![pkt.addr] =
                        [@ EXCEPT !.adm = pkt.adm,
                                  !.life = ExpiryDeadline(pkt.adm, pkt.life)]]
               ELSE peer
    /\ Finish
    /\ UNCHANGED <<talkers, age, codec, out, denied, target, balance>>

Attach ==
    /\ At("attach")
    /\ \/ /\ CanAttach
          /\ peer' = [peer EXCEPT ![pkt.addr] =
                         [@ EXCEPT !.adm = pkt.adm,
                                   !.life = ExpiryDeadline(pkt.adm, pkt.life)]]
          /\ IF pkt.type = "JOIN" THEN Goto("start") ELSE Finish
       \/ /\ ~CanAttach
          /\ Finish
          /\ UNCHANGED peer
    /\ UNCHANGED <<talkers, age, codec, out, denied, target, balance>>

(* JOIN: startMembership sets the first deadline, a lease from its clock.  *)
StartMembership ==
    /\ At("start")
    /\ \/ /\ SenderMatches
          /\ peer' = [peer EXCEPT ![pkt.addr] =
                         [@ EXCEPT !.deadline = TRUE, !.lease = Lease - late["run"]]]
          /\ Goto("talk")
       \/ /\ ~SenderMatches
          /\ Finish
          /\ UNCHANGED peer
    /\ UNCHANGED <<talkers, age, codec, out, denied, target, balance>>

(* Every other control packet must come from the endpoint that joined.     *)
AcceptPeerControl ==
    /\ At("accept")
    /\ IF SenderMatches THEN Goto("talk") ELSE Finish
    /\ UNCHANGED <<peer, talkers, age, codec, out, denied, target, balance>>

TypeStage(type) ==
    CASE type = "LEAVE"        -> "leaveTalk"
      [] type = "KEEPALIVE"    -> "refresh"
      [] type = "PTT_ON"       -> "allow"
      [] type = "PTT_OFF"      -> "refresh"
      [] type = "PTT_REQUEST"  -> "request"
      [] type = "CODEC_CONFIG" -> "cache"
      [] OTHER                 -> "idle"

(* expireTalkIfNeeded, then the switch on the packet type. A JOIN ends     *)
(* here: SERVER_CONFIG and the talk state are only sent.                   *)
ExpireTalk ==
    /\ At("talk")
    /\ Release(TalkOverdue("run"))
    /\ IF pkt.type = "JOIN" THEN Finish ELSE Goto(TypeStage(pkt.type))
    /\ UNCHANGED <<peer, codec, denied, target, balance>>

(* LEAVE: releaseTalkIfNeeded ...                                          *)
LeaveTalk ==
    /\ At("leaveTalk")
    /\ Release({pkt.sender})
    /\ Goto("leavePeer")
    /\ UNCHANGED <<peer, codec, denied, target, balance>>

(* ... and removePeer: the sender's entry at the packet's endpoint, or     *)
(* else any entry of that sender.                                          *)
Leaving ==
    IF SenderMatches THEN {{pkt.addr}}
    ELSE LET others == {a \in Addrs : peer[a].sender = pkt.sender}
         IN IF others = {} THEN {{}} ELSE {{a} : a \in others}

LeavePeer ==
    /\ At("leavePeer")
    /\ \E gone \in Leaving : Depart("run", gone, {})
    /\ Finish
    /\ UNCHANGED <<denied, target>>

(* refreshMembership: a new deadline for a membership that had not expired *)
(* when the clock was read; it may have since, and is then extended all    *)
(* the same. Media is forwarded only when it succeeds.                     *)
Refreshable ==
    /\ SenderMatches
    /\ peer[pkt.addr].deadline
    /\ Ahead(peer[pkt.addr].lease, "run")

AfterRefresh(type, refreshed) ==
    CASE type = "PTT_ON"              -> "grant"
      [] type = "PTT_OFF"             -> "off"
      [] type = "MEDIA" /\ refreshed  -> "forward"
      [] OTHER                        -> "idle"

Refresh ==
    /\ At("refresh")
    /\ peer' = IF Refreshable THEN [peer EXCEPT ![pkt.addr].lease = Lease - late["run"]]
               ELSE peer
    /\ LET next == AfterRefresh(pkt.type, Refreshable)
       IN IF next = "idle" THEN Finish ELSE Goto(next)
    /\ UNCHANGED <<talkers, age, codec, out, denied, target, balance>>

(* PTT_ON: peerAllowsTalk, then refreshMembership, then handlePttOn.       *)
PttAllow ==
    /\ At("allow")
    /\ IF SenderMatches /\ AllowsTalk(pkt.addr) THEN Goto("refresh") ELSE Finish
    /\ UNCHANGED <<peer, talkers, age, codec, out, denied, target, balance>>

\* Mutant of CanGrant: off by one at the limit.
CanGrantOneMore(s) ==
    /\ ChannelExists
    /\ s \notin talkers
    /\ Cardinality(talkers) <= ActiveLimit

(* handlePttOn looks at the floor only, not at the entry of the sender.    *)
CanGrant(s) ==
    /\ ChannelExists
    /\ s \notin talkers
    /\ Cardinality(talkers) < ActiveLimit

\* Mutant of PttOn: a repeated PTT_ON restarts the talk clock.
PttOnRestarts ==
    /\ At("grant")
    /\ IF CanGrant(pkt.sender) \/ pkt.sender \in talkers
       THEN /\ talkers' = talkers \cup {pkt.sender}
            /\ age' = [age EXCEPT ![pkt.sender] = 0]
       ELSE UNCHANGED <<talkers, age>>
    /\ Finish
    /\ UNCHANGED <<peer, codec, out, denied, target, balance>>

PttOn ==
    /\ At("grant")
    /\ IF CanGrant(pkt.sender) THEN Grant(pkt.sender)
       ELSE UNCHANGED <<talkers, age, out>>
    /\ Finish
    /\ UNCHANGED <<peer, codec, denied, target, balance>>

(* PTT_OFF, after the refresh: handlePttOff.                               *)
PttOff ==
    /\ At("off")
    /\ Release({pkt.sender})
    /\ Finish
    /\ UNCHANGED <<peer, codec, denied, target, balance>>

(* PTT_REQUEST: handlePttRequest decides in one critical section.          *)
InterruptAuthorized ==
    /\ FloorInterrupt /\ AdmissionRequired /\ ControlAuth
    /\ Refreshable
    /\ AllowsInterrupt(pkt.addr)

RequestDenied ==
    /\ At("request")
    /\ ~InterruptAuthorized
    /\ Finish
    /\ UNCHANGED <<peer, talkers, age, codec, out, denied, target, balance>>

RequestHeld ==
    /\ At("request")
    /\ InterruptAuthorized
    /\ pkt.sender \in talkers
    /\ Goto("refresh")
    /\ UNCHANGED <<peer, talkers, age, codec, out, denied, target, balance>>

RequestGranted ==
    /\ At("request")
    /\ InterruptAuthorized
    /\ CanGrant(pkt.sender)
    /\ Grant(pkt.sender)
    /\ Goto("refresh")
    /\ UNCHANGED <<peer, codec, denied, target, balance>>

\* Mutant of Preempts: an equal priority is enough.
PreemptsEqual(prio, victim) == peer[pkt.addr].adm.priority >= prio[victim]

(* A full floor: the lowest-priority talker goes when the requester's      *)
(* priority is strictly higher, and otherwise the request is denied.       *)
Preempts(prio, victim) == peer[pkt.addr].adm.priority > prio[victim]

RequestFull ==
    /\ At("request")
    /\ InterruptAuthorized
    /\ pkt.sender \notin talkers
    /\ Cardinality(talkers) >= ActiveLimit
    /\ \E prio \in [talkers -> Priorities], victim \in talkers :
         /\ \A s \in talkers : prio[s] \in PrioritiesOf(s)
         /\ Lowest(victim, prio)
         /\ IF Preempts(prio, victim)
            THEN /\ talkers' = (talkers \ {victim}) \cup {pkt.sender}
                 /\ age' = [age EXCEPT ![victim] = 0, ![pkt.sender] = StartAge]
                 /\ out' = [out EXCEPT !["run"] = [rel   |-> {victim},
                                                   grant |-> {pkt.sender}]]
            ELSE UNCHANGED <<talkers, age, out>>
    /\ Goto("refresh")
    /\ UNCHANGED <<peer, codec, denied, target, balance>>

(* CODEC_CONFIG: cacheCodecConfig stores by sender id, if the channel is   *)
(* still there; the model remembers which endpoint published it.           *)
CacheCodec ==
    /\ At("cache")
    /\ \/ /\ ChannelExists
          /\ codec' = [codec EXCEPT ![pkt.sender] = pkt.addr]
          /\ Goto("refresh")
       \/ /\ ~ChannelExists
          /\ Finish
          /\ UNCHANGED codec
    /\ UNCHANGED <<peer, talkers, age, out, denied, target, balance>>

(* AUDIO / FEC: handleMediaPacket.                                         *)
MediaTalker ==
    /\ At("media")
    /\ IF SenderMatches /\ pkt.sender \in talkers THEN Goto("mediaAllow") ELSE Finish
    /\ UNCHANGED <<peer, talkers, age, codec, out, denied, target, balance>>

MediaAllow ==
    /\ At("mediaAllow")
    /\ IF SenderMatches /\ AllowsTalk(pkt.addr)
       THEN Goto(IF ControlAuth THEN "mediaCodec" ELSE "refresh") ELSE Finish
    /\ UNCHANGED <<peer, talkers, age, codec, out, denied, target, balance>>

MediaCodec ==
    /\ At("mediaCodec")
    /\ IF SenderMatches /\ codec[pkt.sender] # NoAddr THEN Goto("refresh") ELSE Finish
    /\ UNCHANGED <<peer, talkers, age, codec, out, denied, target, balance>>

(* broadcastExceptAddr only reads the table.                               *)
Forward ==
    /\ At("forward")
    /\ Finish
    /\ UNCHANGED <<peer, talkers, age, codec, out, denied, target, balance>>

-----------------------------------------------------------------------------
(* The other goroutines.                                                   *)

(* cleanupLoop: one critical section per tick of its timer.                *)
CleanupSweep ==
    /\ out["cleanup"] = Quiet
    /\ LET gone == ExpiredAddrs("cleanup")
       IN Depart("cleanup", gone, SendersAt(gone) \cup TalkOverdue("cleanup"))
    /\ NewClock("cleanup")
    /\ UNCHANGED <<pc, pkt, denied, target>>

(* revokeManagedServiceAdmission: the deny rule first (installRevocation   *)
(* fails when the bounded set is full) ...                                 *)
RevokeInstall(r, adm) ==
    /\ adm.kind = "service"
    /\ target[r] = NoAdmission
    /\ out[r] = Quiet
    /\ adm \in denied \/ Cardinality(denied) < MaxDenyRules
    /\ denied' = denied \cup {adm}
    /\ target' = [target EXCEPT ![r] = adm]
    /\ UNCHANGED <<peer, talkers, age, codec, pc, pkt, late, out, balance>>

\* Mutant of RevokeSweep: the talker is not released.
RevokeKeepsTalk(r) ==
    /\ target[r] # NoAdmission
    /\ Depart(r, {a \in Addrs : Present(a) /\ peer[a].adm = target[r]}, {})
    /\ target' = [target EXCEPT ![r] = NoAdmission]
    /\ UNCHANGED <<pc, pkt, late, denied>>

(* ... then the memberships that match it.                                 *)
RevokeSweep(r) ==
    /\ target[r] # NoAdmission
    /\ LET gone == {a \in Addrs : Present(a) /\ peer[a].adm = target[r]}
       IN Depart(r, gone, SendersAt(gone))
    /\ target' = [target EXCEPT ![r] = NoAdmission]
    /\ UNCHANGED <<pc, pkt, late, denied>>

(* The deadline of a deny rule passes; cleanupLocked drops the rule.       *)
DenyExpires(adm) ==
    /\ denied' = denied \ {adm}
    /\ UNCHANGED <<peer, talkers, age, codec, pc, pkt, late, out, target, balance>>

(* Goroutine t makes its next announcement: the releases, which the run    *)
(* loop and cleanupLoop sort and a revocation has in map order, then the   *)
(* grant.                                                                  *)
AnnounceRelease(t) ==
    /\ \E s \in out[t].rel :
         /\ t \notin Revokers => \A other \in out[t].rel : s <= other
         /\ out' = [out EXCEPT ![t].rel = @ \ {s}]
         /\ balance' = [balance EXCEPT ![s] = @ - 1]
    /\ UNCHANGED <<peer, talkers, age, codec, pc, pkt, late, denied, target>>

AnnounceGrant(t) ==
    /\ out[t].rel = {}
    /\ \E s \in out[t].grant :
         /\ out' = [out EXCEPT ![t].grant = @ \ {s}]
         /\ balance' = [balance EXCEPT ![s] = @ + 1]
    /\ UNCHANGED <<peer, talkers, age, codec, pc, pkt, late, denied, target>>

(* Time left to a deadline, if one is set, a tick later. A section may     *)
(* still go by a clock it read MaxDelay ago; beyond that all deadlines     *)
(* that have passed are alike.                                             *)
Less(isSet, n) == IF isSet /\ n > -MaxDelay THEN n - 1 ELSE n

(* t has nothing left to announce and is at a section that reads its clock *)
(* before the mutex.                                                       *)
MayWait(t) == out[t] = Quiet /\ (t = "run" => pc \in EarlyClock)

(* How late the clock of t may be after a tick: it had read it before the  *)
(* tick, or reads it after.                                                *)
LateAfterTick(t) ==
    {0} \cup {n \in {late[t] + 1} : MayWait(t) /\ n <= MaxDelay}

(* One unit of time passes.                                                *)
Tick ==
    /\ peer' = [a \in Addrs |->
                   [peer[a] EXCEPT !.lease = Less(peer[a].deadline, @),
                                   !.life = Less(peer[a].adm # NoAdmission, @)]]
    /\ age' = [s \in Senders |-> IF s \in talkers /\ age[s] < AgeCap
                                THEN age[s] + 1 ELSE age[s]]
    /\ pkt' = [pkt EXCEPT !.life = Less(pkt.adm # NoAdmission, @)]
    /\ \E run \in LateAfterTick("run"), cleanup \in LateAfterTick("cleanup") :
         late' = [late EXCEPT !["run"] = run, !["cleanup"] = cleanup]
    /\ UNCHANGED <<talkers, codec, pc, out, denied, target, balance>>

-----------------------------------------------------------------------------
RunStep ==
    \/ JoinResolve \/ JoinUpsert \/ AdmitProof \/ Attach \/ StartMembership
    \/ AcceptPeerControl \/ ExpireTalk \/ LeaveTalk \/ LeavePeer \/ Refresh
    \/ PttAllow \/ PttOn \/ PttOff
    \/ RequestDenied \/ RequestHeld \/ RequestGranted \/ RequestFull
    \/ CacheCodec \/ MediaTalker \/ MediaAllow \/ MediaCodec \/ Forward

Announce(t) == AnnounceRelease(t) \/ AnnounceGrant(t)

Next ==
    \/ \E type \in Packets, client \in Clients,
          adm \in Admissions \cup {NoAdmission} :
          Receive(type, client[1], client[2], adm)
    \/ RunStep
    \/ CleanupSweep
    \/ \E r \in Revokers, adm \in Admissions : RevokeInstall(r, adm)
    \/ \E r \in Revokers : RevokeSweep(r)
    \/ \E adm \in denied : DenyExpires(adm)
    \/ \E t \in Threads : Announce(t)
    \/ Tick

Spec == Init /\ [][Next]_vars

(* The goroutines are never blocked for good: the run loop goes on with    *)
(* the datagram it has, the ticker of cleanupLoop fires, a command         *)
(* goroutine runs to its end, and time passes. Clients owe nothing.        *)
Fairness ==
    /\ WF_vars(RunStep)
    /\ WF_vars(CleanupSweep)
    /\ \A r \in Revokers : WF_vars(RevokeSweep(r))
    /\ \A t \in Threads : WF_vars(Announce(t))
    /\ WF_vars(Tick)

FairSpec == Spec /\ Fairness

-----------------------------------------------------------------------------
(* Safety.                                                                 *)

(* The floor never has more talkers than the channel's limit, whatever     *)
(* grant, preemption and release of the goroutines interleave              *)
(* (handlePttOn, handlePttRequest).                                        *)
FloorLimit == Cardinality(talkers) <= ActiveLimit

(* The goroutines that still owe an announcement about s.                  *)
Owing(s, kind) == {t \in Threads : s \in out[t][kind]}

(* Every tenure of the floor is announced by one grant and ended by one    *)
(* release, by whichever goroutine ended it: counting the announcements    *)
(* still owed, the grants exceed the ended tenures of s by one while s is  *)
(* an active talker and are equal otherwise. (No lost TALK_RELEASE, no     *)
(* double one from the run loop and cleanupLoop.)                          *)
AnnouncementsBalanced ==
    \A s \in Senders :
        balance[s] + Cardinality(Owing(s, "grant")) - Cardinality(Owing(s, "rel"))
            = (IF s \in talkers THEN 1 ELSE 0)

(* revokeManagedServiceAdmission installs its deny rule before it removes  *)
(* memberships "so a racing admission flow fails closed": while the rule   *)
(* stands and no revoker still has to sweep for it, no entry lives on the  *)
(* denied admission, however JOIN and PROOF steps interleave.              *)
RevocationFailsClosed ==
    \A a \in Addrs :
        peer[a].adm \in denied => \E r \in Revokers : target[r] = peer[a].adm

(* Between two packets every entry of the table has a membership deadline, *)
(* so that it can expire (upsert, attach and startMembership of a JOIN are *)
(* three critical sections, and each may give up).                         *)
JoinedPeersHaveDeadline ==
    pc = "idle" => \A a \in Addrs : Present(a) => peer[a].deadline

(* Between two packets, a CODEC_CONFIG cached for the sender id of a peer  *)
(* came from an endpoint that has this sender id: "a later endpoint that   *)
(* receives the same sender ID must publish a fresh configuration before   *)
(* its media can be accepted or replayed downstream" (removePeer). The     *)
(* code does not keep this: a second JOIN of an endpoint under another     *)
(* sender id leaves the configuration of the former id in place.           *)
CodecFromCurrentEndpoint ==
    pc = "idle" =>
        \A a \in Addrs :
            LET s == peer[a].sender IN
            Present(a) /\ codec[s] # NoAddr => peer[codec[s]].sender = s

(* Nothing is under way: no packet, no announcement owed, no expired entry *)
(* left to sweep, no revocation.                                           *)
AtRest ==
    /\ pc = "idle"
    /\ \A t \in Threads : out[t] = Quiet
    /\ late["run"] = 0 /\ ExpiredAddrs("run") = {}
    /\ \A r \in Revokers : target[r] = NoAdmission

(* Identity Admission "required" denies PTT "until the endpoint has a      *)
(* current admission": when nothing is under way, every active talker is   *)
(* an endpoint in the table whose admission lets it talk. The code does    *)
(* not keep this: the membership may end between the checks of PTT_ON and  *)
(* the grant, and handlePttOn does not look at it again.                   *)
FloorHolderAdmitted ==
    AdmissionRequired /\ AtRest =>
        \A s \in talkers : \E a \in Addrs : peer[a].sender = s /\ AllowsTalk(a)

-----------------------------------------------------------------------------
(* The abstract floor.                                                     *)

F == INSTANCE Floor WITH
        Limit    <- ActiveLimit,
        holders  <- talkers,
        grants   <- [s \in Senders |-> Cardinality(Owing(s, "grant"))],
        releases <- [s \in Senders |-> Cardinality(Owing(s, "rel"))],
        shown    <- balance

(* Relay implements Floor: whatever the run loop, cleanupLoop and the      *)
(* revocation goroutines do between them, a step that changes the floor    *)
(* takes a free place, exchanges one talker for another, ends tenures or   *)
(* deletes the channel, and owes exactly the announcements that go with    *)
(* it; no announcement is made twice or for a tenure that was not.         *)
ImplementsFloor == F!FloorSpec

-----------------------------------------------------------------------------
(* What a step may never do.                                               *)

(* A talker loses the floor without an announced release only when it had  *)
(* no entry left and the channel itself is deleted.                        *)
FloorLossAnnounced ==
    [][\A s \in talkers \ talkers' :
         \/ \E t \in Threads : s \in out'[t].rel \ out[t].rel
         \/ (\A a \in Addrs : peer[a].sender # s) /\ ~ChannelExists']_vars

(* A talker is replaced only by a requester that, by the clock its handler *)
(* read, has a live membership and a current interrupt admission of        *)
(* strictly higher priority; the talker replaced is one of lowest          *)
(* priority, and it is the only one (handlePttRequest).                    *)
PreemptionLawful ==
    [][\A s \in talkers' \ talkers, v \in talkers \ talkers' :
         /\ talkers \ talkers' = {v}
         /\ \E a \in Addrs :
              /\ peer[a].sender = s
              /\ peer[a].deadline /\ Ahead(peer[a].lease, "run")
              /\ AllowsInterrupt(a)
              /\ \E p \in PrioritiesOf(v) :
                   /\ p < peer[a].adm.priority
                   /\ \A w \in talkers : \E q \in PrioritiesOf(w) :
                        p < q \/ (p = q /\ v <= w)]_vars

-----------------------------------------------------------------------------
(* Liveness.                                                               *)

(* With a talk limit nobody keeps the floor for ever: a repeated PTT_ON    *)
(* does not restart the clock (handlePttOn) and cleanupLoop ends the       *)
(* tenure even when the talker has no entry in the table any more.         *)
TalkTimeLimited ==
    TalkMax > 0 => \A s \in Senders : s \in talkers ~> s \notin talkers

(* A membership is refreshed, within the wait for the mutex of now, or     *)
(* else removed by expiry.                                                 *)
MembershipExpires ==
    \A a \in Addrs :
        peer[a].deadline ~> (~Present(a) \/ peer[a].lease >= Lease - MaxDelay)
=============================================================================
