---------------------------- MODULE RelayProofs ----------------------------
(***************************************************************************)
(* Proofs about Relay for every set of senders, endpoints and revokers,    *)
(* every limit, lease and admission: its invariants, that it implements    *)
(* Floor, and what Floor promises about announcements, which Relay         *)
(* therefore keeps.                                                        *)
(***************************************************************************)
EXTENDS Relay, FiniteSetTheorems, TLAPS

(* NoAdmission and NoPeer are what the tables hold for "nothing".          *)
LEMMA NoPeerType == NoPeer \in PeerType
  BY DEF NoPeer, PeerType, NoAdmission

(* What the handlers write into an entry.                                  *)
LEMMA PeerUpdateType ==
  ASSUME NEW p \in PeerType, NEW lease \in Int, NEW life \in Int,
         NEW adm \in Admissions \cup {NoAdmission}
  PROVE  /\ [p EXCEPT !.deadline = TRUE, !.lease = lease] \in PeerType
         /\ [p EXCEPT !.adm = adm, !.life = life] \in PeerType
         /\ [p EXCEPT !.lease = lease, !.life = life] \in PeerType
  BY DEF PeerType

(* A membership deadline is a time.                                        *)
LEMMA ExpiryDeadlineType ==
  ASSUME NEW adm \in Admissions \cup {NoAdmission}, NEW life \in Int
  PROVE  ExpiryDeadline(adm, life) \in Int
  BY RelayAssumption DEF ExpiryDeadline, AdmissionType, NoAdmission

(* So is what an admission has left.                                       *)
LEMMA AdmissionLife ==
  ASSUME NEW adm \in Admissions \cup {NoAdmission}
  PROVE  adm.life \in Nat
  BY RelayAssumption DEF AdmissionType, NoAdmission

(* A tick later it still is.                                               *)
LEMMA LessType ==
  ASSUME NEW isSet, NEW n \in Int
  PROVE  Less(isSet, n) \in Int
  BY RelayAssumption DEF Less

(* The clock of a section is a bounded time ago.                           *)
LEMMA LateType ==
  ASSUME TypeOK, NEW t \in Clocked
  PROVE  late[t] \in Nat /\ late[t] <= MaxDelay
  BY RelayAssumption DEF TypeOK

(* The lease that a packet gives is a time.                                *)
LEMMA NewLeaseType ==
  ASSUME TypeOK
  PROVE  Lease - late["run"] \in Int
  <1>1. late["run"] \in Nat
    BY LateType DEF Clocked
  <1>2. QED
    BY <1>1, RelayAssumption

(* So is the talk time it starts with.                                     *)
LEMMA StartAgeType ==
  ASSUME TypeOK
  PROVE  StartAge \in Nat
  <1>1. late["run"] \in Nat
    BY LateType DEF Clocked
  <1>2. QED
    BY <1>1 DEF StartAge

(* A new reading of the clock.                                             *)
LEMMA NewClockType ==
  ASSUME TypeOK, NEW t, NewClock(t)
  PROVE  late' \in [Clocked -> 0..MaxDelay]
  <1>1. 0 \in 0..MaxDelay
    BY RelayAssumption
  <1>2. late' = [late EXCEPT ![t] = 0] /\ late \in [Clocked -> 0..MaxDelay]
    BY DEF NewClock, TypeOK
  <1>3. QED
    BY <1>1, <1>2

(* The bookkeeping of a departure keeps its tables well typed.             *)
LEMMA DepartType ==
  ASSUME TypeOK, NEW t \in Threads, NEW gone \in SUBSET Addrs,
         NEW ended, Depart(t, gone, ended)
  PROVE  /\ peer' \in [Addrs -> PeerType]
         /\ talkers' \subseteq Senders
         /\ age' \in [Senders -> Nat]
         /\ codec' \in [Senders -> Addrs \cup {NoAddr}]
         /\ out' \in [Threads -> [rel: SUBSET Senders, grant: SUBSET Senders]]
         /\ balance' \in [Senders -> Int]
  <1>1. peer' \in [Addrs -> PeerType]
    BY NoPeerType DEF Depart, TypeOK
  <1>2. talkers' \subseteq Senders
    BY DEF Depart, TypeOK
  <1>3. age' \in [Senders -> Nat]
    BY DEF Depart, TypeOK
  <1>4. codec' \in [Senders -> Addrs \cup {NoAddr}]
    BY DEF Depart, TypeOK
  <1>5. out' \in [Threads -> [rel: SUBSET Senders, grant: SUBSET Senders]]
    BY DEF Depart, TypeOK
  <1>6. balance' \in [Senders -> Int]
    BY DEF Depart, TypeOK
  <1>7. QED
    BY <1>1, <1>2, <1>3, <1>4, <1>5, <1>6

-----------------------------------------------------------------------------
(* Type correctness.                                                       *)

(* The types hold initially.                                               *)
LEMMA InitType == Init => TypeOK
  BY RelayAssumption, NoPeerType
  DEF Init, TypeOK, Quiet, Stages

(* The sweep at the arrival of a packet keeps the types.                   *)
LEMMA ReceiveType ==
  ASSUME TypeOK, NEW type \in Packets, NEW client \in Clients,
         NEW adm \in Admissions \cup {NoAdmission},
         Receive(type, client[1], client[2], adm)
  PROVE  TypeOK'
  <1>1. ExpiredAddrs("run") \in SUBSET Addrs /\ "run" \in Threads
    BY DEF ExpiredAddrs, Threads
  <1>2. Depart("run", ExpiredAddrs("run"), SendersAt(ExpiredAddrs("run")))
    BY DEF Receive
  <1>3. UNCHANGED <<denied, target>> /\ late' \in [Clocked -> 0..MaxDelay]
    BY NewClockType DEF Receive
  <1>4. client[1] \in Senders /\ client[2] \in Addrs /\ type \in PacketTypes
    BY RelayAssumption
  <1>5. FirstStage(type) \in Stages
    BY DEF FirstStage, Stages
  <1>6. /\ pc' \in Stages
        /\ pkt' \in PktType \cup {NoPkt}
        /\ (pc' # "idle") => (pkt' \in PktType)
    <2>1. CASE type = "PING"
      BY <2>1 DEF Receive, At, TypeOK
    <2>2. CASE type # "PING"
      BY <2>2, <1>4, <1>5, AdmissionLife DEF Receive, PktType
    <2>3. QED BY <2>1, <2>2
  <1>7. QED
    BY <1>1, <1>2, <1>3, <1>6, DepartType DEF TypeOK

(* Stages that leave the floor, the codec table, the announcements, the    *)
(* rules and the targets alone: the entry and the packet decide.           *)
LEMMA JoinType ==
  ASSUME TypeOK,
         \/ JoinResolve \/ JoinUpsert \/ AdmitProof \/ Attach
         \/ StartMembership \/ AcceptPeerControl \/ Refresh
  PROVE  TypeOK'
  <1>1. CASE JoinResolve
    <2>1. pkt \in PktType
      BY <1>1 DEF JoinResolve, At, TypeOK
    <2>2. [pkt EXCEPT !.adm = NoAdmission, !.life = 0] \in PktType
      <3>1. 0 \in Int /\ NoAdmission \in Admissions \cup {NoAdmission}
        OBVIOUS
      <3>2. QED
        BY <2>1, <3>1 DEF PktType
    <2>3. QED
      BY <1>1, <2>1, <2>2, NewClockType DEF JoinResolve, Goto, Finish, TypeOK, Stages
  <1>2. CASE JoinUpsert
    BY <1>2, NewClockType DEF JoinUpsert, At, Goto, TypeOK, PktType, PeerType, Stages
  <1>3. CASE AdmitProof
    BY <1>3, NewClockType DEF AdmitProof, At, Goto, Finish, TypeOK, Stages
  <1>4. CASE Attach
    <2>1. pkt \in PktType
      BY <1>4 DEF Attach, At, TypeOK
    <2>2. ExpiryDeadline(pkt.adm, pkt.life) \in Int
      BY <2>1, ExpiryDeadlineType DEF PktType
    <2>3. [peer[pkt.addr] EXCEPT !.adm = pkt.adm,
                                 !.life = ExpiryDeadline(pkt.adm, pkt.life)]
             \in PeerType
      BY <2>1, <2>2, PeerUpdateType DEF TypeOK, PktType
    <2>4. [peer EXCEPT ![pkt.addr] =
             [@ EXCEPT !.adm = pkt.adm, !.life = ExpiryDeadline(pkt.adm, pkt.life)]]
             \in [Addrs -> PeerType]
      BY <2>1, <2>3 DEF TypeOK, PktType
    <2>5. QED
      BY <1>4, <2>1, <2>4, NewClockType DEF Attach, Goto, Finish, TypeOK, Stages
  <1>5. CASE StartMembership
    <2>1. pkt \in PktType /\ pkt.addr \in Addrs
      BY <1>5 DEF StartMembership, At, TypeOK, PktType
    <2>2. [peer[pkt.addr] EXCEPT !.deadline = TRUE, !.lease = Lease - late["run"]] \in PeerType
      BY <2>1, NewLeaseType, PeerUpdateType DEF TypeOK
    <2>3. [peer EXCEPT ![pkt.addr] = [@ EXCEPT !.deadline = TRUE, !.lease = Lease - late["run"]]]
             \in [Addrs -> PeerType]
      BY <2>1, <2>2 DEF TypeOK
    <2>4. QED
      BY <1>5, <2>1, <2>3, NewClockType DEF StartMembership, Goto, Finish, TypeOK, Stages
  <1>6. CASE AcceptPeerControl
    BY <1>6, NewClockType DEF AcceptPeerControl, At, Goto, Finish, TypeOK, Stages
  <1>7. CASE Refresh
    <2>1. AfterRefresh(pkt.type, Refreshable) \in Stages
      BY DEF AfterRefresh, Stages
    <2>2. peer' \in [Addrs -> PeerType]
      <3>1. pkt.addr \in Addrs
        BY <1>7 DEF Refresh, At, TypeOK, PktType
      <3>2. [peer[pkt.addr] EXCEPT !.lease = Lease - late["run"]] \in PeerType
        BY <3>1, NewLeaseType DEF TypeOK, PeerType
      <3>3. [peer EXCEPT ![pkt.addr].lease = Lease - late["run"]] \in [Addrs -> PeerType]
        BY <3>1, <3>2 DEF TypeOK
      <3>4. QED
        BY <1>7, <3>3 DEF Refresh, TypeOK
    <2>3. QED
      BY <1>7, <2>1, <2>2, NewClockType DEF Refresh, At, Goto, Finish, TypeOK, Stages
  <1>8. QED
    BY <1>1, <1>2, <1>3, <1>4, <1>5, <1>6, <1>7

(* A release keeps the types.                                              *)
LEMMA ReleaseType ==
  ASSUME TypeOK, NEW ended, Release(ended)
  PROVE  /\ talkers' \subseteq Senders
         /\ age' \in [Senders -> Nat]
         /\ out' \in [Threads -> [rel: SUBSET Senders, grant: SUBSET Senders]]
  BY DEF Release, TypeOK, Threads

(* A grant does.                                                           *)
LEMMA GrantType ==
  ASSUME TypeOK, NEW s \in Senders, Grant(s)
  PROVE  /\ talkers' \subseteq Senders
         /\ age' \in [Senders -> Nat]
         /\ out' \in [Threads -> [rel: SUBSET Senders, grant: SUBSET Senders]]
  BY StartAgeType DEF Grant, TypeOK, Threads

(* The floor steps of the run loop keep the types.                         *)
LEMMA FloorType ==
  ASSUME TypeOK,
         \/ ExpireTalk \/ LeaveTalk \/ LeavePeer \/ PttAllow \/ PttOn \/ PttOff
         \/ RequestDenied \/ RequestHeld \/ RequestGranted \/ RequestFull
  PROVE  TypeOK'
  <1>1. CASE ExpireTalk
    <2>1. TypeStage(pkt.type) \in Stages
      BY DEF TypeStage, Stages
    <2>2. QED
      BY <1>1, <2>1, ReleaseType, NewClockType DEF ExpireTalk, At, Goto, Finish, TypeOK, Stages
  <1>2. CASE LeaveTalk
    BY <1>2, ReleaseType, NewClockType DEF LeaveTalk, At, Goto, TypeOK, Stages
  <1>3. CASE LeavePeer
    <2>1. PICK gone \in Leaving : Depart("run", gone, {})
      BY <1>3 DEF LeavePeer
    <2>2. gone \in SUBSET Addrs /\ "run" \in Threads
      <3>1. pkt.addr \in Addrs
        BY <1>3 DEF LeavePeer, At, TypeOK, PktType
      <3>2. QED
        BY <3>1 DEF Leaving, Threads
    <2>3. QED
      BY <1>3, <2>1, <2>2, DepartType, NewClockType DEF LeavePeer, Finish, TypeOK, Stages
  <1>4. CASE PttAllow
    BY <1>4, NewClockType DEF PttAllow, At, Goto, Finish, TypeOK, Stages
  <1>5. CASE PttOn
    <2>1. pkt.sender \in Senders
      BY <1>5 DEF PttOn, At, TypeOK, PktType
    <2>2. QED
      BY <1>5, <2>1, GrantType, NewClockType DEF PttOn, Finish, TypeOK, Stages
  <1>6. CASE PttOff
    BY <1>6, ReleaseType, NewClockType DEF PttOff, Finish, TypeOK, Stages
  <1>7. CASE RequestDenied
    BY <1>7, NewClockType DEF RequestDenied, Finish, TypeOK, Stages
  <1>8. CASE RequestHeld
    BY <1>8, NewClockType DEF RequestHeld, At, Goto, TypeOK, Stages
  <1>9. CASE RequestGranted
    <2>1. pkt.sender \in Senders
      BY <1>9 DEF RequestGranted, At, TypeOK, PktType
    <2>2. QED
      BY <1>9, <2>1, GrantType, NewClockType DEF RequestGranted, At, Goto, TypeOK, Stages
  <1>10. CASE RequestFull
    <2>1. pkt.sender \in Senders
      BY <1>10 DEF RequestFull, At, TypeOK, PktType
    <2>2. PICK victim \in talkers :
             \/ /\ talkers' = (talkers \ {victim}) \cup {pkt.sender}
                /\ age' = [age EXCEPT ![victim] = 0, ![pkt.sender] = StartAge]
                /\ out' = [out EXCEPT !["run"] = [rel   |-> {victim},
                                                  grant |-> {pkt.sender}]]
             \/ UNCHANGED <<talkers, age, out>>
      BY <1>10, Zenon DEF RequestFull
    <2>3. /\ talkers' \subseteq Senders
          /\ age' \in [Senders -> Nat]
      BY <2>1, <2>2, StartAgeType DEF TypeOK
    <2>4. out' \in [Threads -> [rel: SUBSET Senders, grant: SUBSET Senders]]
      <3>1. [rel |-> {victim}, grant |-> {pkt.sender}]
               \in [rel: SUBSET Senders, grant: SUBSET Senders]
        BY <2>1 DEF TypeOK
      <3>2. QED
        BY <2>2, <3>1 DEF TypeOK
    <2>5. QED
      BY <1>10, <2>3, <2>4, NewClockType DEF RequestFull, At, Goto, TypeOK, Stages
  <1>11. QED
    BY <1>1, <1>2, <1>3, <1>4, <1>5, <1>6, <1>7, <1>8, <1>9, <1>10

(* The media and codec steps do.                                           *)
LEMMA MediaType ==
  ASSUME TypeOK,
         \/ CacheCodec \/ MediaTalker \/ MediaAllow \/ MediaCodec \/ Forward
  PROVE  TypeOK'
  <1>1. CASE CacheCodec
    BY <1>1, NewClockType DEF CacheCodec, At, Goto, Finish, TypeOK, PktType, Stages
  <1>2. CASE MediaTalker
    BY <1>2, NewClockType DEF MediaTalker, At, Goto, Finish, TypeOK, Stages
  <1>3. CASE MediaAllow
    BY <1>3, NewClockType DEF MediaAllow, At, Goto, Finish, TypeOK, Stages
  <1>4. CASE MediaCodec
    BY <1>4, NewClockType DEF MediaCodec, At, Goto, Finish, TypeOK, Stages
  <1>5. CASE Forward
    BY <1>5, NewClockType DEF Forward, Finish, TypeOK, Stages
  <1>6. QED
    BY <1>1, <1>2, <1>3, <1>4, <1>5

(* The other goroutines and the clock do.                                  *)
LEMMA OthersType ==
  ASSUME TypeOK,
         \/ CleanupSweep
         \/ \E r \in Revokers, adm \in Admissions : RevokeInstall(r, adm)
         \/ \E r \in Revokers : RevokeSweep(r)
         \/ \E adm \in denied : DenyExpires(adm)
         \/ \E t \in Threads : Announce(t)
         \/ Tick
  PROVE  TypeOK'
  <1>1. CASE CleanupSweep
    <2>1. ExpiredAddrs("cleanup") \in SUBSET Addrs /\ "cleanup" \in Threads
      BY DEF ExpiredAddrs, Threads
    <2>2. QED
      BY <1>1, <2>1, DepartType, NewClockType DEF CleanupSweep, TypeOK
  <1>2. ASSUME NEW r \in Revokers, NEW adm \in Admissions, RevokeInstall(r, adm)
        PROVE  TypeOK'
    BY <1>2 DEF RevokeInstall, TypeOK
  <1>3. ASSUME NEW r \in Revokers, RevokeSweep(r)
        PROVE  TypeOK'
    <2> DEFINE gone == {a \in Addrs : Present(a) /\ peer[a].adm = target[r]}
    <2>1. gone \in SUBSET Addrs /\ r \in Threads
      BY DEF Threads
    <2>2. Depart(r, gone, SendersAt(gone))
      BY <1>3 DEF RevokeSweep
    <2>3. /\ UNCHANGED <<pc, pkt, late, denied>>
          /\ target' = [target EXCEPT ![r] = NoAdmission]
      BY <1>3 DEF RevokeSweep
    <2> HIDE DEF gone
    <2>4. QED
      BY <2>1, <2>2, <2>3, DepartType DEF TypeOK
  <1>4. ASSUME NEW adm \in denied, DenyExpires(adm)
        PROVE  TypeOK'
    BY <1>4 DEF DenyExpires, TypeOK
  <1>5. ASSUME NEW t \in Threads, Announce(t)
        PROVE  TypeOK'
    <2>1. CASE AnnounceRelease(t)
      BY <2>1 DEF AnnounceRelease, TypeOK
    <2>2. CASE AnnounceGrant(t)
      BY <2>2 DEF AnnounceGrant, TypeOK
    <2>3. QED
      BY <1>5, <2>1, <2>2 DEF Announce
  <1>6. CASE Tick
    <2>1. peer' \in [Addrs -> PeerType]
      <3>1. ASSUME NEW p \in PeerType, NEW left \in BOOLEAN, NEW admitted \in BOOLEAN
            PROVE  [p EXCEPT !.lease = Less(left, p.lease), !.life = Less(admitted, p.life)]
                      \in PeerType
        <4>1. Less(left, p.lease) \in Int /\ Less(admitted, p.life) \in Int
          BY LessType DEF PeerType
        <4>2. QED
          BY <4>1, PeerUpdateType
      <3>2. peer' = [a \in Addrs |->
                       [peer[a] EXCEPT !.lease = Less(peer[a].deadline, peer[a].lease),
                                       !.life = Less(peer[a].adm # NoAdmission, peer[a].life)]]
        BY <1>6, Zenon DEF Tick
      <3>3. ASSUME NEW a \in Addrs
            PROVE  /\ peer[a] \in PeerType
                   /\ peer[a].deadline \in BOOLEAN
                   /\ (peer[a].adm # NoAdmission) \in BOOLEAN
        BY DEF TypeOK, PeerType
      <3>4. QED
        BY <3>1, <3>2, <3>3, Zenon DEF TypeOK
    <2>2. age' \in [Senders -> Nat]
      <3>1. age' = [s \in Senders |-> IF s \in talkers /\ age[s] < AgeCap
                                     THEN age[s] + 1 ELSE age[s]]
        BY <1>6, Zenon DEF Tick
      <3>2. QED
        BY <3>1 DEF TypeOK
    <2>3. pkt' \in PktType \cup {NoPkt} /\ ((pc # "idle") => (pkt' \in PktType))
      <3>1. pkt' = [pkt EXCEPT !.life = Less(pkt.adm # NoAdmission, pkt.life)]
        BY <1>6, Zenon DEF Tick
      <3>2. CASE pkt \in PktType
        <4>1. Less(pkt.adm # NoAdmission, pkt.life) \in Int
          BY <3>2, LessType DEF PktType
        <4>2. QED
          BY <3>1, <3>2, <4>1 DEF PktType
      <3>3. CASE pkt = NoPkt /\ pc = "idle"
        BY <3>1, <3>3 DEF NoPkt, Less
      <3>4. QED
        BY <3>2, <3>3 DEF TypeOK
    <2>5. late' \in [Clocked -> 0..MaxDelay]
      <3>1. ASSUME NEW t \in Clocked, NEW n \in LateAfterTick(t)
            PROVE  n \in 0..MaxDelay
        BY <3>1, LateType, RelayAssumption DEF LateAfterTick
      <3>2. PICK run \in LateAfterTick("run"), cleanup \in LateAfterTick("cleanup") :
               late' = [late EXCEPT !["run"] = run, !["cleanup"] = cleanup]
        BY <1>6, Zenon DEF Tick
      <3>3. run \in 0..MaxDelay /\ cleanup \in 0..MaxDelay
        BY <3>1 DEF Clocked
      <3>4. QED
        BY <3>2, <3>3 DEF TypeOK
    <2>6. QED
      BY <1>6, <2>1, <2>2, <2>3, <2>5 DEF Tick, TypeOK
  <1>7. QED
    BY <1>1, <1>2, <1>3, <1>4, <1>5, <1>6

(* Every step keeps the types.                                             *)
LEMMA NextType == TypeOK /\ [Next]_vars => TypeOK'
  <1> SUFFICES ASSUME TypeOK, [Next]_vars PROVE TypeOK'
    OBVIOUS
  <1>1. CASE UNCHANGED vars
    BY <1>1 DEF vars, TypeOK
  <1>2. ASSUME NEW type \in Packets, NEW client \in Clients,
               NEW adm \in Admissions \cup {NoAdmission},
               Receive(type, client[1], client[2], adm)
        PROVE  TypeOK'
    BY <1>2, ReceiveType
  <1>3. CASE RunStep
    BY <1>3, JoinType, FloorType, MediaType DEF RunStep
  <1>4. QED
    BY <1>1, <1>2, <1>3, OthersType DEF Next

(* Every reachable state is well typed, for every value of the constants.  *)
THEOREM TypeCorrect == Spec => []TypeOK
  BY InitType, NextType, PTL DEF Spec

-----------------------------------------------------------------------------
(* The floor limit. FloorLimit is inductive once TypeOK makes the set of   *)
(* talkers finite.                                                         *)

(* The floor is a finite set.                                              *)
LEMMA FloorFinite ==
  ASSUME TypeOK
  PROVE  IsFiniteSet(talkers) /\ Cardinality(talkers) \in Nat
  BY RelayAssumption, FS_Subset, FS_CardinalityType DEF TypeOK

(* A step that takes nobody onto the floor keeps the limit.                *)
LEMMA FloorShrinks ==
  ASSUME TypeOK, FloorLimit, talkers' \subseteq talkers
  PROVE  FloorLimit'
  <1>1. Cardinality(talkers') <= Cardinality(talkers) /\ Cardinality(talkers') \in Nat
    BY FloorFinite, FS_Subset, FS_CardinalityType
  <1>2. ActiveLimit \in Nat
    BY RelayAssumption DEF ActiveLimit
  <1>3. QED
    BY <1>1, <1>2, FloorFinite DEF FloorLimit, ActiveLimit

(* A grant happens below the limit only (handlePttOn, handlePttRequest).   *)
LEMMA FloorGrant ==
  ASSUME TypeOK, FloorLimit, NEW s \in Senders, CanGrant(s), Grant(s)
  PROVE  FloorLimit'
  <1>1. s \notin talkers /\ Cardinality(talkers) < ActiveLimit
    BY DEF CanGrant
  <1>2. talkers' = talkers \cup {s}
    BY DEF Grant
  <1>3. Cardinality(talkers') = Cardinality(talkers) + 1
    BY <1>1, <1>2, FloorFinite, FS_AddElement
  <1>4. ActiveLimit \in Nat
    BY RelayAssumption DEF ActiveLimit
  <1>5. QED
    BY <1>1, <1>3, <1>4, FloorFinite DEF FloorLimit, ActiveLimit

(* A preemption replaces one talker by one.                                *)
LEMMA FloorPreempt ==
  ASSUME TypeOK, FloorLimit, RequestFull
  PROVE  FloorLimit'
  <1>1. CASE UNCHANGED talkers
    BY <1>1, FloorShrinks
  <1>2. CASE talkers' # talkers
    <2>1. PICK victim \in talkers :
             talkers' = (talkers \ {victim}) \cup {pkt.sender}
      BY <1>2, Zenon DEF RequestFull
    <2>2. pkt.sender \notin talkers
      BY DEF RequestFull
    <2>3. /\ IsFiniteSet(talkers \ {victim})
          /\ Cardinality(talkers \ {victim}) = Cardinality(talkers) - 1
      BY <2>1, FloorFinite, FS_RemoveElement
    <2>4. Cardinality(talkers') = Cardinality(talkers \ {victim}) + 1
      BY <2>1, <2>2, <2>3, FS_AddElement
    <2>5. Cardinality(talkers') = Cardinality(talkers)
      BY <2>3, <2>4, FloorFinite
    <2>6. QED
      BY <2>5 DEF FloorLimit, ActiveLimit
  <1>3. QED
    BY <1>1, <1>2

(* Every step keeps the floor within its limit.                            *)
LEMMA NextFloorLimit == TypeOK /\ FloorLimit /\ [Next]_vars => FloorLimit'
  <1> SUFFICES ASSUME TypeOK, FloorLimit, [Next]_vars PROVE FloorLimit'
    OBVIOUS
  <1>1. ASSUME NEW t, NEW gone, NEW ended, Depart(t, gone, ended)
        PROVE  FloorLimit'
    BY <1>1, FloorShrinks DEF Depart
  <1>2. ASSUME NEW ended, Release(ended)
        PROVE  FloorLimit'
    BY <1>2, FloorShrinks DEF Release
  <1>3. CASE UNCHANGED talkers
    BY <1>3, FloorShrinks
  <1>4. ASSUME NEW type \in Packets, NEW client \in Clients,
               NEW adm \in Admissions \cup {NoAdmission},
               Receive(type, client[1], client[2], adm)
        PROVE  FloorLimit'
    BY <1>1, <1>4 DEF Receive
  <1>5. CASE RunStep
    <2>1. CASE \/ JoinResolve \/ JoinUpsert \/ AdmitProof \/ Attach
               \/ StartMembership \/ AcceptPeerControl \/ Refresh \/ PttAllow
               \/ RequestDenied \/ RequestHeld \/ CacheCodec \/ MediaTalker
               \/ MediaAllow \/ MediaCodec \/ Forward
      BY <1>3, <2>1
      DEF JoinResolve, JoinUpsert, AdmitProof, Attach, StartMembership,
          AcceptPeerControl, Refresh, PttAllow, RequestDenied, RequestHeld,
          CacheCodec, MediaTalker, MediaAllow, MediaCodec, Forward
    <2>2. CASE ExpireTalk \/ LeaveTalk \/ PttOff
      BY <1>2, <2>2 DEF ExpireTalk, LeaveTalk, PttOff
    <2>3. CASE LeavePeer
      BY <1>1, <2>3 DEF LeavePeer
    <2>4. CASE PttOn \/ RequestGranted
      <3>1. pkt.sender \in Senders
        BY <2>4 DEF PttOn, RequestGranted, At, TypeOK, PktType
      <3>2. QED
        BY <1>3, <2>4, <3>1, FloorGrant DEF PttOn, RequestGranted
    <2>5. CASE RequestFull
      BY <2>5, FloorPreempt
    <2>6. QED
      BY <1>5, <2>1, <2>2, <2>3, <2>4, <2>5 DEF RunStep
  <1>6. CASE CleanupSweep
    BY <1>1, <1>6 DEF CleanupSweep
  <1>7. ASSUME NEW r \in Revokers, RevokeSweep(r)
        PROVE  FloorLimit'
    BY <1>1, <1>7 DEF RevokeSweep
  <1>8. CASE \/ \E r \in Revokers, adm \in Admissions : RevokeInstall(r, adm)
             \/ \E adm \in denied : DenyExpires(adm)
             \/ \E t \in Threads : Announce(t)
             \/ Tick
             \/ UNCHANGED vars
    BY <1>3, <1>8
    DEF RevokeInstall, DenyExpires, Announce, AnnounceRelease, AnnounceGrant,
        Tick, vars
  <1>9. QED
    BY <1>4, <1>5, <1>6, <1>7, <1>8 DEF Next

(* However grants, preemptions, releases and expiries of the three kinds   *)
(* of goroutine interleave, the floor never has more than ActiveLimit      *)
(* talkers.                                                                *)
THEOREM FloorLimited == Spec => []FloorLimit
  <1>1. Init => FloorLimit
    BY RelayAssumption, FS_EmptySet DEF Init, FloorLimit, ActiveLimit
  <1>2. QED
    BY <1>1, TypeCorrect, NextFloorLimit, PTL DEF Spec

-----------------------------------------------------------------------------
(* Revocation fails closed. The invariant needs two more facts: a rule     *)
(* denies service admissions only, so an identity admission may be         *)
(* attached without a look at the rules; and an endpoint without an entry  *)
(* holds no admission, so a sweep of the entries reaches all of them.      *)

RevocationInv ==
    /\ TypeOK
    /\ \A adm \in denied : adm.kind = "service"
    /\ \A a \in Addrs : ~Present(a) => peer[a].adm = NoAdmission
    /\ RevocationFailsClosed

(* The absent admission is never denied.                                   *)
LEMMA NoAdmissionNotDenied ==
  ASSUME TypeOK
  PROVE  NoAdmission \notin denied
  BY RelayAssumption DEF TypeOK, AdmissionType, NoAdmission

(* Entries that lose their admission, rules that go: nothing can break.    *)
LEMMA RevocationShrinks ==
  ASSUME RevocationInv, TypeOK', target' = target, denied' \subseteq denied,
         \A a \in Addrs : \/ peer'[a].adm = NoAdmission
                          \/ /\ peer'[a].adm = peer[a].adm
                             /\ peer'[a].sender = 0 => peer[a].sender = 0
  PROVE  RevocationInv'
  <1>1. \A adm \in denied' : adm.kind = "service"
    BY DEF RevocationInv
  <1>2. \A a \in Addrs : ~(peer'[a].sender # 0) => peer'[a].adm = NoAdmission
    BY DEF RevocationInv, Present
  <1>3. \A a \in Addrs :
           peer'[a].adm \in denied' => \E r \in Revokers : target'[r] = peer'[a].adm
    BY NoAdmissionNotDenied DEF RevocationInv, RevocationFailsClosed
  <1>4. QED
    BY <1>1, <1>2, <1>3 DEF RevocationInv, RevocationFailsClosed, Present

(* Removing entries keeps the revocation invariant.                        *)
LEMMA RevocationDepart ==
  ASSUME RevocationInv, TypeOK', target' = target, denied' = denied,
         NEW t, NEW gone, NEW ended, Depart(t, gone, ended)
  PROVE  RevocationInv'
  <1>1. \A a \in Addrs : peer'[a] = NoPeer \/ peer'[a] = peer[a]
    BY DEF Depart
  <1>2. NoPeer.adm = NoAdmission
    BY DEF NoPeer
  <1>3. QED
    BY <1>1, <1>2, RevocationShrinks

(* An admission is attached only when no rule denies it.                   *)
LEMMA RevocationAttach ==
  ASSUME RevocationInv, TypeOK', Attach
  PROVE  RevocationInv'
  <1>1. CASE UNCHANGED peer
    BY <1>1, RevocationShrinks DEF Attach
  <1>2. CASE CanAttach /\ peer' # peer
    <2>1. pkt \in PktType
      BY DEF Attach, At, RevocationInv, TypeOK
    <2>2. pkt.addr \in Addrs /\ pkt.sender # 0
      BY <2>1, RelayAssumption DEF PktType
    <2>3. peer' = [peer EXCEPT ![pkt.addr] =
                     [@ EXCEPT !.adm = pkt.adm,
                               !.life = ExpiryDeadline(pkt.adm, pkt.life)]]
      BY <1>2, Zenon DEF Attach
    <2>4. peer \in [Addrs -> PeerType]
      BY DEF RevocationInv, TypeOK
    <2>5. \A a \in Addrs \ {pkt.addr} : peer'[a] = peer[a]
      BY <2>2, <2>3, <2>4
    <2>6. peer'[pkt.addr] = [peer[pkt.addr] EXCEPT
                               !.adm = pkt.adm,
                               !.life = ExpiryDeadline(pkt.adm, pkt.life)]
      BY <2>2, <2>3, <2>4
    <2>7. peer[pkt.addr] \in PeerType
      BY <2>2, <2>4
    <2>8. /\ peer'[pkt.addr].adm = pkt.adm
          /\ peer'[pkt.addr].sender = peer[pkt.addr].sender
      BY <2>6, <2>7 DEF PeerType
    <2>9. peer'[pkt.addr].sender # 0
      BY <1>2, <2>2, <2>8 DEF CanAttach, SenderMatches
    <2>10. pkt.adm \notin denied
      BY <1>2 DEF CanAttach, RevocationInv
    <2>11. denied' = denied /\ target' = target
      BY DEF Attach
    <2>12. \A a \in Addrs : ~(peer'[a].sender # 0) => peer'[a].adm = NoAdmission
      BY <2>5, <2>9 DEF RevocationInv, Present
    <2>13. \A a \in Addrs :
             peer'[a].adm \in denied' =>
                \E r \in Revokers : target'[r] = peer'[a].adm
      BY <2>5, <2>8, <2>10, <2>11 DEF RevocationInv, RevocationFailsClosed
    <2>14. QED
      BY <2>11, <2>12, <2>13 DEF RevocationInv, RevocationFailsClosed, Present
  <1>3. QED
    BY <1>1, <1>2 DEF Attach

(* The other steps of the run loop.                                        *)
LEMMA RevocationRunStep ==
  ASSUME RevocationInv, TypeOK', RunStep
  PROVE  RevocationInv'
  <1> USE DEF RevocationInv
  <1>1. UNCHANGED <<denied, target>>
    BY DEF RunStep, JoinResolve, JoinUpsert, AdmitProof, Attach,
           StartMembership, AcceptPeerControl, ExpireTalk, LeaveTalk, LeavePeer,
           Refresh, PttAllow, PttOn, PttOff, RequestDenied, RequestHeld,
           RequestGranted, RequestFull, CacheCodec, MediaTalker, MediaAllow,
           MediaCodec, Forward
  <1>2. CASE UNCHANGED peer
    BY <1>1, <1>2, RevocationShrinks
  <1>3. CASE LeavePeer
    BY <1>1, <1>3, RevocationDepart DEF LeavePeer
  <1>4. CASE Attach
    BY <1>4, RevocationAttach
  <1>5. CASE JoinUpsert \/ StartMembership \/ Refresh
    <2>1. pkt \in PktType
      BY <1>5 DEF JoinUpsert, StartMembership, Refresh, At, TypeOK
    <2>2. pkt.addr \in Addrs /\ pkt.sender # 0
      BY <2>1, RelayAssumption DEF PktType
    <2>3. \A a \in Addrs : peer[a] \in PeerType
      BY DEF TypeOK
    <2>4. CASE JoinUpsert
      <3>1. peer' = [peer EXCEPT ![pkt.addr].sender = pkt.sender]
        BY <2>4, Zenon DEF JoinUpsert
      <3>2. \A a \in Addrs : /\ peer'[a].adm = peer[a].adm
                             /\ peer'[a].sender = 0 => peer[a].sender = 0
        BY <2>2, <2>3, <3>1 DEF TypeOK, PeerType
      <3>3. QED
        BY <1>1, <3>2, RevocationShrinks
    <2>5. CASE StartMembership
      <3>1. CASE UNCHANGED peer
        BY <3>1, <1>2
      <3>2. CASE peer' # peer
        <4>1. peer' = [peer EXCEPT ![pkt.addr] =
                         [@ EXCEPT !.deadline = TRUE, !.lease = Lease - late["run"]]]
          BY <2>5, <3>2, Zenon DEF StartMembership
        <4>2. ASSUME NEW p \in PeerType
              PROVE  LET q == [p EXCEPT !.deadline = TRUE, !.lease = Lease - late["run"]]
                     IN q.adm = p.adm /\ q.sender = p.sender
          BY DEF PeerType
        <4>3. \A a \in Addrs : /\ peer'[a].adm = peer[a].adm
                               /\ peer'[a].sender = peer[a].sender
          BY <2>2, <2>3, <4>1, <4>2 DEF TypeOK
        <4>4. QED
          BY <1>1, <4>3, RevocationShrinks
      <3>3. QED
        BY <3>1, <3>2
    <2>6. CASE Refresh
      <3>1. CASE UNCHANGED peer
        BY <3>1, <1>2
      <3>2. CASE peer' # peer
        <4>1. peer' = [peer EXCEPT ![pkt.addr].lease = Lease - late["run"]]
          BY <2>6, <3>2, Zenon DEF Refresh
        <4>2. \A a \in Addrs : /\ peer'[a].adm = peer[a].adm
                               /\ peer'[a].sender = peer[a].sender
          BY <2>2, <2>3, <4>1 DEF TypeOK, PeerType
        <4>3. QED
          BY <1>1, <4>2, RevocationShrinks
      <3>3. QED
        BY <3>1, <3>2
    <2>7. QED
      BY <1>5, <2>4, <2>5, <2>6
  <1>6. CASE \/ JoinResolve \/ AdmitProof \/ AcceptPeerControl \/ ExpireTalk
             \/ LeaveTalk \/ PttAllow \/ PttOn \/ PttOff
             \/ RequestDenied \/ RequestHeld \/ RequestGranted \/ RequestFull
             \/ CacheCodec \/ MediaTalker \/ MediaAllow \/ MediaCodec \/ Forward
    BY <1>2, <1>6
    DEF JoinResolve, AdmitProof, AcceptPeerControl, ExpireTalk, LeaveTalk,
        PttAllow, PttOn, PttOff, RequestDenied, RequestHeld, RequestGranted,
        RequestFull, CacheCodec, MediaTalker, MediaAllow, MediaCodec, Forward
  <1>7. QED
    BY <1>3, <1>4, <1>5, <1>6 DEF RunStep

(* A rule is installed together with the promise to sweep for it ...       *)
LEMMA RevocationInstall ==
  ASSUME RevocationInv, TypeOK', NEW r \in Revokers, NEW adm \in Admissions,
         RevokeInstall(r, adm)
  PROVE  RevocationInv'
  <1> USE DEF RevocationInv
  <1>1. /\ denied' = denied \cup {adm} /\ adm.kind = "service"
        /\ target[r] = NoAdmission
        /\ target' = [target EXCEPT ![r] = adm]
        /\ peer' = peer
    BY DEF RevokeInstall
  <1>2. target'[r] = adm /\ \A q \in Revokers \ {r} : target'[q] = target[q]
    BY <1>1 DEF TypeOK
  <1>3. \A a \in Addrs :
           peer'[a].adm \in denied' => \E q \in Revokers : target'[q] = peer'[a].adm
    BY <1>1, <1>2, NoAdmissionNotDenied DEF RevocationFailsClosed
  <1>4. QED
    BY <1>1, <1>3 DEF RevocationFailsClosed, Present

(* ... and the sweep, one critical section, keeps it.                      *)
LEMMA RevocationSweep ==
  ASSUME RevocationInv, TypeOK', NEW r \in Revokers, RevokeSweep(r)
  PROVE  RevocationInv'
  <1> USE DEF RevocationInv
  <1> DEFINE gone == {a \in Addrs : Present(a) /\ peer[a].adm = target[r]}
  <1>1. /\ Depart(r, gone, SendersAt(gone))
        /\ target' = [target EXCEPT ![r] = NoAdmission]
        /\ denied' = denied
    BY DEF RevokeSweep
  <1>2. peer' = [a \in Addrs |-> IF a \in gone THEN NoPeer ELSE peer[a]]
    BY <1>1, Zenon DEF Depart
  <1>3. NoPeer.adm = NoAdmission
    BY DEF NoPeer
  <1>4. \A q \in Revokers \ {r} : target'[q] = target[q]
    BY <1>1 DEF TypeOK
  <1>5. \A a \in Addrs : ~(peer'[a].sender # 0) => peer'[a].adm = NoAdmission
    BY <1>2, <1>3 DEF Present
  <1>6. ASSUME NEW a \in Addrs, peer'[a].adm \in denied'
        PROVE  \E q \in Revokers : target'[q] = peer'[a].adm
    <2>1. peer'[a] = peer[a] /\ a \notin gone
      BY <1>1, <1>2, <1>3, <1>6, NoAdmissionNotDenied
    <2>2. peer[a].adm \in denied /\ peer[a].adm # NoAdmission
      BY <1>1, <1>6, <2>1, NoAdmissionNotDenied
    <2>3. PICK q \in Revokers : target[q] = peer[a].adm
      BY <2>2 DEF RevocationFailsClosed
    <2>4. q # r
      BY <2>1, <2>2, <2>3
    <2>5. QED
      BY <1>4, <2>1, <2>3, <2>4
  <1>7. QED
    BY <1>1, <1>5, <1>6 DEF RevocationFailsClosed, Present

(* The clock changes no membership.                                        *)
LEMMA TickEntry ==
  ASSUME TypeOK, Tick
  PROVE  \A a \in Addrs : /\ peer'[a].sender = peer[a].sender
                          /\ peer'[a].deadline = peer[a].deadline
                          /\ peer'[a].adm = peer[a].adm
  <1>1. ASSUME NEW p \in PeerType, NEW lease, NEW life
        PROVE  LET q == [p EXCEPT !.lease = lease, !.life = life]
               IN q.sender = p.sender /\ q.deadline = p.deadline /\ q.adm = p.adm
    BY DEF PeerType
  <1>2. ASSUME NEW a \in Addrs
        PROVE  /\ peer'[a].sender = peer[a].sender
               /\ peer'[a].deadline = peer[a].deadline
               /\ peer'[a].adm = peer[a].adm
    <2>1. PICK lease, life : peer'[a] = [peer[a] EXCEPT !.lease = lease, !.life = life]
      BY DEF Tick
    <2>2. peer[a] \in PeerType
      BY DEF TypeOK
    <2>3. PICK q : q = [peer[a] EXCEPT !.lease = lease, !.life = life]
      OBVIOUS
    <2>4. q.sender = peer[a].sender /\ q.deadline = peer[a].deadline /\ q.adm = peer[a].adm
      BY <1>1, <2>2, <2>3
    <2>5. QED
      BY <2>1, <2>3, <2>4
  <1>3. QED
    BY <1>2

(* Every step keeps the revocation invariant.                              *)
LEMMA NextRevocation ==
  RevocationInv /\ TypeOK' /\ [Next]_vars => RevocationInv'
  <1> SUFFICES ASSUME RevocationInv, TypeOK', [Next]_vars PROVE RevocationInv'
    OBVIOUS
  <1>1. ASSUME NEW type \in Packets, NEW client \in Clients,
               NEW adm \in Admissions \cup {NoAdmission},
               Receive(type, client[1], client[2], adm)
        PROVE  RevocationInv'
    BY <1>1, RevocationDepart DEF Receive
  <1>2. CASE RunStep
    BY <1>2, RevocationRunStep
  <1>3. CASE CleanupSweep
    BY <1>3, RevocationDepart DEF CleanupSweep
  <1>4. ASSUME NEW r \in Revokers, NEW adm \in Admissions, RevokeInstall(r, adm)
        PROVE  RevocationInv'
    BY <1>4, RevocationInstall
  <1>5. ASSUME NEW r \in Revokers, RevokeSweep(r)
        PROVE  RevocationInv'
    BY <1>5, RevocationSweep
  <1>6. CASE \/ \E adm \in denied : DenyExpires(adm)
             \/ \E t \in Threads : Announce(t)
             \/ UNCHANGED vars
    BY <1>6, RevocationShrinks
    DEF DenyExpires, Announce, AnnounceRelease, AnnounceGrant, vars
  <1>7. CASE Tick
    BY <1>7, TickEntry, RevocationShrinks DEF Tick, RevocationInv
  <1>8. QED
    BY <1>1, <1>2, <1>3, <1>4, <1>5, <1>6, <1>7 DEF Next

LEMMA RevocationAlways == Spec => []RevocationInv
  <1>1. Init => RevocationInv
    <2>1. NoPeer.adm = NoAdmission
      BY DEF NoPeer
    <2>2. QED
      BY <2>1, InitType DEF Init, RevocationInv, RevocationFailsClosed
  <1>2. QED
    BY <1>1, TypeCorrect, NextRevocation, PTL DEF Spec

(* While a deny rule stands, the only entries on the denied admission are  *)
(* those a revoker is still about to sweep, however many revocations,      *)
(* JOINs and proofs overlap (revokeManagedServiceAdmission).               *)
THEOREM RevocationSafe == Spec => []RevocationFailsClosed
  <1>1. RevocationInv => RevocationFailsClosed
    BY DEF RevocationInv
  <1>2. QED
    BY <1>1, RevocationAlways, PTL

-----------------------------------------------------------------------------
(* What the steps do to the entries of the table.                          *)

LEMMA UpsertEntry ==
  ASSUME TypeOK, JoinUpsert
  PROVE  /\ pkt.addr \in Addrs
         /\ \A a \in Addrs \ {pkt.addr} : peer'[a] = peer[a]
         /\ peer'[pkt.addr].sender = pkt.sender
         /\ peer'[pkt.addr].deadline = peer[pkt.addr].deadline
         /\ peer'[pkt.addr].lease = peer[pkt.addr].lease
         /\ peer'[pkt.addr].adm = peer[pkt.addr].adm
  <1>1. pkt.addr \in Addrs /\ peer \in [Addrs -> PeerType] /\ peer[pkt.addr] \in PeerType
    BY DEF JoinUpsert, At, TypeOK, PktType
  <1>2. peer' = [peer EXCEPT ![pkt.addr] = [peer[pkt.addr] EXCEPT !.sender = pkt.sender]]
    BY DEF JoinUpsert
  <1>3. QED
    BY <1>1, <1>2 DEF PeerType

LEMMA AttachEntry ==
  ASSUME TypeOK, Attach
  PROVE  \A a \in Addrs : /\ peer'[a].sender = peer[a].sender
                          /\ peer'[a].deadline = peer[a].deadline
                          /\ peer'[a].lease = peer[a].lease
  <1>1. pkt.addr \in Addrs /\ peer \in [Addrs -> PeerType] /\ peer[pkt.addr] \in PeerType
    BY DEF Attach, At, TypeOK, PktType
  <1>2. \/ UNCHANGED peer
        \/ \E adm, life : peer' = [peer EXCEPT ![pkt.addr] =
                                     [peer[pkt.addr] EXCEPT !.adm = adm, !.life = life]]
    BY Zenon DEF Attach
  <1>3. ASSUME NEW adm, NEW life
        PROVE  LET q == [peer[pkt.addr] EXCEPT !.adm = adm, !.life = life]
               IN /\ q.sender = peer[pkt.addr].sender
                  /\ q.deadline = peer[pkt.addr].deadline
                  /\ q.lease = peer[pkt.addr].lease
    BY <1>1 DEF PeerType
  <1>4. ASSUME NEW q, peer' = [peer EXCEPT ![pkt.addr] = q]
        PROVE  peer'[pkt.addr] = q /\ \A a \in Addrs \ {pkt.addr} : peer'[a] = peer[a]
    BY <1>1, <1>4
  <1>5. CASE \E adm, life : peer' = [peer EXCEPT ![pkt.addr] =
                                      [peer[pkt.addr] EXCEPT !.adm = adm, !.life = life]]
    <2>1. PICK adm, life : peer' = [peer EXCEPT ![pkt.addr] =
                                      [peer[pkt.addr] EXCEPT !.adm = adm, !.life = life]]
      BY <1>5
    <2>2. PICK q : q = [peer[pkt.addr] EXCEPT !.adm = adm, !.life = life]
      OBVIOUS
    <2>3. /\ q.sender = peer[pkt.addr].sender
          /\ q.deadline = peer[pkt.addr].deadline
          /\ q.lease = peer[pkt.addr].lease
      BY <1>3, <2>2
    <2>4. QED
      BY <1>4, <2>1, <2>2, <2>3
  <1>6. QED
    BY <1>2, <1>5

LEMMA StartEntry ==
  ASSUME TypeOK, StartMembership
  PROVE  /\ pkt.addr \in Addrs
         /\ \A a \in Addrs \ {pkt.addr} : peer'[a] = peer[a]
         /\ IF SenderMatches
            THEN peer'[pkt.addr].sender = pkt.sender /\ peer'[pkt.addr].deadline
            ELSE peer'[pkt.addr] = peer[pkt.addr]
  <1>1. pkt.addr \in Addrs /\ peer \in [Addrs -> PeerType] /\ peer[pkt.addr] \in PeerType
    BY DEF StartMembership, At, TypeOK, PktType
  <1>2. CASE SenderMatches
    <2>1. peer' = [peer EXCEPT ![pkt.addr] =
                     [peer[pkt.addr] EXCEPT !.deadline = TRUE, !.lease = Lease - late["run"]]]
      BY <1>2 DEF StartMembership
    <2>2. [peer[pkt.addr] EXCEPT !.deadline = TRUE, !.lease = Lease - late["run"]].sender = pkt.sender
      BY <1>1, <1>2 DEF PeerType, SenderMatches
    <2>3. [peer[pkt.addr] EXCEPT !.deadline = TRUE, !.lease = Lease - late["run"]].deadline = TRUE
      BY <1>1 DEF PeerType
    <2>4. /\ peer'[pkt.addr] = [peer[pkt.addr] EXCEPT !.deadline = TRUE, !.lease = Lease - late["run"]]
          /\ \A a \in Addrs \ {pkt.addr} : peer'[a] = peer[a]
      BY <1>1, <2>1
    <2>5. QED
      BY <1>1, <1>2, <2>2, <2>3, <2>4
  <1>3. CASE ~SenderMatches
    BY <1>1, <1>3 DEF StartMembership
  <1>4. QED
    BY <1>2, <1>3

LEMMA RefreshEntry ==
  ASSUME TypeOK, Refresh
  PROVE  \A a \in Addrs : /\ peer'[a].sender = peer[a].sender
                          /\ peer'[a].deadline = peer[a].deadline
  <1>1. pkt.addr \in Addrs /\ peer \in [Addrs -> PeerType] /\ peer[pkt.addr] \in PeerType
    BY DEF Refresh, At, TypeOK, PktType
  <1>2. CASE Refreshable
    <2>1. peer' = [peer EXCEPT ![pkt.addr] = [peer[pkt.addr] EXCEPT !.lease = Lease - late["run"]]]
      BY <1>2 DEF Refresh
    <2>3. /\ peer'[pkt.addr].sender = peer[pkt.addr].sender
          /\ peer'[pkt.addr].deadline = peer[pkt.addr].deadline
          /\ \A a \in Addrs \ {pkt.addr} : peer'[a] = peer[a]
      BY <1>1, <2>1 DEF PeerType
    <2>4. QED
      BY <1>1, <2>3
  <1>3. CASE ~Refreshable
    BY <1>3 DEF Refresh
  <1>4. QED
    BY <1>2, <1>3

-----------------------------------------------------------------------------
(* Deadlines. An entry without one belongs to the JOIN that is under way,  *)
(* between its upsert and its startMembership.                             *)

JoinStages == {"resolve", "upsert", "admit", "attach", "start"}

Unfinished(a) == Present(a) /\ ~peer[a].deadline

JoiningInv ==
    /\ pc \in {"resolve", "upsert", "start"} => pkt.type = "JOIN"
    /\ pc = "admit" => pkt.type = "PROOF"
    /\ pc = "attach" /\ pkt.type = "JOIN" => pkt.adm # NoAdmission
    /\ \A a \in Addrs :
         Unfinished(a) => /\ pc \in {"attach", "start"} /\ pkt.type = "JOIN"
                          /\ pkt.addr = a /\ pkt.sender = peer[a].sender
                          /\ pc = "attach" => peer[a].adm = NoAdmission

(* The grant a JOIN has consumed is neither denied nor expired by the time *)
(* it is attached to the entry.                                            *)
GrantOutlivesJoin ==
    pc = "attach" /\ pkt.type = "JOIN" /\ pkt.adm.kind = "service"
        => pkt.life > 0 /\ pkt.adm \notin denied

(* The parts of a packet that matters here are not changed while it is     *)
(* handled by another goroutine's step or by time.                         *)
SamePacket ==
    /\ pc' = pc /\ pkt'.type = pkt.type /\ pkt'.addr = pkt.addr
    /\ pkt'.sender = pkt.sender /\ pkt'.adm = pkt.adm

LEMMA JoiningKept ==
  ASSUME JoiningInv, SamePacket,
         \A a \in Addrs : Unfinished(a)' => /\ Unfinished(a) /\ peer'[a].sender = peer[a].sender
                                            /\ peer'[a].adm = peer[a].adm
  PROVE  JoiningInv'
  BY DEF JoiningInv, SamePacket

(* A step that leaves the join stages alone before and after.              *)
LEMMA JoiningLeft ==
  ASSUME JoiningInv, pc \notin {"attach", "start"}, pc' \notin JoinStages,
         \A a \in Addrs : Unfinished(a)' => Unfinished(a)
  PROVE  JoiningInv'
  BY DEF JoiningInv, JoinStages

LEMMA RemovedUnfinished ==
  ASSUME \A a \in Addrs : peer'[a] = peer[a] \/ peer'[a] = NoPeer
  PROVE  \A a \in Addrs : Unfinished(a)' => /\ Unfinished(a) /\ peer'[a].sender = peer[a].sender
                                            /\ peer'[a].adm = peer[a].adm
  BY DEF Unfinished, Present, NoPeer

(* A JOIN that was upserted either starts its membership or has lost its   *)
(* entry again: nothing else stops it.                                     *)
LEMMA AttachFinishes ==
  ASSUME TypeOK, JoiningInv, GrantOutlivesJoin, Attach, pkt.type = "JOIN",
         pkt.addr \in Addrs, Unfinished(pkt.addr)
  PROVE  CanAttach
  <1>1. pc = "attach" /\ SenderMatches /\ peer[pkt.addr].adm = NoAdmission
    BY DEF Attach, At, JoiningInv, SenderMatches
  <1>2. QED
    BY <1>1 DEF CanAttach, GrantOutlivesJoin, NoAdmission

LEMMA JoiningStep ==
  ASSUME GrantOutlivesJoin, RevocationInv, JoiningInv, [Next]_vars
  PROVE  JoiningInv'
  <1>0. /\ TypeOK
        /\ pkt \in PktType \cup {NoPkt} /\ (pc # "idle" => pkt \in PktType)
    BY DEF RevocationInv, TypeOK
  <1>1. ASSUME NEW type \in Packets, NEW client \in Clients,
               NEW adm \in Admissions \cup {NoAdmission},
               Receive(type, client[1], client[2], adm)
        PROVE  JoiningInv'
    <2>1. pc = "idle" /\ (type = "PROOF" => adm # NoAdmission)
      BY <1>1 DEF Receive, At
    <2>2. \A a \in Addrs : ~Unfinished(a)
      BY <2>1 DEF JoiningInv
    <2>3. \A a \in Addrs : ~Unfinished(a)'
      <3>1. \A a \in Addrs : peer'[a] = peer[a] \/ peer'[a] = NoPeer
        BY <1>1 DEF Receive, Depart
      <3>2. QED
        BY <2>2, <3>1, RemovedUnfinished
    <2>4. CASE type = "PING"
      BY <1>1, <2>1, <2>3, <2>4 DEF Receive, JoiningInv
    <2>5. CASE type # "PING"
      <3>1. /\ pc' = FirstStage(type) /\ pkt'.type = type
        BY <1>1, <2>5 DEF Receive
      <3>2. /\ pc' \in {"resolve", "media", "admit", "accept"}
            /\ pc' = "resolve" => pkt'.type = "JOIN"
            /\ pc' = "admit" => pkt'.type = "PROOF"
        BY <3>1 DEF FirstStage
      <3>3. QED
        BY <2>3, <3>2 DEF JoiningInv
    <2>6. QED
      BY <2>4, <2>5
  <1>2. CASE JoinResolve
    <2>1. /\ pc = "resolve" /\ pkt.type = "JOIN" /\ pkt \in PktType /\ peer' = peer
      BY <1>0, <1>2 DEF JoinResolve, At, JoiningInv
    <2>2. /\ pc' \in {"upsert", "idle"} /\ (pc' = "upsert" => pkt'.type = "JOIN")
      <3>1. \/ pc' = "upsert" /\ pkt' = pkt
            \/ pc' = "upsert" /\ pkt' = [pkt EXCEPT !.adm = NoAdmission, !.life = 0]
            \/ pc' = "idle"
        BY <1>2 DEF JoinResolve, Goto, Finish
      <3>2. [pkt EXCEPT !.adm = NoAdmission, !.life = 0].type = pkt.type
        BY <2>1 DEF PktType
      <3>3. QED
        BY <2>1, <3>1, <3>2
    <2>3. \A a \in Addrs : ~Unfinished(a)'
      BY <2>1 DEF JoiningInv, Unfinished, Present
    <2>4. QED
      BY <2>2, <2>3 DEF JoiningInv
  <1>3. CASE JoinUpsert
    <2>1. /\ pc = "upsert" /\ pkt.type = "JOIN" /\ UNCHANGED pkt
          /\ pc' = IF pkt.adm = NoAdmission THEN "start" ELSE "attach"
      BY <1>3 DEF JoinUpsert, At, Goto, JoiningInv
    <2>2. ASSUME NEW a \in Addrs, Unfinished(a)'
          PROVE  pkt.addr = a /\ pkt.sender = peer'[a].sender /\ peer'[a].adm = NoAdmission
      <3>1. ~Unfinished(a)
        BY <2>1 DEF JoiningInv
      <3>2. CASE a # pkt.addr
        BY <1>0, <1>3, <2>2, <3>1, <3>2, UpsertEntry DEF Unfinished, Present
      <3>3. CASE a = pkt.addr
        BY <1>0, <1>3, <2>2, <3>1, <3>3, UpsertEntry DEF RevocationInv, Unfinished
      <3>4. QED
        BY <3>2, <3>3
    <2>3. QED
      BY <2>1, <2>2 DEF JoiningInv
  <1>4. CASE AdmitProof
    <2>1. /\ pc = "admit" /\ pkt.type = "PROOF" /\ UNCHANGED peer
          /\ (pc' = "attach" /\ pkt' = pkt) \/ pc' = "idle"
      BY <1>4 DEF AdmitProof, At, Goto, Finish, JoiningInv
    <2>2. \A a \in Addrs : ~Unfinished(a)'
      BY <2>1 DEF JoiningInv, Unfinished, Present
    <2>3. QED
      BY <2>1, <2>2 DEF JoiningInv
  <1>5. CASE Attach
    <2>1. pc = "attach" /\ pkt \in PktType
      BY <1>0, <1>5 DEF Attach, At
    <2>2. \A a \in Addrs : Unfinished(a)' => Unfinished(a) /\ peer'[a].sender = peer[a].sender
      BY <1>0, <1>5, AttachEntry DEF Unfinished, Present
    <2>3. CASE pkt.type = "JOIN" /\ CanAttach
      <3>1. pc' = "start" /\ pkt' = pkt
        BY <1>5, <2>3 DEF Attach, Goto
      <3>2. QED
        BY <2>2, <2>3, <3>1 DEF JoiningInv
    <2>4. CASE ~(pkt.type = "JOIN" /\ CanAttach)
      <3>1. pc' = "idle"
        BY <1>5, <2>4 DEF Attach, Finish
      <3>2. ASSUME NEW a \in Addrs, Unfinished(a)
            PROVE  FALSE
        <4>1. pkt.type = "JOIN" /\ pkt.addr = a /\ pkt.sender = peer[a].sender
          BY <3>2 DEF JoiningInv
        <4>2. QED
          BY <1>0, <1>5, <2>4, <3>2, <4>1, AttachFinishes
      <3>3. QED
        BY <2>2, <3>1, <3>2 DEF JoiningInv
    <2>5. QED
      BY <2>3, <2>4
  <1>6. CASE StartMembership
    <2>1. pc = "start" /\ pc' \notin JoinStages
      BY <1>6 DEF StartMembership, At, Goto, Finish, JoinStages
    <2>2. ASSUME NEW a \in Addrs, Unfinished(a)'
          PROVE  FALSE
      <3>1. CASE a # pkt.addr
        <4>1. Unfinished(a)
          BY <1>6, <2>2, <1>0, <3>1, StartEntry DEF Unfinished, Present
        <4>2. QED
          BY <3>1, <4>1 DEF JoiningInv
      <3>2. CASE a = pkt.addr
        <4>1. CASE SenderMatches
          BY <1>6, <2>2, <3>2, <1>0, <4>1, StartEntry DEF Unfinished
        <4>2. CASE ~SenderMatches
          <5>1. Unfinished(a)
            BY <1>6, <2>2, <3>2, <1>0, <4>2, StartEntry DEF Unfinished, Present
          <5>2. QED
            BY <4>2, <5>1 DEF JoiningInv, SenderMatches
        <4>3. QED
          BY <4>1, <4>2
      <3>3. QED
        BY <3>1, <3>2
    <2>3. QED
      BY <2>1, <2>2 DEF JoiningInv, JoinStages
  <1>7. CASE \/ AcceptPeerControl \/ ExpireTalk \/ LeaveTalk \/ LeavePeer \/ Refresh
             \/ PttAllow \/ PttOn \/ PttOff
             \/ RequestDenied \/ RequestHeld \/ RequestGranted \/ RequestFull
             \/ CacheCodec \/ MediaTalker \/ MediaAllow \/ MediaCodec \/ Forward
    <2>1. pc \notin JoinStages
      BY <1>7
      DEF AcceptPeerControl, ExpireTalk, LeaveTalk, LeavePeer, Refresh, PttAllow,
          PttOn, PttOff, RequestDenied, RequestHeld, RequestGranted, RequestFull,
          CacheCodec, MediaTalker, MediaAllow, MediaCodec, Forward, At, JoinStages
    <2>2. pc' \notin JoinStages
      <3>1. TypeStage(pkt.type) \notin JoinStages /\ AfterRefresh(pkt.type, Refreshable) \notin JoinStages
        BY DEF TypeStage, AfterRefresh, JoinStages
      <3>2. \A stage : Goto(stage) => pc' = stage
        BY DEF Goto
      <3>3. Finish => pc' = "idle"
        BY DEF Finish
      <3>4. "idle" \notin JoinStages /\ "talk" \notin JoinStages /\ "leavePeer" \notin JoinStages
            /\ "refresh" \notin JoinStages /\ "mediaAllow" \notin JoinStages
            /\ "mediaCodec" \notin JoinStages
        BY DEF JoinStages
      <3>5. QED
        BY <1>7, <3>1, <3>2, <3>3, <3>4
        DEF AcceptPeerControl, ExpireTalk, LeaveTalk, LeavePeer, Refresh, PttAllow,
            PttOn, PttOff, RequestDenied, RequestHeld, RequestGranted, RequestFull,
            CacheCodec, MediaTalker, MediaAllow, MediaCodec, Forward
    <2>3. CASE Refresh
      <3>1. \A a \in Addrs : Unfinished(a)' => Unfinished(a)
        BY <1>0, <2>3, RefreshEntry DEF Unfinished, Present
      <3>2. QED
        BY <2>1, <2>2, <3>1, JoiningLeft DEF JoinStages
    <2>4. CASE \A a \in Addrs : peer'[a] = peer[a] \/ peer'[a] = NoPeer
      BY <2>1, <2>2, <2>4, RemovedUnfinished, JoiningLeft DEF JoinStages
    <2>5. CASE LeavePeer
      <3>1. \A a \in Addrs : peer'[a] = peer[a] \/ peer'[a] = NoPeer
        BY <2>5 DEF LeavePeer, Depart
      <3>2. QED
        BY <2>4, <3>1
    <2>6. CASE UNCHANGED peer
      BY <2>4, <2>6
    <2>7. QED
      BY <1>7, <2>3, <2>5, <2>6
      DEF AcceptPeerControl, ExpireTalk, LeaveTalk, PttAllow,
          PttOn, PttOff, RequestDenied, RequestHeld, RequestGranted, RequestFull,
          CacheCodec, MediaTalker, MediaAllow, MediaCodec, Forward
  <1>8. ASSUME UNCHANGED <<pc, pkt>>, \A a \in Addrs : peer'[a] = peer[a] \/ peer'[a] = NoPeer
        PROVE  JoiningInv'
    BY <1>8, RemovedUnfinished, JoiningKept DEF SamePacket
  <1>9. CASE CleanupSweep
    BY <1>8, <1>9 DEF CleanupSweep, Depart
  <1>10. ASSUME NEW r \in Revokers, RevokeSweep(r)
         PROVE  JoiningInv'
    BY <1>8, <1>10 DEF RevokeSweep, Depart
  <1>11. CASE \/ \E r \in Revokers, adm \in Admissions : RevokeInstall(r, adm)
              \/ \E adm \in denied : DenyExpires(adm)
              \/ \E t \in Threads : Announce(t)
              \/ UNCHANGED vars
    <2>1. UNCHANGED <<pc, pkt, peer>>
      BY <1>11
      DEF RevokeInstall, DenyExpires, Announce, AnnounceRelease, AnnounceGrant, vars
    <2>2. QED
      BY <1>8, <2>1
  <1>12. CASE Tick
    <2>1. SamePacket
      BY <1>0, <1>12 DEF Tick, SamePacket, PktType, NoPkt
    <2>2. QED
      BY <1>0, <1>12, <2>1, TickEntry, JoiningKept DEF Unfinished, Present
  <1>13. QED
    BY <1>1, <1>2, <1>3, <1>4, <1>5, <1>6, <1>7, <1>9, <1>10, <1>11, <1>12
    DEF Next, RunStep

(* No entry is left in the table without a membership deadline between two *)
(* packets, although a JOIN creates, admits and starts it in three         *)
(* critical sections and other goroutines may remove it in between         *)
(* (upsertAuthenticatedPeerWithReplay, setPeerIdentityAdmission,           *)
(* setPeerServiceAdmission, startMembership), unless a service grant is    *)
(* denied or expires in the middle of a JOIN.                              *)
THEOREM JoinedAlwaysHaveDeadline ==
  Spec /\ []GrantOutlivesJoin => []JoinedPeersHaveDeadline
  <1>1. Init => JoiningInv
    BY DEF Init, JoiningInv, Unfinished, Present, NoPeer
  <1>2. GrantOutlivesJoin /\ RevocationInv /\ JoiningInv /\ [Next]_vars => JoiningInv'
    BY JoiningStep
  <1>3. JoiningInv => JoinedPeersHaveDeadline
    BY DEF JoiningInv, Unfinished, JoinedPeersHaveDeadline
  <1>4. QED
    BY <1>1, <1>2, <1>3, RevocationAlways, PTL DEF Spec

(* Where all admissions are identity tickets there is no such grant, and   *)
(* the deadlines are unconditional (setPeerIdentityAdmission does not look *)
(* at the expiry again).                                                   *)
THEOREM TicketsAlwaysHaveDeadline ==
  ASSUME \A adm \in Admissions : adm.kind = "identity"
  PROVE  Spec => []JoinedPeersHaveDeadline
  <1>1. TypeOK => GrantOutlivesJoin
    <2>1. TypeOK /\ pc = "attach" => pkt.adm \in Admissions \cup {NoAdmission}
      BY DEF TypeOK, PktType
    <2>2. QED
      BY <2>1 DEF GrantOutlivesJoin, NoAdmission
  <1>2. QED
    BY <1>1, TypeCorrect, JoinedAlwaysHaveDeadline, PTL

-----------------------------------------------------------------------------
(* Relay implements Floor, and keeps what Floor promises about             *)
(* announcements.                                                          *)

(* There are finitely many goroutines, so what they owe can be counted.    *)
LEMMA ThreadsFinite ==
  ASSUME NEW T, T \subseteq Threads
  PROVE  IsFiniteSet(T) /\ Cardinality(T) \in Nat
  <1>1. IsFiniteSet({"run"}) /\ IsFiniteSet({"cleanup"})
    BY FS_Singleton
  <1>2. IsFiniteSet({"run"} \cup {"cleanup"})
    BY <1>1, FS_Union
  <1>3. IsFiniteSet(({"run"} \cup {"cleanup"}) \cup Revokers)
    BY <1>2, RelayAssumption, FS_Union
  <1>4. T \subseteq ({"run"} \cup {"cleanup"}) \cup Revokers
    BY DEF Threads
  <1>5. QED
    BY <1>3, <1>4, FS_Subset, FS_CardinalityType

(* One goroutine more.                                                     *)
LEMMA OneMore ==
  ASSUME NEW T, T \subseteq Threads, NEW t \in Threads, t \notin T
  PROVE  Cardinality(T \cup {t}) = Cardinality(T) + 1
  BY ThreadsFinite, FS_AddElement

(* One goroutine less.                                                     *)
LEMMA OneLess ==
  ASSUME NEW T, T \subseteq Threads, NEW t \in T
  PROVE  /\ Cardinality(T \ {t}) = Cardinality(T) - 1
         /\ Cardinality(T) > 0
  BY ThreadsFinite, FS_RemoveElement, FS_EmptySet

-----------------------------------------------------------------------------
(* What the refinement mapping shows of the books: how many announcements  *)
(* of each kind are owed about each sender.                                *)
GrantsOwed   == [s \in Senders |-> Cardinality(Owing(s, "grant"))]
ReleasesOwed == [s \in Senders |-> Cardinality(Owing(s, "rel"))]

(* The shapes a change of the books can have.                              *)

(* Goroutine t owed nothing, and now it owes what out'[t] says.            *)
LEMMA BooksAfter ==
  ASSUME NEW t \in Threads, out[t] = Quiet,
         \A u \in Threads \ {t} : out'[u] = out[u]
  PROVE  /\ ReleasesOwed' = F!Plus(ReleasesOwed, out'[t].rel)
         /\ GrantsOwed' = F!Plus(GrantsOwed, out'[t].grant)
         /\ out'[t].rel = {} => ReleasesOwed' = ReleasesOwed
         /\ out'[t].grant = {} => GrantsOwed' = GrantsOwed
  <1>1. out[t]["rel"] = {} /\ out[t]["grant"] = {}
    BY DEF Quiet
  <1>2. ASSUME NEW s \in Senders
        PROVE  /\ Cardinality(Owing(s, "rel"))' =
                     IF s \in out'[t].rel THEN Cardinality(Owing(s, "rel")) + 1
                     ELSE Cardinality(Owing(s, "rel"))
               /\ Cardinality(Owing(s, "grant"))' =
                     IF s \in out'[t].grant THEN Cardinality(Owing(s, "grant")) + 1
                     ELSE Cardinality(Owing(s, "grant"))
    <2> DEFINE R == Owing(s, "rel")
               G == Owing(s, "grant")
    <2>1. R \subseteq Threads /\ G \subseteq Threads /\ t \notin R /\ t \notin G
      BY <1>1 DEF Owing
    <2>2. R' = IF s \in out'[t].rel THEN R \cup {t} ELSE R
      BY <1>1 DEF Owing
    <2>3. G' = IF s \in out'[t].grant THEN G \cup {t} ELSE G
      BY <1>1 DEF Owing
    <2> HIDE DEF R, G
    <2>4. /\ Cardinality(R)' =
               IF s \in out'[t].rel THEN Cardinality(R) + 1 ELSE Cardinality(R)
          /\ Cardinality(G)' =
               IF s \in out'[t].grant THEN Cardinality(G) + 1 ELSE Cardinality(G)
      BY <2>1, <2>2, <2>3, OneMore
    <2>5. QED
      BY <2>4 DEF R, G
  <1>3. QED
    BY <1>2 DEF F!Plus, GrantsOwed, ReleasesOwed

(* Nothing the books say has changed.                                      *)
LEMMA BooksSame ==
  ASSUME talkers' = talkers, out' = out, balance' = balance
  PROVE  UNCHANGED F!floorVars
  BY DEF F!floorVars, Owing

(* A release about x has been announced by t.                              *)
LEMMA BooksTellRelease ==
  ASSUME TypeOK, NEW t \in Threads, NEW x \in out[t].rel,
         out' = [out EXCEPT ![t].rel = @ \ {x}], NEW s \in Senders
  PROVE  /\ Cardinality(Owing(s, "rel"))' =
              IF s = x THEN Cardinality(Owing(s, "rel")) - 1
              ELSE Cardinality(Owing(s, "rel"))
         /\ Cardinality(Owing(x, "rel")) > 0
         /\ Owing(s, "grant")' = Owing(s, "grant")
  <1>1. /\ out'[t]["rel"] = out[t]["rel"] \ {x}
        /\ out'[t]["grant"] = out[t]["grant"]
        /\ \A u \in Threads \ {t} : out'[u] = out[u]
    BY DEF TypeOK
  <1>2. Owing(x, "rel") \subseteq Threads /\ t \in Owing(x, "rel")
    BY DEF Owing
  <1>3. Owing(s, "rel")' = IF s = x THEN Owing(x, "rel") \ {t} ELSE Owing(s, "rel")
    BY <1>1 DEF Owing
  <1>4. Owing(s, "grant")' = Owing(s, "grant")
    BY <1>1 DEF Owing
  <1>5. QED
    BY <1>2, <1>3, <1>4, OneLess

(* A grant about x has been announced by t.                                *)
LEMMA BooksTellGrant ==
  ASSUME TypeOK, NEW t \in Threads, NEW x \in out[t].grant,
         out' = [out EXCEPT ![t].grant = @ \ {x}], NEW s \in Senders
  PROVE  /\ Cardinality(Owing(s, "grant"))' =
              IF s = x THEN Cardinality(Owing(s, "grant")) - 1
              ELSE Cardinality(Owing(s, "grant"))
         /\ Cardinality(Owing(x, "grant")) > 0
         /\ Owing(s, "rel")' = Owing(s, "rel")
  <1>1. /\ out'[t]["grant"] = out[t]["grant"] \ {x}
        /\ out'[t]["rel"] = out[t]["rel"]
        /\ \A u \in Threads \ {t} : out'[u] = out[u]
    BY DEF TypeOK
  <1>2. Owing(x, "grant") \subseteq Threads /\ t \in Owing(x, "grant")
    BY DEF Owing
  <1>3. Owing(s, "grant")' = IF s = x THEN Owing(x, "grant") \ {t} ELSE Owing(s, "grant")
    BY <1>1 DEF Owing
  <1>4. Owing(s, "rel")' = Owing(s, "rel")
    BY <1>1 DEF Owing
  <1>5. QED
    BY <1>2, <1>3, <1>4, OneLess

-----------------------------------------------------------------------------
(* Steps of Relay as steps of Floor.                                       *)

(* A critical section that ends the tenures of S.                          *)
LEMMA YieldStep ==
  ASSUME TypeOK, NEW t \in Threads, out[t] = Quiet, NEW S, S \subseteq talkers,
         talkers' = talkers \ S, balance' = balance,
         out' = [out EXCEPT ![t].rel = S]
  PROVE  F!Yield(S)
  <1>1. /\ out'[t].rel = S /\ out'[t].grant = {}
        /\ \A u \in Threads \ {t} : out'[u] = out[u]
    BY DEF TypeOK, Quiet
  <1>2. ReleasesOwed' = F!Plus(ReleasesOwed, S) /\ GrantsOwed' = GrantsOwed
    BY <1>1, BooksAfter
  <1>3. QED
    BY <1>2 DEF F!Yield, GrantsOwed, ReleasesOwed

(* One that removes entries, and perhaps the channel.                      *)
LEMMA DepartStep ==
  ASSUME TypeOK, NEW t \in Threads, out[t] = Quiet, NEW gone, NEW ended,
         Depart(t, gone, ended)
  PROVE  F!FloorNext
  <1> DEFINE S == talkers \cap ended
             empty == \A a \in Addrs : Present(a) => a \in gone
  <1>1. out' = [out EXCEPT ![t].rel = S]
    BY DEF Depart
  <1>2. S \in SUBSET talkers
    OBVIOUS
  <1>3. CASE ~empty
    <2>1. talkers' = talkers \ S /\ balance' = balance
      BY <1>3 DEF Depart, TypeOK
    <2> HIDE DEF S
    <2>2. F!Yield(S)
      BY <1>1, <1>2, <2>1, YieldStep
    <2>3. QED
      BY <1>2, <2>2 DEF F!FloorNext
  <1>4. CASE empty
    <2>1. talkers' = {}
      BY <1>4 DEF Depart
    <2>2. balance' = F!Minus(balance, talkers \ S)
      BY <1>4, <2>1 DEF Depart, F!Minus
    <2> HIDE DEF S
    <2>3. /\ out'[t].rel = S /\ out'[t].grant = {}
          /\ \A u \in Threads \ {t} : out'[u] = out[u]
      BY <1>1 DEF TypeOK, Quiet
    <2>4. ReleasesOwed' = F!Plus(ReleasesOwed, S) /\ GrantsOwed' = GrantsOwed
      BY <2>3, BooksAfter
    <2>5. F!Clear(S)
      BY <2>1, <2>2, <2>4 DEF F!Clear, GrantsOwed, ReleasesOwed
    <2>6. QED
      BY <1>2, <2>5 DEF F!FloorNext
  <1>5. QED
    BY <1>3, <1>4

(* The run loop ends tenures.                                              *)
LEMMA ReleaseStep ==
  ASSUME TypeOK, out["run"] = Quiet, NEW ended, Release(ended), balance' = balance
  PROVE  F!FloorNext
  <1> DEFINE S == talkers \cap ended
  <1>1. /\ S \in SUBSET talkers
        /\ talkers' = talkers \ S
        /\ out' = [out EXCEPT !["run"].rel = S]
        /\ "run" \in Threads
    BY DEF Release, Threads
  <1> HIDE DEF S
  <1>2. F!Yield(S)
    BY <1>1, YieldStep
  <1>3. QED
    BY <1>1, <1>2 DEF F!FloorNext

(* It grants a free place.                                                 *)
LEMMA TakeStep ==
  ASSUME TypeOK, out["run"] = Quiet, NEW x \in Senders, CanGrant(x), Grant(x),
         balance' = balance
  PROVE  F!FloorNext
  <1>1. "run" \in Threads
    BY DEF Threads
  <1>2. /\ out'["run"].rel = {} /\ out'["run"].grant = {x}
        /\ \A u \in Threads \ {"run"} : out'[u] = out[u]
    BY <1>1 DEF Grant, TypeOK, Quiet
  <1>3. ReleasesOwed' = ReleasesOwed /\ GrantsOwed' = F!Plus(GrantsOwed, {x})
    BY <1>1, <1>2, BooksAfter
  <1>4. /\ x \notin talkers /\ Cardinality(talkers) < ActiveLimit
        /\ talkers' = talkers \cup {x}
    BY DEF CanGrant, Grant
  <1>5. F!Take(x)
    BY <1>3, <1>4 DEF F!Take, F!Cardinality, Cardinality, GrantsOwed, ReleasesOwed
  <1>6. QED
    BY <1>5 DEF F!FloorNext

(* It exchanges a talker for the requester, or denies the request.         *)
LEMMA SwapStep ==
  ASSUME TypeOK, RequestFull
  PROVE  F!FloorNext \/ UNCHANGED F!floorVars
  <1>1. /\ out["run"] = Quiet /\ pkt.sender \notin talkers /\ balance' = balance
        /\ pkt.sender \in Senders /\ "run" \in Threads
    BY DEF RequestFull, At, TypeOK, PktType, Threads
  <1>2. PICK victim \in talkers :
           \/ /\ talkers' = (talkers \ {victim}) \cup {pkt.sender}
              /\ out' = [out EXCEPT !["run"] = [rel   |-> {victim},
                                                grant |-> {pkt.sender}]]
           \/ UNCHANGED <<talkers, out>>
    BY Zenon DEF RequestFull
  <1>3. CASE UNCHANGED <<talkers, out>>
    BY <1>1, <1>3, BooksSame
  <1>4. CASE /\ talkers' = (talkers \ {victim}) \cup {pkt.sender}
             /\ out' = [out EXCEPT !["run"] = [rel   |-> {victim},
                                               grant |-> {pkt.sender}]]
    <2>1. /\ out'["run"].rel = {victim} /\ out'["run"].grant = {pkt.sender}
          /\ \A u \in Threads \ {"run"} : out'[u] = out[u]
      BY <1>1, <1>4 DEF TypeOK
    <2>2. /\ ReleasesOwed' = F!Plus(ReleasesOwed, {victim})
          /\ GrantsOwed' = F!Plus(GrantsOwed, {pkt.sender})
      BY <1>1, <2>1, BooksAfter
    <2>3. F!Swap(victim, pkt.sender)
      BY <1>1, <1>4, <2>2 DEF F!Swap, GrantsOwed, ReleasesOwed
    <2>4. QED
      BY <1>1, <2>3 DEF F!FloorNext, TypeOK
  <1>5. QED
    BY <1>2, <1>3, <1>4

(* An announcement is made.                                                *)
LEMMA AnnounceStep ==
  ASSUME TypeOK, NEW t \in Threads, Announce(t)
  PROVE  F!FloorNext
  <1>1. CASE AnnounceRelease(t)
    <2>1. PICK x \in out[t].rel : /\ out' = [out EXCEPT ![t].rel = @ \ {x}]
                                 /\ balance' = [balance EXCEPT ![x] = @ - 1]
      BY <1>1, Zenon DEF AnnounceRelease
    <2>2. x \in Senders /\ talkers' = talkers
      BY <1>1 DEF AnnounceRelease, TypeOK
    <2>3. balance' = F!Minus(balance, {x})
      BY <2>1, <2>2 DEF F!Minus, TypeOK
    <2>4. F!TellRelease(x)
      BY <2>1, <2>2, <2>3, BooksTellRelease DEF F!TellRelease, F!Minus
    <2>5. QED
      BY <2>2, <2>4 DEF F!FloorNext
  <1>2. CASE AnnounceGrant(t)
    <2>1. PICK x \in out[t].grant : /\ out' = [out EXCEPT ![t].grant = @ \ {x}]
                                   /\ balance' = [balance EXCEPT ![x] = @ + 1]
      BY <1>2, Zenon DEF AnnounceGrant
    <2>2. x \in Senders /\ talkers' = talkers
      BY <1>2 DEF AnnounceGrant, TypeOK
    <2>3. balance' = F!Plus(balance, {x})
      BY <2>1, <2>2 DEF F!Plus, TypeOK
    <2>4. F!TellGrant(x)
      BY <2>1, <2>2, <2>3, BooksTellGrant DEF F!TellGrant, F!Minus
    <2>5. QED
      BY <2>2, <2>4 DEF F!FloorNext
  <1>3. QED
    BY <1>1, <1>2 DEF Announce

-----------------------------------------------------------------------------
(* The refinement. A revoker that is about to sweep owes nothing: it       *)
(* starts its command only after the announcements of the last one.        *)

SweepsWithCleanBooks ==
    \A r \in Revokers : target[r] # NoAdmission => out[r] = Quiet

(* A step keeps the books of the revokers clean.                           *)
LEMMA NextClean ==
  ASSUME TypeOK, TypeOK', SweepsWithCleanBooks, [Next]_vars
  PROVE  SweepsWithCleanBooks'
  <1>1. "run" \notin Revokers /\ "cleanup" \notin Revokers
    BY RelayAssumption
  <1>2. ASSUME target' = target, \A r \in Revokers : out'[r] = out[r]
        PROVE  SweepsWithCleanBooks'
    BY <1>2 DEF SweepsWithCleanBooks
  <1>3. ASSUME NEW t \in {"run", "cleanup"}, NEW gone, NEW ended,
               Depart(t, gone, ended), target' = target
        PROVE  SweepsWithCleanBooks'
    BY <1>1, <1>2, <1>3 DEF Depart, TypeOK
  <1>4. ASSUME NEW type \in Packets, NEW client \in Clients,
               NEW adm \in Admissions \cup {NoAdmission},
               Receive(type, client[1], client[2], adm)
        PROVE  SweepsWithCleanBooks'
    BY <1>3, <1>4 DEF Receive
  <1>5. CASE RunStep
    <2>1. CASE \/ JoinResolve \/ JoinUpsert \/ AdmitProof \/ Attach
               \/ StartMembership \/ AcceptPeerControl \/ Refresh \/ PttAllow
               \/ RequestDenied \/ RequestHeld \/ CacheCodec \/ MediaTalker
               \/ MediaAllow \/ MediaCodec \/ Forward
      BY <1>2, <2>1
      DEF JoinResolve, JoinUpsert, AdmitProof, Attach, StartMembership,
          AcceptPeerControl, Refresh, PttAllow, RequestDenied, RequestHeld,
          CacheCodec, MediaTalker, MediaAllow, MediaCodec, Forward
    <2>2. CASE ExpireTalk \/ LeaveTalk \/ PttOff
      <3>1. ASSUME NEW ended, Release(ended)
            PROVE  \A r \in Revokers : out'[r] = out[r]
        BY <1>1, <3>1 DEF Release, TypeOK, Threads
      <3>2. QED
        BY <1>2, <2>2, <3>1 DEF ExpireTalk, LeaveTalk, PttOff
    <2>3. CASE LeavePeer
      BY <1>3, <2>3 DEF LeavePeer
    <2>4. CASE PttOn \/ RequestGranted
      <3>1. ASSUME NEW s, Grant(s)
            PROVE  \A r \in Revokers : out'[r] = out[r]
        BY <1>1, <3>1 DEF Grant, TypeOK, Threads
      <3>2. QED
        BY <1>2, <2>4, <3>1 DEF PttOn, RequestGranted
    <2>5. CASE RequestFull
      <3>1. \/ out' = out
            \/ \E victim \in talkers :
                 out' = [out EXCEPT !["run"] = [rel   |-> {victim},
                                                grant |-> {pkt.sender}]]
        BY <2>5, Zenon DEF RequestFull
      <3>2. \A r \in Revokers : out'[r] = out[r]
        BY <1>1, <3>1 DEF TypeOK, Threads
      <3>3. QED
        BY <1>2, <2>5, <3>2 DEF RequestFull
    <2>6. QED
      BY <1>5, <2>1, <2>2, <2>3, <2>4, <2>5 DEF RunStep
  <1>6. CASE CleanupSweep
    BY <1>3, <1>6 DEF CleanupSweep
  <1>7. ASSUME NEW r \in Revokers, NEW adm \in Admissions, RevokeInstall(r, adm)
        PROVE  SweepsWithCleanBooks'
    BY <1>7 DEF RevokeInstall, SweepsWithCleanBooks, TypeOK
  <1>8. ASSUME NEW r \in Revokers, RevokeSweep(r)
        PROVE  SweepsWithCleanBooks'
    BY <1>8 DEF RevokeSweep, Depart, SweepsWithCleanBooks, TypeOK
  <1>9. ASSUME NEW t \in Threads, Announce(t)
        PROVE  SweepsWithCleanBooks'
    <2>1. out[t] # Quiet
      BY <1>9 DEF Announce, AnnounceRelease, AnnounceGrant, Quiet
    <2>2. target' = target /\ \A u \in Threads \ {t} : out'[u] = out[u]
      BY <1>9 DEF Announce, AnnounceRelease, AnnounceGrant, TypeOK
    <2>3. QED
      BY <2>1, <2>2 DEF SweepsWithCleanBooks, Threads
  <1>10. CASE \/ \E adm \in denied : DenyExpires(adm)
              \/ Tick
              \/ UNCHANGED vars
    BY <1>2, <1>10 DEF DenyExpires, Tick, vars
  <1>11. QED
    BY <1>4, <1>5, <1>6, <1>7, <1>8, <1>9, <1>10 DEF Next

(* Every step of Relay is a step of Floor, or changes nothing it shows.    *)
LEMMA NextImplements ==
  ASSUME TypeOK, SweepsWithCleanBooks, [Next]_vars
  PROVE  [F!FloorNext]_(F!floorVars)
  <1>1. ASSUME NEW type \in Packets, NEW client \in Clients,
               NEW adm \in Admissions \cup {NoAdmission},
               Receive(type, client[1], client[2], adm)
        PROVE  F!FloorNext
    BY <1>1, DepartStep DEF Receive, At, Threads
  <1>2. CASE RunStep
    <2>1. CASE \/ JoinResolve \/ JoinUpsert \/ AdmitProof \/ Attach
               \/ StartMembership \/ AcceptPeerControl \/ Refresh \/ PttAllow
               \/ RequestDenied \/ RequestHeld \/ CacheCodec \/ MediaTalker
               \/ MediaAllow \/ MediaCodec \/ Forward
      BY <2>1, BooksSame
      DEF JoinResolve, JoinUpsert, AdmitProof, Attach, StartMembership,
          AcceptPeerControl, Refresh, PttAllow, RequestDenied, RequestHeld,
          CacheCodec, MediaTalker, MediaAllow, MediaCodec, Forward
    <2>2. CASE ExpireTalk \/ LeaveTalk \/ PttOff
      BY <2>2, ReleaseStep DEF ExpireTalk, LeaveTalk, PttOff, At
    <2>3. CASE LeavePeer
      BY <2>3, DepartStep DEF LeavePeer, At, Threads
    <2>4. CASE PttOn \/ RequestGranted
      <3>1. pkt.sender \in Senders /\ out["run"] = Quiet
        BY <2>4 DEF PttOn, RequestGranted, At, TypeOK, PktType
      <3>2. QED
        BY <2>4, <3>1, TakeStep, BooksSame DEF PttOn, RequestGranted
    <2>5. CASE RequestFull
      BY <2>5, SwapStep
    <2>6. QED
      BY <1>2, <2>1, <2>2, <2>3, <2>4, <2>5 DEF RunStep
  <1>3. CASE CleanupSweep
    BY <1>3, DepartStep DEF CleanupSweep, Threads
  <1>4. ASSUME NEW r \in Revokers, RevokeSweep(r)
        PROVE  F!FloorNext
    BY <1>4, DepartStep DEF RevokeSweep, SweepsWithCleanBooks, Threads
  <1>5. ASSUME NEW t \in Threads, Announce(t)
        PROVE  F!FloorNext
    BY <1>5, AnnounceStep
  <1>6. CASE \/ \E r \in Revokers, adm \in Admissions : RevokeInstall(r, adm)
             \/ \E adm \in denied : DenyExpires(adm)
             \/ Tick
             \/ UNCHANGED vars
    BY <1>6, BooksSame DEF RevokeInstall, DenyExpires, Tick, vars
  <1>7. QED
    BY <1>1, <1>2, <1>3, <1>4, <1>5, <1>6 DEF Next

(* No goroutine owes anything at the start.                                *)
LEMMA InitImplements == Init => F!FloorInit
  <1> SUFFICES ASSUME Init PROVE F!FloorInit
    OBVIOUS
  <1>1. \A s \in Senders : Owing(s, "rel") = {} /\ Owing(s, "grant") = {}
    BY DEF Init, Owing, Quiet
  <1>2. QED
    BY <1>1, FS_EmptySet DEF Init, F!FloorInit

(* The Relay implements the abstract floor: whatever the run loop,         *)
(* cleanupLoop and the revocation goroutines do between them, every change *)
(* of activeTalkers is one of the abstract steps and is followed by the    *)
(* announcements that belong to it.                                        *)
THEOREM RelayImplementsFloor == Spec => ImplementsFloor
  <1>1. Init => SweepsWithCleanBooks
    BY DEF Init, SweepsWithCleanBooks
  <1>2. TypeOK /\ TypeOK' /\ SweepsWithCleanBooks /\ [Next]_vars
          => SweepsWithCleanBooks'
    BY NextClean
  <1>3. TypeOK /\ SweepsWithCleanBooks /\ [Next]_vars => [F!FloorNext]_(F!floorVars)
    BY NextImplements
  <1>4. QED
    BY <1>1, <1>2, <1>3, InitImplements, TypeCorrect, PTL
    DEF Spec, ImplementsFloor, F!FloorSpec

-----------------------------------------------------------------------------
(* The books balance. It is enough to look at the abstract steps.          *)

(* What is owed is a number.                                               *)
LEMMA OwedType ==
  ASSUME NEW s \in Senders
  PROVE  /\ GrantsOwed[s] \in Nat /\ GrantsOwed'[s] \in Nat
         /\ ReleasesOwed[s] \in Nat /\ ReleasesOwed'[s] \in Nat
  <1>1. ASSUME NEW kind
        PROVE  Owing(s, kind) \subseteq Threads /\ Owing(s, kind)' \subseteq Threads
    BY DEF Owing
  <1>2. QED
    BY <1>1, ThreadsFinite DEF GrantsOwed, ReleasesOwed

Balanced ==
    \A s \in Senders :
        balance[s] + GrantsOwed[s] - ReleasesOwed[s] = (IF s \in talkers THEN 1 ELSE 0)

(* Every abstract step moves the floor and the books together.             *)
LEMMA FloorNextBalanced ==
  ASSUME TypeOK, TypeOK', Balanced, [F!FloorNext]_(F!floorVars)
  PROVE  Balanced'
  <1>1. \A s \in Senders : balance[s] \in Int /\ balance'[s] \in Int
    BY DEF TypeOK
  <1>2. CASE UNCHANGED F!floorVars
    <2>1. /\ talkers' = talkers /\ balance' = balance
          /\ GrantsOwed' = GrantsOwed /\ ReleasesOwed' = ReleasesOwed
      BY <1>2 DEF F!floorVars, GrantsOwed, ReleasesOwed
    <2>2. QED
      BY <2>1 DEF Balanced
  <1>3. ASSUME NEW x \in Senders, F!Take(x)
        PROVE  Balanced'
    <2>1. /\ x \notin talkers /\ talkers' = talkers \cup {x} /\ balance' = balance
          /\ GrantsOwed' = F!Plus(GrantsOwed, {x}) /\ ReleasesOwed' = ReleasesOwed
      BY <1>3 DEF F!Take, GrantsOwed, ReleasesOwed
    <2>2. QED
      BY <1>1, <2>1, OwedType DEF Balanced, F!Plus
  <1>4. ASSUME NEW x \in Senders, F!TellGrant(x)
        PROVE  Balanced'
    <2>1. /\ talkers' = talkers /\ balance' = F!Plus(balance, {x})
          /\ GrantsOwed' = F!Minus(GrantsOwed, {x}) /\ ReleasesOwed' = ReleasesOwed
      BY <1>4 DEF F!TellGrant, GrantsOwed, ReleasesOwed
    <2>2. QED
      BY <1>1, <2>1, OwedType DEF Balanced, F!Plus, F!Minus
  <1>5. ASSUME NEW x \in Senders, F!TellRelease(x)
        PROVE  Balanced'
    <2>1. /\ talkers' = talkers /\ balance' = F!Minus(balance, {x})
          /\ ReleasesOwed' = F!Minus(ReleasesOwed, {x}) /\ GrantsOwed' = GrantsOwed
      BY <1>5 DEF F!TellRelease, GrantsOwed, ReleasesOwed
    <2>2. QED
      BY <1>1, <2>1, OwedType DEF Balanced, F!Minus
  <1>6. ASSUME NEW v \in Senders, NEW x \in Senders, F!Swap(v, x)
        PROVE  Balanced'
    <2>1. /\ v \in talkers /\ x \notin talkers
          /\ talkers' = (talkers \ {v}) \cup {x} /\ balance' = balance
          /\ GrantsOwed' = F!Plus(GrantsOwed, {x})
          /\ ReleasesOwed' = F!Plus(ReleasesOwed, {v})
      BY <1>6 DEF F!Swap, GrantsOwed, ReleasesOwed
    <2>2. ASSUME NEW s \in Senders
          PROVE  balance'[s] + GrantsOwed'[s] - ReleasesOwed'[s]
                   = (IF s \in talkers' THEN 1 ELSE 0)
      <3>1. /\ balance'[s] = balance[s]
            /\ GrantsOwed'[s] = IF s = x THEN GrantsOwed[s] + 1 ELSE GrantsOwed[s]
            /\ ReleasesOwed'[s] = IF s = v THEN ReleasesOwed[s] + 1
                                  ELSE ReleasesOwed[s]
            /\ v # x /\ (s \in talkers' <=> (s \in talkers /\ s # v) \/ s = x)
        BY <2>1 DEF F!Plus
      <3>2. balance[s] + GrantsOwed[s] - ReleasesOwed[s]
              = (IF s \in talkers THEN 1 ELSE 0)
        BY DEF Balanced
      <3>3. QED
        BY <1>1, <2>1, <3>1, <3>2, OwedType
    <2>3. QED
      BY <2>2 DEF Balanced
  <1>7. ASSUME NEW S \in SUBSET talkers, F!Yield(S)
        PROVE  Balanced'
    <2>1. /\ talkers' = talkers \ S /\ balance' = balance
          /\ ReleasesOwed' = F!Plus(ReleasesOwed, S) /\ GrantsOwed' = GrantsOwed
      BY <1>7 DEF F!Yield, GrantsOwed, ReleasesOwed
    <2>2. QED
      BY <1>1, <2>1, OwedType DEF Balanced, F!Plus
  <1>8. ASSUME NEW S \in SUBSET talkers, F!Clear(S)
        PROVE  Balanced'
    <2>1. /\ talkers' = {} /\ balance' = F!Minus(balance, talkers \ S)
          /\ ReleasesOwed' = F!Plus(ReleasesOwed, S) /\ GrantsOwed' = GrantsOwed
      BY <1>8 DEF F!Clear, GrantsOwed, ReleasesOwed
    <2>2. QED
      BY <1>1, <2>1, OwedType DEF Balanced, F!Plus, F!Minus
  <1>9. QED
    BY <1>2, <1>3, <1>4, <1>5, <1>6, <1>7, <1>8 DEF F!FloorNext

(* No TALK_GRANT or TALK_RELEASE is lost, doubled or made for a tenure     *)
(* that was not, whichever goroutine makes it.                             *)
THEOREM AnnouncementsAlwaysBalanced == Spec => []AnnouncementsBalanced
  <1>1. Init => Balanced
    <2> SUFFICES ASSUME Init PROVE Balanced
      OBVIOUS
    <2>1. F!FloorInit
      BY InitImplements
    <2>2. /\ talkers = {} /\ \A s \in Senders : balance[s] = 0
          /\ \A s \in Senders : GrantsOwed[s] = 0 /\ ReleasesOwed[s] = 0
      BY <2>1 DEF F!FloorInit, GrantsOwed, ReleasesOwed
    <2>3. QED
      BY <2>2 DEF Balanced
  <1>2. Balanced => AnnouncementsBalanced
    BY DEF Balanced, AnnouncementsBalanced, GrantsOwed, ReleasesOwed
  <1>3. TypeOK /\ TypeOK' /\ Balanced /\ [F!FloorNext]_(F!floorVars) => Balanced'
    BY FloorNextBalanced
  <1>4. QED
    BY <1>1, <1>2, <1>3, TypeCorrect, RelayImplementsFloor, PTL
    DEF ImplementsFloor, F!FloorSpec, Spec

-----------------------------------------------------------------------------
(* What a step may never do to the floor.                                  *)

(* Only a preemption both takes and gives the floor.                       *)
LEMMA FloorSteps ==
  ASSUME [Next]_vars
  PROVE  talkers' \subseteq talkers \/ talkers \subseteq talkers' \/ RequestFull
  <1>1. ASSUME NEW t, NEW gone, NEW ended, Depart(t, gone, ended)
        PROVE  talkers' \subseteq talkers
    BY <1>1 DEF Depart
  <1>2. ASSUME NEW ended, Release(ended)
        PROVE  talkers' \subseteq talkers
    BY <1>2 DEF Release
  <1>3. ASSUME NEW s, Grant(s)
        PROVE  talkers \subseteq talkers'
    BY <1>3 DEF Grant
  <1>4. CASE \/ JoinResolve \/ JoinUpsert \/ AdmitProof \/ Attach
             \/ StartMembership \/ AcceptPeerControl \/ Refresh \/ PttAllow
             \/ RequestDenied \/ RequestHeld \/ CacheCodec \/ MediaTalker
             \/ MediaAllow \/ MediaCodec \/ Forward
    BY <1>4
    DEF JoinResolve, JoinUpsert, AdmitProof, Attach, StartMembership,
        AcceptPeerControl, Refresh, PttAllow, RequestDenied, RequestHeld,
        CacheCodec, MediaTalker, MediaAllow, MediaCodec, Forward
  <1>5. CASE ExpireTalk \/ LeaveTalk \/ PttOff
    BY <1>2, <1>5 DEF ExpireTalk, LeaveTalk, PttOff
  <1>6. CASE PttOn \/ RequestGranted
    BY <1>3, <1>6 DEF PttOn, RequestGranted
  <1>7. CASE LeavePeer
    BY <1>1, <1>7 DEF LeavePeer
  <1>8. CASE \/ \E r \in Revokers, adm \in Admissions : RevokeInstall(r, adm)
             \/ \E adm \in denied : DenyExpires(adm)
             \/ \E t \in Threads : Announce(t)
             \/ Tick
             \/ UNCHANGED vars
    BY <1>8
    DEF RevokeInstall, DenyExpires, Announce, AnnounceRelease, AnnounceGrant,
        Tick, vars
  <1>9. ASSUME NEW type \in Packets, NEW client \in Clients,
               NEW adm \in Admissions \cup {NoAdmission},
               Receive(type, client[1], client[2], adm)
        PROVE  talkers' \subseteq talkers
    BY <1>1, <1>9 DEF Receive
  <1>10. CASE CleanupSweep
    BY <1>1, <1>10 DEF CleanupSweep
  <1>11. ASSUME NEW r \in Revokers, RevokeSweep(r)
         PROVE  talkers' \subseteq talkers
    BY <1>1, <1>11 DEF RevokeSweep
  <1>12. QED
    BY <1>4, <1>5, <1>6, <1>7, <1>8, <1>9, <1>10, <1>11 DEF Next, RunStep

(* A talker is replaced by a requester of strictly higher priority only,   *)
(* with a live membership and a current admission at that instant, and it  *)
(* is one of the lowest priority (handlePttRequest). Every other step of   *)
(* every goroutine either takes the floor or gives it.                     *)
THEOREM PreemptionsLawful == Spec => PreemptionLawful
  <1> DEFINE Lawful ==
        \A s \in talkers' \ talkers, v \in talkers \ talkers' :
          /\ talkers \ talkers' = {v}
          /\ \E a \in Addrs :
               /\ peer[a].sender = s
               /\ peer[a].deadline /\ Ahead(peer[a].lease, "run")
               /\ AllowsInterrupt(a)
               /\ \E p \in PrioritiesOf(v) :
                    /\ p < peer[a].adm.priority
                    /\ \A w \in talkers : \E q \in PrioritiesOf(w) :
                         p < q \/ (p = q /\ v <= w)
  <1>1. ASSUME TypeOK, [Next]_vars PROVE Lawful
    <2> SUFFICES ASSUME NEW s \in talkers' \ talkers, NEW v \in talkers \ talkers'
                 PROVE  /\ talkers \ talkers' = {v}
                        /\ \E a \in Addrs :
                             /\ peer[a].sender = s
                             /\ peer[a].deadline /\ Ahead(peer[a].lease, "run")
                             /\ AllowsInterrupt(a)
                             /\ \E p \in PrioritiesOf(v) :
                                  /\ p < peer[a].adm.priority
                                  /\ \A w \in talkers : \E q \in PrioritiesOf(w) :
                                       p < q \/ (p = q /\ v <= w)
      OBVIOUS
    <2>1. RequestFull
      BY <1>1, FloorSteps
    <2>2. pkt.addr \in Addrs
      BY <1>1, <2>1 DEF RequestFull, At, TypeOK, PktType
    <2>3. /\ peer[pkt.addr].sender = pkt.sender
          /\ peer[pkt.addr].deadline /\ Ahead(peer[pkt.addr].lease, "run")
          /\ AllowsInterrupt(pkt.addr)
      BY <2>1 DEF RequestFull, InterruptAuthorized, Refreshable, SenderMatches
    <2>4. PICK prio \in [talkers -> Priorities], victim \in talkers :
             /\ \A w \in talkers : prio[w] \in PrioritiesOf(w)
             /\ Lowest(victim, prio)
             /\ Preempts(prio, victim) => talkers' = (talkers \ {victim}) \cup {pkt.sender}
             /\ ~Preempts(prio, victim) => talkers' = talkers
      BY <2>1, Zenon DEF RequestFull
    <2>5. Preempts(prio, victim) /\ talkers' = (talkers \ {victim}) \cup {pkt.sender}
      BY <2>4
    <2>6. pkt.sender \notin talkers
      BY <2>1 DEF RequestFull
    <2>7. v = victim /\ s = pkt.sender /\ talkers \ talkers' = {v}
      BY <2>4, <2>5, <2>6
    <2>8. /\ prio[v] \in PrioritiesOf(v)
          /\ prio[v] < peer[pkt.addr].adm.priority
          /\ \A w \in talkers : /\ prio[w] \in PrioritiesOf(w)
                                /\ prio[v] < prio[w] \/ (prio[v] = prio[w] /\ v <= w)
      BY <2>4, <2>5, <2>7 DEF Preempts, Lowest
    <2>9. QED
      BY <2>2, <2>3, <2>7, <2>8, Zenon
  <1>2. TypeOK /\ [Next]_vars => [Lawful]_vars
    BY <1>1
  <1>3. QED
    BY <1>2, TypeCorrect, PTL DEF Spec, PreemptionLawful

-----------------------------------------------------------------------------
(* A loss of the floor is announced. A LEAVE gives the floor back before   *)
(* it removes the entry.                                                   *)
LeaverSilent == pc = "leavePeer" => pkt.sender \notin talkers

LEMMA LeaverStep ==
  ASSUME TypeOK, LeaverSilent, [Next]_vars
  PROVE  LeaverSilent'
  <1>1. CASE LeaveTalk
    BY <1>1 DEF LeaveTalk, Release, Goto, LeaverSilent
  <1>2. ASSUME pc' # "leavePeer" PROVE LeaverSilent'
    BY <1>2 DEF LeaverSilent
  <1>3. ASSUME pc' = pc, pkt'.sender = pkt.sender, talkers' \subseteq talkers
        PROVE  LeaverSilent'
    BY <1>3 DEF LeaverSilent
  <1>4. ASSUME NEW type \in Packets, NEW client \in Clients,
               NEW adm \in Admissions \cup {NoAdmission},
               Receive(type, client[1], client[2], adm)
        PROVE  LeaverSilent'
    <2>1. pc' # "leavePeer"
      BY <1>4 DEF Receive, At, FirstStage
    <2>2. QED
      BY <1>2, <2>1
  <1>5. CASE RunStep /\ ~LeaveTalk
    <2>1. pc' # "leavePeer"
      <3>1. TypeStage(pkt.type) # "leavePeer" /\ AfterRefresh(pkt.type, Refreshable) # "leavePeer"
        BY DEF TypeStage, AfterRefresh
      <3>2. \A stage : Goto(stage) => pc' = stage
        BY DEF Goto
      <3>3. Finish => pc' = "idle"
        BY DEF Finish
      <3>4. CASE \/ JoinResolve \/ JoinUpsert \/ AdmitProof \/ Attach \/ StartMembership
                 \/ AcceptPeerControl \/ ExpireTalk \/ LeavePeer \/ Refresh
        BY <3>1, <3>2, <3>3, <3>4
        DEF JoinResolve, JoinUpsert, AdmitProof, Attach, StartMembership,
            AcceptPeerControl, ExpireTalk, LeavePeer, Refresh
      <3>5. CASE \/ PttAllow \/ PttOn \/ PttOff
                 \/ RequestDenied \/ RequestHeld \/ RequestGranted \/ RequestFull
                 \/ CacheCodec \/ MediaTalker \/ MediaAllow \/ MediaCodec \/ Forward
        BY <3>2, <3>3, <3>5
        DEF PttAllow, PttOn, PttOff, RequestDenied, RequestHeld, RequestGranted,
            RequestFull, CacheCodec, MediaTalker, MediaAllow, MediaCodec, Forward
      <3>6. QED
        BY <1>5, <3>4, <3>5 DEF RunStep
    <2>2. QED
      BY <1>2, <2>1
  <1>6. CASE CleanupSweep
    BY <1>3, <1>6 DEF CleanupSweep, Depart
  <1>7. ASSUME NEW r \in Revokers, RevokeSweep(r)
        PROVE  LeaverSilent'
    BY <1>3, <1>7 DEF RevokeSweep, Depart
  <1>8. CASE \/ \E r \in Revokers, adm \in Admissions : RevokeInstall(r, adm)
             \/ \E adm \in denied : DenyExpires(adm)
             \/ \E t \in Threads : Announce(t)
             \/ UNCHANGED vars
    BY <1>3, <1>8
    DEF RevokeInstall, DenyExpires, Announce, AnnounceRelease, AnnounceGrant, vars
  <1>9. CASE Tick
    <2>1. pkt'.sender = pkt.sender
      BY <1>9 DEF Tick, TypeOK, PktType, NoPkt
    <2>2. QED
      BY <1>3, <1>9, <2>1 DEF Tick
  <1>10. QED
    BY <1>1, <1>4, <1>5, <1>6, <1>7, <1>8, <1>9 DEF Next

Announced(s) ==
    \/ \E t \in Threads : s \in out'[t].rel \ out[t].rel
    \/ (\A a \in Addrs : peer[a].sender # s) /\ ~ChannelExists'

(* A departure announces what it ends; what it does not end is lost with   *)
(* the channel, and then the talker had no entry.                          *)
LEMMA DepartAnnounces ==
  ASSUME TypeOK, NEW t \in Threads, out[t].rel = {}, NEW gone \in SUBSET Addrs, NEW ended,
         Depart(t, gone, ended), NEW s \in talkers \ talkers',
         \A a \in gone : peer[a].sender = s => s \in ended
  PROVE  Announced(s)
  <1>1. CASE s \in ended
    <2>1. out'[t].rel = talkers \cap ended
      BY DEF Depart, TypeOK
    <2>2. QED
      BY <1>1, <2>1 DEF Announced
  <1>2. CASE s \notin ended
    <2>1. \A a \in Addrs : Present(a) => a \in gone
      BY <1>2 DEF Depart
    <2>2. s # 0
      BY RelayAssumption DEF TypeOK
    <2>3. \A a \in Addrs : peer[a].sender # s
      BY <1>2, <2>1, <2>2 DEF Present
    <2>4. \A a \in Addrs : peer'[a].sender = 0
      <3>1. peer' = [a \in Addrs |-> IF a \in gone THEN NoPeer ELSE peer[a]]
        BY Zenon DEF Depart
      <3>2. QED
        BY <2>1, <3>1 DEF Present, NoPeer
    <2>5. QED
      BY <2>3, <2>4 DEF Announced, ChannelExists, Present
  <1>3. QED
    BY <1>1, <1>2

LEMMA ReleaseAnnounces ==
  ASSUME TypeOK, out["run"] = Quiet, NEW ended, Release(ended), NEW s \in talkers \ talkers'
  PROVE  Announced(s)
  <1>1. s \in ended /\ "run" \in Threads
    BY DEF Release, Threads
  <1>2. out'["run"].rel = talkers \cap ended
    BY <1>1 DEF Release, TypeOK
  <1>3. QED
    BY <1>1, <1>2 DEF Announced, Quiet

LEMMA LossAnnounced ==
  ASSUME TypeOK, SweepsWithCleanBooks, LeaverSilent, [Next]_vars, NEW s \in talkers \ talkers'
  PROVE  Announced(s)
  <1>0. Quiet.rel = {} /\ "run" \in Threads /\ "cleanup" \in Threads /\ Revokers \subseteq Threads
    BY DEF Quiet, Threads
  <1>1. ASSUME UNCHANGED talkers \/ talkers \subseteq talkers' PROVE FALSE
    BY <1>1
  <1>2. ASSUME NEW gone \in SUBSET Addrs, NEW a \in gone, peer[a].sender = s
        PROVE  s \in SendersAt(gone)
    BY <1>2 DEF SendersAt
  <1>3. ASSUME NEW type \in Packets, NEW client \in Clients,
               NEW adm \in Admissions \cup {NoAdmission},
               Receive(type, client[1], client[2], adm)
        PROVE  Announced(s)
    <2>1. out["run"].rel = {} /\ Depart("run", ExpiredAddrs("run"), SendersAt(ExpiredAddrs("run")))
      BY <1>0, <1>3 DEF Receive, At
    <2>2. ExpiredAddrs("run") \in SUBSET Addrs
      BY DEF ExpiredAddrs
    <2>3. QED
      BY <1>0, <1>2, <2>1, <2>2, DepartAnnounces
  <1>4. CASE CleanupSweep
    <2>1. /\ out["cleanup"].rel = {}
          /\ Depart("cleanup", ExpiredAddrs("cleanup"),
                    SendersAt(ExpiredAddrs("cleanup")) \cup TalkOverdue("cleanup"))
      BY <1>0, <1>4 DEF CleanupSweep
    <2>2. ExpiredAddrs("cleanup") \in SUBSET Addrs
      BY DEF ExpiredAddrs
    <2>3. \A a \in ExpiredAddrs("cleanup") :
             peer[a].sender = s
                => s \in SendersAt(ExpiredAddrs("cleanup")) \cup TalkOverdue("cleanup")
      BY <1>2, <2>2
    <2>4. QED
      BY <1>0, <2>1, <2>2, <2>3, DepartAnnounces
  <1>5. ASSUME NEW r \in Revokers, RevokeSweep(r)
        PROVE  Announced(s)
    <2> DEFINE gone == {a \in Addrs : Present(a) /\ peer[a].adm = target[r]}
    <2>1. out[r].rel = {} /\ Depart(r, gone, SendersAt(gone))
      BY <1>0, <1>5 DEF RevokeSweep, SweepsWithCleanBooks
    <2>2. gone \in SUBSET Addrs
      OBVIOUS
    <2> HIDE DEF gone
    <2>3. QED
      BY <1>0, <1>2, <2>1, <2>2, DepartAnnounces
  <1>6. CASE LeavePeer
    <2>1. pkt \in PktType /\ pkt.sender \notin talkers /\ out["run"].rel = {}
      BY <1>0, <1>6 DEF LeavePeer, At, TypeOK, LeaverSilent
    <2>2. PICK gone \in Leaving : Depart("run", gone, {})
      BY <1>6 DEF LeavePeer
    <2>3. gone \in SUBSET Addrs /\ \A a \in gone : peer[a].sender = pkt.sender
      BY <2>1 DEF Leaving, SenderMatches, PktType
    <2>4. \A a \in gone : peer[a].sender = s => s \in {}
      BY <2>1, <2>3
    <2>5. QED
      BY <1>0, <2>1, <2>2, <2>3, <2>4, DepartAnnounces
  <1>7. CASE ExpireTalk \/ LeaveTalk \/ PttOff
    BY <1>7, ReleaseAnnounces DEF ExpireTalk, LeaveTalk, PttOff, At
  <1>8. CASE PttOn \/ RequestGranted
    BY <1>1, <1>8 DEF PttOn, RequestGranted, Grant
  <1>9. CASE RequestFull
    <2>1. out["run"].rel = {}
      BY <1>0, <1>9 DEF RequestFull, At
    <2>2. PICK victim \in talkers :
             \/ /\ talkers' = (talkers \ {victim}) \cup {pkt.sender}
                /\ out' = [out EXCEPT !["run"] = [rel |-> {victim}, grant |-> {pkt.sender}]]
             \/ UNCHANGED talkers
      BY <1>9, Zenon DEF RequestFull
    <2>3. s = victim /\ out' = [out EXCEPT !["run"] = [rel |-> {victim}, grant |-> {pkt.sender}]]
      BY <1>1, <2>2
    <2>4. s \in out'["run"].rel
      BY <1>0, <2>3 DEF TypeOK
    <2>5. QED
      BY <1>0, <2>1, <2>4 DEF Announced
  <1>10. CASE \/ JoinResolve \/ JoinUpsert \/ AdmitProof \/ Attach
              \/ StartMembership \/ AcceptPeerControl \/ Refresh \/ PttAllow
              \/ RequestDenied \/ RequestHeld \/ CacheCodec \/ MediaTalker
              \/ MediaAllow \/ MediaCodec \/ Forward
    BY <1>1, <1>10
    DEF JoinResolve, JoinUpsert, AdmitProof, Attach, StartMembership,
        AcceptPeerControl, Refresh, PttAllow, RequestDenied, RequestHeld,
        CacheCodec, MediaTalker, MediaAllow, MediaCodec, Forward
  <1>11. CASE \/ \E r \in Revokers, adm \in Admissions : RevokeInstall(r, adm)
              \/ \E adm \in denied : DenyExpires(adm)
              \/ \E t \in Threads : Announce(t)
              \/ Tick
              \/ UNCHANGED vars
    BY <1>1, <1>11
    DEF RevokeInstall, DenyExpires, Announce, AnnounceRelease, AnnounceGrant,
        Tick, vars
  <1>12. QED
    BY <1>3, <1>4, <1>5, <1>6, <1>7, <1>8, <1>9, <1>10, <1>11 DEF Next, RunStep

(* A talker loses the floor with an announced release, made by the         *)
(* goroutine that ended the tenure; without one only when it had no entry  *)
(* left and the channel is deleted in the same critical section. A sweep   *)
(* relies on having made its earlier announcements, and a LEAVE on giving  *)
(* the floor back before it removes the entry (releaseTalkIfNeeded,        *)
(* removePeer, expireMembershipIfNeeded, cleanupLoop).                     *)
THEOREM FloorLossAlwaysAnnounced == Spec => FloorLossAnnounced
  <1>1. Init => SweepsWithCleanBooks /\ LeaverSilent
    BY DEF Init, SweepsWithCleanBooks, LeaverSilent
  <1>2. TypeOK /\ TypeOK' /\ SweepsWithCleanBooks /\ [Next]_vars
          => SweepsWithCleanBooks'
    BY NextClean
  <1>3. TypeOK /\ LeaverSilent /\ [Next]_vars => LeaverSilent'
    BY LeaverStep
  <1>4. TypeOK /\ SweepsWithCleanBooks /\ LeaverSilent /\ [Next]_vars
          => [\A s \in talkers \ talkers' :
                \/ \E t \in Threads : s \in out'[t].rel \ out[t].rel
                \/ (\A a \in Addrs : peer[a].sender # s) /\ ~ChannelExists']_vars
    BY LossAnnounced DEF Announced
  <1>5. QED
    BY <1>1, <1>2, <1>3, <1>4, TypeCorrect, PTL DEF Spec, FloorLossAnnounced
=============================================================================
