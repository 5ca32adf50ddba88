-------------------------- MODULE DirectoryProofs --------------------------
(***************************************************************************)
(* Proofs about Directory, for any number of workers, datagrams, clients   *)
(* and channels and any window size.                                       *)
(*                                                                         *)
(* First: a datagram takes effect at most once while it is valid. The      *)
(* inductive invariant says that the replay record of a live datagram that *)
(* was committed is still there, outlives the datagram and refuses its     *)
(* sequence number. Then: publications go only to endpoints that confirmed *)
(* their registration. Then: a cursor is used once. Last, FragmentPacking: *)
(* a pass that packs greedily is never behind any other cut of the rows,   *)
(* so what it refuses no cut can send; and a guess of the number of        *)
(* fragments can be wrong in its digits only, which change once.           *)
(***************************************************************************)
EXTENDS Directory, FragmentPacking, InductionLemmas, FiniteSetTheorems, TLAPS

Refuses(rec, seq) == ~CanAccept(rec, seq)

(* The types that the argument needs; no clock reading is in the future.   *)
CoreTypes ==
    /\ now \in Nat
    /\ worker \in [Workers -> {Idle} \cup Opened \cup Serving]
    /\ replay \in [Domains -> WindowType]
    /\ cursors \subseteq CursorType
    /\ issued \in 0 .. MaxCursors
    /\ round = [stage |-> round.stage, at |-> round.at, targets |-> round.targets]
    /\ round.at \in Nat /\ round.at <= now
    /\ liveCommits \in [Datagrams -> Nat]

Remembered ==
    \A d \in Datagrams :
        /\ liveCommits[d] <= 1
        /\ liveCommits[d] > 0 /\ d.expires > now =>
             /\ replay[Domain(d)].expires >= d.expires
             /\ Refuses(replay[Domain(d)], d.seq)

OnceInv == CoreTypes /\ Remembered

-----------------------------------------------------------------------------
(* A datagram's replay domain is one of the table's.                       *)
LEMMA DatagramDomain ==
    ASSUME NEW d \in Datagrams
    PROVE  /\ Domain(d) \in Domains
           /\ d.seq \in Nat \ {0}
           /\ d.expires \in Nat
BY DirectoryAssumption DEF DatagramType, Domain, Domains

(* Recording a sequence number keeps a record well formed.                 *)
LEMMA RecordedType ==
    ASSUME NEW rec \in WindowType, NEW d \in Datagrams, CanAccept(rec, d.seq)
    PROVE  /\ Recorded(rec, d) \in WindowType
           /\ Recorded(rec, d).expires >= d.expires
           /\ Recorded(rec, d).expires >= rec.expires
<1> USE DirectoryAssumption
<1>1. d.seq \in Nat \ {0} /\ d.expires \in Nat
  BY DatagramDomain
<1>2. CASE d.seq > rec.highest
  <2>1. Seen(rec, d.seq) \in SUBSET (0 .. Window - 1)
    BY <1>1, <1>2 DEF Seen, WindowType
  <2> QED BY <1>1, <1>2, <2>1 DEF Recorded, Later, WindowType
<1>3. CASE ~(d.seq > rec.highest)
  <2>1. rec.highest \in Nat /\ rec.highest # 0
    BY <1>1, <1>3 DEF WindowType
  <2>2. rec.highest - d.seq \in 0 .. Window - 1
    BY <1>1, <1>3, <2>1 DEF CanAccept
  <2>3. Seen(rec, d.seq) \in SUBSET (0 .. Window - 1)
    BY <1>1, <1>3, <2>2 DEF Seen, WindowType
  <2> QED BY <1>1, <1>3, <2>3 DEF Recorded, Later, WindowType
<1> QED BY <1>2, <1>3

(* A record refuses the sequence number it has just recorded.              *)
LEMMA RecordedRefuses ==
    ASSUME NEW rec \in WindowType, NEW d \in Datagrams, CanAccept(rec, d.seq)
    PROVE  Refuses(Recorded(rec, d), d.seq)
<1> USE DirectoryAssumption
<1>1. d.seq \in Nat \ {0} /\ rec.highest \in Nat
  BY DatagramDomain DEF WindowType
<1>2. CASE d.seq > rec.highest
  BY <1>1, <1>2 DEF Recorded, Refuses, CanAccept, Seen
<1>3. CASE ~(d.seq > rec.highest)
  BY <1>1, <1>3 DEF Recorded, Refuses, CanAccept, Seen
<1> QED BY <1>2, <1>3

(* Recording one sequence number makes no refused one acceptable: it moves *)
(* up in the window, or out of it.                                         *)
LEMMA RefusalStable ==
    ASSUME NEW rec \in WindowType, NEW d \in Datagrams, NEW e \in Datagrams,
           Refuses(rec, e.seq)
    PROVE  Refuses(Recorded(rec, d), e.seq)
<1> USE DirectoryAssumption
<1>1. /\ d.seq \in Nat \ {0} /\ e.seq \in Nat \ {0}
      /\ rec.highest \in Nat /\ rec.seen \subseteq 0 .. Window - 1
  BY DatagramDomain DEF WindowType
<1>2. /\ rec.highest # 0 /\ e.seq <= rec.highest
      /\ rec.highest - e.seq < Window => rec.highest - e.seq \in rec.seen
  BY <1>1 DEF Refuses, CanAccept
<1>3. CASE d.seq > rec.highest
  <2>1. Recorded(rec, d).highest = d.seq
    BY <1>3 DEF Recorded
  <2>2. SUFFICES ASSUME d.seq - e.seq < Window
                 PROVE  d.seq - e.seq \in Recorded(rec, d).seen
    BY <1>1, <1>2, <1>3, <2>1 DEF Refuses, CanAccept
  <2>3. /\ d.seq - e.seq \in 1 .. Window - 1
        /\ (d.seq - e.seq) - (d.seq - rec.highest) = rec.highest - e.seq
        /\ rec.highest - e.seq < Window
    BY <1>1, <1>2, <1>3, <2>2
  <2> QED BY <1>2, <1>3, <2>3 DEF Recorded, Seen
<1>4. CASE ~(d.seq > rec.highest)
  BY <1>1, <1>2, <1>4 DEF Recorded, Refuses, CanAccept, Seen
<1> QED BY <1>3, <1>4

(* A purge at a time that has come keeps what the invariant speaks of.     *)
LEMMA PurgeRemembers ==
    ASSUME OnceInv, NEW time \in Nat, time <= now
    PROVE  /\ LiveReplay(time) \in [Domains -> WindowType]
           /\ \A d \in Datagrams :
                liveCommits[d] > 0 /\ d.expires > now =>
                  LiveReplay(time)[Domain(d)] = replay[Domain(d)]
<1>1. NoWindow \in WindowType
  BY DEF NoWindow, WindowType
<1>2. LiveReplay(time) \in [Domains -> WindowType]
  BY <1>1 DEF LiveReplay, OnceInv, CoreTypes
<1>3. ASSUME NEW d \in Datagrams, liveCommits[d] > 0, d.expires > now
      PROVE  LiveReplay(time)[Domain(d)] = replay[Domain(d)]
  <2>1. Domain(d) \in Domains /\ d.expires \in Nat
    BY DatagramDomain
  <2>2. replay[Domain(d)].expires >= d.expires
    BY <1>3 DEF OnceInv, Remembered
  <2>3. replay[Domain(d)].expires \in Nat
    BY <2>1 DEF OnceInv, CoreTypes, WindowType
  <2>4. replay[Domain(d)].expires > time
    BY <1>3, <2>1, <2>2, <2>3 DEF OnceInv, CoreTypes
  <2> QED BY <2>1, <2>4 DEF LiveReplay
<1> QED BY <1>2, <1>3

(* So does a step that purges, and changes no history.                     *)
LEMMA PurgeStep ==
    ASSUME OnceInv, NEW time \in Nat, time <= now,
           replay' = LiveReplay(time), now' = now, liveCommits' = liveCommits
    PROVE  replay' \in [Domains -> WindowType] /\ Remembered'
<1>1. replay' \in [Domains -> WindowType]
  BY PurgeRemembers
<1>2. Remembered'
  BY PurgeRemembers DEF OnceInv, Remembered, Domain, Refuses, CanAccept
<1> QED BY <1>1, <1>2

-----------------------------------------------------------------------------
(* The invariant holds initially.                                          *)
LEMMA OnceInit == Init => OnceInv
<1> SUFFICES ASSUME Init PROVE OnceInv
  OBVIOUS
<1>1. CoreTypes
  <2>1. /\ now = 0 /\ now \in Nat
        /\ round = [stage |-> "idle", at |-> 0, targets |-> {}]
        /\ cursors = {} /\ issued \in 0 .. MaxCursors
    BY DirectoryAssumption DEF Init
  <2>2. worker \in [Workers -> {Idle} \cup Opened \cup Serving]
    BY DEF Init
  <2>3. replay \in [Domains -> WindowType] /\ liveCommits \in [Datagrams -> Nat]
    BY DEF Init, NoWindow, WindowType
  <2> QED BY <2>1, <2>2, <2>3 DEF CoreTypes
<1>2. Remembered
  BY DEF Init, Remembered
<1> QED BY <1>1, <1>2 DEF OnceInv

(* commitInbound keeps the invariant.                                      *)
LEMMA CommitStep ==
    ASSUME OnceInv, NEW w \in Workers, worker[w].stage = "commit",
           NEW time \in worker[w].at .. now, Commit(w, time)
    PROVE  OnceInv'
<1> DEFINE d == worker[w].d
           live == LiveReplay(time)
           ok == Admitted(live, d)
<1>1. worker[w] \in Opened
  BY DEF OnceInv, CoreTypes, Idle, Serving
<1>2. d \in Datagrams /\ worker[w].at \in Nat /\ time \in Nat /\ time <= now
  BY <1>1 DEF Opened, OnceInv, CoreTypes
<1>3. Domain(d) \in Domains /\ d.expires \in Nat
  BY <1>2, DatagramDomain
<1>4. /\ live \in [Domains -> WindowType]
      /\ \A e \in Datagrams : liveCommits[e] > 0 /\ e.expires > now =>
            live[Domain(e)] = replay[Domain(e)]
  BY <1>2, PurgeRemembers
<1>5. worker' \in [Workers -> {Idle} \cup Opened \cup Serving]
  <2>1. [worker[w] EXCEPT !.stage = "serve"] \in Opened
    BY <1>1 DEF Opened
  <2> QED BY <2>1 DEF Commit, Move, Goto, OnceInv, CoreTypes
<1>6. now' = now /\ round' = round /\ issued' = issued /\ cursors' \subseteq cursors
  BY DEF Commit, LiveCursors
<1>7. CASE ~ok
  <2>1. replay' = live /\ liveCommits' = liveCommits
    BY <1>7 DEF Commit
  <2>2. replay' \in [Domains -> WindowType] /\ Remembered'
    BY <1>2, <1>6, <2>1, PurgeStep
  <2> QED BY <1>5, <1>6, <2>1, <2>2 DEF OnceInv, CoreTypes
<1>8. CASE ok
  <2>1. /\ replay' = [live EXCEPT ![Domain(d)] = Recorded(live[Domain(d)], d)]
        /\ liveCommits' = IF d.expires > now THEN [liveCommits EXCEPT ![d] = @ + 1]
                          ELSE liveCommits
    BY <1>8 DEF Commit
  <2>2. CanAccept(live[Domain(d)], d.seq) /\ live[Domain(d)] \in WindowType
    BY <1>3, <1>4, <1>8 DEF Admitted
  <2>3. /\ Recorded(live[Domain(d)], d) \in WindowType
        /\ Recorded(live[Domain(d)], d).expires >= d.expires
        /\ Recorded(live[Domain(d)], d).expires >= live[Domain(d)].expires
        /\ Refuses(Recorded(live[Domain(d)], d), d.seq)
    BY <1>2, <2>2, RecordedType, RecordedRefuses
  <2>4. replay' \in [Domains -> WindowType]
    BY <1>3, <1>4, <2>1, <2>3
  <2>5. liveCommits' \in [Datagrams -> Nat]
    BY <1>2, <2>1 DEF OnceInv, CoreTypes
  <2>6. ASSUME NEW e \in Datagrams
        PROVE  /\ liveCommits'[e] <= 1
               /\ liveCommits'[e] > 0 /\ e.expires > now =>
                    /\ replay'[Domain(e)].expires >= e.expires
                    /\ Refuses(replay'[Domain(e)], e.seq)
    <3>1. /\ Domain(e) \in Domains /\ e.expires \in Nat /\ e.seq \in Nat
          /\ liveCommits[e] \in Nat /\ liveCommits[e] <= 1
      BY DatagramDomain DEF OnceInv, CoreTypes, Remembered
    <3>2. CASE e = d
      <4>1. CASE d.expires > now
        <5>1. liveCommits[d] = 0
          BY <1>4, <2>2, <3>1, <3>2, <4>1 DEF OnceInv, Remembered, Refuses
        <5>2. liveCommits'[d] = 1
          BY <1>2, <2>1, <4>1, <5>1 DEF OnceInv, CoreTypes
        <5>3. replay'[Domain(d)] = Recorded(live[Domain(d)], d)
          BY <1>3, <1>4, <2>1
        <5> QED BY <2>3, <3>2, <5>2, <5>3
      <4>2. CASE ~(d.expires > now)
        BY <2>1, <3>1, <3>2, <4>2
      <4> QED BY <4>1, <4>2
    <3>3. CASE e # d
      <4>1. liveCommits'[e] = liveCommits[e]
        BY <1>2, <2>1, <3>3 DEF OnceInv, CoreTypes
      <4>2. ASSUME liveCommits[e] > 0, e.expires > now
            PROVE  /\ replay'[Domain(e)].expires >= e.expires
                   /\ Refuses(replay'[Domain(e)], e.seq)
        <5>1. /\ live[Domain(e)].expires >= e.expires
              /\ Refuses(live[Domain(e)], e.seq)
              /\ live[Domain(e)] \in WindowType
          BY <1>4, <3>1, <4>2 DEF OnceInv, Remembered
        <5>2. CASE Domain(e) # Domain(d)
          BY <1>3, <1>4, <2>1, <3>1, <5>1, <5>2
        <5>3. CASE Domain(e) = Domain(d)
          <6>1. replay'[Domain(e)] = Recorded(live[Domain(e)], d)
            BY <1>3, <1>4, <2>1, <5>3
          <6>2. Refuses(Recorded(live[Domain(e)], d), e.seq)
            BY <1>2, <5>1, RefusalStable
          <6>3. Recorded(live[Domain(e)], d).expires >= e.expires
            BY <2>3, <3>1, <5>1, <5>3 DEF WindowType
          <6> QED BY <6>1, <6>2, <6>3
        <5> QED BY <5>2, <5>3
      <4> QED BY <3>1, <4>1, <4>2
    <3> QED BY <3>2, <3>3
  <2>7. Remembered'
    BY <1>6, <2>6 DEF Remembered, Domain, Refuses, CanAccept
  <2> QED BY <1>5, <1>6, <2>4, <2>5, <2>7 DEF OnceInv, CoreTypes
<1> QED BY <1>7, <1>8

(* Every step keeps the invariant.                                         *)
LEMMA OnceNext == OnceInv /\ [Next]_vars => OnceInv'
<1> SUFFICES ASSUME OnceInv, [Next]_vars PROVE OnceInv'
  OBVIOUS
<1> USE DirectoryAssumption
<1>1. ASSUME NEW w \in Workers, NEW d \in Datagrams, Open(w, d)
      PROVE  OnceInv'
  <2>1. [stage |-> "commit", d |-> d, at |-> now] \in Opened
    BY DEF Opened, OnceInv, CoreTypes
  <2> QED BY <1>1, <2>1 DEF Open, Goto, OnceInv, CoreTypes, Remembered, Refuses, CanAccept, Domain
<1>2. ASSUME NEW w \in Workers, worker[w].stage = "commit",
             NEW time \in worker[w].at .. now, Commit(w, time)
      PROVE  OnceInv'
  BY <1>2, CommitStep
<1>3. ASSUME NEW w \in Workers,
             ServeParticipants(w) \/ ServeSnapshot(w) \/ CheckSession(w)
               \/ LastPage(w) \/ SendPage(w)
      PROVE  OnceInv'
  <2>1. worker' \in [Workers -> {Idle} \cup Opened \cup Serving]
    <3>1. CASE ServeParticipants(w) \/ SendPage(w)
      BY <3>1 DEF ServeParticipants, SendPage, Goto, OnceInv, CoreTypes
    <3>2. CASE ServeSnapshot(w)
      <4>1. worker[w] \in Opened
        BY <3>2 DEF ServeSnapshot, At, OnceInv, CoreTypes, Idle, Serving
      <4>2. [stage |-> "page", d |-> worker[w].d, channel |-> worker[w].d.channel,
             page |-> 0, expires |-> now + SessionTTL] \in Serving
        BY <4>1 DEF Opened, Serving, DatagramType, OnceInv, CoreTypes
      <4> QED BY <3>2, <4>2 DEF ServeSnapshot, Goto, OnceInv, CoreTypes
    <3>3. CASE CheckSession(w) \/ LastPage(w)
      <4>1. worker[w] \in Serving
        BY <3>3 DEF CheckSession, LastPage, At, OnceInv, CoreTypes, Idle, Opened
      <4>2. \A s \in {"page", "send"} : [worker[w] EXCEPT !.stage = s] \in Serving
        BY <4>1 DEF Serving
      <4> QED BY <3>3, <4>2 DEF CheckSession, LastPage, Move, Goto, OnceInv, CoreTypes
    <3> QED BY <1>3, <3>1, <3>2, <3>3
  <2>2. UNCHANGED <<now, replay, cursors, issued, round, liveCommits>>
    BY <1>3 DEF ServeParticipants, ServeSnapshot, CheckSession, LastPage, SendPage
  <2> QED BY <2>1, <2>2 DEF OnceInv, CoreTypes, Remembered, Refuses, CanAccept, Domain
<1>4. ASSUME NEW w \in Workers, TakeCursor(w) \/ StoreCursor(w)
      PROVE  OnceInv'
  <2>1. /\ replay' = LiveReplay(now)
        /\ UNCHANGED <<now, round, liveCommits>>
    BY <1>4 DEF TakeCursor, StoreCursor
  <2>2. replay' \in [Domains -> WindowType] /\ Remembered'
    BY <2>1, PurgeStep DEF OnceInv, CoreTypes
  <2>3. worker' \in [Workers -> {Idle} \cup Opened \cup Serving]
    <3>1. CASE TakeCursor(w)
      <4>1. worker[w] \in Opened
        BY <3>1 DEF TakeCursor, At, OnceInv, CoreTypes, Idle, Serving
      <4>2. \/ worker' = [worker EXCEPT ![w] = Idle]
            \/ \E c \in cursors :
                 worker' = [worker EXCEPT ![w] =
                              [stage |-> "session", d |-> worker[w].d,
                               channel |-> c.channel, page |-> c.page,
                               expires |-> c.expires]]
        BY <3>1 DEF TakeCursor, Goto, LiveCursors
      <4>3. \A c \in cursors :
              [stage |-> "session", d |-> worker[w].d, channel |-> c.channel,
               page |-> c.page, expires |-> c.expires] \in Serving
        BY <4>1 DEF Opened, Serving, OnceInv, CoreTypes, CursorType
      <4> QED BY <4>2, <4>3 DEF OnceInv, CoreTypes
    <3>2. CASE StoreCursor(w)
      <4>1. worker[w] \in Serving
        BY <3>2 DEF StoreCursor, At, OnceInv, CoreTypes, Idle, Opened
      <4>2. [worker[w] EXCEPT !.stage = "send"] \in Serving
        BY <4>1 DEF Serving
      <4> QED BY <3>2, <4>2 DEF StoreCursor, Move, OnceInv, CoreTypes
    <3> QED BY <1>4, <3>1, <3>2
  <2>4. cursors' \subseteq CursorType /\ issued' \in 0 .. MaxCursors
    <3>1. CASE TakeCursor(w)
      BY <3>1 DEF TakeCursor, Taken, LiveCursors, OnceInv, CoreTypes
    <3>2. CASE StoreCursor(w)
      <4>1. worker[w] \in Serving
        BY <3>2 DEF StoreCursor, At, OnceInv, CoreTypes, Idle, Opened
      <4>2. [id |-> issued + 1, channel |-> worker[w].channel,
             page |-> worker[w].page + 1, expires |-> worker[w].expires] \in CursorType
        BY <3>2, <4>1 DEF StoreCursor, Serving, CursorType, OnceInv, CoreTypes
      <4>3. cursors' \subseteq CursorType
        BY <3>2, <4>2 DEF StoreCursor, LiveCursors, OnceInv, CoreTypes
      <4> QED BY <3>2, <4>3 DEF StoreCursor, OnceInv, CoreTypes
    <3> QED BY <1>4, <3>1, <3>2
  <2> QED BY <2>1, <2>2, <2>3, <2>4 DEF OnceInv, CoreTypes
<1>5. ASSUME PublishStart \/ PublishSend
      PROVE  OnceInv'
  <2>1. UNCHANGED <<now, worker, replay, cursors, issued, liveCommits>>
    BY <1>5 DEF PublishStart, PublishSend
  <2>2. PICK st, ta : \/ round' = [stage |-> st, at |-> now, targets |-> ta]
                      \/ round' = [stage |-> st, at |-> round.at, targets |-> ta]
    <3>1. CASE PublishStart
      BY <3>1 DEF PublishStart
    <3>2. CASE PublishSend
      <4>1. \/ \E ta : round' = [round EXCEPT !.targets = ta]
            \/ round' = [round EXCEPT !.stage = "idle"]
        BY <3>2 DEF PublishSend
      <4>2. round = [stage |-> round.stage, at |-> round.at, targets |-> round.targets]
        BY DEF OnceInv, CoreTypes
      <4> QED BY <4>1, <4>2
    <3> QED BY <1>5, <3>1, <3>2
  <2> QED BY <2>1, <2>2 DEF OnceInv, CoreTypes, Remembered, Refuses, CanAccept, Domain
<1>6. ASSUME PublishCopy
      PROVE  OnceInv'
  <2>1. /\ replay' = LiveReplay(round.at)
        /\ cursors' \subseteq cursors
        /\ UNCHANGED <<now, worker, issued, liveCommits>>
    BY <1>6 DEF PublishCopy, Purge, LiveCursors
  <2>3. PICK T : round' = [round EXCEPT !.stage = "send", !.targets = T]
    BY <1>6 DEF PublishCopy
  <2>4. round' = [stage |-> "send", at |-> round.at, targets |-> T]
    BY <2>3 DEF OnceInv, CoreTypes
  <2>2. replay' \in [Domains -> WindowType] /\ Remembered'
    BY <2>1, PurgeStep DEF OnceInv, CoreTypes
  <2> QED BY <2>1, <2>2, <2>4 DEF OnceInv, CoreTypes
<1>7. ASSUME Cleanup
      PROVE  OnceInv'
  <2>1. /\ replay' = LiveReplay(now)
        /\ cursors' \subseteq cursors
        /\ UNCHANGED <<now, worker, issued, round, liveCommits>>
    BY <1>7 DEF Cleanup, Purge, LiveCursors
  <2>2. replay' \in [Domains -> WindowType] /\ Remembered'
    BY <2>1, PurgeStep DEF OnceInv, CoreTypes
  <2> QED BY <2>1, <2>2 DEF OnceInv, CoreTypes
<1>8. ASSUME Tick
      PROVE  OnceInv'
  <2>1. /\ UNCHANGED <<worker, replay, cursors, issued, round, liveCommits>>
        /\ now' = now + 1
    BY <1>8 DEF Tick
  <2>2. CoreTypes'
    BY <2>1 DEF OnceInv, CoreTypes
  <2>3. ASSUME NEW d \in Datagrams
        PROVE  d.expires > now' => d.expires > now
    BY <2>1, DatagramDomain DEF OnceInv, CoreTypes
  <2>4. Remembered'
    BY <2>1, <2>3 DEF OnceInv, Remembered, Refuses, CanAccept, Domain
  <2> QED BY <2>2, <2>4 DEF OnceInv
<1>9. CASE UNCHANGED vars
  BY <1>9 DEF vars, OnceInv, CoreTypes, Remembered, Refuses, CanAccept, Domain
<1> QED
  BY <1>1, <1>2, <1>3, <1>4, <1>5, <1>6, <1>7, <1>8, <1>9 DEF Next, Step, At

(* A datagram takes effect at most once while it is valid: its replay      *)
(* record is purged no earlier than it, and the sliding window never takes *)
(* it a second time (commitInbound, purgeLocked, directoryReplayState).    *)
THEOREM DatagramSafe == Spec => []LiveDatagramOnce
<1>1. OnceInv => LiveDatagramOnce
  BY DEF OnceInv, Remembered, LiveDatagramOnce
<1> QED BY <1>1, OnceInit, OnceNext, PTL DEF Spec

-----------------------------------------------------------------------------
(* The registrations: types and bounds of the tables, and that the         *)
(* deadline of a registration is no later than its endpoint's last         *)
(* confirmation allows.                                                    *)
Rest ==
    /\ registrations \in [Clients -> RegistrationType \cup {NoRegistration}]
    /\ round.stage \in {"idle", "copy", "send"} /\ round.targets \subseteq TargetType
    /\ commits \in [Datagrams -> Nat]
    /\ confirmed \in [Clients \X Addrs -> Int]
    /\ continued \in [1 .. MaxCursors -> Nat]

Bounds ==
    /\ Cardinality({x \in Domains : replay[x] # NoWindow}) <= MaxReplayDomains
    /\ Cardinality({x \in Clients : registrations[x] # NoRegistration}) <= MaxRegistrations

Confirmed ==
    \A x \in Clients :
        registrations[x] # NoRegistration =>
            registrations[x].deadline <= confirmed[<<x, registrations[x].addr>>] + RegistrationTTL

RegInv == Rest /\ Bounds /\ Confirmed /\ PublishedOnlyToConfirmed

(* A table with room, or one that has the key already, keeps its bound     *)
(* when entries go and that key is set.                                    *)
LEMMA BoundKept ==
    ASSUME NEW S, IsFiniteSet(S), NEW A \in SUBSET S, NEW B \in SUBSET S, NEW k, NEW max \in Nat,
           B \subseteq A \cup {k}, k \in A \/ Cardinality(A) < max, Cardinality(A) <= max
    PROVE  Cardinality(B) <= max
<1>1. IsFiniteSet(A) /\ IsFiniteSet(A \cup {k})
  BY FS_Subset, FS_AddElement
<1>2. Cardinality(A) \in Nat /\ Cardinality(A \cup {k}) \in Nat
  BY <1>1, FS_CardinalityType
<1>3. Cardinality(A \cup {k}) <= max
  <2>1. Cardinality(A \cup {k}) = IF k \in A THEN Cardinality(A) ELSE Cardinality(A) + 1
    BY <1>1, FS_AddElement
  <2> QED BY <1>2, <2>1
<1>4. Cardinality(B) \in Nat /\ Cardinality(B) <= Cardinality(A \cup {k})
  BY <1>1, FS_Subset, FS_CardinalityType
<1> QED BY <1>2, <1>3, <1>4

LEMMA FiniteTables == IsFiniteSet(Domains) /\ IsFiniteSet(Clients)
BY DirectoryAssumption, FS_Product DEF Domains, Clients

LEMMA DatagramClient ==
    ASSUME NEW d \in Datagrams
    PROVE  Client(d) \in Clients /\ d.addr \in Addrs
BY DirectoryAssumption DEF DatagramType, Client, Clients

(* A purge drops entries and changes none.                                 *)
LEMMA PurgeRegistrations ==
    ASSUME OnceInv, RegInv, NEW time \in Nat
    PROVE  /\ LiveRegistrations(time) \in [Clients -> RegistrationType \cup {NoRegistration}]
           /\ \A x \in Clients : LiveRegistrations(time)[x] # NoRegistration =>
                /\ LiveRegistrations(time)[x] = registrations[x]
                /\ registrations[x].deadline > time
           /\ \A x \in Domains : LiveReplay(time)[x] # NoWindow => replay[x] # NoWindow
           /\ Cardinality({x \in Domains : LiveReplay(time)[x] # NoWindow}) <= MaxReplayDomains
           /\ Cardinality({x \in Clients : LiveRegistrations(time)[x] # NoRegistration})
                <= MaxRegistrations
<1>1. /\ \A x \in Clients : LiveRegistrations(time)[x] # NoRegistration =>
           LiveRegistrations(time)[x] = registrations[x] /\ registrations[x].deadline > time
      /\ \A x \in Domains : LiveReplay(time)[x] # NoWindow => replay[x] # NoWindow
  BY DEF LiveRegistrations, LiveReplay
<1>2. LiveRegistrations(time) \in [Clients -> RegistrationType \cup {NoRegistration}]
  BY DEF LiveRegistrations, RegInv, Rest
<1>3. MaxReplayDomains \in Nat /\ MaxRegistrations \in Nat
  BY DirectoryAssumption
<1> DEFINE A == {x \in Domains : replay[x] # NoWindow}
           B == {x \in Domains : LiveReplay(time)[x] # NoWindow}
           C == {x \in Clients : registrations[x] # NoRegistration}
           D == {x \in Clients : LiveRegistrations(time)[x] # NoRegistration}
<1>4. B \subseteq A /\ D \subseteq C /\ A \subseteq Domains /\ C \subseteq Clients
  BY <1>1
<1>5. IsFiniteSet(A) /\ IsFiniteSet(C)
  BY <1>4, FiniteTables, FS_Subset
<1>6. /\ Cardinality(A) \in Nat /\ Cardinality(B) \in Nat /\ Cardinality(B) <= Cardinality(A)
      /\ Cardinality(C) \in Nat /\ Cardinality(D) \in Nat /\ Cardinality(D) <= Cardinality(C)
  BY <1>4, <1>5, FS_Subset, FS_CardinalityType
<1>7. Cardinality(A) <= MaxReplayDomains /\ Cardinality(C) <= MaxRegistrations
  BY DEF RegInv, Bounds
<1>8. Cardinality(B) <= MaxReplayDomains /\ Cardinality(D) <= MaxRegistrations
  BY <1>3, <1>6, <1>7
<1> QED BY <1>1, <1>2, <1>8

(* A step that purges, and changes nothing else of the registry but the    *)
(* round.                                                                  *)
LEMMA PurgeRegStep ==
    ASSUME OnceInv, RegInv, NEW time \in Nat,
           replay' = LiveReplay(time), registrations' = LiveRegistrations(time),
           UNCHANGED <<commits, confirmed, continued>>
    PROVE  /\ registrations' \in [Clients -> RegistrationType \cup {NoRegistration}]
           /\ Bounds' /\ Confirmed'
           /\ \A x \in Clients : registrations'[x] # NoRegistration =>
                /\ registrations'[x] \in RegistrationType
                /\ confirmed[<<x, registrations'[x].addr>>] + RegistrationTTL > time
<1>1. /\ registrations' \in [Clients -> RegistrationType \cup {NoRegistration}]
      /\ Bounds'
  BY PurgeRegistrations DEF Bounds
<1>2. ASSUME NEW x \in Clients, registrations'[x] # NoRegistration
      PROVE  /\ registrations'[x].deadline <= confirmed[<<x, registrations'[x].addr>>] + RegistrationTTL
             /\ registrations'[x] \in RegistrationType
             /\ confirmed[<<x, registrations'[x].addr>>] + RegistrationTTL > time
  <2>1. registrations'[x] = registrations[x] /\ registrations[x].deadline > time
    BY <1>2, PurgeRegistrations
  <2>2. registrations[x] # NoRegistration /\ registrations'[x] \in RegistrationType
    BY <1>1, <1>2, <2>1
  <2>3. registrations[x].deadline \in Nat /\ registrations[x].addr \in Addrs
    BY <2>1, <2>2 DEF RegistrationType
  <2>4. registrations[x].deadline <= confirmed[<<x, registrations[x].addr>>] + RegistrationTTL
    BY <2>2 DEF RegInv, Confirmed
  <2>5. confirmed[<<x, registrations[x].addr>>] \in Int /\ RegistrationTTL \in Nat
    BY <2>3, DirectoryAssumption DEF RegInv, Rest
  <2> QED BY <2>1, <2>2, <2>3, <2>4, <2>5
<1>3. Confirmed'
  BY <1>2 DEF Confirmed
<1> QED BY <1>1, <1>2, <1>3

LEMMA RegInit == Init => RegInv
<1> SUFFICES ASSUME Init PROVE RegInv
  OBVIOUS
<1> USE DirectoryAssumption
<1>1. Rest
  BY DEF Init, Rest
<1>2. /\ {x \in Domains : replay[x] # NoWindow} = {}
      /\ {x \in Clients : registrations[x] # NoRegistration} = {}
  BY DEF Init
<1>3. Bounds
  BY <1>2, FS_EmptySet DEF Bounds
<1>4. Confirmed /\ PublishedOnlyToConfirmed
  BY DEF Init, Confirmed, PublishedOnlyToConfirmed
<1> QED BY <1>1, <1>3, <1>4 DEF RegInv

(* commitInbound: a register or a heartbeat moves the deadline together    *)
(* with the confirmation of the endpoint that the entry names.             *)
LEMMA CommitReg ==
    ASSUME OnceInv, RegInv, NEW w \in Workers, worker[w].stage = "commit",
           NEW time \in worker[w].at .. now, Commit(w, time)
    PROVE  RegInv'
<1> DEFINE d == worker[w].d
           live == LiveReplay(time)
           regs == LiveRegistrations(time)
           ok == Admitted(live, d)
           reg == ok /\ Registers(regs, d)
<1> USE DirectoryAssumption
<1>1. worker[w] \in Opened
  BY DEF OnceInv, CoreTypes, Idle, Serving
<1>2. d \in Datagrams /\ time \in Nat
  BY <1>1 DEF Opened, OnceInv, CoreTypes
<1>3. /\ Domain(d) \in Domains /\ Client(d) \in Clients /\ d.addr \in Addrs
      /\ d.type \in {"request", "register", "heartbeat"}
  BY <1>2, DatagramDomain, DatagramClient DEF DatagramType
<1>4. /\ regs \in [Clients -> RegistrationType \cup {NoRegistration}]
      /\ Cardinality({x \in Domains : live[x] # NoWindow}) <= MaxReplayDomains
      /\ Cardinality({x \in Clients : regs[x] # NoRegistration}) <= MaxRegistrations
      /\ \A x \in Clients : regs[x] # NoRegistration => regs[x] = registrations[x]
      /\ DOMAIN live = Domains
  BY <1>2, PurgeRegistrations DEF LiveReplay
<1>5. /\ replay' = IF ok THEN [live EXCEPT ![Domain(d)] = Recorded(live[Domain(d)], d)] ELSE live
      /\ registrations' = IF reg THEN [regs EXCEPT ![Client(d)] = Registration(regs[Client(d)], d, time)]
                          ELSE regs
      /\ confirmed' = IF reg THEN [confirmed EXCEPT ![<<Client(d), d.addr>>] =
                                     Later(confirmed[<<Client(d), d.addr>>], time)]
                      ELSE confirmed
      /\ UNCHANGED <<now, round, continued>>
      /\ commits' = IF ok THEN [commits EXCEPT ![d] = @ + 1] ELSE commits
  BY DEF Commit
<1>6. ASSUME reg
      PROVE  Registration(regs[Client(d)], d, time) = [addr |-> d.addr, deadline |-> time + RegistrationTTL]
  <2>1. CASE d.type = "register"
    BY <2>1 DEF Registration
  <2>2. CASE d.type # "register"
    <3>1. d.type = "heartbeat"
      BY <1>3, <1>6, <2>2 DEF Registers
    <3>2. regs[Client(d)].addr = d.addr
      BY <1>6, <3>1 DEF Registers
    <3> QED BY <2>2, <3>2 DEF Registration
  <2> QED BY <2>1, <2>2
<1>7. \A x \in Clients \X Addrs : confirmed'[x] \in Int /\ confirmed[x] \in Int /\ confirmed'[x] >= confirmed[x]
  <2>1. CASE reg
    <3> DEFINE k == <<Client(d), d.addr>>
               v == Later(confirmed[k], time)
    <3>1. k \in Clients \X Addrs /\ confirmed' = [confirmed EXCEPT ![k] = v]
      BY <1>3, <1>5, <2>1
    <3>2. confirmed[k] \in Int
      BY <3>1 DEF RegInv, Rest
    <3>3. v \in Int /\ v >= confirmed[k]
      BY <1>2, <3>2 DEF Later
    <3> HIDE DEF k, v
    <3> QED BY <3>1, <3>2, <3>3 DEF RegInv, Rest
  <2>2. CASE ~reg
    BY <1>5, <2>2 DEF RegInv, Rest
  <2> QED BY <2>1, <2>2
<1>8. Rest'
  <2>1. registrations' \in [Clients -> RegistrationType \cup {NoRegistration}]
    <3>1. CASE reg
      <4>1. [addr |-> d.addr, deadline |-> time + RegistrationTTL] \in RegistrationType
        BY <1>2, <1>3 DEF RegistrationType
      <4>2. registrations' = [regs EXCEPT ![Client(d)] = [addr |-> d.addr, deadline |-> time + RegistrationTTL]]
        BY <1>5, <1>6, <3>1
      <4> HIDE DEF regs
      <4> QED BY <1>3, <1>4, <4>1, <4>2
    <3>2. CASE ~reg
      BY <1>4, <1>5, <3>2
    <3> QED BY <3>1, <3>2
  <2>2. commits' \in [Datagrams -> Nat]
    <3>1. \A e \in Datagrams : [commits EXCEPT ![e] = @ + 1] \in [Datagrams -> Nat]
      BY DEF RegInv, Rest
    <3> HIDE DEF d, ok
    <3> QED BY <1>2, <1>5, <3>1 DEF RegInv, Rest
  <2>3. confirmed' \in [Clients \X Addrs -> Int]
    <3>1. \E k, v : confirmed' = [confirmed EXCEPT ![k] = v] \/ confirmed' = confirmed
      BY <1>5, Zenon
    <3>2. confirmed' = [x \in Clients \X Addrs |-> confirmed'[x]]
      BY <3>1 DEF RegInv, Rest
    <3> QED BY <1>7, <3>2
  <2> QED BY <1>5, <2>1, <2>2, <2>3 DEF RegInv, Rest
<1>9. Bounds'
  <2>1. Cardinality({x \in Domains : replay'[x] # NoWindow}) <= MaxReplayDomains
    <3> DEFINE A == {x \in Domains : live[x] # NoWindow}
               B == {x \in Domains : replay'[x] # NoWindow}
    <3>1. CASE ok
      <4>1. Domain(d) \in A \/ Cardinality(A) < MaxReplayDomains
        BY <1>3, <1>4, <3>1 DEF Admitted, Count
      <4>2. B \subseteq A \cup {Domain(d)}
        <5> HIDE DEF live
        <5> QED BY <1>3, <1>4, <1>5, <3>1
      <4> HIDE DEF A, B
      <4> QED BY <1>4, <4>1, <4>2, BoundKept, FiniteTables DEF A, B
    <3>2. CASE ~ok
      BY <1>4, <1>5, <3>2
    <3> QED BY <3>1, <3>2
  <2>2. Cardinality({x \in Clients : registrations'[x] # NoRegistration}) <= MaxRegistrations
    <3> DEFINE A == {x \in Clients : regs[x] # NoRegistration}
               B == {x \in Clients : registrations'[x] # NoRegistration}
    <3>1. CASE reg
      <4>0. DOMAIN regs = Clients
        BY DEF LiveRegistrations
      <4>1. Client(d) \in A \/ Cardinality(A) < MaxRegistrations
        BY <1>3, <3>1, <4>0 DEF Registers, Count
      <4>2. B \subseteq A \cup {Client(d)}
        <5> HIDE DEF regs
        <5> QED BY <1>3, <1>5, <3>1, <4>0
      <4>3. /\ A \in SUBSET Clients /\ B \in SUBSET Clients /\ IsFiniteSet(Clients)
            /\ Cardinality(A) <= MaxRegistrations /\ MaxRegistrations \in Nat
        BY <1>4, FiniteTables
      <4>4. Cardinality(B) <= MaxRegistrations
        <5> HIDE DEF A, B
        <5> QED BY <4>1, <4>2, <4>3, BoundKept
      <4> QED BY <4>4
    <3>2. CASE ~reg
      BY <1>4, <1>5, <3>2
    <3> QED BY <3>1, <3>2
  <2> QED BY <2>1, <2>2 DEF Bounds
<1>10. Confirmed'
  <2> SUFFICES ASSUME NEW x \in Clients, registrations'[x] # NoRegistration
               PROVE  registrations'[x].deadline <=
                        confirmed'[<<x, registrations'[x].addr>>] + RegistrationTTL
    BY DEF Confirmed
  <2>1. CASE reg /\ x = Client(d)
    <3>1. registrations'[x] = [addr |-> d.addr, deadline |-> time + RegistrationTTL]
      <4>1. registrations'[x] = Registration(regs[Client(d)], d, time)
        <5> HIDE DEF regs
        <5> QED BY <1>3, <1>4, <1>5, <2>1
      <4> QED BY <1>6, <2>1, <4>1
    <3>2. <<x, d.addr>> \in Clients \X Addrs
      BY <1>3
    <3>3. confirmed'[<<x, d.addr>>] = Later(confirmed[<<x, d.addr>>], time)
      BY <1>5, <2>1, <3>2 DEF RegInv, Rest
    <3>4. confirmed[<<x, d.addr>>] \in Int
      BY <3>2 DEF RegInv, Rest
    <3>5. Later(confirmed[<<x, d.addr>>], time) >= time /\ Later(confirmed[<<x, d.addr>>], time) \in Int
      BY <1>2, <3>4 DEF Later
    <3>6. /\ registrations'[x].addr = d.addr
          /\ registrations'[x].deadline = time + RegistrationTTL
      BY <3>1
    <3> QED BY <1>2, <3>3, <3>5, <3>6
  <2>2. CASE ~(reg /\ x = Client(d))
    <3>1. registrations'[x] = regs[x]
      <4> HIDE DEF regs
      <4> QED BY <1>4, <1>5, <2>2
    <3>2. regs[x] = registrations[x] /\ registrations[x] # NoRegistration /\ registrations[x] \in RegistrationType
      BY <1>4, <3>1
    <3>3. registrations[x].deadline \in Nat /\ registrations[x].addr \in Addrs
      BY <3>2 DEF RegistrationType
    <3>4. registrations[x].deadline <= confirmed[<<x, registrations[x].addr>>] + RegistrationTTL
      BY <3>2 DEF RegInv, Confirmed
    <3>5. /\ confirmed'[<<x, registrations[x].addr>>] \in Int
          /\ confirmed[<<x, registrations[x].addr>>] \in Int
          /\ confirmed'[<<x, registrations[x].addr>>] >= confirmed[<<x, registrations[x].addr>>]
      BY <1>7, <3>3
    <3> QED BY <3>1, <3>2, <3>3, <3>4, <3>5
  <2> QED BY <2>1, <2>2
<1>11. PublishedOnlyToConfirmed'
  <2> SUFFICES ASSUME NEW t \in round.targets
               PROVE  confirmed'[<<t.client, t.addr>>] + RegistrationTTL > round.at
    BY <1>5 DEF PublishedOnlyToConfirmed
  <2>1. t.client \in Clients /\ t.addr \in Addrs
    BY DEF RegInv, Rest, TargetType
  <2>2. confirmed[<<t.client, t.addr>>] + RegistrationTTL > round.at
    BY DEF RegInv, PublishedOnlyToConfirmed
  <2>3. /\ confirmed'[<<t.client, t.addr>>] \in Int
        /\ confirmed[<<t.client, t.addr>>] \in Int
        /\ confirmed'[<<t.client, t.addr>>] >= confirmed[<<t.client, t.addr>>]
    BY <1>7, <2>1
  <2>4. round.at \in Nat
    BY DEF OnceInv, CoreTypes
  <2> QED BY <2>2, <2>3, <2>4
<1> QED BY <1>8, <1>9, <1>10, <1>11 DEF RegInv

(* Every step keeps it.                                                    *)
LEMMA RegNext == OnceInv /\ RegInv /\ [Next]_vars => RegInv'
<1> SUFFICES ASSUME OnceInv, RegInv, [Next]_vars PROVE RegInv'
  OBVIOUS
<1> USE DirectoryAssumption
<1>1. ASSUME UNCHANGED <<replay, registrations, round, commits, confirmed>>,
             continued' \in [1 .. MaxCursors -> Nat]
      PROVE  RegInv'
  BY <1>1 DEF RegInv, Rest, Bounds, Confirmed, PublishedOnlyToConfirmed
<1>2. ASSUME NEW w \in Workers, NEW d \in Datagrams, Open(w, d)
      PROVE  RegInv'
  BY <1>1, <1>2 DEF Open, RegInv, Rest
<1>3. ASSUME NEW w \in Workers,
             ServeParticipants(w) \/ ServeSnapshot(w) \/ CheckSession(w) \/ LastPage(w) \/ Tick
      PROVE  RegInv'
  <2>1. UNCHANGED <<replay, registrations, round, commits, confirmed, continued>>
    BY <1>3 DEF ServeParticipants, ServeSnapshot, CheckSession, LastPage, Tick
  <2> QED BY <1>1, <2>1 DEF RegInv, Rest
<1>4. ASSUME NEW w \in Workers, SendPage(w)
      PROVE  RegInv'
  <2>1. /\ UNCHANGED <<replay, registrations, round, commits, confirmed>>
        /\ continued' = IF worker[w].d.cursor > 0 THEN [continued EXCEPT ![worker[w].d.cursor] = @ + 1]
                        ELSE continued
    BY <1>4 DEF SendPage
  <2>2. continued' \in [1 .. MaxCursors -> Nat]
    <3> DEFINE S == 1 .. MaxCursors
    <3>0. continued \in [S -> Nat]
      BY DEF RegInv, Rest
    <3> HIDE DEF S
    <3>1. ASSUME NEW k PROVE [continued EXCEPT ![k] = @ + 1] \in [S -> Nat]
      <4>1. CASE k \in S
        <5>1. continued[k] + 1 \in Nat
          BY <3>0, <4>1
        <5>2. \A v \in Nat : [continued EXCEPT ![k] = v] \in [S -> Nat]
          BY <3>0
        <5> QED BY <5>1, <5>2
      <4>2. CASE k \notin S
        <5>1. \A v : [continued EXCEPT ![k] = v] \in [S -> Nat]
          BY <3>0, <4>2
        <5> QED BY <5>1
      <4> QED BY <4>1, <4>2
    <3> QED BY <2>1, <3>0, <3>1 DEF S
  <2> QED BY <1>1, <2>1, <2>2
<1>5. ASSUME NEW w \in Workers, worker[w].stage = "commit",
             NEW time \in worker[w].at .. now, Commit(w, time)
      PROVE  RegInv'
  BY <1>5, CommitReg
<1>6. ASSUME NEW w \in Workers, TakeCursor(w) \/ StoreCursor(w) \/ Cleanup
      PROVE  RegInv'
  <2>1. /\ replay' = LiveReplay(now) /\ registrations' = LiveRegistrations(now)
        /\ UNCHANGED <<round, commits, confirmed, continued>>
    BY <1>6 DEF TakeCursor, StoreCursor, Cleanup, Purge
  <2>2. /\ registrations' \in [Clients -> RegistrationType \cup {NoRegistration}]
        /\ Bounds' /\ Confirmed'
    BY <2>1, PurgeRegStep DEF OnceInv, CoreTypes
  <2>3. Rest' /\ PublishedOnlyToConfirmed'
    BY <2>1, <2>2 DEF RegInv, Rest, PublishedOnlyToConfirmed
  <2> QED BY <2>2, <2>3 DEF RegInv
<1>7. ASSUME PublishStart \/ PublishSend
      PROVE  RegInv'
  <2>1. UNCHANGED <<replay, registrations, commits, confirmed, continued>>
    BY <1>7 DEF PublishStart, PublishSend
  <2>2. /\ round'.stage \in {"idle", "copy", "send"}
        /\ round'.targets = {} \/ (round'.targets \subseteq round.targets /\ round'.at = round.at)
    <3>1. CASE PublishStart
      BY <3>1 DEF PublishStart
    <3>2. CASE PublishSend
      <4>1. \/ \E t : round' = [round EXCEPT !.targets = round.targets \ {t}]
            \/ round' = [round EXCEPT !.stage = "idle"]
        BY <3>2 DEF PublishSend
      <4>2. round = [stage |-> round.stage, at |-> round.at, targets |-> round.targets]
        BY DEF OnceInv, CoreTypes
      <4> QED BY <4>1, <4>2 DEF RegInv, Rest
    <3> QED BY <1>7, <3>1, <3>2
  <2>3. Rest' /\ PublishedOnlyToConfirmed'
    BY <2>1, <2>2 DEF RegInv, Rest, PublishedOnlyToConfirmed
  <2>4. Bounds' /\ Confirmed'
    BY <2>1 DEF RegInv, Bounds, Confirmed
  <2> QED BY <2>3, <2>4 DEF RegInv
<1>8. ASSUME PublishCopy
      PROVE  RegInv'
  <2>1. /\ replay' = LiveReplay(round.at) /\ registrations' = LiveRegistrations(round.at)
        /\ UNCHANGED <<commits, confirmed, continued>>
    BY <1>8 DEF PublishCopy, Purge
  <2>2. /\ registrations' \in [Clients -> RegistrationType \cup {NoRegistration}]
        /\ Bounds' /\ Confirmed'
        /\ \A x \in Clients : registrations'[x] # NoRegistration =>
             /\ registrations'[x] \in RegistrationType
             /\ confirmed[<<x, registrations'[x].addr>>] + RegistrationTTL > round.at
    BY <2>1, PurgeRegStep DEF OnceInv, CoreTypes
  <2>3. PICK T : /\ round' = [round EXCEPT !.stage = "send", !.targets = T]
                 /\ T = {[client |-> x, addr |-> registrations'[x].addr] :
                           x \in {y \in Clients : registrations'[y] # NoRegistration}}
    BY <1>8 DEF PublishCopy
  <2>4. round'.stage = "send" /\ round'.at = round.at /\ round'.targets = T
    <3>1. round = [stage |-> round.stage, at |-> round.at, targets |-> round.targets]
      BY DEF OnceInv, CoreTypes
    <3> QED BY <2>3, <3>1
  <2>5. \A t \in T : \E x \in Clients : /\ t.client = x /\ t.addr = registrations'[x].addr
                                        /\ t = [client |-> x, addr |-> registrations'[x].addr]
                                        /\ registrations'[x] # NoRegistration
    BY <2>3
  <2>6. T \subseteq TargetType
    BY <2>2, <2>5 DEF TargetType, RegistrationType
  <2>7. PublishedOnlyToConfirmed'
    BY <2>1, <2>2, <2>4, <2>5 DEF PublishedOnlyToConfirmed
  <2>8. Rest'
    BY <2>1, <2>2, <2>4, <2>6 DEF RegInv, Rest
  <2> QED BY <2>2, <2>7, <2>8 DEF RegInv
<1>9. ASSUME Cleanup \/ Tick
      PROVE  RegInv'
  <2>1. CASE Tick
    BY <1>1, <2>1 DEF Tick, RegInv, Rest
  <2>2. CASE Cleanup
    <3>1. /\ replay' = LiveReplay(now) /\ registrations' = LiveRegistrations(now)
          /\ UNCHANGED <<round, commits, confirmed, continued>>
      BY <2>2 DEF Cleanup, Purge
    <3>2. /\ registrations' \in [Clients -> RegistrationType \cup {NoRegistration}]
          /\ Bounds' /\ Confirmed'
      BY <3>1, PurgeRegStep DEF OnceInv, CoreTypes
    <3>3. Rest' /\ PublishedOnlyToConfirmed'
      BY <3>1, <3>2 DEF RegInv, Rest, PublishedOnlyToConfirmed
    <3> QED BY <3>2, <3>3 DEF RegInv
  <2> QED BY <1>9, <2>1, <2>2
<1>10. CASE UNCHANGED vars
  BY <1>1, <1>10 DEF vars, RegInv, Rest
<1> QED
  BY <1>2, <1>3, <1>4, <1>5, <1>6, <1>7, <1>8, <1>9, <1>10 DEF Next, Step, At

(* The Directory's tables keep their types and bounds however clients move *)
(* and whatever epochs and instances they start, and a publication goes    *)
(* only to an endpoint from which the instance was heard within the        *)
(* registration's lifetime (commitInbound, purgeLocked,                    *)
(* publishParticipants).                                                   *)
THEOREM RegistrationsAlwaysSound == Spec => []RegistrationsSound
<1>1. OnceInv /\ RegInv => RegistrationsSound
  <2> SUFFICES ASSUME OnceInv, RegInv PROVE RegistrationsSound
    OBVIOUS
  <2>1. round \in [stage: {"idle", "copy", "send"}, at: Nat, targets: SUBSET TargetType]
    <3>1. round = [stage |-> round.stage, at |-> round.at, targets |-> round.targets]
      BY DEF OnceInv, CoreTypes
    <3>2. round.at \in Nat /\ round.stage \in {"idle", "copy", "send"} /\ round.targets \in SUBSET TargetType
      BY DEF OnceInv, CoreTypes, RegInv, Rest
    <3> QED BY <3>1, <3>2
  <2> QED BY <2>1 DEF RegistrationsSound, TypeOK, OnceInv, CoreTypes, RegInv, Rest, Bounds
<1> QED BY <1>1, OnceInit, OnceNext, RegInit, RegNext, PTL DEF Spec

-----------------------------------------------------------------------------
(* The cursors: one that is outstanding, or that a worker holds, has sent  *)
(* no page yet, and is outstanding once or held by one worker.             *)
Holds(w, c) == worker[w].stage \in {"session", "page", "send"} /\ worker[w].d.cursor = c

Outstanding ==
    \A a \in cursors :
        /\ a.id <= issued /\ continued[a.id] = 0
        /\ \A b \in cursors : a.id = b.id => a = b
        /\ \A w \in Workers : ~Holds(w, a.id)

InUse ==
    \A w \in Workers, c \in Nat \ {0} :
        Holds(w, c) =>
            /\ c \in 1 .. issued /\ continued[c] = 0
            /\ \A v \in Workers : Holds(v, c) => v = w

Unissued == \A c \in 1 .. MaxCursors : c > issued => continued[c] = 0

UsedInv == Outstanding /\ InUse /\ Unissued /\ CursorUsedOnce

LEMMA UsedInit == Init => UsedInv
BY DirectoryAssumption DEF Init, UsedInv, Outstanding, InUse, Unissued, CursorUsedOnce, Holds, Idle

(* A step that gives no worker a cursor, and issues none.                  *)
LEMMA UsedKept ==
    ASSUME UsedInv, UNCHANGED <<issued, continued>>, cursors' \subseteq cursors,
           \A w \in Workers, c \in Nat \ {0} : Holds(w, c)' => Holds(w, c),
           cursors \subseteq CursorType
    PROVE  UsedInv'
<1>1. \A a \in cursors : a.id \in Nat \ {0}
  BY DEF CursorType
<1>2. \A w \in Workers, a \in cursors : Holds(w, a.id)' => Holds(w, a.id)
  <2>1. ASSUME NEW w \in Workers, NEW a \in cursors, NEW c, c = a.id, Holds(w, c)'
        PROVE  Holds(w, c)
    BY <1>1, <2>1
  <2>2. ASSUME NEW w \in Workers, NEW a \in cursors
        PROVE  \A c : c = a.id => (Holds(w, c)' => Holds(w, c))
    BY <2>1
  <2> QED BY <2>2 DEF Holds
<1>3. Outstanding'
  <2> SUFFICES ASSUME NEW a \in cursors', NEW n, n = a.id
               PROVE  /\ n <= issued /\ continued[n] = 0
                      /\ \A b \in cursors' : n = b.id => a = b
                      /\ \A w \in Workers : ~Holds(w, n)'
    BY DEF Outstanding, Holds
  <2>1. /\ n <= issued /\ continued[n] = 0 /\ n \in Nat \ {0}
        /\ \A b \in cursors : n = b.id => a = b
        /\ \A w \in Workers : ~Holds(w, n)
    BY <1>1 DEF UsedInv, Outstanding
  <2> QED BY <2>1
<1>4. InUse'
  <2> SUFFICES ASSUME NEW w \in Workers, NEW c \in Nat \ {0}, Holds(w, c)'
               PROVE  /\ c \in 1 .. issued /\ continued[c] = 0
                      /\ \A v \in Workers : Holds(v, c)' => v = w
    BY DEF InUse, Holds
  <2> QED BY DEF UsedInv, InUse
<1>5. CursorUsedOnce' /\ Unissued'
  BY DEF UsedInv, CursorUsedOnce, Unissued
<1> QED BY <1>3, <1>4, <1>5 DEF UsedInv

(* sendSnapshotCursor takes the cursor out of the table in the critical    *)
(* section that finds it.                                                  *)
LEMMA TakeCursorUsed ==
    ASSUME OnceInv, RegInv, UsedInv, NEW w \in Workers, TakeCursor(w)
    PROVE  UsedInv'
<1> PICK k : k = worker[w].d.cursor
  OBVIOUS
<1>1. worker \in [Workers -> {Idle} \cup Opened \cup Serving] /\ cursors \subseteq CursorType
  BY DEF OnceInv, CoreTypes
<1>2. /\ UNCHANGED <<issued, continued>>
      /\ cursors' = LiveCursors(now) \ {c \in LiveCursors(now) : c.id = k}
      /\ worker[w].stage = "serve" /\ k > 0
      /\ \A v \in Workers \ {w} : worker'[v] = worker[v]
      /\ \/ worker'[w] = Idle
         \/ \E c \in {b \in LiveCursors(now) : b.id = k} :
              worker'[w] = [stage |-> "session", d |-> worker[w].d, channel |-> c.channel,
                            page |-> c.page, expires |-> c.expires]
  BY <1>1 DEF TakeCursor, Taken, Goto, At
<1>3. cursors' \subseteq cursors /\ \A a \in cursors' : a.id # k
  BY <1>2 DEF LiveCursors
<1>4. CASE worker'[w] = Idle
  <2>1. \A v \in Workers, c \in Nat \ {0} : Holds(v, c)' => Holds(v, c)
    BY <1>2, <1>4 DEF Holds, Idle
  <2> QED BY <1>1, <1>2, <1>3, <2>1, UsedKept
<1>5. CASE worker'[w] # Idle
  <2>1. PICK a \in cursors : a.id = k
    BY <1>2, <1>5 DEF LiveCursors
  <2>2. worker'[w].stage = "session" /\ worker'[w].d.cursor = k
    <3>1. PICK x, y, z : worker'[w] = [stage |-> "session", d |-> worker[w].d, channel |-> x,
                                       page |-> y, expires |-> z]
      BY <1>2, <1>5
    <3>2. worker'[w].stage = "session" /\ worker'[w].d = worker[w].d
      BY <3>1
    <3> QED BY <3>2
  <2>3. /\ k \in 1 .. issued /\ continued[k] = 0 /\ k \in Nat \ {0}
        /\ \A v \in Workers : ~Holds(v, k)
    BY <1>1, <2>1 DEF UsedInv, Outstanding, CursorType, OnceInv, CoreTypes
  <2>4. \A c : \A v \in Workers : Holds(v, c)' <=> ((v = w /\ c = k) \/ (v # w /\ Holds(v, c)))
    BY <1>2, <2>2 DEF Holds
  <2>5. ASSUME NEW b \in cursors', NEW n, n = b.id
        PROVE  /\ n <= issued /\ continued[n] = 0
               /\ \A e \in cursors' : n = e.id => b = e
               /\ \A v \in Workers : ~Holds(v, n)'
    <3>1. b \in cursors /\ n # k
      BY <1>3, <2>5
    <3>2. /\ n <= issued /\ continued[n] = 0
          /\ \A e \in cursors : n = e.id => b = e
          /\ \A v \in Workers : ~Holds(v, n)
      BY <2>5, <3>1 DEF UsedInv, Outstanding
    <3> QED BY <1>3, <2>4, <3>1, <3>2
  <2>6. Outstanding'
    BY <1>2, <2>5 DEF Outstanding, Holds
  <2>7. ASSUME NEW v \in Workers, NEW c \in Nat \ {0}, Holds(v, c)'
        PROVE  /\ c \in 1 .. issued /\ continued[c] = 0
               /\ \A u \in Workers : Holds(u, c)' => u = v
    <3>1. CASE v = w
      BY <2>3, <2>4, <2>7, <3>1
    <3>2. CASE v # w
      <4>1. Holds(v, c) /\ c # k
        BY <2>3, <2>4, <2>7, <3>2
      <4>2. /\ c \in 1 .. issued /\ continued[c] = 0
            /\ \A u \in Workers : Holds(u, c) => u = v
        BY <4>1 DEF UsedInv, InUse
      <4> QED BY <2>4, <4>1, <4>2
    <3> QED BY <3>1, <3>2
  <2>8. InUse'
    BY <1>2, <2>7 DEF InUse, Holds
  <2> QED BY <1>2, <2>6, <2>8 DEF UsedInv, CursorUsedOnce, Unissued
<1> QED BY <1>4, <1>5

(* storeSnapshotCursor issues a number that was never issued before.       *)
LEMMA StoreCursorUsed ==
    ASSUME OnceInv, RegInv, UsedInv, NEW w \in Workers, StoreCursor(w)
    PROVE  UsedInv'
<1> PICK n : n = issued + 1
  OBVIOUS
<1>1. /\ worker \in [Workers -> {Idle} \cup Opened \cup Serving] /\ cursors \subseteq CursorType
      /\ issued \in Nat
  BY DirectoryAssumption DEF OnceInv, CoreTypes
<1>2. PICK x : /\ cursors' = LiveCursors(now) \cup {x} /\ x.id = n
               /\ issued' = n /\ issued < MaxCursors /\ n \in 1 .. MaxCursors
               /\ UNCHANGED continued
               /\ worker[w].stage = "page"
               /\ worker' = [worker EXCEPT ![w].stage = "send"]
  <2> DEFINE x == [id |-> issued + 1, channel |-> worker[w].channel,
                   page |-> worker[w].page + 1, expires |-> worker[w].expires]
  <2>1. cursors' = LiveCursors(now) \cup {x} /\ issued' = n
    BY DEF StoreCursor
  <2>2. x.id = n
    OBVIOUS
  <2>3. issued < MaxCursors /\ n \in 1 .. MaxCursors
    BY <1>1, DirectoryAssumption DEF StoreCursor
  <2>4. /\ UNCHANGED continued
        /\ worker[w].stage = "page"
        /\ worker' = [worker EXCEPT ![w].stage = "send"]
    BY DEF StoreCursor, Move, At
  <2> HIDE DEF x
  <2> QED BY <2>1, <2>2, <2>3, <2>4
<1>3. worker[w] \in Serving
  BY <1>1, <1>2 DEF Idle, Opened
<1>4. \A c : \A v \in Workers : Holds(v, c)' <=> Holds(v, c)
  <2>1. worker'[w].stage = "send" /\ worker'[w].d = worker[w].d /\ \A v \in Workers \ {w} : worker'[v] = worker[v]
    BY <1>1, <1>2, <1>3 DEF Serving
  <2> QED BY <1>2, <2>1 DEF Holds
<1>5. continued[n] = 0 /\ \A v \in Workers : ~Holds(v, n)
  BY <1>1, <1>2 DEF UsedInv, InUse, Unissued
<1>6. \A a \in cursors : a.id \in Nat /\ a.id <= issued /\ a.id # n
  BY <1>1 DEF UsedInv, Outstanding, CursorType
<1>7. ASSUME NEW a \in cursors', NEW m, m = a.id
      PROVE  /\ m <= n /\ continued[m] = 0
             /\ \A b \in cursors' : m = b.id => a = b
             /\ \A v \in Workers : ~Holds(v, m)'
  <2>1. CASE a = x
    BY <1>1, <1>2, <1>4, <1>5, <1>6, <1>7, <2>1 DEF LiveCursors
  <2>2. CASE a # x
    <3>1. a \in cursors
      BY <1>2, <2>2 DEF LiveCursors
    <3>2. /\ m <= issued /\ continued[m] = 0 /\ m # n /\ m \in Nat
          /\ \A b \in cursors : m = b.id => a = b
          /\ \A v \in Workers : ~Holds(v, m)
      BY <1>6, <1>7, <3>1 DEF UsedInv, Outstanding
    <3> QED BY <1>1, <1>2, <1>4, <3>2 DEF LiveCursors
  <2> QED BY <2>1, <2>2
<1>8. Outstanding'
  BY <1>2, <1>7 DEF Outstanding, Holds
<1>9. ASSUME NEW v \in Workers, NEW c \in Nat \ {0}, Holds(v, c)'
      PROVE  /\ c \in 1 .. n /\ continued[c] = 0
             /\ \A u \in Workers : Holds(u, c)' => u = v
  <2>1. Holds(v, c) /\ c \in 1 .. issued /\ continued[c] = 0
        /\ \A u \in Workers : Holds(u, c) => u = v
    BY <1>4, <1>9 DEF UsedInv, InUse
  <2> QED BY <1>1, <1>4, <2>1
<1>10. InUse'
  BY <1>2, <1>9 DEF InUse, Holds
<1>11. Unissued'
  BY <1>1, <1>2 DEF UsedInv, Unissued
<1> QED BY <1>2, <1>8, <1>10, <1>11 DEF UsedInv, CursorUsedOnce

(* A page that is sent uses the cursor up: the worker that held it is the  *)
(* only one, and it is no longer in the table.                             *)
LEMMA SendPageUsed ==
    ASSUME OnceInv, RegInv, UsedInv, NEW w \in Workers, SendPage(w)
    PROVE  UsedInv'
<1> PICK k : k = worker[w].d.cursor
  OBVIOUS
<1>1. /\ worker \in [Workers -> {Idle} \cup Opened \cup Serving] /\ cursors \subseteq CursorType
      /\ issued \in 0 .. MaxCursors /\ MaxCursors \in Nat
      /\ continued \in [1 .. MaxCursors -> Nat]
  BY DirectoryAssumption DEF OnceInv, CoreTypes, RegInv, Rest
<1>2. /\ worker[w].stage = "send"
      /\ worker' = [worker EXCEPT ![w] = Idle]
      /\ continued' = IF k > 0 THEN [continued EXCEPT ![k] = @ + 1] ELSE continued
      /\ UNCHANGED <<cursors, issued>>
  BY DEF SendPage, Goto, At
<1>3. worker[w] \in Serving
  BY <1>1, <1>2 DEF Idle, Opened
<1>4. k \in Nat
  BY <1>3, DirectoryAssumption DEF Serving, DatagramType
<1>5. \A c : \A v \in Workers : Holds(v, c)' <=> (v # w /\ Holds(v, c))
  BY <1>1, <1>2 DEF Holds, Idle
<1>6. CASE k = 0
  BY <1>1, <1>2, <1>5, <1>6, UsedKept
<1>7. CASE k # 0
  <2>1. Holds(w, k)
    BY <1>2 DEF Holds
  <2>2. /\ k \in 1 .. issued /\ continued[k] = 0
        /\ \A v \in Workers : Holds(v, k) => v = w
    BY <1>4, <1>7, <2>1 DEF UsedInv, InUse
  <2>3. /\ k \in 1 .. MaxCursors /\ continued'[k] = 1
        /\ \A c \in 1 .. MaxCursors : c # k => continued'[c] = continued[c]
    BY <1>1, <1>2, <1>4, <1>7, <2>2
  <2>4. \A a \in cursors : a.id # k /\ a.id \in 1 .. MaxCursors
    BY <1>1, <2>1 DEF UsedInv, Outstanding, CursorType
  <2>5. ASSUME NEW a \in cursors, NEW n, n = a.id
        PROVE  /\ n <= issued /\ continued'[n] = 0
               /\ \A b \in cursors : n = b.id => a = b
               /\ \A v \in Workers : ~Holds(v, n)'
    <3>1. /\ n <= issued /\ continued[n] = 0
          /\ \A b \in cursors : n = b.id => a = b
          /\ \A v \in Workers : ~Holds(v, n)
      BY <2>5 DEF UsedInv, Outstanding
    <3> QED BY <1>5, <2>3, <2>4, <2>5, <3>1
  <2>6. Outstanding'
    BY <1>2, <2>5 DEF Outstanding, Holds
  <2>7. ASSUME NEW v \in Workers, NEW c \in Nat \ {0}, Holds(v, c)'
        PROVE  /\ c \in 1 .. issued /\ continued'[c] = 0
               /\ \A u \in Workers : Holds(u, c)' => u = v
    <3>1. Holds(v, c) /\ v # w
      BY <1>5, <2>7
    <3>2. /\ c \in 1 .. issued /\ continued[c] = 0 /\ c # k
          /\ \A u \in Workers : Holds(u, c) => u = v
      BY <2>2, <3>1 DEF UsedInv, InUse
    <3> QED BY <1>1, <1>5, <2>3, <3>2
  <2>8. InUse'
    BY <1>2, <2>7 DEF InUse, Holds
  <2>9. Unissued'
    BY <1>1, <1>2, <2>2, <2>3 DEF UsedInv, Unissued
  <2>10. CursorUsedOnce'
    BY <2>3 DEF UsedInv, CursorUsedOnce
  <2> QED BY <2>6, <2>8, <2>9, <2>10 DEF UsedInv
<1> QED BY <1>6, <1>7

(* Every step keeps it.                                                    *)
LEMMA UsedNext == OnceInv /\ RegInv /\ UsedInv /\ [Next]_vars => UsedInv'
<1> SUFFICES ASSUME OnceInv, RegInv, UsedInv, [Next]_vars PROVE UsedInv'
  OBVIOUS
<1>1. /\ worker \in [Workers -> {Idle} \cup Opened \cup Serving] /\ cursors \subseteq CursorType
  BY DEF OnceInv, CoreTypes
<1>2. ASSUME NEW w \in Workers, NEW d \in Datagrams, Open(w, d)
      PROVE  UsedInv'
  <2>1. \A v \in Workers, c \in Nat \ {0} : Holds(v, c)' => Holds(v, c)
    BY <1>1, <1>2 DEF Open, Goto, Holds
  <2> QED BY <1>1, <1>2, <2>1, UsedKept DEF Open
<1>3. ASSUME NEW w \in Workers, worker[w].stage = "commit",
             NEW time \in worker[w].at .. now, Commit(w, time)
      PROVE  UsedInv'
  <2>1. worker[w] \in Opened
    BY <1>1, <1>3 DEF Idle, Serving
  <2>2. worker' = [worker EXCEPT ![w].stage = "serve"] \/ worker' = [worker EXCEPT ![w] = Idle]
    BY <1>3 DEF Commit, Move, Goto
  <2>3. \A v \in Workers, c \in Nat \ {0} : Holds(v, c)' => Holds(v, c)
    <3>1. /\ worker'[w].stage \in {"serve", "idle"}
          /\ \A v \in Workers \ {w} : worker'[v] = worker[v]
      BY <1>1, <2>1, <2>2 DEF Idle, Opened
    <3> QED BY <3>1 DEF Holds
  <2>4. UNCHANGED <<issued, continued>> /\ cursors' \subseteq cursors
    BY <1>3 DEF Commit, LiveCursors
  <2> QED BY <1>1, <2>3, <2>4, UsedKept
<1>4. ASSUME NEW w \in Workers, ServeParticipants(w) \/ ServeSnapshot(w)
      PROVE  UsedInv'
  <2>1. UNCHANGED <<issued, continued, cursors>>
    BY <1>4 DEF ServeParticipants, ServeSnapshot
  <2>2. \A v \in Workers \ {w} : worker'[v] = worker[v]
    BY <1>1, <1>4 DEF ServeParticipants, ServeSnapshot, Goto
  <2>3. worker'[w].stage = "idle" \/ worker'[w].d.cursor = 0
    BY <1>1, <1>4 DEF ServeParticipants, ServeSnapshot, Goto, Idle
  <2>4. \A v \in Workers, c \in Nat \ {0} : Holds(v, c)' => Holds(v, c)
    BY <2>2, <2>3 DEF Holds
  <2> QED BY <1>1, <2>1, <2>4, UsedKept
<1>5. ASSUME NEW w \in Workers, CheckSession(w) \/ LastPage(w)
      PROVE  UsedInv'
  <2>1. UNCHANGED <<issued, continued, cursors>> /\ worker[w].stage \in {"session", "page"}
    BY <1>5 DEF CheckSession, LastPage, At
  <2>2. worker[w] \in Serving
    BY <1>1, <2>1 DEF Idle, Opened
  <2>3. \/ worker' = [worker EXCEPT ![w].stage = "page"]
        \/ worker' = [worker EXCEPT ![w].stage = "send"]
        \/ worker' = [worker EXCEPT ![w] = Idle]
    BY <1>5 DEF CheckSession, LastPage, Move, Goto
  <2>4. /\ worker'[w].stage = "idle" \/ worker'[w].d = worker[w].d
        /\ \A v \in Workers \ {w} : worker'[v] = worker[v]
    BY <1>1, <2>2, <2>3 DEF Idle, Serving
  <2>5. \A v \in Workers, c \in Nat \ {0} : Holds(v, c)' => Holds(v, c)
    BY <2>1, <2>4 DEF Holds
  <2> QED BY <1>1, <2>1, <2>5, UsedKept
<1>6. ASSUME PublishStart \/ PublishCopy \/ PublishSend \/ Cleanup \/ Tick \/ UNCHANGED vars
      PROVE  UsedInv'
  <2>1. UNCHANGED <<issued, continued, worker>> /\ cursors' \subseteq cursors
    BY <1>6 DEF PublishStart, PublishCopy, PublishSend, Cleanup, Tick, Purge, LiveCursors, vars
  <2>2. \A v \in Workers, c \in Nat \ {0} : Holds(v, c)' => Holds(v, c)
    BY <2>1 DEF Holds
  <2> QED BY <1>1, <2>1, <2>2, UsedKept
<1> QED
  BY <1>2, <1>3, <1>4, <1>5, <1>6, TakeCursorUsed, StoreCursorUsed, SendPageUsed DEF Next, Step, At

(* A cursor continues its snapshot at most once, for any number of workers *)
(* that hold a request for it: it is taken in the critical section that    *)
(* finds it, and its number is issued once (sendSnapshotCursor,            *)
(* storeSnapshotCursor).                                                   *)
THEOREM CursorsUsedOnce == Spec => []CursorUsedOnce
<1>1. UsedInv => CursorUsedOnce
  BY DEF UsedInv
<1> QED
  BY <1>1, OnceInit, OnceNext, RegInit, RegNext, UsedInit, UsedNext, PTL DEF Spec

-----------------------------------------------------------------------------
(* What text is: a difference of two sums.                                 *)
LEMMA ElementOf ==
    ASSUME NEW sizes \in Seq(Nat), NEW i \in 1 .. Len(sizes)
    PROVE  sizes[i] \in Nat
<1> QED OBVIOUS

LEMMA SubSeqAt ==
    ASSUME NEW rows \in Seq(Nat), NEW a \in Nat, NEW b \in Nat, a <= b, b <= Len(rows)
    PROVE  /\ SubSeq(rows, a + 1, b) \in Seq(Nat)
           /\ Len(SubSeq(rows, a + 1, b)) = b - a
           /\ \A i \in 1 .. b - a : SubSeq(rows, a + 1, b)[i] = rows[a + i]
<1>1. Len(rows) \in Nat /\ \A i \in 1 .. Len(rows) : rows[i] \in Nat
  OBVIOUS
<1>2. SubSeq(rows, a + 1, b) \in Seq(Nat)
  BY <1>1
<1>3. Len(SubSeq(rows, a + 1, b)) = b - a
  BY <1>1
<1>4. ASSUME NEW i \in 1 .. b - a PROVE SubSeq(rows, a + 1, b)[i] = rows[a + i]
  BY <1>1
<1> QED BY <1>2, <1>3, <1>4

LEMMA SubSeqGrows ==
    ASSUME NEW rows \in Seq(Nat), NEW a \in 0 .. Len(rows), NEW b \in a .. Len(rows) - 1
    PROVE  /\ SubSeq(rows, a + 1, b) \in Seq(Nat)
           /\ SubSeq(rows, a + 1, b + 1) = Append(SubSeq(rows, a + 1, b), rows[b + 1])
<1>1. PICK p, q : p = SubSeq(rows, a + 1, b) /\ q = SubSeq(rows, a + 1, b + 1)
  OBVIOUS
<1>2. Len(rows) \in Nat /\ a \in Nat /\ b \in Nat /\ a <= b /\ b + 1 \in 1 .. Len(rows)
  OBVIOUS
<1>3. p \in Seq(Nat) /\ Len(p) = b - a /\ \A i \in 1 .. b - a : p[i] = rows[a + i]
  BY <1>1, <1>2, SubSeqAt
<1>4. q \in Seq(Nat) /\ Len(q) = b + 1 - a /\ \A i \in 1 .. b + 1 - a : q[i] = rows[a + i]
  <2>1. b + 1 \in Nat /\ a <= b + 1 /\ b + 1 <= Len(rows)
    BY <1>2
  <2> QED BY <1>1, <1>2, <2>1, SubSeqAt
<1>5. rows[b + 1] \in Nat
  BY <1>2
<1>6. q = Append(p, rows[b + 1])
  <2>1. PICK r, x, n : r = rows[b + 1] /\ x = Append(p, r) /\ n = b - a
    OBVIOUS
  <2>2. n \in Nat /\ b + 1 - a = n + 1 /\ a + (n + 1) = b + 1
    BY <1>2, <2>1
  <2>3. x \in Seq(Nat) /\ Len(x) = n + 1 /\ x[n + 1] = r /\ \A i \in 1 .. n : x[i] = p[i]
    BY <1>3, <1>5, <2>1
  <2>4. ASSUME NEW i \in 1 .. n + 1 PROVE x[i] = q[i]
    <3>1. CASE i = n + 1
      BY <1>4, <2>1, <2>2, <2>3, <3>1
    <3>2. CASE i \in 1 .. n
      <4>1. x[i] = rows[a + i]
        BY <1>3, <2>1, <2>3, <3>2
      <4> QED BY <1>4, <2>2, <4>1
    <3> QED BY <2>2, <3>1, <3>2
  <2>5. x = [i \in 1 .. n + 1 |-> x[i]] /\ q = [i \in 1 .. n + 1 |-> q[i]]
    BY <1>4, <2>2, <2>3
  <2>6. x = q
    BY <2>4, <2>5
  <2> QED BY <2>1, <2>6
<1> QED BY <1>1, <1>3, <1>6

LEMMA TextSums ==
    ASSUME NEW rows \in Seq(Nat)
    PROVE  \E f \in [0 .. Len(rows) -> Nat] :
             /\ \A n \in 1 .. Len(rows) : f[n] = f[n - 1] + rows[n]
             /\ \A a \in 0 .. Len(rows) : \A b \in a .. Len(rows) :
                  Total(SubSeq(rows, a + 1, b)) = f[b] - f[a]
<1>1. PICK f \in [0 .. Len(rows) -> Nat] : Adds(f, rows)
  BY TotalAdds
<1>2. \A n \in 1 .. Len(rows) : f[n] = f[n - 1] + rows[n]
  BY <1>1 DEF Adds
<1>3. ASSUME NEW a \in 0 .. Len(rows), NEW b \in a .. Len(rows)
      PROVE  Total(SubSeq(rows, a + 1, b)) = f[b] - f[a]
  <2> DEFINE m == Len(rows) - a
             T == {n \in 0 .. m : Total(SubSeq(rows, a + 1, a + n)) = f[a + n] - f[a]}
  <2>0. m \in Nat /\ a \in Nat /\ Len(rows) \in Nat
    OBVIOUS
  <2>1. 0 \in T
    <3>1. SubSeq(rows, a + 1, a + 0) = <<>>
      BY <2>0
    <3>2. f[a + 0] = f[a] /\ f[a] \in Nat
      OBVIOUS
    <3>3. Total(SubSeq(rows, a + 1, a + 0)) = 0
      BY <3>1, TotalFacts
    <3>4. f[a + 0] - f[a] = 0
      BY <3>2
    <3>5. 0 \in 0 .. m
      BY <2>0
    <3> QED BY <3>3, <3>4, <3>5
  <2>2. ASSUME NEW n \in 0 .. m - 1, n \in T PROVE n + 1 \in T
    <3>1. PICK c : c = a + n
      OBVIOUS
    <3>2. c \in a .. Len(rows) - 1 /\ c + 1 = a + (n + 1) /\ c + 1 \in 1 .. Len(rows) /\ (c + 1) - 1 = c
      BY <2>0, <3>1
    <3>3. PICK p : p = SubSeq(rows, a + 1, c)
      OBVIOUS
    <3>4. p \in Seq(Nat) /\ SubSeq(rows, a + 1, c + 1) = Append(p, rows[c + 1]) /\ rows[c + 1] \in Nat
      BY <3>2, <3>3, SubSeqGrows
    <3>5. Total(SubSeq(rows, a + 1, c + 1)) = Total(p) + rows[c + 1]
      BY <3>4, TotalAppend
    <3>6. Total(p) = f[c] - f[a]
      BY <2>2, <3>1, <3>3
    <3>7. f[c + 1] = f[c] + rows[c + 1]
      BY <1>2, <3>2
    <3>8. f[c] \in Nat /\ f[a] \in Nat /\ f[c + 1] \in Nat
      <4>1. c \in 0 .. Len(rows) /\ c + 1 \in 0 .. Len(rows)
        BY <2>0, <3>2
      <4> QED BY <1>1, <4>1
    <3>9. Total(SubSeq(rows, a + 1, c + 1)) = f[c + 1] - f[a]
      <4>1. PICK r, x, y, z : r = rows[c + 1] /\ x = f[c] /\ y = f[a] /\ z = f[c + 1]
        OBVIOUS
      <4>2. r \in Nat /\ x \in Nat /\ y \in Nat /\ z = x + r
        BY <3>4, <3>7, <3>8, <4>1
      <4>3. (x - y) + r = z - y
        BY <4>2
      <4> QED BY <3>5, <3>6, <4>1, <4>3
    <3>10. n + 1 \in 0 .. m
      BY <2>0
    <3> QED BY <3>2, <3>9, <3>10
  <2>3. 0 .. m \subseteq T
    <3> HIDE DEF T, m
    <3> QED BY <2>0, <2>1, <2>2, BoundedInduction
  <2>4. b - a \in 0 .. m /\ a + (b - a) = b
    BY <2>0
  <2>5. b - a \in T
    BY <2>3, <2>4
  <2> QED BY <2>4, <2>5
<1> QED BY <1>2, <1>3

LEMMA TextFacts ==
    ASSUME NEW rows \in Seq(Nat)
    PROVE  /\ \A a \in 0 .. Len(rows) : \A b \in a .. Len(rows) : Text(rows, a, b) \in Nat
           /\ \A a \in 0 .. Len(rows) : \A b \in a .. Len(rows) :
                \A s \in a .. b : \A e \in s .. b : Text(rows, s, e) <= Text(rows, a, b)
           /\ \A k \in 0 .. Len(rows) - 1 : Text(rows, k, k + 1) = rows[k + 1]
<1>1. PICK f \in [0 .. Len(rows) -> Nat] :
             /\ \A n \in 1 .. Len(rows) : f[n] = f[n - 1] + rows[n]
             /\ \A a \in 0 .. Len(rows) : \A b \in a .. Len(rows) :
                  Total(SubSeq(rows, a + 1, b)) = f[b] - f[a]
  BY TextSums
<1>2. Len(rows) \in Nat /\ \A n \in 1 .. Len(rows) : rows[n] \in Nat
  OBVIOUS
<1>3. ASSUME NEW a \in 0 .. Len(rows), NEW b \in a .. Len(rows) PROVE f[a] <= f[b]
  <2> DEFINE m == Len(rows) - a
             T == {n \in 0 .. m : f[a] <= f[a + n]}
  <2>0. m \in Nat /\ a \in Nat
    BY <1>2
  <2>1. 0 \in T
    BY <2>0
  <2>2. ASSUME NEW n \in 0 .. m - 1, n \in T PROVE n + 1 \in T
    <3>1. PICK c : c = a + n
      OBVIOUS
    <3>2. c \in 0 .. Len(rows) /\ c + 1 = a + (n + 1) /\ c + 1 \in 1 .. Len(rows) /\ (c + 1) - 1 = c
      BY <2>0, <3>1
    <3>3. f[c + 1] = f[c] + rows[c + 1]
      BY <1>1, <3>2
    <3>4. f[c] \in Nat /\ f[a] \in Nat /\ rows[c + 1] \in Nat /\ f[a] <= f[c]
      BY <1>2, <2>2, <3>1, <3>2
    <3>5. f[a] <= f[c + 1]
      BY <3>3, <3>4
    <3>6. n + 1 \in 0 .. m
      BY <2>0
    <3> QED BY <3>2, <3>5, <3>6
  <2>3. 0 .. m \subseteq T
    <3> HIDE DEF T, m
    <3> QED BY <2>0, <2>1, <2>2, BoundedInduction
  <2>4. b - a \in 0 .. m /\ a + (b - a) = b
    BY <2>0
  <2>5. b - a \in T
    BY <2>3, <2>4
  <2> QED BY <2>4, <2>5
<1>4. ASSUME NEW a \in 0 .. Len(rows), NEW b \in a .. Len(rows)
      PROVE  /\ f[a] \in Nat /\ f[b] \in Nat /\ f[a] <= f[b] /\ a \in Nat /\ b \in Nat /\ a <= b
             /\ Text(rows, a, b) = IF a = b THEN 0 ELSE (f[b] - f[a]) + (b - a - 1)
  <2>1. Total(SubSeq(rows, a + 1, b)) = f[b] - f[a]
    BY <1>1
  <2>2. b \in 0 .. Len(rows)
    BY <1>2
  <2> QED BY <1>3, <2>1, <2>2 DEF Text
<1>5. ASSUME NEW a \in 0 .. Len(rows), NEW b \in a .. Len(rows) PROVE Text(rows, a, b) \in Nat
  BY <1>4
<1>6. ASSUME NEW a \in 0 .. Len(rows), NEW b \in a .. Len(rows), NEW s \in a .. b, NEW e \in s .. b
      PROVE  Text(rows, s, e) <= Text(rows, a, b)
  <2>1. s \in 0 .. Len(rows) /\ e \in s .. Len(rows) /\ s \in a .. Len(rows)
        /\ e \in 0 .. Len(rows) /\ b \in e .. Len(rows) /\ b \in 0 .. Len(rows)
    BY <1>2
  <2>2. /\ Text(rows, s, e) = IF s = e THEN 0 ELSE (f[e] - f[s]) + (e - s - 1)
        /\ Text(rows, a, b) = IF a = b THEN 0 ELSE (f[b] - f[a]) + (b - a - 1)
    BY <1>4, <2>1
  <2>3. /\ f[a] \in Nat /\ f[b] \in Nat /\ f[s] \in Nat /\ f[e] \in Nat
        /\ f[a] <= f[s] /\ f[s] <= f[e] /\ f[e] <= f[b] /\ a <= s /\ s <= e /\ e <= b
        /\ a \in Nat /\ b \in Nat /\ s \in Nat /\ e \in Nat
    BY <1>4, <2>1
  <2>4. PICK fa, fb, fs, fe : fa = f[a] /\ fb = f[b] /\ fs = f[s] /\ fe = f[e]
    OBVIOUS
  <2>5. CASE s = e
    BY <2>1, <2>2, <2>5, <1>5
  <2>6. CASE s # e
    <3>1. a # b
      BY <2>3, <2>6
    <3>2. /\ Text(rows, s, e) = (fe - fs) + (e - s - 1)
          /\ Text(rows, a, b) = (fb - fa) + (b - a - 1)
      BY <2>2, <2>4, <2>6, <3>1
    <3>3. /\ fa \in Nat /\ fb \in Nat /\ fs \in Nat /\ fe \in Nat
          /\ fa <= fs /\ fs <= fe /\ fe <= fb
      BY <2>3, <2>4
    <3>4. (fe - fs) + (e - s - 1) <= (fb - fa) + (b - a - 1)
      BY <2>3, <3>3
    <3> QED BY <3>2, <3>4
  <2> QED BY <2>5, <2>6
<1>7. ASSUME NEW k \in 0 .. Len(rows) - 1 PROVE Text(rows, k, k + 1) = rows[k + 1]
  <2>1. k \in 0 .. Len(rows) /\ k + 1 \in k .. Len(rows) /\ k + 1 \in 1 .. Len(rows) /\ (k + 1) - 1 = k
    BY <1>2
  <2>2. Text(rows, k, k + 1) = (f[k + 1] - f[k]) + (k + 1 - k - 1) /\ f[k] \in Nat
    BY <1>4, <2>1
  <2>3. f[k + 1] = f[k] + rows[k + 1] /\ rows[k + 1] \in Nat
    BY <1>1, <1>2, <2>1
  <2>4. k + 1 - k - 1 = 0
    BY <2>1
  <2> QED BY <2>2, <2>3, <2>4
<1> QED BY <1>5, <1>6, <1>7

-----------------------------------------------------------------------------
(* What fits, fits in a fragment with smaller numbers.                     *)
LEMMA DigitsFacts ==
    /\ \A n \in Nat : Digits(n) \in {1, 2}
    /\ \A m, n \in Nat : m <= n => Digits(m) <= Digits(n)
<1>1. Ten \in Nat
  BY FragmentPackingAssumption
<1> QED BY <1>1 DEF Digits

LEMMA FitsLess ==
    ASSUME NEW i \in Nat, NEW j \in Nat, i <= j,
           NEW count \in Nat, NEW more \in Nat, Digits(count) <= Digits(more),
           NEW text \in Nat, NEW longer \in Nat, text <= longer,
           NEW first \in Nat, NEW other \in Nat, i = 0 => first = 0 \/ (j = 0 /\ first <= other),
           Fits(j, more, longer, other)
    PROVE  Fits(i, count, text, first)
<1>1. DatagramLimit \in Nat
  BY FragmentPackingAssumption
<1>2. PICK a, b, c, d, e, f : /\ a = Digits(i) /\ b = Digits(count) /\ c = Digits(i + 1)
                              /\ d = Digits(j) /\ e = Digits(more) /\ f = Digits(j + 1)
  OBVIOUS
<1>3. /\ a \in Nat /\ b \in Nat /\ c \in Nat /\ d \in Nat /\ e \in Nat /\ f \in Nat
      /\ a <= d /\ b <= e /\ c <= f
  <2>1. i + 1 \in Nat /\ j + 1 \in Nat /\ i + 1 <= j + 1
    OBVIOUS
  <2> QED BY <1>2, <2>1, DigitsFacts
<1>4. PICK x, y : x = (IF i = 0 THEN first ELSE 0) /\ y = (IF j = 0 THEN other ELSE 0)
  OBVIOUS
<1>5. x \in Nat /\ y \in Nat /\ x <= y
  BY <1>4
<1>6. d + e + f + longer + y <= DatagramLimit
  BY <1>2, <1>4 DEF Fits
<1>7. a + b + c + text + x <= DatagramLimit
  BY <1>1, <1>3, <1>5, <1>6
<1> QED BY <1>2, <1>4, <1>7 DEF Fits

-----------------------------------------------------------------------------
(* What a pass computes: its rows one after the other.                     *)
PackingType == [ok: BOOLEAN, starts: Seq(Nat)]

LEMMA AddRowType ==
    ASSUME NEW p \in PackingType, NEW rows, NEW next \in Nat \ {0}, NEW count, NEW first, NEW mayLeave
    PROVE  AddRow(p, rows, next, count, first, mayLeave) \in PackingType
<1>1. p.starts \in Seq(Nat) /\ next - 1 \in Nat
  BY DEF PackingType
<1>2. PICK q : q = Append(p.starts, next - 1)
  OBVIOUS
<1>3. q \in Seq(Nat) /\ <<>> \in Seq(Nat)
  BY <1>1, <1>2
<1>4. [ok |-> TRUE, starts |-> q] \in PackingType /\ [ok |-> FALSE, starts |-> <<>>] \in PackingType
  BY <1>3 DEF PackingType
<1> QED BY <1>2, <1>4 DEF AddRow, Packing, TooLarge

LEMMA PassLoop ==
    ASSUME NEW rows \in Seq(Nat), NEW count \in Nat, NEW first \in Nat, NEW mayLeave \in BOOLEAN
    PROVE  \E f \in [0 .. Len(rows) -> PackingType] :
             /\ f[0] = Packing(TRUE, <<0>>)
             /\ \A n \in 1 .. Len(rows) : f[n] = AddRow(f[n - 1], rows, n, count, first, mayLeave)
             /\ Pass(rows, count, first, mayLeave) = f[Len(rows)]
<1> DEFINE m == Len(rows)
           step == [n \in 1 .. m |-> [x \in PackingType |-> AddRow(x, rows, n, count, first, mayLeave)]]
           Def(f) == f = [next \in 0 .. m |->
                            IF next = 0 THEN Packing(TRUE, <<0>>)
                            ELSE AddRow(f[next - 1], rows, next, count, first, mayLeave)]
           u == CHOOSE f : Def(f)
<1>1. m \in Nat
  OBVIOUS
<1>2. Packing(TRUE, <<0>>) \in PackingType
  <2>1. <<0>> \in Seq(Nat)
    OBVIOUS
  <2> QED BY <2>1 DEF Packing, PackingType
<1>3. step \in [1 .. m -> [PackingType -> PackingType]]
  <2>1. \A n \in 1 .. m : n \in Nat \ {0}
    BY <1>1
  <2> QED BY <2>1, AddRowType
<1>4. PICK f \in [0 .. m -> PackingType] : Recurs(f, m, Packing(TRUE, <<0>>), step)
  <2> HIDE DEF m, step
  <2> QED BY <1>1, <1>2, <1>3, RecursionExists
<1>5. ASSUME NEW n \in 1 .. m PROVE f[n] = AddRow(f[n - 1], rows, n, count, first, mayLeave)
  <2>1. n - 1 \in 0 .. m
    BY <1>1
  <2>2. f[n - 1] \in PackingType
    BY <1>4, <2>1
  <2>3. f[n] = step[n][f[n - 1]]
    <3> HIDE DEF step
    <3> QED BY <1>4 DEF Recurs
  <2> QED BY <2>2, <2>3
<1>6. f[0] = Packing(TRUE, <<0>>)
  BY <1>4 DEF Recurs
<1>7. Def(f)
  <2>1. f = [n \in 0 .. m |-> f[n]]
    BY <1>4
  <2>2. \A n \in 0 .. m : n = 0 \/ n \in 1 .. m
    BY <1>1
  <2>3. \A n \in 0 .. m : f[n] = IF n = 0 THEN Packing(TRUE, <<0>>)
                                 ELSE AddRow(f[n - 1], rows, n, count, first, mayLeave)
    BY <1>5, <1>6, <2>2
  <2> QED BY <2>1, <2>3
<1>8. Def(u)
  <2> HIDE DEF Def
  <2> QED BY <1>7, Zenon
<1>9. Pass(rows, count, first, mayLeave) = u[m]
  BY DEF Pass
<1> HIDE DEF u, step
<1>10. u[0] = Packing(TRUE, <<0>>)
       /\ \A n \in 1 .. m : u[n] = AddRow(u[n - 1], rows, n, count, first, mayLeave)
  BY <1>1, <1>8
<1>11. \A n \in 0 .. m : u[n] = f[n]
  <2> DEFINE T == {n \in 0 .. m : u[n] = f[n]}
  <2>1. 0 \in T
    <3>1. u[0] = f[0] /\ 0 \in 0 .. m
      BY <1>1, <1>6, <1>10
    <3> QED BY <3>1
  <2>2. ASSUME NEW n \in 0 .. m - 1, n \in T PROVE n + 1 \in T
    <3>1. n + 1 \in 1 .. m /\ (n + 1) - 1 = n /\ n + 1 \in 0 .. m
      BY <1>1
    <3> QED BY <1>5, <1>10, <2>2, <3>1
  <2>3. 0 .. m \subseteq T
    <3> HIDE DEF T, m
    <3> QED BY <1>1, <2>1, <2>2, BoundedInduction
  <2> QED BY <2>3
<1>12. Pass(rows, count, first, mayLeave) = f[m]
  BY <1>1, <1>9, <1>11
<1> QED BY <1>5, <1>6, <1>12

-----------------------------------------------------------------------------
(* After k rows: the fragments hold them in order, and each fits.          *)
Filled(p, rows, k, count, first) ==
    /\ p.starts \in Seq(Nat) /\ Len(p.starts) \in 1 .. k + 1 /\ p.starts[1] = 0
    /\ \A i \in 1 .. Len(p.starts) :
         /\ p.starts[i] <= End(p.starts, i, k) /\ End(p.starts, i, k) \in 0 .. k
         /\ i > 1 => p.starts[i] < End(p.starts, i, k)
         /\ Fits(i - 1, count, Text(rows, p.starts[i], End(p.starts, i, k)), first)

LEMMA AddRowFills ==
    ASSUME NEW rows \in Seq(Nat), NEW k \in 0 .. Len(rows) - 1, NEW count \in Nat, NEW first \in Nat,
           NEW mayLeave, NEW p \in PackingType, p.ok, Filled(p, rows, k, count, first),
           NEW q, q = AddRow(p, rows, k + 1, count, first, mayLeave), q.ok
    PROVE  /\ Filled(q, rows, k + 1, count, first)
           /\ ~mayLeave /\ (k > 0 => p.starts[1] < End(p.starts, 1, k))
                => q.starts[1] < End(q.starts, 1, k + 1)
<1> DEFINE starts == p.starts
           n == Len(starts)
           start == starts[n]
<1>1. /\ starts \in Seq(Nat) /\ n \in 1 .. k + 1 /\ starts[1] = 0 /\ k \in Nat /\ Len(rows) \in Nat
      /\ start \in Nat /\ start <= k /\ n \in Nat
      /\ \A i \in 1 .. n :
           /\ starts[i] <= End(starts, i, k) /\ End(starts, i, k) \in 0 .. k /\ starts[i] \in Nat
           /\ i > 1 => starts[i] < End(starts, i, k)
           /\ Fits(i - 1, count, Text(rows, starts[i], End(starts, i, k)), first)
  <2>1. starts \in Seq(Nat) /\ n \in 1 .. k + 1 /\ starts[1] = 0 /\ k \in Nat /\ Len(rows) \in Nat /\ n \in Nat
    BY DEF Filled
  <2>2. ASSUME NEW i \in 1 .. n
        PROVE  /\ starts[i] <= End(starts, i, k) /\ End(starts, i, k) \in 0 .. k /\ starts[i] \in Nat
               /\ i > 1 => starts[i] < End(starts, i, k)
               /\ Fits(i - 1, count, Text(rows, starts[i], End(starts, i, k)), first)
    <3>1. starts[i] \in Nat
      BY <2>1, ElementOf
    <3> QED BY <3>1 DEF Filled
  <2>3. End(starts, n, k) = k /\ n \in 1 .. n
    BY <2>1 DEF End
  <2> QED BY <2>1, <2>2, <2>3
<1>2. \/ q = p /\ Fits(n - 1, count, Text(rows, start, k + 1), first)
      \/ /\ q = Packing(TRUE, Append(starts, k))
         /\ Fits(n, count, Text(rows, k, k + 1), first) /\ (start = k => mayLeave)
  <2>1. (k + 1) - 1 = k /\ ~TooLarge.ok
    BY <1>1 DEF TooLarge, Packing
  <2> QED BY <2>1 DEF AddRow
<1>3. CASE q = p /\ Fits(n - 1, count, Text(rows, start, k + 1), first)
  <2>1. ASSUME NEW i \in 1 .. n
        PROVE  /\ starts[i] <= End(starts, i, k + 1) /\ End(starts, i, k + 1) \in 0 .. k + 1
               /\ i > 1 => starts[i] < End(starts, i, k + 1)
               /\ Fits(i - 1, count, Text(rows, starts[i], End(starts, i, k + 1)), first)
    <3>1. CASE i = n
      <4>1. End(starts, i, k + 1) = k + 1
        BY <3>1 DEF End
      <4>2. start <= k + 1 /\ start < k + 1 /\ k + 1 \in 0 .. k + 1
        <5>1. start \in Nat /\ start <= k /\ k \in Nat
          BY <1>1
        <5> HIDE DEF start
        <5> QED BY <5>1
      <4> QED BY <1>3, <3>1, <4>1, <4>2
    <3>2. CASE i # n
      <4>1. End(starts, i, k + 1) = End(starts, i, k)
        BY <3>2 DEF End
      <4>2. \A x \in 0 .. k : x \in 0 .. k + 1
        BY <1>1
      <4> QED BY <1>1, <4>1, <4>2
    <3> QED BY <3>1, <3>2
  <2>2. n \in 1 .. (k + 1) + 1
    BY <1>1
  <2>3. Filled(q, rows, k + 1, count, first)
    BY <1>1, <1>3, <2>1, <2>2 DEF Filled
  <2>4. ASSUME k > 0 => starts[1] < End(starts, 1, k) PROVE starts[1] < End(starts, 1, k + 1)
    <3>1. CASE n = 1
      BY <1>1, <3>1 DEF End
    <3>2. CASE n # 1
      <4>1. End(starts, 1, k + 1) = End(starts, 1, k)
        BY <3>2 DEF End
      <4>2. k > 0
        <5>1. n \in 1 .. k + 1 /\ k \in Nat
          BY <1>1
        <5> HIDE DEF n
        <5> QED BY <3>2, <5>1
      <4> QED BY <2>4, <4>1, <4>2
    <3> QED BY <3>1, <3>2
  <2> QED BY <1>3, <2>3, <2>4
<1>4. CASE /\ q = Packing(TRUE, Append(starts, k))
           /\ Fits(n, count, Text(rows, k, k + 1), first) /\ (start = k => mayLeave)
  <2>1. PICK new : new = Append(starts, k)
    OBVIOUS
  <2>2. /\ q.starts = new /\ new \in Seq(Nat) /\ Len(new) = n + 1 /\ new[n + 1] = k
        /\ \A i \in 1 .. n : new[i] = starts[i]
    <3>1. starts \in Seq(Nat) /\ k \in Nat
      BY <1>1
    <3>2. q.starts = new
      BY <1>4, <2>1 DEF Packing
    <3> HIDE DEF starts
    <3>3. new \in Seq(Nat) /\ Len(new) = Len(starts) + 1 /\ new[Len(starts) + 1] = k
          /\ \A i \in 1 .. Len(starts) : new[i] = starts[i]
      BY <2>1, <3>1
    <3> QED BY <3>2, <3>3
  <2>3. \A i \in 1 .. n : End(new, i, k + 1) = End(starts, i, k)
    <3>1. ASSUME NEW i \in 1 .. n PROVE End(new, i, k + 1) = End(starts, i, k)
      <4>1. i # n + 1
        BY <1>1
      <4>2. End(new, i, k + 1) = new[i + 1]
        BY <2>2, <4>1 DEF End
      <4>3. CASE i = n
        BY <2>2, <4>2, <4>3 DEF End
      <4>4. CASE i # n
        <5>1. i + 1 \in 1 .. n
          BY <1>1, <4>4
        <5> QED BY <2>2, <4>2, <4>4, <5>1 DEF End
      <4> QED BY <4>3, <4>4
    <3> QED BY <3>1
  <2>4. End(new, n + 1, k + 1) = k + 1
    BY <2>2 DEF End
  <2>5. ASSUME NEW i \in 1 .. n + 1
        PROVE  /\ new[i] <= End(new, i, k + 1) /\ End(new, i, k + 1) \in 0 .. k + 1
               /\ i > 1 => new[i] < End(new, i, k + 1)
               /\ Fits(i - 1, count, Text(rows, new[i], End(new, i, k + 1)), first)
    <3>1. CASE i = n + 1
      <4>1. k <= k + 1 /\ k < k + 1 /\ k + 1 \in 0 .. k + 1 /\ (n + 1) - 1 = n
        BY <1>1
      <4> QED BY <1>4, <2>2, <2>4, <3>1, <4>1
    <3>2. CASE i \in 1 .. n
      <4>1. new[i] = starts[i] /\ End(new, i, k + 1) = End(starts, i, k)
        BY <2>2, <2>3, <3>2
      <4>2. \A x \in 0 .. k : x \in 0 .. k + 1
        BY <1>1
      <4> QED BY <1>1, <3>2, <4>1, <4>2
    <3> QED BY <1>1, <3>1, <3>2
  <2>6. n + 1 \in 1 .. (k + 1) + 1 /\ 1 \in 1 .. n
    BY <1>1
  <2>7. new[1] = 0
    BY <1>1, <2>2, <2>6
  <2>8. Filled(q, rows, k + 1, count, first)
    BY <2>2, <2>5, <2>6, <2>7 DEF Filled
  <2>9. ASSUME ~mayLeave, k > 0 => starts[1] < End(starts, 1, k) PROVE new[1] < End(new, 1, k + 1)
    <3>1. start # k
      BY <1>4, <2>9
    <3>2. End(new, 1, k + 1) = End(starts, 1, k) /\ new[1] = starts[1]
      BY <2>2, <2>3, <2>6
    <3>3. k > 0
      <4>1. CASE k = 0
        <5>1. n = 1
          BY <1>1, <4>1
        <5> QED BY <1>1, <3>1, <4>1, <5>1
      <4> QED BY <1>1, <4>1
    <3> QED BY <2>9, <3>2, <3>3
  <2> QED BY <2>2, <2>8, <2>9
<1> QED BY <1>2, <1>3, <1>4

LEMMA PassFills ==
    ASSUME NEW rows \in Seq(Nat), NEW count \in Nat, NEW first \in Nat, NEW mayLeave \in BOOLEAN,
           Fits(0, count, 0, first), NEW p, p = Pass(rows, count, first, mayLeave), p.ok
    PROVE  /\ p \in PackingType /\ Filled(p, rows, Len(rows), count, first)
           /\ ~mayLeave /\ Len(rows) > 0 => p.starts[1] < End(p.starts, 1, Len(rows))
<1>1. Len(rows) \in Nat
  OBVIOUS
<1>2. PICK f \in [0 .. Len(rows) -> PackingType] :
             /\ f[0] = Packing(TRUE, <<0>>)
             /\ \A n \in 1 .. Len(rows) : f[n] = AddRow(f[n - 1], rows, n, count, first, mayLeave)
             /\ p = f[Len(rows)]
  BY <1>1, PassLoop
<1> DEFINE Good(x, k) == x.ok => /\ Filled(x, rows, k, count, first)
                                 /\ ~mayLeave /\ k > 0 => x.starts[1] < End(x.starts, 1, k)
           T == {k \in 0 .. Len(rows) : Good(f[k], k)}
<1>3. 0 \in T
  <2>1. PICK x, one : x = f[0] /\ one = <<0>>
    OBVIOUS
  <2>2. x.starts = one
    BY <1>2, <2>1 DEF Packing
  <2>3. one \in Seq(Nat) /\ Len(one) = 1 /\ one[1] = 0
    BY <2>1
  <2>4. End(one, 1, 0) = 0
    BY <2>3 DEF End
  <2>5. Text(rows, 0, 0) = 0
    BY DEF Text
  <2>6. \A i \in 1 .. 1 : i = 1 /\ ~(i > 1)
    OBVIOUS
  <2>7. 1 - 1 = 0 /\ 0 \in 0 .. 0 /\ 1 \in 1 .. 0 + 1 /\ 0 <= 0
    OBVIOUS
  <2>8. Filled(x, rows, 0, count, first)
    BY <2>2, <2>3, <2>4, <2>5, <2>6, <2>7 DEF Filled
  <2>9. Good(f[0], 0)
    BY <2>1, <2>8
  <2> HIDE DEF Good
  <2> QED BY <1>1, <2>9
<1>4. ASSUME NEW k \in 0 .. Len(rows) - 1, k \in T PROVE k + 1 \in T
  <2>1. k + 1 \in 1 .. Len(rows) /\ (k + 1) - 1 = k /\ k + 1 \in 0 .. Len(rows) /\ k \in 0 .. Len(rows) /\ k \in Nat
    BY <1>1
  <2>2. PICK x, y : x = f[k] /\ y = f[k + 1]
    OBVIOUS
  <2>3. y = AddRow(x, rows, k + 1, count, first, mayLeave) /\ x \in PackingType
    BY <1>2, <2>1, <2>2
  <2>4. ASSUME y.ok
        PROVE  /\ Filled(y, rows, k + 1, count, first)
               /\ ~mayLeave => y.starts[1] < End(y.starts, 1, k + 1)
    <3>1. x.ok
      BY <2>3, <2>4 DEF AddRow
    <3>2. /\ Filled(x, rows, k, count, first)
          /\ ~mayLeave /\ k > 0 => x.starts[1] < End(x.starts, 1, k)
      BY <1>4, <2>2, <3>1
    <3> QED BY <2>3, <2>4, <3>1, <3>2, AddRowFills
  <2>5. Good(f[k + 1], k + 1)
    BY <2>2, <2>4
  <2> HIDE DEF Good
  <2> QED BY <2>1, <2>5
<1>5. 0 .. Len(rows) \subseteq T
  <2> HIDE DEF T
  <2> QED BY <1>1, <1>3, <1>4, BoundedInduction
<1>6. Good(f[Len(rows)], Len(rows))
  <2> HIDE DEF Good
  <2> QED BY <1>1, <1>5
<1> QED BY <1>1, <1>2, <1>6

-----------------------------------------------------------------------------
(* A cut: fragments with rows in each, that fit for a number of fragments. *)
CutFits(rows, cut, count) ==
    /\ cut \in Seq(Nat) /\ Len(cut) >= 1 /\ cut[1] = 0
    /\ \A i \in 1 .. Len(cut) :
         /\ End(cut, i, Len(rows)) \in 0 .. Len(rows) /\ cut[i] < End(cut, i, Len(rows))
         /\ Fits(i - 1, count, Text(rows, cut[i], End(cut, i, Len(rows))), 0)

(* The pass is not behind the cut: its last row is in an earlier fragment, *)
(* or in the same, which then starts later.                                *)
Ahead(starts, cut, rows, k) ==
    \E j \in 1 .. Len(cut) :
      /\ cut[j] < k \/ (k = 0 /\ j = 1)
      /\ k <= End(cut, j, Len(rows))
      /\ Len(starts) < j \/ (Len(starts) = j /\ cut[j] <= starts[j])

LEMMA StepAhead ==
    ASSUME NEW rows \in Seq(Nat), NEW k \in 0 .. Len(rows) - 1, NEW count \in Nat, NEW more \in Nat,
           Digits(count) <= Digits(more), NEW cut, CutFits(rows, cut, more),
           NEW p \in PackingType, p.ok, Len(p.starts) \in Nat \ {0}, p.starts[Len(p.starts)] \in 0 .. k,
           Ahead(p.starts, cut, rows, k),
           NEW q, q = AddRow(p, rows, k + 1, count, 0, FALSE)
    PROVE  /\ q.ok /\ Len(q.starts) \in Nat \ {0} /\ q.starts[Len(q.starts)] \in 0 .. k + 1
           /\ Ahead(q.starts, cut, rows, k + 1)
<1>1. PICK starts, n, start : starts = p.starts /\ n = Len(starts) /\ start = starts[n]
  OBVIOUS
<1>2. n \in Nat /\ n >= 1 /\ start \in Nat /\ start <= k /\ k \in Nat /\ Len(rows) \in Nat /\ starts \in Seq(Nat)
      /\ k + 1 <= Len(rows) /\ n - 1 \in Nat /\ k \in 0 .. Len(rows) /\ k + 1 \in k .. Len(rows)
  BY <1>1 DEF PackingType
<1>3. /\ cut \in Seq(Nat) /\ Len(cut) \in Nat
      /\ \A i \in 1 .. Len(cut) :
         /\ End(cut, i, Len(rows)) \in 0 .. Len(rows) /\ cut[i] < End(cut, i, Len(rows))
         /\ Fits(i - 1, more, Text(rows, cut[i], End(cut, i, Len(rows))), 0)
         /\ cut[i] \in Nat /\ i \in Nat
  <2>1. cut \in Seq(Nat) /\ Len(cut) \in Nat
    BY DEF CutFits
  <2>2. \A i \in 1 .. Len(cut) : cut[i] \in Nat /\ i \in Nat
    BY <2>1
  <2> QED BY <2>1, <2>2 DEF CutFits
(* The fragment of the cut that has row k, and the one that has the next.  *)
<1>4. PICK j \in 1 .. Len(cut) :
      /\ cut[j] < k \/ (k = 0 /\ j = 1)
      /\ k <= End(cut, j, Len(rows))
      /\ n < j \/ (n = j /\ cut[j] <= start)
  BY <1>1 DEF Ahead
<1>5. PICK l \in 1 .. Len(cut) :
      /\ l = j \/ (l = j + 1 /\ cut[l] = k)
      /\ cut[l] < k + 1 /\ k + 1 <= End(cut, l, Len(rows))
  <2>1. CASE k + 1 <= End(cut, j, Len(rows))
    <3>1. cut[j] < k + 1
      <4>1. cut[j] \in Nat /\ cut[1] = 0
        BY <1>3 DEF CutFits
      <4> QED BY <1>2, <1>4, <4>1
    <3> QED BY <2>1, <3>1
  <2>2. CASE ~(k + 1 <= End(cut, j, Len(rows)))
    <3>1. End(cut, j, Len(rows)) \in Nat
      BY <1>3
    <3>2. End(cut, j, Len(rows)) = k
      <4>1. PICK e : e = End(cut, j, Len(rows))
        OBVIOUS
      <4>2. e \in Nat /\ k \in Nat /\ k <= e /\ ~(k + 1 <= e)
        BY <1>2, <1>4, <2>2, <3>1, <4>1
      <4>3. e = k
        BY <4>2
      <4> QED BY <4>1, <4>3
    <3>3. j # Len(cut) /\ cut[j + 1] = k
      BY <1>2, <3>2 DEF End
    <3>4. j + 1 \in 1 .. Len(cut)
      BY <1>3, <3>3
    <3>5. PICK i : i = j + 1
      OBVIOUS
    <3>6. i \in 1 .. Len(cut) /\ cut[i] = k
      BY <3>3, <3>4, <3>5
    <3>7. cut[i] < End(cut, i, Len(rows)) /\ End(cut, i, Len(rows)) \in 0 .. Len(rows)
      BY <1>3, <3>6
    <3>8. k + 1 <= End(cut, i, Len(rows)) /\ cut[i] < k + 1
      <4>1. PICK e : e = End(cut, i, Len(rows))
        OBVIOUS
      <4>2. e \in Nat /\ k \in Nat /\ k < e
        BY <1>2, <3>6, <3>7, <4>1
      <4>3. k + 1 <= e /\ k < k + 1
        BY <4>2
      <4> QED BY <3>6, <4>1, <4>3
    <3> QED BY <3>5, <3>6, <3>8
  <2> QED BY <2>1, <2>2
<1>6. PICK a, b : a = cut[l] /\ b = End(cut, l, Len(rows))
  OBVIOUS
<1>7. /\ a \in Nat /\ b \in Nat /\ a <= k /\ k + 1 <= b /\ b <= Len(rows) /\ l \in Nat /\ l >= 1
      /\ Fits(l - 1, more, Text(rows, a, b), 0) /\ j \in Nat /\ l - 1 \in Nat
  <2>1. /\ a \in Nat /\ b \in 0 .. Len(rows) /\ a < k + 1 /\ k + 1 <= b /\ l \in 1 .. Len(cut)
        /\ j \in 1 .. Len(cut) /\ Fits(l - 1, more, Text(rows, a, b), 0)
    BY <1>3, <1>5, <1>6
  <2>2. a <= k /\ b \in Nat /\ b <= Len(rows)
    <3>1. k \in Nat /\ Len(rows) \in Nat
      BY <1>2
    <3> QED BY <2>1, <3>1
  <2>3. l \in Nat /\ l >= 1 /\ l - 1 \in Nat /\ j \in Nat
    <3>1. Len(cut) \in Nat
      BY <1>3
    <3> QED BY <2>1, <3>1
  <2> QED BY <2>1, <2>2, <2>3
<1>8. ASSUME NEW s \in a .. k, NEW i \in Nat, i <= l - 1
      PROVE  Fits(i, count, Text(rows, s, k + 1), 0)
  <2>1. a \in 0 .. Len(rows) /\ b \in a .. Len(rows) /\ s \in a .. b /\ k + 1 \in s .. b
        /\ s \in 0 .. Len(rows) /\ k + 1 \in s .. Len(rows)
    <3>1. PICK len : len = Len(rows)
      OBVIOUS
    <3>2. len \in Nat /\ k \in Nat /\ a \in Nat /\ b \in Nat /\ a <= k /\ k + 1 <= b /\ b <= len
      BY <1>2, <1>7, <3>1
    <3>3. s \in Nat /\ a <= s /\ s <= k
      BY <3>2
    <3>4. a \in 0 .. len /\ b \in a .. len
      BY <3>2
    <3>5. s \in a .. b /\ s \in 0 .. len
      BY <3>2, <3>3
    <3>6. k + 1 \in s .. b /\ k + 1 \in s .. len
      BY <3>2, <3>3
    <3> QED BY <3>1, <3>4, <3>5, <3>6
  <2>2. /\ Text(rows, s, k + 1) \in Nat /\ Text(rows, a, b) \in Nat
        /\ Text(rows, s, k + 1) <= Text(rows, a, b)
    BY <2>1, TextFacts
  <2>3. PICK text, longer : text = Text(rows, s, k + 1) /\ longer = Text(rows, a, b)
    OBVIOUS
  <2>4. text \in Nat /\ longer \in Nat /\ text <= longer /\ Fits(l - 1, more, longer, 0)
    BY <1>7, <2>2, <2>3
  <2>5. Fits(i, count, text, 0)
    <3>1. PICK h, none : h = l - 1 /\ none = 0
      OBVIOUS
    <3>2. h \in Nat /\ i <= h /\ none \in Nat /\ Fits(h, more, longer, none)
      BY <1>7, <1>8, <2>4, <3>1
    <3>3. i = 0 => none = 0 \/ (h = 0 /\ none <= none)
      BY <3>1
    <3>4. Fits(i, count, text, none)
      BY <2>4, <3>2, <3>3, FitsLess
    <3> QED BY <3>1, <3>4
  <2> QED BY <2>3, <2>5
<1>9. n <= l
  BY <1>2, <1>4, <1>5, <1>7
<1>10. CASE Fits(n - 1, count, Text(rows, start, k + 1), 0)
  <2>1. q = p
    BY <1>1, <1>10 DEF AddRow
  <2>2. n < l \/ (n = l /\ cut[l] <= start)
    <3>1. CASE l = j
      BY <1>4, <3>1
    <3>2. CASE l = j + 1
      BY <1>2, <1>4, <1>7, <3>2
    <3> QED BY <1>5, <3>1, <3>2
  <2>3. Ahead(q.starts, cut, rows, k + 1)
    BY <1>1, <1>5, <2>1, <2>2 DEF Ahead
  <2>4. start \in 0 .. k + 1
    BY <1>2
  <2> QED BY <1>1, <2>1, <2>3, <2>4
<1>11. CASE ~Fits(n - 1, count, Text(rows, start, k + 1), 0)
  <2>1. n < l
    <3>1. SUFFICES ASSUME n = l PROVE FALSE
      BY <1>2, <1>7, <1>9
    <3>2. j = l /\ cut[j] <= start
      <4>1. ~(n < j) /\ j <= l
        <5>1. j \in Nat /\ l \in Nat /\ (l = j \/ l = j + 1)
          BY <1>5, <1>7
        <5> QED BY <3>1, <5>1
      <4>2. n = j
        BY <1>4, <4>1
      <4> QED BY <1>4, <3>1, <4>1, <4>2
    <3>3. start \in a .. k /\ n - 1 \in Nat /\ n - 1 <= l - 1
      BY <1>2, <1>6, <1>7, <3>1, <3>2
    <3> QED BY <1>8, <1>11, <3>3
  <2>2. n <= l - 1 /\ n - 1 <= l - 1 /\ k \in a .. k
    <3>1. n \in Nat /\ l \in Nat /\ a \in Nat /\ k \in Nat /\ a <= k
      BY <1>2, <1>7
    <3> QED BY <2>1, <3>1
  <2>3. Fits(n, count, Text(rows, k, k + 1), 0) /\ Fits(n - 1, count, Text(rows, k, k + 1), 0)
    BY <1>2, <1>8, <2>2
  <2>4. start # k
    BY <1>11, <2>3
  <2>5. PICK new : new = Append(starts, k)
    OBVIOUS
  <2>6. q = Packing(TRUE, new)
    <3>1. (k + 1) - 1 = k
      BY <1>2
    <3> QED BY <1>1, <1>11, <2>3, <2>4, <2>5, <3>1 DEF AddRow
  <2>7. q.ok /\ q.starts = new
    <3>1. Packing(TRUE, new).ok /\ Packing(TRUE, new).starts = new
      BY DEF Packing
    <3> QED BY <2>6, <3>1
  <2>8. Len(new) = n + 1 /\ new[n + 1] = k
    BY <1>1, <1>2, <2>5
  <2>9. n + 1 < l \/ (n + 1 = l /\ cut[l] <= new[l])
    <3>1. n + 1 <= l
      BY <1>2, <1>7, <2>1
    <3>2. cut[l] <= k
      BY <1>6, <1>7
    <3> QED BY <1>2, <1>7, <2>8, <3>1, <3>2
  <2>10. Ahead(new, cut, rows, k + 1)
    BY <1>5, <2>8, <2>9 DEF Ahead
  <2>11. k \in 0 .. k + 1 /\ n + 1 \in Nat \ {0}
    BY <1>2
  <2> QED BY <2>7, <2>8, <2>10, <2>11
<1> QED BY <1>10, <1>11

LEMMA GuessedLoop ==
    ASSUME NEW rows \in Seq(Nat), NEW count \in Nat
    PROVE  \E f \in [0 .. Len(rows) -> PackingType] :
             /\ f[0] = Packing(TRUE, <<0>>)
             /\ \A n \in 1 .. Len(rows) : f[n] = AddRow(f[n - 1], rows, n, count, 0, FALSE)
             /\ Guessed(rows, count) = f[Len(rows)]
<1>1. ASSUME NEW first \in Nat, NEW mayLeave \in BOOLEAN
      PROVE  \E f \in [0 .. Len(rows) -> PackingType] :
             /\ f[0] = Packing(TRUE, <<0>>)
             /\ \A n \in 1 .. Len(rows) : f[n] = AddRow(f[n - 1], rows, n, count, first, mayLeave)
             /\ Pass(rows, count, first, mayLeave) = f[Len(rows)]
  <2>1. Len(rows) \in Nat
    OBVIOUS
  <2> QED BY <2>1, PassLoop
<1>2. \E f \in [0 .. Len(rows) -> PackingType] :
             /\ f[0] = Packing(TRUE, <<0>>)
             /\ \A n \in 1 .. Len(rows) : f[n] = AddRow(f[n - 1], rows, n, count, 0, FALSE)
             /\ Pass(rows, count, 0, FALSE) = f[Len(rows)]
  BY <1>1, Zenon
<1> QED BY <1>2 DEF Guessed

(* A pass for a number with no more digits than the cut's needs no more    *)
(* fragments than the cut.                                                 *)
LEMMA PassAhead ==
    ASSUME NEW rows \in Seq(Nat), NEW count \in Nat, NEW more \in Nat,
           Digits(count) <= Digits(more), NEW cut, CutFits(rows, cut, more)
    PROVE  /\ Guessed(rows, count).ok
           /\ Len(Guessed(rows, count).starts) \in Nat
           /\ Len(Guessed(rows, count).starts) <= Len(cut)
<1>1. Len(rows) \in Nat
  OBVIOUS
<1>2. PICK f \in [0 .. Len(rows) -> PackingType] :
             /\ f[0] = Packing(TRUE, <<0>>)
             /\ \A n \in 1 .. Len(rows) : f[n] = AddRow(f[n - 1], rows, n, count, 0, FALSE)
             /\ Guessed(rows, count) = f[Len(rows)]
  BY GuessedLoop
<1>3. cut \in Seq(Nat) /\ Len(cut) \in Nat /\ Len(cut) >= 1 /\ cut[1] = 0
  BY DEF CutFits
<1> DEFINE Good(x, k) == /\ x.ok /\ Len(x.starts) \in Nat \ {0} /\ x.starts[Len(x.starts)] \in 0 .. k
                         /\ Ahead(x.starts, cut, rows, k)
           T == {k \in 0 .. Len(rows) : Good(f[k], k)}
<1>4. 0 \in T
  <2>1. PICK x, one : x = f[0] /\ one = <<0>>
    OBVIOUS
  <2>2. x.ok /\ x.starts = one
    BY <1>2, <2>1 DEF Packing
  <2>3. Len(one) = 1 /\ one[1] = 0
    BY <2>1
  <2>4. 1 \in 1 .. Len(cut) /\ 0 <= End(cut, 1, Len(rows))
    <3>1. 1 \in 1 .. Len(cut)
      BY <1>3
    <3>2. End(cut, 1, Len(rows)) \in 0 .. Len(rows)
      BY <3>1 DEF CutFits
    <3> QED BY <1>1, <3>1, <3>2
  <2>5. Ahead(one, cut, rows, 0)
    BY <1>3, <2>3, <2>4 DEF Ahead
  <2>6. Good(f[0], 0)
    BY <2>1, <2>2, <2>3, <2>5
  <2> HIDE DEF Good
  <2> QED BY <1>1, <2>6
<1>5. ASSUME NEW k \in 0 .. Len(rows) - 1, k \in T PROVE k + 1 \in T
  <2>1. k + 1 \in 1 .. Len(rows) /\ (k + 1) - 1 = k /\ k + 1 \in 0 .. Len(rows) /\ k \in 0 .. Len(rows)
    BY <1>1
  <2>2. PICK x, y : x = f[k] /\ y = f[k + 1]
    OBVIOUS
  <2>3. y = AddRow(x, rows, k + 1, count, 0, FALSE) /\ x \in PackingType
    BY <1>2, <2>1, <2>2
  <2>4. Good(x, k)
    <3> HIDE DEF Good
    <3> QED BY <1>5, <2>2
  <2>5. Good(y, k + 1)
    BY <2>3, <2>4, StepAhead
  <2> HIDE DEF Good
  <2> QED BY <2>1, <2>2, <2>5
<1>6. 0 .. Len(rows) \subseteq T
  <2> HIDE DEF T
  <2> QED BY <1>1, <1>4, <1>5, BoundedInduction
<1>7. Good(f[Len(rows)], Len(rows))
  <2> HIDE DEF Good
  <2> QED BY <1>1, <1>6
<1>8. PICK x : x = f[Len(rows)]
  OBVIOUS
<1>9. PICK j \in 1 .. Len(cut) : Len(x.starts) < j \/ Len(x.starts) = j
  BY <1>7, <1>8 DEF Ahead
<1>10. x.ok /\ Len(x.starts) \in Nat
  BY <1>7, <1>8
<1>11. Len(x.starts) <= Len(cut)
  BY <1>3, <1>9, <1>10
<1> QED BY <1>2, <1>8, <1>10, <1>11

(* What a pass that succeeds gives is a cut.                               *)
LEMMA EmptyFits ==
    ASSUME NEW count \in Nat
    PROVE  Fits(0, count, 0, 0)
<1>1. PICK a, b, c : a = Digits(0) /\ b = Digits(count) /\ c = Digits(0 + 1)
  OBVIOUS
<1>2. a \in {1, 2} /\ b \in {1, 2} /\ c \in {1, 2}
  BY <1>1, DigitsFacts
<1>3. DatagramLimit \in Nat /\ DatagramLimit >= 6
  BY FragmentPackingAssumption
<1>4. a + b + c + 0 + 0 <= DatagramLimit
  BY <1>2, <1>3
<1> QED BY <1>1, <1>4 DEF Fits

LEMMA PassIsCut ==
    ASSUME NEW rows \in Seq(Nat), rows # <<>>, NEW count \in Nat,
           NEW p, p = Guessed(rows, count), p.ok
    PROVE  CutFits(rows, p.starts, count) /\ Len(p.starts) \in Nat \ {0}
<1>1. Len(rows) \in Nat /\ Len(rows) > 0
  OBVIOUS
<1>2. /\ Filled(p, rows, Len(rows), count, 0)
      /\ p.starts[1] < End(p.starts, 1, Len(rows))
  <2>1. PICK none, no : none = 0 /\ no = FALSE
    OBVIOUS
  <2>2. p = Pass(rows, count, none, no) /\ none \in Nat /\ no \in BOOLEAN /\ ~no /\ Fits(0, count, 0, none)
    BY <2>1, EmptyFits DEF Guessed
  <2>3. Filled(p, rows, Len(rows), count, none) /\ p.starts[1] < End(p.starts, 1, Len(rows))
    BY <1>1, <2>2, PassFills
  <2> QED BY <2>1, <2>3
<1>3. p.starts \in Seq(Nat) /\ Len(p.starts) \in 1 .. Len(rows) + 1 /\ p.starts[1] = 0
  BY <1>2 DEF Filled
<1>4. Len(p.starts) \in Nat /\ Len(p.starts) >= 1
  BY <1>1, <1>3
<1>5. ASSUME NEW i \in 1 .. Len(p.starts)
      PROVE  /\ End(p.starts, i, Len(rows)) \in 0 .. Len(rows)
             /\ p.starts[i] < End(p.starts, i, Len(rows))
             /\ Fits(i - 1, count, Text(rows, p.starts[i], End(p.starts, i, Len(rows))), 0)
  <2>1. i = 1 \/ i > 1
    BY <1>4
  <2> QED BY <1>2, <2>1 DEF Filled
<1> QED BY <1>3, <1>4, <1>5 DEF CutFits

Sent(rows) == {starts \in Cuts(rows) : Sendable(rows, starts, 0)}

LEMMA SentIsCut ==
    ASSUME NEW rows \in Seq(Nat), rows # <<>>, NEW cut \in Sent(rows)
    PROVE  CutFits(rows, cut, Len(cut)) /\ Len(cut) \in Nat \ {0} /\ Len(cut) <= MaxFragments
<1>1. Len(rows) \in Nat /\ Len(rows) > 0
  OBVIOUS
<1>2. /\ cut \in UNION {[1 .. n -> 0 .. Len(rows) - 1] : n \in 1 .. Len(rows)} /\ cut[1] = 0
      /\ \A i \in 2 .. Len(cut) : cut[i - 1] < cut[i]
      /\ Sendable(rows, cut, 0)
  BY DEF Sent, Cuts
<1>3. PICK n \in 1 .. Len(rows) : cut \in [1 .. n -> 0 .. Len(rows) - 1]
  BY <1>2
<1>4. n \in Nat /\ n >= 1
  BY <1>1
<1>5. \A i \in 1 .. n : cut[i] \in Nat /\ cut[i] < Len(rows)
  BY <1>1, <1>3
<1>6. cut \in Seq(Nat) /\ Len(cut) = n
  <2>1. cut \in [1 .. n -> Nat]
    BY <1>3, <1>5
  <2> QED BY <1>4, <2>1
<1>7. ASSUME NEW i \in 1 .. Len(cut)
      PROVE  End(cut, i, Len(rows)) \in 0 .. Len(rows) /\ cut[i] < End(cut, i, Len(rows))
  <2>1. CASE i = n
    <3>1. End(cut, i, Len(rows)) = Len(rows) /\ cut[i] < Len(rows)
      BY <1>5, <1>6, <2>1 DEF End
    <3> QED BY <1>1, <3>1
  <2>2. CASE i # n
    <3>1. PICK j : j = i + 1
      OBVIOUS
    <3>2. j \in 2 .. n /\ j - 1 = i /\ j \in 1 .. n
      BY <1>4, <1>6, <2>2, <3>1
    <3>3. cut[i] < cut[j] /\ cut[j] \in Nat /\ cut[j] < Len(rows)
      BY <1>2, <1>5, <1>6, <3>2
    <3>4. End(cut, i, Len(rows)) = cut[j]
      BY <1>6, <2>2, <3>1 DEF End
    <3> QED BY <1>1, <3>3, <3>4
  <2> QED BY <2>1, <2>2
<1>8. DOMAIN cut = 1 .. Len(cut)
  BY <1>6
<1>9. Len(cut) <= MaxFragments
  BY <1>2 DEF Sendable
<1>10. \A i \in 1 .. Len(cut) :
         Fits(i - 1, Len(cut), Text(rows, cut[i], End(cut, i, Len(rows))), 0)
  BY <1>2, <1>8 DEF Sendable
<1>11. CutFits(rows, cut, Len(cut))
  <2>1. Len(cut) >= 1 /\ cut[1] = 0
    BY <1>2, <1>4, <1>6
  <2> QED BY <1>6, <1>7, <1>10, <2>1 DEF CutFits
<1> QED BY <1>4, <1>6, <1>9, <1>11

LEMMA CutIsSent ==
    ASSUME NEW rows \in Seq(Nat), rows # <<>>, NEW cut, CutFits(rows, cut, Len(cut)), Len(cut) <= MaxFragments
    PROVE  cut \in Sent(rows)
<1> DEFINE n == Len(cut)
<1>1. Len(rows) \in Nat /\ Len(rows) > 0
  OBVIOUS
<1>2. cut \in Seq(Nat) /\ n \in Nat /\ n >= 1 /\ cut[1] = 0 /\ DOMAIN cut = 1 .. n
  BY DEF CutFits
<1>3. ASSUME NEW i \in 1 .. n
      PROVE  /\ End(cut, i, Len(rows)) \in 0 .. Len(rows) /\ cut[i] < End(cut, i, Len(rows))
             /\ Fits(i - 1, n, Text(rows, cut[i], End(cut, i, Len(rows))), 0) /\ cut[i] \in Nat
  <2>1. cut[i] \in Nat
    BY <1>2
  <2> QED BY <2>1 DEF CutFits
<1>4. ASSUME NEW i \in 2 .. n PROVE cut[i - 1] < cut[i]
  <2>1. PICK j : j = i - 1
    OBVIOUS
  <2>2. j \in 1 .. n /\ j # n /\ j + 1 = i
    BY <1>2, <2>1
  <2>3. End(cut, j, Len(rows)) = cut[i]
    BY <2>2 DEF End
  <2>4. cut[j] < End(cut, j, Len(rows))
    BY <1>3, <2>2
  <2> QED BY <2>1, <2>3, <2>4
<1>5. \A i \in 0 .. n - 1 : i <= cut[i + 1]
  <2> DEFINE m == n - 1
             T == {i \in 0 .. m : i <= cut[i + 1]}
  <2>0. m \in Nat
    BY <1>2
  <2>1. 0 \in T
    BY <1>2, <2>0
  <2>2. ASSUME NEW i \in 0 .. m - 1, i \in T PROVE i + 1 \in T
    <3>1. PICK j : j = i + 1
      OBVIOUS
    <3>2. j + 1 \in 2 .. n /\ (j + 1) - 1 = j /\ j \in 1 .. n /\ j + 1 \in 1 .. n /\ j \in 0 .. m
      BY <1>2, <2>0, <3>1
    <3>3. cut[j] < cut[j + 1] /\ cut[j] \in Nat /\ cut[j + 1] \in Nat
      BY <1>3, <1>4, <3>2
    <3>4. i <= cut[j]
      BY <2>2, <3>1
    <3>5. j <= cut[j + 1]
      <4>1. PICK x, y : x = cut[j] /\ y = cut[j + 1]
        OBVIOUS
      <4>2. x \in Nat /\ y \in Nat /\ i \in Nat /\ i <= x /\ x < y
        BY <2>0, <3>3, <3>4, <4>1
      <4>3. i + 1 <= y
        BY <4>2
      <4> QED BY <3>1, <4>1, <4>3
    <3> QED BY <3>1, <3>2, <3>5
  <2>3. 0 .. m \subseteq T
    <3> HIDE DEF T, m
    <3> QED BY <2>0, <2>1, <2>2, BoundedInduction
  <2> QED BY <2>3
<1>6. n <= Len(rows)
  <2>1. n \in 1 .. n /\ n - 1 \in 0 .. n - 1 /\ (n - 1) + 1 = n
    BY <1>2
  <2>2. End(cut, n, Len(rows)) = Len(rows) /\ cut[n] < End(cut, n, Len(rows)) /\ cut[n] \in Nat
    BY <1>3, <2>1 DEF End
  <2>3. n - 1 <= cut[n]
    BY <1>5, <2>1
  <2>4. PICK x, m, len : x = cut[n] /\ m = n /\ len = Len(rows)
    OBVIOUS
  <2>5. x \in Nat /\ m \in Nat /\ len \in Nat /\ x < len /\ m - 1 <= x
    BY <1>1, <1>2, <2>2, <2>3, <2>4
  <2>6. m <= len
    BY <2>5
  <2> QED BY <2>4, <2>6
<1>7. ASSUME NEW i \in 1 .. n PROVE cut[i] \in 0 .. Len(rows) - 1
  <2>1. PICK e : e = End(cut, i, Len(rows))
    OBVIOUS
  <2>2. e \in 0 .. Len(rows) /\ cut[i] < e /\ cut[i] \in Nat
    BY <1>3, <2>1
  <2> QED BY <1>1, <2>2
<1>8. cut \in [1 .. n -> 0 .. Len(rows) - 1] /\ n \in 1 .. Len(rows)
  <2>1. cut = [i \in 1 .. n |-> cut[i]]
    BY <1>2
  <2>2. n \in 1 .. Len(rows)
    BY <1>1, <1>2, <1>6
  <2> QED BY <1>7, <2>1, <2>2
<1>9. cut \in Cuts(rows)
  BY <1>2, <1>4, <1>8 DEF Cuts
<1>10. Sendable(rows, cut, 0)
  BY <1>2, <1>3 DEF Sendable
<1> QED BY <1>9, <1>10 DEF Sent

-----------------------------------------------------------------------------
(* What one attempt says, with and without rows.                           *)
LEMMA NoRows ==
    ASSUME NEW count \in Nat
    PROVE  Guessed(<<>>, count) = Packing(TRUE, <<0>>)
<1>1. <<>> \in Seq(Nat) /\ Len(<<>>) = 0
  OBVIOUS
<1>2. PICK rows : rows = <<>>
  OBVIOUS
<1>3. rows \in Seq(Nat) /\ Len(rows) = 0
  BY <1>1, <1>2
<1>4. PICK f \in [0 .. Len(rows) -> PackingType] :
             f[0] = Packing(TRUE, <<0>>) /\ Guessed(rows, count) = f[Len(rows)]
  BY <1>3, GuessedLoop
<1> QED BY <1>2, <1>3, <1>4

LEMMA SentWithoutRows == Sent(<<>>) = {<<0>>}
<1>1. PICK one : one = <<0>>
  OBVIOUS
<1>2. Len(one) = 1 /\ DOMAIN one = 1 .. 1 /\ one[1] = 0 /\ Len(<<>>) = 0
  BY <1>1
<1>3. \A i \in 1 .. 1 : i = 1
  OBVIOUS
<1>4. End(one, 1, 0) = 0 /\ Text(<<>>, 0, 0) = 0 /\ 1 - 1 = 0
  BY <1>2 DEF End, Text
<1>5. Fits(0, 1, 0, 0)
  BY EmptyFits
<1>6. 1 <= MaxFragments
  BY FragmentPackingAssumption
<1>7. Sendable(<<>>, one, 0)
  BY <1>2, <1>3, <1>4, <1>5, <1>6 DEF Sendable
<1> QED BY <1>1, <1>7 DEF Sent, Cuts

LEMMA GuessedType ==
    ASSUME NEW rows \in Seq(Nat), NEW count \in Nat
    PROVE  /\ Guessed(rows, count) \in PackingType
           /\ Len(Guessed(rows, count).starts) \in Nat
<1>1. Len(rows) \in Nat
  OBVIOUS
<1>2. Guessed(rows, count) \in PackingType
  <2>1. PICK f \in [0 .. Len(rows) -> PackingType] : Guessed(rows, count) = f[Len(rows)]
    BY GuessedLoop
  <2>2. Len(rows) \in 0 .. Len(rows)
    BY <1>1
  <2> QED BY <2>1, <2>2
<1> QED BY <1>2 DEF PackingType

LEMMA GuessGrows ==
    ASSUME NEW rows \in Seq(Nat), NEW a \in Nat, NEW b \in Nat, Digits(a) <= Digits(b),
           Guessed(rows, b).ok
    PROVE  /\ Guessed(rows, a).ok
           /\ Len(Guessed(rows, a).starts) <= Len(Guessed(rows, b).starts)
<1>1. CASE rows = <<>>
  <2>1. Guessed(rows, a) = Guessed(rows, b)
    BY <1>1, NoRows
  <2>2. Len(Guessed(rows, b).starts) \in Nat
    BY GuessedType
  <2> QED BY <2>1, <2>2
<1>2. CASE rows # <<>>
  <2>1. PICK p : p = Guessed(rows, b)
    OBVIOUS
  <2>2. CutFits(rows, p.starts, b)
    BY <1>2, <2>1, PassIsCut
  <2>3. PICK cut : cut = p.starts
    OBVIOUS
  <2>4. CutFits(rows, cut, b)
    BY <2>2, <2>3
  <2>5. Guessed(rows, a).ok /\ Len(Guessed(rows, a).starts) <= Len(cut)
    BY <2>4, PassAhead
  <2> QED BY <2>1, <2>3, <2>5
<1> QED BY <1>1, <1>2

LEMMA GuessBelow ==
    ASSUME NEW rows \in Seq(Nat), NEW a \in Nat, NEW s \in Sent(rows), Digits(a) <= Digits(Len(s))
    PROVE  /\ Guessed(rows, a).ok /\ Len(Guessed(rows, a).starts) <= Len(s)
           /\ Len(s) \in Nat /\ Len(s) <= MaxFragments
<1>1. CASE rows = <<>>
  <2>1. s = <<0>> /\ Guessed(rows, a) = Packing(TRUE, <<0>>)
    BY <1>1, NoRows, SentWithoutRows
  <2>2. Guessed(rows, a).ok /\ Guessed(rows, a).starts = s
    BY <2>1 DEF Packing
  <2>3. Len(s) = 1 /\ 1 <= MaxFragments
    BY <2>1, FragmentPackingAssumption
  <2> QED BY <2>2, <2>3
<1>2. CASE rows # <<>>
  <2>1. CutFits(rows, s, Len(s)) /\ Len(s) \in Nat /\ Len(s) <= MaxFragments
    BY <1>2, SentIsCut
  <2>2. PICK l : l = Len(s)
    OBVIOUS
  <2>3. l \in Nat /\ Digits(a) <= Digits(l) /\ CutFits(rows, s, l)
    BY <2>1, <2>2
  <2>4. Guessed(rows, a).ok /\ Len(Guessed(rows, a).starts) <= Len(s)
    BY <2>3, PassAhead
  <2> QED BY <2>1, <2>4
<1> QED BY <1>1, <1>2

LEMMA GuessRight ==
    ASSUME NEW rows \in Seq(Nat), NEW a \in Nat, Guessed(rows, a).ok,
           Len(Guessed(rows, a).starts) = a, a <= MaxFragments
    PROVE  Guessed(rows, a).starts \in Sent(rows)
<1>1. CASE rows = <<>>
  <2>1. Guessed(rows, a).starts = <<0>>
    BY <1>1, NoRows DEF Packing
  <2> QED BY <1>1, <2>1, SentWithoutRows
<1>2. CASE rows # <<>>
  <2>1. PICK p, cut : p = Guessed(rows, a) /\ cut = p.starts
    OBVIOUS
  <2>2. p.ok /\ Len(cut) = a
    BY <2>1
  <2>3. CutFits(rows, p.starts, a)
    BY <1>2, <2>1, <2>2, PassIsCut
  <2>4. CutFits(rows, cut, Len(cut)) /\ Len(cut) <= MaxFragments
    BY <2>1, <2>2, <2>3
  <2>5. cut \in Sent(rows)
    BY <1>2, <2>4, CutIsSent
  <2> QED BY <2>1, <2>5
<1> QED BY <1>1, <1>2

-----------------------------------------------------------------------------
(* The attempts of packDirectoryRows, with their guesses.                  *)
Guesses(rows, g) ==
    /\ g \in [0 .. MaxAttempts - 1 -> Nat] /\ g[0] = 1
    /\ \A n \in 1 .. MaxAttempts - 1 : g[n] = Len(Guessed(rows, g[n - 1]).starts)

Ending(rows, g) ==
    {n \in 0 .. MaxAttempts - 1 :
       Failed(Guessed(rows, g[n])) \/ Len(Guessed(rows, g[n]).starts) = g[n]}

Least(T) == CHOOSE n \in T : \A other \in T : n <= other

Outcome(rows, g) ==
    IF Ending(rows, g) = {} THEN TooLarge
    ELSE IF Failed(Guessed(rows, g[Least(Ending(rows, g))])) THEN TooLarge
         ELSE Guessed(rows, g[Least(Ending(rows, g))])

LEMMA GuessLoop ==
    ASSUME NEW rows \in Seq(Nat)
    PROVE  \E g : Guesses(rows, g) /\ PackRows(rows) = Outcome(rows, g)
<1> DEFINE m == MaxAttempts - 1
           step == [n \in 1 .. m |-> [x \in Nat |-> Len(Guessed(rows, x).starts)]]
           Def(f) == f = [n \in 0 .. m |-> IF n = 0 THEN 1 ELSE Len(Guessed(rows, f[n - 1]).starts)]
           u == CHOOSE f : Def(f)
<1>1. m \in Nat
  BY FragmentPackingAssumption
<1>2. step \in [1 .. m -> [Nat -> Nat]]
  BY GuessedType
<1>3. PICK f \in [0 .. m -> Nat] : Recurs(f, m, 1, step)
  <2> HIDE DEF m, step
  <2> QED BY <1>1, <1>2, RecursionExists
<1>4. ASSUME NEW n \in 1 .. m PROVE f[n] = Len(Guessed(rows, f[n - 1]).starts)
  <2>1. n - 1 \in 0 .. m
    BY <1>1
  <2>2. f[n - 1] \in Nat
    BY <1>3, <2>1
  <2>3. f[n] = step[n][f[n - 1]]
    <3> HIDE DEF step
    <3> QED BY <1>3 DEF Recurs
  <2> QED BY <2>2, <2>3
<1>5. f[0] = 1
  BY <1>3 DEF Recurs
<1>6. Def(f)
  <2>1. f = [n \in 0 .. m |-> f[n]]
    BY <1>3
  <2>2. \A n \in 0 .. m : n = 0 \/ n \in 1 .. m
    BY <1>1
  <2>3. \A n \in 0 .. m : f[n] = IF n = 0 THEN 1 ELSE Len(Guessed(rows, f[n - 1]).starts)
    BY <1>4, <1>5, <2>2
  <2> QED BY <2>1, <2>3
<1>7. Def(u)
  <2> HIDE DEF Def
  <2> QED BY <1>6, Zenon
<1>8. PackRows(rows) = Outcome(rows, u)
  BY DEF PackRows, Outcome, Ending, Least
<1> HIDE DEF u, step
<1>9. u[0] = 1 /\ \A n \in 1 .. m : u[n] = Len(Guessed(rows, u[n - 1]).starts)
  BY <1>1, <1>7
<1>10. ASSUME NEW n \in 0 .. m PROVE u[n] \in Nat
  <2> DEFINE T == {i \in 0 .. m : u[i] \in Nat}
  <2>1. 0 \in T
    BY <1>1, <1>9
  <2>2. ASSUME NEW i \in 0 .. m - 1, i \in T PROVE i + 1 \in T
    <3>1. i + 1 \in 1 .. m /\ (i + 1) - 1 = i /\ i + 1 \in 0 .. m
      BY <1>1
    <3>2. u[i] \in Nat /\ u[i + 1] = Len(Guessed(rows, u[i]).starts)
      BY <1>9, <2>2, <3>1
    <3>3. u[i + 1] \in Nat
      BY <3>2, GuessedType
    <3> QED BY <3>1, <3>3
  <2>3. 0 .. m \subseteq T
    <3> HIDE DEF T, m
    <3> QED BY <1>1, <2>1, <2>2, BoundedInduction
  <2> QED BY <2>3
<1>11. u \in [0 .. m -> Nat]
  BY <1>7, <1>10
<1>12. Guesses(rows, u)
  BY <1>9, <1>11 DEF Guesses
<1> QED BY <1>8, <1>12

(* A guess that has no more digits than any cut that can be sent.          *)
Low(rows, a) == \A s \in Sent(rows) : Digits(a) <= Digits(Len(s))

LEMMA LowGuess ==
    ASSUME NEW rows \in Seq(Nat), NEW a \in Nat, Low(rows, a)
    PROVE  /\ Failed(Guessed(rows, a)) => Sent(rows) = {}
           /\ ~Failed(Guessed(rows, a)) => Low(rows, Len(Guessed(rows, a).starts))
           /\ ~Failed(Guessed(rows, a)) /\ Len(Guessed(rows, a).starts) = a =>
                /\ Guessed(rows, a).starts \in Sent(rows)
                /\ \A s \in Sent(rows) : Len(Guessed(rows, a).starts) <= Len(s)
<1>1. PICK p, n : p = Guessed(rows, a) /\ n = Len(p.starts)
  OBVIOUS
<1>2. n \in Nat /\ MaxFragments \in Nat
  BY <1>1, GuessedType, FragmentPackingAssumption
<1>3. ASSUME NEW s \in Sent(rows)
      PROVE  p.ok /\ n <= Len(s) /\ Len(s) \in Nat /\ Len(s) <= MaxFragments /\ Digits(n) <= Digits(Len(s))
  <2>1. Digits(a) <= Digits(Len(s))
    BY DEF Low
  <2>2. p.ok /\ n <= Len(s) /\ Len(s) \in Nat /\ Len(s) <= MaxFragments
    BY <1>1, <2>1, GuessBelow
  <2> QED BY <1>2, <2>2, DigitsFacts
<1>4. ASSUME Failed(p) PROVE Sent(rows) = {}
  <2>1. SUFFICES ASSUME NEW s \in Sent(rows) PROVE FALSE
    OBVIOUS
  <2>2. p.ok /\ n <= MaxFragments
    BY <1>2, <1>3
  <2> QED BY <1>1, <1>2, <1>4, <2>2 DEF Failed
<1>5. Low(rows, n)
  BY <1>3 DEF Low
<1>6. ASSUME ~Failed(p), n = a PROVE p.starts \in Sent(rows)
  <2>1. p.ok /\ a <= MaxFragments
    BY <1>1, <1>2, <1>6 DEF Failed
  <2> QED BY <1>1, <1>6, <2>1, GuessRight
<1> QED BY <1>1, <1>3, <1>4, <1>5, <1>6

(* The number of digits changes at most once: the third attempt, if not an *)
(* earlier one, is the last.                                               *)
LEMMA ThirdAttempt ==
    ASSUME NEW rows \in Seq(Nat), NEW g, Guesses(rows, g)
    PROVE  \E n \in Ending(rows, g) : n \in {0, 1, 2}
<1> DEFINE p(n) == Guessed(rows, g[n])
           l(n) == Len(p(n).starts)
<1>1. 0 \in 0 .. MaxAttempts - 1 /\ 1 \in 0 .. MaxAttempts - 1 /\ 2 \in 0 .. MaxAttempts - 1
      /\ 1 \in 1 .. MaxAttempts - 1 /\ 2 \in 1 .. MaxAttempts - 1 /\ 1 - 1 = 0 /\ 2 - 1 = 1
  BY FragmentPackingAssumption
<1>2. g[0] = 1 /\ g[1] = l(0) /\ g[2] = l(1) /\ g[0] \in Nat /\ g[1] \in Nat /\ g[2] \in Nat
  BY <1>1 DEF Guesses
<1>3. l(0) \in Nat /\ l(1) \in Nat /\ l(2) \in Nat
  BY <1>2, GuessedType
<1>4. SUFFICES ASSUME 0 \notin Ending(rows, g), 1 \notin Ending(rows, g), 2 \notin Ending(rows, g)
               PROVE  FALSE
  OBVIOUS
<1>5. /\ ~Failed(p(0)) /\ ~Failed(p(1)) /\ ~Failed(p(2))
      /\ l(0) # g[0] /\ l(1) # g[1] /\ l(2) # g[2]
  BY <1>1, <1>4 DEF Ending
<1>6. p(0).ok /\ p(1).ok /\ p(2).ok
  BY <1>5 DEF Failed
<1>7. PICK a, b, c : a = g[0] /\ b = g[1] /\ c = g[2]
  OBVIOUS
<1>8. /\ a \in Nat /\ b \in Nat /\ c \in Nat /\ a = 1
      /\ Guessed(rows, a).ok /\ Guessed(rows, b).ok /\ Guessed(rows, c).ok
      /\ b = Len(Guessed(rows, a).starts) /\ c = Len(Guessed(rows, b).starts)
      /\ Len(Guessed(rows, c).starts) # c /\ Len(Guessed(rows, c).starts) \in Nat /\ b # a /\ c # b
  BY <1>2, <1>3, <1>5, <1>6, <1>7
<1> HIDE DEF p, l
<1>9. Digits(a) \in {1, 2} /\ Digits(b) \in {1, 2} /\ Digits(c) \in {1, 2}
  BY <1>8, DigitsFacts
<1>10. PICK d : d = Len(Guessed(rows, c).starts)
  OBVIOUS
<1>11. Digits(a) <= Digits(b) => b <= c
  BY <1>8, GuessGrows
<1>12. Digits(b) <= Digits(a) => c <= b
  BY <1>8, GuessGrows
<1>13. Digits(b) <= Digits(c) => c <= d
  BY <1>8, <1>10, GuessGrows
<1>14. Digits(c) <= Digits(b) => d <= c
  BY <1>8, <1>10, GuessGrows
<1>15. Digits(a) = Digits(b) => FALSE
  BY <1>8, <1>9, <1>11, <1>12
<1>16. b <= c => Digits(b) <= Digits(c)
  BY <1>8, DigitsFacts
<1>17. Digits(b) = Digits(c) => FALSE
  BY <1>8, <1>9, <1>10, <1>13, <1>14
<1>18. b = 0 \/ a <= b
  BY <1>8
<1>19. b # 0
  <2>1. PICK q : q = Guessed(rows, a)
    OBVIOUS
  <2>2. CASE rows = <<>>
    BY <1>8, <2>2, NoRows DEF Packing
  <2>3. CASE rows # <<>>
    <3>1. Len(q.starts) \in Nat \ {0}
      BY <1>8, <2>1, <2>3, PassIsCut
    <3> QED BY <1>8, <2>1, <3>1
  <2> QED BY <2>2, <2>3
<1>20. Digits(a) <= Digits(b)
  BY <1>8, <1>18, <1>19, DigitsFacts
<1> QED BY <1>9, <1>11, <1>15, <1>16, <1>17, <1>20

LEMMA OutcomeExact ==
    ASSUME NEW rows \in Seq(Nat), NEW g, Guesses(rows, g)
    PROVE  \/ ~Outcome(rows, g).ok /\ Sent(rows) = {}
           \/ /\ Outcome(rows, g).ok /\ Outcome(rows, g).starts \in Sent(rows)
              /\ \A s \in Sent(rows) : Len(Outcome(rows, g).starts) <= Len(s)
<1>1. 0 \in 0 .. MaxAttempts - 1 /\ 1 \in 0 .. MaxAttempts - 1 /\ 2 \in 0 .. MaxAttempts - 1
      /\ 1 \in 1 .. MaxAttempts - 1 /\ 2 \in 1 .. MaxAttempts - 1 /\ 1 - 1 = 0 /\ 2 - 1 = 1
  BY FragmentPackingAssumption
<1>2. /\ g[0] = 1 /\ g[1] = Len(Guessed(rows, g[0]).starts) /\ g[2] = Len(Guessed(rows, g[1]).starts)
      /\ g[0] \in Nat /\ g[1] \in Nat /\ g[2] \in Nat
  BY <1>1 DEF Guesses
<1>3. PICK T : T = Ending(rows, g)
  OBVIOUS
<1>4. T \in SUBSET Nat /\ T # {} /\ \E n \in T : n \in {0, 1, 2}
  <2>1. \E n \in T : n \in {0, 1, 2}
    BY <1>3, ThirdAttempt
  <2>2. 0 .. MaxAttempts - 1 \subseteq Nat
    BY FragmentPackingAssumption
  <2>3. T \subseteq 0 .. MaxAttempts - 1
    BY <1>3 DEF Ending
  <2> QED BY <2>1, <2>2, <2>3
<1>5. PICK last : last = Least(T)
  OBVIOUS
<1>6. last \in T /\ \A other \in T : last <= other
  <2>1. \E n \in T : \A other \in T : n <= other
    BY <1>4, LeastMember
  <2> QED BY <1>5, <2>1 DEF Least
<1>7. last \in {0, 1, 2}
  <2>1. PICK n \in T : n \in {0, 1, 2}
    BY <1>4
  <2>2. last \in Nat /\ last <= n
    BY <1>4, <1>6, <2>1
  <2> QED BY <2>1, <2>2
<1>8. ASSUME NEW n \in {0, 1, 2}, n < last PROVE ~Failed(Guessed(rows, g[n]))
  <2>1. last \in Nat /\ n \in Nat
    BY <1>7
  <2>2. n \notin T
    BY <1>6, <1>8, <2>1
  <2>3. n \in 0 .. MaxAttempts - 1
    BY <1>1
  <2> QED BY <1>3, <2>2, <2>3 DEF Ending
<1>9. Low(rows, g[0])
  <2>1. ASSUME NEW s \in Sent(rows) PROVE Digits(1) <= Digits(Len(s))
    <3>1. CASE rows = <<>>
      <4>1. Len(s) = 1
        BY <3>1, SentWithoutRows
      <4>2. Digits(1) \in {1, 2}
        BY DigitsFacts
      <4> QED BY <4>1, <4>2
    <3>2. CASE rows # <<>>
      <4>1. Len(s) \in Nat \ {0}
        BY <3>2, SentIsCut
      <4>2. 1 <= Len(s) /\ Len(s) \in Nat
        BY <4>1
      <4> QED BY <4>2, DigitsFacts
    <3> QED BY <3>1, <3>2
  <2> QED BY <1>2, <2>1 DEF Low
<1>10. 0 < last => Low(rows, g[1])
  <2>1. ASSUME 0 < last PROVE Low(rows, g[1])
    <3>1. ~Failed(Guessed(rows, g[0]))
      BY <1>8, <2>1
    <3> QED BY <1>2, <1>9, <3>1, LowGuess
  <2> QED BY <2>1
<1>11. 1 < last => Low(rows, g[2])
  <2>1. ASSUME 1 < last PROVE Low(rows, g[2])
    <3>1. ~Failed(Guessed(rows, g[1])) /\ 0 < last
      BY <1>7, <1>8, <2>1
    <3> QED BY <1>2, <1>10, <3>1, LowGuess
  <2> QED BY <2>1
<1>12. PICK a : a = g[last]
  OBVIOUS
<1>13. a \in Nat /\ Low(rows, a)
  BY <1>2, <1>7, <1>9, <1>10, <1>11, <1>12
<1>14. Failed(Guessed(rows, a)) \/ Len(Guessed(rows, a).starts) = a
  BY <1>3, <1>6, <1>12 DEF Ending
<1>15. Outcome(rows, g) = IF Failed(Guessed(rows, a)) THEN TooLarge ELSE Guessed(rows, a)
  BY <1>3, <1>4, <1>5, <1>12 DEF Outcome
<1>16. CASE Failed(Guessed(rows, a))
  <2>1. Sent(rows) = {}
    BY <1>13, <1>16, LowGuess
  <2>2. ~Outcome(rows, g).ok
    BY <1>15, <1>16 DEF TooLarge, Packing
  <2> QED BY <2>1, <2>2
<1>17. CASE ~Failed(Guessed(rows, a))
  <2>1. PICK p : p = Guessed(rows, a)
    OBVIOUS
  <2>2. p.starts \in Sent(rows) /\ \A s \in Sent(rows) : Len(p.starts) <= Len(s)
    BY <1>13, <1>14, <1>17, <2>1, LowGuess
  <2>3. p.ok /\ Outcome(rows, g) = p
    BY <1>15, <1>17, <2>1 DEF Failed
  <2> QED BY <2>2, <2>3
<1> QED BY <1>16, <1>17

LEMMA AnswerRows ==
    ASSUME NEW rows \in Answers
    PROVE  rows \in Seq(Nat)
<1>1. PICK n \in 0 .. MaxRows : rows \in [1 .. n -> RowSizes]
  BY DEF Answers
<1>2. n \in Nat /\ RowSizes \subseteq Nat
  BY FragmentPackingAssumption
<1>3. rows \in [1 .. n -> Nat]
  BY <1>1, <1>2
<1> QED BY <1>2, <1>3

(* packDirectoryRows: an answer is refused only if no cut of its rows can  *)
(* be sent, and otherwise is sent in the fewest fragments possible, each   *)
(* with the final number of fragments in it (PackingExact), for every      *)
(* answer, datagram size and number of fragments.                          *)
THEOREM PackingAlwaysExact == PackSpec => []PackingExact
<1>1. PackInit => answer \in Answers
  BY DEF PackInit
<1>2. answer \in Answers /\ [UNCHANGED answer]_answer => (answer \in Answers)'
  OBVIOUS
<1>3. answer \in Answers => PackingExact
  <2>1. SUFFICES ASSUME answer \in Answers PROVE PackingExact
    OBVIOUS
  <2>2. PICK rows : rows = answer
    OBVIOUS
  <2>3. rows \in Seq(Nat)
    BY <2>1, <2>2, AnswerRows
  <2>4. PICK g : Guesses(rows, g) /\ PackRows(rows) = Outcome(rows, g)
    BY <2>3, GuessLoop
  <2>5. \/ ~Outcome(rows, g).ok /\ Sent(rows) = {}
        \/ /\ Outcome(rows, g).ok /\ Outcome(rows, g).starts \in Sent(rows)
           /\ \A s \in Sent(rows) : Len(Outcome(rows, g).starts) <= Len(s)
    BY <2>3, <2>4, OutcomeExact
  <2>6. PICK packing : packing = PackRows(rows)
    OBVIOUS
  <2>7. /\ packing.ok <=> Sent(rows) # {}
        /\ packing.ok => /\ packing.starts \in Sent(rows)
                         /\ \A s \in Sent(rows) : Len(packing.starts) <= Len(s)
    BY <2>4, <2>5, <2>6
  <2> QED BY <2>2, <2>6, <2>7 DEF PackingExact, Sent
<1> QED BY <1>1, <1>2, <1>3, PTL DEF PackSpec

-----------------------------------------------------------------------------
(* A page of a snapshot: a fragment for every row and one for the channel  *)
(* is always enough.                                                       *)
RowsFit(rows) == \A i \in 1 .. Len(rows) : Fits(MaxFragments - 1, MaxFragments, rows[i], 0)

LEMMA PageFacts == PageLimit \in Nat \ {0} /\ PageLimit = MaxFragments - 1 /\ MaxFragments \in Nat
                   /\ ChannelRow \in Nat
<1> QED BY FragmentPackingAssumption DEF PageLimit

LEMMA SnapshotStep ==
    ASSUME NEW rows \in Seq(Nat), RowsFit(rows), Len(rows) <= PageLimit, NEW k \in 0 .. Len(rows) - 1,
           NEW p \in PackingType, p.ok, Len(p.starts) \in 1 .. k + 1,
           NEW q, q = AddRow(p, rows, k + 1, MaxFragments, ChannelRow, TRUE)
    PROVE  q.ok /\ Len(q.starts) \in 1 .. k + 2
<1>1. PICK starts, n : starts = p.starts /\ n = Len(starts)
  OBVIOUS
<1>2. starts \in Seq(Nat) /\ n \in Nat /\ n >= 1 /\ n <= k + 1 /\ k \in Nat /\ k + 1 \in 1 .. Len(rows)
      /\ n <= MaxFragments - 1 /\ MaxFragments - 1 \in Nat /\ MaxFragments \in Nat
  <2>1. starts \in Seq(Nat) /\ n \in 1 .. k + 1 /\ Len(rows) \in Nat
    BY <1>1 DEF PackingType
  <2> QED BY <2>1, PageFacts
<1>3. Text(rows, k, k + 1) = rows[k + 1] /\ rows[k + 1] \in Nat
  BY <1>2, TextFacts
<1>4. Fits(n, MaxFragments, Text(rows, k, k + 1), ChannelRow)
  <2>1. PICK h, r, none, m : h = MaxFragments - 1 /\ r = rows[k + 1] /\ none = 0 /\ m = MaxFragments
    OBVIOUS
  <2>2. Fits(h, m, r, none)
    BY <1>2, <2>1 DEF RowsFit
  <2>3. h \in Nat /\ n <= h /\ r \in Nat /\ none \in Nat /\ m \in Nat /\ ChannelRow \in Nat /\ r <= r
    BY <1>2, <1>3, <2>1, PageFacts
  <2>4. Digits(m) <= Digits(m)
    BY <2>3, DigitsFacts
  <2>5. n # 0
    BY <1>2
  <2>6. Fits(n, m, r, ChannelRow)
    BY <1>2, <2>2, <2>3, <2>4, <2>5, FitsLess
  <2> QED BY <1>3, <2>1, <2>6
<1>5. PICK new : new = Append(starts, k)
  OBVIOUS
<1>6. q = p \/ q = Packing(TRUE, new)
  <2>1. (k + 1) - 1 = k
    BY <1>2
  <2> QED BY <1>1, <1>4, <1>5, <2>1 DEF AddRow
<1>7. CASE q = p
  <2>1. n \in 1 .. k + 2
    BY <1>2
  <2>2. q.ok /\ q.starts = starts
    BY <1>1, <1>7
  <2> QED BY <1>1, <2>1, <2>2
<1>8. CASE q = Packing(TRUE, new)
  <2>1. q.ok /\ q.starts = new
    <3>1. Packing(TRUE, new).ok /\ Packing(TRUE, new).starts = new
      BY DEF Packing
    <3> QED BY <1>8, <3>1
  <2>2. Len(new) = n + 1
    BY <1>1, <1>2, <1>5
  <2>3. n + 1 \in 1 .. k + 2
    BY <1>2
  <2> QED BY <2>1, <2>2, <2>3
<1> QED BY <1>6, <1>7, <1>8

LEMMA ChannelFits ==
    ASSUME ChannelAlone
    PROVE  Fits(0, MaxFragments, 0, ChannelRow)
<1>1. PICK a, b, c : a = Digits(0) /\ b = Digits(MaxFragments) /\ c = Digits(0 + 1)
  OBVIOUS
<1>2. a \in Nat /\ b \in Nat /\ c \in Nat /\ ChannelRow \in Nat /\ DatagramLimit \in Nat
  BY <1>1, DigitsFacts, PageFacts, FragmentPackingAssumption
<1>3. a + b + c + 0 + (ChannelRow + 2) <= DatagramLimit
  BY <1>1 DEF ChannelAlone, Fits
<1>4. a + b + c + 0 + ChannelRow <= DatagramLimit
  BY <1>2, <1>3
<1> QED BY <1>1, <1>4 DEF Fits

LEMMA PageSent ==
    ASSUME NEW rows \in Seq(Nat), RowsFit(rows), Len(rows) <= PageLimit, ChannelAlone
    PROVE  /\ PackSnapshotRows(rows).ok
           /\ Sendable(rows, PackSnapshotRows(rows).starts, ChannelRow)
           /\ InOrder(rows, PackSnapshotRows(rows).starts)
<1>1. Len(rows) \in Nat
  OBVIOUS
<1>2. PICK p : p = Pass(rows, MaxFragments, ChannelRow, TRUE)
  OBVIOUS
<1>3. PICK f \in [0 .. Len(rows) -> PackingType] :
             /\ f[0] = Packing(TRUE, <<0>>)
             /\ \A n \in 1 .. Len(rows) : f[n] = AddRow(f[n - 1], rows, n, MaxFragments, ChannelRow, TRUE)
             /\ p = f[Len(rows)]
  <2>1. PICK may : may = TRUE
    OBVIOUS
  <2>2. may \in BOOLEAN /\ MaxFragments \in Nat /\ ChannelRow \in Nat
    BY <2>1, PageFacts
  <2>3. \E f \in [0 .. Len(rows) -> PackingType] :
             /\ f[0] = Packing(TRUE, <<0>>)
             /\ \A n \in 1 .. Len(rows) : f[n] = AddRow(f[n - 1], rows, n, MaxFragments, ChannelRow, may)
             /\ Pass(rows, MaxFragments, ChannelRow, may) = f[Len(rows)]
    BY <2>2, PassLoop
  <2> QED BY <1>2, <2>1, <2>3
<1> DEFINE Good(x, k) == x.ok /\ Len(x.starts) \in 1 .. k + 1
           T == {k \in 0 .. Len(rows) : Good(f[k], k)}
<1>4. 0 \in T
  <2>1. PICK x, one : x = f[0] /\ one = <<0>>
    OBVIOUS
  <2>2. x.ok /\ x.starts = one
    BY <1>3, <2>1 DEF Packing
  <2>3. Len(one) = 1 /\ 1 \in 1 .. 0 + 1
    BY <2>1
  <2>4. Good(f[0], 0)
    BY <2>1, <2>2, <2>3
  <2> HIDE DEF Good
  <2> QED BY <1>1, <2>4
<1>5. ASSUME NEW k \in 0 .. Len(rows) - 1, k \in T PROVE k + 1 \in T
  <2>1. k + 1 \in 1 .. Len(rows) /\ (k + 1) - 1 = k /\ k + 1 \in 0 .. Len(rows) /\ k \in 0 .. Len(rows)
        /\ (k + 1) + 1 = k + 2
    BY <1>1
  <2>2. PICK x, y : x = f[k] /\ y = f[k + 1]
    OBVIOUS
  <2>3. y = AddRow(x, rows, k + 1, MaxFragments, ChannelRow, TRUE) /\ x \in PackingType
    BY <1>3, <2>1, <2>2
  <2>4. Good(x, k)
    <3> HIDE DEF Good
    <3> QED BY <1>5, <2>2
  <2>5. y.ok /\ Len(y.starts) \in 1 .. k + 2
    BY <2>3, <2>4, SnapshotStep
  <2>6. Good(y, k + 1)
    BY <2>1, <2>5
  <2> HIDE DEF Good
  <2> QED BY <2>1, <2>2, <2>6
<1>6. 0 .. Len(rows) \subseteq T
  <2> HIDE DEF T
  <2> QED BY <1>1, <1>4, <1>5, BoundedInduction
<1>7. p.ok /\ Len(p.starts) \in 1 .. Len(rows) + 1
  <2>1. Good(f[Len(rows)], Len(rows))
    <3> HIDE DEF Good
    <3> QED BY <1>1, <1>6
  <2> QED BY <1>3, <2>1
<1>8. PICK n, starts : starts = p.starts /\ n = Len(starts)
  OBVIOUS
<1>9. n \in Nat /\ n >= 1 /\ n <= MaxFragments /\ MaxFragments \in Nat
  <2>1. n \in 1 .. Len(rows) + 1
    BY <1>7, <1>8
  <2> QED BY <1>1, <2>1, PageFacts
<1>10. PackSnapshotRows(rows) = p
  <2>1. ~Failed(p)
    BY <1>7, <1>8, <1>9 DEF Failed
  <2>2. ChannelAlone = TRUE
    BY DEF ChannelAlone, Fits
  <2> QED BY <1>2, <2>1, <2>2 DEF PackSnapshotRows
<1>11. Filled(p, rows, Len(rows), MaxFragments, ChannelRow)
  <2>1. PICK may : may = TRUE
    OBVIOUS
  <2>2. may \in BOOLEAN /\ MaxFragments \in Nat /\ ChannelRow \in Nat /\ Fits(0, MaxFragments, 0, ChannelRow)
        /\ p = Pass(rows, MaxFragments, ChannelRow, may)
    BY <1>2, <2>1, PageFacts, ChannelFits
  <2> QED BY <1>7, <2>2, PassFills
<1>12. starts \in Seq(Nat) /\ DOMAIN starts = 1 .. n /\ starts[1] = 0
  BY <1>8, <1>11 DEF Filled
<1>13. ASSUME NEW i \in 1 .. n
       PROVE  /\ starts[i] <= End(starts, i, Len(rows)) /\ End(starts, i, Len(rows)) \in 0 .. Len(rows)
              /\ i > 1 => starts[i] < End(starts, i, Len(rows))
              /\ Fits(i - 1, MaxFragments, Text(rows, starts[i], End(starts, i, Len(rows))), ChannelRow)
  BY <1>8, <1>11 DEF Filled
<1>14. InOrder(rows, starts)
  <2>1. starts # <<>>
    BY <1>8, <1>9
  <2> QED BY <1>12, <1>13, <2>1 DEF InOrder
<1>15. ASSUME NEW i \in 1 .. n
       PROVE  Fits(i - 1, n, Text(rows, starts[i], End(starts, i, Len(rows))), ChannelRow)
  <2>1. PICK s, e, t, h, m : /\ s = starts[i] /\ e = End(starts, i, Len(rows)) /\ t = Text(rows, s, e)
                            /\ h = i - 1 /\ m = MaxFragments
    OBVIOUS
  <2>2. s \in Nat /\ s <= e /\ e \in 0 .. Len(rows) /\ Fits(h, m, t, ChannelRow)
    <3>1. starts[i] \in Nat
      BY <1>8, <1>12
    <3> QED BY <1>13, <2>1, <3>1
  <2>3. s \in 0 .. Len(rows) /\ e \in s .. Len(rows)
    BY <1>1, <2>2
  <2>4. t \in Nat /\ t <= t
    BY <2>1, <2>3, TextFacts
  <2>5. h \in Nat /\ h <= h /\ m \in Nat /\ n <= m /\ ChannelRow \in Nat /\ ChannelRow <= ChannelRow
    BY <1>9, <2>1, PageFacts
  <2>6. Digits(n) <= Digits(m)
    BY <1>9, <2>5, DigitsFacts
  <2>7. Fits(h, n, t, ChannelRow)
    BY <1>9, <2>2, <2>4, <2>5, <2>6, FitsLess
  <2> QED BY <2>1, <2>7
<1>16. Sendable(rows, starts, ChannelRow)
  BY <1>8, <1>9, <1>12, <1>15 DEF Sendable
<1> QED BY <1>7, <1>8, <1>10, <1>14, <1>16

(* splitDirectorySnapshotPages: every row is on one page.                  *)
LEMMA PageGrows ==
    /\ \A n \in Nat : n * PageLimit \in Nat /\ n <= n * PageLimit
    /\ \A n \in Nat : n > 0 => n * PageLimit = (n - 1) * PageLimit + PageLimit
    /\ \A m, n \in Nat : m <= n => m * PageLimit <= n * PageLimit
<1>1. PICK x : x = PageLimit
  OBVIOUS
<1>2. x \in Nat /\ x >= 1
  BY <1>1, PageFacts
<1>3. ASSUME NEW n \in Nat PROVE n * x \in Nat /\ n <= n * x
  <2>1. PICK y : y = x - 1
    OBVIOUS
  <2>2. y \in Nat /\ x = y + 1
    BY <1>2, <2>1
  <2>3. n * x = n * y + n /\ n * y \in Nat
    BY <2>2
  <2> QED BY <2>3
<1>4. ASSUME NEW n \in Nat, n > 0 PROVE n * x = (n - 1) * x + x
  BY <1>2
<1>5. ASSUME NEW m \in Nat, NEW n \in Nat, m <= n PROVE m * x <= n * x
  <2>1. PICK d : d = n - m
    OBVIOUS
  <2>2. d \in Nat /\ n = m + d
    BY <1>5, <2>1
  <2>3. n * x = m * x + d * x
    BY <1>2, <2>2
  <2>4. d * x \in Nat /\ m * x \in Nat
    BY <1>3, <2>2
  <2> QED BY <2>3, <2>4
<1> QED BY <1>1, <1>3, <1>4, <1>5

LEMMA PageOf ==
    ASSUME NEW i \in Nat \ {0}
    PROVE  \E p \in 1 .. i : /\ (p - 1) * PageLimit < i /\ i <= p * PageLimit
                            /\ \A q \in Nat : i <= q * PageLimit => p <= q
<1> DEFINE T == {n \in Nat : i <= n * PageLimit}
<1>1. i \in T
  BY PageGrows
<1>2. PICK p \in T : \A q \in T : p <= q
  <2>1. T \in SUBSET Nat /\ T # {}
    BY <1>1
  <2> HIDE DEF T
  <2> QED BY <2>1, LeastMember
<1>3. p \in Nat /\ i <= p * PageLimit /\ p <= i
  BY <1>1, <1>2
<1>4. p # 0
  <2>1. SUFFICES ASSUME p = 0 PROVE FALSE
    OBVIOUS
  <2>2. 0 * PageLimit = 0
    BY PageFacts
  <2> QED BY <1>3, <2>1, <2>2
<1>5. (p - 1) * PageLimit < i
  <2>1. p - 1 \in Nat /\ p - 1 < p
    BY <1>3, <1>4
  <2>2. p - 1 \notin T
    BY <1>2, <1>3, <2>1
  <2>3. (p - 1) * PageLimit \in Nat
    BY <2>1, PageGrows
  <2> QED BY <2>1, <2>2, <2>3
<1>6. p \in 1 .. i
  BY <1>3, <1>4
<1> QED BY <1>2, <1>3, <1>5, <1>6

LEMMA PageCountFacts ==
    ASSUME NEW rows \in Seq(Nat)
    PROVE  /\ PageCount(rows) \in Nat \ {0}
           /\ rows = <<>> => PageCount(rows) = 1
           /\ rows # <<>> => /\ (PageCount(rows) - 1) * PageLimit < Len(rows)
                             /\ Len(rows) <= PageCount(rows) * PageLimit
<1>1. CASE rows = <<>>
  BY <1>1 DEF PageCount
<1>2. CASE rows # <<>>
  <2>1. Len(rows) \in Nat \ {0}
    BY <1>2
  <2>2. PICK len : len = Len(rows)
    OBVIOUS
  <2>3. \E n \in 1 .. len : (n - 1) * PageLimit < len /\ len <= n * PageLimit
    BY <2>1, <2>2, PageOf
  <2>4. PICK c : c = CHOOSE n \in 1 .. len : (n - 1) * PageLimit < len /\ len <= n * PageLimit
    OBVIOUS
  <2>5. c \in 1 .. len /\ (c - 1) * PageLimit < len /\ len <= c * PageLimit
    BY <2>3, <2>4
  <2>6. PageCount(rows) = c
    BY <1>2, <2>2, <2>4 DEF PageCount
  <2>7. c \in Nat \ {0}
    BY <2>1, <2>2, <2>5
  <2> QED BY <1>2, <2>2, <2>5, <2>6, <2>7
<1> QED BY <1>1, <1>2

PageEnds(rows, p) == IF p * PageLimit < Len(rows) THEN p * PageLimit ELSE Len(rows)

Between(rows, page, start, end) ==
    /\ start \in Nat /\ end \in Nat /\ start <= end /\ end <= Len(rows) /\ end <= start + PageLimit
    /\ page \in Seq(Nat) /\ Len(page) = end - start
    /\ \A k \in 1 .. end - start : page[k] = rows[start + k]

LEMMA PageFrom ==
    ASSUME NEW rows \in Seq(Nat), NEW p \in 1 .. PageCount(rows)
    PROVE  Between(rows, SplitPages(rows)[p], (p - 1) * PageLimit, PageEnds(rows, p))
<1>0. PICK start, end : start = (p - 1) * PageLimit /\ end = PageEnds(rows, p)
  OBVIOUS
<1>1. PICK c, len : c = PageCount(rows) /\ len = Len(rows)
  OBVIOUS
<1>2. len \in Nat /\ c \in Nat \ {0} /\ p \in Nat /\ p >= 1 /\ p <= c /\ p - 1 \in Nat /\ c - 1 \in Nat /\ p - 1 <= c - 1
  <2>1. len \in Nat /\ c \in Nat \ {0}
    BY <1>1, PageCountFacts
  <2> QED BY <1>1, <2>1
<1>3. start \in Nat /\ p * PageLimit \in Nat /\ p * PageLimit = start + PageLimit /\ PageLimit \in Nat
  BY <1>0, <1>2, PageGrows, PageFacts
<1>4. start <= len
  <2>1. CASE rows = <<>>
    <3>0. c = 1
      BY <1>1, <2>1, PageCountFacts
    <3>1. p = 1
      BY <1>2, <3>0
    <3>2. start = 0
      BY <1>0, <3>1, PageFacts
    <3> QED BY <1>2, <3>2
  <2>2. CASE rows # <<>>
    <3>1. (c - 1) * PageLimit < len /\ (c - 1) * PageLimit \in Nat
      BY <1>1, <1>2, <2>2, PageCountFacts, PageGrows
    <3>2. start <= (c - 1) * PageLimit
      BY <1>0, <1>2, PageGrows
    <3> QED BY <1>2, <1>3, <3>1, <3>2
  <2> QED BY <2>1, <2>2
<1>5. end = IF p * PageLimit < len THEN p * PageLimit ELSE len
  BY <1>0, <1>1 DEF PageEnds
<1>6. end \in Nat /\ start <= end /\ end <= len /\ end <= start + PageLimit
  BY <1>2, <1>3, <1>4, <1>5
<1>7. SplitPages(rows)[p] = SubSeq(rows, start + 1, end)
  BY <1>0, <1>1, <1>5 DEF SplitPages
<1>8. PICK s : s = SubSeq(rows, start + 1, end)
  OBVIOUS
<1>9. s \in Seq(Nat) /\ Len(s) = end - start /\ \A k \in 1 .. end - start : s[k] = rows[start + k]
  <2>1. end <= Len(rows)
    BY <1>1, <1>6
  <2> QED BY <1>3, <1>6, <1>8, <2>1, SubSeqAt
<1>10. Between(rows, s, start, end)
  BY <1>1, <1>3, <1>6, <1>9 DEF Between
<1> QED BY <1>0, <1>7, <1>8, <1>10

LEMMA AllPaged ==
    ASSUME NEW rows \in Seq(Nat)
    PROVE  Paged(rows, SplitPages(rows)) /\ DOMAIN SplitPages(rows) = 1 .. PageCount(rows)
<1>1. PICK pages, c, len : pages = SplitPages(rows) /\ c = PageCount(rows) /\ len = Len(rows)
  OBVIOUS
<1>2. DOMAIN pages = 1 .. c /\ DOMAIN rows = 1 .. len /\ len \in Nat /\ c \in Nat
  BY <1>1, PageCountFacts DEF SplitPages
<1>3. ASSUME NEW p \in 1 .. c, NEW k \in DOMAIN pages[p], NEW i, i = (p - 1) * PageLimit + k
      PROVE  k <= PageLimit /\ i \in 1 .. len /\ pages[p][k] = rows[i]
  <2>1. PICK start, end : start = (p - 1) * PageLimit /\ end = PageEnds(rows, p)
    OBVIOUS
  <2>2. /\ start \in Nat /\ end \in Nat /\ start <= end /\ end <= len /\ end <= start + PageLimit
        /\ pages[p] \in Seq(Nat) /\ Len(pages[p]) = end - start
        /\ \A j \in 1 .. end - start : pages[p][j] = rows[start + j]
    <3>1. Between(rows, pages[p], start, end)
      BY <1>1, <2>1, PageFrom
    <3> QED BY <1>1, <3>1 DEF Between
  <2>3. k \in 1 .. end - start
    BY <2>2
  <2>4. i = start + k
    BY <1>3, <2>1
  <2>5. pages[p][k] = rows[i]
    BY <2>2, <2>3, <2>4
  <2>6. k <= PageLimit /\ i \in 1 .. len
    <3>1. PageLimit \in Nat /\ start \in Nat /\ end \in Nat /\ end <= len /\ end <= start + PageLimit
      BY <2>2, PageFacts
    <3> QED BY <1>2, <2>3, <2>4, <3>1
  <2> QED BY <2>5, <2>6
<1>4. ASSUME NEW i \in 1 .. len
      PROVE  \E p \in 1 .. c : \E k \in DOMAIN pages[p] : i = (p - 1) * PageLimit + k
  <2>1. i \in Nat \ {0} /\ i <= len
    BY <1>2
  <2>2. PICK p \in 1 .. i : /\ (p - 1) * PageLimit < i /\ i <= p * PageLimit
                            /\ \A q \in Nat : i <= q * PageLimit => p <= q
    BY <2>1, PageOf
  <2>3. p \in Nat /\ p >= 1
    BY <2>1
  <2>4. rows # <<>>
    BY <1>1, <2>1
  <2>5. i <= c * PageLimit
    <3>1. len <= c * PageLimit
      BY <1>1, <2>4, PageCountFacts
    <3>2. c * PageLimit \in Nat
      BY <1>2, PageGrows
    <3> QED BY <1>2, <2>1, <3>1, <3>2
  <2>6. p \in 1 .. c
    BY <1>2, <2>2, <2>3, <2>5
  <2>7. PICK start, end : start = (p - 1) * PageLimit /\ end = PageEnds(rows, p)
    OBVIOUS
  <2>8. /\ start \in Nat /\ end \in Nat /\ start <= end
        /\ pages[p] \in Seq(Nat) /\ Len(pages[p]) = end - start
    <3>1. Between(rows, pages[p], start, end)
      BY <1>1, <2>6, <2>7, PageFrom
    <3> QED BY <3>1 DEF Between
  <2>9. i <= end
    BY <1>1, <2>1, <2>2, <2>7 DEF PageEnds
  <2>10. start < i
    BY <2>2, <2>7
  <2>11. PICK k : k = i - start
    OBVIOUS
  <2>12. k \in 1 .. end - start /\ i = start + k
    <3>1. start \in Nat /\ end \in Nat /\ i \in Nat /\ start < i /\ i <= end
      BY <2>1, <2>8, <2>9, <2>10
    <3> QED BY <2>11, <3>1
  <2>13. k \in DOMAIN pages[p]
    BY <2>8, <2>12
  <2> QED BY <2>6, <2>7, <2>12, <2>13
<1>5. \A p \in 1 .. c : \A k \in DOMAIN pages[p] :
        LET i == (p - 1) * PageLimit + k
        IN k <= PageLimit /\ i \in 1 .. len /\ pages[p][k] = rows[i]
  BY <1>3
<1>6. Paged(rows, pages)
  BY <1>2, <1>4, <1>5, Zenon DEF Paged
<1> QED BY <1>1, <1>2, <1>6

(* splitDirectorySnapshotPages and packDirectorySnapshotRows: when the     *)
(* channel row fits alone and every speaker row in the last fragment, the  *)
(* pages hold all rows in order and each can be sent (SnapshotPagesSent),  *)
(* for every number and size of rows.                                      *)
THEOREM PagesAlwaysSent == PackSpec => []SnapshotPagesSent
<1>1. PackInit => answer \in Answers
  BY DEF PackInit
<1>2. answer \in Answers /\ [UNCHANGED answer]_answer => (answer \in Answers)'
  OBVIOUS
<1>3. answer \in Answers => SnapshotPagesSent
  <2>1. SUFFICES ASSUME answer \in Answers, ChannelAlone,
                        \A i \in DOMAIN answer : Fits(MaxFragments - 1, MaxFragments, answer[i], 0)
                 PROVE  /\ Paged(answer, SplitPages(answer))
                        /\ \A p \in DOMAIN SplitPages(answer) :
                             /\ PackSnapshotRows(SplitPages(answer)[p]).ok
                             /\ Sendable(SplitPages(answer)[p], PackSnapshotRows(SplitPages(answer)[p]).starts, ChannelRow)
                             /\ InOrder(SplitPages(answer)[p], PackSnapshotRows(SplitPages(answer)[p]).starts)
    BY DEF SnapshotPagesSent
  <2>2. PICK all, c : all = answer /\ c = PageCount(all)
    OBVIOUS
  <2>3. all \in Seq(Nat) /\ Len(all) \in Nat
    BY <2>1, <2>2, AnswerRows
  <2>4. Paged(all, SplitPages(all)) /\ DOMAIN SplitPages(all) = 1 .. c
    BY <2>2, <2>3, AllPaged
  <2>5. ASSUME NEW p \in 1 .. c, NEW rows, rows = SplitPages(all)[p]
        PROVE  /\ PackSnapshotRows(rows).ok
               /\ Sendable(rows, PackSnapshotRows(rows).starts, ChannelRow)
               /\ InOrder(rows, PackSnapshotRows(rows).starts)
    <3>1. PICK start, end : start = (p - 1) * PageLimit /\ end = PageEnds(all, p)
      OBVIOUS
    <3>2. /\ start \in Nat /\ end \in Nat /\ start <= end /\ end <= Len(all) /\ end <= start + PageLimit
          /\ rows \in Seq(Nat) /\ Len(rows) = end - start
          /\ \A k \in 1 .. end - start : rows[k] = all[start + k]
      <4>1. Between(all, rows, start, end)
        BY <2>2, <2>3, <2>5, <3>1, PageFrom
      <4> QED BY <4>1 DEF Between
    <3>3. Len(rows) <= PageLimit
      BY <3>2, PageFacts
    <3>4. RowsFit(rows)
      <4>1. ASSUME NEW k \in 1 .. Len(rows)
            PROVE  Fits(MaxFragments - 1, MaxFragments, rows[k], 0)
        <5>1. start + k \in 1 .. Len(all) /\ rows[k] = all[start + k]
          BY <2>3, <3>2
        <5>2. start + k \in DOMAIN answer
          BY <2>2, <2>3, <5>1
        <5> QED BY <2>1, <2>2, <5>1, <5>2
      <4> QED BY <4>1 DEF RowsFit
    <3> QED BY <2>1, <3>2, <3>3, <3>4, PageSent
  <2> QED BY <2>2, <2>4, <2>5
<1> QED BY <1>1, <1>2, <1>3, PTL DEF PackSpec
=============================================================================
