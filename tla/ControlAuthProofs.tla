------------------------- MODULE ControlAuthProofs -------------------------
(***************************************************************************)
(* The replay check and the pending handshakes of Control Authentication,  *)
(* for every window size, any number of sessions and every order of        *)
(* arrival, and the nonces of what the Relay signs, for every range of     *)
(* instance ids and every length of the counter.                           *)
(***************************************************************************)
EXTENDS ControlAuth, RelayNonce, InductionLemmas, FiniteSetTheorems, TLAPS

(* What the bitmap knows. Downwards: every accepted counter is at most the *)
(* highest, and its bit is set if it is inside the window. Upwards: a set  *)
(* bit stands for an accepted counter.                                     *)
WindowInv(w) ==
    /\ w \in WindowType
    /\ \A c \in w.used : /\ c <= w.highest
                         /\ w.highest - c < Window => w.highest - c \in w.seen
    /\ \A d \in w.seen : w.highest - d \in w.used

ReplayInv ==
    /\ TypeOK
    /\ \A s \in Sessions : WindowInv(provisional[s].window)
    /\ WindowInv(joined)

(* A window that was just opened satisfies the invariant.                  *)
LEMMA OpenedInv == WindowInv(Opened)
  BY ControlAuthAssumption DEF WindowInv, WindowType, Opened

(* The absent entry is well typed.                                         *)
LEMMA NoPendingType == NoPending \in PendingType
  BY OpenedInv DEF NoPending, PendingType, WindowInv

(* An accepted counter moves or marks the bitmap and nothing is forgotten. *)
LEMMA AcceptedInv ==
  ASSUME NEW w, WindowInv(w), NEW c \in Nat, CanAccept(w, c)
  PROVE  WindowInv(Accepted(w, c))
  <1> DEFINE v == Accepted(w, c)
  <1>1. /\ w.highest \in Nat /\ w.seen \subseteq 0 .. Window - 1
        /\ w.used \subseteq Nat /\ Window \in Nat \ {0}
    BY ControlAuthAssumption DEF WindowInv, WindowType
  <1>2. CASE c > w.highest
    <2>1. /\ v.highest = c
          /\ v.seen = Shift(w.seen, c - w.highest) \cup {0}
          /\ v.used = w.used \cup {c}
      BY <1>2 DEF Accepted
    <2>2. v \in WindowType
      BY <1>1, <1>2 DEF Accepted, WindowType, Shift
    <2>3. ASSUME NEW u \in v.used
          PROVE  u <= v.highest /\ (v.highest - u < Window => v.highest - u \in v.seen)
      <3>1. CASE u = c
        BY <1>1, <2>1, <3>1
      <3>2. CASE u \in w.used
        <4>1. u \in Nat /\ u <= w.highest
          BY <3>2, <1>1 DEF WindowInv
        <4>2. ASSUME c - u < Window
              PROVE  c - u \in Shift(w.seen, c - w.highest)
          <5>1. w.highest - u < Window
            BY <1>1, <1>2, <4>1, <4>2
          <5>2. w.highest - u \in w.seen
            BY <3>2, <5>1 DEF WindowInv
          <5>3. /\ c - u \in (c - w.highest) .. Window - 1
                /\ (c - u) - (c - w.highest) = w.highest - u
            BY <1>1, <1>2, <4>1, <4>2
          <5>4. QED
            BY <5>2, <5>3 DEF Shift
        <4>3. QED
          BY <1>1, <1>2, <2>1, <4>1, <4>2
      <3>3. QED
        BY <2>1, <2>3, <3>1, <3>2
    <2>4. ASSUME NEW d \in v.seen
          PROVE  v.highest - d \in v.used
      <3>1. CASE d = 0
        BY <2>1, <3>1
      <3>2. CASE d \in Shift(w.seen, c - w.highest)
        <4>1. d - (c - w.highest) \in w.seen /\ d \in Int
          BY <1>1, <1>2, <3>2 DEF Shift
        <4>2. w.highest - (d - (c - w.highest)) \in w.used
          BY <4>1 DEF WindowInv
        <4>3. w.highest - (d - (c - w.highest)) = c - d
          BY <1>1, <4>1
        <4>4. QED
          BY <2>1, <4>2, <4>3
      <3>3. QED
        BY <2>1, <2>4, <3>1, <3>2
    <2>5. QED
      BY <2>2, <2>3, <2>4 DEF WindowInv
  <1>3. CASE c <= w.highest
    <2>1. /\ v.highest = w.highest
          /\ v.seen = w.seen \cup {w.highest - c}
          /\ v.used = w.used \cup {c}
      BY <1>1, <1>3 DEF Accepted
    <2>2. w.highest - c \in 0 .. Window - 1
      BY <1>1, <1>3 DEF CanAccept
    <2>3. v \in WindowType
      BY <1>1, <1>3, <2>2 DEF Accepted, WindowType
    <2>4. \A u \in v.used :
             u <= v.highest /\ (v.highest - u < Window => v.highest - u \in v.seen)
      BY <1>1, <1>3, <2>1 DEF WindowInv
    <2>5. \A d \in v.seen : v.highest - d \in v.used
      <3>1. w.highest - (w.highest - c) = c
        BY <1>1
      <3>2. QED
        BY <2>1, <3>1 DEF WindowInv
    <2>6. QED
      BY <2>3, <2>4, <2>5 DEF WindowInv
  <1>4. QED
    BY <1>1, <1>2, <1>3

(* The invariant holds initially.                                          *)
LEMMA InitReplay == Init => ReplayInv
  <1> SUFFICES ASSUME Init PROVE ReplayInv
    OBVIOUS
  <1>1. Opened \in WindowType /\ NoPending.window = Opened
    BY OpenedInv DEF WindowInv, NoPending
  <1>2. TypeOK
    BY <1>1, NoPendingType DEF Init, TypeOK
  <1>3. QED
    BY <1>1, <1>2, OpenedInv DEF Init, ReplayInv

(* The sweep of the pending sessions.                                      *)
LEMMA CleanedInv ==
  ASSUME ReplayInv
  PROVE  /\ Cleaned \in [Sessions -> PendingType]
         /\ \A s \in Sessions : WindowInv(Cleaned[s].window)
         /\ LiveChallenges \subseteq CookieType
  <1>1. NoPending.window = Opened
    BY DEF NoPending
  <1>2. QED
    BY <1>1, NoPendingType, OpenedInv DEF Cleaned, LiveChallenges, ReplayInv, TypeOK

(* A step that leaves every window as it was, reopened or extended.        *)
LEMMA SendReplay ==
  ASSUME ReplayInv, ClientSends
  PROVE  ReplayInv'
  <1> USE DEF ReplayInv
  <1>1. PICK s \in Sessions, type \in {"AUTH_HELLO", "ADMISSION", "CONTROL", "JOIN"},
             k \in cookies \cup {NoCookie} : Send(s, type, k)
    BY DEF ClientSends
  <1>2. Packet(type, s, next[s], k) \in PacketType
    BY <1>1 DEF Packet, PacketType, TypeOK
  <1>3. /\ sent' = sent \cup {Packet(type, s, next[s], k)}
        /\ next' = [next EXCEPT ![s] = @ + 1]
        /\ UNCHANGED <<now, cookies, challenges, provisional, session, joined>>
    BY <1>1 DEF Send
  <1>4. TypeOK'
    BY <1>2, <1>3 DEF TypeOK
  <1>5. QED
    BY <1>3, <1>4

(* AUTH_HELLO keeps it: it opens a fresh window.                           *)
LEMMA HelloReplay ==
  ASSUME ReplayInv, NEW p \in sent, Hello(p)
  PROVE  ReplayInv'
  <1> DEFINE k == [session |-> p.session, expires |-> now + CookieTTL]
  <1> DEFINE opened == [expires |-> k.expires, window |-> Opened]
  <1>1. p \in PacketType /\ p.session \in Sessions
    BY DEF ReplayInv, TypeOK, PacketType
  <1>2. k \in CookieType
    BY <1>1, ControlAuthAssumption DEF CookieType, ReplayInv, TypeOK
  <1>3. opened \in PendingType /\ opened.window = Opened
    BY <1>2, OpenedInv DEF PendingType, CookieType, WindowInv
  <1>4. UNCHANGED <<now, sent, next, session, joined>>
    BY DEF Hello
  <1>5. CASE UNCHANGED cookies /\ challenges' = LiveChallenges /\ provisional' = Cleaned
    BY <1>4, <1>5, CleanedInv DEF ReplayInv, TypeOK
  <1>6. CASE /\ challenges' = LiveChallenges \cup {k}
             /\ provisional' = [Cleaned EXCEPT ![p.session] = opened]
             /\ cookies' = cookies \cup {k}
    <2> HIDE DEF k, opened
    <2>1. provisional' \in [Sessions -> PendingType]
      BY <1>1, <1>3, <1>6, CleanedInv
    <2>2. \A s \in Sessions : WindowInv(provisional'[s].window)
      BY <1>1, <1>3, <1>6, CleanedInv, OpenedInv
    <2>3. TypeOK'
      BY <1>2, <1>4, <1>6, <2>1, CleanedInv DEF ReplayInv, TypeOK
    <2>4. QED
      BY <1>4, <2>2, <2>3 DEF ReplayInv
  <1>7. QED
    BY <1>5, <1>6 DEF Hello

(* An accepted control packet keeps it, before and after the JOIN.         *)
LEMMA ControlReplay ==
  ASSUME ReplayInv, NEW p \in sent, PeerControl(p) \/ PreJoinControl(p)
  PROVE  ReplayInv'
  <1>1. p.session \in Sessions /\ p.counter \in Nat
    BY DEF ReplayInv, TypeOK, PacketType
  <1>2. CASE PeerControl(p)
    <2>1. WindowInv(joined')
      BY <1>1, <1>2, AcceptedInv DEF PeerControl, ReplayInv
    <2>2. UNCHANGED <<now, sent, next, cookies, challenges, provisional, session>>
      BY <1>2 DEF PeerControl
    <2>3. QED
      BY <2>1, <2>2 DEF ReplayInv, TypeOK, WindowInv
  <1>3. CASE PreJoinControl(p)
    <2> DEFINE w == provisional[p.session].window
    <2>1. /\ UNCHANGED <<now, sent, next, cookies, session, joined>>
          /\ challenges' = LiveChallenges
      BY <1>3 DEF PreJoinControl
    <2>2. CASE provisional' = Cleaned
      BY <2>1, <2>2, CleanedInv DEF ReplayInv, TypeOK
    <2>3. CASE /\ Awaits(p.session) /\ CanAccept(w, p.counter)
               /\ provisional' = [Cleaned EXCEPT ![p.session].window =
                                    Accepted(@, p.counter)]
      <3>1. Cleaned[p.session] = provisional[p.session]
        BY <1>1, <2>3 DEF Cleaned
      <3>2. WindowInv(Accepted(w, p.counter))
        BY <1>1, <2>3, AcceptedInv DEF ReplayInv
      <3>3. provisional' = [Cleaned EXCEPT ![p.session] =
                              [Cleaned[p.session] EXCEPT
                                 !.window = Accepted(w, p.counter)]]
        BY <2>3, <3>1
      <3>4. [Cleaned[p.session] EXCEPT !.window = Accepted(w, p.counter)] \in PendingType
        BY <1>1, <3>2, CleanedInv DEF PendingType, WindowInv
      <3>5. [Cleaned[p.session] EXCEPT !.window = Accepted(w, p.counter)].window
               = Accepted(w, p.counter)
        BY <1>1, CleanedInv DEF PendingType
      <3> HIDE DEF w
      <3>6. /\ provisional' \in [Sessions -> PendingType]
            /\ \A s \in Sessions : WindowInv(provisional'[s].window)
        BY <1>1, <3>2, <3>3, <3>4, <3>5, CleanedInv
      <3>7. QED
        BY <2>1, <3>6, CleanedInv DEF ReplayInv, TypeOK
    <2>4. QED
      BY <1>3, <2>2, <2>3 DEF PreJoinControl
  <1>4. QED
    BY <1>2, <1>3

(* JOIN keeps it: the peer inherits the handshake's window.                *)
LEMMA JoinReplay ==
  ASSUME ReplayInv, NEW p \in sent, Join(p)
  PROVE  ReplayInv'
  <1>1. p.session \in Sessions /\ p.counter \in Nat
    BY DEF ReplayInv, TypeOK, PacketType
  <1>2. UNCHANGED <<now, sent, next, cookies>>
    BY DEF Join
  <1>3. CASE ~JoinAccepted(p)
    BY <1>2, <1>3, CleanedInv DEF Join, ReplayInv, TypeOK
  <1>4. CASE JoinAccepted(p)
    <2>1. WindowInv(Accepted(provisional[p.session].window, p.counter))
      BY <1>1, <1>4, AcceptedInv DEF JoinAccepted, ReplayInv
    <2>2. WindowInv(joined') /\ session' \in Sessions \cup {NoSession}
      BY <1>1, <1>4, <2>1 DEF Join, ReplayInv, TypeOK
    <2>3. /\ challenges' = LiveChallenges \ {p.cookie}
          /\ provisional' = [Cleaned EXCEPT ![p.session] = NoPending]
      BY <1>4 DEF Join, Consumed
    <2>4. NoPending.window = Opened
      BY DEF NoPending
    <2>5. /\ provisional' \in [Sessions -> PendingType]
          /\ \A s \in Sessions : WindowInv(provisional'[s].window)
      BY <1>1, <2>3, <2>4, CleanedInv, NoPendingType, OpenedInv
    <2>6. QED
      BY <1>2, <2>2, <2>3, <2>5, CleanedInv DEF ReplayInv, TypeOK, WindowInv
  <1>5. QED
    BY <1>3, <1>4

(* Every step keeps it.                                                    *)
LEMMA NextReplay == ReplayInv /\ [Next]_vars => ReplayInv'
  <1> SUFFICES ASSUME ReplayInv, [Next]_vars PROVE ReplayInv'
    OBVIOUS
  <1>1. CASE ClientSends
    BY <1>1, SendReplay
  <1>2. ASSUME NEW p \in sent, Deliver(p)
        PROVE  ReplayInv'
    BY <1>2, HelloReplay, ControlReplay, JoinReplay DEF Deliver
  <1>3. CASE PeerRemoved
    BY <1>3, OpenedInv DEF PeerRemoved, ReplayInv, TypeOK, WindowInv
  <1>4. CASE Tick
    BY <1>4 DEF Tick, ReplayInv, TypeOK
  <1>5. CASE UNCHANGED vars
    BY <1>5 DEF vars, ReplayInv, TypeOK
  <1>6. QED
    BY <1>1, <1>2, <1>3, <1>4, <1>5 DEF Next

(* No counter accepted in a window is accepted in it again, in whatever    *)
(* order packets arrive (acceptReplayCounter).                             *)
THEOREM ReplaySafe == Spec => []ReplayRefused
  <1>1. ReplayInv => ReplayRefused
    <2> SUFFICES ASSUME ReplayInv, NEW w \in Windows, NEW c \in w.used
                 PROVE  ~CanAccept(w, c)
      BY DEF ReplayRefused
    <2>1. WindowInv(w)
      BY DEF Windows, ReplayInv
    <2>2. c \in Nat /\ w.highest \in Nat
      BY <2>1 DEF WindowInv, WindowType
    <2>3. QED
      BY <2>1, <2>2 DEF WindowInv, CanAccept
  <1>2. QED
    BY <1>1, InitReplay, NextReplay, PTL DEF Spec

(* A counter inside the window that was not accepted yet is accepted,      *)
(* however late its packet comes (acceptReplayCounter).                    *)
THEOREM LateSafe == Spec => []LateAccepted
  <1>1. ReplayInv => LateAccepted
    <2> SUFFICES ASSUME ReplayInv, NEW w \in Windows, NEW c \in 0 .. w.highest,
                        c \notin w.used, w.highest - c < Window
                 PROVE  CanAccept(w, c)
      BY DEF LateAccepted
    <2>1. WindowInv(w)
      BY DEF Windows, ReplayInv
    <2>2. c \in Nat /\ w.highest \in Nat
      BY <2>1 DEF WindowInv, WindowType
    <2>3. w.highest - (w.highest - c) = c
      BY <2>2
    <2>4. w.highest - c \notin w.seen
      BY <2>1, <2>3 DEF WindowInv
    <2>5. QED
      BY <2>4 DEF CanAccept
  <1>2. QED
    BY <1>1, InitReplay, NextReplay, PTL DEF Spec

-----------------------------------------------------------------------------
(* The pending handshakes.                                                 *)

(* The challenge with expiry time e that session s can still answer is the *)
(* one its provisional state was opened with.                              *)
Paired(s) ==
    \A e \in Nat :
        [session |-> s, expires |-> e] \in challenges /\ e > now
            <=> e = provisional[s].expires /\ e > now

(* A client answers a challenge in the session it is for.                  *)
CookiesFit == \A p \in sent : p.type = "JOIN" => p.cookie.session = p.session

PairInv == ReplayInv /\ CookiesFit /\ \A s \in Sessions : Paired(s)

(* The sweep of a handler keeps what can still be answered.                *)
LEMMA CleanedPaired ==
  ASSUME PairInv, NEW s \in Sessions, NEW e \in Nat
  PROVE  /\ [session |-> s, expires |-> e] \in LiveChallenges /\ e > now
               <=> e = provisional[s].expires /\ e > now
         /\ e = Cleaned[s].expires /\ e > now <=> e = provisional[s].expires /\ e > now
  <1>1. now \in Nat /\ provisional[s].expires \in Nat
    BY DEF PairInv, ReplayInv, TypeOK, PendingType
  <1>2. Paired(s)
    BY DEF PairInv
  <1>3. Cleaned[s].expires = IF Awaits(s) THEN provisional[s].expires ELSE 0
    BY DEF Cleaned, NoPending
  <1>. QED
    BY <1>1, <1>2, <1>3 DEF Paired, LiveChallenges, Awaits

(* AUTH_HELLO opens a challenge and a provisional state with one deadline. *)
LEMMA HelloPaired ==
  ASSUME PairInv, NEW p \in sent, Hello(p), NEW s \in Sessions
  PROVE  Paired(s)'
  <1> DEFINE k == [session |-> p.session, expires |-> now + CookieTTL]
  <1>1. /\ p.session \in Sessions /\ now \in Nat /\ now' = now
        /\ CookieTTL \in Nat \ {0} /\ Cleaned \in [Sessions -> PendingType]
    BY ControlAuthAssumption, CleanedInv DEF PairInv, ReplayInv, TypeOK, PacketType, Hello
  <1>2. CASE challenges' = LiveChallenges /\ provisional' = Cleaned
    BY <1>1, <1>2, CleanedPaired DEF Paired
  <1>3. CASE /\ challenges' = LiveChallenges \cup {k} /\ ~Awaits(p.session)
             /\ provisional' = [Cleaned EXCEPT ![p.session] =
                                  [expires |-> k.expires, window |-> Opened]]
    <2>1. CASE s = p.session
      <3>1. provisional'[s].expires = now + CookieTTL
        BY <1>1, <1>3, <2>1
      <3>2. ~(provisional[s].expires > now)
        BY <1>3, <2>1 DEF Awaits
      <3>3. ASSUME NEW e \in Nat
            PROVE  [session |-> s, expires |-> e] = k <=> e = now + CookieTTL
        BY <2>1
      <3>. QED
        BY <1>1, <1>3, <3>1, <3>2, <3>3, CleanedPaired DEF Paired
    <2>2. CASE s # p.session
      <3>1. provisional'[s] = Cleaned[s]
        BY <1>1, <1>3, <2>2
      <3>2. ASSUME NEW e \in Nat PROVE [session |-> s, expires |-> e] # k
        BY <2>2
      <3>. QED
        BY <1>1, <1>3, <3>1, <3>2, CleanedPaired DEF Paired
    <2>3. QED
      BY <2>1, <2>2
  <1>4. QED
    BY <1>2, <1>3 DEF Hello

(* An admission packet before the JOIN leaves the deadlines alone.         *)
LEMMA PreJoinPaired ==
  ASSUME PairInv, NEW p \in sent, PreJoinControl(p), NEW s \in Sessions
  PROVE  Paired(s)'
  <1>1. /\ p.session \in Sessions /\ now' = now /\ challenges' = LiveChallenges
        /\ Cleaned \in [Sessions -> PendingType]
    BY CleanedInv DEF PairInv, ReplayInv, TypeOK, PacketType, PreJoinControl
  <1>2. provisional'[s].expires = Cleaned[s].expires
    <2>1. CASE provisional' = Cleaned
      BY <2>1
    <2>2. ASSUME NEW w, provisional' = [Cleaned EXCEPT ![p.session] =
                                          [Cleaned[p.session] EXCEPT !.window = w]]
          PROVE  provisional'[s].expires = Cleaned[s].expires
      BY <1>1, <2>2 DEF PendingType
    <2>3. QED
      BY <2>1, <2>2 DEF PreJoinControl
  <1>3. QED
    BY <1>1, <1>2, CleanedPaired DEF Paired

(* A JOIN deletes the challenge it answers with the provisional state of   *)
(* its session.                                                            *)
LEMMA JoinPaired ==
  ASSUME PairInv, NEW p \in sent, Join(p), NEW s \in Sessions
  PROVE  Paired(s)'
  <1>1. /\ p.session \in Sessions /\ now \in Nat /\ now' = now
        /\ Cleaned \in [Sessions -> PendingType]
    BY CleanedInv DEF PairInv, ReplayInv, TypeOK, PacketType, Join
  <1>2. CASE ~JoinAccepted(p)
    BY <1>1, <1>2, CleanedPaired DEF Join, Paired
  <1>3. CASE JoinAccepted(p)
    <2>1. /\ challenges' = LiveChallenges \ {p.cookie}
          /\ provisional' = [Cleaned EXCEPT ![p.session] = NoPending]
      BY <1>3 DEF Join, Consumed
    <2>2. /\ p.cookie = [session |-> p.session, expires |-> p.cookie.expires]
          /\ p.cookie.expires \in Nat /\ p.cookie \in LiveChallenges /\ p.cookie.expires > now
      <3>1. p.cookie \in LiveChallenges /\ p.cookie \in CookieType
        BY <1>3, CleanedInv DEF JoinAccepted, PairInv
      <3>2. p.cookie.session = p.session
        BY DEF Join, PairInv, CookiesFit
      <3>3. QED
        BY <3>1, <3>2 DEF CookieType, LiveChallenges
    <2>3. CASE s = p.session
      <3>1. ~(provisional'[s].expires > now)
        BY <1>1, <2>1, <2>3 DEF NoPending
      <3>2. p.cookie.expires = provisional[s].expires
        BY <2>2, <2>3, CleanedPaired
      <3>3. ASSUME NEW e \in Nat, e > now
            PROVE  [session |-> s, expires |-> e] \notin challenges'
        <4>1. CASE e = provisional[s].expires
          BY <2>1, <2>2, <2>3, <3>2, <4>1
        <4>2. CASE e # provisional[s].expires
          BY <2>1, <3>3, <4>2, CleanedPaired
        <4>3. QED
          BY <4>1, <4>2
      <3>4. QED
        BY <1>1, <3>1, <3>3 DEF Paired
    <2>4. CASE s # p.session
      <3>1. provisional'[s] = Cleaned[s]
        BY <1>1, <2>1, <2>4
      <3>2. ASSUME NEW e \in Nat PROVE [session |-> s, expires |-> e] # p.cookie
        BY <2>2, <2>4
      <3>3. QED
        BY <1>1, <2>1, <3>1, <3>2, CleanedPaired DEF Paired
    <2>5. QED
      BY <2>3, <2>4
  <1>4. QED
    BY <1>2, <1>3

(* Every step keeps the pairs.                                             *)
LEMMA NextPaired == PairInv /\ [Next]_vars => PairInv'
  <1> SUFFICES ASSUME PairInv, [Next]_vars PROVE PairInv'
    OBVIOUS
  <1>1. ReplayInv /\ ReplayInv'
    BY NextReplay DEF PairInv
  <1>2. CASE ClientSends
    <2>1. UNCHANGED <<now, challenges, provisional>>
      BY <1>2 DEF ClientSends, Send
    <2>2. CookiesFit'
      <3>1. ASSUME NEW s, NEW type, NEW k, Send(s, type, k), type = "JOIN" => k.session = s
            PROVE  CookiesFit'
        <4>1. sent' = sent \cup {Packet(type, s, next[s], k)}
          BY <3>1 DEF Send
        <4>2. /\ Packet(type, s, next[s], k).type = type
              /\ Packet(type, s, next[s], k).session = s
              /\ Packet(type, s, next[s], k).cookie = k
          BY DEF Packet
        <4>3. QED
          BY <3>1, <4>1, <4>2 DEF PairInv, CookiesFit
      <3>2. QED
        BY <1>2, <3>1 DEF ClientSends
    <2>3. QED
      BY <1>1, <2>1, <2>2 DEF PairInv, Paired
  <1>3. ASSUME NEW p \in sent, Deliver(p)
        PROVE  PairInv'
    <2>1. CookiesFit'
      BY <1>3 DEF Deliver, Hello, PeerControl, PreJoinControl, Join, PairInv, CookiesFit
    <2>2. CASE PeerControl(p)
      BY <1>1, <2>1, <2>2 DEF PeerControl, PairInv, Paired
    <2>3. CASE Hello(p) \/ PreJoinControl(p) \/ Join(p)
      BY <1>1, <2>1, <2>3, HelloPaired, PreJoinPaired, JoinPaired DEF PairInv
    <2>4. QED
      BY <1>3, <2>2, <2>3 DEF Deliver
  <1>4. CASE PeerRemoved \/ UNCHANGED vars
    BY <1>1, <1>4 DEF PeerRemoved, vars, PairInv, Paired, CookiesFit
  <1>5. CASE Tick
    <2>1. now \in Nat /\ now' = now + 1 /\ UNCHANGED <<sent, challenges, provisional>>
      BY <1>1, <1>5 DEF Tick, ReplayInv, TypeOK
    <2>2. \A s \in Sessions : Paired(s)'
      <3> SUFFICES ASSUME NEW s \in Sessions PROVE Paired(s)'
        OBVIOUS
      <3>1. Paired(s) /\ provisional[s].expires \in Nat
        BY <1>1 DEF PairInv, ReplayInv, TypeOK, PendingType
      <3>2. QED
        BY <2>1, <3>1 DEF Paired
    <2>3. QED
      BY <1>1, <2>1, <2>2 DEF PairInv, CookiesFit
  <1>6. QED
    BY <1>2, <1>3, <1>4, <1>5 DEF Next

(* A session that awaits its JOIN has one challenge.                       *)
LEMMA PairedSound ==
  ASSUME PairInv
  PROVE  PendingPaired
  <1> SUFFICES ASSUME NEW s \in Sessions
               PROVE  {k \in LiveChallenges : k.session = s} =
                        IF Awaits(s) THEN {[session |-> s, expires |-> provisional[s].expires]}
                        ELSE {}
    BY DEF PendingPaired
  <1>1. provisional[s].expires \in Nat /\ now \in Nat
    BY DEF PairInv, ReplayInv, TypeOK, PendingType
  <1>2. ASSUME NEW k \in LiveChallenges, k.session = s
        PROVE  Awaits(s) /\ k = [session |-> s, expires |-> provisional[s].expires]
    <2>1. k \in CookieType /\ k.expires > now
      BY CleanedInv DEF PairInv, LiveChallenges
    <2>2. k = [session |-> s, expires |-> k.expires] /\ k.expires \in Nat
      BY <1>2, <2>1 DEF CookieType
    <2>3. k.expires = provisional[s].expires
      BY <1>2, <2>1, <2>2, CleanedPaired
    <2>4. QED
      BY <2>1, <2>2, <2>3 DEF Awaits
  <1>3. ASSUME Awaits(s)
        PROVE  [session |-> s, expires |-> provisional[s].expires] \in LiveChallenges
    BY <1>1, <1>3, CleanedPaired DEF Awaits
  <1>4. CASE Awaits(s)
    <2> DEFINE k == [session |-> s, expires |-> provisional[s].expires]
    <2>1. k.session = s
      OBVIOUS
    <2>2. QED
      BY <1>2, <1>3, <1>4, <2>1
  <1>5. CASE ~Awaits(s)
    BY <1>2, <1>5
  <1>6. QED
    BY <1>4, <1>5

-----------------------------------------------------------------------------
(* The limit of the two tables.                                            *)

LimitInv == IsFiniteSet(challenges) /\ WithinLimit

Awaiting == {s \in Sessions : Awaits(s)}

(* The challenges that can be answered are no more than the sessions that  *)
(* await their JOIN, which createChallenge counts.                         *)
LEMMA LiveCounted ==
  ASSUME PairInv, LimitInv
  PROVE  /\ IsFiniteSet(Awaiting) /\ IsFiniteSet(LiveChallenges)
         /\ Cardinality(LiveChallenges) <= Cardinality(Awaiting)
  <1>1. IsFiniteSet(Awaiting) /\ IsFiniteSet(LiveChallenges)
    BY ControlAuthAssumption, FS_Subset DEF Awaiting, LiveChallenges, LimitInv
  <1> DEFINE f == [k \in LiveChallenges |-> k.session]
  <1>2. ASSUME NEW k \in LiveChallenges
        PROVE  /\ k.session \in Awaiting
               /\ k = [session |-> k.session, expires |-> provisional[k.session].expires]
    <2>1. k \in CookieType
      BY CleanedInv DEF PairInv
    <2>2. k.session \in Sessions /\ k \in {j \in LiveChallenges : j.session = k.session}
      BY <2>1 DEF CookieType
    <2>3. QED
      BY <2>2, PairedSound DEF PendingPaired, Awaiting
  <1>3. f \in Injection(LiveChallenges, Awaiting)
    <2>1. f \in [LiveChallenges -> Awaiting]
      BY <1>2
    <2>2. ASSUME NEW j \in LiveChallenges, NEW k \in LiveChallenges, f[j] = f[k]
          PROVE  j = k
      <3>1. j.session = k.session
        BY <2>2
      <3>2. QED
        BY <1>2, <3>1
    <2>3. QED
      BY <2>1, <2>2 DEF Injection, IsInjective
  <1> HIDE DEF f
  <1>4. QED
    BY <1>1, <1>3, FS_Injection

(* Whoever does not begin a handshake adds to neither table.               *)
LEMMA NoneAdded ==
  ASSUME LimitInv, NEW cs \in SUBSET challenges, NEW pend \in SUBSET Pending
  PROVE  /\ IsFiniteSet(cs) /\ Cardinality(cs) <= MaxProvisional
         /\ Cardinality(pend) <= MaxProvisional
  <1>1. IsFiniteSet(Pending) /\ MaxProvisional \in Nat
    BY ControlAuthAssumption, FS_Subset DEF Pending
  <1>2. QED
    BY <1>1, NoLarger DEF LimitInv, WithinLimit

LEMMA NextLimit == PairInv /\ LimitInv /\ [Next]_vars => LimitInv'
  <1> SUFFICES ASSUME PairInv, LimitInv, [Next]_vars PROVE LimitInv'
    OBVIOUS
  <1>1. /\ now \in Nat /\ provisional \in [Sessions -> PendingType]
        /\ CookieTTL \in Nat /\ MaxProvisional \in Nat
        /\ \A s \in Sessions : provisional[s].expires \in Nat
    BY ControlAuthAssumption DEF PairInv, ReplayInv, TypeOK, PendingType
  <1>2. /\ LiveChallenges \in SUBSET challenges
        /\ Cleaned \in [Sessions -> PendingType]
        /\ \A s \in Sessions : Cleaned[s].expires > 0 => Awaits(s)
        /\ \A s \in Sessions : Awaits(s) => s \in Pending
    BY <1>1, NoPendingType DEF LiveChallenges, Cleaned, NoPending, Awaits, Pending
  <1>3. ASSUME challenges' \in SUBSET challenges, Pending' \in SUBSET Pending
        PROVE  LimitInv'
    BY <1>3, NoneAdded DEF LimitInv, WithinLimit
  <1>4. ASSUME NEW p \in sent, Hello(p) PROVE LimitInv'
    <2> DEFINE k == [session |-> p.session, expires |-> now + CookieTTL]
    <2>1. p.session \in Sessions
      BY DEF PairInv, ReplayInv, TypeOK, PacketType
    <2>2. CASE challenges' = LiveChallenges /\ provisional' = Cleaned
      BY <1>2, <1>3, <2>2 DEF Pending
    <2>3. CASE /\ Cardinality(Awaiting) < MaxProvisional
               /\ challenges' = LiveChallenges \cup {k}
               /\ provisional' = [Cleaned EXCEPT ![p.session] =
                                    [expires |-> k.expires, window |-> Opened]]
      <3>1. Cardinality(LiveChallenges) < MaxProvisional
        BY <1>1, <2>3, LiveCounted, FS_CardinalityType
      <3>2. IsFiniteSet(challenges') /\ Cardinality(challenges') <= MaxProvisional
        <4> HIDE DEF k
        <4>1. challenges' \in SUBSET (LiveChallenges \cup {k})
          BY <2>3
        <4>2. QED
          BY <1>1, <3>1, <4>1, LiveCounted, OneLarger
      <3>3. Pending' \in SUBSET (Awaiting \cup {p.session})
        BY <1>2, <2>1, <2>3 DEF Pending, Awaiting
      <3>4. Cardinality(Pending') <= MaxProvisional
        BY <1>1, <2>3, <3>3, LiveCounted, OneLarger
      <3>5. QED
        BY <3>2, <3>4 DEF LimitInv, WithinLimit
    <2>4. QED
      BY <1>4, <2>2, <2>3 DEF Hello, Awaiting
  <1>5. ASSUME NEW p \in sent, PreJoinControl(p) \/ Join(p) PROVE LimitInv'
    <2>1. p.session \in Sessions
      BY DEF PairInv, ReplayInv, TypeOK, PacketType
    <2>2. challenges' \in SUBSET challenges
      BY <1>2, <1>5 DEF PreJoinControl, Join, Consumed
    <2>3. \/ provisional' = Cleaned
          \/ provisional' = [Cleaned EXCEPT ![p.session] = NoPending]
          \/ \E w : provisional' = [Cleaned EXCEPT ![p.session].window = w]
      BY <1>5 DEF PreJoinControl, Join, Consumed
    <2>4. ASSUME NEW s \in Sessions, provisional'[s].expires > 0 PROVE Cleaned[s].expires > 0
      <3>1. CASE provisional' = Cleaned
        BY <2>4, <3>1
      <3>2. CASE provisional' = [Cleaned EXCEPT ![p.session] = NoPending]
        <4>1. provisional'[s] = IF s = p.session THEN NoPending ELSE Cleaned[s]
          BY <1>2, <2>1, <3>2
        <4>2. NoPending.expires = 0
          BY DEF NoPending
        <4>3. QED
          BY <2>4, <4>1, <4>2
      <3>3. ASSUME NEW w, provisional' = [Cleaned EXCEPT ![p.session].window = w]
            PROVE  Cleaned[s].expires > 0
        <4>1. Cleaned[p.session] \in PendingType
          BY <1>2, <2>1
        <4>2. [Cleaned[p.session] EXCEPT !.window = w].expires = Cleaned[p.session].expires
          BY <4>1 DEF PendingType
        <4>3. provisional'[s] = IF s = p.session THEN [Cleaned[s] EXCEPT !.window = w]
                                ELSE Cleaned[s]
          BY <1>2, <2>1, <3>3
        <4>4. QED
          BY <2>4, <4>2, <4>3
      <3>4. QED
        BY <2>3, <3>1, <3>2, <3>3
    <2>5. QED
      BY <1>2, <1>3, <2>2, <2>4 DEF Pending
  <1>6. CASE UNCHANGED <<challenges, provisional>>
    BY <1>3, <1>6 DEF Pending
  <1>7. QED
    BY <1>4, <1>5, <1>6
    DEF Next, Deliver, PeerControl, ClientSends, Send, PeerRemoved, Tick, vars

(* A session that awaits its JOIN has one challenge, a challenge that can  *)
(* be answered has its session, and neither table outgrows                 *)
(* maxProvisionalControlSessions, through every order of AUTH_HELLO, JOIN, *)
(* replays of both and expiry (createChallenge, consumeJoinChallenge,      *)
(* cleanupPendingLocked).                                                  *)
THEOREM PendingAlwaysSound == Spec => []PendingSound
  <1>1. Init => PairInv /\ LimitInv
    <2> SUFFICES ASSUME Init PROVE PairInv /\ LimitInv
      OBVIOUS
    <2>1. \A s \in Sessions : provisional[s].expires = 0
      BY DEF Init, NoPending
    <2>2. PairInv
      BY <2>1, InitReplay DEF Init, PairInv, Paired, CookiesFit
    <2>3. challenges = {} /\ Pending = {}
      BY <2>1 DEF Init, Pending
    <2>4. LimitInv
      BY <2>3, FS_EmptySet, ControlAuthAssumption DEF LimitInv, WithinLimit
    <2>5. QED
      BY <2>2, <2>4
  <1>2. PairInv /\ LimitInv => PendingSound
    BY PairedSound DEF PairInv, ReplayInv, LimitInv, PendingSound
  <1>3. QED
    BY <1>1, <1>2, NextPaired, NextLimit, PTL DEF Spec

-----------------------------------------------------------------------------
(* The nonces of the Relay.                                                *)

(* The nonces given out.                                                   *)
Given == issued \cup ({last} \ {NoNonce})

(* The nonces given out belong to used instance ids, and those of the      *)
(* present one are behind the counter until it is exhausted.               *)
Behind ==
    \A n \in Given :
        /\ n.instance \in usedRelayInstanceIDs
        /\ n.instance = relayInstanceID /\ ~relayCounterExhausted => n.counter < relayCounter

NonceInv ==
    /\ NonceTypeOK
    /\ relayInstanceID \in usedRelayInstanceIDs
    /\ Behind
    /\ NonceNeverRepeated

(* Giving out a nonce that is not among those given out keeps the          *)
(* invariant, when its instance id is a used one and it is the newest of   *)
(* that id.                                                                *)
LEMMA IssueKeepsInv ==
    ASSUME NonceInv,
           NEW id \in InstanceIDs, NEW counter \in 0 .. CounterLimit,
           Issue(id, counter),
           usedRelayInstanceIDs' \subseteq InstanceIDs,
           usedRelayInstanceIDs \subseteq usedRelayInstanceIDs',
           id \in usedRelayInstanceIDs',
           \A n \in Given : n.instance = id => n.counter < counter
    PROVE  NonceInv'
<1> USE RelayNonceAssumption DEF NonceType, NoNonce
<1>1. NonceTypeOK'
  BY DEF NonceInv, NonceTypeOK, Issue
<1>2. issued' = Given
  BY DEF NonceInv, NonceTypeOK, Issue, Given
<1>3. last' = [instance |-> id, counter |-> counter] /\ last' # NoNonce
  BY DEF Issue
<1>4. NonceNeverRepeated'
  BY <1>2, <1>3 DEF NonceNeverRepeated
<1>5. Behind'
  <2> SUFFICES ASSUME NEW n \in Given'
               PROVE  /\ n.instance \in usedRelayInstanceIDs'
                      /\ n.instance = relayInstanceID' /\ ~relayCounterExhausted'
                            => n.counter < relayCounter'
    BY DEF Behind
  <2>1. n \in Given \/ n = last'
    BY <1>2 DEF Given
  <2>2. CASE n \in Given
    <3>1. n \in NonceType
      BY <2>2 DEF NonceInv, NonceTypeOK, Given
    <3>2. n.instance \in usedRelayInstanceIDs'
      BY <2>2 DEF NonceInv, Behind
    <3>3. relayInstanceID' = id /\ relayCounter' \in {counter, counter + 1}
      BY DEF Issue
    <3>4. n.instance = relayInstanceID' => n.counter < relayCounter'
      BY <2>2, <3>1, <3>3
    <3>5. QED
      BY <3>2, <3>4
  <2>3. CASE n = last'
    <3>1. n.instance = id /\ n.counter = counter
      BY <2>3, <1>3
    <3>2. CASE counter = CounterLimit
      <4>1. relayCounterExhausted'
        BY <3>2, Zenon DEF Issue
      <4>2. QED
        BY <3>1, <4>1
    <3>3. CASE counter # CounterLimit
      <4>1. relayCounter' = counter + 1
        BY <3>3 DEF Issue
      <4>2. QED
        BY <3>1, <4>1
    <3>4. QED
      BY <3>2, <3>3
  <2>4. QED
    BY <2>1, <2>2, <2>3
<1>6. relayInstanceID' \in usedRelayInstanceIDs'
  BY DEF Issue
<1>7. QED
  BY <1>1, <1>4, <1>5, <1>6 DEF NonceInv

(* The Relay never signs two packets with the same nonce: the present      *)
(* instance id counts on, and a rollover takes an id that no nonce has.    *)
THEOREM NonceUnique == NonceSpec => []NonceNeverRepeated
<1>1. NonceInit => NonceInv
  <2> SUFFICES ASSUME NonceInit PROVE NonceInv
    OBVIOUS
  <2>1. NonceTypeOK /\ relayInstanceID \in usedRelayInstanceIDs
    <3>1. relayCounter \in 0 .. CounterLimit
      BY RelayNonceAssumption DEF NonceInit
    <3>2. relayCounterExhausted \in BOOLEAN
      BY Zenon DEF NonceInit
    <3>3. /\ relayInstanceID \in usedRelayInstanceIDs
          /\ usedRelayInstanceIDs \subseteq InstanceIDs
          /\ issued \subseteq NonceType /\ last \in NonceType \cup {NoNonce}
      BY DEF NonceInit
    <3>4. QED
      BY <3>1, <3>2, <3>3 DEF NonceInit, NonceTypeOK
  <2>2. Given = {} /\ NonceNeverRepeated
    BY DEF NonceInit, Given, NonceNeverRepeated
  <2>3. QED
    BY <2>1, <2>2 DEF NonceInv, Behind
<1>2. NonceInv /\ [NonceNext]_nonceVars => NonceInv'
  <2> SUFFICES ASSUME NonceInv, [NonceNext]_nonceVars PROVE NonceInv'
    OBVIOUS
  <2>1. CASE NextNonce
    <3>1. Issue(relayInstanceID, relayCounter) /\ usedRelayInstanceIDs' = usedRelayInstanceIDs
      BY <2>1 DEF NextNonce
    <3>2. \A n \in Given : n.instance = relayInstanceID => n.counter < relayCounter
      BY <2>1 DEF NextNonce, NonceInv, Behind
    <3>3. /\ relayInstanceID \in InstanceIDs /\ relayCounter \in 0 .. CounterLimit
          /\ usedRelayInstanceIDs \subseteq InstanceIDs
          /\ relayInstanceID \in usedRelayInstanceIDs
      BY DEF NonceInv, NonceTypeOK
    <3>4. QED
      BY <3>1, <3>2, <3>3, IssueKeepsInv
  <2>2. CASE Rollover
    <3>1. PICK id \in InstanceIDs \ usedRelayInstanceIDs :
             usedRelayInstanceIDs' = usedRelayInstanceIDs \cup {id} /\ Issue(id, 0)
      BY <2>2 DEF Rollover
    <3>2. \A n \in Given : n.instance = id => n.counter < 0
      BY <3>1 DEF NonceInv, Behind
    <3>3. 0 \in 0 .. CounterLimit /\ usedRelayInstanceIDs \subseteq InstanceIDs
      BY RelayNonceAssumption DEF NonceInv, NonceTypeOK
    <3>4. QED
      BY <3>1, <3>2, <3>3, IssueKeepsInv
  <2>3. CASE UNCHANGED nonceVars
    BY <2>3 DEF nonceVars, NonceInv, NonceTypeOK, Behind, Given, NonceNeverRepeated
  <2>4. QED
    BY <2>1, <2>2, <2>3 DEF NonceNext
<1>3. NonceInv => NonceNeverRepeated
  BY DEF NonceInv
<1>4. QED
  BY <1>1, <1>2, <1>3, PTL DEF NonceSpec
=============================================================================
