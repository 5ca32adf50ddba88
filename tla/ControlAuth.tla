---------------------------- MODULE ControlAuth ----------------------------
(***************************************************************************)
(* Control Authentication v1 of one endpoint (control_auth.go): the        *)
(* AUTH_HELLO / AUTH_CHALLENGE / JOIN handshake, the provisional replay    *)
(* window it opens, and the window of the joined peer that the JOIN        *)
(* inherits. The endpoint (channel, sender id, key, address) is fixed.     *)
(*                                                                         *)
(* The network may lose, delay, duplicate and reorder the packets the      *)
(* client signed: any packet ever sent can arrive at any time, again. Only *)
(* the run loop handles packets, so a packet is one step; the critical     *)
(* sections it takes are never entered by another goroutine, except that   *)
(* the peer entry may disappear (PeerRemoved).                             *)
(***************************************************************************)
EXTENDS Integers, FiniteSets

CONSTANTS
    Sessions,        \* session ids the client chooses (the high nonce half)
    NoSession,       \* the endpoint has no authenticated entry
    Window,          \* controlReplayWindow
    CookieTTL,       \* controlAuthCookieTTL in seconds
    MaxProvisional,  \* maxProvisionalControlSessions
    MaxCounter,      \* bound on the counters the client uses
    MaxTime          \* bound on the clock

ASSUME ControlAuthAssumption ==
    /\ NoSession \notin Sessions
    /\ IsFiniteSet(Sessions)
    /\ {Window, CookieTTL, MaxProvisional} \subseteq Nat \ {0}
    /\ {MaxCounter, MaxTime} \subseteq Nat

VARIABLES
    now,          \* the clock, in seconds
    sent,         \* the packets the client has signed so far
    next,         \* next[s]: the client's next counter in session s
    cookies,      \* the challenges the client was sent
    challenges,   \* controlAuthState.challenges
    provisional,  \* controlAuthState.provisional: replay state per session
    session,      \* peer.controlSessionID, or NoSession
    joined        \* peer.controlHighest and peer.controlSeenWindow

vars == <<now, sent, next, cookies, challenges, provisional, session, joined>>

(* A replay window. Bit d of the bitmap is the member d of seen. used is a *)
(* history: the counters accepted since the AUTH_HELLO that opened it.     *)
WindowType == [highest: Nat, seen: SUBSET (0 .. Window - 1), used: SUBSET Nat]

Opened == [highest |-> 0, seen |-> {0}, used |-> {0}]

NoPending == [expires |-> 0, window |-> Opened]

PendingType == [expires: Nat, window: WindowType]

(* A cookie is a MAC of the endpoint, the session and the expiry time.     *)
CookieType == [session: Sessions, expires: Nat]

NoCookie == [session |-> NoSession, expires |-> 0]

Packet(type, s, counter, cookie) ==
    [type |-> type, session |-> s, counter |-> counter, cookie |-> cookie]

PacketType == [type: {"AUTH_HELLO", "ADMISSION", "JOIN", "CONTROL"},
               session: Sessions, counter: Nat,
               cookie: CookieType \cup {NoCookie}]

TypeOK ==
    /\ now \in Nat
    /\ sent \subseteq PacketType
    /\ next \in [Sessions -> Nat]
    /\ cookies \subseteq CookieType
    /\ challenges \subseteq CookieType
    /\ provisional \in [Sessions -> PendingType]
    /\ session \in Sessions \cup {NoSession}
    /\ joined \in WindowType

Init ==
    /\ now = 0
    /\ sent = {}
    /\ next = [s \in Sessions |-> 0]
    /\ cookies = {}
    /\ challenges = {}
    /\ provisional = [s \in Sessions |-> NoPending]
    /\ session = NoSession
    /\ joined = Opened

-----------------------------------------------------------------------------
(* acceptReplayCounter.                                                    *)

\* Mutant of CanAccept: only counters in order.
CanAcceptInOrder(w, counter) == counter > w.highest

CanAccept(w, counter) ==
    \/ counter > w.highest
    \/ /\ w.highest - counter < Window
       /\ w.highest - counter \notin w.seen

Shift(seen, delta) == {d \in delta .. Window - 1 : d - delta \in seen}

\* Mutant of Accepted: the bitmap is not shifted.
AcceptedUnshifted(w, counter) ==
    [highest |-> IF counter > w.highest THEN counter ELSE w.highest,
     seen    |-> IF counter > w.highest
                 THEN w.seen \cup {0}
                 ELSE w.seen \cup {w.highest - counter},
     used    |-> w.used \cup {counter}]

Accepted(w, counter) ==
    [highest |-> IF counter > w.highest THEN counter ELSE w.highest,
     seen    |-> IF counter > w.highest
                 THEN Shift(w.seen, counter - w.highest) \cup {0}
                 ELSE w.seen \cup {w.highest - counter},
     used    |-> w.used \cup {counter}]

-----------------------------------------------------------------------------
(* The client (external): every counter of a session is used once.         *)

Send(s, type, cookie) ==
    /\ next[s] <= MaxCounter
    /\ (type = "AUTH_HELLO") <=> (next[s] = 0)
    /\ sent' = sent \cup {Packet(type, s, next[s], cookie)}
    /\ next' = [next EXCEPT ![s] = @ + 1]
    /\ UNCHANGED <<now, cookies, challenges, provisional, session, joined>>

ClientSends ==
    \E s \in Sessions :
        \/ \E type \in {"AUTH_HELLO", "ADMISSION", "CONTROL"} : Send(s, type, NoCookie)
        \/ \E k \in cookies : k.session = s /\ Send(s, "JOIN", k)

-----------------------------------------------------------------------------
(* The Relay.                                                              *)

(* cleanupPendingLocked: a deadline that is not after the time is over.    *)
Awaits(s) == provisional[s].expires > now

Cleaned == [s \in Sessions |-> IF Awaits(s) THEN provisional[s] ELSE NoPending]

LiveChallenges == {k \in challenges : k.expires > now}

(* AUTH_HELLO: createChallenge.                                            *)
Hello(p) ==
    /\ p.type = "AUTH_HELLO"
    /\ LET k == [session |-> p.session, expires |-> now + CookieTTL]
       IN \/ /\ Cardinality({s \in Sessions : Awaits(s)}) < MaxProvisional
             /\ ~Awaits(p.session)
             /\ challenges' = LiveChallenges \cup {k}
             /\ provisional' = [Cleaned EXCEPT ![p.session] =
                                  [expires |-> k.expires, window |-> Opened]]
             /\ cookies' = cookies \cup {k}
          \/ /\ \/ Cardinality({s \in Sessions : Awaits(s)}) >= MaxProvisional
                \/ Awaits(p.session)
             /\ challenges' = LiveChallenges
             /\ provisional' = Cleaned
             /\ UNCHANGED cookies
    /\ UNCHANGED <<now, sent, next, session, joined>>

(* acceptAuthenticatedPeerControl: every control packet of a joined peer.  *)
PeerControl(p) ==
    /\ p.type = "CONTROL" \/ (p.type = "ADMISSION" /\ session # NoSession)
    /\ session = p.session
    /\ CanAccept(joined, p.counter)
    /\ joined' = Accepted(joined, p.counter)
    /\ UNCHANGED <<now, sent, next, cookies, challenges, provisional, session>>

(* Admission packets before JOIN: acceptPreJoinControl.                    *)
PreJoinControl(p) ==
    /\ p.type = "ADMISSION" /\ session = NoSession
    /\ challenges' = LiveChallenges
    /\ provisional' =
         IF Awaits(p.session) /\ CanAccept(provisional[p.session].window, p.counter)
         THEN [Cleaned EXCEPT ![p.session].window = Accepted(@, p.counter)]
         ELSE Cleaned
    /\ UNCHANGED <<now, sent, next, cookies, session, joined>>

\* Mutant of Consumed: the provisional state survives its JOIN.
ConsumedChallengeOnly(p) ==
    /\ challenges' = LiveChallenges \ {p.cookie}
    /\ provisional' = Cleaned

(* consumeJoinChallenge deletes what the JOIN used up.                     *)
Consumed(p) ==
    /\ challenges' = LiveChallenges \ {p.cookie}
    /\ provisional' = [Cleaned EXCEPT ![p.session] = NoPending]

JoinAccepted(p) ==
    /\ p.cookie \in LiveChallenges
    /\ Awaits(p.session)
    /\ CanAccept(provisional[p.session].window, p.counter)

(* JOIN: consumeJoinChallenge, then, unless the admission is refused,      *)
(* upsertAuthenticatedPeerWithReplay takes the window over.                *)
Join(p) ==
    /\ p.type = "JOIN"
    /\ \/ /\ JoinAccepted(p)
          /\ Consumed(p)
          /\ \/ /\ session' = p.session
                /\ joined' = Accepted(provisional[p.session].window, p.counter)
             \/ UNCHANGED <<session, joined>>
       \/ /\ ~JoinAccepted(p)
          /\ p.cookie.expires >= now
          /\ challenges' = LiveChallenges
          /\ provisional' = Cleaned
          /\ UNCHANGED <<session, joined>>
    /\ UNCHANGED <<now, sent, next, cookies>>

Deliver(p) == Hello(p) \/ PeerControl(p) \/ PreJoinControl(p) \/ Join(p)

(* LEAVE, expiry or a revocation removes the entry.                        *)
PeerRemoved ==
    /\ session # NoSession
    /\ session' = NoSession
    /\ joined' = Opened
    /\ UNCHANGED <<now, sent, next, cookies, challenges, provisional>>

Tick ==
    /\ now < MaxTime
    /\ now' = now + 1
    /\ UNCHANGED <<sent, next, cookies, challenges, provisional, session, joined>>

Next ==
    \/ ClientSends
    \/ \E p \in sent : Deliver(p)
    \/ PeerRemoved
    \/ Tick

Spec == Init /\ [][Next]_vars

-----------------------------------------------------------------------------
(* Properties.                                                             *)

(* The windows in use.                                                     *)
Windows == {provisional[s].window : s \in Sessions} \cup {joined}

(* A counter that was accepted is refused ever after, in whatever order    *)
(* the packets arrive and also when the JOIN has moved the window from the *)
(* handshake to the peer (acceptReplayCounter).                            *)
ReplayRefused == \A w \in Windows : \A c \in w.used : ~CanAccept(w, c)

(* No packet is lost to the replay check: a counter of the window that was *)
(* not accepted yet still is, however late it comes.                       *)
LateAccepted ==
    \A w \in Windows :
        \A c \in 0 .. w.highest :
            c \notin w.used /\ w.highest - c < Window => CanAccept(w, c)

(* A session that awaits its JOIN has one challenge, and a challenge that  *)
(* can still be answered has a session that awaits it: JOIN, a repeated    *)
(* AUTH_HELLO and expiry never leave one without the other                 *)
(* (createChallenge, consumeJoinChallenge, cleanupPendingLocked).          *)
PendingPaired ==
    \A s \in Sessions :
        {k \in LiveChallenges : k.session = s} =
            IF Awaits(s) THEN {[session |-> s, expires |-> provisional[s].expires]}
            ELSE {}

(* The entries of the table, expired ones included.                        *)
Pending == {s \in Sessions : provisional[s].expires > 0}

(* Only provisional is counted against maxProvisionalControlSessions;      *)
(* challenges is as small because the two come and go together.            *)
WithinLimit ==
    /\ Cardinality(Pending) <= MaxProvisional
    /\ Cardinality(challenges) <= MaxProvisional

(* Both tables have their types and keep the limit, whatever handshakes    *)
(* begin, end and expire, and what awaits a JOIN is paired                 *)
(* (createChallenge, consumeJoinChallenge, cleanupPendingLocked).          *)
PendingSound == TypeOK /\ WithinLimit /\ PendingPaired

(* "The 64-counter control replay check [is performed] across provisional  *)
(* pre-JOIN state and the joined session" (README): as long as the peer    *)
(* stays joined in one session, no counter it has used is forgotten. The   *)
(* code does not keep this: a second handshake with the session id of the  *)
(* joined peer ends in a JOIN that replaces its window.                    *)
JoinedSessionRemembers ==
    [][session # NoSession /\ session' = session => joined.used \subseteq joined'.used]_vars
=============================================================================
