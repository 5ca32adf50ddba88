--------------------------- MODULE AdmissionFlow ---------------------------
(***************************************************************************)
(* The two admission flows of one endpoint of one channel: Identity        *)
(* Admission (identity_admission.go) and Managed Service Admission         *)
(* (service_admission.go). A flow is BEGIN with a ticket or grant, a       *)
(* challenge, a PROOF, and then the attachment of the proved admission to  *)
(* the membership: by the JOIN that follows, or at once when the endpoint  *)
(* has joined already.                                                     *)
(*                                                                         *)
(* The run loop reads the clock once per packet and then enters one        *)
(* critical section after the other; a revocation command of the Private   *)
(* Control Link evicts flows and memberships in between.                   *)
(***************************************************************************)
EXTENDS Integers, FiniteSets

CONSTANTS
    Keys,              \* [sender, session]: who the endpoint talks as
    Tickets,           \* tickets and grants the clients present
    Rules,             \* revocation targets
    Any,               \* a target field that was not supplied
    IdentityRequired,  \* Identity Admission mode "required"
    ChallengeTTL,      \* identityChallengeTTL, serviceChallengeTTL
    MaxPending,        \* maxPendingIdentityAdmissions, maxPendingServiceAdmissions
    MaxRules,          \* maxServiceAdmissionDenyRules
    MaxChallenges,     \* bound on the challenges issued
    MaxTime            \* bound on the clock

Kinds == {"identity", "service"}

Senders == {k.sender : k \in Keys}
Sessions == {k.session : k \in Keys}
Services == {t.service : t \in Tickets} \cup {r.service : r \in Rules}
Grants == {t.grant : t \in Tickets} \cup {r.grant : r \in Rules}

(* valid: encoding, signature, lifetime, scope and permissions check out.  *)
TicketType == [kind: Kinds, sender: Senders, service: Services, grant: Grants,
               expires: Nat, valid: BOOLEAN]

NoTicket == [kind |-> "none"]

RuleType == [service: Services, grant: Grants]

NoRule == [service |-> Any, grant |-> Any]

ASSUME AdmissionFlowAssumption ==
    /\ Senders \subseteq Nat \ {0}
    /\ 0 \notin Sessions
    /\ Keys \subseteq [sender: Senders, session: Sessions]
    /\ Tickets \subseteq TicketType
    /\ Rules \subseteq RuleType
    /\ NoRule \notin Rules
    /\ IdentityRequired \in BOOLEAN
    /\ {ChallengeTTL, MaxPending, MaxRules} \subseteq Nat \ {0}
    /\ {MaxChallenges, MaxTime} \subseteq Nat

VARIABLES
    now,       \* the clock
    pending,   \* flows that await their proof
    verified,  \* flows whose proof was verified
    failed,    \* flows that failed lately
    denied,    \* the deadline of each deny rule, 0 = not installed
    peer,      \* the endpoint's entry in channel.peers
    issued,    \* challenges issued so far; numbers them
    pc,        \* next critical section of the run loop
    pkt,       \* the packet the run loop is handling
    got,       \* flows the run loop has taken out of verified
    sweep,     \* the target a revocation command still has to sweep
    attached   \* history: how often the proof of each challenge was attached

vars == <<now, pending, verified, failed, denied, peer, issued, pc, pkt,
          got, sweep, attached>>

FlowType == [kind: Kinds, key: Keys, ticket: Tickets, chal: Nat, expires: Nat]

FailureType == [kind: Kinds, key: Keys, expires: Nat]

NoPeer == [sender |-> 0, session |-> 0, identity |-> NoTicket, service |-> NoTicket]

PeerType == [sender: Senders \cup {0}, session: Sessions \cup {0},
             identity: Tickets \cup {NoTicket}, service: Tickets \cup {NoTicket}]

NoPkt == [type |-> "NONE"]

(* existing: the endpoint had joined when the packet arrived. outcome: what*)
(* the identity flow says to a JOIN.                                       *)
PktType == [type: {"BEGIN", "PROOF", "JOIN"}, kind: Kinds, key: Keys,
            ticket: Tickets \cup {NoTicket}, chal: Nat, at: Nat,
            existing: BOOLEAN, outcome: {"allowed", "refused", "required"}]

Stages == {"idle", "begin", "proof", "take", "attach", "joinIdentity",
           "joinService", "upsert"}

TypeOK ==
    /\ now \in Nat
    /\ pending \subseteq FlowType
    /\ verified \subseteq FlowType
    /\ failed \subseteq FailureType
    /\ denied \in [Rules -> Nat]
    /\ peer \in PeerType
    /\ issued \in Nat
    /\ pc \in Stages
    /\ pkt \in PktType \cup {NoPkt}
    /\ pc # "idle" => pkt \in PktType
    /\ got \subseteq FlowType
    /\ sweep \in Rules \cup {NoRule}
    /\ attached \in [1 .. MaxChallenges -> Nat]

Init ==
    /\ now = 0
    /\ pending = {} /\ verified = {} /\ failed = {}
    /\ denied = [r \in Rules |-> 0]
    /\ peer = NoPeer
    /\ issued = 0
    /\ pc = "idle"
    /\ pkt = NoPkt
    /\ got = {}
    /\ sweep = NoRule
    /\ attached = [c \in 1 .. MaxChallenges |-> 0]

-----------------------------------------------------------------------------
(* Helpers.                                                                *)

(* cleanupLocked of one kind's state, at the given time.                   *)
Clean(table, kind, time) == {f \in table : f.kind = kind => f.expires > time}

CleanRules(kind, time) ==
    [r \in Rules |-> IF kind = "service" /\ denied[r] <= time THEN 0 ELSE denied[r]]

InForce(table) == {r \in Rules : table[r] > 0}

OfKind(table, kind) == {f \in table : f.kind = kind}

Of(table, kind, key) == {f \in table : f.kind = kind /\ f.key = key}

Without(table, kind, key) == table \ Of(table, kind, key)

(* Both fields of a target must match when both are given.                 *)
Matches(rule, ticket) ==
    /\ rule.service \in {Any, ticket.service}
    /\ rule.grant \in {Any, ticket.grant}

(* deniedLocked, which only managed services have.                         *)
Denied(ticket, rules) ==
    ticket.kind = "service" /\ \E r \in InForce(rules) : Matches(r, ticket)

(* validateTicket, validateGrant at the given time.                        *)
Valid(ticket, key, time) ==
    ticket.valid /\ ticket.sender = key.sender /\ ticket.expires > time

Failure(kind, key, time) ==
    [kind |-> kind, key |-> key, expires |-> time + ChallengeTTL]

Earlier(a, b) == IF a < b THEN a ELSE b
Later(a, b) == IF a > b THEN a ELSE b

At(stage) == pc = stage

Goto(stage) == pc' = stage /\ UNCHANGED pkt

Finish == pc' = "idle" /\ pkt' = NoPkt

Fail(kept) ==
    failed' = Without(kept, pkt.kind, pkt.key)
                 \cup {Failure(pkt.kind, pkt.key, pkt.at)}

-----------------------------------------------------------------------------
(* The run loop.                                                           *)

(* membershipExpired, as far as the admissions go.                         *)
Lapsed ==
    \/ peer.identity # NoTicket /\ peer.identity.expires <= now
    \/ peer.service # NoTicket /\ peer.service.expires <= now

FirstStage(type) ==
    CASE type = "BEGIN" -> "begin"
      [] type = "PROOF" -> "proof"
      [] type = "JOIN"  -> "joinIdentity"

(* A packet with a fresh counter of a control session. A joined endpoint   *)
(* must use the session it joined with, another one a session that awaits  *)
(* its JOIN. An AUTH_HELLO opens any session id, also one that was used    *)
(* up by a JOIN before (ControlAuth), so every session may await its JOIN. *)
Receive(type, kind, key, ticket, chal) ==
    /\ At("idle")
    /\ type = "BEGIN" => ticket.kind = kind /\ issued < MaxChallenges
    /\ peer' = IF Lapsed THEN NoPeer ELSE peer
    /\ LET existing == peer'.sender = key.sender
           accepted == type # "JOIN" /\ existing => peer'.session = key.session
       IN IF accepted
          THEN /\ pc' = FirstStage(type)
               /\ pkt' = [type |-> type, kind |-> kind, key |-> key,
                          ticket |-> ticket, chal |-> chal, at |-> now,
                          existing |-> existing, outcome |-> "allowed"]
          ELSE UNCHANGED <<pc, pkt>>
    /\ UNCHANGED <<now, pending, verified, failed, denied, issued, got, sweep, attached>>

(* begin: a new flow replaces the pending one of its key.                  *)
Begin ==
    /\ At("begin")
    /\ LET k     == pkt.kind
           kept  == Clean(pending, k, pkt.at)
           rules == CleanRules(k, pkt.at)
           count == Cardinality(OfKind(kept, k))
       IN /\ denied' = rules
          /\ verified' = Clean(verified, k, pkt.at)
          /\ IF \/ ~Valid(pkt.ticket, pkt.key, pkt.at)
                \/ Denied(pkt.ticket, rules)
                \/ count >= MaxPending
             THEN /\ Fail(Clean(failed, k, pkt.at))
                  /\ pending' = kept
                  /\ UNCHANGED issued
             ELSE /\ pending' = Without(kept, k, pkt.key) \cup
                       {[kind |-> k, key |-> pkt.key, ticket |-> pkt.ticket,
                         chal |-> issued + 1,
                         expires |-> Earlier(pkt.at + ChallengeTTL, pkt.ticket.expires)]}
                  /\ failed' = Without(Clean(failed, k, pkt.at), k, pkt.key)
                  /\ issued' = issued + 1
    /\ Finish
    /\ UNCHANGED <<now, peer, got, sweep, attached>>

(* proof: the signature covers the challenge and the ticket, so only the   *)
(* proof of the pending challenge verifies; any other ends the flow.       *)
Proof ==
    /\ At("proof")
    /\ LET k     == pkt.kind
           kept  == Clean(pending, k, pkt.at)
           rules == CleanRules(k, pkt.at)
           good  == {f \in Of(kept, k, pkt.key) :
                        f.chal = pkt.chal /\ ~Denied(f.ticket, rules)}
       IN /\ denied' = rules
          /\ pending' = Without(kept, k, pkt.key)
          /\ IF good = {}
             THEN /\ Fail(Clean(failed, k, pkt.at))
                  /\ verified' = Clean(verified, k, pkt.at)
                  /\ Finish
             ELSE /\ failed' = Without(Clean(failed, k, pkt.at), k, pkt.key)
                  /\ verified' = Without(Clean(verified, k, pkt.at), k, pkt.key) \cup
                       {[f EXCEPT !.expires = f.ticket.expires] : f \in good}
                  /\ IF pkt.existing THEN Goto("take") ELSE Finish
    /\ UNCHANGED <<now, peer, issued, got, sweep, attached>>

(* What a flow of this kind hands out at the packet's time.                *)
Usable(kind) ==
    {f \in Of(Clean(verified, kind, pkt.at), kind, pkt.key) :
        ~Denied(f.ticket, CleanRules(kind, pkt.at))}

\* Mutant of Cleanup: what was handed out stays verified.
CleanupKeeps(kind, taken) ==
    /\ pending' = Clean(pending, kind, pkt.at)
    /\ verified' = Clean(verified, kind, pkt.at)
    /\ failed' = Clean(failed, kind, pkt.at)
    /\ denied' = CleanRules(kind, pkt.at)

(* The cleanup of the section, and the removal of what was handed out.     *)
Cleanup(kind, taken) ==
    /\ pending' = Clean(pending, kind, pkt.at)
    /\ verified' = Clean(verified, kind, pkt.at) \ taken
    /\ failed' = Clean(failed, kind, pkt.at)
    /\ denied' = CleanRules(kind, pkt.at)

(* PROOF of a joined endpoint: takeVerifiedAdmission. A grant that is      *)
(* denied meanwhile is dropped.                                            *)
Take ==
    /\ At("take")
    /\ Cleanup(pkt.kind, Of(verified, pkt.kind, pkt.key))
    /\ got' = Usable(pkt.kind)
    /\ IF Usable(pkt.kind) = {} THEN Finish ELSE Goto("attach")
    /\ UNCHANGED <<now, peer, issued, sweep, attached>>

(* JOIN: admissionForJoin refuses while a flow is pending or has failed.   *)
Unsettled(kind) ==
    \/ Of(Clean(failed, kind, pkt.at), kind, pkt.key) # {}
    \/ Of(Clean(pending, kind, pkt.at), kind, pkt.key) # {}

JoinIdentity ==
    /\ At("joinIdentity")
    /\ Cleanup("identity", Usable("identity"))
    /\ got' = Usable("identity")
    /\ pkt' = [pkt EXCEPT !.outcome =
                 IF got' # {} THEN "allowed"
                 ELSE IF Unsettled("identity") THEN "refused"
                 ELSE IF IdentityRequired THEN "required" ELSE "allowed"]
    /\ pc' = "joinService"
    /\ UNCHANGED <<now, peer, issued, sweep, attached>>

(* resolveJoinAdmission: one admission path per membership.                *)
JoinAdmitted(service) ==
    /\ service # {} \/ ~Unsettled("service")
    /\ \/ pkt.outcome = "allowed"
       \/ pkt.outcome = "required" /\ service # {}
    /\ got = {} \/ service = {}

JoinService ==
    /\ At("joinService")
    /\ Cleanup("service", Usable("service"))
    /\ LET service == Usable("service")
       IN \/ /\ JoinAdmitted(service)
             /\ got' = got \cup service
             /\ Goto("upsert")
          \/ /\ ~JoinAdmitted(service)
             /\ got' = {}
             /\ Finish
    /\ UNCHANGED <<now, peer, issued, sweep, attached>>

(* JOIN: upsertAuthenticatedPeerWithReplay. An entry already at the        *)
(* endpoint keeps its admissions. (startMembership is modelled in Relay.)  *)
Upsert ==
    /\ At("upsert")
    /\ peer' = [peer EXCEPT !.sender = pkt.key.sender, !.session = pkt.key.session]
    /\ IF got = {} THEN Finish ELSE Goto("attach")
    /\ UNCHANGED <<now, pending, verified, failed, denied, issued, got, sweep, attached>>

\* Mutant of CanAttach: an identity is added to a managed service.
CanAttachMixed(f) ==
    /\ peer.sender = pkt.key.sender
    /\ f.kind = "service" =>
         /\ peer.identity = NoTicket
         /\ f.ticket.expires > now
         /\ ~Denied(f.ticket, CleanRules("service", now))

\* Mutant of CanAttach: a deny rule installed meanwhile is not looked at.
CanAttachUnchecked(f) ==
    /\ peer.sender = pkt.key.sender
    /\ IF f.kind = "identity" THEN peer.service = NoTicket
       ELSE peer.identity = NoTicket /\ f.ticket.expires > now

CanAttach(f) ==
    /\ peer.sender = pkt.key.sender
    /\ IF f.kind = "identity" THEN peer.service = NoTicket
       ELSE /\ peer.identity = NoTicket
            /\ f.ticket.expires > now
            /\ ~Denied(f.ticket, CleanRules("service", now))

(* setPeerIdentityAdmission, setPeerServiceAdmission with                  *)
(* admissionAllowedForMembership.                                          *)
Attach ==
    /\ At("attach")
    /\ \E f \in got :
         /\ IF CanAttach(f)
            THEN /\ peer' = IF f.kind = "identity"
                            THEN [peer EXCEPT !.identity = f.ticket]
                            ELSE [peer EXCEPT !.service = f.ticket]
                 /\ attached' = [attached EXCEPT ![f.chal] = @ + 1]
            ELSE UNCHANGED <<peer, attached>>
         /\ IF f.kind = "service"
            THEN /\ pending' = Clean(pending, "service", now)
                 /\ verified' = Clean(verified, "service", now)
                 /\ failed' = Clean(failed, "service", now)
                 /\ denied' = CleanRules("service", now)
            ELSE UNCHANGED <<pending, verified, failed, denied>>
         /\ got' = got \ {f}
         /\ IF got' = {} THEN Finish ELSE UNCHANGED <<pc, pkt>>
    /\ UNCHANGED <<now, issued, sweep>>

-----------------------------------------------------------------------------
(* The other goroutines.                                                   *)

\* Mutant of Evicted: the flows of the target stay.
EvictedExpired(table, rule) == Clean(table, "service", now)

(* What installRevocation leaves of a table.                               *)
Evicted(table, rule) ==
    {f \in table : f.kind = "service" => f.expires > now /\ ~Matches(rule, f.ticket)}

(* revokeManagedServiceAdmission: installRevocation ...                    *)
Install(rule, until) ==
    /\ sweep = NoRule
    /\ until > now
    /\ LET kept == CleanRules("service", now)
       IN \/ /\ rule \in InForce(kept) \/ Cardinality(InForce(kept)) < MaxRules
             /\ denied' = [kept EXCEPT ![rule] = Later(@, until)]
             /\ pending' = Evicted(pending, rule)
             /\ verified' = Evicted(verified, rule)
             /\ sweep' = rule
          \/ /\ rule \notin InForce(kept) /\ Cardinality(InForce(kept)) >= MaxRules
             /\ denied' = kept
             /\ pending' = Clean(pending, "service", now)
             /\ verified' = Clean(verified, "service", now)
             /\ UNCHANGED sweep
    /\ failed' = Clean(failed, "service", now)
    /\ UNCHANGED <<now, peer, issued, pc, pkt, got, attached>>

(* ... then the memberships.                                               *)
Sweep ==
    /\ sweep # NoRule
    /\ peer' = IF peer.service # NoTicket /\ Matches(sweep, peer.service)
               THEN NoPeer ELSE peer
    /\ sweep' = NoRule
    /\ UNCHANGED <<now, pending, verified, failed, denied, issued, pc, pkt, got, attached>>

(* LEAVE, or expiry of the lease or the admission.                         *)
PeerRemoved ==
    /\ peer # NoPeer
    /\ peer' = NoPeer
    /\ UNCHANGED <<now, pending, verified, failed, denied, issued, pc, pkt, got, sweep, attached>>

Tick ==
    /\ now < MaxTime
    /\ now' = now + 1
    /\ UNCHANGED <<pending, verified, failed, denied, peer, issued, pc, pkt, got, sweep, attached>>

-----------------------------------------------------------------------------
Packets ==
    \/ \E t \in Tickets, k \in Keys : Receive("BEGIN", t.kind, k, t, 0)
    \/ \E kind \in Kinds, k \in Keys, c \in 0 .. issued :
          Receive("PROOF", kind, k, NoTicket, c)
    \/ \E k \in Keys : Receive("JOIN", "identity", k, NoTicket, 0)

Next ==
    \/ Packets
    \/ Begin \/ Proof \/ Take \/ JoinIdentity \/ JoinService \/ Upsert \/ Attach
    \/ \E rule \in Rules, until \in 1 .. MaxTime + 1 : Install(rule, until)
    \/ Sweep \/ PeerRemoved
    \/ Tick

Spec == Init /\ [][Next]_vars

-----------------------------------------------------------------------------
(* Properties.                                                             *)

(* No flow of a denied grant survives: whatever BEGIN, PROOF and a         *)
(* revocation interleave, nothing stored matches a rule that is in force   *)
(* (installRevocation "installs a channel-scoped deny rule before evicting *)
(* pending state").                                                        *)
DeniedNotStored ==
    \A f \in pending \cup verified, r \in InForce(denied) :
        f.kind = "service" => ~Matches(r, f.ticket)

(* While a rule is in force and no command still has to sweep for it, the  *)
(* endpoint's membership does not rest on a grant the rule matches, also   *)
(* when the rule came between the JOIN's or the PROOF's critical sections  *)
(* (admissionAllowedForMembership).                                        *)
RevokedNotMember ==
    \A r \in InForce(denied) :
        peer.service # NoTicket /\ Matches(r, peer.service) => sweep = r

(* "A peer must use one admission path per membership" (main.go,           *)
(* resolveJoinAdmission): no sequence of JOINs and PROOFs leaves an        *)
(* identity and a service admission on one entry.                          *)
OneAdmissionPath == peer.identity = NoTicket \/ peer.service = NoTicket

(* A proof is used once: it is consumed when it is handed out "so it       *)
(* cannot be reused after this endpoint's existing ... membership ends"    *)
(* (main.go, handlePacket).                                                *)
ProofUsedOnce == \A c \in 1 .. MaxChallenges : attached[c] <= 1

(* The flows that await their proof stay within                            *)
(* maxPendingIdentityAdmissions and maxPendingServiceAdmissions, the deny  *)
(* rules within maxServiceAdmissionDenyRules. The code gives verified and  *)
(* failed flows no limit: each key has one, until it expires.              *)
WithinLimits ==
    /\ \A kind \in Kinds : Cardinality(OfKind(pending, kind)) <= MaxPending
    /\ Cardinality(InForce(denied)) <= MaxRules
    /\ \A f, g \in pending : f.kind = g.kind /\ f.key = g.key => f = g
    /\ \A f, g \in verified : f.kind = g.kind /\ f.key = g.key => f = g

(* The tables have their types and keep their limits, and a proof is used  *)
(* once (begin, proof, installRevocation, takeVerifiedAdmission,           *)
(* resolveJoinAdmission).                                                  *)
ProofsSound == TypeOK /\ WithinLimits /\ ProofUsedOnce

(* "A successful proof binds the ticket to the client UDP endpoint, its    *)
(* sender ID, and its Ed25519 public key" (README): between two packets,   *)
(* an entry's admission is a ticket for the entry's own sender id. The     *)
(* code does not keep this in optional mode: a JOIN under another sender   *)
(* id keeps the admission of the entry.                                    *)
AdmissionBoundToSender ==
    pc = "idle" => /\ peer.identity # NoTicket => peer.identity.sender = peer.sender
                   /\ peer.service # NoTicket => peer.service.sender = peer.sender
=============================================================================
