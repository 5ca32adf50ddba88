------------------------ MODULE AdmissionFlowProofs ------------------------
(* Proofs about AdmissionFlow, for every set of keys, tickets and rules.   *)
EXTENDS AdmissionFlow, InductionLemmas, FiniteSetTheorems, TLAPS

(* Types, and the fact that the kind of a flow is that of its ticket, so   *)
(* that the deny rules are applied to every flow of a managed service.     *)
KindsAgree ==
    /\ \A f \in pending \cup verified \cup got : f.ticket.kind = f.kind
    /\ pc = "begin" => pkt.ticket \in Tickets /\ pkt.ticket.kind = pkt.kind

(* The inductive invariant.                                                *)
FlowInv ==
    /\ TypeOK
    /\ KindsAgree
    /\ DeniedNotStored
    /\ RevokedNotMember
    /\ OneAdmissionPath

-----------------------------------------------------------------------------
(* Cleaning a table or the rules only removes.                             *)
LEMMA CleanSubset ==
    ASSUME NEW table, NEW kind, NEW time
    PROVE  Clean(table, kind, time) \subseteq table
  BY DEF Clean

(* Removing a key's flows adds none.                                       *)
LEMMA WithoutSubset ==
    ASSUME NEW table, NEW kind, NEW key
    PROVE  Without(table, kind, key) \subseteq table
  BY DEF Without

(* The cleanup of the deny rules keeps their type and installs none.       *)
LEMMA CleanRulesFacts ==
    ASSUME denied \in [Rules -> Nat], NEW kind, NEW time
    PROVE  /\ CleanRules(kind, time) \in [Rules -> Nat]
           /\ InForce(CleanRules(kind, time)) \subseteq InForce(denied)
  BY DEF CleanRules, InForce

(* What is handed out was stored.                                          *)
LEMMA UsableSubset ==
    ASSUME NEW kind
    PROVE  Usable(kind) \subseteq verified
  BY DEF Usable, Of, Clean

(* A packet is well typed.                                                 *)
LEMMA ReceiveType ==
    ASSUME TypeOK, NEW type \in {"BEGIN", "PROOF", "JOIN"}, NEW kind \in Kinds,
           NEW key \in Keys, NEW ticket \in Tickets \cup {NoTicket}, NEW chal \in Nat,
           type = "BEGIN" => ticket \in Tickets,
           Receive(type, kind, key, ticket, chal)
    PROVE  TypeOK' /\ (pc' = "begin" => pkt'.ticket \in Tickets /\ pkt'.ticket.kind = pkt'.kind)
  <1>1. NoPeer \in PeerType
    BY DEF NoPeer, PeerType
  <1>2. peer' \in PeerType
    BY <1>1 DEF Receive, TypeOK
  <1>. DEFINE p == [type |-> type, kind |-> kind, key |-> key,
                    ticket |-> ticket, chal |-> chal, at |-> now,
                    existing |-> (peer'.sender = key.sender), outcome |-> "allowed"]
  <1>3. p \in PktType
    BY DEF TypeOK, PktType
  <1>4. FirstStage(type) \in Stages /\ (FirstStage(type) = "begin" => type = "BEGIN")
    BY DEF FirstStage, Stages
  <1>5. CASE pc' = FirstStage(type) /\ pkt' = p
    BY <1>2, <1>3, <1>4, <1>5 DEF Receive, TypeOK
  <1>6. CASE UNCHANGED <<pc, pkt>>
    <2>1. pc' = "idle"
      BY <1>6 DEF Receive, At
    <2>. QED
      BY <1>2, <1>6, <2>1 DEF Receive, TypeOK, Stages
  <1>. QED
    BY <1>5, <1>6 DEF Receive

(* Every other step keeps the types and the agreement of the kinds.        *)
LEMMA FailType ==
    ASSUME TypeOK, pkt \in PktType, NEW kept, kept \subseteq FailureType, Fail(kept)
    PROVE  failed' \subseteq FailureType
  <1>1. Failure(pkt.kind, pkt.key, pkt.at) \in FailureType
    BY AdmissionFlowAssumption DEF Failure, FailureType, PktType
  <1>. QED
    BY <1>1, WithoutSubset DEF Fail

(* BEGIN keeps the types and the agreement of the kinds.                   *)
LEMMA BeginType ==
    ASSUME TypeOK, KindsAgree, Begin
    PROVE  TypeOK' /\ KindsAgree'
  <1>. DEFINE k == pkt.kind
              kept == Clean(pending, k, pkt.at)
              new == [kind |-> k, key |-> pkt.key, ticket |-> pkt.ticket,
                      chal |-> issued + 1,
                      expires |-> Earlier(pkt.at + ChallengeTTL, pkt.ticket.expires)]
  <1>1. pkt \in PktType /\ pkt.ticket \in Tickets /\ pkt.ticket.kind = k
    BY DEF TypeOK, KindsAgree, Begin, At
  <1>2. Earlier(pkt.at + ChallengeTTL, pkt.ticket.expires) \in Nat
    BY <1>1, AdmissionFlowAssumption DEF Earlier, PktType, TicketType
  <1>3. new \in FlowType /\ new.ticket.kind = new.kind
    BY <1>1, <1>2 DEF FlowType, PktType, TypeOK
  <1>4. /\ denied' \in [Rules -> Nat]
        /\ verified' \subseteq verified
        /\ pc' = "idle" /\ pkt' = NoPkt
        /\ UNCHANGED <<now, peer, got, sweep, attached>>
    BY CleanSubset, CleanRulesFacts DEF Begin, Finish, TypeOK
  <1>5. /\ pending' \subseteq pending \cup {new}
        /\ failed' \subseteq FailureType
        /\ issued' \in Nat
    <2>1. CASE Fail(Clean(failed, k, pkt.at)) /\ pending' = kept /\ UNCHANGED issued
      BY <2>1, <1>1, CleanSubset, FailType DEF TypeOK
    <2>2. CASE /\ pending' = Without(kept, k, pkt.key) \cup {new}
               /\ failed' = Without(Clean(failed, k, pkt.at), k, pkt.key)
               /\ issued' = issued + 1
      BY <2>2, CleanSubset, WithoutSubset DEF TypeOK
    <2>. QED
      BY <2>1, <2>2 DEF Begin
  <1>6. pending' \subseteq FlowType
    BY <1>3, <1>5 DEF TypeOK
  <1>7. TypeOK'
    BY <1>4, <1>5, <1>6 DEF TypeOK, Stages
  <1>8. KindsAgree'
    BY <1>3, <1>4, <1>5 DEF KindsAgree
  <1>. QED
    BY <1>7, <1>8

(* PROOF does.                                                             *)
LEMMA ProofType ==
    ASSUME TypeOK, KindsAgree, Proof
    PROVE  /\ TypeOK' /\ KindsAgree'
           /\ \A f \in verified' \ verified :
                 \E g \in pending : g.kind = f.kind /\ g.ticket = f.ticket
  <1>. DEFINE k == pkt.kind
              kept == Clean(pending, k, pkt.at)
              rules == CleanRules(k, pkt.at)
              good == {f \in Of(kept, k, pkt.key) :
                          f.chal = pkt.chal /\ ~Denied(f.ticket, rules)}
              proved == {[f EXCEPT !.expires = f.ticket.expires] : f \in good}
  <1>1. pkt \in PktType
    BY DEF TypeOK, Proof, At
  <1>2. good \subseteq pending
    BY DEF Of, Clean
  <1>3. ASSUME NEW f \in proved
        PROVE  /\ f \in FlowType
               /\ f.ticket.kind = f.kind
               /\ \E g \in pending : g.kind = f.kind /\ g.ticket = f.ticket
    <2>1. PICK g \in good : f = [g EXCEPT !.expires = g.ticket.expires]
      BY <1>3
    <2>2. g \in pending /\ g \in FlowType /\ g.ticket \in TicketType /\ g.ticket.kind = g.kind
      BY <1>2, AdmissionFlowAssumption DEF TypeOK, KindsAgree, FlowType
    <2>3. f \in FlowType /\ f.kind = g.kind /\ f.ticket = g.ticket
      BY <2>1, <2>2 DEF FlowType, TicketType
    <2>. QED
      BY <2>2, <2>3
  <1>4. /\ denied' \in [Rules -> Nat]
        /\ pending' \subseteq pending
        /\ UNCHANGED <<now, peer, issued, got, sweep, attached>>
    BY CleanSubset, WithoutSubset, CleanRulesFacts DEF Proof, TypeOK
  <1>5. /\ verified' \subseteq verified \cup proved
        /\ failed' \subseteq FailureType
        /\ \/ pc' = "idle" /\ pkt' = NoPkt
           \/ pc' = "take" /\ pkt' = pkt
    <2>1. CASE /\ Fail(Clean(failed, k, pkt.at))
               /\ verified' = Clean(verified, k, pkt.at)
               /\ Finish
      BY <2>1, <1>1, CleanSubset, FailType DEF TypeOK, Finish
    <2>2. CASE /\ failed' = Without(Clean(failed, k, pkt.at), k, pkt.key)
               /\ verified' = Without(Clean(verified, k, pkt.at), k, pkt.key) \cup proved
               /\ IF pkt.existing THEN Goto("take") ELSE Finish
      <3>1. failed' \subseteq failed /\ verified' \subseteq verified \cup proved
        BY <2>2, CleanSubset, WithoutSubset
      <3>. QED
        BY <2>2, <3>1 DEF TypeOK, Finish, Goto
    <2>. QED
      BY <2>1, <2>2 DEF Proof
  <1>6. TypeOK'
    BY <1>1, <1>3, <1>4, <1>5 DEF TypeOK, Stages
  <1>7. KindsAgree'
    BY <1>3, <1>4, <1>5 DEF KindsAgree
  <1>. QED
    BY <1>3, <1>5, <1>6, <1>7

(* A cleanup only takes flows away.                                        *)
LEMMA CleanupFacts ==
    ASSUME TypeOK, NEW kind, NEW taken, Cleanup(kind, taken)
    PROVE  /\ pending' \subseteq pending /\ verified' \subseteq verified
           /\ failed' \subseteq failed /\ denied' \in [Rules -> Nat]
           /\ InForce(denied)' \subseteq InForce(denied)
  BY CleanSubset, CleanRulesFacts DEF Cleanup, TypeOK

(* The steps that hand out a verified flow keep types and kinds.           *)
LEMMA HandOutType ==
    ASSUME TypeOK, KindsAgree, Take \/ JoinIdentity \/ JoinService
    PROVE  /\ TypeOK' /\ KindsAgree'
           /\ pending' \subseteq pending /\ verified' \subseteq verified
           /\ InForce(denied)' \subseteq InForce(denied)
           /\ UNCHANGED <<peer, sweep>>
  <1>1. pkt \in PktType
    BY DEF TypeOK, Take, JoinIdentity, JoinService, At
  <1>2. /\ pending' \subseteq pending /\ verified' \subseteq verified
        /\ failed' \subseteq failed /\ denied' \in [Rules -> Nat]
        /\ InForce(denied)' \subseteq InForce(denied)
    BY CleanupFacts DEF Take, JoinIdentity, JoinService
  <1>3. UNCHANGED <<now, peer, issued, sweep, attached>>
    BY DEF Take, JoinIdentity, JoinService
  <1>4. got' \subseteq got \cup verified
    BY UsableSubset DEF Take, JoinIdentity, JoinService
  <1>5. /\ pc' \in Stages \ {"begin"}
        /\ pkt' \in PktType \cup {NoPkt}
        /\ pc' # "idle" => pkt' \in PktType
    <2>1. CASE Take
      BY <1>1, <2>1 DEF Take, Finish, Goto, Stages
    <2>2. CASE JoinIdentity
      BY <1>1, <2>2 DEF JoinIdentity, Stages, PktType
    <2>3. CASE JoinService
      BY <1>1, <2>3 DEF JoinService, Finish, Goto, Stages
    <2>. QED
      BY <2>1, <2>2, <2>3
  <1>6. TypeOK'
    BY <1>2, <1>3, <1>4, <1>5 DEF TypeOK
  <1>7. KindsAgree'
    BY <1>2, <1>4, <1>5 DEF KindsAgree
  <1>. QED
    BY <1>2, <1>3, <1>6, <1>7

(* The attachment does.                                                    *)
LEMMA AttachType ==
    ASSUME TypeOK, KindsAgree, Attach
    PROVE  /\ TypeOK' /\ KindsAgree'
           /\ pending' \subseteq pending /\ verified' \subseteq verified
           /\ InForce(denied)' \subseteq InForce(denied)
           /\ UNCHANGED sweep
           /\ \/ UNCHANGED peer
              \/ \E f \in got :
                    /\ CanAttach(f) /\ f.kind = "identity"
                    /\ peer' = [peer EXCEPT !.identity = f.ticket]
              \/ \E f \in got :
                    /\ CanAttach(f) /\ f.kind = "service"
                    /\ peer' = [peer EXCEPT !.service = f.ticket]
                    /\ denied' = CleanRules("service", now)
  <1>1. pkt \in PktType
    BY DEF TypeOK, Attach, At
  <1>2. PICK f \in got :
         /\ IF CanAttach(f)
            THEN /\ peer' = IF f.kind = "identity"
                            THEN [peer EXCEPT !.identity = f.ticket]
                            ELSE [peer EXCEPT !.service = f.ticket]
                 /\ attached' = [attached EXCEPT ![f.chal] = @ + 1]
            ELSE UNCHANGED <<peer, attached>>
         /\ IF f.kind = "service"
            THEN /\ pending' = Clean(pending, "service", now)
                 /\ verified' = Clean(verified, "service", now)
                 /\ failed' = Clean(failed, "service", now)
                 /\ denied' = CleanRules("service", now)
            ELSE UNCHANGED <<pending, verified, failed, denied>>
         /\ got' = got \ {f}
         /\ IF got' = {} THEN Finish ELSE UNCHANGED <<pc, pkt>>
    BY DEF Attach
  <1>3. f \in FlowType /\ f.ticket \in Tickets /\ f.kind \in Kinds
    BY DEF TypeOK, FlowType
  <1>4. /\ pending' \subseteq pending /\ verified' \subseteq verified
        /\ failed' \subseteq failed /\ denied' \in [Rules -> Nat]
        /\ InForce(denied)' \subseteq InForce(denied)
    <2>1. CASE f.kind = "service"
      BY <1>2, <2>1, CleanSubset, CleanRulesFacts DEF TypeOK
    <2>2. CASE f.kind # "service"
      BY <1>2, <2>2 DEF TypeOK, InForce
    <2>. QED
      BY <2>1, <2>2
  <1>5. peer' \in PeerType /\ attached' \in [1 .. MaxChallenges -> Nat]
    BY <1>2, <1>3 DEF TypeOK, PeerType
  <1>6. /\ \/ pc' = "idle" /\ pkt' = NoPkt
           \/ pc' = "attach" /\ pkt' = pkt
        /\ got' \subseteq got
        /\ UNCHANGED <<now, issued, sweep>>
    BY <1>2 DEF Attach, At, Finish
  <1>7. TypeOK'
    BY <1>1, <1>4, <1>5, <1>6 DEF TypeOK, Stages
  <1>8. KindsAgree'
    BY <1>4, <1>6 DEF KindsAgree
  <1>9. \/ UNCHANGED peer
        \/ /\ CanAttach(f) /\ f.kind = "identity"
           /\ peer' = [peer EXCEPT !.identity = f.ticket]
        \/ /\ CanAttach(f) /\ f.kind = "service"
           /\ peer' = [peer EXCEPT !.service = f.ticket]
           /\ denied' = CleanRules("service", now)
    BY <1>2, <1>3 DEF Kinds
  <1>. QED
    BY <1>4, <1>6, <1>7, <1>8, <1>9

(* The installation of a deny rule does.                                   *)
LEMMA InstallType ==
    ASSUME TypeOK, KindsAgree, NEW rule \in Rules, NEW until \in Nat, Install(rule, until)
    PROVE  /\ TypeOK' /\ KindsAgree'
           /\ pending' \subseteq pending /\ verified' \subseteq verified
           /\ \/ InForce(denied)' \subseteq InForce(denied) /\ UNCHANGED sweep
              \/ /\ InForce(denied)' \subseteq InForce(denied) \cup {rule}
                 /\ \A f \in pending' \cup verified' :
                       f.kind = "service" => ~Matches(rule, f.ticket)
                 /\ sweep' = rule
  <1>. DEFINE kept == CleanRules("service", now)
  <1>1. kept \in [Rules -> Nat] /\ InForce(kept) \subseteq InForce(denied)
    BY CleanRulesFacts DEF TypeOK
  <1>2. failed' \subseteq failed /\ UNCHANGED <<now, peer, issued, pc, pkt, got, attached>>
    BY CleanSubset DEF Install
  <1>3. CASE /\ denied' = [kept EXCEPT ![rule] = Later(@, until)]
             /\ pending' = Evicted(pending, rule)
             /\ verified' = Evicted(verified, rule)
             /\ sweep' = rule
    <2>1. denied' \in [Rules -> Nat]
      BY <1>1, <1>3 DEF Later
    <2>2. InForce(denied)' \subseteq InForce(denied) \cup {rule}
      BY <1>1, <1>3 DEF InForce, Later
    <2>3. pending' \subseteq pending /\ verified' \subseteq verified
      BY <1>3 DEF Evicted
    <2>4. \A f \in pending' \cup verified' : f.kind = "service" => ~Matches(rule, f.ticket)
      BY <1>3 DEF Evicted
    <2>5. TypeOK'
      BY <1>2, <1>3, <2>1, <2>3 DEF TypeOK
    <2>6. KindsAgree'
      BY <1>2, <2>3 DEF KindsAgree
    <2>. QED
      BY <1>3, <2>2, <2>3, <2>4, <2>5, <2>6
  <1>4. CASE /\ denied' = kept
             /\ pending' = Clean(pending, "service", now)
             /\ verified' = Clean(verified, "service", now)
             /\ UNCHANGED sweep
    <2>1. pending' \subseteq pending /\ verified' \subseteq verified
      BY <1>4, CleanSubset
    <2>2. InForce(denied)' \subseteq InForce(denied)
      BY <1>1, <1>4 DEF InForce
    <2>3. TypeOK'
      BY <1>1, <1>2, <1>4, <2>1 DEF TypeOK
    <2>4. KindsAgree'
      BY <1>2, <2>1 DEF KindsAgree
    <2>. QED
      BY <1>4, <2>1, <2>2, <2>3, <2>4
  <1>. QED
    BY <1>3, <1>4 DEF Install

(* The sweep, the end of a membership and the clock do.                    *)
LEMMA OtherType ==
    ASSUME TypeOK, KindsAgree, Upsert \/ Sweep \/ PeerRemoved \/ Tick \/ UNCHANGED vars
    PROVE  /\ TypeOK' /\ KindsAgree'
           /\ UNCHANGED <<pending, verified, denied>>
  <1>1. NoPeer \in PeerType
    BY DEF NoPeer, PeerType
  <1>2. CASE Upsert
    <2>1. pkt \in PktType /\ pkt.key.sender \in Senders /\ pkt.key.session \in Sessions
      BY <1>2, AdmissionFlowAssumption DEF Upsert, At, TypeOK, PktType
    <2>2. peer' \in PeerType
      BY <1>2, <2>1 DEF Upsert, TypeOK, PeerType
    <2>. QED
      BY <1>2, <2>1, <2>2 DEF Upsert, TypeOK, KindsAgree, Finish, Goto, Stages
  <1>3. CASE Sweep
    BY <1>1, <1>3 DEF Sweep, TypeOK, KindsAgree
  <1>4. CASE PeerRemoved
    BY <1>1, <1>4 DEF PeerRemoved, TypeOK, KindsAgree
  <1>5. CASE Tick
    BY <1>5 DEF Tick, TypeOK, KindsAgree
  <1>6. CASE UNCHANGED vars
    BY <1>6 DEF vars, TypeOK, KindsAgree
  <1>. QED
    BY <1>2, <1>3, <1>4, <1>5, <1>6

-----------------------------------------------------------------------------
(* The steps that store nothing new and install no rule keep what is       *)
(* stored clear of the rules.                                              *)
LEMMA StoredShrinks ==
    ASSUME DeniedNotStored,
           pending' \subseteq pending, verified' \subseteq verified,
           InForce(denied)' \subseteq InForce(denied)
    PROVE  DeniedNotStored'
  BY DEF DeniedNotStored

(* Steps on an unchanged or an absent peer.                                *)
LEMMA PeerKept ==
    ASSUME RevokedNotMember, OneAdmissionPath,
           peer' = peer \/ peer' = NoPeer,
           InForce(denied)' \subseteq InForce(denied), UNCHANGED sweep
    PROVE  RevokedNotMember' /\ OneAdmissionPath'
  BY DEF RevokedNotMember, OneAdmissionPath, NoPeer

(* The invariant holds initially.                                          *)
LEMMA FlowInvInit == Init => FlowInv
  <1>. SUFFICES ASSUME Init PROVE FlowInv
    OBVIOUS
  <1>1. NoPeer \in PeerType
    BY DEF NoPeer, PeerType
  <1>2. TypeOK
    BY <1>1, AdmissionFlowAssumption DEF Init, TypeOK, Stages
  <1>3. KindsAgree /\ DeniedNotStored /\ RevokedNotMember /\ OneAdmissionPath
    BY DEF Init, KindsAgree, DeniedNotStored, RevokedNotMember, OneAdmissionPath, NoPeer
  <1>. QED
    BY <1>2, <1>3 DEF FlowInv

(* Every step keeps the invariant.                                         *)
LEMMA FlowInvStep == FlowInv /\ [Next]_vars => FlowInv'
  <1>. SUFFICES ASSUME FlowInv, [Next]_vars PROVE FlowInv'
    OBVIOUS
  <1>. USE DEF FlowInv
  <1>1. CASE Packets
    <2>1. PICK type \in {"BEGIN", "PROOF", "JOIN"}, kind \in Kinds, key \in Keys,
               ticket \in Tickets \cup {NoTicket}, chal \in Nat :
            /\ type = "BEGIN" => ticket \in Tickets
            /\ Receive(type, kind, key, ticket, chal)
      <3>1. CASE \E t \in Tickets, k \in Keys : Receive("BEGIN", t.kind, k, t, 0)
        <4>1. PICK t \in Tickets, k \in Keys : Receive("BEGIN", t.kind, k, t, 0)
          BY <3>1
        <4>2. t.kind \in Kinds
          BY AdmissionFlowAssumption DEF TicketType
        <4>. QED
          BY <4>1, <4>2
      <3>2. CASE \E kind \in Kinds, k \in Keys, c \in 0 .. issued :
                   Receive("PROOF", kind, k, NoTicket, c)
        <4>1. PICK kind \in Kinds, k \in Keys, c \in 0 .. issued :
                Receive("PROOF", kind, k, NoTicket, c)
          BY <3>2
        <4>2. c \in Nat
          BY DEF TypeOK
        <4>. QED
          BY <4>1, <4>2
      <3>3. CASE \E k \in Keys : Receive("JOIN", "identity", k, NoTicket, 0)
        BY <3>3 DEF Kinds
      <3>. QED
        BY <1>1, <3>1, <3>2, <3>3 DEF Packets
    <2>2. TypeOK' /\ (pc' = "begin" => pkt'.ticket \in Tickets /\ pkt'.ticket.kind = pkt'.kind)
      BY <2>1, ReceiveType
    <2>3. /\ peer' = peer \/ peer' = NoPeer
          /\ UNCHANGED <<pending, verified, denied, got, sweep>>
      BY <2>1 DEF Receive
    <2>4. InForce(denied)' \subseteq InForce(denied)
      BY <2>3 DEF InForce
    <2>5. KindsAgree'
      BY <2>2, <2>3 DEF KindsAgree
    <2>. QED
      BY <2>2, <2>3, <2>4, <2>5, StoredShrinks, PeerKept
  <1>2. CASE Begin
    <2>. DEFINE k == pkt.kind
                rules == CleanRules(k, pkt.at)
    <2>1. TypeOK' /\ KindsAgree'
      BY <1>2, BeginType
    <2>2. denied' = rules /\ InForce(denied)' \subseteq InForce(denied)
      BY <1>2, CleanRulesFacts DEF Begin, TypeOK
    <2>3. verified' \subseteq verified /\ UNCHANGED <<peer, sweep>>
      BY <1>2, CleanSubset DEF Begin
    <2>4. \A f \in pending' \ pending : ~Denied(f.ticket, rules)
      <3>1. CASE ~Denied(pkt.ticket, rules)
        BY <1>2, <3>1, CleanSubset, WithoutSubset DEF Begin
      <3>2. CASE Denied(pkt.ticket, rules)
        <4>1. pending' = Clean(pending, k, pkt.at)
          BY <1>2, <3>2 DEF Begin
        <4>. QED
          BY <4>1, CleanSubset
      <3>. QED
        BY <3>1, <3>2
    <2>5. \A f \in pending' : f.kind = "service" => f.ticket.kind = "service"
      BY <2>1 DEF KindsAgree
    <2>6. DeniedNotStored'
      BY <2>2, <2>3, <2>4, <2>5 DEF DeniedNotStored, Denied, InForce
    <2>. QED
      BY <2>1, <2>2, <2>3, <2>6, PeerKept
  <1>3. CASE Proof
    <2>1. /\ TypeOK' /\ KindsAgree'
          /\ \A f \in verified' \ verified :
                \E g \in pending : g.kind = f.kind /\ g.ticket = f.ticket
      BY <1>3, ProofType
    <2>2. pending' \subseteq pending /\ UNCHANGED <<peer, sweep>>
      BY <1>3, CleanSubset, WithoutSubset DEF Proof
    <2>3. InForce(denied)' \subseteq InForce(denied)
      BY <1>3, CleanRulesFacts DEF Proof, TypeOK
    <2>4. DeniedNotStored'
      BY <2>1, <2>2, <2>3 DEF DeniedNotStored
    <2>. QED
      BY <2>1, <2>2, <2>3, <2>4, PeerKept
  <1>4. CASE Take \/ JoinIdentity \/ JoinService
    BY <1>4, HandOutType, StoredShrinks, PeerKept
  <1>5. CASE Attach
    <2>1. /\ TypeOK' /\ KindsAgree' /\ DeniedNotStored'
          /\ InForce(denied)' \subseteq InForce(denied) /\ UNCHANGED sweep
      BY <1>5, AttachType, StoredShrinks
    <2>2. CASE UNCHANGED peer
      BY <2>1, <2>2, PeerKept
    <2>3. CASE \E f \in got : /\ CanAttach(f) /\ f.kind = "identity"
                             /\ peer' = [peer EXCEPT !.identity = f.ticket]
      <3>1. peer.service = NoTicket
        BY <2>3 DEF CanAttach
      <3>2. peer'.service = NoTicket
        BY <2>3, <3>1 DEF TypeOK, PeerType
      <3>. QED
        BY <2>1, <3>2 DEF RevokedNotMember, OneAdmissionPath
    <2>4. CASE \E f \in got : /\ CanAttach(f) /\ f.kind = "service"
                             /\ peer' = [peer EXCEPT !.service = f.ticket]
                             /\ denied' = CleanRules("service", now)
      <3>1. PICK f \in got : /\ CanAttach(f) /\ f.kind = "service"
                             /\ peer' = [peer EXCEPT !.service = f.ticket]
                             /\ denied' = CleanRules("service", now)
        BY <2>4
      <3>2. f.ticket.kind = "service"
        BY <3>1 DEF KindsAgree
      <3>3. peer'.service = f.ticket /\ peer'.identity = NoTicket
        BY <3>1 DEF CanAttach, TypeOK, PeerType
      <3>4. \A r \in InForce(denied)' : ~Matches(r, f.ticket)
        BY <3>1, <3>2 DEF CanAttach, Denied, InForce
      <3>. QED
        BY <2>1, <3>3, <3>4 DEF RevokedNotMember, OneAdmissionPath
    <2>. QED
      BY <1>5, <2>2, <2>3, <2>4, AttachType
  <1>6. CASE \E rule \in Rules, until \in 1 .. MaxTime + 1 : Install(rule, until)
    <2>1. PICK rule \in Rules, until \in 1 .. MaxTime + 1 : Install(rule, until)
      BY <1>6
    <2>2. until \in Nat
      BY AdmissionFlowAssumption
    <2>3. /\ TypeOK' /\ KindsAgree'
          /\ pending' \subseteq pending /\ verified' \subseteq verified
          /\ \/ InForce(denied)' \subseteq InForce(denied) /\ UNCHANGED sweep
             \/ /\ InForce(denied)' \subseteq InForce(denied) \cup {rule}
                /\ \A f \in pending' \cup verified' :
                      f.kind = "service" => ~Matches(rule, f.ticket)
                /\ sweep' = rule
      BY <2>1, <2>2, InstallType
    <2>4. sweep = NoRule /\ UNCHANGED peer
      BY <2>1 DEF Install
    <2>5. DeniedNotStored'
      BY <2>3 DEF DeniedNotStored
    \* nothing was owed to an older rule, so the peer matches none of them
    <2>6. \A r \in InForce(denied) : peer.service # NoTicket => ~Matches(r, peer.service)
      BY <2>4, AdmissionFlowAssumption DEF RevokedNotMember, InForce
    <2>7. RevokedNotMember' /\ OneAdmissionPath'
      BY <2>3, <2>4, <2>6 DEF RevokedNotMember, OneAdmissionPath
    <2>. QED
      BY <2>3, <2>5, <2>7
  <1>7. CASE Upsert \/ Sweep \/ PeerRemoved \/ Tick \/ UNCHANGED vars
    <2>1. TypeOK' /\ KindsAgree' /\ UNCHANGED <<pending, verified, denied>>
      BY <1>7, OtherType
    <2>2. InForce(denied)' \subseteq InForce(denied)
      BY <2>1 DEF InForce
    <2>3. DeniedNotStored'
      BY <2>1, <2>2, StoredShrinks
    <2>4. CASE Upsert
      <3>1. peer'.identity = peer.identity /\ peer'.service = peer.service /\ UNCHANGED sweep
        BY <2>4 DEF Upsert, TypeOK, PeerType
      <3>. QED
        BY <2>1, <2>2, <2>3, <3>1 DEF RevokedNotMember, OneAdmissionPath
    <2>5. CASE Sweep
      <3>1. CASE peer.service # NoTicket /\ Matches(sweep, peer.service)
        <4>1. peer' = NoPeer
          BY <2>5, <3>1 DEF Sweep
        <4>. QED
          BY <2>1, <2>3, <4>1 DEF RevokedNotMember, OneAdmissionPath, NoPeer
      <3>2. CASE ~(peer.service # NoTicket /\ Matches(sweep, peer.service))
        <4>1. peer' = peer
          BY <2>5, <3>2 DEF Sweep
        <4>2. \A r \in InForce(denied) : ~(peer.service # NoTicket /\ Matches(r, peer.service))
          BY <3>2 DEF RevokedNotMember
        <4>. QED
          BY <2>1, <2>2, <2>3, <4>1, <4>2 DEF RevokedNotMember, OneAdmissionPath
      <3>. QED
        BY <3>1, <3>2
    <2>6. CASE PeerRemoved
      BY <2>1, <2>2, <2>3, <2>6, PeerKept DEF PeerRemoved
    <2>7. CASE Tick
      BY <2>1, <2>2, <2>3, <2>7, PeerKept DEF Tick
    <2>8. CASE UNCHANGED vars
      BY <2>1, <2>2, <2>3, <2>8, PeerKept DEF vars
    <2>. QED
      BY <1>7, <2>4, <2>5, <2>6, <2>7, <2>8
  <1>. QED
    BY <1>1, <1>2, <1>3, <1>4, <1>5, <1>6, <1>7 DEF Next

(* No flow of a denied grant is ever stored, for any tickets and rules.    *)
THEOREM DeniedNeverStored == Spec => []DeniedNotStored
  <1>1. FlowInv => DeniedNotStored
    BY DEF FlowInv
  <1>. QED
    BY <1>1, FlowInvInit, FlowInvStep, PTL DEF Spec

(* A revocation fails closed against JOIN and PROOF, whatever fields its   *)
(* target has.                                                             *)
THEOREM RevokedNeverMember == Spec => []RevokedNotMember
  <1>1. FlowInv => RevokedNotMember
    BY DEF FlowInv
  <1>. QED
    BY <1>1, FlowInvInit, FlowInvStep, PTL DEF Spec

(* No entry ever has an identity and a service admission.                  *)
THEOREM OnePath == Spec => []OneAdmissionPath
  <1>1. FlowInv => OneAdmissionPath
    BY DEF FlowInv
  <1>. QED
    BY <1>1, FlowInvInit, FlowInvStep, PTL DEF Spec

-----------------------------------------------------------------------------
(* Each proof is used once. The number of a challenge is on at most one    *)
(* flow, that flow is in one table, and until it has left the last of them *)
(* its proof was not attached.                                             *)
Distinct(table) == \A f, g \in table : f.chal = g.chal => f = g

Apart(a, b) == \A f \in a, g \in b : f.chal # g.chal

OnePlace ==
    /\ Distinct(pending) /\ Distinct(verified) /\ Distinct(got)
    /\ Apart(pending, verified) /\ Apart(pending, got) /\ Apart(verified, got)

Numbered ==
    /\ issued <= MaxChallenges
    /\ pc = "begin" => issued < MaxChallenges
    /\ \A f \in pending \cup verified \cup got : f.chal \in 1 .. issued /\ attached[f.chal] = 0
    /\ \A c \in 1 .. MaxChallenges : c > issued => attached[c] = 0

UseInv == ProofUsedOnce /\ OnePlace /\ Numbered

(* Moving flows on from one table to the next keeps each in one place.     *)
LEMMA MovedOn ==
    ASSUME OnePlace, pending' \subseteq pending, verified' \subseteq verified,
           got' \subseteq got \cup (verified \ verified')
    PROVE  OnePlace'
  BY DEF OnePlace, Distinct, Apart

(* A step that issues and attaches nothing keeps the numbers.              *)
LEMMA NumbersKept ==
    ASSUME Numbered, ProofUsedOnce, UNCHANGED <<issued, attached>>,
           pending' \cup verified' \cup got' \subseteq pending \cup verified \cup got,
           pc' = "begin" => issued < MaxChallenges
    PROVE  Numbered' /\ ProofUsedOnce'
  BY DEF Numbered, ProofUsedOnce

(* A BEGIN puts a new number on one flow.                                  *)
LEMMA BeginUse ==
    ASSUME TypeOK, UseInv, Begin
    PROVE  UseInv'
  <1>. DEFINE k == pkt.kind
              kept == Clean(pending, k, pkt.at)
              new == [kind |-> k, key |-> pkt.key, ticket |-> pkt.ticket,
                      chal |-> issued + 1,
                      expires |-> Earlier(pkt.at + ChallengeTTL, pkt.ticket.expires)]
  <1>1. /\ verified' \subseteq verified
        /\ pc' = "idle"
        /\ UNCHANGED <<got, attached>>
        /\ issued < MaxChallenges
    BY CleanSubset DEF Begin, Finish, At, UseInv, Numbered
  <1>2. CASE pending' = kept /\ UNCHANGED issued
    <2>1. pending' \subseteq pending
      BY <1>2, CleanSubset
    <2>. QED
      BY <1>1, <1>2, <2>1, MovedOn, NumbersKept DEF UseInv
  <1>3. CASE pending' = Without(kept, k, pkt.key) \cup {new} /\ issued' = issued + 1
    <2>1. pending' \subseteq pending \cup {new} /\ new.chal = issued + 1
      BY <1>3, CleanSubset, WithoutSubset
    <2>2. \A f \in pending \cup verified \cup got : f.chal # issued + 1
      BY DEF UseInv, Numbered, TypeOK
    <2>3. OnePlace'
      BY <1>1, <2>1, <2>2 DEF UseInv, OnePlace, Distinct, Apart
    <2>4. issued \in Nat /\ MaxChallenges \in Nat
      BY AdmissionFlowAssumption DEF TypeOK
    <2>5. issued + 1 \in 1 .. MaxChallenges /\ attached[issued + 1] = 0
      BY <1>1, <2>4 DEF UseInv, Numbered
    <2>6. \A f \in pending' \cup verified' \cup got' :
            f.chal \in 1 .. issued' /\ attached'[f.chal] = 0
      BY <1>1, <1>3, <2>1, <2>4, <2>5 DEF UseInv, Numbered
    <2>7. Numbered'
      BY <1>1, <1>3, <2>4, <2>6 DEF UseInv, Numbered
    <2>. QED
      BY <1>1, <2>3, <2>7 DEF UseInv, ProofUsedOnce
  <1>. QED
    BY <1>2, <1>3 DEF Begin

(* A PROOF moves its flow from one table to the other.                     *)
LEMMA ProofUse ==
    ASSUME TypeOK, UseInv, Proof
    PROVE  UseInv'
  <1>. DEFINE k == pkt.kind
              kept == Clean(pending, k, pkt.at)
              rules == CleanRules(k, pkt.at)
              good == {f \in Of(kept, k, pkt.key) :
                          f.chal = pkt.chal /\ ~Denied(f.ticket, rules)}
              proved == {[f EXCEPT !.expires = f.ticket.expires] : f \in good}
  <1>1. /\ UNCHANGED <<issued, got, attached>>
        /\ pending' = Without(kept, k, pkt.key)
        /\ pc' # "begin"
    BY DEF Proof, Finish, Goto
  <1>2. verified' \subseteq verified \cup proved
    BY CleanSubset, WithoutSubset DEF Proof
  <1>3. pending' \subseteq pending \ good
    BY <1>1 DEF Without, Of, Clean
  <1>4. good \subseteq pending
    BY DEF Of, Clean
  <1>5. ASSUME NEW f \in proved
        PROVE  \E g \in good : f.chal = g.chal /\ f = [g EXCEPT !.expires = g.ticket.expires]
    <2>1. PICK g \in good : f = [g EXCEPT !.expires = g.ticket.expires]
      BY <1>5
    <2>2. g \in FlowType
      BY <1>4 DEF TypeOK
    <2>. QED
      BY <2>1, <2>2 DEF FlowType
  <1>6. Distinct(proved)
    BY <1>4, <1>5 DEF UseInv, OnePlace, Distinct
  <1>7. Apart(proved, verified) /\ Apart(proved, got)
    BY <1>4, <1>5 DEF UseInv, OnePlace, Apart
  <1>8. Apart(pending', proved)
    BY <1>3, <1>4, <1>5 DEF UseInv, OnePlace, Distinct, Apart
  <1>9. OnePlace'
    <2>. HIDE DEF proved, good
    <2>. QED
      BY <1>1, <1>2, <1>3, <1>6, <1>7, <1>8 DEF UseInv, OnePlace, Distinct, Apart
  <1>10. \A f \in proved : f.chal \in 1 .. issued /\ attached[f.chal] = 0
    BY <1>4, <1>5 DEF UseInv, Numbered
  <1>11. Numbered' /\ ProofUsedOnce'
    <2>. HIDE DEF proved, good
    <2>. QED
      BY <1>1, <1>2, <1>3, <1>10 DEF UseInv, Numbered, ProofUsedOnce
  <1>. QED
    BY <1>9, <1>11 DEF UseInv

(* What is handed out leaves its table.                                    *)
LEMMA HandOutUse ==
    ASSUME TypeOK, UseInv, Take \/ JoinIdentity \/ JoinService
    PROVE  UseInv'
  <1>1. pending' \subseteq pending /\ verified' \subseteq verified
    BY CleanupFacts DEF Take, JoinIdentity, JoinService
  <1>2. UNCHANGED <<issued, attached>> /\ pc' # "begin"
    BY DEF Take, JoinIdentity, JoinService, Finish, Goto
  <1>3. got' \subseteq got \cup (verified \ verified')
    <2>1. CASE Take
      <3>1. Usable(pkt.kind) \subseteq Of(verified, pkt.kind, pkt.key)
        BY DEF Usable, Of, Clean
      <3>2. Of(verified, pkt.kind, pkt.key) \subseteq verified
        BY DEF Of
      <3>. QED
        BY <2>1, <3>1, <3>2 DEF Take, Cleanup
    <2>2. CASE JoinIdentity
      BY <2>2, UsableSubset DEF JoinIdentity, Cleanup
    <2>3. CASE JoinService
      BY <2>3, UsableSubset DEF JoinService, Cleanup
    <2>. QED
      BY <2>1, <2>2, <2>3
  <1>. QED
    BY <1>1, <1>2, <1>3, MovedOn, NumbersKept DEF UseInv

(* An attachment takes its flow out of the last table.                     *)
LEMMA AttachUse ==
    ASSUME TypeOK, UseInv, Attach
    PROVE  UseInv'
  <1>1. PICK f \in got :
         /\ \/ attached' = [attached EXCEPT ![f.chal] = @ + 1]
            \/ UNCHANGED attached
         /\ pending' \subseteq pending /\ verified' \subseteq verified
         /\ got' = got \ {f}
         /\ pc' # "begin"
    BY CleanSubset DEF Attach, At, Finish
  <1>2. UNCHANGED issued
    BY DEF Attach
  <1>3. OnePlace'
    BY <1>1, MovedOn DEF UseInv
  <1>4. f.chal \in 1 .. issued /\ attached[f.chal] = 0 /\ issued <= MaxChallenges
    BY DEF UseInv, Numbered
  <1>5. \A g \in pending' \cup verified' \cup got' : g.chal # f.chal
    BY <1>1 DEF UseInv, OnePlace, Distinct, Apart
  <1>6. CASE UNCHANGED attached
    BY <1>1, <1>2, <1>3, <1>6, NumbersKept DEF UseInv
  <1>7. CASE attached' = [attached EXCEPT ![f.chal] = @ + 1]
    <2>1. f.chal \in 1 .. MaxChallenges /\ issued \in Nat /\ MaxChallenges \in Nat
      BY <1>4, AdmissionFlowAssumption DEF TypeOK
    <2>2. \A c \in 1 .. MaxChallenges :
            attached'[c] = IF c = f.chal THEN 1 ELSE attached[c]
      BY <1>4, <1>7 DEF TypeOK
    <2>3. ProofUsedOnce'
      BY <2>2 DEF UseInv, ProofUsedOnce
    <2>4. \A g \in pending' \cup verified' \cup got' :
            g.chal \in 1 .. issued /\ g.chal \in 1 .. MaxChallenges /\ attached[g.chal] = 0
      BY <1>1, <2>1 DEF UseInv, Numbered
    <2>5. Numbered'
      BY <1>1, <1>2, <1>4, <1>5, <2>1, <2>2, <2>4 DEF UseInv, Numbered
    <2>. QED
      BY <1>3, <2>3, <2>5 DEF UseInv
  <1>. QED
    BY <1>1, <1>6, <1>7

(* Every other step leaves the flows where they are, or drops some.        *)
LEMMA OtherUse ==
    ASSUME TypeOK, UseInv,
           \/ Packets \/ Upsert \/ Sweep \/ PeerRemoved \/ Tick \/ UNCHANGED vars
           \/ \E rule \in Rules, until \in 1 .. MaxTime + 1 : Install(rule, until)
    PROVE  UseInv'
  <1>1. /\ pending' \subseteq pending /\ verified' \subseteq verified
        /\ UNCHANGED <<issued, got, attached>>
    <2>1. CASE Packets \/ Upsert \/ Sweep \/ PeerRemoved \/ Tick \/ UNCHANGED vars
      BY <2>1 DEF Packets, Receive, Upsert, Sweep, PeerRemoved, Tick, vars
    <2>2. CASE \E rule \in Rules, until \in 1 .. MaxTime + 1 : Install(rule, until)
      BY <2>2, CleanSubset DEF Install, Evicted
    <2>. QED
      BY <2>1, <2>2
  <1>2. pc' = "begin" => issued < MaxChallenges
    <2>1. CASE Packets
      <3>1. ASSUME NEW type \in {"BEGIN", "PROOF", "JOIN"}, NEW kind, NEW key,
                   NEW ticket, NEW chal, Receive(type, kind, key, ticket, chal)
            PROVE  pc' = "begin" => issued < MaxChallenges
        <4>1. CASE type = "BEGIN"
          BY <3>1, <4>1 DEF Receive
        <4>2. CASE type # "BEGIN"
          BY <3>1, <4>2 DEF Receive, FirstStage, At
        <4>. QED
          BY <4>1, <4>2
      <3>. QED
        BY <2>1, <3>1 DEF Packets
    <2>2. CASE Upsert
      BY <2>2 DEF Upsert, Finish, Goto
    <2>3. CASE UNCHANGED pc
      BY <2>3 DEF UseInv, Numbered
    <2>. QED
      BY <2>1, <2>2, <2>3 DEF Sweep, PeerRemoved, Tick, vars, Install
  <1>. QED
    BY <1>1, <1>2, MovedOn, NumbersKept DEF UseInv

-----------------------------------------------------------------------------
(* The limits of the tables.                                               *)

(* A table has one flow per kind and key, as the maps of the code have.    *)
OnePerKey(table) == \A f, g \in table : f.kind = g.kind /\ f.key = g.key => f = g

LimitsInv ==
    /\ \A kind \in Kinds : /\ IsFiniteSet(OfKind(pending, kind))
                            /\ Cardinality(OfKind(pending, kind)) <= MaxPending
    /\ IsFiniteSet(InForce(denied)) /\ Cardinality(InForce(denied)) <= MaxRules
    /\ OnePerKey(pending) /\ OnePerKey(verified)

LEMMA LimitTypes == MaxPending \in Nat /\ MaxRules \in Nat
  BY AdmissionFlowAssumption

(* Where nothing is added the limits are kept.                             *)
LEMMA LimitsKept ==
    ASSUME LimitsInv, pending' \subseteq pending, verified' \subseteq verified,
           InForce(denied)' \subseteq InForce(denied)
    PROVE  LimitsInv'
  <1>1. ASSUME NEW kind \in Kinds
        PROVE  IsFiniteSet(OfKind(pending', kind)) /\ Cardinality(OfKind(pending', kind)) <= MaxPending
    <2>1. OfKind(pending', kind) \in SUBSET OfKind(pending, kind)
      BY DEF OfKind
    <2>. QED
      BY <2>1, LimitTypes, NoLarger DEF LimitsInv
  <1>2. IsFiniteSet(InForce(denied)') /\ Cardinality(InForce(denied)') <= MaxRules
    BY LimitTypes, NoLarger DEF LimitsInv
  <1>3. OnePerKey(pending') /\ OnePerKey(verified')
    BY DEF LimitsInv, OnePerKey
  <1>. QED
    BY <1>1, <1>2, <1>3 DEF LimitsInv

(* begin adds a flow while fewer of its kind are pending.                  *)
LEMMA BeginLimits ==
    ASSUME TypeOK, LimitsInv, Begin
    PROVE  LimitsInv'
  <1>. DEFINE k == pkt.kind
              kept == Clean(pending, k, pkt.at)
              new == [kind |-> k, key |-> pkt.key, ticket |-> pkt.ticket,
                      chal |-> issued + 1,
                      expires |-> Earlier(pkt.at + ChallengeTTL, pkt.ticket.expires)]
  <1>1. kept \subseteq pending /\ InForce(denied)' \subseteq InForce(denied)
    BY CleanSubset, CleanRulesFacts DEF Begin, TypeOK
  <1>2. verified' \subseteq verified
    BY CleanSubset DEF Begin
  <1>3. CASE pending' = kept
    BY <1>1, <1>2, <1>3, LimitsKept
  <1>4. CASE /\ pending' = Without(kept, k, pkt.key) \cup {new}
             /\ ~(Cardinality(OfKind(kept, k)) >= MaxPending)
    <2>1. new.kind = k /\ new.key = pkt.key
      OBVIOUS
    <2>. HIDE DEF new, kept
    <2>2. ASSUME NEW kind \in Kinds
          PROVE  /\ IsFiniteSet(OfKind(pending', kind))
                 /\ Cardinality(OfKind(pending', kind)) <= MaxPending
      <3>1. CASE kind = k
        <4>1. IsFiniteSet(OfKind(kept, k))
          <5>1. OfKind(kept, k) \in SUBSET OfKind(pending, k)
            BY <1>1 DEF OfKind
          <5>. QED
            BY <2>2, <3>1, <5>1, FS_Subset DEF LimitsInv
        <4>2. Cardinality(OfKind(kept, k)) < MaxPending
          BY <1>4, <4>1, LimitTypes, FS_CardinalityType
        <4>3. OfKind(pending', k) \in SUBSET (OfKind(kept, k) \cup {new})
          BY <1>4 DEF OfKind, Without
        <4>. QED
          BY <3>1, <4>1, <4>2, <4>3, LimitTypes, OneLarger
      <3>2. CASE kind # k
        <4>1. OfKind(pending', kind) \in SUBSET OfKind(pending, kind)
          BY <1>1, <1>4, <2>1, <3>2 DEF OfKind, Without
        <4>. QED
          BY <2>2, <4>1, LimitTypes, NoLarger DEF LimitsInv
      <3>. QED
        BY <3>1, <3>2
    <2>3. OnePerKey(pending')
      BY <1>1, <1>4, <2>1 DEF LimitsInv, OnePerKey, Without, Of
    <2>4. /\ IsFiniteSet(InForce(denied)') /\ Cardinality(InForce(denied)') <= MaxRules
          /\ OnePerKey(verified')
      BY <1>1, <1>2, LimitTypes, NoLarger DEF LimitsInv, OnePerKey
    <2>. QED
      BY <2>2, <2>3, <2>4 DEF LimitsInv
  <1>. QED
    BY <1>3, <1>4 DEF Begin

(* proof puts a verified flow in the place of its key's.                   *)
LEMMA ProofLimits ==
    ASSUME TypeOK, LimitsInv, Proof
    PROVE  LimitsInv'
  <1>. DEFINE k == pkt.kind
              kept == Clean(pending, k, pkt.at)
              good == {f \in Of(kept, k, pkt.key) :
                         f.chal = pkt.chal /\ ~Denied(f.ticket, CleanRules(k, pkt.at))}
              moved == {[f EXCEPT !.expires = f.ticket.expires] : f \in good}
              rest == Clean(verified, k, pkt.at)
  <1>1. /\ pending' \subseteq pending /\ InForce(denied)' \subseteq InForce(denied)
        /\ good \subseteq pending /\ rest \subseteq verified
    BY CleanSubset, WithoutSubset, CleanRulesFacts DEF Proof, TypeOK, Of
  <1>2. CASE verified' \subseteq verified
    BY <1>1, <1>2, LimitsKept
  <1>3. CASE verified' = Without(rest, k, pkt.key) \cup moved
    <2>1. ASSUME NEW f \in moved PROVE f.kind = k /\ f.key = pkt.key
      <3>1. PICK g \in good : f = [g EXCEPT !.expires = g.ticket.expires]
        OBVIOUS
      <3>2. g \in FlowType /\ g.kind = k /\ g.key = pkt.key
        BY <1>1 DEF TypeOK, Of
      <3>. QED
        BY <3>1, <3>2 DEF FlowType
    <2>2. ASSUME NEW f \in moved, NEW g \in moved PROVE f = g
      <3>1. PICK a \in good : f = [a EXCEPT !.expires = a.ticket.expires]
        OBVIOUS
      <3>2. PICK b \in good : g = [b EXCEPT !.expires = b.ticket.expires]
        OBVIOUS
      <3>3. a = b
        BY <1>1 DEF Of, LimitsInv, OnePerKey
      <3>. QED
        BY <3>1, <3>2, <3>3
    <2>3. OnePerKey(verified')
      <3>. HIDE DEF moved, rest
      <3>. QED
        BY <1>1, <1>3, <2>1, <2>2 DEF LimitsInv, OnePerKey, Without, Of
    <2>4. LimitsInv' \/ ~OnePerKey(verified')
      <3>1. ASSUME NEW kind \in Kinds
            PROVE  /\ IsFiniteSet(OfKind(pending', kind))
                   /\ Cardinality(OfKind(pending', kind)) <= MaxPending
        <4>1. OfKind(pending', kind) \in SUBSET OfKind(pending, kind)
          BY <1>1 DEF OfKind
        <4>. QED
          BY <4>1, LimitTypes, NoLarger DEF LimitsInv
      <3>2. /\ IsFiniteSet(InForce(denied)') /\ Cardinality(InForce(denied)') <= MaxRules
            /\ OnePerKey(pending')
        BY <1>1, LimitTypes, NoLarger DEF LimitsInv, OnePerKey
      <3>. QED
        BY <3>1, <3>2 DEF LimitsInv
    <2>. QED
      BY <2>3, <2>4
  <1>4. verified' = rest \/ verified' = Without(rest, k, pkt.key) \cup moved
    BY DEF Proof
  <1>. QED
    BY <1>1, <1>2, <1>3, <1>4

(* installRevocation adds a rule while the set has room.                   *)
LEMMA InstallLimits ==
    ASSUME TypeOK, LimitsInv, NEW rule \in Rules, NEW until \in Nat, Install(rule, until)
    PROVE  LimitsInv'
  <1>. DEFINE kept == CleanRules("service", now)
  <1>1. /\ pending' \subseteq pending /\ verified' \subseteq verified
        /\ kept \in [Rules -> Nat] /\ InForce(kept) \in SUBSET InForce(denied)
    BY CleanSubset, CleanRulesFacts DEF Install, Evicted, TypeOK
  <1>. HIDE DEF kept
  <1>2. CASE InForce(denied)' \subseteq InForce(denied)
    BY <1>1, <1>2, LimitsKept
  <1>3. CASE /\ denied' = [kept EXCEPT ![rule] = Later(@, until)]
             /\ Cardinality(InForce(kept)) < MaxRules
    <2>1. InForce(denied') \in SUBSET (InForce(kept) \cup {rule})
      BY <1>1, <1>3 DEF InForce
    <2>2. IsFiniteSet(InForce(kept))
      BY <1>1, FS_Subset DEF LimitsInv
    <2>3. IsFiniteSet(InForce(denied')) /\ Cardinality(InForce(denied')) <= MaxRules
      BY <1>3, <2>1, <2>2, LimitTypes, OneLarger
    <2>4. ASSUME NEW kind \in Kinds
          PROVE  /\ IsFiniteSet(OfKind(pending', kind))
                 /\ Cardinality(OfKind(pending', kind)) <= MaxPending
      <3>1. OfKind(pending', kind) \in SUBSET OfKind(pending, kind)
        BY <1>1 DEF OfKind
      <3>. QED
        BY <2>4, <3>1, LimitTypes, NoLarger DEF LimitsInv
    <2>5. OnePerKey(pending') /\ OnePerKey(verified')
      BY <1>1 DEF LimitsInv, OnePerKey
    <2>. QED
      BY <2>3, <2>4, <2>5 DEF LimitsInv, InForce
  <1>4. CASE denied' = [kept EXCEPT ![rule] = Later(@, until)] /\ rule \in InForce(kept)
    <2>1. InForce(denied') \subseteq InForce(denied)
      BY <1>1, <1>4 DEF InForce
    <2>. QED
      BY <1>2, <2>1 DEF InForce
  <1>5. CASE denied' = kept
    BY <1>1, <1>2, <1>5 DEF InForce
  <1>. QED
    BY <1>3, <1>4, <1>5 DEF Install, kept

LEMMA LimitsStep == TypeOK /\ LimitsInv /\ [Next]_vars => LimitsInv'
  <1>. SUFFICES ASSUME TypeOK, LimitsInv, [Next]_vars PROVE LimitsInv'
    OBVIOUS
  <1>1. CASE Take \/ JoinIdentity \/ JoinService
    <2>1. \E kind, taken : Cleanup(kind, taken)
      BY <1>1 DEF Take, JoinIdentity, JoinService
    <2>. QED
      BY <2>1, CleanupFacts, LimitsKept
  <1>2. CASE Attach
    <2>1. /\ pending' \subseteq pending /\ verified' \subseteq verified
          /\ denied' = denied \/ denied' = CleanRules("service", now)
      BY <1>2, CleanSubset DEF Attach
    <2>2. InForce(denied)' \subseteq InForce(denied)
      BY <2>1, CleanRulesFacts DEF TypeOK, InForce
    <2>. QED
      BY <2>1, <2>2, LimitsKept
  <1>3. CASE Packets \/ Upsert \/ Sweep \/ PeerRemoved \/ Tick \/ UNCHANGED vars
    <2>1. UNCHANGED <<pending, verified, denied>>
      BY <1>3 DEF Packets, Receive, Upsert, Sweep, PeerRemoved, Tick, vars
    <2>. QED
      BY <2>1, LimitsKept DEF InForce
  <1>4. ASSUME NEW rule \in Rules, NEW until \in 1 .. MaxTime + 1, Install(rule, until)
        PROVE  LimitsInv'
    <2>1. until \in Nat
      BY AdmissionFlowAssumption
    <2>. QED
      BY <1>4, <2>1, InstallLimits
  <1>. QED
    BY <1>1, <1>2, <1>3, <1>4, BeginLimits, ProofLimits DEF Next

LEMMA LimitsInit == Init => LimitsInv
  <1>. SUFFICES ASSUME Init PROVE LimitsInv
    OBVIOUS
  <1>1. /\ \A kind \in Kinds : OfKind(pending, kind) = {}
        /\ InForce(denied) = {} /\ pending = {} /\ verified = {}
    BY DEF Init, OfKind, InForce
  <1>. QED
    BY <1>1, FS_EmptySet, LimitTypes DEF LimitsInv, OnePerKey

(* No sequence of BEGINs, PROOFs and JOINs, under any interleaving with    *)
(* revocations and ends of membership, attaches the proof of one challenge *)
(* twice (takeVerifiedAdmission, admissionForJoin), or takes the pending   *)
(* flows or the deny rules past their limits (begin, installRevocation).   *)
THEOREM ProofsAlwaysSound == Spec => []ProofsSound
  <1>1. Init => UseInv
    BY AdmissionFlowAssumption
    DEF Init, UseInv, ProofUsedOnce, OnePlace, Numbered, Distinct, Apart
  <1>2. FlowInv /\ UseInv /\ [Next]_vars => UseInv'
    BY BeginUse, ProofUse, HandOutUse, AttachUse, OtherUse DEF Next, FlowInv
  <1>3. FlowInv /\ LimitsInv /\ [Next]_vars => LimitsInv'
    BY LimitsStep DEF FlowInv
  <1>4. FlowInv /\ LimitsInv /\ UseInv => ProofsSound
    BY DEF FlowInv, LimitsInv, UseInv, ProofsSound, WithinLimits, OnePerKey
  <1>. QED
    BY <1>1, <1>2, <1>3, <1>4, LimitsInit, FlowInvInit, FlowInvStep, PTL DEF Spec
=============================================================================
