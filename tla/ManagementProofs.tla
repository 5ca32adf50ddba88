-------------------------- MODULE ManagementProofs --------------------------
(***************************************************************************)
(* The event streams of the Management Plane are exact, for any number of  *)
(* publishing goroutines, streams, views and events and every policy; and  *)
(* the rules that issue a grant agree with those that accept it.           *)
(***************************************************************************)
EXTENDS Management, GrantPolicy, TLAPS

(* What is under way: the event a goroutine still offers is its own, and a *)
(* stream it still has to offer it to was subscribed before the event and  *)
(* has not been offered it.                                                *)
UnderWay ==
    \A f \in Feeders :
        /\ current[f] <= Len(events)
        /\ current[f] > 0 => events[current[f]].by = f
        /\ \A u \in targets[f] :
             /\ u \in subscribers \cup ended
             /\ current[f] > since[u]
             /\ current[f] \notin Offered(u)

(* Nothing is offered to a stream that has not subscribed.                 *)
Untouched ==
    \A u \in Streams :
        /\ since[u] <= Len(events)
        /\ u \notin subscribers \cup ended => Offered(u) = {}

StreamInv == MgmtTypeOK /\ UnderWay /\ Untouched /\ StreamExact

offerVars == <<targets, current, events, subscribers, since, stream, lost, ended>>

-----------------------------------------------------------------------------
(* What appending to a sequence of numbers changes.                        *)
LEMMA AppendFacts ==
    ASSUME NEW q \in Seq(Nat), NEW x \in Nat, NEW p, p = Append(q, x)
    PROVE  /\ DOMAIN q = 1 .. Len(q) /\ Len(q) \in Nat
           /\ DOMAIN p = 1 .. Len(q) + 1
           /\ p[Len(q) + 1] = x
           /\ \A i \in 1 .. Len(q) : p[i] = q[i]
OBVIOUS

(* A number that is not in a sequence without repetitions can be appended  *)
(* to it.                                                                  *)
LEMMA AppendDistinct ==
    ASSUME NEW q \in Seq(Nat), NEW x \in Nat, NEW p, p = Append(q, x),
           \A i \in DOMAIN q : q[i] # x,
           \A i, j \in DOMAIN q : q[i] = q[j] => i = j
    PROVE  \A i, j \in DOMAIN p : p[i] = p[j] => i = j
<1>1. /\ DOMAIN q = 1 .. Len(q) /\ Len(q) \in Nat
      /\ DOMAIN p = 1 .. Len(q) + 1
      /\ p[Len(q) + 1] = x
      /\ \A i \in 1 .. Len(q) : p[i] = q[i]
  BY AppendFacts
<1>2. \A i \in DOMAIN p : i \in DOMAIN q \/ i = Len(q) + 1
  BY <1>1
<1> QED
  BY <1>1, <1>2

(* Every step keeps the types and the bound of the queues.                 *)
LEMMA TypeStep == MgmtTypeOK /\ [MgmtNext]_mgmtVars => MgmtTypeOK'
<1> SUFFICES ASSUME MgmtTypeOK, [MgmtNext]_mgmtVars PROVE MgmtTypeOK'
  OBVIOUS
<1> USE ManagementAssumption DEF MgmtTypeOK, lockVars, feedVars, streamVars
<1>1. ASSUME NEW f \in Feeders, LockTables(f) PROVE MgmtTypeOK'
  BY <1>1 DEF LockTables
<1>2. ASSUME NEW f \in Feeders, Grant(f) PROVE MgmtTypeOK'
  <2>1. GrantRow[f].channel \in Int
    BY <1>2 DEF Grant
  <2>2. feeding' \in [Feeders -> [channel: Int, count: Nat]]
    BY <1>2, <2>1 DEF Grant
  <2>3. UNCHANGED <<lockVars, targets, current, events, streamVars, viewing>>
    BY <1>2 DEF Grant
  <2> QED
    BY <2>2, <2>3
<1>3. ASSUME NEW f \in Feeders, NEW feed \in Feeds, Changed(f, feed) PROVE MgmtTypeOK'
  <2>1. feed.channel \in Int /\ feed.count \in Nat
    OBVIOUS
  <2>2. feeding' \in [Feeders -> [channel: Int, count: Nat]] /\ serverMu' = Nobody
    BY <1>3, <2>1 DEF Changed
  <2>3. UNCHANGED <<planeMu, targets, current, events, streamVars, viewing>>
    BY <1>3 DEF Changed
  <2> QED
    BY <2>2, <2>3
<1>4. ASSUME NEW f \in Feeders, Number(f) PROVE MgmtTypeOK'
  <2>1. /\ feeding[f] \in [channel: Int, count: Nat] /\ feeding[f].count > 0
        /\ Len(events) + 1 \in Nat /\ subscribers \in SUBSET Streams
    BY <1>4 DEF Number
  <2>2. feeding' \in [Feeders -> [channel: Int, count: Nat]]
    <3>1. [channel |-> feeding[f].channel, count |-> feeding[f].count - 1] \in [channel: Int, count: Nat]
      BY <2>1
    <3> QED
      BY <1>4, <3>1 DEF Number
  <2>3. events' \in Seq([by: Feeders, channel: Int])
    <3>1. [by |-> f, channel |-> feeding[f].channel] \in [by: Feeders, channel: Int]
      BY <2>1
    <3> QED
      BY <1>4, <3>1 DEF Number
  <2>4. current' \in [Feeders -> Nat] /\ targets' \in [Feeders -> SUBSET Streams]
    BY <1>4, <2>1 DEF Number
  <2> QED
    BY <1>4, <2>2, <2>3, <2>4 DEF Number
<1>5. ASSUME NEW f \in Feeders, NEW u \in Streams, Offer(f, u) PROVE MgmtTypeOK'
  <2> DEFINE id == current[f]
  <2>1. /\ id \in Nat /\ stream[u] \in Seq(Nat) /\ lost[u] \in SUBSET Nat
        /\ Append(stream[u], id) \in Seq(Nat) /\ lost[u] \cup {id} \in SUBSET Nat
        /\ Len(Append(stream[u], id)) = Len(stream[u]) + 1
        /\ Len(stream[u]) \in Nat /\ taken[u] \in Nat /\ StreamDepth \in Nat
        /\ Len(stream[u]) - taken[u] \in 0 .. StreamDepth
    OBVIOUS
  <2>2. /\ \/ stream' = stream
           \/ /\ stream' = [stream EXCEPT ![u] = Append(stream[u], id)]
              /\ Len(stream[u]) - taken[u] < StreamDepth
        /\ lost' = lost \/ lost' = [lost EXCEPT ![u] = lost[u] \cup {id}]
        /\ taken' = taken
        /\ targets' \in [Feeders -> SUBSET Streams]
    BY <1>5 DEF Offer
  <2> HIDE DEF id
  <2>3. stream' \in [Streams -> Seq(Nat)] /\ lost' \in [Streams -> SUBSET Nat]
    <3>1. \A q \in Seq(Nat) : [stream EXCEPT ![u] = q] \in [Streams -> Seq(Nat)]
      OBVIOUS
    <3>2. \A q \in SUBSET Nat : [lost EXCEPT ![u] = q] \in [Streams -> SUBSET Nat]
      OBVIOUS
    <3>3. stream' \in [Streams -> Seq(Nat)]
      BY <2>1, <2>2, <3>1
    <3>4. lost' \in [Streams -> SUBSET Nat]
      BY <2>1, <2>2, <3>2
    <3> QED
      BY <3>3, <3>4
  <2>4. ASSUME NEW w \in Streams PROVE Len(stream'[w]) - taken'[w] \in 0 .. StreamDepth
    <3>1. CASE stream'[w] = stream[w]
      BY <2>2, <3>1
    <3>2. CASE stream'[w] # stream[w]
      <4>1. /\ w = u /\ stream'[u] = Append(stream[u], id)
            /\ Len(stream[u]) - taken[u] < StreamDepth
        BY <2>2, <3>2
      <4> HIDE DEF MgmtTypeOK
      <4> QED
        BY <2>1, <2>2, <4>1
    <3> QED
      BY <3>1, <3>2
  <2> QED
    BY <1>5, <2>2, <2>3, <2>4 DEF Offer
<1>6. ASSUME NEW u \in Streams, Subscribe(u) PROVE MgmtTypeOK'
  BY <1>6 DEF Subscribe
<1>7. ASSUME NEW u \in Streams, SendNext(u) PROVE MgmtTypeOK'
  <2>0. taken \in [Streams -> Nat] /\ taken' = [taken EXCEPT ![u] = taken[u] + 1]
    BY <1>7 DEF SendNext
  <2>1. taken' \in [Streams -> Nat]
    <3> HIDE DEF MgmtTypeOK
    <3> QED
      BY <2>0
  <2>2. ASSUME NEW w \in Streams PROVE Len(stream'[w]) - taken'[w] \in 0 .. StreamDepth
    <3>1. /\ stream' = stream /\ Len(stream[w]) \in Nat /\ taken[w] \in Nat
          /\ Len(stream[w]) - taken[w] \in 0 .. StreamDepth /\ StreamDepth \in Nat
      BY <1>7 DEF SendNext
    <3>2. CASE w = u
      <4>1. taken'[w] = taken[w] + 1 /\ taken[w] < Len(stream[w])
        BY <1>7, <3>2 DEF SendNext
      <4> HIDE DEF MgmtTypeOK
      <4> QED
        BY <3>1, <4>1
    <3>3. CASE w # u
      BY <1>7, <3>1, <3>3 DEF SendNext
    <3> QED
      BY <3>2, <3>3
  <2> QED
    BY <1>7, <2>1, <2>2 DEF SendNext
<1>8. ASSUME NEW u \in Streams, Unsubscribe(u) PROVE MgmtTypeOK'
  BY <1>8 DEF Unsubscribe
<1>9. ASSUME NEW v \in Viewers, LockPlane(v) PROVE MgmtTypeOK'
  BY <1>9 DEF LockPlane
<1>10. ASSUME NEW v \in Viewers, ReadTables(v) PROVE MgmtTypeOK'
  BY <1>10 DEF ReadTables
<1>11. ASSUME NEW v \in Viewers, Answer(v) PROVE MgmtTypeOK'
  BY <1>11 DEF Answer
<1>12. CASE UNCHANGED mgmtVars
  BY <1>12 DEF mgmtVars
<1> QED
  BY <1>1, <1>2, <1>3, <1>4, <1>5, <1>6, <1>7, <1>8, <1>9, <1>10, <1>11, <1>12 DEF MgmtNext

(* A step that leaves alone what is offered, and to whom, keeps the        *)
(* invariant.                                                              *)
LEMMA SameOffers ==
    ASSUME StreamInv, UNCHANGED offerVars
    PROVE  UnderWay' /\ Untouched' /\ StreamExact'
BY DEF StreamInv, offerVars, UnderWay, Untouched, StreamExact, Offered, InFlight, Allowed, MaySee

(* Numbering an event: it is new, and under way to every subscriber.       *)
LEMMA NumberStep ==
    ASSUME StreamInv, NEW f \in Feeders, Number(f)
    PROVE  UnderWay' /\ Untouched' /\ StreamExact'
<1> DEFINE id == Len(events) + 1
<1>1. /\ events' = Append(events, [by |-> f, channel |-> feeding[f].channel])
      /\ current' = [current EXCEPT ![f] = id]
      /\ targets' = [targets EXCEPT ![f] = subscribers]
      /\ targets[f] = {}
      /\ UNCHANGED streamVars
  BY DEF Number
<1>2. /\ events \in Seq([by: Feeders, channel: Int]) /\ events' \in Seq([by: Feeders, channel: Int])
      /\ Len(events) \in Nat
      /\ Len(events') = id
      /\ events'[id].by = f
      /\ \A k \in 1 .. Len(events) : events'[k] = events[k]
  BY <1>1 DEF StreamInv, MgmtTypeOK
<1>3. \A u \in Streams : Offered(u)' = Offered(u)
  BY <1>1 DEF Offered, streamVars
<1>4. \A u \in Streams : \A k \in Offered(u) : k \in since[u] + 1 .. Len(events) /\ since[u] \in Nat
  BY DEF StreamInv, StreamExact, MgmtTypeOK
<1>5. UnderWay'
  <2> SUFFICES ASSUME NEW g \in Feeders
               PROVE  /\ current'[g] <= Len(events')
                      /\ current'[g] > 0 => events'[current'[g]].by = g
                      /\ \A u \in targets'[g] :
                           /\ u \in subscribers' \cup ended'
                           /\ current'[g] > since'[u]
                           /\ current'[g] \notin Offered(u)'
    BY DEF UnderWay
  <2>1. CASE g = f
    <3>1. current'[g] = id /\ targets'[g] = subscribers
      BY <1>1, <2>1 DEF StreamInv, MgmtTypeOK
    <3>2. \A u \in subscribers : u \in Streams /\ since[u] \in Nat /\ since[u] <= Len(events)
      BY DEF StreamInv, MgmtTypeOK, Untouched
    <3>3. \A u \in subscribers : id > since[u]
      BY <1>2, <3>2
    <3>4. \A u \in subscribers : id \notin Offered(u)'
      BY <1>2, <1>3, <1>4, <3>2
    <3>5. id <= Len(events')
      BY <1>2
    <3> QED
      BY <1>1, <1>2, <2>1, <3>1, <3>3, <3>4, <3>5 DEF streamVars
  <2>2. CASE g # f
    <3>1. current'[g] = current[g] /\ targets'[g] = targets[g] /\ current[g] \in Nat
      BY <1>1, <2>2 DEF StreamInv, MgmtTypeOK
    <3>2. \A u \in targets[g] : u \in Streams
      BY DEF StreamInv, MgmtTypeOK
    <3> QED
      BY <1>1, <1>2, <1>3, <3>1, <3>2 DEF StreamInv, UnderWay, streamVars
  <2> QED
    BY <2>1, <2>2
<1>6. Untouched'
  BY <1>1, <1>2, <1>3 DEF StreamInv, Untouched, MgmtTypeOK, streamVars
<1>7. StreamExact'
  <2> SUFFICES ASSUME NEW u \in Streams
               PROVE  /\ \A i, j \in DOMAIN stream[u] : stream[u][i] = stream[u][j] => i = j
                      /\ \A i \in DOMAIN stream[u] : stream[u][i] \notin lost[u]
                      /\ \A k \in Offered(u) :
                           k \in since[u] + 1 .. id /\ Allowed(u, events'[k])
                      /\ u \in subscribers =>
                           \A k \in since[u] + 1 .. id :
                               Allowed(u, events'[k]) => k \in Offered(u) \cup InFlight(u)'
    BY <1>1, <1>2, <1>3 DEF StreamExact, streamVars
  <2>1. since[u] \in Nat
    BY DEF StreamInv, MgmtTypeOK
  <2>2. \A k \in Offered(u) : k \in since[u] + 1 .. id /\ Allowed(u, events'[k])
    BY <1>2, <1>4, <2>1 DEF StreamInv, StreamExact
  <2>3. InFlight(u) \subseteq InFlight(u)'
    BY <1>1 DEF InFlight, StreamInv, MgmtTypeOK
  <2>4. u \in subscribers => id \in InFlight(u)'
    BY <1>1 DEF InFlight, StreamInv, MgmtTypeOK
  <2>5. ASSUME u \in subscribers, NEW k \in since[u] + 1 .. id, Allowed(u, events'[k])
        PROVE  k \in Offered(u) \cup InFlight(u)'
    <3>1. CASE k = id
      BY <2>4, <2>5, <3>1
    <3>2. CASE k # id
      <4>1. k \in since[u] + 1 .. Len(events) /\ k \in 1 .. Len(events)
        BY <1>2, <2>1, <2>5, <3>2
      <4>2. Allowed(u, events[k])
        BY <1>2, <2>5, <4>1
      <4> QED
        BY <2>3, <2>5, <4>1, <4>2 DEF StreamInv, StreamExact
    <3> QED
      BY <3>1, <3>2
  <2> QED
    BY <2>2, <2>5 DEF StreamInv, StreamExact
<1> QED
  BY <1>5, <1>6, <1>7

(* Offering an event: it leaves what is under way and joins what the       *)
(* stream was offered, unless its service may not see it.                  *)
LEMMA OfferStep ==
    ASSUME StreamInv, NEW f \in Feeders, NEW u \in Streams, Offer(f, u)
    PROVE  UnderWay' /\ Untouched' /\ StreamExact'
<1> DEFINE id == current[f]
<1> DEFINE may == Allowed(u, events[id])
<1>1. /\ u \in targets[f]
      /\ targets' = [targets EXCEPT ![f] = @ \ {u}]
      /\ UNCHANGED <<current, events, subscribers, since, ended>>
  BY DEF Offer
<1>2. /\ id \in Nat /\ since[u] \in Nat /\ Len(events) \in Nat
      /\ id > since[u] /\ id <= Len(events) /\ id > 0
      /\ events[id].by = f
      /\ id \notin Offered(u)
      /\ u \in subscribers \cup ended
  <2>1. id \in Nat /\ since[u] \in Nat /\ Len(events) \in Nat
    BY DEF StreamInv, MgmtTypeOK
  <2>2. /\ id <= Len(events)
        /\ id > 0 => events[id].by = f
        /\ id > since[u] /\ id \notin Offered(u) /\ u \in subscribers \cup ended
    BY <1>1 DEF StreamInv, UnderWay
  <2> QED
    BY <2>1, <2>2
<1>3. /\ stream[u] \in Seq(Nat)
      /\ stream' \in [Streams -> Seq(Nat)] /\ lost' \in [Streams -> SUBSET Nat]
      /\ \A w \in Streams : w # u => stream'[w] = stream[w] /\ lost'[w] = lost[w]
  BY DEF Offer, StreamInv, MgmtTypeOK
<1>4. \/ may /\ stream'[u] = Append(stream[u], id) /\ lost'[u] = lost[u]
      \/ may /\ stream'[u] = stream[u] /\ lost'[u] = lost[u] \cup {id}
      \/ ~may /\ stream'[u] = stream[u] /\ lost'[u] = lost[u]
  BY DEF Offer, StreamInv, MgmtTypeOK
<1>5. /\ DOMAIN stream[u] = 1 .. Len(stream[u]) /\ Len(stream[u]) \in Nat
       /\ stream'[u] = Append(stream[u], id) =>
            /\ DOMAIN stream'[u] = 1 .. Len(stream[u]) + 1
            /\ stream'[u][Len(stream[u]) + 1] = id
            /\ \A i \in 1 .. Len(stream[u]) : stream'[u][i] = stream[u][i]
  <2>1. DOMAIN stream[u] = 1 .. Len(stream[u]) /\ Len(stream[u]) \in Nat
    BY <1>3
  <2>2. ASSUME NEW k \in Nat, NEW p, p = Append(stream[u], k)
        PROVE  /\ DOMAIN p = 1 .. Len(stream[u]) + 1
               /\ p[Len(stream[u]) + 1] = k
               /\ \A i \in 1 .. Len(stream[u]) : p[i] = stream[u][i]
    BY <1>3, <2>2, AppendFacts
  <2> HIDE DEF id, may
  <2>3. ASSUME stream'[u] = Append(stream[u], id)
        PROVE  /\ DOMAIN stream'[u] = 1 .. Len(stream[u]) + 1
               /\ stream'[u][Len(stream[u]) + 1] = id
               /\ \A i \in 1 .. Len(stream[u]) : stream'[u][i] = stream[u][i]
    <3>1. id \in Nat
      BY <1>2
    <3> QED
      BY <2>2, <2>3, <3>1
  <2> QED
    BY <2>1, <2>3
<1>6. \A w \in Streams : w # u => Offered(w)' = Offered(w)
  BY <1>3 DEF Offered
<1>7. Offered(u)' = IF may THEN Offered(u) \cup {id} ELSE Offered(u)
  <2>1. CASE stream'[u] = Append(stream[u], id) /\ lost'[u] = lost[u] /\ may
    <3>1. {stream'[u][i] : i \in DOMAIN stream'[u]} = {stream[u][i] : i \in DOMAIN stream[u]} \cup {id}
      <4>1. \A i \in DOMAIN stream'[u] : i \in DOMAIN stream[u] \/ i = Len(stream[u]) + 1
        BY <1>5, <2>1
      <4>2. DOMAIN stream[u] \subseteq DOMAIN stream'[u] /\ Len(stream[u]) + 1 \in DOMAIN stream'[u]
        BY <1>5, <2>1
      <4> QED
        BY <1>5, <2>1, <4>1, <4>2
    <3> QED
      BY <2>1, <3>1 DEF Offered
  <2> QED
    BY <1>4, <2>1 DEF Offered
<1>8. \A g \in Feeders : targets'[g] = IF g = f THEN targets[f] \ {u} ELSE targets[g]
  BY <1>1 DEF StreamInv, MgmtTypeOK
<1>9. UnderWay'
  <2> SUFFICES ASSUME NEW g \in Feeders, NEW w \in targets'[g]
               PROVE  current[g] \notin Offered(w)'
    BY <1>1, <1>8 DEF StreamInv, UnderWay
  <2>1. w \in targets[g] /\ w \in Streams /\ (g = f => w # u)
    BY <1>8 DEF StreamInv, MgmtTypeOK
  <2>2. current[g] \notin Offered(w)
    BY <2>1 DEF StreamInv, UnderWay
  <2>3. CASE w # u
    BY <1>6, <2>1, <2>2, <2>3
  <2>4. CASE w = u
    <3>1. g # f
      BY <2>1, <2>4
    <3>2. current[g] # id
      BY <1>2, <3>1 DEF StreamInv, UnderWay
    <3> QED
      BY <1>7, <2>2, <2>4, <3>2
  <2> QED
    BY <2>3, <2>4
<1>10. Untouched'
  BY <1>1, <1>2, <1>6 DEF StreamInv, Untouched
<1>11. StreamExact'
  <2> SUFFICES ASSUME NEW w \in Streams
               PROVE  /\ \A i, j \in DOMAIN stream'[w] : stream'[w][i] = stream'[w][j] => i = j
                      /\ \A i \in DOMAIN stream'[w] : stream'[w][i] \notin lost'[w]
                      /\ \A k \in Offered(w)' :
                           k \in since[w] + 1 .. Len(events) /\ Allowed(w, events[k])
                      /\ w \in subscribers =>
                           \A k \in since[w] + 1 .. Len(events) :
                               Allowed(w, events[k]) => k \in Offered(w)' \cup InFlight(w)'
    BY <1>1 DEF StreamExact, Allowed, MaySee
  <2>1. \A k \in InFlight(w) : k \in InFlight(w)' \/ (w = u /\ k = id)
    BY <1>1, <1>8 DEF InFlight
  <2>2. CASE w # u
    BY <1>3, <1>6, <2>1, <2>2 DEF StreamInv, StreamExact
  <2>3. CASE w = u
    <3>1. \A i \in DOMAIN stream[u] : stream[u][i] # id
      BY <1>2 DEF Offered
    <3>2. id \notin lost[u]
      BY <1>2 DEF Offered
    <3>3. /\ \A i, j \in DOMAIN stream[u] : stream[u][i] = stream[u][j] => i = j
          /\ \A i \in DOMAIN stream[u] : stream[u][i] \notin lost[u]
          /\ \A k \in Offered(u) : k \in since[u] + 1 .. Len(events) /\ Allowed(u, events[k])
          /\ u \in subscribers =>
               \A k \in since[u] + 1 .. Len(events) :
                   Allowed(u, events[k]) => k \in Offered(u) \cup InFlight(u)
      BY DEF StreamInv, StreamExact
    <3>4. \A i, j \in DOMAIN stream'[u] : stream'[u][i] = stream'[u][j] => i = j
      <4> HIDE DEF id, may
      <4>1. CASE stream'[u] = Append(stream[u], id)
        BY <1>2, <1>3, <3>1, <3>3, <4>1, AppendDistinct
      <4> QED
        BY <1>4, <3>3, <4>1
    <3>5. \A i \in DOMAIN stream'[u] : stream'[u][i] \notin lost'[u]
      BY <1>4, <1>5, <3>1, <3>2, <3>3
    <3>6. \A k \in Offered(u)' : k \in since[u] + 1 .. Len(events) /\ Allowed(u, events[k])
      BY <1>2, <1>7, <3>3
    <3>7. u \in subscribers =>
             \A k \in since[u] + 1 .. Len(events) :
                 Allowed(u, events[k]) => k \in Offered(u)' \cup InFlight(u)'
      BY <1>7, <2>1, <2>3, <3>3
    <3> QED
      BY <2>3, <3>4, <3>5, <3>6, <3>7
  <2> QED
    BY <2>2, <2>3
<1> QED
  BY <1>9, <1>10, <1>11

(* A stream that subscribes has been offered nothing, and no event is      *)
(* under way to it.                                                        *)
LEMMA SubscribeStep ==
    ASSUME StreamInv, NEW u \in Streams, Subscribe(u)
    PROVE  UnderWay' /\ Untouched' /\ StreamExact'
<1>1. /\ u \notin subscribers \cup ended
      /\ subscribers' = subscribers \cup {u}
      /\ UNCHANGED <<targets, current, events, stream, lost, ended>>
      /\ since'[u] = Len(events)
      /\ \A w \in Streams : w # u => since'[w] = since[w]
  BY DEF Subscribe, feedVars, StreamInv, MgmtTypeOK
<1>2. \A w \in Streams : Offered(w)' = Offered(w) /\ InFlight(w)' = InFlight(w)
  BY <1>1 DEF Offered, InFlight
<1>3. Offered(u) = {} /\ Len(events) \in Nat
  BY <1>1 DEF StreamInv, Untouched, MgmtTypeOK
<1>4. UnderWay'
  <2> SUFFICES ASSUME NEW g \in Feeders, NEW w \in targets[g]
               PROVE  /\ w \in subscribers' \cup ended'
                      /\ current[g] > since'[w]
                      /\ current[g] \notin Offered(w)'
    BY <1>1 DEF StreamInv, UnderWay
  <2>1. w \in Streams /\ w # u
    BY <1>1 DEF StreamInv, UnderWay, MgmtTypeOK
  <2> QED
    BY <1>1, <1>2, <2>1 DEF StreamInv, UnderWay
<1>5. Untouched'
  BY <1>1, <1>2, <1>3 DEF StreamInv, Untouched
<1>6. StreamExact'
  <2> SUFFICES ASSUME NEW w \in Streams
               PROVE  /\ \A i, j \in DOMAIN stream[w] : stream[w][i] = stream[w][j] => i = j
                      /\ \A i \in DOMAIN stream[w] : stream[w][i] \notin lost[w]
                      /\ \A k \in Offered(w) :
                           k \in since'[w] + 1 .. Len(events) /\ Allowed(w, events[k])
                      /\ w \in subscribers' =>
                           \A k \in since'[w] + 1 .. Len(events) :
                               Allowed(w, events[k]) => k \in Offered(w) \cup InFlight(w)
    BY <1>1, <1>2 DEF StreamExact, Allowed, MaySee
  <2>1. CASE w = u
    BY <1>1, <1>3, <2>1 DEF StreamInv, StreamExact
  <2>2. CASE w # u
    BY <1>1, <2>2 DEF StreamInv, StreamExact
  <2> QED
    BY <2>1, <2>2
<1> QED
  BY <1>4, <1>5, <1>6

(* A stream that ends promises no more events.                             *)
LEMMA UnsubscribeStep ==
    ASSUME StreamInv, NEW u \in Streams, Unsubscribe(u)
    PROVE  UnderWay' /\ Untouched' /\ StreamExact'
<1>1. /\ subscribers' = subscribers \ {u}
      /\ subscribers' \cup ended' = subscribers \cup ended
      /\ UNCHANGED <<targets, current, events, stream, lost, since>>
  BY DEF Unsubscribe, feedVars
<1>2. \A w \in Streams : Offered(w)' = Offered(w) /\ InFlight(w)' = InFlight(w)
  BY <1>1 DEF Offered, InFlight
<1>3. UnderWay'
  BY <1>1, <1>2 DEF StreamInv, UnderWay, MgmtTypeOK
<1>4. Untouched'
  BY <1>1, <1>2 DEF StreamInv, Untouched
<1>5. StreamExact'
  BY <1>1, <1>2 DEF StreamInv, StreamExact, Allowed, MaySee
<1> QED
  BY <1>3, <1>4, <1>5

(* The invariant is inductive.                                             *)
LEMMA StreamInvStep == StreamInv /\ [MgmtNext]_mgmtVars => StreamInv'
<1> SUFFICES ASSUME StreamInv, [MgmtNext]_mgmtVars PROVE StreamInv'
  OBVIOUS
<1>1. MgmtTypeOK'
  BY TypeStep DEF StreamInv
<1>2. CASE UNCHANGED offerVars
  BY <1>1, <1>2, SameOffers DEF StreamInv
<1>3. ASSUME NEW f \in Feeders, Number(f) PROVE StreamInv'
  BY <1>1, <1>3, NumberStep DEF StreamInv
<1>4. ASSUME NEW f \in Feeders, NEW u \in Streams, Offer(f, u) PROVE StreamInv'
  BY <1>1, <1>4, OfferStep DEF StreamInv
<1>5. ASSUME NEW u \in Streams, Subscribe(u) PROVE StreamInv'
  BY <1>1, <1>5, SubscribeStep DEF StreamInv
<1>6. ASSUME NEW u \in Streams, Unsubscribe(u) PROVE StreamInv'
  BY <1>1, <1>6, UnsubscribeStep DEF StreamInv
<1>7. ASSUME NEW f \in Feeders, LockTables(f) \/ Grant(f) \/ \E feed \in Feeds : Changed(f, feed)
      PROVE  UNCHANGED offerVars
  BY <1>7 DEF LockTables, Grant, Changed, offerVars, feedVars, streamVars
<1>8. ASSUME NEW u \in Streams, SendNext(u) PROVE UNCHANGED offerVars
  BY <1>8 DEF SendNext, offerVars, feedVars
<1>9. ASSUME NEW v \in Viewers, LockPlane(v) \/ ReadTables(v) \/ Answer(v)
      PROVE  UNCHANGED offerVars
  BY <1>9 DEF LockPlane, ReadTables, Answer, offerVars, feedVars, streamVars
<1>10. CASE UNCHANGED mgmtVars
  BY <1>2, <1>10 DEF mgmtVars, offerVars, feedVars, streamVars
<1> QED
  BY <1>2, <1>3, <1>4, <1>5, <1>6, <1>7, <1>8, <1>9, <1>10 DEF MgmtNext

(* The invariant holds when the plane starts.                              *)
LEMMA StreamInvInit == MgmtInit => StreamInv
<1> SUFFICES ASSUME MgmtInit PROVE StreamInv
  OBVIOUS
<1>1. MgmtTypeOK
  BY ManagementAssumption DEF MgmtInit, MgmtTypeOK, NoChannel
<1>2. \A u \in Streams : Offered(u) = {}
  BY DEF MgmtInit, Offered
<1>3. UnderWay /\ Untouched
  BY <1>2 DEF MgmtInit, UnderWay, Untouched
<1>4. StreamExact
  BY <1>2 DEF MgmtInit, StreamExact
<1> QED
  BY <1>1, <1>3, <1>4 DEF StreamInv

(* The tables of the plane keep their types and the queue of a stream its  *)
(* bound (publishEvent, handleEvents).                                     *)
THEOREM ManagementTypes == MgmtSpec => []MgmtTypeOK
<1>1. StreamInv => MgmtTypeOK
  BY DEF StreamInv
<1> QED
  BY <1>1, StreamInvInit, StreamInvStep, PTL DEF MgmtSpec

(* A subscriber gets exactly the events published from its subscription on *)
(* that its service may see, each once, but for those its full queue lost  *)
(* (publishEvent, handleEvents, eventAllowed).                             *)
THEOREM StreamsExact == MgmtSpec => []StreamExact
<1>1. StreamInv => StreamExact
  BY DEF StreamInv
<1> QED
  BY <1>1, StreamInvInit, StreamInvStep, PTL DEF MgmtSpec

-----------------------------------------------------------------------------
(* The permission bits of a request under a row that covers it.            *)
LEMMA BitsFacts ==
    ASSUME NEW request \in Requests, request.interrupt => request.talk
    PROVE  LET bits == Bits(request.talk, request.interrupt)
           IN /\ bits \in {1, 3, 7}
              /\ bits = 7 <=> request.interrupt
              /\ bits > 1 <=> request.talk
<1>1. CASE request.interrupt
  BY <1>1 DEF Bits
<1>2. CASE ~request.interrupt /\ request.talk
  BY <1>2 DEF Bits
<1>3. CASE ~request.interrupt /\ ~request.talk
  BY <1>3 DEF Bits
<1> QED
  BY <1>1, <1>2, <1>3

(* A request by a row that the policy accepts is honoured.                 *)
LEMMA RulesAgree ==
    ASSUME NEW apiRole \in ApiRoles, NEW row \in Rows, RowAccepted(row),
           NEW request \in Requests
    PROVE  Honoured(apiRole, row, request)
<1> DEFINE claims == Claims(row, request)
<1>1. row.priority \in 0 .. 255 /\ request.role \in AdmissionRoles
  BY GrantIssueAssumption DEF Rows, Requests
<1>2. ASSUME Authorized(apiRole, row, request)
      PROVE  /\ \A delay \in Delays :
                  Validated(claims, delay) <=> delay < managementGrantLifetime
             /\ claims.permissions > 1 => row.talk
             /\ claims.permissions = 7 => row.interrupt /\ claims.priority = row.priority
             /\ claims.priority # NoPriority => claims.permissions = 7
  <2>1. request.interrupt => request.talk /\ row.interrupt
    BY <1>2 DEF Authorized
  <2>2. request.talk => row.talk
    BY <1>2 DEF Authorized
  <2>3. /\ claims.permissions \in {1, 3, 7}
        /\ claims.permissions = 7 <=> request.interrupt
        /\ claims.permissions > 1 <=> request.talk
    BY <2>1, BitsFacts DEF Claims
  <2>4. claims.priority = IF request.interrupt THEN row.priority ELSE NoPriority
    BY DEF Claims
  <2>5. row.interrupt => row.priority > 0
    BY <1>1 DEF RowAccepted
  <2>6. claims.role \in ReceiveOnly => claims.permissions = 1
    BY <1>2 DEF Authorized, Claims
  <2>7. claims.lifetime = managementGrantLifetime /\ claims.role \in AdmissionRoles
    BY <1>1 DEF Claims
  <2> HIDE DEF claims
  <2>8. ASSUME NEW delay \in Delays
        PROVE  Validated(claims, delay) <=> delay < managementGrantLifetime
    BY <1>1, <2>1, <2>3, <2>4, <2>5, <2>6, <2>7
    DEF Validated, NoPriority, managementGrantLifetime,
        minimumServiceGrantLifetime, maximumServiceGrantLifetime
  <2> QED
    BY <1>1, <2>1, <2>2, <2>3, <2>4, <2>8 DEF NoPriority
<1>3. ASSUME row.enabled, row.role = request.role,
             apiRole = "operator" \/ (apiRole = "recorder" /\ row.role = "recorder"),
             request.talk => row.talk,
             request.interrupt => request.talk /\ row.interrupt
      PROVE  Authorized(apiRole, row, request)
  <2>1. request.role \in ReceiveOnly => ~request.talk /\ ~request.interrupt
    BY <1>3 DEF RowAccepted
  <2>2. request.role \in ReceiveOnly => Bits(request.talk, request.interrupt) = 1
    BY <2>1 DEF Bits
  <2> QED
    BY <1>3, <2>2 DEF Authorized
<1> HIDE DEF claims
<1> QED
  BY <1>2, <1>3 DEF Honoured, claims

(* Whatever rows the policy holds and whatever a service asks for, at any  *)
(* moment: what issueGrant signs is what validateGrant accepts until the   *)
(* grant expires, it gives no more than the row, and a request that the    *)
(* row covers is not refused.                                              *)
THEOREM GrantsAlwaysHonoured == GrantSpec => []GrantHonoured
<1>1. posed \in Posed => GrantHonoured
  BY RulesAgree DEF Posed, GrantHonoured
<1>2. posed \in Posed /\ [UNCHANGED posed]_posed => (posed \in Posed)'
  OBVIOUS
<1> QED
  BY <1>1, <1>2, PTL DEF GrantSpec, GrantInit
=============================================================================
