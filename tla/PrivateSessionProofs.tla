------------------------ MODULE PrivateSessionProofs ------------------------
(***************************************************************************)
(* Proofs about PrivateSession, for every number of connections and        *)
(* publishers, every queue depth and every sequence of changes.            *)
(*                                                                         *)
(* The first part is about SnapshotChunks: whatever the table, its chunks  *)
(* are the table. The proof goes by induction over the participants, along *)
(* the loop that packs them.                                               *)
(*                                                                         *)
(* The last part is about RelayDiagnostics, whose counters a session reads *)
(* for every maximum of the counters.                                      *)
(***************************************************************************)
EXTENDS PrivateSession, SnapshotCuts, RelayDiagnostics, InductionLemmas

(* Every participant has a place of its own in the order, and every place  *)
(* a participant.                                                          *)
LEMMA NamedFinite ==
    ASSUME NEW t \in Tables
    PROVE  IsFiniteSet(Named(t)) /\ Cardinality(Named(t)) \in Nat
<1> DEFINE S == Named(t)
           T == Channels \X Addrs
           f == [r \in S |-> <<r[1], r[3]>>]
<1>1. IsFiniteSet(T)
  BY SnapshotChunksAssumption, FS_Product
<1>2. ASSUME NEW r \in S
      PROVE  /\ r = <<r[1], r[2], r[3]>> /\ r[1] \in Channels /\ r[3] \in Addrs
             /\ t[r[1]].peers[r[3]] = r[2]
  BY DEF Named
<1>3. f \in [S -> T]
  BY <1>2
<1>4. ASSUME NEW r \in S, NEW q \in S, f[r] = f[q] PROVE r = q
  <2>1. r[1] = q[1] /\ r[3] = q[3]
    BY <1>4
  <2>2. r[2] = q[2]
    BY <1>2, <2>1
  <2> QED BY <1>2, <2>1, <2>2
<1>5. f \in Injection(S, T)
  <2> HIDE DEF S, T, f
  <2> QED BY <1>3, <1>4 DEF Injection, IsInjective
<1>6. IsFiniteSet(S)
  <2> HIDE DEF S, T, f
  <2> QED BY <1>1, <1>5, FS_Injection
<1> QED BY <1>6, FS_CardinalityType

LEMMA NamedEntry ==
    ASSUME NEW t \in Tables, NEW r \in Named(t)
    PROVE  /\ r = <<r[1], r[2], r[3]>> /\ r[1] \in Channels /\ r[2] \in Senders /\ r[3] \in Addrs
           /\ r[1] \in Nat /\ r[2] \in Nat /\ r[3] \in Nat
           /\ t[r[1]].peers[r[3]] = r[2] /\ StateOf(t, r[1], r[2]) \in States
<1>1. r \in Channels \X Senders \X Addrs /\ t[r[1]].peers[r[3]] = r[2]
  BY DEF Named
<1>2. r = <<r[1], r[2], r[3]>> /\ r[1] \in Channels /\ r[2] \in Senders /\ r[3] \in Addrs
  BY <1>1
<1> QED BY <1>1, <1>2, SnapshotChunksAssumption DEF StateOf, States

LEMMA PlaceFacts ==
    ASSUME NEW t \in Tables, NEW p \in Named(t), NEW q \in Named(t), UpTo(p, q), p # q
    PROVE  Place(p, Named(t)) < Place(q, Named(t))
<1> DEFINE A == {r \in Named(t) : UpTo(r, p)}
           B == {r \in Named(t) : UpTo(r, q)}
<1>1. \A r \in Named(t) : r = <<r[1], r[2], r[3]>> /\ r[1] \in Nat /\ r[2] \in Nat /\ r[3] \in Nat
  BY NamedEntry
<1>2. A \subseteq B /\ q \in B /\ q \notin A
  BY <1>1 DEF UpTo
<1>3. IsFiniteSet(B)
  BY NamedFinite, FS_Subset
<1>4. /\ IsFiniteSet(A) /\ Cardinality(A) <= Cardinality(B)
      /\ Cardinality(A) = Cardinality(B) => A = B
  <2> HIDE DEF A, B
  <2> QED BY <1>2, <1>3, FS_Subset
<1>5. Cardinality(A) \in Nat /\ Cardinality(B) \in Nat
  <2> HIDE DEF A, B
  <2> QED BY <1>3, <1>4, FS_CardinalityType
<1>6. Cardinality(A) < Cardinality(B)
  <2> HIDE DEF A, B
  <2> QED BY <1>2, <1>4, <1>5
<1> QED BY <1>6 DEF Place

LEMMA PlacesTaken ==
    ASSUME NEW t \in Tables
    PROVE  /\ \A p \in Named(t) : Place(p, Named(t)) \in 1 .. Cardinality(Named(t))
           /\ \A i \in 1 .. Cardinality(Named(t)) : \E p \in Named(t) : Place(p, Named(t)) = i
           /\ \A p, q \in Named(t) : Place(p, Named(t)) = Place(q, Named(t)) => p = q
<1> DEFINE S == Named(t)
           n == Cardinality(S)
           f == [p \in S |-> Place(p, S)]
<1>1. IsFiniteSet(S) /\ n \in Nat
  BY NamedFinite
<1>2. ASSUME NEW p \in S PROVE Place(p, S) \in 1 .. n
  <2> DEFINE A == {r \in S : UpTo(r, p)}
  <2>1. p \in A
    BY NamedEntry DEF UpTo
  <2>2. A \in SUBSET S
    OBVIOUS
  <2> HIDE DEF A, S
  <2>3. IsFiniteSet(A) /\ Cardinality(A) <= n
    BY <1>1, <2>2, FS_Subset
  <2>4. Cardinality(A) \in Nat /\ Cardinality(A) # 0
    BY <2>1, <2>3, FS_CardinalityType, FS_EmptySet
  <2> QED BY <1>1, <2>3, <2>4 DEF Place, A
<1>3. ASSUME NEW p \in S, NEW q \in S, Place(p, S) = Place(q, S) PROVE p = q
  <2>1. UpTo(p, q) \/ UpTo(q, p)
    BY NamedEntry DEF UpTo
  <2>2. Place(p, S) \in Int /\ Place(q, S) \in Int
    BY <1>2
  <2> QED BY <1>3, <2>1, <2>2, PlaceFacts
<1>4. f \in Injection(S, 1 .. n)
  <2> HIDE DEF S
  <2> QED BY <1>2, <1>3 DEF Injection, IsInjective
<1>5. IsFiniteSet(1 .. n) /\ Cardinality(1 .. n) = n
  <2> HIDE DEF n
  <2>1. 1 \in Int /\ n \in Int
    BY <1>1
  <2> QED BY <1>1, <2>1, FS_Interval
<1>6. f \in Surjection(S, 1 .. n)
  <2> HIDE DEF f, S
  <2> QED BY <1>4, <1>5, FS_Injection
<1>7. \A i \in 1 .. n : \E p \in S : Place(p, S) = i
  <2> HIDE DEF S
  <2> QED BY <1>6 DEF Surjection
<1> QED BY <1>2, <1>3, <1>7

(* The i-th in the order is the entry who[i], and every entry is one.      *)
Enumerates(who, order, t) ==
    /\ who \in [1 .. Len(order) -> Named(t)]
    /\ \A i \in 1 .. Len(order) :
         /\ order[i].channel = who[i][1] /\ order[i].sender = who[i][2]
         /\ order[i].state = StateOf(t, who[i][1], who[i][2])
    /\ \A p \in Named(t) : \E i \in 1 .. Len(order) : who[i] = p
    /\ \A i, j \in 1 .. Len(order) : who[i] = who[j] => i = j

(* What Participants is: all entries of the table, each once, in the order *)
(* of their channels.                                                      *)
LEMMA OrderFacts ==
    ASSUME NEW t \in Tables, NEW order, order = Participants(t)
    PROVE  /\ order \in Seq([channel: Channels, sender: Senders, state: States])
           /\ Len(order) = Cardinality(Named(t)) /\ Len(order) \in Nat
           /\ \E who : Enumerates(who, order, t)
           /\ \A i, j \in 1 .. Len(order) : i < j => order[i].channel <= order[j].channel
<1> DEFINE S == Named(t)
           n == Cardinality(S)
           Who(i) == CHOOSE p \in S : Place(p, S) = i
<1>1. n \in Nat
  BY NamedFinite
<1>2. ASSUME NEW i \in 1 .. n PROVE Who(i) \in S /\ Place(Who(i), S) = i
  BY PlacesTaken
<1>3. order = [i \in 1 .. n |-> [channel |-> Who(i)[1], sender |-> Who(i)[2],
                                 state |-> StateOf(t, Who(i)[1], Who(i)[2])]]
  BY DEF Participants
<1> HIDE DEF Who
<1>4. ASSUME NEW p \in S
      PROVE  p[1] \in Channels /\ p[2] \in Senders /\ StateOf(t, p[1], p[2]) \in States
  BY NamedEntry
<1>5. \A i \in 1 .. n : order[i] \in [channel: Channels, sender: Senders, state: States]
  BY <1>2, <1>3, <1>4
<1>6. order \in Seq([channel: Channels, sender: Senders, state: States]) /\ Len(order) = n
  <2> DEFINE R == [channel: Channels, sender: Senders, state: States]
  <2>1. order \in [1 .. n -> R]
    BY <1>3, <1>5
  <2>2. order \in Seq(R) /\ Len(order) = n
    <3> HIDE DEF R, n
    <3> QED BY <1>1, <2>1
  <2> QED BY <2>2
<1>7. ASSUME NEW i \in 1 .. n
      PROVE  /\ order[i].channel = Who(i)[1] /\ order[i].sender = Who(i)[2]
             /\ order[i].state = StateOf(t, Who(i)[1], Who(i)[2])
  BY <1>3
<1>8. ASSUME NEW p \in S PROVE \E i \in 1 .. n : Who(i) = p
  <2>1. PICK i : i = Place(p, S)
    OBVIOUS
  <2>2. i \in 1 .. n
    BY <2>1, PlacesTaken
  <2>3. Who(i) = p
    BY <1>2, <2>1, <2>2, PlacesTaken
  <2> QED BY <2>2, <2>3
<1>9. ASSUME NEW i \in 1 .. n, NEW j \in 1 .. n, Who(i) = Who(j) PROVE i = j
  BY <1>2, <1>9
<1>10. ASSUME NEW i \in 1 .. n, NEW j \in 1 .. n, i < j
       PROVE  order[i].channel <= order[j].channel
  <2>1. SUFFICES ASSUME ~(Who(i)[1] <= Who(j)[1]) PROVE FALSE
    BY <1>7
  <2>2. Who(i)[1] \in Nat /\ Who(j)[1] \in Nat
    BY <1>2, <1>4, SnapshotChunksAssumption
  <2>3. UpTo(Who(j), Who(i)) /\ Who(i) # Who(j)
    BY <2>1, <2>2 DEF UpTo
  <2>4. Place(Who(j), S) < Place(Who(i), S)
    BY <1>2, <2>3, PlaceFacts
  <2> QED BY <1>2, <1>10, <2>4
<1>11. PICK who : who = [i \in 1 .. n |-> Who(i)]
  OBVIOUS
<1>12. who \in [1 .. n -> S] /\ \A i \in 1 .. n : who[i] = Who(i)
  BY <1>2, <1>11
<1>13. Enumerates(who, order, t)
  BY <1>6, <1>7, <1>8, <1>9, <1>12 DEF Enumerates
<1> HIDE DEF n, S
<1> QED BY <1>1, <1>6, <1>10, <1>13 DEF n, S

-----------------------------------------------------------------------------
(* Where the participants are in the chunks.                               *)
PersonType == [sender: Senders, state: States]
EntryType  == [channel: Channels, participants: Seq(PersonType)]
RowType    == [channel: Channels, sender: Senders, state: States]

InPlace(chunks, i, j, k) ==
    /\ i \in DOMAIN chunks /\ j \in DOMAIN chunks[i]
    /\ k \in DOMAIN chunks[i][j].participants

Shows(chunks, i, j, k, row) ==
    /\ chunks[i][j].channel = row.channel
    /\ chunks[i][j].participants[k] = [sender |-> row.sender, state |-> row.state]

(* No two have the same place.                                             *)
OnePlaceEach(n, a, b, c) ==
    \A m, q \in 1 .. n : a[m] = a[q] /\ b[m] = b[q] /\ c[m] = c[q] => m = q

(* The first n of the order are in the chunks, and nobody else is: a, b, c *)
(* give the chunk, the entry and the place of each.                        *)
PlacedAt(chunks, order, n, a, b, c) ==
    /\ \A m \in 1 .. n : InPlace(chunks, a[m], b[m], c[m]) /\ Shows(chunks, a[m], b[m], c[m], order[m])
    /\ \A i, j, k : InPlace(chunks, i, j, k) =>
         \E m \in 1 .. n : a[m] = i /\ b[m] = j /\ c[m] = k
    /\ OnePlaceEach(n, a, b, c)

Listed(chunks, order, n) ==
    \E a, b, c \in [1 .. n -> Nat] : PlacedAt(chunks, order, n, a, b, c)

LEMMA AppendedFacts ==
    ASSUME NEW S, NEW q \in Seq(S), NEW x \in S, NEW p, p = Append(q, x)
    PROVE  /\ p \in Seq(S) /\ Len(q) \in Nat /\ Len(p) = Len(q) + 1
           /\ DOMAIN q = 1 .. Len(q) /\ DOMAIN p = 1 .. Len(q) + 1
           /\ p[Len(q) + 1] = x
           /\ \A i \in 1 .. Len(q) : p[i] = q[i]
           /\ Len(q) + 1 \notin 1 .. Len(q)
           /\ \A i \in DOMAIN p : i \in 1 .. Len(q) \/ i = Len(q) + 1
OBVIOUS

LEMMA OneFacts ==
    ASSUME NEW S, NEW x \in S
    PROVE  <<x>> \in Seq(S) /\ Len(<<x>>) = 1 /\ DOMAIN <<x>> = {1} /\ <<x>>[1] = x
OBVIOUS

(* A chunk of one participant more.                                        *)
LEMMA ListedNew ==
    ASSUME NEW chunks \in Seq(Seq(EntryType)), NEW order \in Seq(RowType), NEW n \in Nat,
           n + 1 \in DOMAIN order, Listed(chunks, order, n), NEW row, row = order[n + 1],
           NEW e, e = Entry(row.channel, <<[sender |-> row.sender, state |-> row.state]>>)
    PROVE  Listed(Append(chunks, <<e>>), order, n + 1)
<1> DEFINE F == Append(chunks, <<e>>)
           w == Len(chunks) + 1
<1>1. row \in RowType /\ e \in EntryType /\ <<e>> \in Seq(EntryType)
  <2>1. row \in RowType
    OBVIOUS
  <2>2. [sender |-> row.sender, state |-> row.state] \in PersonType /\ row.channel \in Channels
    BY <2>1 DEF RowType, PersonType
  <2>3. e \in EntryType
    BY <2>2, OneFacts DEF Entry, EntryType
  <2> QED BY <2>1, <2>3, OneFacts
<1>2. /\ w \in Nat /\ DOMAIN chunks = 1 .. Len(chunks) /\ w \notin DOMAIN chunks
      /\ w \in DOMAIN F /\ F[w] = <<e>>
      /\ \A i \in DOMAIN chunks : F[i] = chunks[i] /\ i \in DOMAIN F
      /\ \A i \in DOMAIN F : i \in DOMAIN chunks \/ i = w
  BY <1>1, AppendedFacts
<1>3. PICK a, b, c \in [1 .. n -> Nat] : PlacedAt(chunks, order, n, a, b, c)
  BY DEF Listed
<1> DEFINE a1 == [m \in 1 .. n + 1 |-> IF m = n + 1 THEN w ELSE a[m]]
           b1 == [m \in 1 .. n + 1 |-> IF m = n + 1 THEN 1 ELSE b[m]]
           c1 == [m \in 1 .. n + 1 |-> IF m = n + 1 THEN 1 ELSE c[m]]
<1>4. a1 \in [1 .. n + 1 -> Nat] /\ b1 \in [1 .. n + 1 -> Nat] /\ c1 \in [1 .. n + 1 -> Nat]
  BY <1>2
<1>5. /\ a1[n + 1] = w /\ b1[n + 1] = 1 /\ c1[n + 1] = 1 /\ n + 1 \in 1 .. n + 1
      /\ \A m \in 1 .. n : a1[m] = a[m] /\ b1[m] = b[m] /\ c1[m] = c[m] /\ m \in 1 .. n + 1
      /\ \A m \in 1 .. n + 1 : m \in 1 .. n \/ m = n + 1
  OBVIOUS
<1> HIDE DEF F, w, a1, b1, c1
<1>6. /\ DOMAIN <<e>> = {1} /\ <<e>>[1] = e /\ DOMAIN e.participants = {1}
      /\ e.channel = row.channel /\ e.participants[1] = [sender |-> row.sender, state |-> row.state]
  BY DEF Entry
<1>7. ASSUME NEW m \in 1 .. n + 1
      PROVE  InPlace(F, a1[m], b1[m], c1[m]) /\ Shows(F, a1[m], b1[m], c1[m], order[m])
  <2>1. CASE m = n + 1
    BY <1>2, <1>5, <1>6, <2>1 DEF InPlace, Shows
  <2>2. CASE m \in 1 .. n
    <3>1. InPlace(chunks, a[m], b[m], c[m]) /\ Shows(chunks, a[m], b[m], c[m], order[m])
      BY <1>3, <2>2 DEF PlacedAt
    <3>2. a[m] \in DOMAIN F /\ F[a[m]] = chunks[a[m]]
      BY <1>2, <3>1 DEF InPlace
    <3>3. InPlace(F, a[m], b[m], c[m]) /\ Shows(F, a[m], b[m], c[m], order[m])
      BY <3>1, <3>2 DEF InPlace, Shows
    <3> QED BY <1>5, <2>2, <3>3
  <2> QED BY <1>5, <2>1, <2>2
<1>8. ASSUME NEW i, NEW j, NEW k, InPlace(F, i, j, k)
      PROVE  \E m \in 1 .. n + 1 : a1[m] = i /\ b1[m] = j /\ c1[m] = k
  <2>1. CASE i = w
    <3>0. F[i] = <<e>>
      BY <1>2, <2>1
    <3>1. j = 1 /\ k = 1
      <4>1. j \in DOMAIN F[i] /\ k \in DOMAIN F[i][j].participants
        BY <1>8 DEF InPlace
      <4>2. j = 1
        BY <1>6, <3>0, <4>1
      <4>3. F[i][j] = e
        BY <1>6, <3>0, <4>2
      <4> QED BY <1>6, <4>1, <4>2, <4>3
    <3> QED BY <1>5, <2>1, <3>1
  <2>2. CASE i \in DOMAIN chunks
    <3>1. InPlace(chunks, i, j, k)
      BY <1>2, <1>8, <2>2 DEF InPlace
    <3>2. PICK m \in 1 .. n : a[m] = i /\ b[m] = j /\ c[m] = k
      BY <1>3, <3>1 DEF PlacedAt
    <3> QED BY <1>5, <3>2
  <2> QED BY <1>2, <1>8, <2>1, <2>2 DEF InPlace
<1>9. OnePlaceEach(n + 1, a1, b1, c1)
  <2>1. ASSUME NEW m \in 1 .. n PROVE a[m] # w
    <3>1. InPlace(chunks, a[m], b[m], c[m])
      BY <1>3 DEF PlacedAt
    <3> QED BY <1>2, <3>1 DEF InPlace
  <2>2. OnePlaceEach(n, a, b, c)
    BY <1>3 DEF PlacedAt
  <2>3. ASSUME NEW m \in 1 .. n + 1, NEW q \in 1 .. n + 1,
               a1[m] = a1[q], b1[m] = b1[q], c1[m] = c1[q]
        PROVE  m = q
    <3>1. CASE m = n + 1 \/ q = n + 1
      BY <1>5, <2>1, <2>3, <3>1
    <3>2. CASE m \in 1 .. n /\ q \in 1 .. n
      BY <1>5, <2>2, <2>3, <3>2 DEF OnePlaceEach
    <3> QED BY <1>5, <3>1, <3>2
  <2> QED BY <2>3 DEF OnePlaceEach
<1>10. PlacedAt(F, order, n + 1, a1, b1, c1)
  BY <1>7, <1>8, <1>9 DEF PlacedAt
<1>11. Listed(F, order, n + 1)
  BY <1>4, <1>10 DEF Listed
<1> QED BY <1>11 DEF F

(* One participant more in the entry of the last chunk.                    *)
LEMMA ListedLonger ==
    ASSUME NEW chunks \in Seq(Seq(EntryType)), NEW order \in Seq(RowType), NEW n \in Nat,
           n + 1 \in DOMAIN order, NEW e \in EntryType, Listed(Append(chunks, <<e>>), order, n),
           NEW row, row = order[n + 1], row.channel = e.channel,
           NEW f, f = Entry(e.channel, Append(e.participants, [sender |-> row.sender, state |-> row.state]))
    PROVE  Listed(Append(chunks, <<f>>), order, n + 1)
<1> DEFINE E == Append(chunks, <<e>>)
           F == Append(chunks, <<f>>)
           w == Len(chunks) + 1
           z == Len(e.participants) + 1
           who == [sender |-> row.sender, state |-> row.state]
<1>1. row \in RowType /\ who \in PersonType /\ e.participants \in Seq(PersonType) /\ e.channel \in Channels
  <2>1. row \in RowType
    OBVIOUS
  <2>2. who \in PersonType
    BY <2>1 DEF RowType, PersonType
  <2>3. e.participants \in Seq(PersonType) /\ e.channel \in Channels
    BY DEF EntryType
  <2> QED BY <2>1, <2>2, <2>3
<1>2. /\ z \in Nat /\ Append(e.participants, who) \in Seq(PersonType)
      /\ DOMAIN e.participants = 1 .. Len(e.participants) /\ z \notin DOMAIN e.participants
      /\ z \in DOMAIN Append(e.participants, who) /\ Append(e.participants, who)[z] = who
      /\ \A k \in DOMAIN e.participants :
           k \in DOMAIN Append(e.participants, who) /\ Append(e.participants, who)[k] = e.participants[k]
      /\ \A k \in DOMAIN Append(e.participants, who) : k \in DOMAIN e.participants \/ k = z
  <2> PICK q, p : q = e.participants /\ p = Append(q, who)
    OBVIOUS
  <2>1. q \in Seq(PersonType) /\ who \in PersonType
    BY <1>1
  <2> HIDE DEF who
  <2>2. /\ p \in Seq(PersonType) /\ Len(q) \in Nat /\ Len(p) = Len(q) + 1
        /\ DOMAIN q = 1 .. Len(q) /\ DOMAIN p = 1 .. Len(q) + 1
        /\ p[Len(q) + 1] = who
        /\ \A i \in 1 .. Len(q) : p[i] = q[i]
        /\ Len(q) + 1 \notin 1 .. Len(q)
        /\ \A i \in DOMAIN p : i \in 1 .. Len(q) \/ i = Len(q) + 1
    BY <2>1, AppendedFacts
  <2> QED BY <2>2
<1>3. /\ f.channel = e.channel /\ f.participants = Append(e.participants, who)
      /\ f \in EntryType /\ <<e>> \in Seq(EntryType) /\ <<f>> \in Seq(EntryType)
  <2>1. f.channel = e.channel /\ f.participants = Append(e.participants, who)
    BY DEF Entry
  <2>2. f \in EntryType
    <3> HIDE DEF who
    <3> QED BY <1>1, <1>2 DEF Entry, EntryType, who
  <2> QED BY <2>1, <2>2
<1> HIDE DEF who, z
<1>4. /\ w \in Nat /\ DOMAIN chunks = 1 .. Len(chunks) /\ w \notin DOMAIN chunks
      /\ w \in DOMAIN F /\ F[w] = <<f>> /\ w \in DOMAIN E /\ E[w] = <<e>>
      /\ \A i \in DOMAIN chunks : F[i] = chunks[i] /\ i \in DOMAIN F /\ E[i] = chunks[i] /\ i \in DOMAIN E
      /\ \A i \in DOMAIN F : i \in DOMAIN chunks \/ i = w
      /\ \A i \in DOMAIN E : i \in DOMAIN chunks \/ i = w
  BY <1>3, AppendedFacts
<1>5. PICK a, b, c \in [1 .. n -> Nat] : PlacedAt(E, order, n, a, b, c)
  BY DEF Listed
<1> DEFINE a1 == [m \in 1 .. n + 1 |-> IF m = n + 1 THEN w ELSE a[m]]
           b1 == [m \in 1 .. n + 1 |-> IF m = n + 1 THEN 1 ELSE b[m]]
           c1 == [m \in 1 .. n + 1 |-> IF m = n + 1 THEN z ELSE c[m]]
<1>6. a1 \in [1 .. n + 1 -> Nat] /\ b1 \in [1 .. n + 1 -> Nat] /\ c1 \in [1 .. n + 1 -> Nat]
  <2>1. w \in Nat /\ z \in Nat
    BY <1>2, <1>4
  <2>2. \A m \in 1 .. n + 1 : m # n + 1 => m \in 1 .. n
    OBVIOUS
  <2> HIDE DEF w
  <2> QED BY <2>1, <2>2
<1>7. /\ a1[n + 1] = w /\ b1[n + 1] = 1 /\ c1[n + 1] = z /\ n + 1 \in 1 .. n + 1
      /\ \A m \in 1 .. n : a1[m] = a[m] /\ b1[m] = b[m] /\ c1[m] = c[m] /\ m \in 1 .. n + 1
      /\ \A m \in 1 .. n + 1 : m \in 1 .. n \/ m = n + 1
  OBVIOUS
<1> HIDE DEF E, F, w, a1, b1, c1
<1>8. DOMAIN <<e>> = {1} /\ <<e>>[1] = e /\ DOMAIN <<f>> = {1} /\ <<f>>[1] = f
  OBVIOUS
<1>9. ASSUME NEW i, NEW j, NEW k, InPlace(E, i, j, k)
      PROVE  /\ InPlace(F, i, j, k) /\ F[i][j].channel = E[i][j].channel
             /\ F[i][j].participants[k] = E[i][j].participants[k]
  <2>1. CASE i = w
    <3>1. j = 1 /\ k \in DOMAIN e.participants
      BY <1>4, <1>8, <1>9, <2>1 DEF InPlace
    <3>2. E[i][j] = e /\ F[i][j] = f /\ i \in DOMAIN F /\ j \in DOMAIN F[i]
      BY <1>4, <1>8, <2>1, <3>1
    <3>3. k \in DOMAIN f.participants /\ f.participants[k] = e.participants[k]
      BY <1>2, <1>3, <3>1
    <3> QED BY <1>3, <3>1, <3>2, <3>3 DEF InPlace
  <2>2. CASE i \in DOMAIN chunks
    BY <1>4, <1>9, <2>2 DEF InPlace
  <2> QED BY <1>4, <1>9, <2>1, <2>2 DEF InPlace
<1>10. ASSUME NEW m \in 1 .. n + 1
       PROVE  InPlace(F, a1[m], b1[m], c1[m]) /\ Shows(F, a1[m], b1[m], c1[m], order[m])
  <2>1. CASE m = n + 1
    <3>1. InPlace(F, w, 1, z)
      BY <1>2, <1>3, <1>4, <1>8 DEF InPlace
    <3>2. Shows(F, w, 1, z, row)
      BY <1>2, <1>3, <1>4, <1>8 DEF Shows, who
    <3> QED BY <1>7, <2>1, <3>1, <3>2
  <2>2. CASE m \in 1 .. n
    <3>1. InPlace(E, a[m], b[m], c[m]) /\ Shows(E, a[m], b[m], c[m], order[m])
      BY <1>5, <2>2 DEF PlacedAt
    <3>2. InPlace(F, a[m], b[m], c[m]) /\ Shows(F, a[m], b[m], c[m], order[m])
      <4>1. PICK i, j, k : i = a[m] /\ j = b[m] /\ k = c[m]
        OBVIOUS
      <4>2. /\ InPlace(F, i, j, k) /\ F[i][j].channel = E[i][j].channel
            /\ F[i][j].participants[k] = E[i][j].participants[k]
        <5>1. InPlace(E, i, j, k)
          BY <3>1, <4>1
        <5> QED BY <1>9, <5>1
      <4> QED BY <3>1, <4>1, <4>2 DEF Shows
    <3> QED BY <1>7, <2>2, <3>2
  <2> QED BY <1>7, <2>1, <2>2
<1>11. ASSUME NEW i, NEW j, NEW k, InPlace(F, i, j, k)
       PROVE  \E m \in 1 .. n + 1 : a1[m] = i /\ b1[m] = j /\ c1[m] = k
  <2>1. CASE i = w /\ k = z
    <3>1. j = 1
      BY <1>4, <1>8, <1>11, <2>1 DEF InPlace
    <3> QED BY <1>7, <2>1, <3>1
  <2>2. CASE ~(i = w /\ k = z)
    <3>1. InPlace(E, i, j, k)
      <4>1. CASE i = w
        <5>1. j = 1 /\ k \in DOMAIN f.participants
          BY <1>4, <1>8, <1>11, <4>1 DEF InPlace
        <5>2. k \in DOMAIN e.participants
          BY <1>2, <1>3, <2>2, <4>1, <5>1
        <5> QED BY <1>4, <1>8, <4>1, <5>1, <5>2 DEF InPlace
      <4>2. CASE i \in DOMAIN chunks
        BY <1>4, <1>11, <4>2 DEF InPlace
      <4> QED BY <1>4, <1>11, <4>1, <4>2 DEF InPlace
    <3>2. PICK m \in 1 .. n : a[m] = i /\ b[m] = j /\ c[m] = k
      BY <1>5, <3>1 DEF PlacedAt
    <3> QED BY <1>7, <3>2
  <2> QED BY <2>1, <2>2
<1>12. OnePlaceEach(n + 1, a1, b1, c1)
  <2>1. ASSUME NEW m \in 1 .. n, a[m] = w PROVE c[m] # z
    <3>1. InPlace(E, w, b[m], c[m])
      BY <1>5, <2>1 DEF PlacedAt
    <3>2. b[m] = 1 /\ c[m] \in DOMAIN e.participants
      BY <1>4, <1>8, <3>1 DEF InPlace
    <3> QED BY <1>2, <3>2
  <2>2. OnePlaceEach(n, a, b, c)
    BY <1>5 DEF PlacedAt
  <2>3. ASSUME NEW m \in 1 .. n + 1, NEW q \in 1 .. n + 1,
               a1[m] = a1[q], b1[m] = b1[q], c1[m] = c1[q]
        PROVE  m = q
    <3>1. CASE m = n + 1 \/ q = n + 1
      BY <1>7, <2>1, <2>3, <3>1
    <3>2. CASE m \in 1 .. n /\ q \in 1 .. n
      BY <1>7, <2>2, <2>3, <3>2 DEF OnePlaceEach
    <3> QED BY <1>7, <3>1, <3>2
  <2> QED BY <2>3 DEF OnePlaceEach
<1>13. PlacedAt(F, order, n + 1, a1, b1, c1)
  BY <1>10, <1>11, <1>12 DEF PlacedAt
<1>14. Listed(F, order, n + 1)
  BY <1>6, <1>13 DEF Listed
<1> QED BY <1>14 DEF F

(* The entry of the last chunk moves to the end of the one before.         *)
LEMMA ListedMerged ==
    ASSUME NEW chunks \in Seq(Seq(EntryType)), NEW current \in Seq(EntryType), NEW e \in EntryType,
           NEW order \in Seq(RowType), NEW n \in Nat,
           Listed(Append(Append(chunks, current), <<e>>), order, n)
    PROVE  Listed(Append(chunks, Append(current, e)), order, n)
<1> DEFINE E == Append(Append(chunks, current), <<e>>)
           F == Append(chunks, Append(current, e))
           v == Len(chunks) + 1
           w == Len(chunks) + 2
           z == Len(current) + 1
<1>1. /\ z \in Nat /\ Append(current, e) \in Seq(EntryType) /\ <<e>> \in Seq(EntryType)
      /\ DOMAIN current = 1 .. Len(current) /\ z \notin DOMAIN current
      /\ z \in DOMAIN Append(current, e) /\ Append(current, e)[z] = e
      /\ \A j \in DOMAIN current : j \in DOMAIN Append(current, e) /\ Append(current, e)[j] = current[j]
      /\ \A j \in DOMAIN Append(current, e) : j \in DOMAIN current \/ j = z
  BY AppendedFacts
<1>2. /\ v \in Nat /\ w \in Nat /\ w # v
      /\ DOMAIN chunks = 1 .. Len(chunks) /\ w \notin DOMAIN chunks /\ v \notin DOMAIN chunks
      /\ v \in DOMAIN F /\ F[v] = Append(current, e)
      /\ \A i \in DOMAIN chunks : F[i] = chunks[i] /\ i \in DOMAIN F
      /\ \A i \in DOMAIN F : i \in DOMAIN chunks \/ i = v
  <2> HIDE DEF z
  <2> QED BY <1>1, AppendedFacts
<1>3. /\ v \in DOMAIN E /\ E[v] = current /\ w \in DOMAIN E /\ E[w] = <<e>>
      /\ \A i \in DOMAIN chunks : E[i] = chunks[i] /\ i \in DOMAIN E
      /\ \A i \in DOMAIN E : i \in DOMAIN chunks \/ i = v \/ i = w
  <2>1. PICK M : M = Append(chunks, current)
    OBVIOUS
  <2>2. /\ M \in Seq(Seq(EntryType)) /\ Len(M) = v /\ DOMAIN M = 1 .. v /\ M[v] = current
        /\ \A i \in DOMAIN chunks : M[i] = chunks[i] /\ i \in DOMAIN M
        /\ \A i \in DOMAIN M : i \in DOMAIN chunks \/ i = v
    BY <2>1, AppendedFacts
  <2>3. Len(M) + 1 = w
    BY <2>2
  <2>4. /\ DOMAIN E = 1 .. w /\ E[w] = <<e>>
        /\ \A i \in 1 .. v : E[i] = M[i] /\ i \in DOMAIN E
        /\ \A i \in DOMAIN E : i \in 1 .. v \/ i = w
    BY <1>1, <2>1, <2>2, <2>3, AppendedFacts
  <2>5. v \in 1 .. v /\ w \in 1 .. w
    BY <1>2
  <2> HIDE DEF E, v, w
  <2> QED BY <2>2, <2>4, <2>5
<1>4. PICK a, b, c \in [1 .. n -> Nat] : PlacedAt(E, order, n, a, b, c)
  BY DEF Listed
<1> DEFINE a1 == [m \in 1 .. n |-> IF a[m] = w THEN v ELSE a[m]]
           b1 == [m \in 1 .. n |-> IF a[m] = w THEN z ELSE b[m]]
<1>5. a1 \in [1 .. n -> Nat] /\ b1 \in [1 .. n -> Nat]
  BY <1>1, <1>2
<1>6. \A m \in 1 .. n : /\ a[m] = w => a1[m] = v /\ b1[m] = z
                        /\ a[m] # w => a1[m] = a[m] /\ b1[m] = b[m]
  OBVIOUS
<1>7. DOMAIN <<e>> = {1} /\ <<e>>[1] = e
  OBVIOUS
<1> HIDE DEF E, F, v, w, z, a1, b1
<1>8. ASSUME NEW m \in 1 .. n
      PROVE  InPlace(F, a1[m], b1[m], c[m]) /\ Shows(F, a1[m], b1[m], c[m], order[m])
  <2>1. InPlace(E, a[m], b[m], c[m]) /\ Shows(E, a[m], b[m], c[m], order[m])
    BY <1>4 DEF PlacedAt
  <2>2. CASE a[m] = w
    <3>1. b[m] = 1
      BY <1>3, <1>7, <2>1, <2>2 DEF InPlace
    <3>2. E[a[m]][b[m]] = e /\ F[a1[m]][b1[m]] = e /\ a1[m] \in DOMAIN F /\ b1[m] \in DOMAIN F[a1[m]]
      BY <1>1, <1>2, <1>3, <1>6, <1>7, <2>2, <3>1
    <3> QED BY <2>1, <3>2 DEF InPlace, Shows
  <2>3. CASE a[m] = v
    <3>1. b[m] \in DOMAIN current /\ a1[m] = v /\ b1[m] = b[m]
      BY <1>2, <1>3, <1>6, <2>1, <2>3 DEF InPlace
    <3>2. F[v][b[m]] = current[b[m]] /\ E[v][b[m]] = current[b[m]] /\ b[m] \in DOMAIN F[v]
      BY <1>1, <1>2, <1>3, <3>1
    <3> QED BY <1>2, <2>1, <2>3, <3>1, <3>2 DEF InPlace, Shows
  <2>4. CASE a[m] \in DOMAIN chunks
    <3>1. a1[m] = a[m] /\ b1[m] = b[m] /\ F[a[m]] = E[a[m]] /\ a[m] \in DOMAIN F
      <4>1. F[a[m]] = E[a[m]] /\ a[m] \in DOMAIN F /\ a[m] # w
        BY <1>2, <1>3, <2>4
      <4> QED BY <1>6, <4>1
    <3> QED BY <2>1, <3>1 DEF InPlace, Shows
  <2> QED BY <1>3, <2>1, <2>2, <2>3, <2>4 DEF InPlace
<1>9. ASSUME NEW i, NEW j, NEW k, InPlace(F, i, j, k)
      PROVE  \E m \in 1 .. n : a1[m] = i /\ b1[m] = j /\ c[m] = k
  <2>1. CASE i = v /\ j = z
    <3>1. InPlace(E, w, 1, k)
      BY <1>1, <1>2, <1>3, <1>7, <1>9, <2>1 DEF InPlace
    <3>2. PICK m \in 1 .. n : a[m] = w /\ b[m] = 1 /\ c[m] = k
      BY <1>4, <3>1 DEF PlacedAt
    <3> QED BY <1>6, <2>1, <3>2
  <2>2. CASE ~(i = v /\ j = z)
    <3>1. InPlace(E, i, j, k) /\ i # w
      BY <1>1, <1>2, <1>3, <1>9, <2>2 DEF InPlace
    <3>2. PICK m \in 1 .. n : a[m] = i /\ b[m] = j /\ c[m] = k
      BY <1>4, <3>1 DEF PlacedAt
    <3> QED BY <1>6, <3>1, <3>2
  <2> QED BY <2>1, <2>2
<1>10. OnePlaceEach(n, a1, b1, c)
  <2>1. ASSUME NEW m \in 1 .. n
        PROVE  (a[m] = w => b[m] = 1) /\ (a[m] = v => b[m] # z)
    <3>1. InPlace(E, a[m], b[m], c[m])
      BY <1>4 DEF PlacedAt
    <3> QED BY <1>1, <1>3, <1>7, <3>1 DEF InPlace
  <2>2. OnePlaceEach(n, a, b, c)
    BY <1>4 DEF PlacedAt
  <2>3. ASSUME NEW m \in 1 .. n, NEW q \in 1 .. n, a1[m] = a1[q], b1[m] = b1[q], c[m] = c[q]
        PROVE  m = q
    <3>1. a[m] = a[q] /\ b[m] = b[q]
      BY <1>6, <2>1, <2>3
    <3> QED BY <2>2, <2>3, <3>1 DEF OnePlaceEach
  <2> QED BY <2>3 DEF OnePlaceEach
<1>11. PlacedAt(F, order, n, a1, b1, c)
  BY <1>8, <1>9, <1>10 DEF PlacedAt
<1>12. Listed(F, order, n)
  BY <1>5, <1>11 DEF Listed
<1> QED BY <1>12 DEF F

-----------------------------------------------------------------------------
(* What the sizes of chunks are.                                           *)
LEMMA SizeFacts ==
    /\ Size(<<>>) = 0
    /\ \A c \in Seq(EntryType) : Size(c) \in Nat
    /\ \A c \in Seq(EntryType), e \in EntryType :
         Size(Append(c, e)) = Size(c) + ChannelCost + Len(e.participants)
    /\ \A e \in EntryType :
         Len(e.participants) \in Nat /\ Size(<<e>>) = ChannelCost + Len(e.participants)
<1> DEFINE Sizes(c) == [i \in DOMAIN c |-> ChannelCost + Len(c[i].participants)]
<1>0. ChannelCost \in Nat
  BY SnapshotChunksAssumption
<1>1. ASSUME NEW e \in EntryType PROVE Len(e.participants) \in Nat
  BY DEF EntryType
<1>2. ASSUME NEW c \in Seq(EntryType) PROVE Sizes(c) \in Seq(Nat) /\ Len(Sizes(c)) = Len(c)
  <2>1. Len(c) \in Nat /\ DOMAIN c = 1 .. Len(c) /\ \A i \in 1 .. Len(c) : c[i] \in EntryType
    OBVIOUS
  <2>2. Sizes(c) \in [1 .. Len(c) -> Nat]
    BY <1>0, <1>1, <2>1
  <2> HIDE DEF Sizes
  <2> QED BY <2>1, <2>2
<1>3. ASSUME NEW c \in Seq(EntryType), NEW e \in EntryType
      PROVE  Sizes(Append(c, e)) = Append(Sizes(c), ChannelCost + Len(e.participants))
  <2>1. PICK p : p = Append(c, e)
    OBVIOUS
  <2>2. /\ p \in Seq(EntryType) /\ Len(p) = Len(c) + 1 /\ Len(c) \in Nat
        /\ DOMAIN c = 1 .. Len(c) /\ DOMAIN p = 1 .. Len(c) + 1
        /\ p[Len(c) + 1] = e /\ \A i \in 1 .. Len(c) : p[i] = c[i]
        /\ \A i \in DOMAIN p : i \in 1 .. Len(c) \/ i = Len(c) + 1
    BY <2>1, AppendedFacts
  <2>3. PICK x : x = ChannelCost + Len(e.participants)
    OBVIOUS
  <2>4. PICK q : q = Append(Sizes(c), x)
    OBVIOUS
  <2>5. x \in Nat /\ Sizes(c) \in Seq(Nat) /\ Len(Sizes(c)) = Len(c)
    BY <1>0, <1>1, <1>2, <2>3
  <2>6. /\ q \in Seq(Nat) /\ DOMAIN q = 1 .. Len(c) + 1
        /\ q[Len(c) + 1] = x /\ \A i \in 1 .. Len(c) : q[i] = Sizes(c)[i]
    <3> HIDE DEF Sizes
    <3> QED BY <2>4, <2>5, AppendedFacts
  <2>7. \A i \in 1 .. Len(c) : Sizes(c)[i] = ChannelCost + Len(c[i].participants)
    BY <2>2
  <2>8. \A i \in 1 .. Len(c) + 1 : q[i] = ChannelCost + Len(p[i].participants)
    <3> HIDE DEF Sizes
    <3> QED BY <2>2, <2>3, <2>6, <2>7
  <2>9. q = [i \in 1 .. Len(c) + 1 |-> q[i]]
    BY <2>6
  <2> QED BY <2>1, <2>2, <2>3, <2>4, <2>8, <2>9
<1>4. Size(<<>>) = 0
  <2>1. Sizes(<<>>) = <<>>
    OBVIOUS
  <2> QED BY <2>1, TotalFacts DEF Size
<1>5. ASSUME NEW c \in Seq(EntryType) PROVE Size(c) \in Nat
  BY <1>2, TotalFacts DEF Size
<1>6. ASSUME NEW c \in Seq(EntryType), NEW e \in EntryType
      PROVE  Size(Append(c, e)) = Size(c) + ChannelCost + Len(e.participants)
  <2>1. PICK x : x = ChannelCost + Len(e.participants)
    OBVIOUS
  <2>2. x \in Nat
    BY <1>0, <1>1, <2>1
  <2>3. Size(Append(c, e)) = Total(Append(Sizes(c), x))
    BY <1>3, <2>1 DEF Size
  <2>4. Total(Append(Sizes(c), x)) = Total(Sizes(c)) + x
    <3> HIDE DEF Sizes
    <3> QED BY <1>2, <2>2, TotalAppend
  <2>5. Size(c) = Total(Sizes(c))
    BY DEF Size
  <2>6. Size(c) \in Nat
    BY <1>5
  <2> QED BY <1>0, <1>1, <2>1, <2>3, <2>4, <2>5, <2>6
<1>7. ASSUME NEW e \in EntryType PROVE Size(<<e>>) = ChannelCost + Len(e.participants)
  <2>1. <<>> \in Seq(EntryType) /\ <<e>> = Append(<<>>, e)
    OBVIOUS
  <2>2. Size(Append(<<>>, e)) = Size(<<>>) + ChannelCost + Len(e.participants)
    BY <1>6, <2>1
  <2>3. Len(e.participants) \in Nat
    BY <1>1
  <2>4. Size(<<e>>) = 0 + ChannelCost + Len(e.participants)
    BY <1>4, <2>1, <2>2
  <2> QED BY <1>0, <2>3, <2>4
<1> QED BY <1>1, <1>4, <1>5, <1>6, <1>7

-----------------------------------------------------------------------------
(* The loop.                                                               *)
LoopType == [chunks: Seq(Seq(EntryType)), current: Seq(EntryType), batch: EntryType]

(* The chunks if the batch had one of its own.                             *)
Laid(loop) == Append(Append(loop.chunks, loop.current), <<loop.batch>>)

(* The chunks if the batch were the last.                                  *)
Closed(loop) ==
    LET end == AppendChunk(loop, loop.batch) IN Append(end.chunks, end.current)

AllFit(loop) ==
    /\ \A i \in DOMAIN loop.chunks : Fits(loop.chunks[i])
    /\ Fits(loop.current) /\ Fits(<<loop.batch>>)

LEMMA FlushFacts ==
    ASSUME NEW loop \in LoopType, AllFit(loop),
           NEW end, end = AppendChunk(loop, loop.batch),
           NEW s, s = ChannelCost + Len(loop.batch.participants)
    PROVE  /\ end \in LoopType /\ end.batch = loop.batch /\ AllFit(end)
           /\ s \in Nat /\ ChannelCost <= s /\ s <= Capacity /\ Size(loop.current) \in Nat
           /\ \/ /\ Size(loop.current) + s <= Capacity
                 /\ end.chunks = loop.chunks /\ end.current = Append(loop.current, loop.batch)
                 /\ Size(end.current) = Size(loop.current) + s
              \/ /\ Size(loop.current) + s > Capacity
                 /\ end.chunks = Append(loop.chunks, loop.current)
                 /\ Len(end.chunks) = Len(loop.chunks) + 1
                 /\ end.current = <<loop.batch>>
                 /\ Size(end.current) = s
<1> DEFINE more == Append(loop.current, loop.batch)
<1>1. /\ loop.chunks \in Seq(Seq(EntryType)) /\ loop.current \in Seq(EntryType) /\ loop.batch \in EntryType
      /\ loop = [chunks |-> loop.chunks, current |-> loop.current, batch |-> loop.batch]
  BY DEF LoopType
<1>2. more \in Seq(EntryType) /\ <<loop.batch>> \in Seq(EntryType)
  BY <1>1
<1>3. /\ ChannelCost \in Nat /\ Capacity \in Nat
  BY SnapshotChunksAssumption
<1>4. /\ Size(loop.current) \in Nat /\ Size(more) = Size(loop.current) + s /\ Size(<<loop.batch>>) = s
      /\ s \in Nat /\ ChannelCost <= s
  BY <1>1, <1>3, SizeFacts
<1>5. s <= Capacity
  BY <1>4 DEF AllFit, Fits
<1>6. CASE Size(loop.current) + s <= Capacity
  <2>1. Fits(more)
    BY <1>4, <1>6 DEF Fits
  <2>2. end = [loop EXCEPT !.current = more]
    BY <2>1 DEF AppendChunk
  <2>3. end.chunks = loop.chunks /\ end.current = more /\ end.batch = loop.batch /\ end \in LoopType
    <3> HIDE DEF more
    <3> QED BY <1>1, <1>2, <2>2 DEF LoopType
  <2>4. AllFit(end)
    <3> HIDE DEF more
    <3> QED BY <2>1, <2>3 DEF AllFit
  <2> QED BY <1>4, <1>5, <1>6, <2>3, <2>4
<1>7. CASE ~(Size(loop.current) + s <= Capacity)
  <2>1. ~Fits(more)
    BY <1>4, <1>7 DEF Fits
  <2>2. end = [loop EXCEPT !.chunks = Append(loop.chunks, loop.current), !.current = <<loop.batch>>]
    BY <2>1 DEF AppendChunk
  <2>3. PICK p : p = Append(loop.chunks, loop.current)
    OBVIOUS
  <2>4. /\ p \in Seq(Seq(EntryType)) /\ Len(p) = Len(loop.chunks) + 1
        /\ p[Len(loop.chunks) + 1] = loop.current /\ DOMAIN loop.chunks = 1 .. Len(loop.chunks)
        /\ \A i \in 1 .. Len(loop.chunks) : p[i] = loop.chunks[i]
        /\ \A i \in DOMAIN p : i \in 1 .. Len(loop.chunks) \/ i = Len(loop.chunks) + 1
    BY <1>1, <2>3, AppendedFacts
  <2>5. end.chunks = p /\ end.current = <<loop.batch>> /\ end.batch = loop.batch /\ end \in LoopType
    BY <1>1, <1>2, <2>2, <2>3, <2>4 DEF LoopType
  <2>6. AllFit(end)
    BY <2>4, <2>5 DEF AllFit
  <2> QED BY <1>3, <1>4, <1>5, <1>7, <2>3, <2>4, <2>5, <2>6
<1> QED BY <1>6, <1>7

LEMMA ClosedListed ==
    ASSUME NEW loop \in LoopType, AllFit(loop), NEW order \in Seq(RowType), NEW n \in Nat,
           Listed(Laid(loop), order, n)
    PROVE  /\ Listed(Closed(loop), order, n)
           /\ Closed(loop) \in Seq(Seq(EntryType))
           /\ \A i \in DOMAIN Closed(loop) : Fits(Closed(loop)[i])
<1>1. PICK end : end = AppendChunk(loop, loop.batch)
  OBVIOUS
<1>2. Closed(loop) = Append(end.chunks, end.current)
  BY <1>1 DEF Closed
<1>3. loop.chunks \in Seq(Seq(EntryType)) /\ loop.current \in Seq(EntryType) /\ loop.batch \in EntryType
  BY DEF LoopType
<1>4. /\ end \in LoopType /\ AllFit(end)
      /\ \/ end.chunks = loop.chunks /\ end.current = Append(loop.current, loop.batch)
         \/ end.chunks = Append(loop.chunks, loop.current) /\ end.current = <<loop.batch>>
  BY <1>1, FlushFacts
<1>5. Listed(Append(end.chunks, end.current), order, n)
  <2>1. CASE end.chunks = loop.chunks /\ end.current = Append(loop.current, loop.batch)
    <3>1. Listed(Append(loop.chunks, Append(loop.current, loop.batch)), order, n)
      BY <1>3, ListedMerged DEF Laid
    <3> QED BY <2>1, <3>1
  <2>2. CASE end.chunks = Append(loop.chunks, loop.current) /\ end.current = <<loop.batch>>
    BY <2>2 DEF Laid
  <2> QED BY <1>4, <2>1, <2>2
<1>6. end.chunks \in Seq(Seq(EntryType)) /\ end.current \in Seq(EntryType)
  BY <1>4 DEF LoopType
<1>7. /\ Append(end.chunks, end.current) \in Seq(Seq(EntryType))
      /\ \A i \in DOMAIN Append(end.chunks, end.current) : Fits(Append(end.chunks, end.current)[i])
  <2>1. PICK p : p = Append(end.chunks, end.current)
    OBVIOUS
  <2>2. /\ p \in Seq(Seq(EntryType)) /\ p[Len(end.chunks) + 1] = end.current
        /\ DOMAIN end.chunks = 1 .. Len(end.chunks)
        /\ \A i \in 1 .. Len(end.chunks) : p[i] = end.chunks[i]
        /\ \A i \in DOMAIN p : i \in 1 .. Len(end.chunks) \/ i = Len(end.chunks) + 1
    BY <1>6, <2>1, AppendedFacts
  <2>3. ASSUME NEW i \in DOMAIN p PROVE Fits(p[i])
    BY <1>4, <2>2 DEF AllFit
  <2> QED BY <2>1, <2>2, <2>3
<1> QED BY <1>2, <1>5, <1>7

-----------------------------------------------------------------------------
(* How full the chunks are. The price of a channel is counted with its     *)
(* last batch, so that a batch that was closed because a frame holds no    *)
(* more weighs Capacity - ChannelCost, which is half a frame at least. Two *)
(* neighbouring chunks weigh a frame. whole is what the complete chunks    *)
(* weigh, part what the current one does.                                  *)
Weighs(loop, whole, part) ==
    /\ \/ part = Size(loop.current)
       \/ part = Capacity - ChannelCost /\ Size(loop.current) = Capacity
    /\ Size(loop.current) = 0 \/ Size(loop.current) >= ChannelCost
    /\ \/ 2 * whole >= Capacity * Len(loop.chunks)
       \/ 2 * (whole + part) >= Capacity * (Len(loop.chunks) + 1)

Counts(weight, s) == weight = s \/ (weight = s - ChannelCost /\ s = Capacity)

HalfFull(loop, total) ==
    \E whole, part \in Nat :
      /\ total = whole + part + ChannelCost + Len(loop.batch.participants)
      /\ Weighs(loop, whole, part)

(* The batch goes in a chunk, and counts for its size, or for its size     *)
(* without the channel when it is full and its channel goes on.            *)
LEMMA FlushWeighs ==
    ASSUME NEW loop \in LoopType, AllFit(loop), NEW whole \in Nat, NEW part \in Nat,
           Weighs(loop, whole, part),
           NEW weight, Counts(weight, ChannelCost + Len(loop.batch.participants))
    PROVE  \E whole1, part1 \in Nat :
             /\ whole1 + part1 = whole + part + weight
             /\ Weighs(AppendChunk(loop, loop.batch), whole1, part1)
<1> SUFFICES ASSUME NEW end, end = AppendChunk(loop, loop.batch),
                    NEW s, s = ChannelCost + Len(loop.batch.participants)
             PROVE  \E whole1, part1 \in Nat :
                      whole1 + part1 = whole + part + weight /\ Weighs(end, whole1, part1)
  OBVIOUS
<1>1. ChannelCost \in Nat /\ Capacity \in Nat /\ Capacity >= 2 * ChannelCost /\ ChannelCost > 0
  BY SnapshotChunksAssumption
<1>2. PICK c, m : c = Size(loop.current) /\ m = Len(loop.chunks)
  OBVIOUS
<1>3. /\ s \in Nat /\ ChannelCost <= s /\ s <= Capacity /\ c \in Nat
      /\ \/ /\ c + s <= Capacity
            /\ end.chunks = loop.chunks /\ Size(end.current) = c + s
         \/ /\ c + s > Capacity
            /\ Len(end.chunks) = m + 1
            /\ Size(end.current) = s
  BY <1>2, FlushFacts
<1>4. m \in Nat /\ Capacity * m \in Nat
  <2>1. m \in Nat
    BY <1>2 DEF LoopType
  <2> QED BY <1>1, <2>1
<1>5. Capacity * (m + 1) = Capacity * m + Capacity /\ Capacity * ((m + 1) + 1) = Capacity * m + 2 * Capacity
  BY <1>1, <1>4
<1>6. /\ part = c \/ (part = Capacity - ChannelCost /\ c = Capacity)
      /\ c = 0 \/ c >= ChannelCost
      /\ 2 * whole >= Capacity * m \/ 2 * (whole + part) >= Capacity * m + Capacity
  BY <1>2, <1>5 DEF Weighs
<1>7. weight \in Nat
  <2>1. weight = s \/ (weight = s - ChannelCost /\ s = Capacity)
    BY DEF Counts
  <2> QED BY <1>1, <1>3, <2>1
<1>8. CASE c + s <= Capacity
  <2>1. Len(end.chunks) = m /\ Size(end.current) = c + s
    <3>1. ~(c + s > Capacity)
      <4>1. c \in Nat /\ s \in Nat
        BY <1>3
      <4> QED BY <1>1, <1>8, <4>1
    <3> QED BY <1>2, <1>3, <3>1
  <2>2. part = c
    BY <1>1, <1>3, <1>6, <1>8
  <2>3. part + weight \in Nat /\ whole + (part + weight) = whole + part + weight
    BY <1>7
  <2>4. \/ part + weight = c + s
        \/ part + weight = Capacity - ChannelCost /\ c + s = Capacity
    <3>1. weight = s \/ (weight = s - ChannelCost /\ s = Capacity)
      BY DEF Counts
    <3>2. c \in Nat /\ s \in Nat
      BY <1>3
    <3>3. CASE weight = s - ChannelCost /\ s = Capacity
      BY <1>1, <1>8, <2>2, <3>2, <3>3
    <3> QED BY <2>2, <3>1, <3>3
  <2>5. \/ 2 * whole >= Capacity * m
        \/ 2 * (whole + (part + weight)) >= Capacity * (m + 1)
    BY <1>1, <1>4, <1>5, <1>6, <1>7
  <2>6. c + s >= ChannelCost
    <3>1. c \in Nat /\ s \in Nat /\ ChannelCost <= s
      BY <1>3
    <3> QED BY <1>1, <3>1
  <2>7. Weighs(end, whole, part + weight)
    BY <2>1, <2>4, <2>5, <2>6 DEF Weighs
  <2> QED BY <2>3, <2>7
<1>9. CASE c + s > Capacity
  <2>1. Len(end.chunks) = m + 1 /\ Size(end.current) = s
    <3>1. ~(c + s <= Capacity)
      <4>1. c \in Nat /\ s \in Nat
        BY <1>3
      <4> QED BY <1>1, <1>9, <4>1
    <3> QED BY <1>3, <3>1
  <2>2. weight = s \/ (weight = Capacity - ChannelCost /\ s = Capacity)
    BY <1>1, <1>3 DEF Counts
  <2>3. whole + part \in Nat /\ (whole + part) + weight = whole + part + weight
    BY <1>7
  <2>4. part + weight >= Capacity
    <3>1. /\ c \in Nat /\ s \in Nat /\ ChannelCost <= s /\ part \in Nat
          /\ part = c \/ (part = Capacity - ChannelCost /\ c = Capacity)
          /\ c = 0 \/ c >= ChannelCost
      BY <1>3, <1>6
    <3>2. CASE weight = s
      BY <1>1, <1>9, <3>1, <3>2
    <3>3. CASE weight = Capacity - ChannelCost /\ s = Capacity
      BY <1>1, <1>9, <3>1, <3>3
    <3> QED BY <2>2, <3>2, <3>3
  <2>5. \/ 2 * (whole + part) >= Capacity * (m + 1)
        \/ 2 * ((whole + part) + weight) >= Capacity * ((m + 1) + 1)
    BY <1>1, <1>4, <1>5, <1>6, <1>7, <2>4
  <2>6. Weighs(end, whole + part, weight)
    BY <1>3, <2>1, <2>2, <2>5 DEF Weighs
  <2> QED BY <1>7, <2>3, <2>6
<1> QED BY <1>3, <1>8, <1>9

(* The last batch: the chunks hold half of what they can, but for one.     *)
LEMMA ClosedWeighs ==
    ASSUME NEW loop \in LoopType, AllFit(loop), NEW total \in Nat, HalfFull(loop, total)
    PROVE  /\ Len(Closed(loop)) \in Nat \ {0}
           /\ 2 * total >= Capacity * (Len(Closed(loop)) - 1)
<1>1. PICK whole, part \in Nat :
        /\ total = whole + part + ChannelCost + Len(loop.batch.participants)
        /\ Weighs(loop, whole, part)
  BY DEF HalfFull
<1>2. PICK end : end = AppendChunk(loop, loop.batch)
  OBVIOUS
<1>3. PICK s : s = ChannelCost + Len(loop.batch.participants)
  OBVIOUS
<1>4. end \in LoopType /\ s \in Nat
  BY <1>2, <1>3, FlushFacts
<1>5. PICK whole1, part1 \in Nat : whole1 + part1 = whole + part + s /\ Weighs(end, whole1, part1)
  <2>1. Counts(s, ChannelCost + Len(loop.batch.participants))
    BY <1>3 DEF Counts
  <2> QED BY <1>1, <1>2, <2>1, FlushWeighs
<1>6. PICK m : m = Len(end.chunks)
  OBVIOUS
<1>7. Closed(loop) = Append(end.chunks, end.current)
  BY <1>2 DEF Closed
<1>8. m \in Nat /\ Len(Closed(loop)) = m + 1
  BY <1>4, <1>6, <1>7 DEF LoopType
<1>9. Capacity \in Nat /\ ChannelCost \in Nat
  BY SnapshotChunksAssumption
<1>10. Capacity * (m + 1) = Capacity * m + Capacity /\ Capacity * m \in Nat
  BY <1>8, <1>9
<1>11. total = whole1 + part1
  <2>1. Len(loop.batch.participants) \in Nat
    BY DEF LoopType, EntryType
  <2>2. total = whole + part + ChannelCost + Len(loop.batch.participants)
    BY <1>1
  <2>3. PICK k : k = Len(loop.batch.participants)
    OBVIOUS
  <2>4. total = whole + part + ChannelCost + k /\ s = ChannelCost + k /\ k \in Nat
    BY <1>3, <2>1, <2>2, <2>3
  <2>5. whole + part + s = whole + part + ChannelCost + k
    BY <1>9, <2>4
  <2> QED BY <1>5, <2>4, <2>5
<1>12. 2 * total >= Capacity * m
  BY <1>5, <1>6, <1>9, <1>10, <1>11 DEF Weighs
<1>13. (m + 1) - 1 = m /\ m + 1 \in Nat \ {0}
  BY <1>8
<1> QED BY <1>8, <1>12, <1>13

-----------------------------------------------------------------------------
(* The channels of the first participants, and what they all cost.         *)
Seen(order, n) == {order[1].channel} \cup {order[i].channel : i \in 1 .. n}
Cost(order, n) == n + ChannelCost * Cardinality(Seen(order, n))

Ascending(order) ==
    \A i, j \in DOMAIN order : i < j => order[i].channel <= order[j].channel

BatchAt(n) == IF n = 0 THEN 1 ELSE n

(* A channel that is not the one of the batch was not seen before.         *)
LEMMA CostFacts ==
    ASSUME NEW order \in Seq(RowType), Ascending(order), NEW n \in Nat, n + 1 \in DOMAIN order
    PROVE  /\ Cost(order, n) \in Nat
           /\ order[n + 1].channel = order[BatchAt(n)].channel =>
                Cost(order, n + 1) = Cost(order, n) + 1
           /\ order[n + 1].channel # order[BatchAt(n)].channel =>
                Cost(order, n + 1) = Cost(order, n) + ChannelCost + 1
<1> DEFINE ch == order[n + 1].channel
           A == Seen(order, n)
           B == Seen(order, n + 1)
<1>1. Len(order) \in Nat /\ DOMAIN order = 1 .. Len(order) /\ 1 \in DOMAIN order
  OBVIOUS
<1>2. \A i \in DOMAIN order : order[i].channel \in Channels /\ order[i].channel \in Nat
  <2>1. ASSUME NEW i \in DOMAIN order PROVE order[i].channel \in Channels
    <3>1. order[i] \in RowType
      OBVIOUS
    <3> QED BY <3>1 DEF RowType
  <2> QED BY <2>1, SnapshotChunksAssumption
<1>3. 1 .. n \subseteq DOMAIN order /\ 1 .. n + 1 \subseteq DOMAIN order
  BY <1>1
<1>4. A \subseteq Channels /\ IsFiniteSet(A) /\ Cardinality(A) \in Nat
  <2>1. A \subseteq Channels
    BY <1>1, <1>2, <1>3 DEF Seen
  <2> HIDE DEF A
  <2>2. IsFiniteSet(A)
    BY <2>1, SnapshotChunksAssumption, FS_Subset
  <2> QED BY <2>1, <2>2, FS_CardinalityType
<1>5. B = A \cup {ch}
  <2>1. \A i \in 1 .. n + 1 : i \in 1 .. n \/ i = n + 1
    OBVIOUS
  <2>2. \A i \in 1 .. n : i \in 1 .. n + 1
    OBVIOUS
  <2>3. n + 1 \in 1 .. n + 1
    OBVIOUS
  <2> QED BY <2>1, <2>2, <2>3 DEF Seen
<1>6. ChannelCost \in Nat
  BY SnapshotChunksAssumption
<1> DEFINE k == Cardinality(A)
           cost == ChannelCost * k
<1>7. cost \in Nat /\ ChannelCost * (k + 1) = cost + ChannelCost
  BY <1>4, <1>6
<1>8. CASE ch = order[BatchAt(n)].channel
  <2>1. ch \in A
    BY <1>8 DEF Seen, BatchAt
  <2>2. B = A
    BY <1>5, <2>1
  <2>3. (n + 1) + cost = (n + cost) + 1
    BY <1>7
  <2> QED BY <1>7, <1>8, <2>2, <2>3 DEF Cost
<1>9. CASE ch # order[BatchAt(n)].channel
  <2>1. n > 0 /\ BatchAt(n) = n /\ n \in DOMAIN order
    BY <1>1, <1>9 DEF BatchAt
  <2>2. order[n].channel < ch
    <3>1. order[n].channel <= ch
      BY <2>1 DEF Ascending
    <3>2. order[n].channel \in Nat /\ ch \in Nat
      BY <1>2, <2>1
    <3> QED BY <1>9, <2>1, <3>1, <3>2
  <2>3. ASSUME NEW i \in 1 .. n PROVE order[i].channel <= order[n].channel
    <3>1. i \in DOMAIN order /\ order[i].channel \in Nat
      BY <1>2, <1>3
    <3>2. i < n => order[i].channel <= order[n].channel
      BY <2>1, <3>1 DEF Ascending
    <3> QED BY <3>1, <3>2
  <2>4. ch \notin A
    <3>1. 1 \in 1 .. n
      BY <2>1
    <3>2. A = {order[i].channel : i \in 1 .. n}
      BY <3>1 DEF Seen
    <3>3. ASSUME NEW i \in 1 .. n PROVE order[i].channel # ch
      <4>1. order[i].channel \in Nat /\ order[n].channel \in Nat /\ ch \in Nat
        BY <1>2, <1>3, <2>1
      <4> QED BY <2>2, <2>3, <4>1
    <3> QED BY <3>2, <3>3
  <2>5. Cardinality(B) = k + 1
    <3> HIDE DEF A, B, ch
    <3> QED BY <1>4, <1>5, <2>4, FS_AddElement DEF k
  <2>6. (n + 1) + (cost + ChannelCost) = (n + cost) + ChannelCost + 1
    BY <1>6, <1>7
  <2> QED BY <1>7, <1>9, <2>5, <2>6 DEF Cost
<1> QED BY <1>8, <1>9

(* What the loop keeps.                                                    *)
LoopSound(loop, order, n) ==
    /\ loop \in LoopType /\ AllFit(loop)
    /\ loop.batch.channel = order[BatchAt(n)].channel
    /\ Listed(Laid(loop), order, n)
    /\ HalfFull(loop, Cost(order, n))

LEMMA GrowKeeps ==
    ASSUME NEW order \in Seq(RowType), Ascending(order), NEW n \in Nat, n + 1 \in DOMAIN order,
           NEW loop, LoopSound(loop, order, n), order[n + 1].channel = loop.batch.channel,
           NEW longer, longer = Entry(loop.batch.channel,
             Append(loop.batch.participants, [sender |-> order[n + 1].sender, state |-> order[n + 1].state])),
           Fits(<<longer>>)
    PROVE  LoopSound([loop EXCEPT !.batch = longer], order, n + 1)
<1> DEFINE next == [loop EXCEPT !.batch = longer]
           who == [sender |-> order[n + 1].sender, state |-> order[n + 1].state]
<1>1. /\ loop \in LoopType /\ AllFit(loop) /\ loop.batch.channel = order[BatchAt(n)].channel
      /\ Listed(Laid(loop), order, n) /\ HalfFull(loop, Cost(order, n))
  BY DEF LoopSound
<1>2. /\ loop.chunks \in Seq(Seq(EntryType)) /\ loop.current \in Seq(EntryType)
      /\ loop.batch \in EntryType /\ loop.batch.channel \in Channels
      /\ loop.batch.participants \in Seq(PersonType)
  BY <1>1 DEF LoopType, EntryType
<1>3. who \in PersonType
  <2>1. order[n + 1] \in RowType
    OBVIOUS
  <2> QED BY <2>1 DEF RowType, PersonType
<1>4. longer \in EntryType /\ longer.channel = loop.batch.channel
      /\ Len(longer.participants) = Len(loop.batch.participants) + 1
      /\ Len(loop.batch.participants) \in Nat
  <2> HIDE DEF who
  <2>1. PICK p : p = Append(loop.batch.participants, who)
    OBVIOUS
  <2>2. /\ p \in Seq(PersonType) /\ Len(p) = Len(loop.batch.participants) + 1
        /\ Len(loop.batch.participants) \in Nat
    BY <1>2, <1>3, <2>1, AppendedFacts
  <2>3. longer = [channel |-> loop.batch.channel, participants |-> p]
    BY <2>1 DEF Entry, who
  <2> QED BY <1>2, <2>2, <2>3 DEF EntryType
<1>5. next \in LoopType /\ next.chunks = loop.chunks /\ next.current = loop.current /\ next.batch = longer
  BY <1>1, <1>4 DEF LoopType
<1> HIDE DEF next
<1>6. AllFit(next)
  BY <1>1, <1>5 DEF AllFit
<1>7. next.batch.channel = order[BatchAt(n + 1)].channel
  BY <1>4, <1>5 DEF BatchAt
<1>8. Listed(Laid(next), order, n + 1)
  <2>1. PICK chunks : chunks = Append(loop.chunks, loop.current)
    OBVIOUS
  <2>2. chunks \in Seq(Seq(EntryType))
    BY <1>2, <2>1
  <2>3. Listed(Append(chunks, <<loop.batch>>), order, n)
    BY <1>1, <2>1 DEF Laid
  <2>4. Listed(Append(chunks, <<longer>>), order, n + 1)
    BY <1>2, <2>2, <2>3, ListedLonger
  <2> QED BY <1>5, <2>1, <2>4 DEF Laid
<1>9. HalfFull(next, Cost(order, n + 1))
  <2>1. PICK whole, part \in Nat :
          /\ Cost(order, n) = whole + part + ChannelCost + Len(loop.batch.participants)
          /\ Weighs(loop, whole, part)
    BY <1>1 DEF HalfFull
  <2>2. Cost(order, n + 1) = Cost(order, n) + 1
    BY <1>1, CostFacts
  <2>3. PICK k : k = Len(loop.batch.participants)
    OBVIOUS
  <2>4. Cost(order, n + 1) = whole + part + ChannelCost + (k + 1)
    <3>1. ChannelCost \in Nat /\ k \in Nat
      BY <1>4, <2>3, SnapshotChunksAssumption
    <3>2. Cost(order, n) = whole + part + ChannelCost + k
      BY <2>1, <2>3
    <3> QED BY <2>2, <3>1, <3>2
  <2>5. Weighs(next, whole, part)
    BY <1>5, <2>1 DEF Weighs
  <2>6. Len(next.batch.participants) = k + 1
    BY <1>4, <1>5, <2>3
  <2> QED BY <2>4, <2>5, <2>6 DEF HalfFull
<1>10. LoopSound(next, order, n + 1)
  BY <1>5, <1>6, <1>7, <1>8, <1>9 DEF LoopSound
<1> QED BY <1>10 DEF next

LEMMA FlushKeeps ==
    ASSUME NEW order \in Seq(RowType), Ascending(order), NEW n \in Nat, n + 1 \in DOMAIN order,
           NEW loop, LoopSound(loop, order, n),
           NEW row, row = order[n + 1],
           \/ row.channel # loop.batch.channel
           \/ ChannelCost + Len(loop.batch.participants) = Capacity,
           NEW entry, entry = Entry(row.channel, <<[sender |-> row.sender, state |-> row.state]>>)
    PROVE  LoopSound([AppendChunk(loop, loop.batch) EXCEPT !.batch = entry], order, n + 1)
<1> DEFINE end == AppendChunk(loop, loop.batch)
           next == [end EXCEPT !.batch = entry]
<1>1. /\ loop \in LoopType /\ AllFit(loop) /\ loop.batch.channel = order[BatchAt(n)].channel
      /\ Listed(Laid(loop), order, n) /\ HalfFull(loop, Cost(order, n))
  BY DEF LoopSound
<1>2. end \in LoopType /\ AllFit(end)
  BY <1>1, FlushFacts
<1>3. entry \in EntryType /\ entry.channel = row.channel /\ Len(entry.participants) = 1
  <2>1. row \in RowType
    OBVIOUS
  <2>2. [sender |-> row.sender, state |-> row.state] \in PersonType /\ row.channel \in Channels
    BY <2>1 DEF RowType, PersonType
  <2>3. entry.channel = row.channel /\ Len(entry.participants) = 1
    BY DEF Entry
  <2> QED BY <2>2, <2>3, OneFacts DEF Entry, EntryType
<1> HIDE DEF end
<1>4. next \in LoopType /\ next.chunks = end.chunks /\ next.current = end.current /\ next.batch = entry
  BY <1>2, <1>3 DEF LoopType
<1> HIDE DEF next
<1>5. AllFit(next)
  <2>1. Size(<<entry>>) = ChannelCost + 1
    <3>1. Size(<<entry>>) = ChannelCost + Len(entry.participants)
      BY <1>3, SizeFacts
    <3> QED BY <1>3, <3>1
  <2>2. ChannelCost + 1 <= Capacity
    BY SnapshotChunksAssumption
  <2>3. Fits(<<entry>>)
    BY <2>1, <2>2 DEF Fits
  <2> QED BY <1>2, <1>4, <2>3 DEF AllFit
<1>6. next.batch.channel = order[BatchAt(n + 1)].channel
  BY <1>3, <1>4 DEF BatchAt
<1>7. Listed(Laid(next), order, n + 1)
  <2>1. PICK chunks : chunks = Closed(loop)
    OBVIOUS
  <2>2. chunks \in Seq(Seq(EntryType)) /\ Listed(chunks, order, n)
    BY <1>1, <2>1, ClosedListed
  <2>3. chunks = Append(end.chunks, end.current)
    BY <2>1 DEF Closed, end
  <2>4. Listed(Append(chunks, <<entry>>), order, n + 1)
    BY <2>2, ListedNew
  <2> QED BY <1>4, <2>3, <2>4 DEF Laid
<1>8. HalfFull(next, Cost(order, n + 1))
  <2>1. PICK whole, part \in Nat :
          /\ Cost(order, n) = whole + part + ChannelCost + Len(loop.batch.participants)
          /\ Weighs(loop, whole, part)
    BY <1>1 DEF HalfFull
  <2>2. PICK k : k = Len(loop.batch.participants)
    OBVIOUS
  <2>3. k \in Nat /\ ChannelCost \in Nat /\ Capacity \in Nat
    BY <1>1, <2>2, SnapshotChunksAssumption DEF LoopType, EntryType
  <2>4. PICK weight : weight = IF row.channel = loop.batch.channel THEN k ELSE ChannelCost + k
    OBVIOUS
  <2>5. Counts(weight, ChannelCost + Len(loop.batch.participants))
    <3>1. (ChannelCost + k) - ChannelCost = k
      BY <2>3
    <3> QED BY <2>2, <2>4, <3>1 DEF Counts
  <2>6. PICK whole1, part1 \in Nat :
          whole1 + part1 = whole + part + weight /\ Weighs(end, whole1, part1)
    BY <1>1, <2>1, <2>5, FlushWeighs DEF end
  <2>7. Cost(order, n + 1) = whole1 + part1 + ChannelCost + 1
    <3>1. Cost(order, n) = whole + part + ChannelCost + k
      BY <2>1, <2>2
    <3>2. CASE row.channel = loop.batch.channel
      <4>1. Cost(order, n + 1) = Cost(order, n) + 1
        BY <1>1, <3>2, CostFacts
      <4>2. whole1 + part1 = whole + part + k
        BY <2>4, <2>6, <3>2
      <4> QED BY <2>3, <3>1, <4>1, <4>2
    <3>3. CASE row.channel # loop.batch.channel
      <4>1. Cost(order, n + 1) = Cost(order, n) + ChannelCost + 1
        BY <1>1, <3>3, CostFacts
      <4>2. whole1 + part1 = whole + part + (ChannelCost + k)
        BY <2>4, <2>6, <3>3
      <4> QED BY <2>3, <3>1, <4>1, <4>2
    <3> QED BY <3>2, <3>3
  <2>8. Weighs(next, whole1, part1)
    BY <1>4, <2>6 DEF Weighs
  <2>9. Len(next.batch.participants) = 1
    BY <1>3, <1>4
  <2> QED BY <2>7, <2>8, <2>9 DEF HalfFull
<1>9. LoopSound(next, order, n + 1)
  BY <1>4, <1>5, <1>6, <1>7, <1>8 DEF LoopSound
<1> QED BY <1>9 DEF next, end

LEMMA AddKeeps ==
    ASSUME NEW order \in Seq(RowType), Ascending(order), NEW n \in Nat, n + 1 \in DOMAIN order,
           NEW loop, LoopSound(loop, order, n)
    PROVE  LoopSound(AddParticipant(loop, order[n + 1]), order, n + 1)
<1>1. PICK row : row = order[n + 1]
  OBVIOUS
<1>2. PICK longer : longer = Entry(loop.batch.channel,
             Append(loop.batch.participants, [sender |-> row.sender, state |-> row.state]))
  OBVIOUS
<1>3. CASE row.channel = loop.batch.channel /\ Fits(<<longer>>)
  <2>1. LoopSound([loop EXCEPT !.batch = longer], order, n + 1)
    BY <1>1, <1>2, <1>3, GrowKeeps
  <2> QED BY <1>1, <1>2, <1>3, <2>1 DEF AddParticipant
<1>4. CASE ~(row.channel = loop.batch.channel /\ Fits(<<longer>>))
  <2>1. PICK entry : entry = Entry(row.channel, <<[sender |-> row.sender, state |-> row.state]>>)
    OBVIOUS
  <2>2. \/ row.channel # loop.batch.channel
        \/ ChannelCost + Len(loop.batch.participants) = Capacity
    <3>1. SUFFICES ASSUME ~Fits(<<longer>>)
                   PROVE  ChannelCost + Len(loop.batch.participants) = Capacity
      BY <1>4
    <3>2. /\ loop.batch \in EntryType /\ loop.batch.channel \in Channels
          /\ loop.batch.participants \in Seq(PersonType) /\ Fits(<<loop.batch>>)
      BY DEF LoopSound, LoopType, EntryType, AllFit
    <3>3. PICK who : who = [sender |-> row.sender, state |-> row.state]
      OBVIOUS
    <3>4. who \in PersonType
      <4>1. row \in RowType
        BY <1>1
      <4> QED BY <3>3, <4>1 DEF RowType, PersonType
    <3>5. PICK p : p = Append(loop.batch.participants, who)
      OBVIOUS
    <3>6. /\ p \in Seq(PersonType) /\ Len(p) = Len(loop.batch.participants) + 1
          /\ Len(loop.batch.participants) \in Nat
      BY <3>2, <3>4, <3>5, AppendedFacts
    <3>7. longer = [channel |-> loop.batch.channel, participants |-> p]
      BY <1>2, <3>3, <3>5 DEF Entry
    <3>8. longer \in EntryType /\ longer.participants = p
      BY <3>2, <3>6, <3>7 DEF EntryType
    <3>9. /\ Size(<<longer>>) = ChannelCost + (Len(loop.batch.participants) + 1)
          /\ Size(<<loop.batch>>) = ChannelCost + Len(loop.batch.participants)
      <4>1. Size(<<longer>>) = ChannelCost + Len(longer.participants)
        BY <3>8, SizeFacts
      <4>2. Size(<<loop.batch>>) = ChannelCost + Len(loop.batch.participants)
        BY <3>2, SizeFacts
      <4> QED BY <3>6, <3>8, <4>1, <4>2
    <3>10. PICK k : k = Len(loop.batch.participants)
      OBVIOUS
    <3>11. k \in Nat /\ ~(ChannelCost + (k + 1) <= Capacity) /\ ChannelCost + k <= Capacity
      BY <3>1, <3>2, <3>6, <3>9, <3>10 DEF Fits
    <3>12. ChannelCost + k = Capacity
      BY <3>11, SnapshotChunksAssumption
    <3> QED BY <3>10, <3>12
  <2>3. LoopSound([AppendChunk(loop, loop.batch) EXCEPT !.batch = entry], order, n + 1)
    BY <1>1, <2>1, <2>2, FlushKeeps
  <2> QED BY <1>1, <1>2, <1>4, <2>1, <2>3 DEF AddParticipant
<1> QED BY <1>3, <1>4

(* Before the first participant.                                           *)
FirstLoop(order) == [chunks |-> <<>>, current |-> <<>>, batch |-> Entry(order[1].channel, <<>>)]

LEMMA FirstSound ==
    ASSUME NEW order \in Seq(RowType), 1 \in DOMAIN order
    PROVE  LoopSound(FirstLoop(order), order, 0)
<1> DEFINE loop == FirstLoop(order)
           ch == order[1].channel
<1>1. ch \in Channels
  <2>1. order[1] \in RowType
    OBVIOUS
  <2> QED BY <2>1 DEF RowType
<1>2. /\ loop.chunks = <<>> /\ loop.current = <<>> /\ loop.batch = [channel |-> ch, participants |-> <<>>]
  BY DEF FirstLoop, Entry
<1>3. loop.batch \in EntryType /\ Len(loop.batch.participants) = 0 /\ loop.batch.channel = ch
  BY <1>1, <1>2 DEF EntryType
<1>4. loop \in LoopType
  <2>1. PICK batch, none : batch = Entry(ch, <<>>) /\ none = <<>>
    OBVIOUS
  <2>2. loop = [chunks |-> none, current |-> none, batch |-> batch]
    BY <2>1 DEF FirstLoop
  <2>3. none \in Seq(EntryType) /\ none \in Seq(Seq(EntryType)) /\ batch \in EntryType
    BY <1>3, <2>1, <2>2
  <2> QED BY <2>2, <2>3 DEF LoopType
<1> HIDE DEF loop
<1>5. ChannelCost \in Nat /\ Capacity \in Nat /\ ChannelCost <= Capacity
  BY SnapshotChunksAssumption
<1>6. Size(<<>>) = 0 /\ Size(<<loop.batch>>) = ChannelCost
  <2>1. Size(<<loop.batch>>) = ChannelCost + Len(loop.batch.participants)
    BY <1>3, SizeFacts
  <2>2. Size(<<loop.batch>>) = ChannelCost + 0
    BY <1>3, <2>1
  <2> QED BY <1>5, <2>2, SizeFacts
<1>7. AllFit(loop)
  <2>1. DOMAIN loop.chunks = {}
    BY <1>2
  <2> QED BY <1>2, <1>5, <1>6, <2>1 DEF AllFit, Fits
<1>8. Listed(Laid(loop), order, 0)
  <2>1. DOMAIN Laid(loop) = 1 .. 2 /\ Laid(loop)[1] = <<>> /\ Laid(loop)[2] = <<loop.batch>>
    <3>1. PICK b, none, one, two :
            b = <<loop.batch>> /\ none = <<>> /\ one = Append(<<>>, none) /\ two = Append(one, b)
      OBVIOUS
    <3>2. none \in Seq(EntryType) /\ b \in Seq(EntryType) /\ <<>> \in Seq(Seq(EntryType)) /\ Len(<<>>) = 0
      BY <1>3, <3>1
    <3>3. one \in Seq(Seq(EntryType)) /\ Len(one) = 1 /\ one[1] = none
      BY <3>1, <3>2
    <3>4. DOMAIN two = 1 .. 2 /\ two[1] = one[1] /\ two[2] = b
      BY <3>1, <3>2, <3>3
    <3>5. Laid(loop) = two
      BY <1>2, <3>1 DEF Laid
    <3> QED BY <3>1, <3>3, <3>4, <3>5
  <2>2. ASSUME NEW i, NEW j, NEW k, InPlace(Laid(loop), i, j, k) PROVE FALSE
    <3>1. i \in {1, 2}
      BY <2>1, <2>2 DEF InPlace
    <3>2. CASE i = 1
      <4>1. Laid(loop)[i] = <<>>
        BY <2>1, <3>2
      <4>2. DOMAIN Laid(loop)[i] = {}
        BY <4>1
      <4> QED BY <2>2, <4>2 DEF InPlace
    <3>3. CASE i = 2
      <4>1. Laid(loop)[i] = <<loop.batch>>
        BY <2>1, <3>3
      <4>2. j = 1
        BY <2>2, <4>1 DEF InPlace
      <4>3. Laid(loop)[i][j].participants = <<>>
        BY <1>2, <4>1, <4>2
      <4>4. DOMAIN Laid(loop)[i][j].participants = {}
        BY <4>3
      <4> QED BY <2>2, <4>4 DEF InPlace
    <3> QED BY <3>1, <3>2, <3>3
  <2>3. PICK f : f \in [1 .. 0 -> Nat]
    <3>1. [x \in 1 .. 0 |-> 0] \in [1 .. 0 -> Nat]
      OBVIOUS
    <3> QED BY <3>1
  <2>4. PlacedAt(Laid(loop), order, 0, f, f, f)
    BY <2>2 DEF PlacedAt, OnePlaceEach
  <2> QED BY <2>3, <2>4 DEF Listed
<1>9. HalfFull(loop, Cost(order, 0))
  <2>1. Seen(order, 0) = {ch}
    BY DEF Seen
  <2>2. Cardinality({ch}) = 1
    BY FS_Singleton
  <2>3. Cost(order, 0) = 0 + ChannelCost * 1
    BY <2>1, <2>2 DEF Cost
  <2>4. Cost(order, 0) = 0 + 0 + ChannelCost + Len(loop.batch.participants)
    BY <1>3, <1>5, <2>3
  <2>5. Len(loop.chunks) = 0 /\ Size(loop.current) = 0
    BY <1>2, <1>6
  <2>6. Weighs(loop, 0, 0)
    BY <1>5, <2>5 DEF Weighs
  <2> QED BY <2>4, <2>6 DEF HalfFull
<1>10. loop.batch.channel = order[BatchAt(0)].channel
  BY <1>3 DEF BatchAt
<1>11. LoopSound(loop, order, 0)
  BY <1>4, <1>7, <1>8, <1>9, <1>10 DEF LoopSound
<1> QED BY <1>11 DEF loop

LEMMA AddType ==
    ASSUME NEW loop \in LoopType, NEW row \in RowType
    PROVE  AddParticipant(loop, row) \in LoopType
<1> DEFINE who == [sender |-> row.sender, state |-> row.state]
           longer == Entry(loop.batch.channel, Append(loop.batch.participants, who))
           entry == Entry(row.channel, <<who>>)
           end == AppendChunk(loop, loop.batch)
<1>1. /\ loop.chunks \in Seq(Seq(EntryType)) /\ loop.current \in Seq(EntryType)
      /\ loop.batch \in EntryType /\ loop.batch.channel \in Channels
      /\ loop.batch.participants \in Seq(PersonType)
      /\ loop = [chunks |-> loop.chunks, current |-> loop.current, batch |-> loop.batch]
  BY DEF LoopType, EntryType
<1>2. who \in PersonType /\ row.channel \in Channels
  BY DEF RowType, PersonType
<1>3. longer \in EntryType /\ entry \in EntryType
  <2> HIDE DEF who
  <2>1. Append(loop.batch.participants, who) \in Seq(PersonType) /\ <<who>> \in Seq(PersonType)
    BY <1>1, <1>2
  <2> QED BY <1>1, <1>2, <2>1 DEF Entry, EntryType
<1>4. end \in LoopType
  <2>1. PICK more, chunks, one :
          /\ more = Append(loop.current, loop.batch) /\ chunks = Append(loop.chunks, loop.current)
          /\ one = <<loop.batch>>
    OBVIOUS
  <2>2. more \in Seq(EntryType) /\ chunks \in Seq(Seq(EntryType)) /\ one \in Seq(EntryType)
    BY <1>1, <2>1
  <2>3. \/ end = [loop EXCEPT !.current = more]
        \/ end = [loop EXCEPT !.chunks = chunks, !.current = one]
    BY <2>1 DEF AppendChunk
  <2> QED BY <2>2, <2>3 DEF LoopType
<1>5. \/ AddParticipant(loop, row) = [loop EXCEPT !.batch = longer]
      \/ AddParticipant(loop, row) = [end EXCEPT !.batch = entry]
  BY DEF AddParticipant
<1> HIDE DEF longer, entry, end
<1> QED BY <1>3, <1>4, <1>5 DEF LoopType

(* What Chunks computes: the loop over all participants.                   *)
LEMMA ChunksLoop ==
    ASSUME NEW t \in Tables, NEW order, order = Participants(t), order # <<>>
    PROVE  \E f : /\ f[0] = FirstLoop(order)
                  /\ \A n \in 1 .. Len(order) : f[n] = AddParticipant(f[n - 1], order[n])
                  /\ Chunks(t) = Closed(f[Len(order)])
<1> DEFINE m == Len(order)
           step == [n \in 1 .. m |-> [x \in LoopType |-> AddParticipant(x, order[n])]]
           Def(f) == f = [n \in 0 .. m |->
                            IF n = 0 THEN [chunks |-> <<>>, current |-> <<>>, batch |-> Entry(order[1].channel, <<>>)]
                            ELSE AddParticipant(f[n - 1], order[n])]
           u == CHOOSE f : Def(f)
<1>1. order \in Seq(RowType) /\ m \in Nat
  BY OrderFacts DEF RowType
<1>2. 1 \in DOMAIN order /\ \A n \in 1 .. m : order[n] \in RowType
  BY <1>1
<1>3. FirstLoop(order) \in LoopType
  BY <1>1, <1>2, FirstSound DEF LoopSound
<1>4. step \in [1 .. m -> [LoopType -> LoopType]]
  BY <1>2, AddType
<1>5. PICK f \in [0 .. m -> LoopType] : Recurs(f, m, FirstLoop(order), step)
  <2> HIDE DEF m, step
  <2> QED BY <1>1, <1>3, <1>4, RecursionExists
<1>6. ASSUME NEW n \in 1 .. m PROVE f[n] = AddParticipant(f[n - 1], order[n])
  <2>1. n - 1 \in 0 .. m
    BY <1>1
  <2>2. f[n - 1] \in LoopType
    BY <1>5, <2>1
  <2>3. f[n] = step[n][f[n - 1]]
    <3> HIDE DEF step
    <3> QED BY <1>5 DEF Recurs
  <2> QED BY <2>2, <2>3
<1>7. Def(f)
  <2>1. f = [n \in 0 .. m |-> f[n]]
    BY <1>5
  <2>2. f[0] = [chunks |-> <<>>, current |-> <<>>, batch |-> Entry(order[1].channel, <<>>)]
    BY <1>5 DEF Recurs, FirstLoop
  <2>3. \A n \in 0 .. m : n = 0 \/ n \in 1 .. m
    BY <1>1
  <2>4. PICK first : first = [chunks |-> <<>>, current |-> <<>>, batch |-> Entry(order[1].channel, <<>>)]
    OBVIOUS
  <2>5. \A n \in 0 .. m : f[n] = IF n = 0 THEN first ELSE AddParticipant(f[n - 1], order[n])
    BY <1>6, <2>2, <2>3, <2>4
  <2> QED BY <2>1, <2>4, <2>5
<1>8. Def(u)
  <2> HIDE DEF Def
  <2> QED BY <1>7, Zenon
<1>9. Chunks(t) = Closed(u[m])
  BY DEF Chunks, Closed
<1> HIDE DEF u, step
<1>10. u[0] = FirstLoop(order) /\ \A n \in 1 .. m : u[n] = AddParticipant(u[n - 1], order[n])
  BY <1>1, <1>8 DEF FirstLoop
<1> QED BY <1>9, <1>10

(* The loop is sound when it ends.                                         *)
LEMMA LoopEndsSound ==
    ASSUME NEW t \in Tables, NEW order, order = Participants(t), order # <<>>
    PROVE  \E loop : LoopSound(loop, order, Len(order)) /\ Chunks(t) = Closed(loop)
<1>1. PICK f : /\ f[0] = FirstLoop(order)
               /\ \A n \in 1 .. Len(order) : f[n] = AddParticipant(f[n - 1], order[n])
               /\ Chunks(t) = Closed(f[Len(order)])
  BY ChunksLoop
<1>2. order \in Seq(RowType) /\ Len(order) \in Nat /\ DOMAIN order = 1 .. Len(order) /\ 1 \in DOMAIN order
  <2>1. order \in Seq(RowType)
    BY OrderFacts DEF RowType
  <2> QED BY <2>1
<1>3. Ascending(order)
  BY <1>2, OrderFacts DEF Ascending
<1> DEFINE T == {n \in 0 .. Len(order) : LoopSound(f[n], order, n)}
<1>4. 0 \in T
  BY <1>1, <1>2, FirstSound
<1>5. ASSUME NEW n \in 0 .. Len(order) - 1, n \in T PROVE n + 1 \in T
  <2>1. n \in Nat /\ n + 1 \in 1 .. Len(order) /\ (n + 1) - 1 = n /\ n + 1 \in 0 .. Len(order)
    BY <1>2
  <2>2. LoopSound(f[n], order, n)
    BY <1>5
  <2>3. f[n + 1] = AddParticipant(f[n], order[n + 1])
    BY <1>1, <2>1
  <2>4. LoopSound(AddParticipant(f[n], order[n + 1]), order, n + 1)
    BY <1>2, <1>3, <2>1, <2>2, AddKeeps
  <2> QED BY <2>1, <2>3, <2>4
<1>6. 0 .. Len(order) \subseteq T
  <2> HIDE DEF T
  <2> QED BY <1>2, <1>4, <1>5, BoundedInduction
<1>7. LoopSound(f[Len(order)], order, Len(order))
  BY <1>2, <1>6
<1> QED BY <1>1, <1>7

(* The chunks of every table are the table.                                *)
LEMMA PlaceIn ==
    ASSUME NEW chunks, NEW p
    PROVE  p \in Places(chunks) <=> \E i, j, k : p = <<i, j, k>> /\ InPlace(chunks, i, j, k)
<1> DEFINE Of(i, j) == {<<i, j, k>> : k \in DOMAIN chunks[i][j].participants}
           In(i) == UNION {Of(i, j) : j \in DOMAIN chunks[i]}
<1>1. Places(chunks) = UNION {In(i) : i \in DOMAIN chunks}
  BY DEF Places
<1>2. ASSUME NEW i, NEW j
      PROVE  p \in Of(i, j) <=> \E k \in DOMAIN chunks[i][j].participants : p = <<i, j, k>>
  BY Zenon
<1> HIDE DEF Of
<1>3. ASSUME NEW i PROVE p \in In(i) <=> \E j \in DOMAIN chunks[i] : p \in Of(i, j)
  BY Zenon
<1> HIDE DEF In
<1>4. p \in Places(chunks) <=> \E i \in DOMAIN chunks : p \in In(i)
  BY <1>1, Zenon
<1> QED BY <1>2, <1>3, <1>4, Zenon DEF InPlace

LEMMA SameSize ==
    ASSUME NEW S, NEW T, IsFiniteSet(S), NEW f \in [S -> T],
           \A y \in T : \E x \in S : f[x] = y,
           \A x, y \in S : f[x] = f[y] => x = y
    PROVE  Cardinality(T) = Cardinality(S)
<1>1. f \in Bijection(S, T)
  BY DEF Bijection, Injection, Surjection, IsInjective
<1>2. ExistsBijection(S, T)
  BY <1>1 DEF ExistsBijection
<1> QED BY <1>2, FS_Bijection

LEMMA ListedRepresents ==
    ASSUME NEW t \in Tables, NEW order, order = Participants(t),
           NEW chunks \in Seq(Seq(EntryType)), Listed(chunks, order, Len(order)),
           \A i \in DOMAIN chunks : Fits(chunks[i])
    PROVE  Represents(chunks, t)
<1> DEFINE n == Len(order)
<1>1. order \in Seq(RowType) /\ n \in Nat
  BY OrderFacts DEF RowType
<1>0. PICK who : Enumerates(who, order, t)
  BY OrderFacts, Zenon
<1>2. /\ who \in [1 .. n -> Named(t)]
      /\ \A i \in 1 .. n :
           /\ order[i].channel = who[i][1] /\ order[i].sender = who[i][2]
           /\ order[i].state = StateOf(t, who[i][1], who[i][2])
      /\ \A p \in Named(t) : \E i \in 1 .. n : who[i] = p
      /\ \A i, j \in 1 .. n : who[i] = who[j] => i = j
  BY <1>0 DEF Enumerates
<1>3. PICK a, b, c \in [1 .. n -> Nat] : PlacedAt(chunks, order, n, a, b, c)
  BY DEF Listed
<1> HIDE DEF n
<1>4. ASSUME NEW m \in 1 .. n
      PROVE  /\ <<a[m], b[m], c[m]>> \in Places(chunks)
             /\ ChannelAt(chunks, <<a[m], b[m], c[m]>>) = order[m].channel
             /\ PersonAt(chunks, <<a[m], b[m], c[m]>>).sender = order[m].sender
             /\ PersonAt(chunks, <<a[m], b[m], c[m]>>).state = order[m].state
  <2>1. InPlace(chunks, a[m], b[m], c[m]) /\ Shows(chunks, a[m], b[m], c[m], order[m])
    BY <1>3 DEF PlacedAt
  <2>2. <<a[m], b[m], c[m]>> \in Places(chunks)
    BY <2>1, PlaceIn
  <2> DEFINE place == <<a[m], b[m], c[m]>>
  <2>3. /\ ChannelAt(chunks, place) = chunks[a[m]][b[m]].channel
        /\ PersonAt(chunks, place) = chunks[a[m]][b[m]].participants[c[m]]
    BY DEF ChannelAt, PersonAt
  <2>4. /\ chunks[a[m]][b[m]].channel = order[m].channel
        /\ chunks[a[m]][b[m]].participants[c[m]] = [sender |-> order[m].sender, state |-> order[m].state]
    BY <2>1 DEF Shows
  <2> HIDE DEF place
  <2>5. PersonAt(chunks, place) = [sender |-> order[m].sender, state |-> order[m].state]
    BY <2>3, <2>4, Zenon
  <2>6. PersonAt(chunks, place).sender = order[m].sender /\ PersonAt(chunks, place).state = order[m].state
    BY <2>5
  <2> QED BY <2>2, <2>3, <2>4, <2>6, Zenon DEF place
<1>5. ASSUME NEW p \in Places(chunks)
      PROVE  \E m \in 1 .. n : p = <<a[m], b[m], c[m]>>
  <2>1. PICK i, j, k : p = <<i, j, k>> /\ InPlace(chunks, i, j, k)
    BY PlaceIn
  <2>2. PICK m \in 1 .. n : a[m] = i /\ b[m] = j /\ c[m] = k
    BY <1>3, <2>1 DEF PlacedAt
  <2> QED BY <2>1, <2>2
<1>6. ASSUME NEW p \in Places(chunks)
      PROVE  /\ ChannelAt(chunks, p) \in Channels /\ PersonAt(chunks, p).sender \in Senders
             /\ PersonAt(chunks, p).state = StateOf(t, ChannelAt(chunks, p), PersonAt(chunks, p).sender)
  <2>1. PICK m \in 1 .. n : p = <<a[m], b[m], c[m]>>
    BY <1>5
  <2>2. who[m] \in Named(t)
    BY <1>2
  <2>3. who[m][1] \in Channels /\ who[m][2] \in Senders
    BY <2>2, NamedEntry
  <2> QED BY <1>2, <1>4, <2>1, <2>3
<1>7. ASSUME NEW ch \in Channels, NEW s \in Senders
      PROVE  Cardinality(Mentions(chunks, ch, s)) = Cardinality(Endpoints(t, ch, s))
  <2> DEFINE M == {m \in 1 .. n : order[m].channel = ch /\ order[m].sender = s}
             at == [m \in M |-> <<a[m], b[m], c[m]>>]
             from == [m \in M |-> who[m][3]]
  <2>1. IsFiniteSet(M)
    <3>1. IsFiniteSet(1 .. n)
      BY <1>1, FS_Interval DEF n
    <3>2. M \subseteq 1 .. n
      OBVIOUS
    <3> HIDE DEF M
    <3> QED BY <3>1, <3>2, FS_Subset
  <2>2. Cardinality(Mentions(chunks, ch, s)) = Cardinality(M)
    <3>1. at \in [M -> Mentions(chunks, ch, s)]
      BY <1>4 DEF Mentions
    <3>2. ASSUME NEW p \in Mentions(chunks, ch, s) PROVE \E m \in M : at[m] = p
      <4>1. p \in Places(chunks) /\ ChannelAt(chunks, p) = ch /\ PersonAt(chunks, p).sender = s
        BY DEF Mentions
      <4>2. PICK m \in 1 .. n : p = <<a[m], b[m], c[m]>>
        BY <1>5, <4>1
      <4>3. order[m].channel = ch /\ order[m].sender = s
        BY <1>4, <4>1, <4>2
      <4> QED BY <4>2, <4>3
    <3>3. ASSUME NEW m \in M, NEW q \in M, at[m] = at[q] PROVE m = q
      <4>1. OnePlaceEach(n, a, b, c)
        BY <1>3 DEF PlacedAt
      <4>2. a[m] = a[q] /\ b[m] = b[q] /\ c[m] = c[q]
        BY <3>3
      <4> QED BY <4>1, <4>2 DEF OnePlaceEach
    <3> HIDE DEF M, at
    <3> QED BY <2>1, <3>1, <3>2, <3>3, SameSize
  <2>3. Cardinality(Endpoints(t, ch, s)) = Cardinality(M)
    <3>1. ASSUME NEW m \in M
          PROVE  /\ who[m] = <<ch, s, from[m]>>
                 /\ from[m] \in Endpoints(t, ch, s)
      <4>1. who[m] \in Named(t) /\ who[m][1] = ch /\ who[m][2] = s /\ from[m] = who[m][3]
        BY <1>2
      <4>2. /\ who[m] = <<who[m][1], who[m][2], who[m][3]>> /\ who[m][3] \in Addrs
            /\ t[who[m][1]].peers[who[m][3]] = who[m][2]
        BY <4>1, NamedEntry
      <4> QED BY <4>1, <4>2 DEF Endpoints
    <3>2. ASSUME NEW e \in Endpoints(t, ch, s) PROVE \E m \in M : from[m] = e
      <4>1. PICK p : p = <<ch, s, e>>
        OBVIOUS
      <4>2. p \in Named(t) /\ p[1] = ch /\ p[2] = s /\ p[3] = e
        BY <4>1 DEF Endpoints, Named
      <4>3. PICK m \in 1 .. n : who[m] = p
        BY <1>2, <4>2
      <4>4. order[m].channel = ch /\ order[m].sender = s
        BY <1>2, <4>2, <4>3
      <4> QED BY <4>2, <4>3, <4>4
    <3>3. ASSUME NEW m \in M, NEW q \in M, from[m] = from[q] PROVE m = q
      <4>1. who[m] = who[q]
        BY <3>1, <3>3
      <4>2. m \in 1 .. n /\ q \in 1 .. n
        OBVIOUS
      <4> QED BY <1>2, <4>1, <4>2
    <3>4. from \in [M -> Endpoints(t, ch, s)]
      BY <3>1
    <3> HIDE DEF M, from
    <3> QED BY <2>1, <3>2, <3>3, <3>4, SameSize
  <2> QED BY <2>2, <2>3
<1> QED BY <1>6, <1>7 DEF Represents

(* Nobody, no channel: one empty chunk.                                    *)
LEMMA EmptyTable ==
    ASSUME NEW t \in Tables, Participants(t) = <<>>
    PROVE  ChunkedWell(t)
<1> DEFINE chunks == << <<>> >>
<1>1. Chunks(t) = chunks
  BY DEF Chunks
<1>2. /\ Len(chunks) = 1 /\ DOMAIN chunks = {1} /\ chunks[1] = <<>> /\ DOMAIN <<>> = {}
      /\ chunks = [i \in 1 .. 1 |-> chunks[i]]
  OBVIOUS
<1>3. Named(t) = {}
  <2>1. PICK order : order = Participants(t)
    OBVIOUS
  <2>2. Cardinality(Named(t)) = 0
    BY <2>1, OrderFacts
  <2> QED BY <2>2, NamedFinite, FS_EmptySet
<1>4. Fits(<<>>)
  BY SizeFacts, SnapshotChunksAssumption DEF Fits
<1> HIDE DEF chunks
<1>5. Represents(chunks, t)
  <2>1. Places(chunks) = {}
    BY <1>2, PlaceIn DEF InPlace
  <2>2. ASSUME NEW ch \in Channels, NEW s \in Senders
        PROVE  Mentions(chunks, ch, s) = {} /\ Endpoints(t, ch, s) = {}
    <3>1. ASSUME NEW e \in Endpoints(t, ch, s) PROVE FALSE
      <4>1. PICK p : p = <<ch, s, e>>
        OBVIOUS
      <4>2. p \in Named(t)
        BY <4>1 DEF Endpoints, Named
      <4> QED BY <1>3, <4>2
    <3> QED BY <2>1, <3>1 DEF Mentions
  <2> QED BY <1>2, <1>4, <2>1, <2>2 DEF Represents
<1>6. CutWhole(t)
  BY <1>1, <1>2, <1>5 DEF CutWhole
<1>7. ~TooLarge(t)
  <2>1. MaxChunks \in Nat \ {0}
    BY SnapshotChunksAssumption
  <2> QED BY <1>1, <1>2, <2>1 DEF TooLarge
<1> QED BY <1>6, <1>7 DEF ChunkedWell

(* All channels of the order are the ones that exist.                      *)
LEMMA AllCost ==
    ASSUME NEW t \in Tables, NEW order, order = Participants(t), order # <<>>
    PROVE  /\ Cost(order, Len(order)) = Cardinality(Named(t)) + ChannelCost * Cardinality(Existing(t))
           /\ Cost(order, Len(order)) \in Nat
<1> DEFINE n == Len(order)
<1>1. /\ order \in Seq(RowType) /\ n \in Nat /\ n = Cardinality(Named(t))
      /\ \A i \in 1 .. n : \E p \in Named(t) : order[i].channel = p[1]
      /\ \A p \in Named(t) : \E i \in 1 .. n : order[i].channel = p[1]
  <2>1. order \in Seq(RowType)
    BY OrderFacts DEF RowType
  <2>2. n \in Nat /\ n = Cardinality(Named(t))
    BY OrderFacts
  <2>3. PICK who : Enumerates(who, order, t)
    BY OrderFacts, Zenon
  <2>4. ASSUME NEW i \in 1 .. n PROVE \E p \in Named(t) : order[i].channel = p[1]
    BY <2>3 DEF Enumerates
  <2>5. ASSUME NEW p \in Named(t) PROVE \E i \in 1 .. n : order[i].channel = p[1]
    BY <2>3 DEF Enumerates
  <2> QED BY <2>1, <2>2, <2>4, <2>5
<1>2. 1 \in 1 .. n
  BY <1>1
<1>3. Seen(order, n) = Existing(t)
  <2>1. ASSUME NEW i \in 1 .. n PROVE order[i].channel \in Existing(t)
    <3>1. PICK p \in Named(t) : order[i].channel = p[1]
      BY <1>1
    <3>2. p[1] \in Channels /\ p[3] \in Addrs /\ t[p[1]].peers[p[3]] = p[2] /\ p[2] \in Senders
      BY NamedEntry
    <3>3. t[p[1]].peers[p[3]] # NoSender
      BY <3>2, SnapshotChunksAssumption DEF NoSender
    <3> QED BY <3>1, <3>2, <3>3 DEF Existing, Empty
  <2>2. ASSUME NEW ch \in Existing(t) PROVE \E i \in 1 .. n : order[i].channel = ch
    <3>1. PICK e \in Addrs : t[ch].peers[e] # NoSender
      BY DEF Existing, Empty
    <3>2. ch \in Channels /\ t[ch].peers[e] \in Senders
      BY <3>1 DEF Existing, Tables, Rows
    <3>3. PICK p : p = <<ch, t[ch].peers[e], e>>
      OBVIOUS
    <3>4. p \in Named(t) /\ p[1] = ch
      BY <3>2, <3>3 DEF Named
    <3> QED BY <1>1, <3>4
  <2> QED BY <1>2, <2>1, <2>2 DEF Seen
<1>4. Cardinality(Existing(t)) \in Nat
  <2>1. Existing(t) \subseteq Channels
    BY DEF Existing
  <2>2. IsFiniteSet(Existing(t))
    BY <2>1, SnapshotChunksAssumption, FS_Subset
  <2> QED BY <2>2, FS_CardinalityType
<1>5. ChannelCost \in Nat
  BY SnapshotChunksAssumption
<1>6. ChannelCost * Cardinality(Existing(t)) \in Nat
  BY <1>4, <1>5
<1> HIDE DEF n
<1> QED BY <1>1, <1>3, <1>6 DEF Cost, n

LEMMA EveryTableChunkedWell ==
    ASSUME NEW t \in Tables
    PROVE  ChunkedWell(t)
<1>1. PICK order : order = Participants(t)
  OBVIOUS
<1>2. CASE order = <<>>
  BY <1>1, <1>2, EmptyTable
<1>3. CASE order # <<>>
  <2>1. PICK loop : LoopSound(loop, order, Len(order)) /\ Chunks(t) = Closed(loop)
    BY <1>1, <1>3, LoopEndsSound
  <2>2. PICK chunks : chunks = Chunks(t)
    OBVIOUS
  <2>3. order \in Seq(RowType) /\ Len(order) \in Nat
    BY <1>1, OrderFacts DEF RowType
  <2>4. /\ Listed(chunks, order, Len(order)) /\ chunks \in Seq(Seq(EntryType))
        /\ \A i \in DOMAIN chunks : Fits(chunks[i])
    BY <2>1, <2>2, <2>3, ClosedListed DEF LoopSound
  <2>5. Represents(chunks, t)
    BY <1>1, <2>4, ListedRepresents
  <2>6. PICK total : total = Cost(order, Len(order))
    OBVIOUS
  <2>7. total = Cardinality(Named(t)) + ChannelCost * Cardinality(Existing(t)) /\ total \in Nat
    BY <1>1, <1>3, <2>6, AllCost
  <2>8. Len(chunks) \in Nat \ {0} /\ 2 * total >= Capacity * (Len(chunks) - 1)
    BY <2>1, <2>2, <2>6, <2>7, ClosedWeighs DEF LoopSound
  <2>9. chunks = [i \in 1 .. Len(chunks) |-> chunks[i]]
    BY <2>4
  <2>10. CutWhole(t)
    BY <2>2, <2>5, <2>8, <2>9 DEF CutWhole
  <2>11. ASSUME TooLarge(t) PROVE 2 * total >= Capacity * MaxChunks
    <3>1. PICK k : k = Len(chunks) - 1
      OBVIOUS
    <3>2. k \in Nat /\ MaxChunks \in Nat /\ Capacity \in Nat /\ MaxChunks <= k
      BY <2>2, <2>8, <2>11, <3>1, SnapshotChunksAssumption DEF TooLarge
    <3>3. PICK d \in Nat : k = MaxChunks + d
      <4>1. k - MaxChunks \in Nat /\ k = MaxChunks + (k - MaxChunks)
        BY <3>2
      <4> QED BY <4>1
    <3>4. Capacity * k = Capacity * MaxChunks + Capacity * d /\ Capacity * d \in Nat /\ Capacity * MaxChunks \in Nat
      BY <3>2, <3>3
    <3>5. 2 * total >= Capacity * k
      BY <2>8, <3>1
    <3> QED BY <2>7, <3>4, <3>5
  <2> QED BY <2>7, <2>10, <2>11 DEF ChunkedWell
<1> QED BY <1>2, <1>3

(* Whatever the table, its chunks are the table, or it is refused for its  *)
(* size (privateControlChunkSnapshotEntries).                              *)
THEOREM ChunksAlwaysRepresentTable == CutSpec => []ChunksRepresentTable
<1>1. CutInit => captured \in Tables
  BY DEF CutInit
<1>2. captured \in Tables /\ [UNCHANGED captured]_captured => (captured \in Tables)'
  OBVIOUS
<1>3. captured \in Tables => ChunksRepresentTable
  BY EveryTableChunkedWell DEF ChunksRepresentTable
<1> QED BY <1>1, <1>2, <1>3, PTL DEF CutSpec

LEMMA EveryCutWhole == \A t \in Tables : CutWhole(t)
BY EveryTableChunkedWell DEF ChunkedWell

-----------------------------------------------------------------------------
(* The sessions.                                                           *)

EventsAt(n) == {m \in EventType : m.n = n}

(* The frames of the snapshots.                                            *)
ChunkType ==
    [kind: {"chunk"}, id: Nat, n: Nat, index: Nat, count: Nat,
     channels: {Chunks(t)[k] : t \in Tables, k \in Nat}]

Types ==
    /\ past \in Seq(Tables) /\ Len(past) \in 1 .. MaxChanges + 1 + floor
    /\ owed \in [Publishers -> Seq(MessageType)]
    /\ announced \in SUBSET EventType
    /\ dropped \in BOOLEAN
    /\ eventMu \in Conns \cup {NoConn}
    /\ queued \in [Conns -> 0 .. QueueDepth]
    /\ sessions \in [Services -> Conns \cup {NoConn}]
    /\ stage \in [Conns -> Stages]
    /\ want \in Wants
    /\ previous \in [Conns -> Conns \cup {NoConn}]
    /\ log \in [Conns -> Seq(MessageType \cup ChunkType)]
    /\ pending \in [Conns -> Seq(ChunkType)]
    /\ done \in [Conns -> BOOLEAN]
    /\ writer \in [Conns -> {"off", "select", "blocked"}]
    /\ open \in [Conns -> BOOLEAN]
    /\ asked \in [Conns -> Nat] /\ \A c \in Conns : asked[c] <= MaxRequests[c]
    /\ floor \in 0 .. MaxFloor

(* A reader has chunks to queue exactly while it is in a snapshot, and     *)
(* then holds eventMu; a closed session takes nothing.                     *)
Holder ==
    \A c \in Conns :
        /\ stage[c] = "chunk" => eventMu = c
        /\ stage[c] = "chunk" <=> pending[c] # <<>>
        /\ done[c] => log[c] = <<>>

-----------------------------------------------------------------------------
(* What the messages are.                                                  *)
LEMMA MessageFacts ==
    /\ EventType \subseteq MessageType
    /\ \A m \in EventType : m.kind = "event" /\ m.n \in 1 .. MaxChanges + MaxFloor
    /\ \A m \in MessageType :
         /\ ~IsChunk(m)
         /\ m.kind = "event" => m \in EventType /\ m.n \in 1 .. MaxChanges + MaxFloor
    /\ \A m \in ChunkType : IsChunk(m) /\ m.kind # "event"
    /\ \A n : EventsAt(n) \subseteq EventType
    /\ \A n : \A m \in EventsAt(n) : m.kind = "event" /\ m.n = n
    /\ \A kind \in {"hello_ack", "health", "audit", "answer"} :
         Plain(kind) \in MessageType /\ ~Recorded(Plain(kind)) /\ Plain(kind).kind = kind
  BY DEF MessageType, EventType, ChunkType, IsChunk, Recorded, EventsAt, Plain

(* The events of a change are events of that change.                       *)
LEMMA NewEvents ==
    ASSUME NEW n \in 1 .. MaxChanges + MaxFloor, NEW whats \in Seq(Lifecycle)
    PROVE  [k \in DOMAIN whats |-> Event(whats[k], n, k)] \in Seq(EventsAt(n))
  <1>1. Len(whats) \in Nat /\ DOMAIN whats = 1 .. Len(whats)
    OBVIOUS
  <1>2. ASSUME NEW k \in 1 .. Len(whats) PROVE Event(whats[k], n, k) \in EventsAt(n)
    <2>1. whats[k] \in Lifecycle /\ k \in Nat \ {0}
      BY <1>1
    <2>. QED
      BY <2>1 DEF EventsAt, EventType, Event
  <1>. QED
    BY <1>1, <1>2

(* Sequences at their ends.                                                *)
LEMMA EmptyFacts ==
    ASSUME NEW S, NEW s \in Seq(S)
    PROVE  s = <<>> <=> Len(s) = 0
  OBVIOUS

LEMMA SeqWidens ==
    ASSUME NEW S, NEW T, S \subseteq T, NEW s \in Seq(S)
    PROVE  s \in Seq(T)
  OBVIOUS

LEMMA TailFacts ==
    ASSUME NEW S, NEW s \in Seq(S), s # <<>>
    PROVE  /\ Len(s) \in Nat \ {0}
           /\ Head(s) = s[1] /\ Head(s) \in S
           /\ Tail(s) \in Seq(S) /\ Len(Tail(s)) = Len(s) - 1
           /\ \A i \in 1 .. Len(s) - 1 : Tail(s)[i] = s[i + 1]
           /\ Tail(s) = <<>> <=> Len(s) = 1
  <1>1. Len(s) \in Nat \ {0}
    OBVIOUS
  <1>2. Tail(s) \in Seq(S) /\ Len(Tail(s)) = Len(s) - 1
    BY <1>1
  <1>3. Tail(s) = <<>> <=> Len(Tail(s)) = 0
    BY <1>2, EmptyFacts
  <1>. QED
    BY <1>1, <1>2, <1>3

LEMMA AppendFacts ==
    ASSUME NEW S, NEW s \in Seq(S), NEW m \in S
    PROVE  /\ Append(s, m) \in Seq(S)
           /\ Len(s) \in Nat /\ Len(Append(s, m)) = Len(s) + 1
           /\ DOMAIN s = 1 .. Len(s) /\ DOMAIN Append(s, m) = 1 .. Len(s) + 1
           /\ \A i \in 1 .. Len(s) : Append(s, m)[i] = s[i]
           /\ Append(s, m)[Len(s) + 1] = m
  OBVIOUS

(* What a message does to the queues.                                      *)
LEMMA EnqueueFacts ==
    ASSUME Types, Holder, NEW m \in MessageType \cup ChunkType,
           NEW receivers \in SUBSET Conns, Enqueue(m, receivers)
    PROVE  /\ queued' \in [Conns -> 0 .. QueueDepth]
           /\ log' \in [Conns -> Seq(MessageType \cup ChunkType)]
           /\ \A c \in Conns :
                IF c \in receivers /\ CanEnqueue(c) /\ Recorded(m)
                THEN log'[c] = Append(log[c], m) ELSE log'[c] = log[c]
           /\ \A c \in Conns : done[c] => log'[c] = <<>>
  <1>. DEFINE takes == {c \in receivers : CanEnqueue(c)}
  <1>1. /\ queued' = [c \in Conns |-> IF c \in takes THEN queued[c] + 1 ELSE queued[c]]
        /\ log' = [c \in Conns |-> IF c \in takes /\ Recorded(m) THEN Append(log[c], m) ELSE log[c]]
    BY DEF Enqueue
  <1>2. queued' \in [Conns -> 0 .. QueueDepth]
    <2>1. QueueDepth \in Nat /\ \A c \in Conns : queued[c] \in 0 .. QueueDepth
      BY PrivateSessionAssumption DEF Types
    <2>2. \A c \in Conns : (IF c \in takes THEN queued[c] + 1 ELSE queued[c]) \in 0 .. QueueDepth
      BY <2>1 DEF CanEnqueue
    <2>. QED
      BY <1>1, <2>2
  <1>3. \A c \in Conns :
          IF c \in receivers /\ CanEnqueue(c) /\ Recorded(m)
          THEN log'[c] = Append(log[c], m) ELSE log'[c] = log[c]
    BY <1>1
  <1>4. \A c \in Conns : /\ log[c] \in Seq(MessageType \cup ChunkType)
                         /\ Append(log[c], m) \in Seq(MessageType \cup ChunkType)
    BY DEF Types
  <1>5. log' \in [Conns -> Seq(MessageType \cup ChunkType)]
    BY <1>1, <1>4
  <1>6. \A c \in Conns : done[c] => log'[c] = <<>>
    BY <1>3 DEF CanEnqueue, Holder
  <1>. QED
    BY <1>2, <1>3, <1>5, <1>6

(* A message that is not recorded leaves the logs as they are.             *)
LEMMA PlainEnqueued ==
    ASSUME Types, Holder, NEW kind \in {"hello_ack", "health", "audit", "answer"},
           NEW receivers \in SUBSET Conns, Enqueue(Plain(kind), receivers)
    PROVE  queued' \in [Conns -> 0 .. QueueDepth] /\ log' = log
  <1>1. Plain(kind) \in MessageType /\ ~Recorded(Plain(kind))
    BY MessageFacts
  <1>2. /\ queued' \in [Conns -> 0 .. QueueDepth]
        /\ log' \in [Conns -> Seq(MessageType \cup ChunkType)]
        /\ \A c \in Conns : log'[c] = log[c]
    BY <1>1, EnqueueFacts
  <1>. QED
    BY <1>2 DEF Types

(* The table is a table.                                                   *)
LEMMA TableType ==
    ASSUME Types
    PROVE  table \in Tables /\ Len(past) \in Nat \ {0}
  <1>1. Len(past) \in Nat \ {0} /\ floor \in Nat
    BY PrivateSessionAssumption DEF Types
  <1>. QED
    BY <1>1 DEF Types, table

(* So is what the goroutines make of it.                                   *)
LEMMA RowFacts ==
    ASSUME NEW t \in Tables
    PROVE  /\ \A ch \in Channels : t[ch] \in Rows /\ (Empty(t[ch]) => t[ch].talkers = {})
           /\ \A ch \in Channels : \A row \in Rows :
                (Empty(row) => row.talkers = {}) => [t EXCEPT ![ch] = row] \in Tables
  BY DEF Tables

LEMMA JoinedTable ==
    ASSUME NEW t \in Tables, NEW ch \in Channels, NEW a \in Addrs, NEW s \in Senders
    PROVE  [t EXCEPT ![ch].peers[a] = s] \in Tables
  <1>. DEFINE row == [t[ch] EXCEPT !.peers[a] = s]
  <1>1. t[ch] \in Rows
    BY RowFacts
  <1>2. row \in Rows /\ row.peers[a] = s
    BY <1>1 DEF Rows
  <1>3. ~Empty(row)
    BY <1>2, SnapshotChunksAssumption DEF Empty, NoSender
  <1>4. [t EXCEPT ![ch].peers[a] = s] = [t EXCEPT ![ch] = row]
    OBVIOUS
  <1>. QED
    BY <1>2, <1>3, <1>4, RowFacts

LEMMA TalkingTable ==
    ASSUME NEW t \in Tables, NEW ch \in Channels, ~Empty(t[ch]), NEW T \in SUBSET Senders
    PROVE  [t EXCEPT ![ch].talkers = T] \in Tables
  <1>. DEFINE row == [t[ch] EXCEPT !.talkers = T]
  <1>1. t[ch] \in Rows
    BY RowFacts
  <1>2. row \in Rows /\ row.peers = t[ch].peers
    BY <1>1 DEF Rows
  <1>3. ~Empty(row)
    BY <1>2 DEF Empty
  <1>4. [t EXCEPT ![ch].talkers = T] = [t EXCEPT ![ch] = row]
    OBVIOUS
  <1>. QED
    BY <1>2, <1>3, <1>4, RowFacts

LEMMA ReducedRow ==
    ASSUME NEW row \in Rows, NEW gone, NEW ended
    PROVE  /\ Reduced(row, gone, ended) \in Rows
           /\ Empty(Reduced(row, gone, ended)) => Reduced(row, gone, ended).talkers = {}
  <1>. DEFINE p == [a \in Addrs |-> IF a \in gone THEN NoSender ELSE row.peers[a]]
              left == [row EXCEPT !.peers = [a \in Addrs |-> IF a \in gone THEN NoSender ELSE @[a]],
                                  !.talkers = @ \ ended]
  <1>1. row.peers \in [Addrs -> Senders \cup {NoSender}] /\ row.talkers \in SUBSET Senders
    BY DEF Rows
  <1>2. p \in [Addrs -> Senders \cup {NoSender}]
    BY <1>1
  <1>3. left = [row EXCEPT !.peers = p, !.talkers = row.talkers \ ended]
    OBVIOUS
  <1>4. left \in Rows
    <2>. HIDE DEF p, left
    <2>. QED
      BY <1>1, <1>2, <1>3 DEF Rows
  <1>5. [left EXCEPT !.talkers = {}] \in Rows /\ [left EXCEPT !.talkers = {}].talkers = {}
    <2>. HIDE DEF left
    <2>. QED
      BY <1>4 DEF Rows
  <1>6. Reduced(row, gone, ended) = IF Empty(left) THEN [left EXCEPT !.talkers = {}] ELSE left
    BY DEF Reduced
  <1>. HIDE DEF left
  <1>. QED
    BY <1>4, <1>5, <1>6

(* What the goroutines that run the Relay do: nothing, or one more table   *)
(* and the events of the change, to be published by one who owed nothing   *)
(* or goes on owing it.                                                    *)
TableChanges(p) ==
    \E t \in Tables, events \in Seq(EventsAt(Len(past))), rest \in {<<>>, <<Plain("audit")>>, owed[p]} :
        /\ owed[p] = <<>> \/ rest = owed[p]
        /\ past' = Append(past, t)
        /\ owed' = [owed EXCEPT ![p] = events \o rest]
        /\ announced' = announced \cup {events[k] : k \in DOMAIN events}

NothingChanges(p) ==
    /\ owed[p] = <<>>
    /\ UNCHANGED <<past, announced>>
    /\ owed' = [owed EXCEPT ![p] = <<Plain("audit")>>]

RelayStep ==
    \/ \E x \in Packets : Join(x) \/ PttOn(x) \/ LeavePacket(x) \/ PttRequest(x)
    \/ \E x \in Sweeps : Sweep(x)

LEMMA AnnounceEffect ==
    ASSUME Types, NEW p \in Publishers, NEW t \in Tables, NEW whats \in Seq(Lifecycle),
           NEW rest \in {<<>>, <<Plain("audit")>>, owed[p]}, owed[p] = <<>> \/ rest = owed[p],
           Announce(p, t, whats, rest), Len(past) \in 1 .. MaxChanges + MaxFloor
    PROVE  TableChanges(p) /\ Len(past') = Len(past) + 1
  <1>. DEFINE events == [k \in DOMAIN whats |-> Event(whats[k], Len(past), k)]
  <1>1. events \in Seq(EventsAt(Len(past)))
    BY NewEvents
  <1>2. /\ past' = Append(past, t)
        /\ owed' = [owed EXCEPT ![p] = events \o rest]
        /\ announced' = announced \cup {events[k] : k \in DOMAIN events}
    BY DEF Announce
  <1>3. Len(past') = Len(past) + 1
    BY <1>2 DEF Types
  <1>4. TableChanges(p)
    <2>. HIDE DEF events
    <2>. QED
      BY <1>1, <1>2, Zenon DEF TableChanges
  <1>. QED
    BY <1>3, <1>4

(* What ends in one critical section can be counted.                       *)
LEMMA SweepCounts ==
    ASSUME NEW x \in Sweeps
    PROVE  Cardinality(Ended(x)) \in Nat /\ Cardinality(Departed(x)) \in Nat
  <1>1. IsFiniteSet(Channels \X Senders) /\ IsFiniteSet(Channels \X Addrs)
    BY SnapshotChunksAssumption, FS_Product
  <1>2. Ended(x) \subseteq Channels \X Senders /\ Departed(x) \subseteq Channels \X Addrs
    BY PrivateSessionAssumption DEF Ended, Departed
  <1>3. IsFiniteSet(Ended(x)) /\ IsFiniteSet(Departed(x))
    BY <1>1, <1>2, FS_Subset
  <1>. QED
    BY <1>3, FS_CardinalityType

LEMMA RelayEffect ==
    ASSUME Types, RelayStep
    PROVE  /\ \E p \in Publishers : TableChanges(p) \/ NothingChanges(p)
           /\ Len(past') \in 1 .. MaxChanges + 1 + floor'
           /\ floor' \in 0 .. MaxFloor
           /\ past' # past => Len(past) \in 1 .. MaxChanges + MaxFloor
           /\ UNCHANGED <<eventMu, queueVars, readerVars, stage, connVars>>
  <1>0. /\ table \in Tables /\ Len(past) \in Nat \ {0}
        /\ floor \in 0 .. MaxFloor /\ MaxFloor \in Nat /\ MaxChanges \in Nat
        /\ Len(past) \in 1 .. MaxChanges + 1 + floor
        /\ RunLoop \in Publishers
    BY TableType, PrivateSessionAssumption DEF Types
  <1>1. ASSUME NEW p \in Publishers, TableChanges(p), Len(past') = Len(past) + 1,
               Len(past) <= MaxChanges,
               UNCHANGED <<floor, eventMu, queueVars, readerVars, stage, connVars>>
        PROVE  /\ \E q \in Publishers : TableChanges(q) \/ NothingChanges(q)
               /\ Len(past') \in 1 .. MaxChanges + 1 + floor'
               /\ floor' \in 0 .. MaxFloor
               /\ past' # past => Len(past) \in 1 .. MaxChanges + MaxFloor
               /\ UNCHANGED <<eventMu, queueVars, readerVars, stage, connVars>>
    <2>1. floor' = floor
      BY <1>1
    <2>2. Len(past') \in 1 .. MaxChanges + 1 + floor' /\ Len(past) \in 1 .. MaxChanges + MaxFloor
      BY <1>0, <1>1, <2>1
    <2>. QED
      BY <1>0, <1>1, <2>1, <2>2
  <1>2. \A x \in Packets : x.channel \in Channels /\ x.sender \in Senders /\ x.addr \in Addrs
    BY PrivateSessionAssumption
  <1>3. Len(past) <= MaxChanges => Len(past) \in 1 .. MaxChanges + MaxFloor
    BY <1>0
  <1>4. /\ <<>> \in Seq(Lifecycle) /\ <<"participant_joined">> \in Seq(Lifecycle)
        /\ <<"participant_left">> \in Seq(Lifecycle) /\ <<"talk_started">> \in Seq(Lifecycle)
        /\ <<"talk_ended", "talk_started">> \in Seq(Lifecycle)
    BY DEF Lifecycle
  <1>5. ASSUME NEW x \in Packets, Join(x)
        PROVE  /\ TableChanges(RunLoop) /\ Len(past') = Len(past) + 1 /\ Len(past) <= MaxChanges
               /\ UNCHANGED <<floor, eventMu, queueVars, readerVars, stage, connVars>>
    <2>. DEFINE t == [table EXCEPT ![x.channel].peers[x.addr] = x.sender]
    <2>1. PICK whats \in {<<>>, <<"participant_joined">>} : Announce(RunLoop, t, whats, <<>>)
      BY <1>5 DEF Join
    <2>2. /\ owed[RunLoop] = <<>> /\ Len(past) <= MaxChanges
          /\ UNCHANGED <<floor, eventMu, queueVars, readerVars, stage, connVars>>
      BY <1>5 DEF Join, Ready
    <2>3. t \in Tables
      BY <1>0, <1>2, JoinedTable
    <2>4. whats \in Seq(Lifecycle)
      BY <1>4, <2>1
    <2>. HIDE DEF t
    <2>. QED
      BY <1>0, <1>3, <2>1, <2>2, <2>3, <2>4, AnnounceEffect
  <1>6. ASSUME NEW x \in Packets, PttOn(x)
        PROVE  /\ TableChanges(RunLoop) /\ Len(past') = Len(past) + 1 /\ Len(past) <= MaxChanges
               /\ UNCHANGED <<floor, eventMu, queueVars, readerVars, stage, connVars>>
    <2>1. /\ owed[RunLoop] = <<>> /\ Len(past) <= MaxChanges
          /\ x.channel \in Existing(table)
          /\ Announce(RunLoop, Granted(x), <<"talk_started">>, <<>>)
          /\ UNCHANGED <<floor, eventMu, queueVars, readerVars, stage, connVars>>
      BY <1>6 DEF PttOn, Ready
    <2>2. Granted(x) \in Tables
      <3>1. table[x.channel].talkers \cup {x.sender} \in SUBSET Senders
        BY <1>0, <1>2, RowFacts DEF Rows
      <3>2. ~Empty(table[x.channel])
        BY <2>1 DEF Existing
      <3>. DEFINE T == table[x.channel].talkers \cup {x.sender}
      <3>3. Granted(x) = [table EXCEPT ![x.channel].talkers = T]
        BY DEF Granted
      <3>. HIDE DEF T
      <3>4. [table EXCEPT ![x.channel].talkers = T] \in Tables
        BY <1>0, <1>2, <3>1, <3>2, TalkingTable, Zenon DEF T
      <3>. QED
        BY <3>3, <3>4, Zenon
    <2>. QED
      BY <1>0, <1>3, <1>4, <2>1, <2>2, AnnounceEffect
  <1>7. ASSUME NEW x \in Packets, LeavePacket(x)
        PROVE  /\ TableChanges(RunLoop) /\ Len(past') = Len(past) + 1 /\ Len(past) <= MaxChanges
               /\ UNCHANGED <<floor, eventMu, queueVars, readerVars, stage, connVars>>
    <2>1. /\ owed[RunLoop] = <<>> /\ Len(past) <= MaxChanges
          /\ \E gone : Announce(RunLoop, [table EXCEPT ![x.channel] = Reduced(table[x.channel], gone, {})],
                                <<"participant_left">>, <<>>)
          /\ UNCHANGED <<floor, eventMu, queueVars, readerVars, stage, connVars>>
      BY <1>7 DEF LeavePacket, Ready
    <2>2. PICK gone : Announce(RunLoop, [table EXCEPT ![x.channel] = Reduced(table[x.channel], gone, {})],
                               <<"participant_left">>, <<>>)
      BY <2>1
    <2>3. [table EXCEPT ![x.channel] = Reduced(table[x.channel], gone, {})] \in Tables
      BY <1>0, <1>2, RowFacts, ReducedRow
    <2>. QED
      BY <1>0, <1>3, <1>4, <2>1, <2>2, <2>3, AnnounceEffect
  <1>8. ASSUME NEW x \in Sweeps, Sweep(x)
        PROVE  /\ x.by \in Publishers
               /\ TableChanges(x.by) /\ Len(past') = Len(past) + 1 /\ Len(past) <= MaxChanges
               /\ UNCHANGED <<floor, eventMu, queueVars, readerVars, stage, connVars>>
    <2>. DEFINE ended == Cardinality(Ended(x))
                left  == Cardinality(Departed(x))
                whats == [k \in 1 .. ended + left |-> IF k <= ended THEN "talk_ended" ELSE "participant_left"]
                t == [ch \in Channels |->
                        Reduced(table[ch], {a \in Addrs : <<ch, a>> \in x.gone}, EndedIn(ch, x))]
    <2>1. /\ Len(past) <= MaxChanges
          /\ Announce(x.by, t, whats, owed[x.by])
          /\ UNCHANGED <<floor, eventMu, queueVars, readerVars, stage, connVars>>
      BY <1>8 DEF Sweep
    <2>2. x.by \in Publishers
      BY PrivateSessionAssumption
    <2>3. whats \in Seq(Lifecycle)
      <3>1. ended + left \in Nat
        BY SweepCounts
      <3>. HIDE DEF ended, left
      <3>. QED
        BY <3>1 DEF Lifecycle
    <2>4. t \in Tables
      <3>1. ASSUME NEW ch \in Channels
            PROVE  t[ch] \in Rows /\ (Empty(t[ch]) => t[ch].talkers = {})
        <4>. DEFINE gone == {a \in Addrs : <<ch, a>> \in x.gone}
                    over == EndedIn(ch, x)
        <4>1. t[ch] = Reduced(table[ch], gone, over)
          OBVIOUS
        <4>2. table[ch] \in Rows
          BY <1>0, RowFacts
        <4>. HIDE DEF t, gone, over
        <4>3. /\ Reduced(table[ch], gone, over) \in Rows
              /\ Empty(Reduced(table[ch], gone, over)) => Reduced(table[ch], gone, over).talkers = {}
          BY <4>2, ReducedRow
        <4>. QED
          BY <4>1, <4>3
      <3>2. \A ch \in Channels : t[ch] \in Rows /\ (Empty(t[ch]) => t[ch].talkers = {})
        BY <3>1
      <3>3. t = [ch \in Channels |-> t[ch]]
        OBVIOUS
      <3>. HIDE DEF t
      <3>. QED
        BY <3>2, <3>3 DEF Tables
    <2>. HIDE DEF t, whats
    <2>. QED
      BY <1>0, <1>3, <2>1, <2>2, <2>3, <2>4, AnnounceEffect
  <1>9. ASSUME NEW x \in Packets, PttRequest(x)
        PROVE  /\ \E p \in Publishers : TableChanges(p) \/ NothingChanges(p)
               /\ Len(past') \in 1 .. MaxChanges + 1 + floor'
               /\ floor' \in 0 .. MaxFloor
               /\ past' # past => Len(past) \in 1 .. MaxChanges + MaxFloor
               /\ UNCHANGED <<eventMu, queueVars, readerVars, stage, connVars>>
    <2>. DEFINE row == table[x.channel]
    <2>1. /\ owed[RunLoop] = <<>> /\ floor < MaxFloor /\ floor' = floor + 1
          /\ UNCHANGED <<eventMu, queueVars, readerVars, stage, connVars>>
      BY <1>9 DEF PttRequest
    <2>2. Len(past) \in 1 .. MaxChanges + MaxFloor /\ floor' \in 0 .. MaxFloor
      BY <1>0, <2>1
    <2>3. \/ owed' = [owed EXCEPT ![RunLoop] = <<Plain("audit")>>] /\ UNCHANGED <<past, announced>>
          \/ /\ row.peers[x.addr] = x.sender
             /\ Announce(RunLoop, Granted(x), <<"talk_started">>, <<Plain("audit")>>)
          \/ /\ row.peers[x.addr] = x.sender
             /\ \E victim \in row.talkers :
                  Announce(RunLoop,
                           [table EXCEPT ![x.channel].talkers = (@ \ {victim}) \cup {x.sender}],
                           <<"talk_ended", "talk_started">>, <<Plain("audit")>>)
      BY <1>9 DEF PttRequest
    <2>4. row.peers[x.addr] = x.sender => ~Empty(row)
      BY <1>2, SnapshotChunksAssumption DEF Empty, NoSender
    <2>5. row \in Rows /\ table = [ch \in Channels |-> table[ch]]
      BY <1>0, <1>2, RowFacts DEF Tables
    <2>6. ASSUME NEW t \in Tables, NEW whats \in Seq(Lifecycle),
                 Announce(RunLoop, t, whats, <<Plain("audit")>>)
          PROVE  /\ \E p \in Publishers : TableChanges(p) \/ NothingChanges(p)
                 /\ Len(past') \in 1 .. MaxChanges + 1 + floor'
      <3>1. TableChanges(RunLoop) /\ Len(past') = Len(past) + 1
        BY <1>0, <2>1, <2>2, <2>6, AnnounceEffect
      <3>. QED
        BY <1>0, <2>1, <3>1
    <2>7. CASE owed' = [owed EXCEPT ![RunLoop] = <<Plain("audit")>>] /\ UNCHANGED <<past, announced>>
      <3>1. NothingChanges(RunLoop)
        BY <2>1, <2>7 DEF NothingChanges
      <3>2. Len(past') \in 1 .. MaxChanges + 1 + floor'
        BY <1>0, <2>1, <2>7
      <3>. QED
        BY <1>0, <2>1, <2>2, <3>1, <3>2
    <2>8. CASE /\ row.peers[x.addr] = x.sender
               /\ Announce(RunLoop, Granted(x), <<"talk_started">>, <<Plain("audit")>>)
      <3>1. row.talkers \cup {x.sender} \in SUBSET Senders
        BY <1>2, <2>5 DEF Rows
      <3>. DEFINE T == row.talkers \cup {x.sender}
      <3>2. Granted(x) = [table EXCEPT ![x.channel].talkers = T]
        BY DEF Granted
      <3>3. ~Empty(table[x.channel])
        BY <2>4, <2>8
      <3>. HIDE DEF T
      <3>4. [table EXCEPT ![x.channel].talkers = T] \in Tables
        BY <1>0, <1>2, <3>1, <3>3, TalkingTable, Zenon DEF T
      <3>5. Granted(x) \in Tables
        BY <3>2, <3>4, Zenon
      <3>. QED
        BY <1>4, <2>1, <2>2, <2>6, <2>8, <3>5
    <2>9. CASE /\ row.peers[x.addr] = x.sender
               /\ \E victim \in row.talkers :
                    Announce(RunLoop,
                             [table EXCEPT ![x.channel].talkers = (@ \ {victim}) \cup {x.sender}],
                             <<"talk_ended", "talk_started">>, <<Plain("audit")>>)
      <3>1. PICK victim \in row.talkers :
                    Announce(RunLoop,
                             [table EXCEPT ![x.channel].talkers = (@ \ {victim}) \cup {x.sender}],
                             <<"talk_ended", "talk_started">>, <<Plain("audit")>>)
        BY <2>9
      <3>2. (row.talkers \ {victim}) \cup {x.sender} \in SUBSET Senders
        BY <1>2, <2>5 DEF Rows
      <3>3. [table EXCEPT ![x.channel].talkers = (@ \ {victim}) \cup {x.sender}]
              = [table EXCEPT ![x.channel].talkers = (row.talkers \ {victim}) \cup {x.sender}]
        OBVIOUS
      <3>4. [table EXCEPT ![x.channel].talkers = (@ \ {victim}) \cup {x.sender}] \in Tables
        BY <1>0, <1>2, <2>4, <2>9, <3>2, <3>3, TalkingTable
      <3>. QED
        BY <1>4, <2>1, <2>2, <2>6, <3>1, <3>4
    <2>. QED
      BY <2>3, <2>7, <2>8, <2>9
  <1>10. CASE \E x \in Packets : Join(x) \/ PttOn(x) \/ LeavePacket(x)
    BY <1>0, <1>1, <1>5, <1>6, <1>7, <1>10
  <1>11. CASE \E x \in Sweeps : Sweep(x)
    BY <1>1, <1>8, <1>11
  <1>12. CASE \E x \in Packets : PttRequest(x)
    BY <1>9, <1>12
  <1>. QED
    BY <1>10, <1>11, <1>12 DEF RelayStep

Base == Types /\ Holder

(* Who gets the message that p publishes next.                             *)
Receivers(p) ==
    {c \in Registered : IF Head(owed[p]).kind = "event" THEN want[c].events ELSE want[c].audits}

(* Publishing takes the next message and puts it in the queues, or there   *)
(* is no id for it.                                                        *)
LEMMA PublishEffect ==
    ASSUME Base, NEW p \in Publishers, PublishEvent(p) \/ PublishAudit(p)
    PROVE  /\ owed[p] # <<>> /\ owed[p] \in Seq(MessageType)
           /\ Head(owed[p]) \in MessageType
           /\ Head(owed[p]).kind \in {"event", "audit"}
           /\ Head(owed[p]).kind = "event" => eventMu = NoConn
           /\ owed' = [owed EXCEPT ![p] = Tail(@)]
           /\ \/ /\ Enqueue(Head(owed[p]), Receivers(p))
                 /\ dropped' = (dropped \/ \E c \in Receivers(p) : ~CanEnqueue(c))
                 /\ UNCHANGED announced
              \/ /\ UNCHANGED <<log, queued, dropped>>
                 /\ announced' = announced \ {Head(owed[p])}
           /\ UNCHANGED <<past, floor, eventMu, readerVars, stage, connVars>>
  <1>1. owed[p] # <<>> /\ owed[p] \in Seq(MessageType)
    BY DEF PublishEvent, PublishAudit, Base, Types
  <1>2. Head(owed[p]) \in MessageType
    BY <1>1
  <1>3. CASE PublishEvent(p)
    <2>1. Head(owed[p]).kind = "event"
      BY <1>3 DEF PublishEvent
    <2>2. Receivers(p) = {c \in Registered : want[c].events}
      BY <2>1 DEF Receivers
    <2>. QED
      BY <1>1, <1>2, <1>3, <2>1, <2>2 DEF PublishEvent, Deliver, EventsFree, queueVars
  <1>4. CASE PublishAudit(p)
    <2>1. Head(owed[p]).kind = "audit"
      BY <1>4 DEF PublishAudit
    <2>2. Receivers(p) = {c \in Registered : want[c].audits}
      BY <2>1 DEF Receivers
    <2>3. announced \ {Head(owed[p])} = announced
      BY <2>1, MessageFacts DEF Base, Types
    <2>. QED
      BY <1>1, <1>2, <1>4, <2>1, <2>2, <2>3 DEF PublishAudit, Deliver, queueVars, relayVars
  <1>. QED
    BY <1>3, <1>4

(* The frames of a snapshot are a sequence of frames.                      *)
LEMMA SnapshotOfFacts ==
    ASSUME Base, NEW c \in Conns
    PROVE  /\ table \in Tables /\ Len(Chunks(table)) \in Nat \ {0}
           /\ SnapshotOf(c) \in Seq(ChunkType) /\ SnapshotOf(c) # <<>>
           /\ Len(SnapshotOf(c)) = Len(Chunks(table))
           /\ DOMAIN SnapshotOf(c) = 1 .. Len(Chunks(table))
           /\ \A k \in DOMAIN SnapshotOf(c) :
                /\ SnapshotOf(c)[k].id = asked[c] + 1 /\ SnapshotOf(c)[k].n = Len(past) - 1
                /\ SnapshotOf(c)[k].index = k /\ SnapshotOf(c)[k].count = Len(Chunks(table))
                /\ SnapshotOf(c)[k].channels = Chunks(table)[k]
  <1>. DEFINE t == table
              size == Len(Chunks(t))
              Frame(k) == [kind |-> "chunk", id |-> asked[c] + 1, n |-> Len(past) - 1,
                           index |-> k, count |-> size, channels |-> Chunks(t)[k]]
  <1>1. t \in Tables /\ Len(past) - 1 \in Nat /\ asked[c] + 1 \in Nat
    <2>1. Types
      BY DEF Base
    <2>2. t \in Tables /\ Len(past) \in Nat \ {0}
      BY <2>1, TableType
    <2>3. asked[c] \in Nat
      BY <2>1 DEF Types
    <2>. QED
      BY <2>2, <2>3
  <1>2. size \in Nat \ {0} /\ DOMAIN Chunks(t) = 1 .. size
    BY <1>1, EveryCutWhole DEF CutWhole
  <1>3. SnapshotOf(c) = [k \in 1 .. size |-> Frame(k)]
    BY <1>2 DEF SnapshotOf
  <1>4. \A k \in 1 .. size : Frame(k) \in ChunkType
    BY <1>1, <1>2 DEF ChunkType
  <1>5. SnapshotOf(c) \in Seq(ChunkType) /\ Len(SnapshotOf(c)) = size
    <2>. HIDE DEF Frame, size, t
    <2>. QED
      BY <1>2, <1>3, <1>4
  <1>6. \A k \in 1 .. size : Frame(k).id = asked[c] + 1 /\ Frame(k).n = Len(past) - 1
          /\ Frame(k).index = k /\ Frame(k).count = size /\ Frame(k).channels = Chunks(t)[k]
    OBVIOUS
  <1>7. \A k \in 1 .. size : SnapshotOf(c)[k] = Frame(k)
    <2>. HIDE DEF Frame, size, t
    <2>. QED
      BY <1>3
  <1>8. DOMAIN SnapshotOf(c) = 1 .. size
    <2>. HIDE DEF Frame, size, t
    <2>. QED
      BY <1>3
  <1>9. \A k \in DOMAIN SnapshotOf(c) :
          /\ SnapshotOf(c)[k].id = asked[c] + 1 /\ SnapshotOf(c)[k].n = Len(past) - 1
          /\ SnapshotOf(c)[k].index = k /\ SnapshotOf(c)[k].count = size
          /\ SnapshotOf(c)[k].channels = Chunks(t)[k]
    <2>. HIDE DEF Frame
    <2>. QED
      BY <1>6, <1>7, <1>8
  <1>10. SnapshotOf(c) # <<>>
    <2>. HIDE DEF size
    <2>. QED
      BY <1>2, <1>5, EmptyFacts
  <1>. HIDE DEF Frame
  <1>. QED
    BY <1>1, <1>2, <1>5, <1>8, <1>9, <1>10

(* The step of a reader that queues a message.                             *)
LEMMA ChunkEffect ==
    ASSUME Base, NEW c \in Conns, Chunk(c)
    PROVE  /\ stage[c] = "chunk" /\ eventMu = c
           /\ pending[c] \in Seq(ChunkType) /\ pending[c] # <<>>
           /\ Head(pending[c]) \in ChunkType
           /\ Enqueue(Head(pending[c]), {c})
           /\ \/ /\ CanEnqueue(c) /\ Len(pending[c]) = 1
                 /\ stage' = [stage EXCEPT ![c] = "read"]
                 /\ eventMu' = NoConn
                 /\ pending' = [pending EXCEPT ![c] = <<>>]
              \/ /\ CanEnqueue(c) /\ Len(pending[c]) # 1
                 /\ stage' = stage
                 /\ eventMu' = c
                 /\ pending' = [pending EXCEPT ![c] = Tail(@)]
                 /\ Tail(pending[c]) # <<>>
              \/ /\ ~CanEnqueue(c)
                 /\ stage' = [stage EXCEPT ![c] = "leave"]
                 /\ eventMu' = NoConn
                 /\ pending' = [pending EXCEPT ![c] = <<>>]
           /\ UNCHANGED <<relayVars, owed, dropped, sessions, want, previous, asked, connVars>>
  <1>1. stage[c] = "chunk" /\ eventMu = c /\ pending[c] \in Seq(ChunkType) /\ pending[c] # <<>>
    BY DEF Chunk, At, Base, Types, Holder
  <1>2. Head(pending[c]) \in ChunkType
    BY <1>1
  <1>3. Len(pending[c]) = 1 => Tail(pending[c]) = <<>>
    BY <1>1, TailFacts
  <1>4. Len(pending[c]) # 1 => Tail(pending[c]) # <<>>
    BY <1>1, TailFacts
  <1>5. stage[c] = "chunk" => [stage EXCEPT ![c] = "chunk"] = stage
    BY DEF Base, Types
  <1>. QED
    BY <1>1, <1>2, <1>3, <1>4, <1>5 DEF Chunk, Reply

(* Types and Holder hold at the start.                                     *)
LEMMA BaseInit == Init => Base
  <1>. SUFFICES ASSUME Init PROVE Base
    OBVIOUS
  <1>1. past \in Seq(Tables) /\ Len(past) = 1 /\ MaxChanges \in Nat /\ MaxFloor \in Nat
    BY PrivateSessionAssumption DEF Init
  <1>2. /\ owed \in [Publishers -> Seq(MessageType)]
        /\ log \in [Conns -> Seq(MessageType \cup ChunkType)]
        /\ pending \in [Conns -> Seq(ChunkType)]
        /\ announced \in SUBSET EventType
    BY DEF Init
  <1>3. \A c \in Conns : MaxRequests[c] \in Nat
    BY PrivateSessionAssumption
  <1>4. queued \in [Conns -> 0 .. QueueDepth]
    BY PrivateSessionAssumption DEF Init
  <1>5. Types
    <2>1. Len(past) \in 1 .. MaxChanges + 1 + floor /\ floor \in 0 .. MaxFloor
      BY <1>1 DEF Init
    <2>2. asked \in [Conns -> Nat] /\ \A c \in Conns : asked[c] <= MaxRequests[c]
      BY <1>3 DEF Init
    <2>. QED
      BY <1>1, <1>2, <1>4, <2>1, <2>2 DEF Init, Types, Stages
  <1>6. Holder
    BY DEF Init, Holder
  <1>. QED
    BY <1>5, <1>6 DEF Base

(* The steps that touch neither the table nor an event.                    *)
QuietStep(c) ==
    \/ Refused(c) \/ Hello(c) \/ ClosePrevious(c) \/ HelloAck(c) \/ Health(c)
    \/ Ask(c) \/ (Snapshot(c) /\ TooLarge(table)) \/ (IdFails(c) /\ ~At(c, "chunk"))
    \/ ReadFails(c) \/ Leave(c) \/ WriterStops(c) \/ Write(c) \/ Unblocked(c) \/ WriteFails(c)

(* A snapshot breaks off: there is no id for its next chunk.               *)
BreaksOff(c) == IdFails(c) /\ At(c, "chunk")

(* They leave the logs alone, or clear the one of a session they close.    *)
LEMMA QuietEffect ==
    ASSUME Base, NEW c \in Conns, QuietStep(c)
    PROVE  /\ \/ UNCHANGED <<log, done>>
              \/ /\ ClosePrevious(c) \/ Leave(c)
                 /\ \A d \in Conns : \/ log'[d] = log[d] /\ done'[d] = done[d]
                                     \/ log'[d] = <<>> /\ done'[d] = TRUE
           /\ UNCHANGED <<past, floor, announced, owed, eventMu, dropped, want, pending>>
           /\ \A d \in Conns \ {c} : stage'[d] = stage[d]
           /\ stage'[c] \in Stages \ {"off", "chunk"} \/ UNCHANGED stage
           /\ stage' # stage => stage[c] # "chunk"
           /\ queued' \in [Conns -> 0 .. QueueDepth]
           /\ log' \in [Conns -> Seq(MessageType \cup ChunkType)]
           /\ done' \in [Conns -> BOOLEAN]
           /\ stage' \in [Conns -> Stages]
           /\ asked' \in [Conns -> Nat] /\ \A d \in Conns : asked[d] <= asked'[d] /\ asked'[d] <= MaxRequests[d]
           /\ stage[c] = "chunk" => asked' = asked
  <1>0. Types /\ Holder
    BY DEF Base
  <1>1. CASE Refused(c)
    BY <1>0, <1>1 DEF Types, Refused, At, GoTo, queueVars, readerVars, relayVars, Stages
  <1>2. CASE Hello(c)
    BY <1>0, <1>2 DEF Types, Hello, At, GoTo, queueVars, connVars, relayVars, Stages
  <1>3. CASE ClosePrevious(c)
    <2>1. /\ done' = [d \in Conns |-> done[d] \/ d = previous[c]]
          /\ log' = [d \in Conns |-> IF d = previous[c] THEN <<>> ELSE log[d]]
          /\ stage[c] = "close" /\ stage' = [stage EXCEPT ![c] = "ack"]
          /\ UNCHANGED <<past, floor, announced, owed, eventMu, queued, dropped, sessions, want, pending, asked, open>>
      BY <1>3 DEF ClosePrevious, At, GoTo, relayVars
    <2>2. log' \in [Conns -> Seq(MessageType \cup ChunkType)] /\ done' \in [Conns -> BOOLEAN]
      BY <1>0, <2>1 DEF Types
    <2>3. \A d \in Conns : \/ log'[d] = log[d] /\ done'[d] = done[d]
                           \/ log'[d] = <<>> /\ done'[d] = TRUE
      BY <1>0, <2>1 DEF Types
    <2>. QED
      BY <1>0, <1>3, <2>1, <2>2, <2>3 DEF Types, Stages
  <1>4. CASE HelloAck(c)
    <2>1. Enqueue(Plain("hello_ack"), {c})
      BY <1>4 DEF HelloAck, Reply
    <2>2. log' = log /\ queued' \in [Conns -> 0 .. QueueDepth]
      BY <1>0, <2>1, PlainEnqueued
    <2>3. /\ stage[c] = "ack"
          /\ \E s \in {"health", "read", "leave"} : stage' = [stage EXCEPT ![c] = s]
          /\ UNCHANGED <<past, floor, announced, owed, eventMu, dropped, want, pending, asked, done>>
      BY <1>4 DEF HelloAck, Reply, At, connVars, readerVars, relayVars
    <2>. QED
      BY <1>0, <2>2, <2>3 DEF Types, Stages
  <1>5. CASE Health(c)
    <2>1. Enqueue(Plain("health"), {c})
      BY <1>5 DEF Health, Reply
    <2>2. log' = log /\ queued' \in [Conns -> 0 .. QueueDepth]
      BY <1>0, <2>1, PlainEnqueued
    <2>3. /\ stage[c] = "health"
          /\ \E s \in {"read", "leave"} : stage' = [stage EXCEPT ![c] = s]
          /\ UNCHANGED <<past, floor, announced, owed, eventMu, dropped, want, pending, asked, done>>
      BY <1>5 DEF Health, Reply, At, connVars, readerVars, relayVars
    <2>. QED
      BY <1>0, <2>2, <2>3 DEF Types, Stages
  <1>6. CASE Ask(c) \/ (Snapshot(c) /\ TooLarge(table))
    <2>1. /\ Request(c) /\ Reply(c, Plain("answer"), "read")
          /\ UNCHANGED <<past, floor, announced, owed, eventMu, want, pending, done>>
      BY <1>6 DEF Ask, Snapshot, connVars, relayVars
    <2>2. log' = log /\ queued' \in [Conns -> 0 .. QueueDepth]
      BY <1>0, <2>1, PlainEnqueued DEF Reply
    <2>3. /\ asked' \in [Conns -> Nat]
          /\ \A d \in Conns : asked[d] <= asked'[d] /\ asked'[d] <= MaxRequests[d]
      <3>1. asked' = [asked EXCEPT ![c] = @ + 1] /\ asked[c] < MaxRequests[c]
        BY <2>1 DEF Request
      <3>2. asked \in [Conns -> Nat] /\ \A d \in Conns : asked[d] <= MaxRequests[d] /\ MaxRequests[d] \in Nat
        BY <1>0, PrivateSessionAssumption DEF Types
      <3>. QED
        BY <3>1, <3>2
    <2>. QED
      BY <1>0, <2>1, <2>2, <2>3 DEF Types, Reply, Request, At, Stages
  <1>7. CASE ReadFails(c)
    BY <1>0, <1>7 DEF Types, ReadFails, At, GoTo, queueVars, connVars, readerVars, relayVars, Stages
  <1>8. CASE Leave(c)
    <2>1. /\ done' = [done EXCEPT ![c] = TRUE]
          /\ log' = [log EXCEPT ![c] = <<>>]
          /\ queued' = [queued EXCEPT ![c] = 0]
          /\ stage[c] = "leave" /\ stage' = [stage EXCEPT ![c] = "gone"]
          /\ UNCHANGED <<past, floor, announced, owed, eventMu, dropped, want, pending, asked>>
      BY <1>8 DEF Leave, At, GoTo, relayVars
    <2>2. log' \in [Conns -> Seq(MessageType \cup ChunkType)] /\ done' \in [Conns -> BOOLEAN]
      BY <1>0, <2>1 DEF Types
    <2>3. queued' \in [Conns -> 0 .. QueueDepth]
      BY <1>0, <2>1, PrivateSessionAssumption DEF Types
    <2>4. \A d \in Conns : \/ log'[d] = log[d] /\ done'[d] = done[d]
                           \/ log'[d] = <<>> /\ done'[d] = TRUE
      BY <1>0, <2>1 DEF Types
    <2>. QED
      BY <1>0, <1>8, <2>1, <2>2, <2>3, <2>4 DEF Types, Stages
  <1>9. CASE Write(c)
    <2>1. queued' \in [Conns -> 0 .. QueueDepth]
      <3>1. queued' = [queued EXCEPT ![c] = @ - 1] /\ queued[c] > 0
        BY <1>9 DEF Write
      <3>2. QueueDepth \in Nat /\ queued \in [Conns -> 0 .. QueueDepth]
        BY <1>0, PrivateSessionAssumption DEF Types
      <3>. QED
        BY <3>1, <3>2
    <2>2. UNCHANGED <<past, floor, announced, owed, eventMu, log, dropped, want, pending, asked, stage, done>>
      BY <1>9 DEF Write, readerVars, relayVars
    <2>3. /\ done \in [Conns -> BOOLEAN] /\ stage \in [Conns -> Stages]
          /\ log \in [Conns -> Seq(MessageType \cup ChunkType)]
          /\ asked \in [Conns -> Nat] /\ \A d \in Conns : asked[d] <= MaxRequests[d]
      BY <1>0 DEF Types
    <2>4. \A d \in Conns : asked[d] <= asked[d]
      BY <2>3
    <2>. QED
      BY <2>1, <2>2, <2>3, <2>4
  <1>10. CASE WriterStops(c) \/ Unblocked(c) \/ WriteFails(c)
    BY <1>0, <1>10 DEF Types, WriterStops, Unblocked, WriteFails, queueVars, readerVars, relayVars
  <1>11. CASE IdFails(c) /\ ~At(c, "chunk")
    <2>1. /\ stage[c] # "chunk" /\ stage' = [stage EXCEPT ![c] = "leave"]
          /\ pending' = [pending EXCEPT ![c] = <<>>]
          /\ UNCHANGED <<past, floor, announced, owed, eventMu, log, queued, dropped, want, asked, done>>
      BY <1>11 DEF IdFails, At, GoTo, relayVars, queueVars, connVars
    <2>2. pending' = pending
      BY <1>0, <2>1 DEF Holder, Types
    <2>. QED
      BY <1>0, <2>1, <2>2 DEF Types, Stages
  <1>. QED
    BY <1>1, <1>2, <1>3, <1>4, <1>5, <1>6, <1>7, <1>8, <1>9, <1>10, <1>11 DEF QuietStep

(* They keep the types of what only connections are about.                 *)
LEMMA QuietTypes ==
    ASSUME Base, NEW c \in Conns, QuietStep(c)
    PROVE  /\ sessions' \in [Services -> Conns \cup {NoConn}]
           /\ previous' \in [Conns -> Conns \cup {NoConn}]
           /\ writer' \in [Conns -> {"off", "select", "blocked"}]
           /\ open' \in [Conns -> BOOLEAN]
  <1>1. /\ sessions \in [Services -> Conns \cup {NoConn}]
        /\ previous \in [Conns -> Conns \cup {NoConn}]
        /\ writer \in [Conns -> {"off", "select", "blocked"}]
        /\ open \in [Conns -> BOOLEAN]
        /\ Owner[c] \in Services
    BY DEF Base, Types, Services
  <1>2. CASE Hello(c)
    BY <1>1, <1>2 DEF Hello, connVars
  <1>3. CASE Leave(c)
    BY <1>1, <1>3 DEF Leave
  <1>4. CASE ClosePrevious(c)
    BY <1>1, <1>4 DEF ClosePrevious
  <1>5. CASE \/ Refused(c) \/ HelloAck(c) \/ Health(c) \/ Ask(c) \/ (Snapshot(c) /\ TooLarge(table))
             \/ IdFails(c) \/ ReadFails(c)
    BY <1>1, <1>5 DEF Refused, HelloAck, Health, Ask, Snapshot, IdFails, ReadFails, readerVars, connVars
  <1>6. CASE WriterStops(c) \/ Write(c) \/ Unblocked(c) \/ WriteFails(c)
    BY <1>1, <1>6 DEF WriterStops, Write, Unblocked, WriteFails, readerVars
  <1>. QED
    BY <1>2, <1>3, <1>4, <1>5, <1>6 DEF QuietStep

(* The start of a snapshot.                                                *)
LEMMA SnapshotEffect ==
    ASSUME Base, NEW c \in Conns, Snapshot(c), ~TooLarge(table)
    PROVE  /\ eventMu = NoConn /\ stage[c] = "read"
           /\ asked' = [asked EXCEPT ![c] = @ + 1] /\ asked[c] < MaxRequests[c]
           /\ eventMu' = c
           /\ pending' = [pending EXCEPT ![c] = SnapshotOf(c)]
           /\ stage' = [stage EXCEPT ![c] = "chunk"]
           /\ UNCHANGED <<relayVars, owed, queueVars, sessions, want, previous, connVars>>
  BY DEF Snapshot, Request, At, GoTo, EventsFree

(* The end of one that breaks off.                                         *)
LEMMA BreakEffect ==
    ASSUME Base, NEW c \in Conns, BreaksOff(c)
    PROVE  /\ stage[c] = "chunk" /\ eventMu = c
           /\ stage' = [stage EXCEPT ![c] = "leave"]
           /\ eventMu' = NoConn
           /\ pending' = [pending EXCEPT ![c] = <<>>]
           /\ UNCHANGED <<relayVars, owed, queueVars, sessions, want, previous, asked, connVars>>
  BY DEF BreaksOff, IdFails, At, GoTo, Base, Holder

(* The kinds of steps.                                                     *)
LEMMA StepKinds ==
    ASSUME [Next]_vars
    PROVE  \/ RelayStep
           \/ \E p \in Publishers : PublishEvent(p) \/ PublishAudit(p)
           \/ \E c \in Conns : QuietStep(c)
           \/ \E c \in Conns : Snapshot(c) /\ ~TooLarge(table)
           \/ \E c \in Conns : Chunk(c)
           \/ \E c \in Conns : BreaksOff(c)
           \/ UNCHANGED vars
  BY DEF Next, RelayStep, QuietStep, BreaksOff

(* Every step keeps the types, and eventMu with the one snapshot.          *)
LEMMA BaseStep == Base /\ [Next]_vars => Base'
  <1>. SUFFICES ASSUME Base, [Next]_vars PROVE Base'
    OBVIOUS
  <1>0. Types /\ Holder
    BY DEF Base
  <1>1. CASE RelayStep
    <2>1. PICK p \in Publishers : TableChanges(p) \/ NothingChanges(p)
      BY <1>0, <1>1, RelayEffect
    <2>2. /\ Len(past') \in 1 .. MaxChanges + 1 + floor'
          /\ floor' \in 0 .. MaxFloor
          /\ past' # past => Len(past) \in 1 .. MaxChanges + MaxFloor
          /\ UNCHANGED <<eventMu, queueVars, readerVars, stage, connVars>>
      BY <1>0, <1>1, RelayEffect
    <2>3. Plain("audit") \in MessageType
      BY MessageFacts
    <2>4. /\ past' \in Seq(Tables) /\ owed' \in [Publishers -> Seq(MessageType)]
          /\ announced' \in SUBSET EventType
      <3>1. CASE NothingChanges(p)
        BY <1>0, <2>3, <3>1 DEF NothingChanges, Types
      <3>2. CASE TableChanges(p)
        <4>1. PICK t \in Tables, events \in Seq(EventsAt(Len(past))), rest \in {<<>>, <<Plain("audit")>>, owed[p]} :
                /\ past' = Append(past, t)
                /\ owed' = [owed EXCEPT ![p] = events \o rest]
                /\ announced' = announced \cup {events[k] : k \in DOMAIN events}
          BY <3>2 DEF TableChanges
        <4>2. past' \in Seq(Tables)
          BY <1>0, <4>1 DEF Types
        <4>3. EventsAt(Len(past)) \subseteq EventType /\ EventType \subseteq MessageType
          BY MessageFacts
        <4>4. events \in Seq(EventType) /\ events \in Seq(MessageType)
          BY <4>3, SeqWidens
        <4>5. rest \in Seq(MessageType)
          <5>1. <<>> \in Seq(MessageType) /\ <<Plain("audit")>> \in Seq(MessageType)
            BY <2>3
          <5>2. owed[p] \in Seq(MessageType)
            BY <1>0 DEF Types
          <5>. QED
            BY <5>1, <5>2
        <4>6. events \o rest \in Seq(MessageType)
          BY <4>4, <4>5
        <4>7. \A k \in DOMAIN events : events[k] \in EventType
          BY <4>4
        <4>8. announced' \in SUBSET EventType
          BY <1>0, <4>1, <4>7 DEF Types
        <4>. QED
          BY <1>0, <4>1, <4>2, <4>6, <4>8 DEF Types
      <3>. QED
        BY <2>1, <3>1, <3>2
    <2>5. Types'
      BY <1>0, <2>2, <2>4 DEF Types, queueVars, readerVars, connVars
    <2>6. Holder'
      BY <1>0, <2>2 DEF Holder, queueVars, readerVars, connVars
    <2>. QED
      BY <2>5, <2>6 DEF Base
  <1>2. CASE \E p \in Publishers : PublishEvent(p) \/ PublishAudit(p)
    <2>1. PICK p \in Publishers : PublishEvent(p) \/ PublishAudit(p)
      BY <1>2
    <2>. DEFINE m == Head(owed[p])
                R == Receivers(p)
    <2>2. /\ owed[p] # <<>> /\ owed[p] \in Seq(MessageType) /\ m \in MessageType
          /\ owed' = [owed EXCEPT ![p] = Tail(@)]
          /\ \/ /\ Enqueue(m, R)
                /\ dropped' = (dropped \/ \E c \in R : ~CanEnqueue(c))
                /\ UNCHANGED announced
             \/ UNCHANGED <<log, queued, dropped>> /\ announced' = announced \ {m}
          /\ UNCHANGED <<past, floor, eventMu, readerVars, stage, connVars>>
      BY <2>1, PublishEffect
    <2>3. R \in SUBSET Conns
      BY DEF Receivers, Registered
    <2>4. /\ queued' \in [Conns -> 0 .. QueueDepth]
          /\ log' \in [Conns -> Seq(MessageType \cup ChunkType)]
          /\ \A c \in Conns : done[c] => log'[c] = <<>>
          /\ dropped' \in BOOLEAN /\ announced' \in SUBSET EventType
      <3>. HIDE DEF m, R
      <3>1. CASE UNCHANGED <<log, queued, dropped>> /\ announced' = announced \ {m}
        BY <1>0, <3>1 DEF Types, Holder
      <3>2. CASE /\ Enqueue(m, R)
                 /\ dropped' = (dropped \/ \E c \in R : ~CanEnqueue(c))
                 /\ UNCHANGED announced
        <4>1. dropped' \in BOOLEAN /\ announced' \in SUBSET EventType
          BY <1>0, <3>2 DEF Types
        <4>. QED
          BY <1>0, <2>2, <2>3, <3>2, <4>1, EnqueueFacts
      <3>. QED
        BY <2>2, <3>1, <3>2
    <2>5. owed' \in [Publishers -> Seq(MessageType)]
      BY <1>0, <2>2 DEF Types
    <2>7. Types'
      <3>. HIDE DEF m, R
      <3>. QED
        BY <1>0, <2>2, <2>4, <2>5 DEF Types, readerVars, connVars
    <2>8. Holder'
      <3>. HIDE DEF m, R
      <3>. QED
        BY <1>0, <2>2, <2>4 DEF Holder, readerVars, connVars
    <2>. QED
      BY <2>7, <2>8 DEF Base
  <1>3. CASE \E c \in Conns : QuietStep(c)
    <2>1. PICK c \in Conns : QuietStep(c)
      BY <1>3
    <2>2. Types'
      BY <1>0, <2>1, QuietEffect, QuietTypes DEF Types
    <2>3. /\ \A d \in Conns : \/ log'[d] = log[d] /\ done'[d] = done[d]
                              \/ log'[d] = <<>> /\ done'[d] = TRUE
          /\ UNCHANGED <<eventMu, pending>>
          /\ \A d \in Conns : stage'[d] = "chunk" <=> stage[d] = "chunk"
      BY <2>1, QuietEffect
    <2>4. Holder'
      BY <1>0, <2>3 DEF Holder
    <2>. QED
      BY <2>2, <2>4 DEF Base
  <1>4. CASE \E c \in Conns : Snapshot(c) /\ ~TooLarge(table)
    <2>1. PICK c \in Conns : Snapshot(c) /\ ~TooLarge(table)
      BY <1>4
    <2>2. /\ eventMu = NoConn /\ stage[c] = "read"
          /\ asked' = [asked EXCEPT ![c] = @ + 1] /\ asked[c] < MaxRequests[c]
          /\ eventMu' = c
          /\ pending' = [pending EXCEPT ![c] = SnapshotOf(c)]
          /\ stage' = [stage EXCEPT ![c] = "chunk"]
          /\ UNCHANGED <<relayVars, owed, queueVars, sessions, want, previous, connVars>>
      BY <2>1, SnapshotEffect
    <2>3. SnapshotOf(c) \in Seq(ChunkType) /\ SnapshotOf(c) # <<>>
      BY SnapshotOfFacts
    <2>4. pending' \in [Conns -> Seq(ChunkType)]
      BY <1>0, <2>2, <2>3 DEF Types
    <2>5. asked' \in [Conns -> Nat] /\ \A d \in Conns : asked'[d] <= MaxRequests[d]
      <3>1. asked \in [Conns -> Nat] /\ \A d \in Conns : asked[d] <= MaxRequests[d] /\ MaxRequests[d] \in Nat
        BY <1>0, PrivateSessionAssumption DEF Types
      <3>. QED
        BY <2>2, <3>1
    <2>6. Types'
      BY <1>0, <2>2, <2>4, <2>5 DEF Types, relayVars, queueVars, connVars, Stages
    <2>7. NoConn \notin Conns
      BY PrivateSessionAssumption DEF NoConn, Conns
    <2>8. Holder'
      BY <1>0, <2>2, <2>3, <2>7 DEF Holder, Types, queueVars, connVars
    <2>. QED
      BY <2>6, <2>8 DEF Base
  <1>5. CASE \E c \in Conns : Chunk(c)
    <2>1. PICK c \in Conns : Chunk(c)
      BY <1>5
    <2>. DEFINE m == Head(pending[c])
    <2>2. /\ stage[c] = "chunk" /\ eventMu = c
          /\ pending[c] \in Seq(ChunkType) /\ pending[c] # <<>>
          /\ m \in ChunkType
          /\ Enqueue(m, {c})
          /\ UNCHANGED <<relayVars, owed, dropped, sessions, want, previous, asked, connVars>>
      BY <2>1, ChunkEffect
    <2>3. \/ /\ \E s \in {"read", "leave"} : stage' = [stage EXCEPT ![c] = s]
             /\ eventMu' = NoConn
             /\ pending' = [pending EXCEPT ![c] = <<>>]
          \/ /\ stage' = stage
             /\ eventMu' = c
             /\ pending' = [pending EXCEPT ![c] = Tail(@)]
             /\ Tail(pending[c]) # <<>>
      BY <2>1, ChunkEffect
    <2>4. /\ queued' \in [Conns -> 0 .. QueueDepth]
          /\ log' \in [Conns -> Seq(MessageType \cup ChunkType)]
          /\ \A d \in Conns : done[d] => log'[d] = <<>>
      <3>. HIDE DEF m
      <3>. QED
        BY <1>0, <2>2, EnqueueFacts
    <2>5. pending' \in [Conns -> Seq(ChunkType)] /\ stage' \in [Conns -> Stages] /\ eventMu' \in Conns \cup {NoConn}
      <3>1. Tail(pending[c]) \in Seq(ChunkType)
        BY <2>2, TailFacts
      <3>2. pending \in [Conns -> Seq(ChunkType)] /\ stage \in [Conns -> Stages]
        BY <1>0 DEF Types
      <3>3. <<>> \in Seq(ChunkType)
        OBVIOUS
      <3>4. pending' \in [Conns -> Seq(ChunkType)]
        BY <2>3, <3>1, <3>2, <3>3
      <3>5. stage' \in [Conns -> Stages]
        BY <2>3, <3>2 DEF Stages
      <3>. QED
        BY <2>3, <3>4, <3>5
    <2>6. Types'
      BY <1>0, <2>2, <2>4, <2>5 DEF Types, relayVars, connVars
    <2>7. \A d \in Conns \ {c} : stage[d] # "chunk" /\ stage'[d] = stage[d] /\ pending'[d] = pending[d]
      BY <1>0, <2>2, <2>3 DEF Holder, Types
    <2>8. /\ stage'[c] = "chunk" => eventMu' = c
          /\ stage'[c] = "chunk" <=> pending'[c] # <<>>
      BY <1>0, <2>2, <2>3 DEF Types
    <2>9. Holder'
      BY <1>0, <2>2, <2>4, <2>7, <2>8 DEF Holder, connVars
    <2>. QED
      BY <2>6, <2>9 DEF Base
  <1>6. CASE \E c \in Conns : BreaksOff(c)
    <2>1. PICK c \in Conns : BreaksOff(c)
      BY <1>6
    <2>2. /\ stage[c] = "chunk" /\ eventMu = c
          /\ stage' = [stage EXCEPT ![c] = "leave"]
          /\ eventMu' = NoConn
          /\ pending' = [pending EXCEPT ![c] = <<>>]
          /\ UNCHANGED <<relayVars, owed, queueVars, sessions, want, previous, asked, connVars>>
      BY <2>1, BreakEffect
    <2>3. Types'
      <3>1. <<>> \in Seq(ChunkType)
        OBVIOUS
      <3>. QED
        BY <1>0, <2>2, <3>1 DEF Types, relayVars, queueVars, connVars, Stages
    <2>4. \A d \in Conns \ {c} : stage[d] # "chunk" /\ stage'[d] = stage[d] /\ pending'[d] = pending[d]
      BY <1>0, <2>2 DEF Holder, Types
    <2>5. stage'[c] = "leave" /\ pending'[c] = <<>>
      BY <1>0, <2>2 DEF Types
    <2>6. Holder'
      BY <1>0, <2>2, <2>4, <2>5 DEF Holder, queueVars, connVars
    <2>. QED
      BY <2>3, <2>6 DEF Base
  <1>7. CASE UNCHANGED vars
    <2>1. Types'
      BY <1>0, <1>7 DEF Types, vars, relayVars, queueVars, readerVars, connVars
    <2>2. Holder'
      BY <1>0, <1>7 DEF Holder, vars, relayVars, queueVars, readerVars, connVars
    <2>. QED
      BY <2>1, <2>2 DEF Base
  <1>. QED
    BY <1>1, <1>2, <1>3, <1>4, <1>5, <1>6, <1>7, StepKinds

-----------------------------------------------------------------------------
(* The register of sessions. A session that was replaced is not in it, and *)
(* comes back to it never: only a connection before its hello enters.      *)
Register ==
    /\ \A v \in Services : sessions[v] # NoConn => Owner[sessions[v]] = v
    /\ \A c \in Conns : stage[c] = "off" => ~done[c] /\ previous[c] = NoConn /\ log[c] = <<>>
    /\ \A c, d \in Conns : previous[c] = d => stage[d] # "off" /\ d \notin Registered
    /\ \A c \in Conns :
         /\ stage[c] \in {"close", "ack", "health", "read", "chunk"} /\ ~done[c]
         /\ \A d \in Conns : previous[d] # c
         => c \in Registered
    /\ \A c \in Registered : ~done[c] /\ stage[c] \notin {"off", "gone"}

(* Steps that leave the register, the closed sessions and what they        *)
(* replace as they are.                                                    *)
LEMMA RegisterKept ==
    ASSUME Base, Base', Register, UNCHANGED <<sessions, previous, done>>,
           \A c \in Conns : \/ stage'[c] = stage[c]
                            \/ /\ stage[c] \in {"ack", "health", "read", "chunk"}
                               /\ stage'[c] \in {"ack", "health", "read", "chunk", "leave"},
           \A c \in Conns : stage[c] = "off" => log'[c] = log[c]
    PROVE  Register'
  <1>1. Registered' = Registered
    BY DEF Registered
  <1>2. \A c \in Conns : stage'[c] = "off" <=> stage[c] = "off"
    OBVIOUS
  <1>3. \A c \in Conns : stage'[c] = "gone" <=> stage[c] = "gone"
    OBVIOUS
  <1>4. \A c \in Conns :
          stage'[c] \in {"close", "ack", "health", "read", "chunk"}
             => stage[c] \in {"close", "ack", "health", "read", "chunk"}
    OBVIOUS
  <1>5. \A v \in Services : sessions'[v] # NoConn => Owner[sessions'[v]] = v
    BY DEF Register
  <1>6. \A c \in Conns : stage'[c] = "off" => ~done'[c] /\ previous'[c] = NoConn /\ log'[c] = <<>>
    BY <1>2 DEF Register
  <1>7. \A c, d \in Conns : previous'[c] = d => stage'[d] # "off" /\ d \notin Registered'
    BY <1>1, <1>2 DEF Register
  <1>8. \A c \in Conns :
          /\ stage'[c] \in {"close", "ack", "health", "read", "chunk"} /\ ~done'[c]
          /\ \A d \in Conns : previous'[d] # c
          => c \in Registered'
    BY <1>1, <1>4 DEF Register
  <1>9. \A c \in Registered' : ~done'[c] /\ stage'[c] \notin {"off", "gone"}
    BY <1>1, <1>2, <1>3 DEF Register, Registered
  <1>. QED
    BY <1>5, <1>6, <1>7, <1>8, <1>9 DEF Register

(* Nobody is registered at the start.                                      *)
LEMMA RegisterInit == Init => Register
  <1>. SUFFICES ASSUME Init PROVE Register
    OBVIOUS
  <1>1. NoConn \notin Conns
    BY PrivateSessionAssumption DEF NoConn, Conns
  <1>2. \A v \in Services : sessions[v] = NoConn
    BY DEF Init
  <1>3. Registered = {}
    BY <1>1, <1>2 DEF Registered, Services
  <1>4. \A c \in Conns : stage[c] = "off" /\ previous[c] = NoConn /\ log[c] = <<>> /\ ~done[c]
    BY DEF Init
  <1>. QED
    BY <1>1, <1>2, <1>3, <1>4 DEF Register

(* A hello enters its connection and takes the other one out.              *)
LEMMA HelloRegister ==
    ASSUME Base, Register, NEW c \in Conns, Hello(c)
    PROVE  Register'
  <1>1. /\ stage[c] = "off"
        /\ previous' = [previous EXCEPT ![c] = sessions[Owner[c]]]
        /\ sessions' = [sessions EXCEPT ![Owner[c]] = c]
        /\ stage' = [stage EXCEPT ![c] = "close"]
        /\ UNCHANGED <<log, done>>
    BY DEF Hello, At, GoTo, queueVars, connVars
  <1>2. /\ sessions \in [Services -> Conns \cup {NoConn}]
        /\ previous \in [Conns -> Conns \cup {NoConn}]
        /\ stage \in [Conns -> Stages]
        /\ \A d \in Conns : Owner[d] \in Services
    BY DEF Base, Types, Services
  <1>3. NoConn \notin Conns
    BY PrivateSessionAssumption DEF NoConn, Conns
  <1>4. \A d \in Conns : d \in Registered' <=> d = c \/ (d \in Registered /\ Owner[d] # Owner[c])
    <2>1. c \notin Registered
      BY <1>1 DEF Register
    <2>. QED
      BY <1>1, <1>2, <2>1 DEF Registered
  <1>5. \A d \in Conns : previous'[d] = IF d = c THEN sessions[Owner[c]] ELSE previous[d]
    BY <1>1, <1>2
  <1>6. \A d \in Conns : stage'[d] = IF d = c THEN "close" ELSE stage[d]
    BY <1>1, <1>2
  <1>7. \A v \in Services : sessions'[v] # NoConn => Owner[sessions'[v]] = v
    BY <1>1, <1>2 DEF Register
  <1>8. \A d \in Conns : stage'[d] = "off" => ~done'[d] /\ previous'[d] = NoConn /\ log'[d] = <<>>
    BY <1>1, <1>5, <1>6 DEF Register
  <1>9. ASSUME NEW b \in Conns, NEW d \in Conns, previous'[b] = d
        PROVE  stage'[d] # "off" /\ d \notin Registered'
    <2>1. CASE b = c
      <3>1. sessions[Owner[c]] = d /\ Owner[d] = Owner[c]
        BY <1>2, <1>3, <1>5, <1>9, <2>1 DEF Register
      <3>2. d \in Registered
        BY <3>1 DEF Registered
      <3>3. stage[d] # "off" /\ d # c
        BY <1>1, <3>2 DEF Register
      <3>. QED
        BY <1>4, <1>6, <3>1, <3>3
    <2>2. CASE b # c
      <3>1. previous[b] = d /\ stage[d] # "off" /\ d \notin Registered
        BY <1>5, <1>9, <2>2 DEF Register
      <3>. QED
        BY <1>1, <1>4, <1>6, <3>1
    <2>. QED
      BY <2>1, <2>2
  <1>10. ASSUME NEW d \in Conns, stage'[d] \in {"close", "ack", "health", "read", "chunk"}, ~done'[d],
                \A b \in Conns : previous'[b] # d
         PROVE  d \in Registered'
    <2>1. CASE d = c
      BY <1>4, <2>1
    <2>2. CASE d # c
      <3>1. stage[d] = stage'[d] /\ ~done[d]
        BY <1>1, <1>6, <1>10, <2>2
      <3>2. \A b \in Conns : previous[b] # d
        <4>1. previous[c] # d
          BY <1>1, <1>3 DEF Register
        <4>. QED
          BY <1>5, <1>10, <4>1
      <3>3. d \in Registered
        BY <1>10, <3>1, <3>2 DEF Register
      <3>4. Owner[d] # Owner[c]
        BY <1>5, <1>10, <3>3 DEF Registered
      <3>. QED
        BY <1>4, <3>3, <3>4
    <2>. QED
      BY <2>1, <2>2
  <1>11. \A d \in Registered' : ~done'[d] /\ stage'[d] \notin {"off", "gone"}
    <2>1. Registered' \subseteq Conns
      BY DEF Registered
    <2>. QED
      BY <1>1, <1>4, <1>6, <2>1 DEF Register
  <1>. QED
    BY <1>7, <1>8, <1>9, <1>10, <1>11 DEF Register

(* The replaced session, which is closed now, is not registered.           *)
LEMMA CloseRegister ==
    ASSUME Base, Register, NEW c \in Conns, ClosePrevious(c)
    PROVE  Register'
  <1>1. /\ stage[c] = "close" /\ stage' = [stage EXCEPT ![c] = "ack"]
        /\ done' = [d \in Conns |-> done[d] \/ d = previous[c]]
        /\ previous' = [previous EXCEPT ![c] = NoConn]
        /\ log' = [d \in Conns |-> IF d = previous[c] THEN <<>> ELSE log[d]]
        /\ UNCHANGED sessions
    BY DEF ClosePrevious, At, GoTo
  <1>2. /\ previous \in [Conns -> Conns \cup {NoConn}] /\ stage \in [Conns -> Stages]
        /\ done \in [Conns -> BOOLEAN]
    BY DEF Base, Types
  <1>3. NoConn \notin Conns
    BY PrivateSessionAssumption DEF NoConn, Conns
  <1>4. Registered' = Registered
    BY <1>1 DEF Registered
  <1>5. \A d \in Conns : /\ previous'[d] = IF d = c THEN NoConn ELSE previous[d]
                         /\ stage'[d] = IF d = c THEN "ack" ELSE stage[d]
                         /\ done'[d] = (done[d] \/ d = previous[c])
                         /\ log'[d] = IF d = previous[c] THEN <<>> ELSE log[d]
    BY <1>1, <1>2
  <1>6. \A v \in Services : sessions'[v] # NoConn => Owner[sessions'[v]] = v
    BY <1>1 DEF Register
  <1>7. ASSUME NEW d \in Conns, stage'[d] = "off"
        PROVE  ~done'[d] /\ previous'[d] = NoConn /\ log'[d] = <<>>
    <2>1. d # c /\ stage[d] = "off"
      BY <1>5, <1>7
    <2>2. d # previous[c] /\ ~done[d] /\ previous[d] = NoConn /\ log[d] = <<>>
      BY <2>1 DEF Register
    <2>. QED
      BY <1>5, <2>1, <2>2
  <1>8. \A b, d \in Conns : previous'[b] = d => stage'[d] # "off" /\ d \notin Registered'
    BY <1>3, <1>4, <1>5 DEF Register
  <1>9. ASSUME NEW d \in Conns, stage'[d] \in {"close", "ack", "health", "read", "chunk"}, ~done'[d],
               \A b \in Conns : previous'[b] # d
        PROVE  d \in Registered'
    <2>1. /\ stage[d] \in {"close", "ack", "health", "read", "chunk"} /\ ~done[d]
          /\ \A b \in Conns : previous[b] # d
      BY <1>1, <1>5, <1>9
    <2>. QED
      BY <1>4, <2>1 DEF Register
  <1>10. \A d \in Registered' : ~done'[d] /\ stage'[d] \notin {"off", "gone"}
    <2>1. Registered \subseteq Conns
      BY DEF Registered
    <2>2. \A d \in Registered : d # previous[c]
      BY <2>1 DEF Register
    <2>. QED
      BY <1>4, <1>5, <2>1, <2>2 DEF Register
  <1>. QED
    BY <1>6, <1>7, <1>8, <1>9, <1>10 DEF Register

(* A connection that leaves takes out its own entry and no other.          *)
LEMMA LeaveRegister ==
    ASSUME Base, Register, NEW c \in Conns, Leave(c)
    PROVE  Register'
  <1>1. /\ stage[c] = "leave" /\ stage' = [stage EXCEPT ![c] = "gone"]
        /\ sessions' = [sessions EXCEPT ![Owner[c]] = IF @ = c THEN NoConn ELSE @]
        /\ done' = [done EXCEPT ![c] = TRUE]
        /\ log' = [log EXCEPT ![c] = <<>>]
        /\ UNCHANGED previous
    BY DEF Leave, At, GoTo
  <1>2. /\ sessions \in [Services -> Conns \cup {NoConn}] /\ stage \in [Conns -> Stages]
        /\ done \in [Conns -> BOOLEAN]
        /\ log \in [Conns -> Seq(MessageType \cup ChunkType)]
        /\ \A d \in Conns : Owner[d] \in Services
    BY DEF Base, Types, Services
  <1>3. NoConn \notin Conns
    BY PrivateSessionAssumption DEF NoConn, Conns
  <1>4. \A d \in Conns : d \in Registered' <=> d # c /\ d \in Registered
    BY <1>1, <1>2, <1>3 DEF Registered
  <1>5. \A d \in Conns : /\ stage'[d] = IF d = c THEN "gone" ELSE stage[d]
                         /\ d # c => done'[d] = done[d] /\ log'[d] = log[d]
    BY <1>1, <1>2
  <1>6. \A v \in Services : sessions'[v] # NoConn => Owner[sessions'[v]] = v
    BY <1>1, <1>2 DEF Register
  <1>7. \A d \in Conns : stage'[d] = "off" => ~done'[d] /\ previous'[d] = NoConn /\ log'[d] = <<>>
    BY <1>1, <1>5 DEF Register
  <1>8. \A b, d \in Conns : previous'[b] = d => stage'[d] # "off" /\ d \notin Registered'
    BY <1>1, <1>4, <1>5 DEF Register
  <1>9. ASSUME NEW d \in Conns, stage'[d] \in {"close", "ack", "health", "read", "chunk"}, ~done'[d],
               \A b \in Conns : previous'[b] # d
        PROVE  d \in Registered'
    BY <1>1, <1>4, <1>5, <1>9 DEF Register
  <1>10. \A d \in Registered' : ~done'[d] /\ stage'[d] \notin {"off", "gone"}
    <2>1. Registered' \subseteq Conns
      BY DEF Registered
    <2>. QED
      BY <1>4, <1>5, <2>1 DEF Register
  <1>. QED
    BY <1>6, <1>7, <1>8, <1>9, <1>10 DEF Register

(* A connection without a hello was never registered.                      *)
LEMMA RefusedRegister ==
    ASSUME Base, Register, NEW c \in Conns, Refused(c)
    PROVE  Register'
  <1>1. /\ stage[c] = "off" /\ stage' = [stage EXCEPT ![c] = "gone"]
        /\ UNCHANGED <<sessions, previous, done, log>>
    BY DEF Refused, At, GoTo, queueVars, readerVars
  <1>2. \A d \in Conns : stage'[d] = IF d = c THEN "gone" ELSE stage[d]
    BY <1>1 DEF Base, Types
  <1>3. Registered' = Registered /\ Registered \subseteq Conns /\ c \notin Registered
    BY <1>1 DEF Registered, Register
  <1>. QED
    BY <1>1, <1>2, <1>3 DEF Register

(* Every step keeps the register.                                          *)
LEMMA RegisterStep == Base /\ Register /\ [Next]_vars => Register'
  <1>. SUFFICES ASSUME Base, Register, [Next]_vars PROVE Register'
    OBVIOUS
  <1>0. Base' /\ Types /\ Holder /\ stage \in [Conns -> Stages]
    BY BaseStep DEF Base, Types
  <1>1. CASE RelayStep
    <2>1. UNCHANGED <<sessions, previous, done, stage, log>>
      BY <1>0, <1>1, RelayEffect DEF queueVars, readerVars, connVars
    <2>. QED
      BY <1>0, <2>1, RegisterKept
  <1>2. CASE \E p \in Publishers : PublishEvent(p) \/ PublishAudit(p)
    <2>1. PICK p \in Publishers : PublishEvent(p) \/ PublishAudit(p)
      BY <1>2
    <2>2. /\ Enqueue(Head(owed[p]), Receivers(p)) \/ UNCHANGED log
          /\ Head(owed[p]) \in MessageType
          /\ UNCHANGED <<sessions, previous, done, stage>>
      BY <2>1, PublishEffect DEF readerVars, connVars
    <2>3. \A c \in Conns : c \notin Registered => log'[c] = log[c]
      <3>1. Receivers(p) \in SUBSET Conns /\ Receivers(p) \subseteq Registered
        BY DEF Receivers, Registered
      <3>. QED
        BY <1>0, <2>2, <3>1, EnqueueFacts
    <2>4. \A c \in Conns : stage[c] = "off" => log'[c] = log[c]
      BY <2>3 DEF Register
    <2>. QED
      BY <1>0, <2>2, <2>4, RegisterKept
  <1>3. CASE \E c \in Conns : QuietStep(c)
    <2>1. PICK c \in Conns : QuietStep(c)
      BY <1>3
    <2>2. CASE Hello(c) \/ ClosePrevious(c) \/ Leave(c) \/ Refused(c)
      BY <2>2, HelloRegister, CloseRegister, LeaveRegister, RefusedRegister
    <2>3. CASE ~(Hello(c) \/ ClosePrevious(c) \/ Leave(c) \/ Refused(c))
      <3>1. UNCHANGED <<log, done>>
        BY <2>1, <2>3, QuietEffect
      <3>2. UNCHANGED <<sessions, previous>>
        BY <2>1, <2>3 DEF QuietStep, HelloAck, Health, Ask, Snapshot, IdFails, ReadFails, WriterStops,
             Write, Unblocked, WriteFails, readerVars
      <3>3. \A d \in Conns : \/ stage'[d] = stage[d]
                             \/ /\ stage[d] \in {"ack", "health", "read", "chunk"}
                                /\ stage'[d] \in {"ack", "health", "read", "chunk", "leave"}
        <4>1. CASE \E s \in {"health", "read", "leave"} :
                     stage[c] \in {"ack", "health", "read"} /\ stage' = [stage EXCEPT ![c] = s]
          BY <1>0, <4>1
        <4>2. CASE UNCHANGED stage
          BY <4>2
        <4>. QED
          BY <2>1, <2>3, <4>1, <4>2 DEF QuietStep, HelloAck, Health, Ask, Snapshot, IdFails, ReadFails, WriterStops,
               Write, Unblocked, WriteFails, Reply, Request, At, GoTo
      <3>. QED
        BY <1>0, <3>1, <3>2, <3>3, RegisterKept
    <2>. QED
      BY <2>2, <2>3
  <1>4. CASE \E c \in Conns : Snapshot(c) /\ ~TooLarge(table)
    <2>1. PICK c \in Conns : /\ stage[c] = "read" /\ stage' = [stage EXCEPT ![c] = "chunk"]
                             /\ UNCHANGED <<sessions, previous, done, log>>
      BY <1>4, SnapshotEffect DEF queueVars, connVars
    <2>2. \A d \in Conns : stage'[d] = IF d = c THEN "chunk" ELSE stage[d]
      BY <1>0, <2>1
    <2>. QED
      BY <1>0, <2>1, <2>2, RegisterKept
  <1>5. CASE \E c \in Conns : Chunk(c)
    <2>1. PICK c \in Conns : Chunk(c)
      BY <1>5
    <2>2. /\ stage[c] = "chunk" /\ Head(pending[c]) \in ChunkType /\ Enqueue(Head(pending[c]), {c})
          /\ UNCHANGED <<sessions, previous, done>>
          /\ stage' = stage \/ \E s \in {"read", "leave"} : stage' = [stage EXCEPT ![c] = s]
      BY <2>1, ChunkEffect DEF connVars
    <2>3. \A d \in Conns : d # c => log'[d] = log[d] /\ stage'[d] = stage[d]
      <3>1. {c} \in SUBSET Conns
        OBVIOUS
      <3>. QED
        BY <1>0, <2>2, <3>1, EnqueueFacts
    <2>4. stage'[c] \in {"chunk", "read", "leave"}
      BY <1>0, <2>2
    <2>. QED
      BY <1>0, <2>2, <2>3, <2>4, RegisterKept
  <1>6. CASE \E c \in Conns : BreaksOff(c)
    <2>1. PICK c \in Conns : /\ stage[c] = "chunk" /\ stage' = [stage EXCEPT ![c] = "leave"]
                             /\ UNCHANGED <<sessions, previous, done, log>>
      BY <1>6, BreakEffect DEF queueVars, connVars
    <2>2. \A d \in Conns : stage'[d] = IF d = c THEN "leave" ELSE stage[d]
      BY <1>0, <2>1
    <2>. QED
      BY <1>0, <2>1, <2>2, RegisterKept
  <1>7. CASE UNCHANGED vars
    BY <1>0, <1>7, RegisterKept DEF vars, queueVars, readerVars, connVars
  <1>. QED
    BY <1>1, <1>2, <1>3, <1>4, <1>5, <1>6, <1>7, StepKinds

(* Types, bounds and the register: no interleaving of hellos, replacements *)
(* and ends of connections leaves a serving session unregistered, or a     *)
(* closed one registered (addSession, removeSession).                      *)
THEOREM SessionsAlwaysSound == Spec => []SessionsSound
  <1>1. Base => TypeOK
    <2>. SUFFICES ASSUME Base PROVE TypeOK
      OBVIOUS
    <2>1. Types
      BY DEF Base
    <2>2. Len(past) \in 1 .. MaxChanges + MaxFloor + 1 /\ \A i \in DOMAIN past : past[i] \in Tables
      <3>1. MaxChanges \in Nat /\ MaxFloor \in Nat /\ floor \in 0 .. MaxFloor
        BY <2>1, PrivateSessionAssumption DEF Types
      <3>. QED
        BY <2>1, <3>1 DEF Types
    <2>3. \A p \in Publishers : \A i \in DOMAIN owed[p] : owed[p][i] \in MessageType
      BY <2>1 DEF Types
    <2>4. \A c \in Conns :
            /\ \A i \in DOMAIN log[c] : IsChunk(log[c][i]) \/ log[c][i] \in MessageType
            /\ \A i \in DOMAIN pending[c] : IsChunk(pending[c][i])
      <3>1. \A c \in Conns : /\ \A i \in DOMAIN log[c] : log[c][i] \in MessageType \cup ChunkType
                             /\ \A i \in DOMAIN pending[c] : pending[c][i] \in ChunkType
        BY <2>1 DEF Types
      <3>. QED
        BY <3>1, MessageFacts
    <2>5. \A c \in Conns : asked[c] \in 0 .. MaxRequests[c]
      BY <2>1, PrivateSessionAssumption DEF Types
    <2>. QED
      BY <2>1, <2>2, <2>3, <2>4, <2>5 DEF TypeOK, Types
  <1>2. Register => LiveSessionRegistered
    BY DEF Register, LiveSessionRegistered
  <1>3. Base /\ Register => SessionsSound
    BY <1>1, <1>2 DEF SessionsSound
  <1>4. Base /\ Register /\ [Next]_vars => Base' /\ Register'
    BY BaseStep, RegisterStep
  <1>. QED
    BY <1>3, <1>4, BaseInit, RegisterInit, PTL DEF Spec

-----------------------------------------------------------------------------
(* The stream of a session. No event is ahead of the table; a chunk that   *)
(* is still to be queued is no older than the events before it, and every  *)
(* event of a change it does not hold is still owed, since eventMu is      *)
(* held.                                                                   *)
Owed(e) == \E p \in Publishers : \E j \in DOMAIN owed[p] : owed[p][j] = e

Told(c, i, e) == \E j \in i + 1 .. Len(log[c]) : log[c][j] = e

Behind ==
    /\ \A p \in Publishers : \A j \in DOMAIN owed[p] :
         owed[p][j].kind = "event" => owed[p][j].n \in 1 .. Len(past) - 1
    /\ \A c \in Conns : \A j \in DOMAIN log[c] :
         log[c][j].kind = "event" => log[c][j].n \in 1 .. Len(past) - 1
    /\ \A e \in announced : e.n \in 1 .. Len(past) - 1

Ahead ==
    \A c \in Conns : \A i \in DOMAIN pending[c] :
        /\ \A j \in DOMAIN log[c] : log[c][j].kind = "event" => log[c][j].n <= pending[c][i].n
        /\ \A e \in announced : e.n > pending[c][i].n => Owed(e)

Gapless ==
    \A c \in Registered : \A i \in DOMAIN log[c] :
        (~dropped /\ want[c].events /\ IsChunk(log[c][i])) =>
            \A e \in announced : e.n > log[c][i].n => Told(c, i, e) \/ Owed(e)

StreamInv == Behind /\ Ahead /\ SnapshotBoundary /\ Gapless

(* The domains and the entries of the sequences.                           *)
LEMMA SequenceFacts ==
    ASSUME Base
    PROVE  /\ \A p \in Publishers :
                /\ owed[p] \in Seq(MessageType) /\ Len(owed[p]) \in Nat
                /\ DOMAIN owed[p] = 1 .. Len(owed[p])
                /\ \A j \in DOMAIN owed[p] : owed[p][j] \in MessageType
           /\ \A c \in Conns :
                /\ log[c] \in Seq(MessageType \cup ChunkType) /\ Len(log[c]) \in Nat
                /\ DOMAIN log[c] = 1 .. Len(log[c])
                /\ \A j \in DOMAIN log[c] : log[c][j] \in MessageType \cup ChunkType
                /\ \A j \in DOMAIN log[c] : IsChunk(log[c][j]) => log[c][j] \in ChunkType
                /\ \A j \in DOMAIN log[c] : log[c][j].kind = "event" => log[c][j].n \in Nat
                /\ pending[c] \in Seq(ChunkType) /\ Len(pending[c]) \in Nat
                /\ DOMAIN pending[c] = 1 .. Len(pending[c])
                /\ \A j \in DOMAIN pending[c] : pending[c][j] \in ChunkType /\ pending[c][j].n \in Nat
           /\ Len(past) \in Nat \ {0} /\ past \in Seq(Tables)
  <1>0. Types
    BY DEF Base
  <1>1. \A p \in Publishers :
                /\ owed[p] \in Seq(MessageType) /\ Len(owed[p]) \in Nat
                /\ DOMAIN owed[p] = 1 .. Len(owed[p])
                /\ \A j \in DOMAIN owed[p] : owed[p][j] \in MessageType
    BY <1>0 DEF Types
  <1>2. ASSUME NEW c \in Conns
        PROVE   /\ log[c] \in Seq(MessageType \cup ChunkType) /\ Len(log[c]) \in Nat
                /\ DOMAIN log[c] = 1 .. Len(log[c])
                /\ \A j \in DOMAIN log[c] : log[c][j] \in MessageType \cup ChunkType
                /\ pending[c] \in Seq(ChunkType) /\ Len(pending[c]) \in Nat
                /\ DOMAIN pending[c] = 1 .. Len(pending[c])
                /\ \A j \in DOMAIN pending[c] : pending[c][j] \in ChunkType
    BY <1>0 DEF Types
  <1>3. \A m \in ChunkType : m.n \in Nat
    BY DEF ChunkType
  <1>4. \A m \in MessageType \cup ChunkType :
          (IsChunk(m) => m \in ChunkType) /\ (m.kind = "event" => m.n \in Nat)
    BY MessageFacts, PrivateSessionAssumption
  <1>5. Len(past) \in Nat \ {0} /\ past \in Seq(Tables)
    BY <1>0, TableType DEF Types
  <1>. QED
    BY <1>1, <1>2, <1>3, <1>4, <1>5

(* The numbers on a frame.                                                 *)
LEMMA ChunkFields ==
    \A m \in ChunkType : m.id \in Nat /\ m.n \in Nat /\ m.index \in Nat /\ m.count \in Nat
  BY DEF ChunkType

(* The events of a change are owed, and what was owed still is.            *)
LEMMA RelayOwed ==
    ASSUME Base, Base', NEW p \in Publishers, TableChanges(p) \/ NothingChanges(p)
    PROVE  /\ Len(past') \in {Len(past), Len(past) + 1}
           /\ \A e : Owed(e) => Owed(e)'
           /\ \A e \in announced' : e \in announced \/ (Owed(e)' /\ e.n = Len(past) /\ Len(past') = Len(past) + 1)
           /\ \A q \in Publishers : \A j \in DOMAIN owed'[q] :
                owed'[q][j].kind = "event" =>
                   \/ owed'[q][j].n = Len(past) /\ Len(past') = Len(past) + 1
                   \/ \E k \in DOMAIN owed[q] : owed'[q][j] = owed[q][k]
  <1>1. \A q \in Publishers \ {p} : owed'[q] = owed[q]
    BY DEF TableChanges, NothingChanges, Base, Types
  <1>2. CASE NothingChanges(p)
    <2>1. /\ past' = past /\ announced' = announced /\ owed[p] = <<>>
          /\ owed'[p] = <<Plain("audit")>> /\ Plain("audit").kind = "audit"
      BY <1>2, MessageFacts DEF NothingChanges, Base, Types
    <2>2. \A j \in DOMAIN owed'[p] : owed'[p][j].kind # "event"
      BY <2>1
    <2>3. Len(past') = Len(past) /\ Len(past) \in Nat
      BY <2>1, SequenceFacts
    <2>4. \A e : Owed(e) => Owed(e)'
      BY <1>1, <2>1 DEF Owed
    <2>. QED
      BY <1>1, <2>1, <2>2, <2>3, <2>4
  <1>3. CASE TableChanges(p)
    <2>1. PICK t \in Tables, events \in Seq(EventsAt(Len(past))), rest \in {<<>>, <<Plain("audit")>>, owed[p]} :
            /\ owed[p] = <<>> \/ rest = owed[p]
            /\ past' = Append(past, t)
            /\ owed' = [owed EXCEPT ![p] = events \o rest]
            /\ announced' = announced \cup {events[k] : k \in DOMAIN events}
      BY <1>3 DEF TableChanges
    <2>2. Len(past') = Len(past) + 1
      BY <2>1, SequenceFacts
    <2>3. owed'[p] = events \o rest
      BY <2>1 DEF Base, Types
    <2>4. /\ rest \in Seq(MessageType) /\ owed[p] \in Seq(MessageType)
          /\ Plain("audit").kind = "audit"
      <3>1. owed[p] \in Seq(MessageType) /\ Plain("audit") \in MessageType /\ Plain("audit").kind = "audit"
        BY MessageFacts, SequenceFacts
      <3>2. <<>> \in Seq(MessageType) /\ <<Plain("audit")>> \in Seq(MessageType)
        BY <3>1
      <3>. QED
        BY <3>1, <3>2
    <2>5. /\ Len(events) \in Nat /\ Len(rest) \in Nat
          /\ DOMAIN events = 1 .. Len(events) /\ DOMAIN rest = 1 .. Len(rest)
          /\ DOMAIN owed'[p] = 1 .. Len(events) + Len(rest)
          /\ \A j \in 1 .. Len(events) : owed'[p][j] = events[j]
          /\ \A j \in 1 .. Len(rest) : owed'[p][Len(events) + j] = rest[j]
      BY <2>3, <2>4
    <2>6. \A j \in DOMAIN events : events[j].kind = "event" /\ events[j].n = Len(past)
      BY MessageFacts
    <2>7. \A j \in DOMAIN rest : rest[j].kind = "event" => \E k \in DOMAIN owed[p] : rest[j] = owed[p][k]
      <3>1. CASE rest = <<>>
        BY <3>1
      <3>2. CASE rest = <<Plain("audit")>>
        BY <2>4, <3>2
      <3>3. CASE rest = owed[p]
        BY <3>3
      <3>. QED
        BY <3>1, <3>2, <3>3
    <2>8. ASSUME NEW j \in DOMAIN owed'[p], owed'[p][j].kind = "event"
          PROVE  owed'[p][j].n = Len(past) \/ \E k \in DOMAIN owed[p] : owed'[p][j] = owed[p][k]
      <3>1. CASE j \in DOMAIN events
        BY <2>5, <2>6, <3>1
      <3>2. CASE j \notin DOMAIN events
        <4>1. j - Len(events) \in DOMAIN rest /\ owed'[p][j] = rest[j - Len(events)]
          BY <2>5, <3>2
        <4>. QED
          BY <2>7, <2>8, <4>1
      <3>. QED
        BY <3>1, <3>2
    <2>9. ASSUME NEW k \in DOMAIN owed[p] PROVE \E j \in DOMAIN owed'[p] : owed'[p][j] = owed[p][k]
      <3>1. rest = owed[p]
        BY <2>1
      <3>2. Len(events) + k \in DOMAIN owed'[p] /\ owed'[p][Len(events) + k] = owed[p][k]
        BY <2>5, <3>1
      <3>. QED
        BY <3>2
    <2>10. \A e : Owed(e) => Owed(e)'
      BY <1>1, <2>9 DEF Owed
    <2>11. ASSUME NEW j \in DOMAIN events PROVE Owed(events[j])' /\ events[j].n = Len(past)
      <3>1. j \in DOMAIN owed'[p] /\ owed'[p][j] = events[j]
        BY <2>5
      <3>. QED
        BY <2>6, <3>1 DEF Owed
    <2>12. \A e \in announced' : e \in announced \/ (Owed(e)' /\ e.n = Len(past))
      BY <2>1, <2>11
    <2>. QED
      BY <1>1, <2>2, <2>8, <2>10, <2>12
  <1>. QED
    BY <1>2, <1>3

(* A change of the table leaves the streams sound.                         *)
LEMMA RelayStream ==
    ASSUME Base, Base', StreamInv, RelayStep
    PROVE  StreamInv'
  <1>0. Types
    BY DEF Base
  <1>1. PICK p \in Publishers : TableChanges(p) \/ NothingChanges(p)
    BY <1>0, RelayEffect
  <1>2. UNCHANGED <<log, pending, sessions, dropped, want>>
    BY <1>0, RelayEffect DEF queueVars, readerVars
  <1>3. /\ Len(past') \in {Len(past), Len(past) + 1} /\ Len(past) \in Nat \ {0}
        /\ \A e : Owed(e) => Owed(e)'
        /\ \A e \in announced' : e \in announced \/ (Owed(e)' /\ e.n = Len(past) /\ Len(past') = Len(past) + 1)
        /\ \A q \in Publishers : \A j \in DOMAIN owed'[q] :
             owed'[q][j].kind = "event" =>
                \/ owed'[q][j].n = Len(past) /\ Len(past') = Len(past) + 1
                \/ \E k \in DOMAIN owed[q] : owed'[q][j] = owed[q][k]
    BY <1>1, RelayOwed, SequenceFacts
  <1>4. /\ 1 .. Len(past) - 1 \subseteq 1 .. Len(past') - 1
        /\ Len(past') = Len(past) + 1 => Len(past) \in 1 .. Len(past') - 1
    BY <1>3
  <1>5. \A q \in Publishers : \A j \in DOMAIN owed'[q] :
          owed'[q][j].kind = "event" => owed'[q][j].n \in 1 .. Len(past') - 1
    BY <1>3, <1>4 DEF StreamInv, Behind
  <1>6. Behind'
    <2>1. \A e \in announced' : e.n \in 1 .. Len(past') - 1
      BY <1>3, <1>4 DEF StreamInv, Behind
    <2>. QED
      BY <1>2, <1>4, <1>5, <2>1 DEF StreamInv, Behind
  <1>7. Ahead'
    <2>1. \A c \in Conns : \A i \in DOMAIN pending[c] :
            \A e \in announced' : e.n > pending[c][i].n => Owed(e)'
      BY <1>3 DEF StreamInv, Ahead
    <2>. QED
      BY <1>2, <2>1 DEF StreamInv, Ahead
  <1>8. SnapshotBoundary'
    BY <1>2 DEF StreamInv, SnapshotBoundary
  <1>9. Gapless'
    <2>1. SUFFICES ASSUME NEW c \in Registered, NEW i \in DOMAIN log[c],
                          ~dropped, want[c].events, IsChunk(log[c][i]),
                          NEW e \in announced', e.n > log[c][i].n
                   PROVE  Told(c, i, e) \/ Owed(e)'
      BY <1>2 DEF Gapless, Registered, Told
    <2>2. CASE e \in announced
      BY <1>3, <2>1, <2>2 DEF StreamInv, Gapless
    <2>. QED
      BY <1>3, <2>2
  <1>. QED
    BY <1>6, <1>7, <1>8, <1>9 DEF StreamInv

(* Publishing: the first message owed is owed no longer, the others are.   *)
LEMMA PublishOwed ==
    ASSUME Base, NEW p \in Publishers, owed[p] # <<>>, owed' = [owed EXCEPT ![p] = Tail(@)]
    PROVE  /\ 1 \in DOMAIN owed[p] /\ Head(owed[p]) = owed[p][1]
           /\ \A q \in Publishers : \A j \in DOMAIN owed'[q] :
                \E k \in DOMAIN owed[q] : owed'[q][j] = owed[q][k]
           /\ \A e : Owed(e) => Owed(e)' \/ e = Head(owed[p])
  <1>. DEFINE m == Head(owed[p])
  <1>0. Types
    BY DEF Base
  <1>1. owed[p] \in Seq(MessageType) /\ owed' = [owed EXCEPT ![p] = Tail(owed[p])]
    BY <1>0 DEF Types
  <1>2. owed'[p] = Tail(owed[p]) /\ \A q \in Publishers \ {p} : owed'[q] = owed[q]
    BY <1>0, <1>1 DEF Types
  <1>3. /\ Len(owed[p]) \in Nat \ {0} /\ m = owed[p][1]
        /\ Tail(owed[p]) \in Seq(MessageType) /\ Len(Tail(owed[p])) = Len(owed[p]) - 1
        /\ \A j \in 1 .. Len(owed[p]) - 1 : Tail(owed[p])[j] = owed[p][j + 1]
    BY <1>1, TailFacts
  <1>4. DOMAIN owed[p] = 1 .. Len(owed[p]) /\ DOMAIN Tail(owed[p]) = 1 .. Len(owed[p]) - 1
    BY <1>1, <1>3
  <1>. HIDE DEF m
  <1>5. /\ DOMAIN owed'[p] = 1 .. Len(owed[p]) - 1
        /\ \A j \in 1 .. Len(owed[p]) - 1 : owed'[p][j] = owed[p][j + 1]
    BY <1>2, <1>3, <1>4, Zenon
  <1>6. \A q \in Publishers : \A j \in DOMAIN owed'[q] :
          \E k \in DOMAIN owed[q] : owed'[q][j] = owed[q][k]
    <2>1. ASSUME NEW j \in DOMAIN owed'[p] PROVE \E k \in DOMAIN owed[p] : owed'[p][j] = owed[p][k]
      <3>1. j + 1 \in DOMAIN owed[p] /\ owed'[p][j] = owed[p][j + 1]
        BY <1>3, <1>4, <1>5
      <3>. QED
        BY <3>1
    <2>2. ASSUME NEW q \in Publishers, q # p, NEW j \in DOMAIN owed'[q]
          PROVE  \E k \in DOMAIN owed[q] : owed'[q][j] = owed[q][k]
      BY <1>2, <2>2
    <2>. QED
      BY <2>1, <2>2
  <1>7. \A e : Owed(e) => Owed(e)' \/ e = m
    <2>1. SUFFICES ASSUME NEW q \in Publishers, NEW j \in DOMAIN owed[q], owed[q][j] # m
                   PROVE  \E k \in DOMAIN owed'[q] : owed'[q][k] = owed[q][j]
      BY DEF Owed
    <2>2. CASE q # p
      BY <1>2, <2>1, <2>2
    <2>3. CASE q = p
      <3>1. j # 1
        BY <1>3, <2>1, <2>3
      <3>2. j - 1 \in DOMAIN owed'[p] /\ owed'[p][j - 1] = owed[p][j]
        BY <1>3, <1>4, <1>5, <2>3, <3>1
      <3>. QED
        BY <2>3, <3>2
    <2>. QED
      BY <2>2, <2>3
  <1>8. 1 \in DOMAIN owed[p]
    BY <1>3, <1>4
  <1>. QED
    BY <1>3, <1>6, <1>7, <1>8 DEF m

(* The message goes to the end of every queue that has room, or there is   *)
(* no id for it and it is not announced any more.                          *)
LEMMA PublishStream ==
    ASSUME Base, Base', StreamInv, NEW p \in Publishers, PublishEvent(p) \/ PublishAudit(p)
    PROVE  StreamInv'
  <1>. DEFINE m == Head(owed[p])
              R == Receivers(p)
              Sent == /\ Enqueue(m, R)
                      /\ dropped' = (dropped \/ \E c \in R : ~CanEnqueue(c))
                      /\ UNCHANGED announced
              Unsent == UNCHANGED <<log, dropped>> /\ announced' = announced \ {m}
  <1>0. Types /\ Holder
    BY DEF Base
  <1>1. /\ owed[p] # <<>> /\ m \in MessageType /\ m.kind \in {"event", "audit"}
        /\ m.kind = "event" => eventMu = NoConn
        /\ owed' = [owed EXCEPT ![p] = Tail(@)]
        /\ Sent \/ Unsent
        /\ UNCHANGED <<past, pending, sessions, want>>
    BY PublishEffect DEF readerVars
  <1>2. /\ R \in SUBSET Conns /\ Registered' = Registered
        /\ \A c \in Registered : m.kind = "event" /\ want[c].events => c \in R
    BY <1>1 DEF Registered, Receivers
  <1>3. /\ 1 \in DOMAIN owed[p] /\ m = owed[p][1]
        /\ \A q \in Publishers : \A j \in DOMAIN owed'[q] :
             \E k \in DOMAIN owed[q] : owed'[q][j] = owed[q][k]
        /\ \A e : Owed(e) => Owed(e)' \/ e = m
    BY <1>1, PublishOwed
  <1>4. /\ m.kind = "event" => m.n \in 1 .. Len(past) - 1 /\ \A c \in Conns : pending[c] = <<>>
        /\ ~IsChunk(m) /\ (Recorded(m) <=> m.kind = "event")
    <2>1. m.kind = "event" => m.n \in 1 .. Len(past) - 1
      BY <1>3 DEF StreamInv, Behind
    <2>2. NoConn \notin Conns
      BY PrivateSessionAssumption DEF NoConn, Conns
    <2>3. m.kind = "event" => \A c \in Conns : pending[c] = <<>>
      BY <1>0, <1>1, <2>2 DEF Holder
    <2>. QED
      BY <1>1, <2>1, <2>3, MessageFacts DEF Recorded
  <1>5. /\ \A e \in announced : e.kind = "event" /\ e.n \in 1 .. Len(past) - 1
        /\ announced' \subseteq announced
    BY <1>0, <1>1, MessageFacts DEF Types, StreamInv, Behind
  <1>6. \A q \in Publishers : \A j \in DOMAIN owed'[q] :
          owed'[q][j].kind = "event" => owed'[q][j].n \in 1 .. Len(past) - 1
    BY <1>3 DEF StreamInv, Behind
  <1>7. CASE Unsent
    <2>1. \A e \in announced' : e \in announced /\ e # m
      BY <1>7
    <2>2. Behind'
      BY <1>1, <1>5, <1>6, <1>7 DEF StreamInv, Behind
    <2>3. Ahead'
      BY <1>1, <1>3, <1>7, <2>1 DEF StreamInv, Ahead
    <2>4. SnapshotBoundary'
      BY <1>7 DEF StreamInv, SnapshotBoundary
    <2>5. Gapless'
      <3>1. \A c, i, e : Told(c, i, e)' <=> Told(c, i, e)
        BY <1>7 DEF Told
      <3>. QED
        BY <1>1, <1>2, <1>3, <1>7, <2>1, <3>1 DEF StreamInv, Gapless
    <2>. QED
      BY <2>2, <2>3, <2>4, <2>5 DEF StreamInv
  <1>8. CASE Sent
    <2>1. \A c \in Conns : IF c \in R /\ CanEnqueue(c) /\ m.kind = "event"
                           THEN log'[c] = Append(log[c], m) ELSE log'[c] = log[c]
      <3>. HIDE DEF m, R
      <3>. QED
        BY <1>0, <1>1, <1>2, <1>4, <1>8, EnqueueFacts
    \* what is known of the logs, without the details of the messages
    <2>2. ASSUME NEW c \in Conns
          PROVE  /\ Len(log[c]) \in Nat /\ DOMAIN log[c] = 1 .. Len(log[c])
                 /\ \A j \in DOMAIN log[c] : j \in DOMAIN log'[c] /\ log'[c][j] = log[c][j]
                 /\ Len(log'[c]) \in Nat /\ Len(log'[c]) >= Len(log[c]) /\ DOMAIN log'[c] = 1 .. Len(log'[c])
                 /\ \A j \in DOMAIN log'[c] : j \in DOMAIN log[c] \/ (log'[c][j] = m /\ m.kind = "event")
                 /\ (c \in R /\ CanEnqueue(c) /\ m.kind = "event") =>
                       Len(log'[c]) = Len(log[c]) + 1 /\ log'[c][Len(log[c]) + 1] = m
      <3>. HIDE DEF m, R
      <3>1. log[c] \in Seq(MessageType \cup ChunkType) /\ m \in MessageType \cup ChunkType
        BY <1>1, SequenceFacts
      <3>2. CASE log'[c] = Append(log[c], m) /\ m.kind = "event"
        BY <3>1, <3>2, AppendFacts
      <3>3. CASE log'[c] = log[c] /\ ~(c \in R /\ CanEnqueue(c) /\ m.kind = "event")
        BY <3>1, <3>3
      <3>. QED
        BY <2>1, <3>2, <3>3
    <2>3. announced' = announced /\ (~dropped' => ~dropped /\ \A c \in R : CanEnqueue(c))
      BY <1>8
    <2>. HIDE DEF m, R, Sent, Unsent
    <2>4. Behind'
      <3>1. \A c \in Conns : \A j \in DOMAIN log'[c] :
              log'[c][j].kind = "event" => log'[c][j].n \in 1 .. Len(past) - 1
        BY <1>4, <2>2 DEF StreamInv, Behind
      <3>. QED
        BY <1>1, <1>5, <1>6, <2>3, <3>1 DEF Behind
    <2>5. Ahead'
      <3>1. CASE m.kind = "event"
        BY <1>1, <1>4, <3>1 DEF Ahead
      <3>2. CASE m.kind # "event"
        <4>1. \A c \in Conns : log'[c] = log[c]
          BY <2>1, <3>2
        <4>2. \A e \in announced : Owed(e) => Owed(e)'
          BY <1>3, <1>5, <3>2
        <4>. QED
          BY <1>1, <2>3, <4>1, <4>2 DEF StreamInv, Ahead
      <3>. QED
        BY <3>1, <3>2
    <2>6. SnapshotBoundary'
      <3>1. SUFFICES ASSUME NEW c \in Conns, NEW i \in DOMAIN log'[c], NEW j \in DOMAIN log'[c],
                            i < j, log'[c][i].kind = "event", IsChunk(log'[c][j])
                     PROVE  log'[c][i].n <= log'[c][j].n
        BY DEF SnapshotBoundary, IsChunk
      <3>2. j \in DOMAIN log[c]
        BY <1>4, <2>2, <3>1
      <3>3. i \in DOMAIN log[c]
        BY <2>2, <3>1, <3>2
      <3>4. log'[c][i] = log[c][i] /\ log'[c][j] = log[c][j]
        BY <2>2, <3>2, <3>3
      <3>. QED
        BY <3>1, <3>2, <3>3, <3>4 DEF StreamInv, SnapshotBoundary
    <2>7. Gapless'
      <3>1. SUFFICES ASSUME NEW c \in Registered, NEW i \in DOMAIN log'[c], NEW e \in announced,
                            ~dropped', want[c].events, IsChunk(log'[c][i]),
                            e.n > log'[c][i].n
                     PROVE  Told(c, i, e)' \/ Owed(e)'
        BY <1>1, <1>2, <2>3 DEF Gapless, IsChunk
      <3>2. c \in Conns
        BY DEF Registered
      <3>3. i \in DOMAIN log[c] /\ log'[c][i] = log[c][i] /\ i \in Nat
        BY <1>4, <2>2, <3>1, <3>2
      <3>4. Told(c, i, e) \/ Owed(e)
        BY <2>3, <3>1, <3>3 DEF StreamInv, Gapless
      <3>5. CASE Told(c, i, e)
        <4>1. PICK j \in i + 1 .. Len(log[c]) : log[c][j] = e
          BY <3>5 DEF Told
        <4>2. j \in i + 1 .. Len(log'[c]) /\ log'[c][j] = log[c][j]
          BY <2>2, <3>2, <3>3
        <4>. QED
          BY <4>1, <4>2 DEF Told
      <3>6. CASE e = m
        <4>1. m.kind = "event" /\ c \in R /\ CanEnqueue(c)
          BY <1>2, <1>5, <2>3, <3>1, <3>6
        <4>2. Len(log'[c]) = Len(log[c]) + 1 /\ log'[c][Len(log[c]) + 1] = m
          BY <2>2, <3>2, <4>1
        <4>3. Len(log[c]) + 1 \in i + 1 .. Len(log'[c])
          BY <2>2, <3>2, <3>3, <4>2
        <4>. QED
          BY <3>6, <4>2, <4>3 DEF Told
      <3>. QED
        BY <1>3, <3>4, <3>5, <3>6
    <2>. QED
      BY <2>4, <2>5, <2>6, <2>7 DEF StreamInv
  <1>. QED
    BY <1>1, <1>7, <1>8

(* A quiet step: the session whose log is cleared or who is new in the     *)
(* register has an empty log.                                              *)
LEMMA QuietStream ==
    ASSUME Base, Base', Register, StreamInv, NEW c \in Conns, QuietStep(c)
    PROVE  StreamInv'
  <1>1. /\ \A d \in Conns : log'[d] = log[d] \/ log'[d] = <<>>
        /\ UNCHANGED <<past, announced, owed, dropped, want, pending>>
    BY QuietEffect
  <1>2. \A d \in Registered' : d \in Conns /\ (d \in Registered \/ log'[d] = <<>>)
    <2>1. CASE Hello(c)
      <3>1. stage[c] = "off" /\ sessions' = [sessions EXCEPT ![Owner[c]] = c]
        BY <2>1 DEF Hello, At
      <3>2. \A d \in Conns : Owner[d] \in Services
        BY DEF Services
      <3>3. \A d \in Registered' : d \in Registered \/ d = c
        BY <3>1, <3>2 DEF Registered, Base, Types
      <3>4. log[c] = <<>>
        BY <3>1 DEF Register
      <3>. QED
        BY <1>1, <3>3, <3>4 DEF Registered
    <2>2. CASE Leave(c)
      <3>1. sessions' = [sessions EXCEPT ![Owner[c]] = IF @ = c THEN NoConn ELSE @]
        BY <2>2 DEF Leave
      <3>2. \A d \in Conns : Owner[d] \in Services
        BY DEF Services
      <3>3. NoConn \notin Conns
        BY PrivateSessionAssumption DEF NoConn, Conns
      <3>. QED
        BY <3>1, <3>2, <3>3 DEF Registered, Base, Types
    <2>3. CASE ~(Hello(c) \/ Leave(c))
      <3>1. UNCHANGED sessions
        BY <2>3 DEF QuietStep, Refused, ClosePrevious, HelloAck, Health, Ask, Snapshot, IdFails, ReadFails,
             WriterStops, Write, Unblocked, WriteFails, readerVars
      <3>. QED
        BY <3>1 DEF Registered
    <2>. QED
      BY <2>1, <2>2, <2>3
  <1>3. \A e : Owed(e)' <=> Owed(e)
    BY <1>1 DEF Owed
  <1>4. Behind'
    BY <1>1 DEF StreamInv, Behind
  <1>5. Ahead'
    BY <1>1, <1>3 DEF StreamInv, Ahead
  <1>6. SnapshotBoundary'
    BY <1>1 DEF StreamInv, SnapshotBoundary
  <1>7. Gapless'
    <2>1. SUFFICES ASSUME NEW d \in Registered', NEW i \in DOMAIN log'[d], NEW e \in announced,
                          ~dropped, want[d].events, IsChunk(log'[d][i]),
                          e.n > log'[d][i].n
                   PROVE  Told(d, i, e)' \/ Owed(e)
      BY <1>1, <1>3 DEF Gapless, IsChunk
    <2>2. d \in Registered /\ log'[d] = log[d]
      BY <1>1, <1>2, <2>1
    <2>3. Told(d, i, e) \/ Owed(e)
      BY <2>1, <2>2 DEF StreamInv, Gapless
    <2>. QED
      BY <2>2, <2>3 DEF Told
  <1>. QED
    BY <1>4, <1>5, <1>6, <1>7 DEF StreamInv

(* A snapshot is taken of the present table, so no event is ahead of it.   *)
LEMMA SnapshotStream ==
    ASSUME Base, StreamInv, NEW c \in Conns, Snapshot(c), ~TooLarge(table)
    PROVE  StreamInv'
  <1>1. /\ pending' = [pending EXCEPT ![c] = SnapshotOf(c)]
        /\ UNCHANGED <<past, announced, owed, log, dropped, sessions, want>>
    BY SnapshotEffect DEF relayVars, queueVars
  <1>2. \A i \in DOMAIN SnapshotOf(c) : SnapshotOf(c)[i].n = Len(past) - 1
    BY SnapshotOfFacts
  <1>3. \A d \in Conns : pending'[d] = IF d = c THEN SnapshotOf(c) ELSE pending[d]
    BY <1>1 DEF Base, Types
  <1>4. \A e : Owed(e)' <=> Owed(e)
    BY <1>1 DEF Owed
  <1>5. Ahead'
    <2>1. SUFFICES ASSUME NEW d \in Conns, NEW i \in DOMAIN pending'[d]
                   PROVE  /\ \A j \in DOMAIN log[d] : log[d][j].kind = "event" => log[d][j].n <= pending'[d][i].n
                          /\ \A e \in announced : e.n > pending'[d][i].n => Owed(e)
      BY <1>1, <1>4 DEF Ahead
    <2>2. CASE d = c
      <3>1. pending'[d][i].n = Len(past) - 1
        BY <1>2, <1>3, <2>2
      <3>2. /\ Len(past) \in Nat
            /\ \A j \in DOMAIN log[d] : log[d][j].kind = "event" => log[d][j].n \in 1 .. Len(past) - 1
            /\ \A e \in announced : e.n \in 1 .. Len(past) - 1
        BY SequenceFacts DEF StreamInv, Behind
      <3>. QED
        BY <3>1, <3>2
    <2>3. CASE d # c
      BY <1>3, <2>3 DEF StreamInv, Ahead
    <2>. QED
      BY <2>2, <2>3
  <1>6. Behind' /\ SnapshotBoundary'
    BY <1>1 DEF StreamInv, Behind, SnapshotBoundary
  <1>7. Gapless'
    <2>1. Registered' = Registered
      BY <1>1 DEF Registered
    <2>. QED
      BY <1>1, <1>4, <2>1 DEF StreamInv, Gapless, Told
  <1>. QED
    BY <1>5, <1>6, <1>7 DEF StreamInv

(* What queueing a chunk does to the stream of its session.                *)
LEMMA ChunkLog ==
    ASSUME Base, NEW c \in Conns, Chunk(c)
    PROVE  LET h == Head(pending[c])
           IN /\ h = pending[c][1] /\ 1 \in DOMAIN pending[c] /\ h \in ChunkType
              /\ \A d \in Conns \ {c} : log'[d] = log[d] /\ pending'[d] = pending[d]
              /\ \/ /\ CanEnqueue(c) /\ log'[c] = Append(log[c], h)
                    /\ Len(log'[c]) = Len(log[c]) + 1
                    /\ DOMAIN log'[c] = 1 .. Len(log[c]) + 1
                    /\ \A j \in 1 .. Len(log[c]) : log'[c][j] = log[c][j]
                    /\ log'[c][Len(log[c]) + 1] = h
                 \/ ~CanEnqueue(c) /\ log'[c] = log[c] /\ pending'[c] = <<>>
              /\ \A i \in DOMAIN pending'[c] :
                   i + 1 \in DOMAIN pending[c] /\ pending'[c][i] = pending[c][i + 1]
  <1>. DEFINE h == Head(pending[c])
  <1>0. Types /\ Holder
    BY DEF Base
  <1>1. /\ pending[c] \in Seq(ChunkType) /\ pending[c] # <<>> /\ h \in ChunkType /\ Enqueue(h, {c})
        /\ \/ CanEnqueue(c) /\ pending' = [pending EXCEPT ![c] = <<>>]
           \/ CanEnqueue(c) /\ pending' = [pending EXCEPT ![c] = Tail(@)]
           \/ ~CanEnqueue(c) /\ pending' = [pending EXCEPT ![c] = <<>>]
    BY ChunkEffect
  <1>2. /\ Len(pending[c]) \in Nat \ {0} /\ h = pending[c][1]
        /\ Tail(pending[c]) \in Seq(ChunkType) /\ Len(Tail(pending[c])) = Len(pending[c]) - 1
        /\ \A i \in 1 .. Len(pending[c]) - 1 : Tail(pending[c])[i] = pending[c][i + 1]
    BY <1>1, TailFacts
  <1>3. DOMAIN pending[c] = 1 .. Len(pending[c]) /\ DOMAIN Tail(pending[c]) = 1 .. Len(pending[c]) - 1
    BY <1>1, <1>2
  <1>4. /\ \A d \in Conns \ {c} : pending'[d] = pending[d]
        /\ pending'[c] \in {<<>>, Tail(pending[c])}
        /\ ~CanEnqueue(c) => pending'[c] = <<>>
    BY <1>0, <1>1 DEF Types
  <1>5. \A i \in DOMAIN pending'[c] : i + 1 \in DOMAIN pending[c] /\ pending'[c][i] = pending[c][i + 1]
    <2>1. CASE pending'[c] = <<>>
      BY <2>1
    <2>2. CASE pending'[c] = Tail(pending[c])
      BY <1>2, <1>3, <2>2
    <2>. QED
      BY <1>4, <2>1, <2>2
  <1>6. Recorded(h)
    BY <1>1, MessageFacts DEF Recorded
  <1>7. \A d \in Conns : IF d = c /\ CanEnqueue(c) THEN log'[d] = Append(log[d], h) ELSE log'[d] = log[d]
    <2>. HIDE DEF h
    <2>. QED
      BY <1>0, <1>1, <1>6, EnqueueFacts
  <1>8. /\ Len(Append(log[c], h)) = Len(log[c]) + 1
        /\ DOMAIN Append(log[c], h) = 1 .. Len(log[c]) + 1
        /\ \A j \in 1 .. Len(log[c]) : Append(log[c], h)[j] = log[c][j]
        /\ Append(log[c], h)[Len(log[c]) + 1] = h
    <2>. HIDE DEF h
    <2>1. log[c] \in Seq(MessageType \cup ChunkType) /\ h \in MessageType \cup ChunkType
      BY <1>1, SequenceFacts
    <2>. QED
      BY <2>1, AppendFacts
  <1>. HIDE DEF h
  <1>9. 1 \in DOMAIN pending[c]
    BY <1>2, <1>3
  <1>10. \A d \in Conns \ {c} : log'[d] = log[d]
    BY <1>7
  <1>11. CanEnqueue(c) => log'[c] = Append(log[c], h)
    BY <1>7
  <1>12. ~CanEnqueue(c) => log'[c] = log[c]
    BY <1>7
  <1>13. \/ /\ CanEnqueue(c) /\ log'[c] = Append(log[c], h)
            /\ Len(log'[c]) = Len(log[c]) + 1
            /\ DOMAIN log'[c] = 1 .. Len(log[c]) + 1
            /\ \A j \in 1 .. Len(log[c]) : log'[c][j] = log[c][j]
            /\ log'[c][Len(log[c]) + 1] = h
         \/ ~CanEnqueue(c) /\ log'[c] = log[c] /\ pending'[c] = <<>>
    BY <1>4, <1>8, <1>11, <1>12
  <1>. QED
    BY <1>1, <1>2, <1>4, <1>5, <1>9, <1>10, <1>13 DEF h

(* A chunk is no older than the events before it, and what it does not     *)
(* hold is owed still.                                                     *)
LEMMA ChunkStream ==
    ASSUME Base, Base', StreamInv, NEW c \in Conns, Chunk(c)
    PROVE  StreamInv'
  <1>. DEFINE h == Head(pending[c])
              size == Len(log[c])
  <1>1. /\ h = pending[c][1] /\ 1 \in DOMAIN pending[c] /\ h \in ChunkType
        /\ \A d \in Conns \ {c} : log'[d] = log[d] /\ pending'[d] = pending[d]
        /\ \/ /\ CanEnqueue(c)
              /\ Len(log'[c]) = size + 1
              /\ DOMAIN log'[c] = 1 .. size + 1
              /\ \A j \in 1 .. size : log'[c][j] = log[c][j]
              /\ log'[c][size + 1] = h
           \/ ~CanEnqueue(c) /\ log'[c] = log[c]
        /\ \A i \in DOMAIN pending'[c] :
             i + 1 \in DOMAIN pending[c] /\ pending'[c][i] = pending[c][i + 1]
    BY ChunkLog
  <1>2. UNCHANGED <<past, announced, owed, dropped, sessions, want>>
    BY ChunkEffect DEF relayVars
  <1>3. size \in Nat /\ DOMAIN log[c] = 1 .. size
    BY SequenceFacts
  <1>4. IsChunk(h) /\ h.kind # "event" /\ h.n \in Nat
    BY <1>1, MessageFacts, SequenceFacts
  <1>5. \A e : Owed(e)' <=> Owed(e)
    BY <1>2 DEF Owed
  <1>6. /\ \A j \in 1 .. size : log[c][j].kind = "event" => log[c][j].n <= h.n
        /\ \A e \in announced : e.n > h.n => Owed(e)
    BY <1>1, <1>3 DEF StreamInv, Ahead
  \* the old entries of a log, and the one that may be new
  <1>7. \A d \in Conns : \A j \in DOMAIN log'[d] :
          \/ j \in DOMAIN log[d] /\ log'[d][j] = log[d][j]
          \/ d = c /\ j = size + 1 /\ log'[d][j] = h
    BY <1>1, <1>3
  <1>8. \A d \in Conns : \A j \in DOMAIN log[d] : j \in DOMAIN log'[d] /\ log'[d][j] = log[d][j]
    BY <1>1, <1>3
  <1>. HIDE DEF h, size
  <1>9. Behind'
    <2>1. \A d \in Conns : \A j \in DOMAIN log'[d] :
            log'[d][j].kind = "event" => log'[d][j].n \in 1 .. Len(past) - 1
      BY <1>4, <1>7 DEF StreamInv, Behind
    <2>. QED
      BY <1>2, <2>1 DEF StreamInv, Behind
  <1>10. Ahead'
    <2>1. SUFFICES ASSUME NEW d \in Conns, NEW i \in DOMAIN pending'[d]
                   PROVE  /\ \A j \in DOMAIN log'[d] : log'[d][j].kind = "event" => log'[d][j].n <= pending'[d][i].n
                          /\ \A e \in announced : e.n > pending'[d][i].n => Owed(e)
      BY <1>2, <1>5 DEF Ahead
    <2>2. \E k \in DOMAIN pending[d] : pending'[d][i] = pending[d][k]
      BY <1>1
    <2>. QED
      BY <1>4, <1>7, <2>2 DEF StreamInv, Ahead
  <1>11. SnapshotBoundary'
    <2>1. SUFFICES ASSUME NEW d \in Conns, NEW i \in DOMAIN log'[d], NEW j \in DOMAIN log'[d],
                          i < j, log'[d][i].kind = "event", IsChunk(log'[d][j])
                   PROVE  log'[d][i].n <= log'[d][j].n
      BY DEF SnapshotBoundary, IsChunk
    <2>2. i \in DOMAIN log[d] /\ log'[d][i] = log[d][i]
      BY <1>4, <1>7, <2>1
    <2>3. CASE j \in DOMAIN log[d] /\ log'[d][j] = log[d][j]
      BY <2>1, <2>2, <2>3 DEF StreamInv, SnapshotBoundary
    <2>4. CASE d = c /\ log'[d][j] = h
      BY <1>3, <1>6, <2>1, <2>2, <2>4
    <2>. QED
      BY <1>7, <2>3, <2>4
  <1>12. Gapless'
    <2>1. SUFFICES ASSUME NEW d \in Registered, NEW i \in DOMAIN log'[d], NEW e \in announced,
                          ~dropped, want[d].events, IsChunk(log'[d][i]),
                          e.n > log'[d][i].n
                   PROVE  Told(d, i, e)' \/ Owed(e)
      <3>1. Registered' = Registered
        BY <1>2 DEF Registered
      <3>. QED
        BY <1>2, <1>5, <3>1 DEF Gapless, IsChunk
    <2>2. d \in Conns
      BY DEF Registered
    <2>3. CASE d = c /\ log'[d][i] = h
      BY <1>6, <2>1, <2>3
    <2>4. CASE i \in DOMAIN log[d] /\ log'[d][i] = log[d][i]
      <3>1. Told(d, i, e) \/ Owed(e)
        BY <2>1, <2>4 DEF StreamInv, Gapless
      <3>2. ASSUME Told(d, i, e) PROVE Told(d, i, e)'
        <4>1. PICK j \in i + 1 .. Len(log[d]) : log[d][j] = e
          BY <3>2 DEF Told
        <4>2. Len(log[d]) \in Nat /\ DOMAIN log[d] = 1 .. Len(log[d]) /\ i \in Nat
          BY <2>2, <2>4, SequenceFacts
        <4>3. Len(log'[d]) \in Nat /\ Len(log'[d]) >= Len(log[d])
          BY <1>1, <1>3, <2>2, <4>2 DEF size
        <4>4. j \in DOMAIN log[d] /\ log'[d][j] = log[d][j] /\ j \in i + 1 .. Len(log'[d])
          BY <1>8, <2>2, <2>4, <4>2, <4>3
        <4>. QED
          BY <4>1, <4>4 DEF Told
      <3>. QED
        BY <3>1, <3>2
    <2>. QED
      BY <1>7, <2>2, <2>3, <2>4
  <1>. QED
    BY <1>9, <1>10, <1>11, <1>12 DEF StreamInv

(* A snapshot that breaks off has nothing left to queue.                   *)
LEMMA BreakStream ==
    ASSUME Base, StreamInv, NEW c \in Conns, BreaksOff(c)
    PROVE  StreamInv'
  <1>1. /\ pending' = [pending EXCEPT ![c] = <<>>]
        /\ UNCHANGED <<past, announced, owed, log, dropped, sessions, want>>
    BY BreakEffect DEF relayVars, queueVars
  <1>2. \A d \in Conns : pending'[d] = pending[d] \/ pending'[d] = <<>>
    BY <1>1 DEF Base, Types
  <1>3. \A e : Owed(e)' <=> Owed(e)
    BY <1>1 DEF Owed
  <1>4. Ahead'
    BY <1>1, <1>2, <1>3 DEF StreamInv, Ahead
  <1>5. Behind' /\ SnapshotBoundary'
    BY <1>1 DEF StreamInv, Behind, SnapshotBoundary
  <1>6. Gapless'
    BY <1>1, <1>3 DEF StreamInv, Gapless, Told, Registered
  <1>. QED
    BY <1>4, <1>5, <1>6 DEF StreamInv

(* The streams are sound at the start and after every step.                *)
LEMMA StreamInit == Init => StreamInv
  BY DEF Init, StreamInv, Behind, Ahead, SnapshotBoundary, Gapless, Registered

LEMMA StreamStep == Base /\ Register /\ StreamInv /\ [Next]_vars => StreamInv'
  <1>. SUFFICES ASSUME Base, Register, StreamInv, [Next]_vars PROVE StreamInv'
    OBVIOUS
  <1>1. Base'
    BY BaseStep
  <1>2. CASE UNCHANGED vars
    BY <1>2 DEF vars, relayVars, queueVars, readerVars, connVars,
         StreamInv, Behind, Ahead, SnapshotBoundary, Gapless, Registered, Owed, Told
  <1>. QED
    BY <1>1, <1>2, RelayStream, PublishStream, QuietStream, SnapshotStream, ChunkStream, BreakStream,
       StepKinds

(* A Management Service that has a snapshot misses no event of a later     *)
(* change while nothing was dropped: whatever the publishers, the readers  *)
(* and the writers interleave, the event is in its queue behind the        *)
(* snapshot or still owed, unless there was no id for it                   *)
(* (handleRelayStateSnapshot, publishLifecycleEvent).                      *)
THEOREM NoEventEverMissed == Spec => []NoEventMissed
  <1>1. StreamInv => NoEventMissed
    BY DEF StreamInv, Gapless, NoEventMissed, Told, Owed
  <1>2. Base /\ Register /\ StreamInv /\ [Next]_vars => (Base /\ Register /\ StreamInv)'
    BY BaseStep, RegisterStep, StreamStep
  <1>. QED
    BY <1>1, <1>2, BaseInit, RegisterInit, StreamInit, PTL DEF Spec

-----------------------------------------------------------------------------
(* The frames of a snapshot stand in one run in the queue. Each is a part  *)
(* of the table its snapshot was taken from; a run that is not complete    *)
(* ends where the frames still pending go on, or its session leaves.       *)
Cut(m) ==
    /\ m.n + 1 \in DOMAIN past
    /\ m.count = Len(Chunks(past[m.n + 1]))
    /\ m.index \in 1 .. m.count
    /\ m.channels = Chunks(past[m.n + 1])[m.index]

AllCut ==
    \A c \in Conns :
        /\ \A i \in DOMAIN log[c] : IsChunk(log[c][i]) => Cut(log[c][i]) /\ log[c][i].id <= asked[c]
        /\ \A i \in DOMAIN pending[c] : Cut(pending[c][i]) /\ pending[c][i].id = asked[c]

Runs ==
    \A c \in Conns : \A i \in DOMAIN log[c] :
        IsChunk(log[c][i]) =>
            \A k \in 1 .. log[c][i].index :
                /\ FrameAt(c, i - log[c][i].index + k, log[c][i].id, k)
                /\ log[c][i - log[c][i].index + k].n = log[c][i].n

SameRun ==
    \A c \in Conns : \A i, j \in DOMAIN log[c] :
        (IsChunk(log[c][i]) /\ IsChunk(log[c][j]) /\ log[c][i].id = log[c][j].id) =>
            i - log[c][i].index = j - log[c][j].index /\ log[c][i].n = log[c][j].n

(* The frames before the pending ones are at the end of the queue.         *)
Joined(c, h) ==
    IF h.index = 1
    THEN \A i \in DOMAIN log[c] : IsChunk(log[c][i]) => log[c][i].id # asked[c]
    ELSE FrameAt(c, Len(log[c]), asked[c], h.index - 1) /\ log[c][Len(log[c])].n = h.n

Progress ==
    \A c \in Conns :
        pending[c] # <<>> =>
            /\ \A k \in DOMAIN pending[c] :
                 /\ pending[c][k].n = pending[c][1].n
                 /\ pending[c][k].index = pending[c][1].index + k - 1
            /\ pending[c][1].index + Len(pending[c]) - 1 = pending[c][1].count
            /\ ~done[c] => Joined(c, pending[c][1])

Complete(c, i) ==
    FrameAt(c, i - log[c][i].index + log[c][i].count, log[c][i].id, log[c][i].count)

Finished ==
    \A c \in Conns :
        stage[c] \notin {"leave", "gone"} =>
            \A i \in DOMAIN log[c] :
                IsChunk(log[c][i]) /\ ~(stage[c] = "chunk" /\ log[c][i].id = asked[c]) => Complete(c, i)

WholeInv == AllCut /\ Runs /\ SameRun /\ Progress /\ Finished

(* A log that is cleared, or grows by no chunk, keeps its runs.            *)
LogKept(c) ==
    \/ log'[c] = <<>>
    \/ /\ \A j \in DOMAIN log[c] : j \in DOMAIN log'[c] /\ log'[c][j] = log[c][j]
       /\ \A j \in DOMAIN log'[c] : IsChunk(log'[c][j]) => j \in DOMAIN log[c]

LEMMA WholeKept ==
    ASSUME Base, Base', WholeInv, UNCHANGED pending,
           \A c \in Conns : LogKept(c),
           \A i \in DOMAIN past : i \in DOMAIN past' /\ past'[i] = past[i],
           \A c \in Conns : asked[c] <= asked'[c],
           \A c \in Conns : pending[c] # <<>> =>
              /\ asked'[c] = asked[c]
              /\ done'[c] \/ (log'[c] = log[c] /\ done'[c] = done[c]),
           \A c \in Conns : /\ stage'[c] = "chunk" <=> stage[c] = "chunk"
                            /\ stage[c] \in {"leave", "gone"} => stage'[c] \in {"leave", "gone"}
    PROVE  WholeInv'
  <1>1. \A m : Cut(m) => Cut(m)'
    BY DEF Cut
  <1>2. ASSUME NEW c \in Conns, NEW i \in DOMAIN log'[c], IsChunk(log'[c][i])
        PROVE  /\ i \in DOMAIN log[c] /\ log'[c][i] = log[c][i] /\ IsChunk(log[c][i])
               /\ \A j, id, k : FrameAt(c, j, id, k) => FrameAt(c, j, id, k)' /\ log'[c][j] = log[c][j]
               /\ log[c][i] \in ChunkType /\ asked[c] \in Nat /\ asked'[c] \in Nat
    <2>1. log'[c] # <<>>
      BY <1>2
    <2>2. /\ \A j \in DOMAIN log[c] : j \in DOMAIN log'[c] /\ log'[c][j] = log[c][j]
          /\ \A j \in DOMAIN log'[c] : IsChunk(log'[c][j]) => j \in DOMAIN log[c]
      BY <2>1 DEF LogKept
    <2>3. i \in DOMAIN log[c] /\ log'[c][i] = log[c][i] /\ IsChunk(log[c][i])
      BY <1>2, <2>2
    <2>4. \A j, id, k : FrameAt(c, j, id, k) => FrameAt(c, j, id, k)' /\ log'[c][j] = log[c][j]
      BY <2>2 DEF FrameAt, IsChunk
    <2>5. asked[c] \in Nat /\ asked'[c] \in Nat
      BY DEF Base, Types
    <2>. QED
      BY <2>3, <2>4, <2>5, SequenceFacts
  <1>3. AllCut'
    <2>1. ASSUME NEW c \in Conns, NEW i \in DOMAIN log'[c], IsChunk(log'[c][i])
          PROVE  Cut(log[c][i])' /\ log'[c][i] = log[c][i] /\ log[c][i].id <= asked'[c]
      <3>1. Cut(log[c][i]) /\ log[c][i].id <= asked[c]
        BY <1>2, <2>1 DEF WholeInv, AllCut
      <3>2. log[c][i].id \in Nat
        BY <1>2, <2>1 DEF ChunkType
      <3>3. log[c][i].id <= asked'[c]
        BY <1>2, <2>1, <3>1, <3>2
      <3>4. \A m : m = log[c][i] => Cut(m)'
        BY <1>1, <3>1
      <3>5. log'[c][i] = log[c][i]
        BY <1>2, <2>1
      <3>. QED
        BY <3>3, <3>4, <3>5
    <2>2. ASSUME NEW c \in Conns, NEW i \in DOMAIN pending'[c]
          PROVE  Cut(pending[c][i])' /\ pending'[c][i].id = asked'[c]
      <3>1. pending[c] # <<>> /\ Cut(pending[c][i]) /\ pending[c][i].id = asked[c]
        BY <2>2 DEF WholeInv, AllCut
      <3>2. \A m : m = pending[c][i] => Cut(m)'
        BY <1>1, <3>1
      <3>. QED
        BY <3>1, <3>2
    <2>. QED
      BY <2>1, <2>2 DEF AllCut, IsChunk
  <1>4. Runs'
    <2>1. SUFFICES ASSUME NEW c \in Conns, NEW i \in DOMAIN log'[c], IsChunk(log'[c][i]),
                          NEW k \in 1 .. log'[c][i].index
                   PROVE  /\ FrameAt(c, i - log[c][i].index + k, log[c][i].id, k)'
                          /\ log'[c][i - log[c][i].index + k].n = log[c][i].n
                          /\ log'[c][i] = log[c][i]
      BY DEF Runs, IsChunk
    <2>2. /\ FrameAt(c, i - log[c][i].index + k, log[c][i].id, k)
          /\ log[c][i - log[c][i].index + k].n = log[c][i].n
          /\ log'[c][i] = log[c][i]
      BY <1>2, <2>1 DEF WholeInv, Runs
    <2>3. \A j, id : j = i - log[c][i].index + k /\ id = log[c][i].id =>
            FrameAt(c, j, id, k)' /\ log'[c][j] = log[c][j]
      BY <1>2, <2>1, <2>2
    <2>. QED
      BY <2>2, <2>3
  <1>5. SameRun'
    <2>1. SUFFICES ASSUME NEW c \in Conns, NEW i \in DOMAIN log'[c], NEW j \in DOMAIN log'[c],
                          IsChunk(log'[c][i]), IsChunk(log'[c][j]), log'[c][i].id = log'[c][j].id
                   PROVE  i - log'[c][i].index = j - log'[c][j].index /\ log'[c][i].n = log'[c][j].n
      BY DEF SameRun, IsChunk
    <2>. QED
      BY <1>2, <2>1 DEF WholeInv, SameRun
  <1>6. Progress'
    <2>1. ASSUME NEW c \in Conns, pending[c] # <<>>, ~done'[c]
          PROVE  Joined(c, pending[c][1])'
      <3>1. asked'[c] = asked[c] /\ log'[c] = log[c] /\ ~done[c]
        BY <2>1
      <3>2. Joined(c, pending[c][1])
        BY <2>1, <3>1 DEF WholeInv, Progress
      <3>. QED
        BY <3>1, <3>2 DEF Joined, FrameAt
    <2>. QED
      BY <2>1 DEF WholeInv, Progress
  <1>7. Finished'
    <2>1. SUFFICES ASSUME NEW c \in Conns, stage'[c] \notin {"leave", "gone"},
                          NEW i \in DOMAIN log'[c], IsChunk(log'[c][i]),
                          ~(stage'[c] = "chunk" /\ log'[c][i].id = asked'[c])
                   PROVE  Complete(c, i)'
      BY DEF Finished, IsChunk
    <2>2. stage[c] = "chunk" => asked'[c] = asked[c]
      BY DEF Base, Holder
    <2>3. Complete(c, i) /\ log'[c][i] = log[c][i]
      BY <1>2, <2>1, <2>2 DEF WholeInv, Finished
    <2>4. \A j, id, k : FrameAt(c, j, id, k) => FrameAt(c, j, id, k)'
      BY <1>2, <2>1
    <2>5. \A j, id, k : /\ j = i - log[c][i].index + log[c][i].count /\ id = log[c][i].id
                        /\ k = log[c][i].count
                        => FrameAt(c, j, id, k)'
      BY <2>3, <2>4 DEF Complete
    <2>. QED
      BY <2>3, <2>5 DEF Complete
  <1>. QED
    BY <1>3, <1>4, <1>5, <1>6, <1>7 DEF WholeInv

(* So do the steps of the Relay and the publishers.                        *)
LEMMA RelayWhole ==
    ASSUME Base, Base', WholeInv, RelayStep
    PROVE  WholeInv'
  <1>0. Types
    BY DEF Base
  <1>1. PICK p \in Publishers : TableChanges(p) \/ NothingChanges(p)
    BY <1>0, RelayEffect
  <1>2. UNCHANGED <<log, pending, asked, stage, done>>
    BY <1>0, RelayEffect DEF queueVars, readerVars, connVars
  <1>3. \A i \in DOMAIN past : i \in DOMAIN past' /\ past'[i] = past[i]
    <2>1. CASE NothingChanges(p)
      BY <2>1 DEF NothingChanges
    <2>2. CASE TableChanges(p)
      <3>1. PICK t \in Tables : past' = Append(past, t)
        BY <2>2 DEF TableChanges
      <3>. QED
        BY <3>1, AppendFacts, SequenceFacts
    <2>. QED
      BY <1>1, <2>1, <2>2
  <1>4. \A c \in Conns : LogKept(c) /\ asked[c] <= asked'[c]
    BY <1>0, <1>2 DEF LogKept, Types
  <1>. QED
    BY <1>2, <1>3, <1>4, WholeKept

LEMMA PublishWhole ==
    ASSUME Base, Base', WholeInv, NEW p \in Publishers, PublishEvent(p) \/ PublishAudit(p)
    PROVE  WholeInv'
  <1>. DEFINE m == Head(owed[p])
              R == Receivers(p)
  <1>0. Types /\ Holder
    BY DEF Base
  <1>1. /\ m \in MessageType /\ m.kind \in {"event", "audit"}
        /\ Enqueue(m, R) \/ UNCHANGED log
        /\ m.kind = "event" => eventMu = NoConn
        /\ UNCHANGED <<past, pending, asked, stage, done>>
    BY PublishEffect DEF readerVars, connVars
  <1>2. R \in SUBSET Conns
    BY DEF Receivers, Registered
  <1>3. Recorded(m) <=> m.kind = "event"
    BY <1>1, MessageFacts DEF Recorded
  <1>. HIDE DEF m, R
  <1>4. \A c \in Conns : log'[c] = log[c] \/ (log'[c] = Append(log[c], m) /\ m.kind = "event")
    BY <1>0, <1>1, <1>2, <1>3, EnqueueFacts
  <1>5. ASSUME NEW c \in Conns PROVE LogKept(c)
    <2>1. CASE log'[c] = log[c]
      BY <2>1 DEF LogKept
    <2>2. CASE log'[c] = Append(log[c], m)
      <3>1. log[c] \in Seq(MessageType \cup ChunkType) /\ m \in MessageType \cup ChunkType /\ ~IsChunk(m)
        BY <1>1, SequenceFacts, MessageFacts
      <3>2. /\ Len(log[c]) \in Nat
            /\ DOMAIN log[c] = 1 .. Len(log[c]) /\ DOMAIN Append(log[c], m) = 1 .. Len(log[c]) + 1
            /\ \A i \in 1 .. Len(log[c]) : Append(log[c], m)[i] = log[c][i]
            /\ Append(log[c], m)[Len(log[c]) + 1] = m
        BY <3>1, AppendFacts
      <3>. QED
        BY <2>2, <3>1, <3>2 DEF LogKept
    <2>. QED
      BY <1>4, <2>1, <2>2
  <1>6. NoConn \notin Conns
    BY PrivateSessionAssumption DEF NoConn, Conns
  <1>7. \A c \in Conns : pending[c] # <<>> => log'[c] = log[c]
    BY <1>0, <1>1, <1>4, <1>6 DEF Holder
  <1>8. \A c \in Conns : asked[c] <= asked'[c]
    BY <1>0, <1>1 DEF Types
  <1>. QED
    BY <1>1, <1>5, <1>7, <1>8, WholeKept

(* And the quiet steps.                                                    *)
LEMMA QuietWhole ==
    ASSUME Base, Base', WholeInv, NEW c \in Conns, QuietStep(c)
    PROVE  WholeInv'
  <1>0. Types /\ Holder
    BY DEF Base
  <1>1. /\ \A d \in Conns : \/ log'[d] = log[d] /\ done'[d] = done[d]
                            \/ log'[d] = <<>> /\ done'[d] = TRUE
        /\ UNCHANGED <<past, pending>>
        /\ \A d \in Conns : stage'[d] = "chunk" <=> stage[d] = "chunk"
        /\ \A d \in Conns : asked[d] <= asked'[d]
        /\ stage[c] = "chunk" => asked' = asked
    BY QuietEffect
  <1>2. \A d \in Conns : d # c => asked'[d] = asked[d]
    BY <1>0 DEF QuietStep, Refused, Hello, ClosePrevious, HelloAck, Health, Ask, Snapshot, IdFails, ReadFails, Leave,
         WriterStops, Write, Unblocked, WriteFails, readerVars, Request, Types
  <1>3. \A d \in Conns : stage[d] \in {"leave", "gone"} => stage'[d] \in {"leave", "gone"}
    <2>1. \A d \in Conns \ {c} : stage'[d] = stage[d]
      BY QuietEffect
    <2>2. stage[c] \in {"leave", "gone"} => stage'[c] \in {"leave", "gone"}
      BY <1>0 DEF QuietStep, Refused, Hello, ClosePrevious, HelloAck, Health, Ask, Snapshot, IdFails, ReadFails, Leave,
           WriterStops, Write, Unblocked, WriteFails, Request, At, GoTo, Types
    <2>. QED
      BY <2>1, <2>2
  <1>4. \A d \in Conns : LogKept(d)
    BY <1>1 DEF LogKept
  <1>5. \A d \in Conns : pending[d] # <<>> =>
              /\ asked'[d] = asked[d]
              /\ done'[d] \/ (log'[d] = log[d] /\ done'[d] = done[d])
    BY <1>0, <1>1, <1>2 DEF Holder
  <1>. QED
    BY <1>1, <1>3, <1>4, <1>5, WholeKept

(* A snapshot starts a run of its own.                                     *)
LEMMA SnapshotWholeStep ==
    ASSUME Base, Base', WholeInv, NEW c \in Conns, Snapshot(c), ~TooLarge(table)
    PROVE  WholeInv'
  <1>0. Types /\ Holder
    BY DEF Base
  <1>1. /\ stage[c] = "read"
        /\ asked' = [asked EXCEPT ![c] = @ + 1]
        /\ pending' = [pending EXCEPT ![c] = SnapshotOf(c)]
        /\ stage' = [stage EXCEPT ![c] = "chunk"]
        /\ UNCHANGED <<past, log, done>>
    BY SnapshotEffect DEF relayVars, queueVars, connVars
  <1>. DEFINE s == SnapshotOf(c)
  <1>2. /\ table \in Tables /\ Len(Chunks(table)) \in Nat \ {0}
        /\ s \in Seq(ChunkType) /\ s # <<>> /\ Len(s) = Len(Chunks(table))
        /\ DOMAIN s = 1 .. Len(Chunks(table))
        /\ \A k \in DOMAIN s :
             /\ s[k].id = asked[c] + 1 /\ s[k].n = Len(past) - 1
             /\ s[k].index = k /\ s[k].count = Len(Chunks(table))
             /\ s[k].channels = Chunks(table)[k]
    BY SnapshotOfFacts
  <1>3. \A d \in Conns : /\ pending'[d] = IF d = c THEN s ELSE pending[d]
                         /\ stage'[d] = IF d = c THEN "chunk" ELSE stage[d]
                         /\ asked'[d] = IF d = c THEN asked[c] + 1 ELSE asked[d]
                         /\ asked[d] \in Nat
    BY <1>0, <1>1 DEF Types
  <1>. HIDE DEF s
  <1>4. \A m : Cut(m)' <=> Cut(m)
    BY <1>1 DEF Cut
  <1>5. \A k \in DOMAIN s : Cut(s[k])
    <2>1. Len(past) \in Nat \ {0} /\ DOMAIN past = 1 .. Len(past)
      BY SequenceFacts
    <2>2. \A k \in DOMAIN s : s[k].n + 1 = Len(past)
      BY <1>2, <2>1
    <2>. QED
      BY <1>2, <2>1, <2>2 DEF Cut, table
  <1>6. AllCut'
    <2>1. ASSUME NEW d \in Conns, NEW i \in DOMAIN log[d], IsChunk(log[d][i])
          PROVE  Cut(log[d][i]) /\ log[d][i].id <= asked'[d]
      <3>1. log[d][i].id \in Nat
        BY <2>1, SequenceFacts, ChunkFields
      <3>. QED
        BY <1>3, <2>1, <3>1 DEF WholeInv, AllCut
    <2>2. ASSUME NEW d \in Conns, NEW i \in DOMAIN pending'[d]
          PROVE  Cut(pending'[d][i]) /\ pending'[d][i].id = asked'[d]
      BY <1>2, <1>3, <1>5, <2>2 DEF WholeInv, AllCut
    <2>3. \A d \in Conns : \A i \in DOMAIN log'[d] :
            IsChunk(log'[d][i]) => Cut(log[d][i])' /\ log'[d][i].id <= asked'[d]
      BY <1>1, <2>1 DEF Cut
    <2>4. \A d \in Conns : \A i \in DOMAIN pending'[d] : Cut(pending[d][i])' /\ pending'[d][i].id = asked'[d]
      BY <1>1, <2>2 DEF Cut
    <2>. QED
      BY <2>3, <2>4 DEF AllCut, IsChunk
  <1>7. Runs' /\ SameRun'
    BY <1>1 DEF WholeInv, Runs, SameRun, FrameAt
  <1>8. Progress'
    <2>1. ASSUME NEW d \in Conns, pending'[d] # <<>>, d # c
          PROVE  /\ \A k \in DOMAIN pending'[d] :
                      /\ pending'[d][k].n = pending'[d][1].n
                      /\ pending'[d][k].index = pending'[d][1].index + k - 1
                 /\ pending'[d][1].index + Len(pending'[d]) - 1 = pending'[d][1].count
                 /\ ~done'[d] => Joined(d, pending[d][1])'
      <3>1. pending'[d] = pending[d] /\ asked'[d] = asked[d] /\ log'[d] = log[d] /\ done'[d] = done[d]
        BY <1>1, <1>3, <2>1
      <3>2. Joined(d, pending[d][1]) => Joined(d, pending[d][1])'
        BY <3>1 DEF Joined, FrameAt
      <3>. QED
        BY <2>1, <3>1, <3>2 DEF WholeInv, Progress
    <2>2. 1 \in DOMAIN s
      BY <1>2
    <2>3. /\ \A k \in DOMAIN s : s[k].n = s[1].n /\ s[k].index = s[1].index + k - 1
          /\ s[1].index + Len(s) - 1 = s[1].count
          /\ s[1].index = 1
      BY <1>2, <2>2
    <2>4. \A i \in DOMAIN log[c] : IsChunk(log[c][i]) => log[c][i].id # asked[c] + 1
      <3>1. \A i \in DOMAIN log[c] : IsChunk(log[c][i]) => log[c][i].id \in Nat
        BY SequenceFacts, ChunkFields
      <3>. QED
        BY <1>3, <3>1 DEF WholeInv, AllCut
    <2>5. pending'[c] = s /\ log' = log /\ asked'[c] = asked[c] + 1
      BY <1>1, <1>3
    <2>6. Joined(c, pending[c][1])'
      BY <2>3, <2>4, <2>5 DEF Joined, IsChunk
    <2>. QED
      BY <2>1, <2>3, <2>5, <2>6 DEF Progress
  <1>9. Finished'
    <2>1. SUFFICES ASSUME NEW d \in Conns, stage'[d] \notin {"leave", "gone"},
                          NEW i \in DOMAIN log[d], IsChunk(log[d][i]),
                          ~(stage'[d] = "chunk" /\ log[d][i].id = asked'[d])
                   PROVE  Complete(d, i)
      BY <1>1 DEF Finished, Complete, FrameAt
    <2>. QED
      BY <1>1, <1>3, <2>1 DEF WholeInv, Finished
  <1>. QED
    BY <1>6, <1>7, <1>8, <1>9 DEF WholeInv

(* A chunk that is refused, or has no id, ends the session, and what was   *)
(* queued stays.                                                           *)
LEMMA RefusedChunkWhole ==
    ASSUME Base, Base', WholeInv, NEW c \in Conns, (Chunk(c) /\ ~CanEnqueue(c)) \/ BreaksOff(c)
    PROVE  WholeInv'
  <1>0. Types /\ Holder
    BY DEF Base
  <1>1. /\ stage' = [stage EXCEPT ![c] = "leave"]
        /\ pending' = [pending EXCEPT ![c] = <<>>]
        /\ UNCHANGED <<past, asked, done>>
    BY ChunkEffect, BreakEffect DEF relayVars, connVars
  <1>2. \A d \in Conns : /\ log'[d] = log[d]
                         /\ pending'[d] = IF d = c THEN <<>> ELSE pending[d]
                         /\ stage'[d] = IF d = c THEN "leave" ELSE stage[d]
    <2>1. \A d \in Conns : log'[d] = log[d]
      BY ChunkLog, BreakEffect DEF queueVars
    <2>. QED
      BY <1>0, <1>1, <2>1 DEF Types
  <1>3. AllCut'
    BY <1>1, <1>2 DEF WholeInv, AllCut, Cut
  <1>4. Runs' /\ SameRun'
    BY <1>2 DEF WholeInv, Runs, SameRun, FrameAt
  <1>5. Progress'
    <2>1. ASSUME NEW d \in Conns, pending'[d] # <<>>
          PROVE  /\ pending'[d] = pending[d] /\ log'[d] = log[d]
                 /\ ~done[d] => Joined(d, pending[d][1])'
      <3>1. pending'[d] = pending[d] /\ log'[d] = log[d] /\ asked'[d] = asked[d]
        BY <1>1, <1>2, <2>1
      <3>2. ~done[d] => Joined(d, pending[d][1])
        BY <2>1, <3>1 DEF WholeInv, Progress
      <3>3. Joined(d, pending[d][1]) => Joined(d, pending[d][1])'
        BY <3>1 DEF Joined, FrameAt
      <3>. QED
        BY <3>1, <3>2, <3>3
    <2>. QED
      BY <1>1, <2>1 DEF WholeInv, Progress
  <1>6. Finished'
    BY <1>1, <1>2 DEF WholeInv, Finished, Complete, FrameAt
  <1>. QED
    BY <1>3, <1>4, <1>5, <1>6 DEF WholeInv

\* the two ways to read a position one past a length, less an offset, agree
LEMMA ShiftSum ==
    ASSUME NEW a \in Nat, NEW b \in Nat
    PROVE  a + 1 - b = (a + 1) - b
  OBVIOUS

(* A chunk that is queued goes on where the last one stands.               *)
LEMMA QueuedChunkWhole ==
    ASSUME Base, Base', WholeInv, NEW c \in Conns, Chunk(c), CanEnqueue(c)
    PROVE  WholeInv'
  <1>. PICK h, size : h = Head(pending[c]) /\ size = Len(log[c])
    OBVIOUS
  <1>0. Types /\ Holder
    BY DEF Base
  <1>1. /\ h = pending[c][1] /\ 1 \in DOMAIN pending[c] /\ h \in ChunkType
        /\ \A d \in Conns \ {c} : log'[d] = log[d] /\ pending'[d] = pending[d]
        /\ Len(log'[c]) = size + 1
        /\ DOMAIN log'[c] = 1 .. size + 1
        /\ \A j \in 1 .. size : log'[c][j] = log[c][j]
        /\ log'[c][size + 1] = h
        /\ \A i \in DOMAIN pending'[c] :
             i + 1 \in DOMAIN pending[c] /\ pending'[c][i] = pending[c][i + 1]
    BY ChunkLog
  <1>2. /\ UNCHANGED <<past, asked, done>> /\ stage[c] = "chunk" /\ pending[c] # <<>>
        /\ ~done[c]
        /\ \A d \in Conns \ {c} : stage'[d] = stage[d]
        /\ \/ Len(pending[c]) = 1 /\ stage'[c] = "read" /\ pending'[c] = <<>>
           \/ Len(pending[c]) # 1 /\ stage'[c] = "chunk" /\ pending'[c] = Tail(pending[c])
    <2>1. /\ UNCHANGED <<past, asked, done>> /\ stage[c] = "chunk" /\ pending[c] # <<>>
          /\ \/ /\ Len(pending[c]) = 1 /\ stage' = [stage EXCEPT ![c] = "read"]
                /\ pending' = [pending EXCEPT ![c] = <<>>]
             \/ /\ Len(pending[c]) # 1 /\ stage' = stage
                /\ pending' = [pending EXCEPT ![c] = Tail(@)]
      BY ChunkEffect DEF relayVars, connVars
    <2>2. ~done[c]
      BY DEF CanEnqueue
    <2>3. stage \in [Conns -> Stages] /\ pending \in [Conns -> Seq(ChunkType)]
      BY <1>0 DEF Types
    <2>. QED
      BY <2>1, <2>2, <2>3
  <1>3. size \in Nat /\ DOMAIN log[c] = 1 .. size /\ IsChunk(h)
    BY <1>1, SequenceFacts, MessageFacts
  <1>4. h.n \in Nat /\ h.id \in Nat /\ h.index \in Nat \ {0} /\ h.count \in Nat
    BY <1>1 DEF ChunkType, WholeInv, AllCut, Cut
  <1>5. Cut(h) /\ h.id = asked[c]
    BY <1>1 DEF WholeInv, AllCut
  <1>6. Joined(c, h)
    BY <1>1, <1>2 DEF WholeInv, Progress
  \* the old entries are where they were
  <1>7. \A j \in 1 .. size + 1 : j \in 1 .. size \/ j = size + 1
    BY <1>3
  <1>8. ASSUME NEW d \in Conns, NEW j \in DOMAIN log'[d], ~(d = c /\ j = size + 1)
        PROVE  j \in DOMAIN log[d] /\ log'[d][j] = log[d][j]
    BY <1>1, <1>3, <1>7, <1>8
  <1>9. ASSUME NEW d \in Conns, NEW j \in DOMAIN log[d]
        PROVE  j \in DOMAIN log'[d] /\ log'[d][j] = log[d][j]
    BY <1>1, <1>3, <1>9
  <1>10. \A d \in Conns : \A j, id, k : FrameAt(d, j, id, k) => FrameAt(d, j, id, k)' /\ log'[d][j] = log[d][j]
    BY <1>9 DEF FrameAt, IsChunk
  <1>11. \A m : Cut(m)' <=> Cut(m)
    BY <1>2 DEF Cut
  <1>12. \A i \in DOMAIN log[c] : IsChunk(log[c][i]) => log[c][i].index \in Nat /\ log[c][i].count \in Nat /\ i \in Nat
    BY <1>3, SequenceFacts, ChunkFields
  \* the frames of the same snapshot that are queued already
  <1>13. ASSUME NEW i \in DOMAIN log[c], IsChunk(log[c][i]), log[c][i].id = h.id
         PROVE  i - log[c][i].index = size + 1 - h.index /\ log[c][i].n = h.n
    <2>1. h.index # 1
      BY <1>5, <1>6, <1>13 DEF Joined
    <2>2. FrameAt(c, size, h.id, h.index - 1) /\ log[c][size].n = h.n
      BY <1>5, <1>6, <2>1 DEF Joined
    <2>3. i - log[c][i].index = size - (h.index - 1) /\ log[c][i].n = h.n
      BY <1>13, <2>2 DEF WholeInv, SameRun, FrameAt
    <2>. QED
      BY <1>3, <1>4, <2>3
  <1>14. AllCut'
    <2>1. ASSUME NEW d \in Conns, NEW j \in DOMAIN log'[d], IsChunk(log'[d][j])
          PROVE  Cut(log'[d][j]) /\ log'[d][j].id <= asked[d]
      <3>1. CASE d = c /\ j = size + 1
        BY <1>1, <1>4, <1>5, <3>1
      <3>2. CASE ~(d = c /\ j = size + 1)
        BY <1>8, <2>1, <3>2 DEF WholeInv, AllCut
      <3>. QED
        BY <3>1, <3>2
    <2>2. ASSUME NEW d \in Conns, NEW i \in DOMAIN pending'[d]
          PROVE  Cut(pending'[d][i]) /\ pending'[d][i].id = asked[d]
      <3>1. \E k \in DOMAIN pending[d] : pending'[d][i] = pending[d][k]
        BY <1>1
      <3>. QED
        BY <3>1 DEF WholeInv, AllCut
    <2>. QED
      BY <1>2, <2>1, <2>2 DEF AllCut, Cut, IsChunk
  <1>15. ASSUME NEW k \in 1 .. h.index
         PROVE  /\ FrameAt(c, size + 1 - h.index + k, h.id, k)'
                /\ log'[c][size + 1 - h.index + k].n = h.n
    <2>1. CASE k = h.index
      <3>1. size + 1 - h.index + k = size + 1
        BY <1>3, <1>4, <2>1
      <3>2. size + 1 \in DOMAIN log'[c]
        BY <1>1, <1>3
      <3>3. \A j, id : j = size + 1 /\ id = h.id => FrameAt(c, j, id, k)'
        BY <1>1, <1>3, <2>1, <3>2 DEF FrameAt, IsChunk
      <3>4. \A j, id : j = size + 1 - h.index + k /\ id = h.id => FrameAt(c, j, id, k)'
        BY <3>1, <3>3
      <3>. QED
        BY <1>1, <3>1, <3>4
    <2>2. CASE k # h.index
      <3>1. h.index # 1 /\ k \in 1 .. h.index - 1
        BY <1>4, <2>2
      <3>2. FrameAt(c, size, h.id, h.index - 1) /\ log[c][size].n = h.n
        BY <1>5, <1>6, <3>1 DEF Joined
      <3>3. /\ size \in DOMAIN log[c] /\ IsChunk(log[c][size])
            /\ log[c][size].id = h.id /\ log[c][size].index = h.index - 1
        BY <3>2 DEF FrameAt
      <3>4. /\ FrameAt(c, size - (h.index - 1) + k, h.id, k)
            /\ log[c][size - (h.index - 1) + k].n = h.n
        BY <3>1, <3>2, <3>3 DEF WholeInv, Runs
      <3>5. size - (h.index - 1) + k = size + 1 - h.index + k
        BY <1>3, <1>4
      <3>6. \A j, id : j = size + 1 - h.index + k /\ id = h.id =>
              FrameAt(c, j, id, k)' /\ log'[c][j].n = h.n
        BY <1>10, <3>4, <3>5
      <3>. QED
        BY <3>6
    <2>. QED
      BY <2>1, <2>2
  <1>shift. size + 1 - h.index = (size + 1) - h.index
    <2>1. size \in Nat /\ h.index \in Nat
      BY <1>3, <1>4
    <2>. QED
      BY <2>1, ShiftSum, Zenon
  <1>16. Runs'
    <2>1. SUFFICES ASSUME NEW d \in Conns, NEW i \in DOMAIN log'[d], IsChunk(log'[d][i]),
                          NEW k \in 1 .. log'[d][i].index
                   PROVE  \E m, j : /\ m = log'[d][i] /\ j = i - m.index + k
                                    /\ FrameAt(d, j, m.id, k)' /\ log'[d][j].n = m.n
      BY DEF Runs, IsChunk
    <2>2. CASE d = c /\ i = size + 1
      <3>1. log'[d][i] = h
        BY <1>1, <2>2
      <3>. PICK j : j = size + 1 - h.index + k
        OBVIOUS
      <3>2. FrameAt(c, j, h.id, k)' /\ log'[c][j].n = h.n
        BY <1>15, <2>1, <3>1
      <3>3. j = i - h.index + k
        BY <1>shift, <2>2
      <3>4. FrameAt(d, j, h.id, k)' /\ log'[d][j].n = h.n
        BY <2>2, <3>2
      <3>. QED
        BY <3>1, <3>3, <3>4
    <2>3. CASE ~(d = c /\ i = size + 1)
      <3>1. i \in DOMAIN log[d] /\ log'[d][i] = log[d][i] /\ IsChunk(log[d][i])
        BY <1>8, <2>1, <2>3
      <3>. PICK m, j : m = log[d][i] /\ j = i - m.index + k
        OBVIOUS
      <3>2. FrameAt(d, j, m.id, k) /\ log[d][j].n = m.n
        BY <2>1, <3>1 DEF WholeInv, Runs
      <3>3. FrameAt(d, j, m.id, k)' /\ log'[d][j] = log[d][j]
        BY <1>10, <3>2
      <3>. QED
        BY <3>1, <3>2, <3>3
    <2>. QED
      BY <2>2, <2>3
  <1>17. SameRun'
    <2>1. SUFFICES ASSUME NEW d \in Conns, NEW i \in DOMAIN log'[d], NEW j \in DOMAIN log'[d],
                          IsChunk(log'[d][i]), IsChunk(log'[d][j]), log'[d][i].id = log'[d][j].id
                   PROVE  i - log'[d][i].index = j - log'[d][j].index /\ log'[d][i].n = log'[d][j].n
      BY DEF SameRun, IsChunk
    <2>2. CASE d = c /\ i = size + 1 /\ j = size + 1
      BY <2>2
    <2>3. CASE d = c /\ i = size + 1 /\ j # size + 1
      <3>1. j \in DOMAIN log[c] /\ log'[c][j] = log[c][j] /\ log'[c][i] = h
        BY <1>1, <1>8, <2>3
      <3>2. IsChunk(log[c][j]) /\ log[c][j].id = h.id /\ log'[d][i] = h /\ log'[d][j] = log[c][j]
        BY <2>1, <2>3, <3>1
      <3>3. j - log[c][j].index = size + 1 - h.index /\ log[c][j].n = h.n
        BY <1>13, <3>1, <3>2
      <3>4. i - h.index = j - log[c][j].index
        BY <1>shift, <2>3, <3>3, Zenon
      <3>. QED
        BY <3>2, <3>3, <3>4, Zenon
    <2>4. CASE d = c /\ i # size + 1 /\ j = size + 1
      <3>1. i \in DOMAIN log[c] /\ log'[c][i] = log[c][i] /\ log'[c][j] = h
        BY <1>1, <1>8, <2>4
      <3>2. IsChunk(log[c][i]) /\ log[c][i].id = h.id /\ log'[d][j] = h /\ log'[d][i] = log[c][i]
        BY <2>1, <2>4, <3>1
      <3>3. i - log[c][i].index = size + 1 - h.index /\ log[c][i].n = h.n
        BY <1>13, <3>1, <3>2
      <3>4. i - log[c][i].index = j - h.index
        BY <1>shift, <2>4, <3>3, Zenon
      <3>. QED
        BY <3>2, <3>3, <3>4, Zenon
    <2>5. CASE ~(d = c /\ i = size + 1) /\ ~(d = c /\ j = size + 1)
      <3>1. /\ i \in DOMAIN log[d] /\ log'[d][i] = log[d][i]
            /\ j \in DOMAIN log[d] /\ log'[d][j] = log[d][j]
        BY <1>8, <2>5
      <3>. QED
        BY <2>1, <3>1 DEF WholeInv, SameRun
    <2>. QED
      BY <2>2, <2>3, <2>4, <2>5
  <1>18. /\ \A k \in DOMAIN pending[c] : pending[c][k].n = h.n /\ pending[c][k].index = h.index + k - 1
         /\ h.index + Len(pending[c]) - 1 = h.count
    BY <1>1, <1>2 DEF WholeInv, Progress
  <1>19. Progress'
    <2>1. ASSUME NEW d \in Conns, d # c
          PROVE  /\ pending'[d] = pending[d]
                 /\ Joined(d, pending[d][1]) => Joined(d, pending[d][1])'
      <3>1. pending'[d] = pending[d] /\ log'[d] = log[d] /\ asked'[d] = asked[d]
        BY <1>1, <1>2, <2>1
      <3>. QED
        BY <3>1 DEF Joined, FrameAt
    <2>2. ASSUME pending'[c] # <<>>
          PROVE  /\ \A k \in DOMAIN pending'[c] :
                      /\ pending'[c][k].n = pending'[c][1].n
                      /\ pending'[c][k].index = pending'[c][1].index + k - 1
                 /\ pending'[c][1].index + Len(pending'[c]) - 1 = pending'[c][1].count
                 /\ Joined(c, pending[c][1])'
      <3>1. /\ pending'[c] = Tail(pending[c]) /\ pending[c] \in Seq(ChunkType) /\ pending[c] # <<>>
            /\ Len(pending[c]) # 1
        BY <1>2, <2>2, SequenceFacts
      <3>2. /\ Len(pending[c]) \in Nat \ {0} /\ Len(pending'[c]) = Len(pending[c]) - 1
            /\ pending'[c] \in Seq(ChunkType)
        BY <3>1, TailFacts
      <3>3. DOMAIN pending'[c] = 1 .. Len(pending[c]) - 1 /\ 1 \in DOMAIN pending'[c]
        <4>1. \A s \in Seq(ChunkType) : DOMAIN s = 1 .. Len(s)
          OBVIOUS
        <4>2. DOMAIN pending'[c] = 1 .. Len(pending[c]) - 1
          BY <3>2, <4>1
        <4>3. \A k \in Nat \ {0} : k # 1 => 1 \in 1 .. k - 1
          OBVIOUS
        <4>. QED
          BY <3>1, <3>2, <4>2, <4>3
      <3>4. \A k \in DOMAIN pending'[c] : k \in Nat /\ pending'[c][k].n = h.n /\ pending'[c][k].index = h.index + k
        <4>1. ASSUME NEW k \in DOMAIN pending'[c]
              PROVE  k \in Nat /\ pending'[c][k].n = h.n /\ pending'[c][k].index = h.index + (k + 1) - 1
          <5>1. k + 1 \in DOMAIN pending[c] /\ pending'[c][k] = pending[c][k + 1] /\ k \in Nat
            BY <1>1, <3>2, <3>3
          <5>. QED
            BY <1>18, <5>1
        <4>. QED
          BY <1>4, <4>1
      <3>. PICK g : g = pending'[c][1]
        OBVIOUS
      <3>5. g.index = h.index + 1 /\ g.n = h.n
        BY <3>3, <3>4
      <3>6. g.count = h.count
        <4>1. g = pending[c][2] /\ 2 \in DOMAIN pending[c]
          <5>1. 1 + 1 \in DOMAIN pending[c] /\ pending'[c][1] = pending[c][1 + 1]
            BY <1>1, <3>3
          <5>. QED
            BY <5>1
        <4>2. Cut(g)
          BY <4>1 DEF WholeInv, AllCut
        <4>. QED
          BY <1>5, <3>5, <4>2 DEF Cut
      <3>7. \A k \in DOMAIN pending'[c] : pending'[c][k].n = g.n /\ pending'[c][k].index = g.index + k - 1
        <4>1. ASSUME NEW k \in DOMAIN pending'[c]
              PROVE  pending'[c][k].n = g.n /\ pending'[c][k].index = g.index + k - 1
          <5>1. k \in Nat /\ pending'[c][k].n = h.n /\ pending'[c][k].index = h.index + k
            BY <3>4
          <5>2. h.index + k = (h.index + 1) + k - 1
            <6>1. \A a, b \in Nat : a + b = (a + 1) + b - 1
              OBVIOUS
            <6>. QED
              BY <1>4, <5>1, <6>1
          <5>. QED
            BY <3>5, <5>1, <5>2
        <4>. QED
          BY <4>1
      <3>8. g.index + Len(pending'[c]) - 1 = g.count
        BY <1>4, <1>18, <3>2, <3>5, <3>6
      <3>9. Joined(c, g)'
        <4>1. g.index # 1 /\ g.index - 1 = h.index
          BY <1>4, <3>5
        <4>2. Len(log'[c]) = size + 1 /\ size + 1 \in DOMAIN log'[c] /\ log'[c][size + 1] = h
          BY <1>1, <1>3
        <4>3. asked'[c] = h.id
          BY <1>2, <1>5
        <4>. QED
          BY <1>3, <3>5, <4>1, <4>2, <4>3 DEF Joined, FrameAt, IsChunk
      <3>10. Joined(c, pending[c][1])'
        BY <3>9
      <3>. QED
        BY <3>7, <3>8, <3>10
    <2>3. ASSUME NEW d \in Conns, pending'[d] # <<>>
          PROVE  /\ \A k \in DOMAIN pending'[d] :
                      /\ pending'[d][k].n = pending'[d][1].n
                      /\ pending'[d][k].index = pending'[d][1].index + k - 1
                 /\ pending'[d][1].index + Len(pending'[d]) - 1 = pending'[d][1].count
                 /\ ~done'[d] => Joined(d, pending[d][1])'
      <3>1. CASE d = c
        BY <2>2, <2>3, <3>1
      <3>2. CASE d # c
        <4>1. pending'[d] = pending[d] /\ done'[d] = done[d] /\ pending[d] # <<>>
          BY <1>2, <2>1, <2>3, <3>2
        <4>2. /\ \A k \in DOMAIN pending[d] :
                      /\ pending[d][k].n = pending[d][1].n
                      /\ pending[d][k].index = pending[d][1].index + k - 1
              /\ pending[d][1].index + Len(pending[d]) - 1 = pending[d][1].count
              /\ ~done[d] => Joined(d, pending[d][1])
          BY <4>1 DEF WholeInv, Progress
        <4>3. ~done'[d] => Joined(d, pending[d][1])'
          BY <2>1, <3>2, <4>1, <4>2
        <4>. QED
          BY <4>1, <4>2, <4>3
      <3>. QED
        BY <3>1, <3>2
    <2>. QED
      BY <2>3 DEF Progress
  <1>20. Finished'
    <2>1. SUFFICES ASSUME NEW d \in Conns, stage'[d] \notin {"leave", "gone"},
                          NEW i \in DOMAIN log'[d], IsChunk(log'[d][i]),
                          ~(stage'[d] = "chunk" /\ log'[d][i].id = asked[d])
                   PROVE  \E m, j : /\ m = log'[d][i] /\ j = i - m.index + m.count
                                    /\ FrameAt(d, j, m.id, m.count)'
      BY <1>2 DEF Finished, Complete, IsChunk
    \* an entry that was complete stays so
    <2>2. ASSUME i \in DOMAIN log[d], log'[d][i] = log[d][i], Complete(d, i)
          PROVE  \E m, j : /\ m = log'[d][i] /\ j = i - m.index + m.count
                           /\ FrameAt(d, j, m.id, m.count)'
      <3>. PICK m, j : m = log[d][i] /\ j = i - m.index + m.count
        OBVIOUS
      <3>1. FrameAt(d, j, m.id, m.count)
        BY <2>2 DEF Complete
      <3>. QED
        BY <1>10, <2>2, <3>1
    <2>3. CASE d # c
      <3>1. /\ i \in DOMAIN log[d] /\ log'[d][i] = log[d][i] /\ IsChunk(log[d][i])
            /\ stage'[d] = stage[d]
        BY <1>2, <1>8, <2>1, <2>3
      <3>2. Complete(d, i)
        BY <2>1, <3>1 DEF WholeInv, Finished
      <3>. QED
        BY <2>2, <3>1, <3>2
    <2>4. CASE d = c /\ log'[d][i].id # asked[c]
      <3>1. i # size + 1
        BY <1>1, <1>5, <2>4
      <3>2. i \in DOMAIN log[d] /\ log'[d][i] = log[d][i] /\ IsChunk(log[d][i])
        BY <1>8, <2>1, <3>1
      <3>3. Complete(d, i)
        BY <1>2, <2>4, <3>2 DEF WholeInv, Finished
      <3>. QED
        BY <2>2, <3>2, <3>3
    <2>5. CASE d = c /\ log'[d][i].id = asked[c]
      <3>1. Len(pending[c]) = 1
        BY <1>2, <2>1, <2>5
      <3>2. h.index = h.count
        BY <1>4, <1>18, <3>1
      <3>. PICK m : m = log'[d][i]
        OBVIOUS
      <3>3. i - m.index = size + 1 - h.index /\ m.count = h.count /\ m.id = h.id /\ i \in Nat /\ m.index \in Nat
        <4>1. CASE i = size + 1
          <5>1. m = h
            BY <1>1, <2>5, <4>1
          <5>. QED
            BY <1>3, <1>4, <1>shift, <4>1, <5>1
        <4>2. CASE i # size + 1
          <5>1. i \in DOMAIN log[c] /\ m = log[c][i] /\ IsChunk(m) /\ m.id = h.id
            BY <1>5, <1>8, <2>1, <2>5, <4>2
          <5>2. i - m.index = size + 1 - h.index /\ m.n = h.n
            BY <1>13, <5>1
          <5>3. Cut(m)
            BY <5>1 DEF WholeInv, AllCut
          <5>4. m.count = h.count
            BY <1>5, <5>2, <5>3 DEF Cut
          <5>. QED
            BY <1>12, <5>1, <5>2, <5>4
        <4>. QED
          BY <4>1, <4>2
      <3>4. i - m.index + m.count = size + 1
        <4>1. size + 1 - h.index + h.index = size + 1
          BY <1>3, <1>4
        <4>. QED
          BY <3>2, <3>3, <4>1
      <3>5. FrameAt(c, size + 1, m.id, m.count)'
        BY <1>1, <1>3, <3>2, <3>3 DEF FrameAt, IsChunk
      <3>. QED
        BY <2>5, <3>4, <3>5
    <2>. QED
      BY <2>3, <2>4, <2>5
  <1>. QED
    BY <1>14, <1>16, <1>17, <1>19, <1>20 DEF WholeInv

(* The runs are whole at the start and after every step.                   *)
LEMMA WholeInit == Init => WholeInv
  BY DEF Init, WholeInv, AllCut, Runs, SameRun, Progress, Finished

LEMMA WholeStep == Base /\ WholeInv /\ [Next]_vars => WholeInv'
  <1>. SUFFICES ASSUME Base, WholeInv, [Next]_vars PROVE WholeInv'
    OBVIOUS
  <1>1. Base'
    BY BaseStep
  <1>2. CASE UNCHANGED vars
    BY <1>2 DEF vars, relayVars, queueVars, readerVars, connVars, WholeInv, AllCut, Cut, Runs,
         SameRun, Progress, Joined, Finished, Complete, FrameAt
  <1>. QED
    BY <1>1, <1>2, RelayWhole, PublishWhole, QuietWhole, SnapshotWholeStep, RefusedChunkWhole,
       QueuedChunkWhole, StepKinds

(* Runs of frames are snapshots: the inductive invariant gives the         *)
(* property.                                                               *)
LEMMA RunsAreSnapshots ==
    ASSUME Base, WholeInv
    PROVE  SnapshotWhole
  <1>. SUFFICES ASSUME NEW c \in Conns, NEW i \in DOMAIN log[c], IsChunk(log[c][i])
                PROVE  LET m     == log[c][i]
                           start == i - m.index
                       IN /\ \A k \in 1 .. m.index : FrameAt(c, start + k, m.id, k)
                          /\ \A j \in DOMAIN log[c] : \A k \in 1 .. m.count :
                               FrameAt(c, j, m.id, k) => j = start + k
                          /\ m.index = m.count =>
                               Represents([k \in 1 .. m.count |-> log[c][start + k].channels], past[m.n + 1])
                          /\ At(c, "read") => FrameAt(c, start + m.count, m.id, m.count)
    BY DEF SnapshotWhole
  <1>. DEFINE m == log[c][i]
              start == i - m.index
  <1>1. m \in ChunkType /\ i \in Nat /\ m.index \in Nat /\ m.count \in Nat /\ m.n \in Nat
    BY SequenceFacts, ChunkFields
  <1>2. \A k \in 1 .. m.index : FrameAt(c, start + k, m.id, k) /\ log[c][start + k].n = m.n
    BY DEF WholeInv, Runs
  <1>3. ASSUME NEW j \in DOMAIN log[c], NEW k \in 1 .. m.count, FrameAt(c, j, m.id, k)
        PROVE  j = start + k
    <2>1. i - m.index = j - k
      BY <1>3 DEF WholeInv, SameRun, FrameAt
    <2>2. j \in Nat /\ k \in Nat
      BY <1>1, SequenceFacts
    <2>. QED
      BY <1>1, <2>1, <2>2
  <1>4. ASSUME m.index = m.count
        PROVE  Represents([k \in 1 .. m.count |-> log[c][start + k].channels], past[m.n + 1])
    <2>1. Cut(m)
      BY DEF WholeInv, AllCut
    <2>. DEFINE t == past[m.n + 1]
    <2>2. t \in Tables /\ m.count = Len(Chunks(t))
      BY <2>1, SequenceFacts DEF Cut
    <2>3. CutWhole(t)
      BY <2>2, EveryCutWhole
    <2>4. ASSUME NEW k \in 1 .. m.count PROVE log[c][start + k].channels = Chunks(t)[k]
      <3>1. /\ start + k \in DOMAIN log[c] /\ IsChunk(log[c][start + k])
            /\ log[c][start + k].index = k /\ log[c][start + k].n = m.n
        BY <1>2, <1>4, <2>4 DEF FrameAt
      <3>2. Cut(log[c][start + k])
        BY <3>1 DEF WholeInv, AllCut
      <3>. QED
        BY <3>1, <3>2 DEF Cut
    <2>5. Chunks(t) = [k \in 1 .. m.count |-> Chunks(t)[k]] /\ Represents(Chunks(t), t)
      BY <2>2, <2>3 DEF CutWhole
    <2>6. [k \in 1 .. m.count |-> log[c][start + k].channels] = [k \in 1 .. m.count |-> Chunks(t)[k]]
      BY <2>4
    <2>. QED
      BY <2>5, <2>6
  <1>5. At(c, "read") => FrameAt(c, start + m.count, m.id, m.count)
    BY DEF WholeInv, Finished, Complete, At
  <1>. QED
    BY <1>2, <1>3, <1>4, <1>5

(* A snapshot in the stream of a session is the table of one moment,       *)
(* whole and uninterrupted, and a boundary: no event before it is of a     *)
(* later change (handleRelayStateSnapshot).                                *)
THEOREM SnapshotsAlwaysSound == Spec => []SnapshotSound
  <1>1. Base /\ StreamInv /\ WholeInv => SnapshotSound
    BY RunsAreSnapshots DEF SnapshotSound, StreamInv
  <1>2. /\ Base /\ Register /\ StreamInv /\ WholeInv /\ [Next]_vars
        => (Base /\ Register /\ StreamInv /\ WholeInv)'
    BY BaseStep, RegisterStep, StreamStep, WholeStep
  <1>. QED
    BY <1>1, <1>2, BaseInit, RegisterInit, StreamInit, WholeInit, PTL DEF Spec

-----------------------------------------------------------------------------
(* The diagnostic counters.                                                *)

DiagState == [epoch: Nat, counters: [Counters -> 0 .. CounterMax]]

DiagType ==
    /\ outcomes \in Seq(Outcomes)
    /\ seen \in Seq(DiagState)
    /\ Len(seen) = Len(outcomes) + 1

DiagInv == DiagType /\ CountersConsistent

(* What one outcome makes of the counters: one more of each that it names, *)
(* or, in a new epoch, one of each that it names.                          *)
LEMMA ObserveFacts ==
    ASSUME NEW d \in DiagState,
           NEW delta \in Outcomes, NEW e, e = Observe(d, delta)
    PROVE  /\ e \in DiagState
           /\ \/ /\ e.epoch = d.epoch
                 /\ \A k \in Counters :
                      e.counters[k] = IF k \in delta THEN d.counters[k] + 1 ELSE d.counters[k]
              \/ /\ e.epoch = d.epoch + 1
                 /\ \A k \in Counters : e.counters[k] = IF k \in delta THEN 1 ELSE 0
<1>1. CASE CanAdd(d, delta)
  <2>1. e = [epoch |-> d.epoch,
             counters |-> [k \in Counters |-> IF k \in delta THEN d.counters[k] + 1
                                              ELSE d.counters[k]]]
    BY <1>1 DEF Observe, Added, DiagState
  <2>2. ASSUME NEW k \in Counters
        PROVE  (IF k \in delta THEN d.counters[k] + 1 ELSE d.counters[k]) \in 0 .. CounterMax
    BY <1>1, RelayDiagnosticsAssumption DEF CanAdd, DiagState
  <2> QED
    BY <2>1, <2>2 DEF DiagState
<1>2. CASE ~CanAdd(d, delta)
  <2>1. e = [epoch |-> d.epoch + 1,
             counters |-> [k \in Counters |-> IF k \in delta THEN 1 ELSE 0]]
    BY <1>2 DEF Observe, Added, Fresh, DiagState
  <2>2. 0 \in 0 .. CounterMax /\ 1 \in 0 .. CounterMax
    BY RelayDiagnosticsAssumption
  <2> QED
    BY <2>1, <2>2 DEF DiagState
<1> QED
  BY <1>1, <1>2

(* The counters still add up: an outcome names the request and one of a    *)
(* grant, a denial and an unauthorized request.                            *)
LEMMA ObserveAddsUp ==
    ASSUME NEW d \in DiagState,
           AddUp(d.counters),
           NEW delta \in Outcomes, NEW e, e = Observe(d, delta)
    PROVE  AddUp(e.counters)
<1>1. /\ e \in DiagState
      /\ \/ \A k \in Counters :
              e.counters[k] = IF k \in delta THEN d.counters[k] + 1 ELSE d.counters[k]
         \/ \A k \in Counters : e.counters[k] = IF k \in delta THEN 1 ELSE 0
  BY ObserveFacts
<1>2. /\ "requests" \in delta
      /\ \/ "grants" \in delta /\ "denials" \notin delta /\ "unauthorized" \notin delta
         \/ "grants" \notin delta /\ "denials" \in delta /\ "unauthorized" \notin delta
              /\ "preemptions" \notin delta
         \/ "grants" \notin delta /\ "denials" \notin delta /\ "unauthorized" \in delta
              /\ "preemptions" \notin delta
  BY DEF Outcomes
<1>3. {"requests", "grants", "denials", "preemptions", "unauthorized"} \subseteq Counters
  BY DEF Counters
<1>4. \A k \in Counters : d.counters[k] \in Int /\ e.counters[k] \in 0 .. CounterMax
  BY <1>1, RelayDiagnosticsAssumption DEF DiagState
<1>5. CASE \A k \in Counters :
             e.counters[k] = IF k \in delta THEN d.counters[k] + 1 ELSE d.counters[k]
  BY <1>2, <1>3, <1>4, <1>5 DEF AddUp
<1>6. CASE \A k \in Counters : e.counters[k] = IF k \in delta THEN 1 ELSE 0
  BY <1>2, <1>3, <1>4, <1>6 DEF AddUp
<1> QED
  BY <1>1, <1>5, <1>6

(* One more outcome leaves the earlier ones where they are, and adds       *)
(* itself.                                                                 *)
LEMMA CountedGrows ==
    ASSUME DiagType, NEW delta \in Outcomes, Count(delta), NEW k \in Counters,
           NEW start \in Nat, NEW n \in Nat, n = Len(seen)
    PROVE  /\ \A i \in 1 .. n : Counted(k, start, i)' = Counted(k, start, i)
           /\ start < n =>
                Counted(k, start, n + 1)' =
                  Counted(k, start, n) \cup (IF k \in delta THEN {n} ELSE {})
<1>1. /\ outcomes' = Append(outcomes, delta) /\ n = Len(outcomes) + 1
      /\ outcomes \in Seq(Outcomes) /\ Len(outcomes) \in Nat
  BY DEF Count, DiagType
<1>2. /\ \A j \in 1 .. n - 1 : outcomes'[j] = outcomes[j]
      /\ outcomes'[n] = delta
  BY <1>1
<1>3. ASSUME NEW i \in 1 .. n PROVE Counted(k, start, i)' = Counted(k, start, i)
  BY <1>2 DEF Counted
<1>4. ASSUME start < n
      PROVE  Counted(k, start, n + 1)' =
               Counted(k, start, n) \cup (IF k \in delta THEN {n} ELSE {})
  <2>1. Counted(k, start, n + 1)' = {j \in start + 1 .. n : k \in outcomes'[j]}
    BY DEF Counted
  <2>2. Counted(k, start, n) = {j \in start + 1 .. n - 1 : k \in outcomes'[j]}
    BY <1>2 DEF Counted
  <2>3. \A j : j \in start + 1 .. n <=> j \in start + 1 .. n - 1 \/ j = n
    BY <1>4
  <2> QED
    BY <1>2, <2>1, <2>2, <2>3
<1> QED
  BY <1>3, <1>4

LEMMA CountedFinite ==
    ASSUME NEW k, NEW start \in Int, NEW i \in Int
    PROVE  IsFiniteSet(Counted(k, start, i)) /\ i \notin Counted(k, start, i)
<1>1. IsFiniteSet(start + 1 .. i - 1)
  BY FS_Interval
<1>2. Counted(k, start, i) \subseteq start + 1 .. i - 1
  BY DEF Counted
<1> QED
  BY <1>1, <1>2, FS_Subset

(* After an outcome the present counters are again those of the outcomes   *)
(* since some point: the same as before, or since this outcome.            *)
LEMMA CountOneEpoch ==
    ASSUME DiagInv, NEW delta \in Outcomes, Count(delta), NEW n \in Nat, n = Len(seen),
           DiagType'
    PROVE  OneEpoch(n + 1)'
<1>1. /\ n >= 1 /\ n \in DOMAIN seen
      /\ seen[n] \in DiagState
  BY DEF DiagInv, DiagType
<1>2. seen'[n + 1] = Observe(seen[n], delta)
  BY <1>1 DEF Count, diagnostics, DiagInv, DiagType
<1>3. CASE \A k \in Counters :
             seen'[n + 1].counters[k] = IF k \in delta THEN seen[n].counters[k] + 1
                                        ELSE seen[n].counters[k]
  <2>1. PICK start \in 0 .. n - 1 :
          \A k \in Counters : seen[n].counters[k] = Cardinality(Counted(k, start, n))
    BY <1>1 DEF DiagInv, CountersConsistent, OneEpoch
  <2>2. ASSUME NEW k \in Counters
        PROVE  seen'[n + 1].counters[k] = Cardinality(Counted(k, start, n + 1)')
    <3>1. Counted(k, start, n + 1)' =
            Counted(k, start, n) \cup (IF k \in delta THEN {n} ELSE {})
      BY <2>1, CountedGrows DEF DiagInv
    <3>2. IsFiniteSet(Counted(k, start, n)) /\ n \notin Counted(k, start, n)
      BY <2>1, CountedFinite
    <3>3. CASE k \in delta
      <4>1. Cardinality(Counted(k, start, n) \cup {n}) = Cardinality(Counted(k, start, n)) + 1
        BY <3>2, FS_AddElement
      <4> QED
        BY <1>3, <2>1, <3>1, <3>3, <4>1
    <3>4. CASE k \notin delta
      BY <1>3, <2>1, <3>1, <3>4
    <3> QED
      BY <3>3, <3>4
  <2>3. start \in 0 .. (n + 1) - 1
    BY <2>1
  <2> QED
    BY <2>2, <2>3 DEF OneEpoch
<1>4. CASE \A k \in Counters : seen'[n + 1].counters[k] = IF k \in delta THEN 1 ELSE 0
  <2>1. n - 1 \in Nat /\ n - 1 < n
    BY <1>1
  <2>2. ASSUME NEW k \in Counters
        PROVE  seen'[n + 1].counters[k] = Cardinality(Counted(k, n - 1, n + 1)')
    <3>1. Counted(k, n - 1, n + 1)' =
            Counted(k, n - 1, n) \cup (IF k \in delta THEN {n} ELSE {})
      BY <2>1, CountedGrows DEF DiagInv
    <3>2. Counted(k, n - 1, n) = {}
      BY <1>1 DEF Counted
    <3>3. CASE k \in delta
      <4>1. Counted(k, n - 1, n + 1)' = {n}
        BY <3>1, <3>2, <3>3
      <4>2. Cardinality({n}) = 1
        BY FS_Singleton
      <4> QED
        BY <1>4, <3>3, <4>1, <4>2
    <3>4. CASE k \notin delta
      BY <1>4, <3>1, <3>2, <3>4, FS_EmptySet
    <3> QED
      BY <3>3, <3>4
  <2>3. n - 1 \in 0 .. (n + 1) - 1
    BY <2>1
  <2> QED
    BY <2>2, <2>3 DEF OneEpoch
<1>5. \/ \A k \in Counters :
           seen'[n + 1].counters[k] = IF k \in delta THEN seen[n].counters[k] + 1
                                      ELSE seen[n].counters[k]
      \/ \A k \in Counters : seen'[n + 1].counters[k] = IF k \in delta THEN 1 ELSE 0
  BY <1>1, <1>2, ObserveFacts
<1> QED
  BY <1>3, <1>4, <1>5

LEMMA DiagTypeStep ==
    ASSUME DiagType, NEW delta \in Outcomes, Count(delta), NEW n \in Nat, n = Len(seen)
    PROVE  /\ DiagType'
           /\ DOMAIN seen' = 1 .. n + 1 /\ Len(seen') = n + 1
           /\ seen'[n + 1] = Observe(seen[n], delta)
           /\ \A i \in 1 .. n : seen'[i] = seen[i]
<1>1. /\ n \in 1 .. Len(seen) /\ n >= 1
      /\ seen[n] \in DiagState
  BY DEF DiagType
<1>2. Observe(seen[n], delta) \in DiagState
  BY <1>1, ObserveFacts
<1>3. seen' = Append(seen, Observe(seen[n], delta)) /\ outcomes' = Append(outcomes, delta)
  BY DEF Count, diagnostics
<1> QED
  BY <1>1, <1>2, <1>3 DEF DiagType

LEMMA CountKeepsInv ==
    ASSUME DiagInv, NEW delta \in Outcomes, Count(delta)
    PROVE  DiagInv'
<1> DEFINE n == Len(seen)
<1>1. n \in Nat /\ n >= 1 /\ DOMAIN seen = 1 .. n /\ DiagType
  BY DEF DiagInv, DiagType
<1>2. PICK m \in Nat : m = n
  BY <1>1
<1>3. /\ DiagType'
      /\ DOMAIN seen' = 1 .. m + 1 /\ Len(seen') = m + 1
      /\ seen'[m + 1] = Observe(seen[m], delta)
      /\ \A i \in 1 .. m : seen'[i] = seen[i]
  BY <1>1, <1>2, DiagTypeStep
<1>4. /\ seen[m] \in DiagState
      /\ DOMAIN seen = 1 .. m /\ Len(seen) = m /\ m >= 1
  BY <1>1, <1>2 DEF DiagType
<1>5. \A i \in 1 .. m : seen[i] \in DiagState
  BY <1>1, <1>2 DEF DiagType
<1> HIDE DEF n
<1>6. ASSUME NEW i \in 1 .. m + 1
      PROVE  AddUp(seen'[i].counters)
  <2>1. CASE i = m + 1
    BY <1>3, <1>4, <2>1, ObserveAddsUp DEF DiagInv, CountersConsistent
  <2>2. CASE i \in 1 .. m
    BY <1>3, <1>4, <2>2 DEF DiagInv, CountersConsistent
  <2> QED
    BY <2>1, <2>2
<1>7. ASSUME NEW i \in 1 .. m + 1
      PROVE  OneEpoch(i)'
  <2>1. CASE i = m + 1
    BY <1>3, <1>4, <2>1, CountOneEpoch
  <2>2. CASE i \in 1 .. m
    <3>1. PICK start \in 0 .. i - 1 :
            \A k \in Counters : seen[i].counters[k] = Cardinality(Counted(k, start, i))
      BY <1>4, <2>2 DEF DiagInv, CountersConsistent, OneEpoch
    <3>2. \A k \in Counters : Counted(k, start, i)' = Counted(k, start, i)
      BY <1>1, <1>4, <2>2, <3>1, CountedGrows
    <3> QED
      BY <1>3, <2>2, <3>1, <3>2 DEF OneEpoch
  <2> QED
    BY <2>1, <2>2
<1>8. ASSUME NEW i \in 1 .. m + 1, NEW j \in i .. m + 1
      PROVE  NoStepBack(i, j)'
  <2>1. CASE j \in 1 .. m
    <3>1. i \in 1 .. m /\ j \in i .. m
      BY <2>1
    <3>2. NoStepBack(i, j)
      BY <1>4, <3>1 DEF DiagInv, CountersConsistent
    <3> QED
      BY <1>3, <3>1, <3>2, <2>1 DEF NoStepBack
  <2>2. CASE j = m + 1 /\ i = m + 1
    <3>1. seen'[m + 1] \in DiagState
      BY <1>3, <1>4, ObserveFacts
    <3>2. \A k \in Counters : seen'[m + 1].counters[k] \in Int
      BY <3>1, RelayDiagnosticsAssumption DEF DiagState
    <3> QED
      BY <2>2, <3>1, <3>2 DEF NoStepBack, DiagState
  <2>3. CASE j = m + 1 /\ i \in 1 .. m
    <3>1. NoStepBack(i, m)
      <4>1. i \in DOMAIN seen /\ m \in i .. Len(seen)
        BY <1>4, <2>3
      <4> QED
        BY <4>1 DEF DiagInv, CountersConsistent
    <3>2. \/ /\ seen'[m + 1].epoch = seen[m].epoch
             /\ \A k \in Counters :
                  seen'[m + 1].counters[k] = IF k \in delta THEN seen[m].counters[k] + 1
                                             ELSE seen[m].counters[k]
          \/ seen'[m + 1].epoch = seen[m].epoch + 1
      BY <1>3, <1>4, ObserveFacts
    <3>3. /\ seen[m].epoch \in Nat /\ seen[i].epoch \in Nat
          /\ \A k \in Counters : seen[m].counters[k] \in Int /\ seen[i].counters[k] \in Int
      BY <1>4, <1>5, <2>3, RelayDiagnosticsAssumption DEF DiagState
    <3>4. seen'[i] = seen[i]
      BY <1>3, <2>3
    <3> QED
      BY <2>3, <3>1, <3>2, <3>3, <3>4 DEF NoStepBack
  <2> QED
    BY <2>1, <2>2, <2>3
<1> QED
  BY <1>3, <1>6, <1>7, <1>8 DEF DiagInv, CountersConsistent

(* Whatever outcomes are counted, in whatever order, and whatever the      *)
(* maximum is (2^53 - 1 in the code): the counters of a diagnostics reply  *)
(* are those of the outcomes since one point in time, add up, never pass   *)
(* the maximum and go back only with a new epoch (observeFloorInterrupt,   *)
(* canAdd, snapshot).                                                      *)
THEOREM CountersAlwaysConsistent == DiagSpec => []CountersConsistent
<1>1. DiagInit => DiagInv
  <2> SUFFICES ASSUME DiagInit PROVE DiagInv
    OBVIOUS
  <2>1. /\ seen = <<Fresh>> /\ outcomes = <<>> /\ DOMAIN seen = {1} /\ Len(seen) = 1
        /\ seen[1] = Fresh
    BY DEF DiagInit
  <2>2. /\ Fresh \in DiagState
        /\ Fresh.epoch = 1 /\ \A k \in Counters : Fresh.counters[k] = 0
    BY RelayDiagnosticsAssumption DEF Fresh, DiagState
  <2>3. DiagType
    BY <2>1, <2>2 DEF DiagType
  <2>4. AddUp(Fresh.counters)
    <3>1. {"requests", "grants", "denials", "preemptions", "unauthorized"} \subseteq Counters
      BY DEF Counters
    <3> QED
      BY <2>2, <3>1, RelayDiagnosticsAssumption DEF AddUp
  <2>5. OneEpoch(1)
    <3>1. \A k \in Counters : Counted(k, 0, 1) = {}
      BY DEF Counted
    <3>2. \A k \in Counters : seen[1].counters[k] = Cardinality(Counted(k, 0, 1))
      BY <2>1, <2>2, <3>1, FS_EmptySet
    <3> QED
      BY <3>2 DEF OneEpoch
  <2>6. NoStepBack(1, 1)
    BY <2>1, <2>2 DEF NoStepBack
  <2>7. \A j \in 1 .. Len(seen) : j = 1
    BY <2>1
  <2> QED
    BY <2>1, <2>3, <2>4, <2>5, <2>6, <2>7 DEF DiagInv, CountersConsistent
<1>2. DiagInv /\ [DiagNext]_diagVars => DiagInv'
  <2> SUFFICES ASSUME DiagInv, [DiagNext]_diagVars PROVE DiagInv'
    OBVIOUS
  <2>1. CASE DiagNext
    BY <2>1, CountKeepsInv DEF DiagNext
  <2>2. CASE UNCHANGED diagVars
    <3>1. seen' = seen /\ outcomes' = outcomes
      BY <2>2 DEF diagVars
    <3>2. \A i \in DOMAIN seen : OneEpoch(i) <=> OneEpoch(i)'
      BY <3>1 DEF OneEpoch, Counted
    <3> QED
      BY <3>1, <3>2 DEF DiagInv, DiagType, CountersConsistent, NoStepBack
  <2> QED
    BY <2>1, <2>2
<1>3. DiagInv => CountersConsistent
  BY DEF DiagInv
<1> QED
  BY <1>1, <1>2, <1>3, PTL DEF DiagSpec
=============================================================================
