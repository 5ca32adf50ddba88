--------------------------- MODULE SnapshotChunks ---------------------------
(***************************************************************************)
(* How a state snapshot of the Private Control Link is cut into frames     *)
(* (private_control_snapshot.go): the channels in the order of their ids,  *)
(* each with its participants in the order of theirs, packed greedily into *)
(* at most MaxChunks chunks. A participant is an entry of the peers of a   *)
(* channel: a sender with two endpoints is listed twice.                   *)
(*                                                                         *)
(* The size of a frame is its JSON text. It is abstracted to what the      *)
(* packing depends on: every channel named in a chunk costs ChannelCost,   *)
(* every participant one, and a chunk holds Capacity.                      *)
(***************************************************************************)
EXTENDS Sums, FiniteSets

CONSTANTS
    Channels,     \* channel ids, ordered
    Senders,      \* sender ids, ordered
    Addrs,        \* endpoints of clients
    ChannelCost,  \* what naming a channel costs in a frame
    Capacity,     \* privateControlSnapshotMaxJSONBytes
    MaxChunks     \* privateControlSnapshotMaxChunks

(* A frame of 63 KiB holds the names of many channels.                     *)
ASSUME SnapshotChunksAssumption ==
    /\ Channels \subseteq Nat /\ IsFiniteSet(Channels)
    /\ Senders \subseteq Nat \ {0} /\ IsFiniteSet(Senders)
    /\ Addrs \subseteq Nat /\ IsFiniteSet(Addrs)
    /\ {ChannelCost, MaxChunks} \subseteq Nat \ {0}
    /\ Capacity \in Nat /\ Capacity >= 2 * ChannelCost

States == {"idle", "talking"}

NoSender == 0

(* What the snapshot reads of a channel: the sender at each endpoint that  *)
(* joined, and activeTalkers, where a sender stays whose endpoint was      *)
(* taken over by a JOIN of another.                                        *)
Rows == [peers: [Addrs -> Senders \cup {NoSender}], talkers: SUBSET Senders]

Empty(row) == \A a \in Addrs : row.peers[a] = NoSender

(* server.channels: a channel exists while it has a peer, and its talkers  *)
(* with it.                                                                *)
Tables == {t \in [Channels -> Rows] : \A ch \in Channels : Empty(t[ch]) => t[ch].talkers = {}}

Existing(table) == {ch \in Channels : ~Empty(table[ch])}

(* The entries of the peers of the channels: channel, sender, endpoint.    *)
Named(table) ==
    {p \in Channels \X Senders \X Addrs : table[p[1]].peers[p[3]] = p[2]}

StateOf(table, ch, s) == IF s \in table[ch].talkers THEN "talking" ELSE "idle"

(* Channels are sorted by id, the participants of each by sender id; which *)
(* of two endpoints of a sender comes first makes no difference.           *)
UpTo(p, q) ==
    \/ p[1] < q[1]
    \/ p[1] = q[1] /\ p[2] < q[2]
    \/ p[1] = q[1] /\ p[2] = q[2] /\ p[3] <= q[3]

Place(p, named) == Cardinality({q \in named : UpTo(q, p)})

(* The participants privateControlSnapshotChunks reads under server.mu, in *)
(* this order: one for every endpoint.                                     *)
Participants(table) ==
    LET named == Named(table)
    IN [i \in 1 .. Cardinality(named) |->
          LET p == CHOOSE p \in named : Place(p, named) = i
          IN [channel |-> p[1], sender |-> p[2], state |-> StateOf(table, p[1], p[2])]]

(* privateControlSnapshotChannelsFit.                                      *)
Size(chunk) == Total([i \in DOMAIN chunk |-> ChannelCost + Len(chunk[i].participants)])

Fits(chunk) == Size(chunk) <= Capacity

-----------------------------------------------------------------------------
(* The loops of privateControlChunkSnapshotEntries: the chunks that are    *)
(* complete, the current one, and the batch of participants of one channel *)
(* that is still to be put in one.                                         *)

Entry(channel, participants) == [channel |-> channel, participants |-> participants]

\* Mutant of AppendChunk: a batch that does not fit starts a chunk of its own
\* after it was put in the previous one too.
AppendChunkTwice(loop, entry) ==
    IF Fits(Append(loop.current, entry))
    THEN [loop EXCEPT !.current = Append(@, entry)]
    ELSE [loop EXCEPT !.chunks  = Append(@, Append(loop.current, entry)),
                      !.current = <<entry>>]

(* appendChunk: a batch goes in the current chunk or starts the next one.  *)
AppendChunk(loop, entry) ==
    IF Fits(Append(loop.current, entry))
    THEN [loop EXCEPT !.current = Append(@, entry)]
    ELSE [loop EXCEPT !.chunks = Append(@, loop.current), !.current = <<entry>>]

(* A batch ends with its channel, or when a frame holds no more.           *)
AddParticipant(loop, p) ==
    LET who    == [sender |-> p.sender, state |-> p.state]
        longer == Entry(loop.batch.channel, Append(loop.batch.participants, who))
    IN IF p.channel = loop.batch.channel /\ Fits(<<longer>>)
       THEN [loop EXCEPT !.batch = longer]
       ELSE [AppendChunk(loop, loop.batch) EXCEPT !.batch = Entry(p.channel, <<who>>)]

(* An empty table is one empty chunk.                                      *)
Chunks(table) ==
    LET order == Participants(table)
        loop[n \in 0 .. Len(order)] ==
          IF n = 0 THEN [chunks |-> <<>>, current |-> <<>>, batch |-> Entry(order[1].channel, <<>>)]
          ELSE AddParticipant(loop[n - 1], order[n])
        end == AppendChunk(loop[Len(order)], loop[Len(order)].batch)
    IN IF order = <<>> THEN << <<>> >> ELSE Append(end.chunks, end.current)

TooLarge(table) == Len(Chunks(table)) > MaxChunks

-----------------------------------------------------------------------------
(* The places of the chunks: place k of entry j of chunk i.                *)
Places(chunks) ==
    UNION {UNION {{<<i, j, k>> : k \in DOMAIN chunks[i][j].participants}
                   : j \in DOMAIN chunks[i]} : i \in DOMAIN chunks}

ChannelAt(chunks, p) == chunks[p[1]][p[2]].channel
PersonAt(chunks, p) == chunks[p[1]][p[2]].participants[p[3]]

(* Where the chunks say that s is in ch.                                   *)
Mentions(chunks, ch, s) ==
    {p \in Places(chunks) : ChannelAt(chunks, p) = ch /\ PersonAt(chunks, p).sender = s}

Endpoints(table, ch, s) == {a \in Addrs : table[ch].peers[a] = s}

(* The chunks are the table: each chunk fits in a frame, whoever is named  *)
(* is a member, with its state, and a member is named once for each of its *)
(* endpoints.                                                              *)
Represents(chunks, table) ==
    /\ \A i \in DOMAIN chunks : Fits(chunks[i])
    /\ \A p \in Places(chunks) :
         /\ ChannelAt(chunks, p) \in Channels /\ PersonAt(chunks, p).sender \in Senders
         /\ PersonAt(chunks, p).state = StateOf(table, ChannelAt(chunks, p), PersonAt(chunks, p).sender)
    /\ \A ch \in Channels : \A s \in Senders :
         Cardinality(Mentions(chunks, ch, s)) = Cardinality(Endpoints(table, ch, s))

(* The table is cut into a sequence of at least one chunk, which is the    *)
(* table.                                                                  *)
CutWhole(t) ==
    LET chunks == Chunks(t)
    IN /\ Len(chunks) \in Nat \ {0}
       /\ chunks = [i \in 1 .. Len(chunks) |-> chunks[i]]
       /\ Represents(chunks, t)

(* The chunks of a table are the table, and it is refused only when it has *)
(* more participants than the frames allowed can hold half full            *)
(* (privateControlChunkSnapshotEntries).                                   *)
ChunkedWell(t) ==
    LET total == Cardinality(Named(t)) + ChannelCost * Cardinality(Existing(t))
    IN /\ CutWhole(t)
       /\ TooLarge(t) => 2 * total >= Capacity * MaxChunks
=============================================================================
