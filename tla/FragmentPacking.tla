-------------------------- MODULE FragmentPacking --------------------------
(***************************************************************************)
(* How the Directory cuts an answer into datagrams (directory_v3.go). The  *)
(* text of a fragment names its index, the number of fragments and, in the *)
(* envelope, its sequence number: how many rows fit depends on how many    *)
(* fragments there are, which is known only when all are packed.           *)
(*                                                                         *)
(* A row is its size. The encryption and its base64 text keep the order of *)
(* sizes and are left out. A fragment holds rows that follow each other,   *)
(* as the slices of the code do: the fragments are given by starts, where  *)
(* starts[i] rows come before those of fragment i.                         *)
(***************************************************************************)
EXTENDS Sums, FiniteSets

CONSTANTS
    RowSizes,       \* sizes of a row
    MaxRows,        \* bound on the rows of an answer
    ChannelRow,     \* size of the channel row of a snapshot
    DatagramLimit,  \* what a datagram holds besides the fixed fields
    Ten,            \* numbers from here on have two digits
    MaxFragments,   \* directoryMaxFragments
    MaxAttempts     \* attempts of packDirectoryRows, 6

(* A datagram has room for its three numbers, and the code makes attempts  *)
(* enough for the number of digits to change once.                         *)
ASSUME FragmentPackingAssumption ==
    /\ RowSizes \subseteq Nat \ {0} /\ IsFiniteSet(RowSizes)
    /\ {MaxRows, ChannelRow, DatagramLimit} \subseteq Nat /\ DatagramLimit >= 6
    /\ Ten \in Nat \ {0} /\ MaxFragments \in Nat \ {0, 1}
    /\ MaxAttempts \in Nat /\ MaxAttempts >= 3

VARIABLE answer  \* the rows of the answer that is packed, one of Answers

Answers == UNION {[1 .. n -> RowSizes] : n \in 0 .. MaxRows}

Digits(n) == IF n < Ten THEN 1 ELSE 2

(* The rows after the first start ones, up to end, separated by commas.    *)
Text(rows, start, end) ==
    IF start = end THEN 0 ELSE Total(SubSeq(rows, start + 1, end)) + (end - start - 1)

(* sealDirectoryDatagram takes the fragment; first is what index 0 holds   *)
(* besides its rows.                                                       *)
Fits(index, count, text, first) ==
    Digits(index) + Digits(count) + Digits(index + 1) + text
      + (IF index = 0 THEN first ELSE 0) <= DatagramLimit

Packing(ok, starts) == [ok |-> ok, starts |-> starts]
TooLarge == Packing(FALSE, <<>>)

(* The next row goes in the last fragment, or starts another one. An empty *)
(* fragment may stay empty only if mayLeave holds.                         *)
AddRow(packing, rows, next, count, first, mayLeave) ==
    LET n     == Len(packing.starts)
        start == packing.starts[n]
    IN IF ~packing.ok \/ Fits(n - 1, count, Text(rows, start, next), first) THEN packing
       ELSE IF Fits(n, count, Text(rows, next - 1, next), first) /\ (start = next - 1 => mayLeave)
            THEN Packing(TRUE, Append(packing.starts, next - 1))
       ELSE TooLarge

Pass(rows, count, first, mayLeave) ==
    LET pass[next \in 0 .. Len(rows)] ==
          IF next = 0 THEN Packing(TRUE, <<0>>)
          ELSE AddRow(pass[next - 1], rows, next, count, first, mayLeave)
    IN pass[Len(rows)]

-----------------------------------------------------------------------------
(* packDirectoryRows: rows are packed for a guessed number of fragments    *)
(* until the guess is right.                                               *)

Guessed(rows, guess) == Pass(rows, guess, 0, FALSE)

Failed(packing) == ~packing.ok \/ Len(packing.starts) > MaxFragments

\* Mutant of PackRows: what the first guess gave is taken.
PackRowsOnce(rows) ==
    LET packing == Guessed(rows, 1)
    IN IF Failed(packing) THEN TooLarge ELSE packing

PackRows(rows) ==
    LET guess[attempt \in 0 .. MaxAttempts - 1] ==
          IF attempt = 0 THEN 1 ELSE Len(Guessed(rows, guess[attempt - 1]).starts)
        At(attempt) == Guessed(rows, guess[attempt])
        Ends == {attempt \in 0 .. MaxAttempts - 1 :
                   Failed(At(attempt)) \/ Len(At(attempt).starts) = guess[attempt]}
    IN IF Ends = {} THEN TooLarge
       ELSE LET last == CHOOSE attempt \in Ends : \A other \in Ends : attempt <= other
            IN IF Failed(At(last)) THEN TooLarge ELSE At(last)

-----------------------------------------------------------------------------
(* The pages of a snapshot, and packDirectorySnapshotRows: the number of   *)
(* fragments is taken to be the largest, and fragment 0 may hold the       *)
(* channel row alone, which then is encoded with null instead of [].       *)

\* Mutant of PageLimit: no fragment is kept for the channel row.
PageLimitWhole == MaxFragments

(* splitDirectorySnapshotPages.                                            *)
PageLimit == MaxFragments - 1

(* A page starts at every multiple of PageLimit below the number of rows;  *)
(* without rows there is one empty page.                                   *)
PageCount(rows) ==
    IF rows = <<>> THEN 1
    ELSE CHOOSE n \in 1 .. Len(rows) : (n - 1) * PageLimit < Len(rows) /\ Len(rows) <= n * PageLimit

SplitPages(rows) ==
    LET PageEnd(i) == IF i * PageLimit < Len(rows) THEN i * PageLimit ELSE Len(rows)
    IN [i \in 1 .. PageCount(rows) |-> SubSeq(rows, (i - 1) * PageLimit + 1, PageEnd(i))]

ChannelAlone == Fits(0, MaxFragments, 0, ChannelRow + 2)

PackSnapshotRows(rows) ==
    LET packing == Pass(rows, MaxFragments, ChannelRow, ChannelAlone)
    IN IF Failed(packing) THEN TooLarge ELSE packing

-----------------------------------------------------------------------------
(* Properties.                                                             *)

End(starts, i, len) == IF i = Len(starts) THEN len ELSE starts[i + 1]

(* The fragments hold all rows, each once and in order; only the first may *)
(* be empty.                                                               *)
InOrder(rows, starts) ==
    /\ starts # <<>> /\ starts[1] = 0
    /\ \A i \in DOMAIN starts :
         /\ starts[i] <= End(starts, i, Len(rows))
         /\ i > 1 => starts[i] < End(starts, i, Len(rows))

(* All ways to cut rows into fragments that are not empty, and those that  *)
(* can be sent.                                                            *)
Cuts(rows) ==
    IF rows = <<>> THEN {<<0>>}
    ELSE {starts \in UNION {[1 .. n -> 0 .. Len(rows) - 1] : n \in 1 .. Len(rows)} :
            /\ starts[1] = 0
            /\ \A i \in 2 .. Len(starts) : starts[i - 1] < starts[i]}

Sendable(rows, starts, first) ==
    /\ Len(starts) <= MaxFragments
    /\ \A i \in DOMAIN starts :
         Fits(i - 1, Len(starts), Text(rows, starts[i], End(starts, i, Len(rows))), first)

(* The pages hold all rows, each once and in order.                        *)
Paged(rows, pages) ==
    /\ \A p \in DOMAIN pages : \A k \in DOMAIN pages[p] :
         LET i == (p - 1) * PageLimit + k
         IN k <= PageLimit /\ i \in DOMAIN rows /\ pages[p][k] = rows[i]
    /\ \A i \in DOMAIN rows :
         \E p \in DOMAIN pages : \E k \in DOMAIN pages[p] : i = (p - 1) * PageLimit + k

PackInit == answer \in Answers
PackSpec == PackInit /\ [][UNCHANGED answer]_answer

(* The answer is refused only if no cut of its rows can be sent; otherwise *)
(* all rows are sent, in order, every fragment fits with the number of     *)
(* fragments there are in the end, and no cut has fewer                    *)
(* (packDirectoryRows never fails to stabilise).                           *)
PackingExact ==
    LET packing  == PackRows(answer)
        sendable == {starts \in Cuts(answer) : Sendable(answer, starts, 0)}
    IN /\ packing.ok <=> sendable # {}
       /\ packing.ok => /\ packing.starts \in sendable
                        /\ \A starts \in sendable : Len(packing.starts) <= Len(starts)

(* If the channel row fits alone, and every speaker row in the last        *)
(* fragment, then every page of the snapshot can be sent, and the pages    *)
(* and their fragments hold all rows in order (splitDirectorySnapshotPages *)
(* and packDirectorySnapshotRows).                                         *)
SnapshotPagesSent ==
    (ChannelAlone /\ \A i \in DOMAIN answer : Fits(MaxFragments - 1, MaxFragments, answer[i], 0)) =>
        /\ Paged(answer, SplitPages(answer))
        /\ \A p \in DOMAIN SplitPages(answer) :
             LET rows    == SplitPages(answer)[p]
                 packing == PackSnapshotRows(rows)
             IN /\ packing.ok
                /\ Sendable(rows, packing.starts, ChannelRow)
                /\ InOrder(rows, packing.starts)
=============================================================================
