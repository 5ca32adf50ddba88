------------------------------- MODULE Floor -------------------------------
(***************************************************************************)
(* What the Relay promises about the floor of one channel, without peers,  *)
(* packets, goroutines or time: at most Limit senders hold it, a sender    *)
(* that takes it is owed one TALK_GRANT, a sender that loses it is owed    *)
(* one TALK_RELEASE, a preemption is one exchange, and every announcement  *)
(* made is one that was owed. The only tenure that may end without a word  *)
(* is one that ends with the channel. Relay implements this module.        *)
(***************************************************************************)
EXTENDS Integers, FiniteSets

CONSTANTS
    Senders,   \* sender ids
    Limit      \* how many of them may talk at a time

VARIABLES
    holders,   \* who has the floor
    grants,    \* grants[s]: TALK_GRANT announcements still to be made for s
    releases,  \* releases[s]: TALK_RELEASE announcements still to be made for s
    shown      \* shown[s]: what a listener has counted: grants minus ends

floorVars == <<holders, grants, releases, shown>>

FloorInit ==
    /\ holders = {}
    /\ grants = [s \in Senders |-> 0]
    /\ releases = [s \in Senders |-> 0]
    /\ shown = [s \in Senders |-> 0]

(* f with one more, or one less, for every member of S.                    *)
Plus(f, S)  == [s \in Senders |-> IF s \in S THEN f[s] + 1 ELSE f[s]]
Minus(f, S) == [s \in Senders |-> IF s \in S THEN f[s] - 1 ELSE f[s]]

(* s takes a free place on the floor.                                      *)
Take(s) ==
    /\ s \notin holders
    /\ Cardinality(holders) < Limit
    /\ holders' = holders \cup {s}
    /\ grants' = Plus(grants, {s})
    /\ UNCHANGED <<releases, shown>>

(* s takes the place of v.                                                 *)
Swap(v, s) ==
    /\ v \in holders
    /\ s \notin holders
    /\ holders' = (holders \ {v}) \cup {s}
    /\ grants' = Plus(grants, {s})
    /\ releases' = Plus(releases, {v})
    /\ UNCHANGED shown

(* The holders in S lose the floor.                                        *)
Yield(S) ==
    /\ holders' = holders \ S
    /\ releases' = Plus(releases, S)
    /\ UNCHANGED <<grants, shown>>

(* The channel is deleted: the holders in S are owed a release, and those  *)
(* that have no peer left end with the channel.                            *)
Clear(S) ==
    /\ holders' = {}
    /\ releases' = Plus(releases, S)
    /\ shown' = Minus(shown, holders \ S)
    /\ UNCHANGED grants

TellGrant(s) ==
    /\ grants[s] > 0
    /\ grants' = Minus(grants, {s})
    /\ shown' = Plus(shown, {s})
    /\ UNCHANGED <<holders, releases>>

TellRelease(s) ==
    /\ releases[s] > 0
    /\ releases' = Minus(releases, {s})
    /\ shown' = Minus(shown, {s})
    /\ UNCHANGED <<holders, grants>>

FloorNext ==
    \/ \E s \in Senders : Take(s) \/ TellGrant(s) \/ TellRelease(s)
    \/ \E v, s \in Senders : Swap(v, s)
    \/ \E S \in SUBSET holders : Yield(S) \/ Clear(S)

FloorSpec == FloorInit /\ [][FloorNext]_floorVars
=============================================================================
