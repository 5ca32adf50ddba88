-------------------------- MODULE MCPrivateSession --------------------------
(* Instances of PrivateSession and RelayDiagnostics for TLC.               *)
EXTENDS PrivateSession, SnapshotCuts, RelayDiagnostics

CONSTANT Cleanup  \* the goroutine of cleanupLoop

(* The connections are of one service: each replaces the one before.       *)
OneService == [c \in Conns |-> "svc"]

(* The first session asks for everything, the others for nothing.          *)
FirstWants == {[c \in Conns |-> [events |-> c = 1, audits |-> c = 1]]}
FirstAsks  == [c \in Conns |-> IF c = 1 THEN 1 ELSE 0]

(* Sender 1 talks and has two endpoints in channel 1, which fill a frame,  *)
(* sender 2 has one more; a member of channel 2 makes one frame too many.  *)
TwoFrames ==
    [ch \in Channels |->
       IF ch = 1 THEN [peers |-> [a \in Addrs |-> IF a = 3 THEN 2 ELSE 1], talkers |-> {1}]
       ELSE [peers |-> [a \in Addrs |-> NoSender], talkers |-> {}]]

(* Sender 2 comes to channel 2, takes over an endpoint of sender 1, wants  *)
(* to talk in channel 1, and leaves it.                                    *)
Datagram(type, ch, a) == [type |-> type, channel |-> ch, sender |-> 2, addr |-> a]

SecondSends ==
    {Datagram("JOIN", 2, 3), Datagram("JOIN", 1, 2), Datagram("PTT_ON", 1, 3),
     Datagram("PTT_REQUEST", 1, 3), Datagram("LEAVE", 1, 3)}

(* An endpoint of sender 1 expires, or its tenure is overdue.              *)
FirstEnds == {[by |-> Cleanup, gone |-> {<<1, 1>>}, over |-> {}],
              [by |-> RunLoop, gone |-> {}, over |-> {<<1, 1>>}]}

EmptyTable ==
    [ch \in Channels |-> [peers |-> [a \in Addrs |-> NoSender], talkers |-> {}]]

(* The link, the cutting of tables and the counters share no state and no  *)
(* property relates them: it is enough to look at the behaviours in which  *)
(* one of them moves.                                                      *)
Idle ==
    /\ past = <<InitialTable>> /\ floor = 0
    /\ \A c \in Conns : stage[c] = "off" /\ open[c]

(* After a first change or PTT_REQUEST there is another one only while a   *)
(* snapshot is queued, and the table changes twice with one connection     *)
(* only.                                                                   *)
Moved == Len(past) > 1 \/ floor > 0

Overlapping ==
    /\ Len(past') <= 3
    /\ Len(past') = 3 => \A c \in Conns \ {1} : stage'[c] = "off"
    /\ Moved /\ <<past, floor>>' # <<past, floor>> => eventMu = 1

ServeInit == Init /\ DiagInit /\ CutInit

ServeNext ==
    /\ captured = EmptyTable
    /\ \/ outcomes = <<>> /\ Next /\ Overlapping /\ UNCHANGED diagVars
       \/ Idle /\ DiagNext /\ UNCHANGED vars
    /\ UNCHANGED captured

ServeSpec == ServeInit /\ [][ServeNext]_<<vars, captured, diagVars>> /\ Fairness
=============================================================================
