------------------------ MODULE PrivateControlProofs ------------------------
(* Proofs about PrivateControl, for every set of connections and commands  *)
(* and every limit.                                                        *)
EXTENDS PrivateControl, InductionLemmas, FiniteSetTheorems, TLAPS

(* Past the installation of the rule, and with the entry's acknowledgement *)
(* set.                                                                    *)
Acked    == {"ack", "snapRules", "snapIdem", "write", "complete"}
Stored   == {"snapRules", "snapIdem", "write", "complete"}

(* Who executes a command owns its entry, the slot it has acquired, and    *)
(* has read the clock in the past; what runs is only while the process is  *)
(* up.                                                                     *)
OwnInv ==
    /\ \A h \in Handlers : Executing(h) => Owns(h)
    /\ \A h \in Handlers : conn[h].pc \in Acquired => h \in slots
    /\ \A h \in Handlers : conn[h] # Idle => conn[h].at <= now
    /\ status # "up" => \A h \in Handlers : conn[h] = Idle

(* The inductive invariant that needs nothing else.                        *)
ControlInv == TypeOK /\ OwnInv /\ SlotsReturned /\ ExclusiveExecution

-----------------------------------------------------------------------------
(* An acknowledgement that is made is in the entry of its command, with    *)
(* the expiry that belongs to it, and stays so in a file.                  *)
Made(ack, expires) == ack.outcome # "none" /\ expires = Expiry(ack)

WellKept(idem) ==
    /\ \A i \in idem : i.key = i.cmd.key /\ Made(i.ack, i.expires)
    /\ \A i, j \in idem : i.key = j.key => i = j

EntryShape(k) ==
    entry[k] # NoEntry =>
        /\ entry[k].cmd.key = k
        /\ entry[k].ack # NoAck => Made(entry[k].ack, entry[k].expires)
        /\ entry[k].completed => entry[k].ack # NoAck

LocalShape(h) ==
    /\ conn[h].pc \in Acked => conn[h].ack.outcome # "none" /\ conn[h].ack.at = conn[h].at
    /\ conn[h].pc \in Stored => entry[conn[h].cmd.key].ack = conn[h].ack
    /\ conn[h].pc = "write" => WellKept(conn[h].snap.idem)

ShapeInv ==
    /\ \A k \in Keys : EntryShape(k)
    /\ \A h \in Handlers : LocalShape(h)
    /\ WellKept(file.idem)
    /\ status # "up" => \A k \in Keys : entry[k] = NoEntry

(* What a client has been told, and what it is told when it asks again.    *)
Observable ==
    released \cup {[cmd |-> entry[k].cmd, ack |-> entry[k].ack] :
                     k \in {j \in Keys : entry[j] # NoEntry /\ entry[j].completed}}

(* A rule in the table keeps what an acknowledgement says.                 *)
Enforced(table, cmd, ack) ==
    ack.outcome = "applied" /\ ack.until > now => table[cmd.target] >= ack.until

(* One acknowledgement, or one after the other has expired.                *)
Ordered(a, b) == a = b \/ a.at >= Expiry(b) \/ b.at >= Expiry(a)

(* Entry k answers a duplicate with r.                                     *)
Answers(k, r) ==
    /\ entry[k] # NoEntry /\ entry[k].completed
    /\ entry[k].cmd = r.cmd /\ entry[k].ack = r.ack

(* A client that was told r is told r again until r has expired, and r is  *)
(* in force.                                                               *)
Known(r) ==
    /\ Enforced(rules, r.cmd, r.ack)
    /\ Answers(r.cmd.key, r) \/ Expiry(r.ack) <= now

(* Who executes a command does so after all that was told about it has     *)
(* expired.                                                                *)
LocalAck(h) ==
    /\ conn[h].pc \in Acked => Enforced(rules, conn[h].cmd, conn[h].ack)
    /\ conn[h].pc \in Acquired =>
          \A r \in Observable : r.cmd = conn[h].cmd => conn[h].at >= Expiry(r.ack)

(* While the process lives.                                                *)
AckInv ==
    /\ \A q, r \in Observable : q.cmd = r.cmd => Ordered(q.ack, r.ack)
    /\ status = "up" => \A r \in Observable : Known(r)
    /\ status = "up" => \A h \in Handlers : LocalAck(h)

(* A file says what an acknowledgement says, and nothing against it.       *)
Saved(f, cmd, ack) ==
    /\ Enforced(f.rules, cmd, ack)
    /\ (\E i \in f.idem : i.cmd = cmd /\ i.ack = ack) \/ Expiry(ack) <= now
    /\ \A i \in f.idem : i.cmd = cmd => Ordered(ack, i.ack)

Coherent(f) == \A i \in f.idem : Enforced(f.rules, i.cmd, i.ack)

(* An acknowledgement in an entry that is not completed is that of the     *)
(* holder of the slot.                                                     *)
Reserved(k) ==
    entry[k] # NoEntry /\ ~entry[k].completed /\ entry[k].ack # NoAck =>
        \E h \in slots : conn[h].cmd.key = k

(* What the completion of h's command adds.                                *)
Result(h) == [cmd |-> conn[h].cmd, ack |-> conn[h].ack]

(* The snapshot that h writes says all that is, and will be, told.         *)
LocalFile(h) ==
    /\ conn[h].pc \in {"snapIdem", "write"} =>
          \A r \in Observable \cup {Result(h)} : Enforced(conn[h].snap.rules, r.cmd, r.ack)
    /\ conn[h].pc = "write" =>
          /\ Coherent(conn[h].snap)
          /\ \A r \in Observable \cup {Result(h)} : Saved(conn[h].snap, r.cmd, r.ack)
    /\ conn[h].pc = "complete" => Saved(file, conn[h].cmd, conn[h].ack)

(* No two commands execute with a slot at a time: nothing writes the state *)
(* file between the halves of another's snapshot and its write.            *)
OneAtATime == \A g, h \in slots : g = h

(* The process has not crashed.                                            *)
Alive == status = "up"

(* Across crashes, while commands do not overlap.                          *)
FileInv ==
    /\ OneAtATime
    /\ Coherent(file)
    /\ \A r \in Observable : Saved(file, r.cmd, r.ack)
    /\ \A k \in Keys : Reserved(k)
    /\ \A h \in Handlers : LocalFile(h)

-----------------------------------------------------------------------------
(* Types.                                                                  *)

LEMMA CommandFacts ==
    /\ \A c \in Commands : c.key \in Keys /\ c.target \in Targets /\ c.until \in Nat
    /\ TTL \in Nat \ {0} /\ MaxCommands \in Nat \ {0}
  BY PrivateControlAssumption DEF Keys, Targets

LEMMA ConstantTypes == NoAck \in AckType /\ EmptyFile \in FileType
  BY DEF NoAck, AckType, EmptyFile, FileType

(* The acknowledgement of an expired or of an installed command.           *)
LEMMA AckTypes ==
    ASSUME NEW c \in Commands, NEW req \in Nat, NEW at \in Nat,
           NEW outcome \in {"applied", "already_expired"}
    PROVE  [outcome |-> outcome, until |-> c.until, req |-> req, at |-> at] \in AckType
  BY CommandFacts DEF AckType

(* The expiry of an acknowledgement is after its command was executed.     *)
LEMMA ExpiryFacts ==
    ASSUME NEW ack \in AckType
    PROVE  Expiry(ack) \in Nat /\ Expiry(ack) > ack.at
  BY CommandFacts DEF AckType, Expiry, Later

(* The locals of a goroutine that is not idle.                             *)
LEMMA LocalsType ==
    ASSUME TypeOK, NEW h \in Handlers, conn[h] # Idle
    PROVE  /\ conn[h] \in ConnType
           /\ conn[h].pc \in Stages /\ conn[h].cmd \in Commands
           /\ conn[h].cmd.key \in Keys /\ conn[h].cmd.target \in Targets
           /\ conn[h].req \in Nat /\ conn[h].at \in Nat
           /\ conn[h].ack \in AckType /\ conn[h].snap \in FileType
           /\ \A s \in Stages : [conn[h] EXCEPT !.pc = s] \in ConnType
  BY CommandFacts DEF TypeOK, ConnType

LEMMA NotIdle ==
    ASSUME TypeOK, NEW h \in Handlers, conn[h].pc \in Stages
    PROVE  conn[h] # Idle
  BY DEF Idle, Stages

(* cleanupIdempotencyLocked only removes, and only what is completed.      *)
LEMMA CleanEntriesFacts ==
    ASSUME TypeOK, NEW time
    PROVE  /\ CleanEntries(time) \in [Keys -> EntryType \cup {NoEntry}]
           /\ \A k \in Keys :
                \/ CleanEntries(time)[k] = entry[k]
                \/ /\ CleanEntries(time)[k] = NoEntry
                   /\ entry[k] # NoEntry /\ entry[k].completed /\ entry[k].expires <= time
           /\ \A k \in Keys : CleanEntries(time)[k] # NoEntry => CleanEntries(time)[k] = entry[k]
  BY DEF TypeOK, CleanEntries

LEMMA CleanRulesFacts ==
    ASSUME TypeOK, NEW time \in Nat
    PROVE  /\ CleanRules(time) \in [Targets -> Nat]
           /\ \A t \in Targets : rules[t] > time => CleanRules(time)[t] = rules[t]
  BY DEF TypeOK, CleanRules

-----------------------------------------------------------------------------
(* How a goroutine's locals change: the other goroutines keep theirs.      *)

Same(h) == \A g \in Handlers : g # h => conn'[g] = conn[g]

ConnTyped == conn \in [Handlers -> ConnType \cup {Idle}]

LEMMA GotoFacts ==
    ASSUME TypeOK, NEW h \in Handlers, conn[h] # Idle, NEW s \in Stages, Goto(h, s)
    PROVE  /\ ConnTyped' /\ Same(h) /\ conn'[h] # Idle
           /\ conn'[h].pc = s
           /\ conn'[h].cmd = conn[h].cmd /\ conn'[h].req = conn[h].req
           /\ conn'[h].at = conn[h].at /\ conn'[h].ack = conn[h].ack
           /\ conn'[h].snap = conn[h].snap
  <1>1. conn'[h] = [conn[h] EXCEPT !.pc = s] /\ Same(h) /\ DOMAIN conn' = Handlers
    BY DEF Goto, TypeOK, Same
  <1>2. conn[h] \in ConnType
    BY LocalsType
  <1>3. conn'[h] \in ConnType
    BY <1>1, LocalsType
  <1>. QED
    BY <1>1, <1>2, <1>3 DEF Goto, TypeOK, ConnTyped, ConnType, Stages, Idle, Same

LEMMA AckFacts ==
    ASSUME TypeOK, NEW h \in Handlers, conn[h] # Idle, NEW at \in Nat, NEW ack \in AckType,
           NEW s \in Stages,
           conn' = [conn EXCEPT ![h].pc = s, ![h].at = at, ![h].ack = ack]
    PROVE  /\ ConnTyped' /\ Same(h) /\ conn'[h] # Idle
           /\ conn'[h].pc = s
           /\ conn'[h].cmd = conn[h].cmd /\ conn'[h].req = conn[h].req
           /\ conn'[h].at = at /\ conn'[h].ack = ack
           /\ conn'[h].snap = conn[h].snap
  <1>1. /\ conn'[h] = [[[conn[h] EXCEPT !.pc = s] EXCEPT !.at = at] EXCEPT !.ack = ack]
        /\ Same(h) /\ DOMAIN conn' = Handlers
    BY DEF TypeOK, Same
  <1>2. conn[h] \in ConnType
    BY LocalsType
  <1>3. conn'[h] \in ConnType
    BY <1>1, <1>2 DEF ConnType
  <1>. QED
    BY <1>1, <1>2, <1>3 DEF TypeOK, ConnTyped, ConnType, Stages, Idle, Same

LEMMA SnapRulesFacts ==
    ASSUME TypeOK, NEW h \in Handlers, conn[h] # Idle, NEW table \in [Targets -> Nat],
           conn' = [conn EXCEPT ![h].pc = "snapIdem", ![h].snap.rules = table]
    PROVE  /\ ConnTyped' /\ Same(h) /\ conn'[h] # Idle
           /\ conn'[h].pc = "snapIdem"
           /\ conn'[h].cmd = conn[h].cmd /\ conn'[h].req = conn[h].req
           /\ conn'[h].at = conn[h].at /\ conn'[h].ack = conn[h].ack
           /\ conn'[h].snap.rules = table
  <1>1. /\ conn'[h] = [[conn[h] EXCEPT !.pc = "snapIdem"]
                          EXCEPT !.snap = [conn[h].snap EXCEPT !.rules = table]]
        /\ Same(h) /\ DOMAIN conn' = Handlers
    BY LocalsType DEF TypeOK, Same, ConnType
  <1>2. conn[h] \in ConnType
    BY LocalsType
  <1>3. /\ [conn[h].snap EXCEPT !.rules = table] \in FileType
        /\ [conn[h].snap EXCEPT !.rules = table].rules = table
    BY <1>2 DEF ConnType, FileType
  <1>4. conn'[h] \in ConnType
    BY <1>1, <1>2, <1>3 DEF ConnType, Stages
  <1>. QED
    BY <1>1, <1>2, <1>3, <1>4 DEF TypeOK, ConnTyped, ConnType, Stages, Idle, Same

LEMMA SnapIdemFacts ==
    ASSUME TypeOK, NEW h \in Handlers, conn[h] # Idle, NEW idem \in SUBSET IdemType,
           conn' = [conn EXCEPT ![h].pc = "write", ![h].snap.idem = idem]
    PROVE  /\ ConnTyped' /\ Same(h) /\ conn'[h] # Idle
           /\ conn'[h].pc = "write"
           /\ conn'[h].cmd = conn[h].cmd /\ conn'[h].req = conn[h].req
           /\ conn'[h].at = conn[h].at /\ conn'[h].ack = conn[h].ack
           /\ conn'[h].snap.rules = conn[h].snap.rules
           /\ conn'[h].snap.idem = idem
  <1>1. /\ conn'[h] = [[conn[h] EXCEPT !.pc = "write"]
                          EXCEPT !.snap = [conn[h].snap EXCEPT !.idem = idem]]
        /\ Same(h) /\ DOMAIN conn' = Handlers
    BY LocalsType DEF TypeOK, Same, ConnType
  <1>2. conn[h] \in ConnType
    BY LocalsType
  <1>3. /\ [conn[h].snap EXCEPT !.idem = idem] \in FileType
        /\ [conn[h].snap EXCEPT !.idem = idem].rules = conn[h].snap.rules
        /\ [conn[h].snap EXCEPT !.idem = idem].idem = idem
    BY <1>2 DEF ConnType, FileType
  <1>4. conn'[h] \in ConnType
    BY <1>1, <1>2, <1>3 DEF ConnType, Stages
  <1>. QED
    BY <1>1, <1>2, <1>3, <1>4 DEF TypeOK, ConnTyped, ConnType, Stages, Idle, Same

LEMMA ReturnFacts ==
    ASSUME TypeOK, NEW h \in Handlers, Return(h)
    PROVE  /\ ConnTyped' /\ Same(h) /\ conn'[h] = Idle
           /\ slots' = slots \ {h}
  BY DEF TypeOK, Return, ConnTyped, Same

LEMMA StartFacts ==
    ASSUME TypeOK, NEW h \in Handlers, NEW c \in Commands, NEW req \in Nat,
           NEW s \in Stages, Start(h, c, s, req)
    PROVE  /\ ConnTyped' /\ Same(h) /\ conn'[h] # Idle
           /\ conn'[h].pc = s /\ conn'[h].cmd = c /\ conn'[h].at = 0
           /\ conn'[h].req = req
  <1>1. /\ conn'[h] = [pc |-> s, cmd |-> c, req |-> req, at |-> 0,
                       ack |-> NoAck, snap |-> EmptyFile]
        /\ Same(h) /\ DOMAIN conn' = Handlers
    BY DEF TypeOK, Same, Start
  <1>2. conn'[h] \in ConnType
    BY <1>1, ConstantTypes DEF ConnType
  <1>. QED
    BY <1>1, <1>2 DEF TypeOK, ConnTyped, Same, Start, Idle, Stages

-----------------------------------------------------------------------------
(* Who executes a command owns its entry, alone.                           *)

(* A step of h that leaves the entries of the others alone.                *)
LEMMA OwnFrame ==
    ASSUME ControlInv, NEW h \in Handlers, status = "up", status' = "up", now' = now,
           Same(h), slots' \subseteq Handlers,
           \A g \in Handlers :
               g # h => /\ Executing(g) => entry'[conn[g].cmd.key] = entry[conn[g].cmd.key]
                        /\ g \in slots' <=> g \in slots,
           Executing(h)' =>
               /\ Owns(h)'
               /\ \A g \in Handlers : g # h /\ Executing(g) => conn[g].cmd.key # conn'[h].cmd.key,
           conn'[h].pc \in Acquired => h \in slots',
           h \in slots' => Executing(h)',
           conn'[h] # Idle => conn'[h].at <= now
    PROVE  OwnInv' /\ SlotsReturned' /\ ExclusiveExecution'
  <1>1. ASSUME NEW g \in Handlers, g # h
        PROVE  /\ conn'[g] = conn[g]
               /\ Executing(g)' <=> Executing(g)
               /\ Executing(g)' => Owns(g)'
               /\ conn'[g].pc \in Acquired => g \in slots'
               /\ conn'[g] # Idle => conn'[g].at <= now'
               /\ g \in slots' => Executing(g)'
    <2>1. conn'[g] = conn[g] /\ (Executing(g)' <=> Executing(g))
      BY <1>1 DEF Same, Executing
    <2>. QED
      BY <1>1, <2>1 DEF ControlInv, OwnInv, Owns, SlotsReturned
  <1>2. OwnInv'
    BY <1>1 DEF OwnInv
  <1>3. SlotsReturned'
    BY <1>1 DEF SlotsReturned
  <1>4. ExclusiveExecution'
    BY <1>1 DEF ControlInv, ExclusiveExecution
  <1>. QED
    BY <1>2, <1>3, <1>4

(* A cleanup of the idempotency map leaves what is under way.              *)
LEMMA CleanKeepsOwned ==
    ASSUME ControlInv, NEW time, NEW g \in Handlers, Executing(g)
    PROVE  CleanEntries(time)[conn[g].cmd.key] = entry[conn[g].cmd.key]
  <1>1. conn[g].cmd.key \in Keys /\ Owns(g)
    BY NotIdle, LocalsType DEF ControlInv, OwnInv, Executing
  <1>. QED
    BY <1>1, CleanEntriesFacts DEF ControlInv, Owns

LEMMA BeginControl ==
    ASSUME ControlInv, NEW h \in Handlers, NEW c \in Commands, Begin(h, c)
    PROVE  ControlInv'
  <1>. DEFINE kept == CleanEntries(now)
              e    == kept[c.key]
              new  == [req |-> requests + 1, cmd |-> c, ack |-> NoAck,
                       completed |-> FALSE, expires |-> now + TTL]
  <1>1. /\ TypeOK /\ c.key \in Keys
        /\ status = "up" /\ conn[h] = Idle /\ requests' = requests + 1
        /\ UNCHANGED <<status, now, rules, slots, file, crashes>>
    BY CommandFacts DEF Begin, ControlInv
  <1>2. h \notin slots /\ ~Executing(h)
    BY <1>1 DEF ControlInv, SlotsReturned, Executing, Idle, Stages
  <1>3. /\ kept \in [Keys -> EntryType \cup {NoEntry}]
        /\ e # NoEntry => e \in EntryType
        /\ \A g \in Handlers : Executing(g) => kept[conn[g].cmd.key] = entry[conn[g].cmd.key]
    BY <1>1, CleanEntriesFacts, CleanKeepsOwned
  <1>4. CASE entry' = kept /\ UNCHANGED conn /\ released' \in {released, released \cup {[cmd |-> c, ack |-> e.ack]}}
             /\ (released' # released => e # NoEntry)
    <2>1. e # NoEntry => [cmd |-> c, ack |-> e.ack] \in [cmd: Commands, ack: AckType]
      BY <1>3 DEF EntryType
    <2>2. TypeOK'
      BY <1>1, <1>3, <1>4, <2>1 DEF TypeOK
    <2>3. OwnInv' /\ SlotsReturned' /\ ExclusiveExecution'
      BY <1>1, <1>3, <1>4
         DEF ControlInv, OwnInv, Owns, Executing, SlotsReturned, ExclusiveExecution
    <2>. QED
      BY <2>2, <2>3 DEF ControlInv
  <1>5. CASE e # NoEntry /\ entry' = kept /\ Start(h, c, "wait", e.req) /\ UNCHANGED released
    <2>1. e.req \in Nat /\ "wait" \in Stages
      BY <1>3, <1>5 DEF EntryType, Stages
    <2>2. ConnTyped' /\ Same(h) /\ conn'[h].pc = "wait" /\ conn'[h].at = 0
      BY <1>1, <1>5, <2>1, StartFacts
    <2>3. TypeOK'
      BY <1>1, <1>3, <1>5, <2>2 DEF TypeOK, ConnTyped
    <2>4. ~Executing(h)' /\ conn'[h].pc \notin Acquired /\ conn'[h].at <= now
      BY <1>1, <2>2 DEF Executing, Acquired, TypeOK
    <2>5. OwnInv' /\ SlotsReturned' /\ ExclusiveExecution'
      BY <1>1, <1>2, <1>3, <1>5, <2>2, <2>4, OwnFrame DEF TypeOK
    <2>. QED
      BY <2>3, <2>5 DEF ControlInv
  <1>6. CASE /\ e = NoEntry /\ entry' = [kept EXCEPT ![c.key] = new]
             /\ Start(h, c, "slot", requests + 1) /\ UNCHANGED released
    <2>1. /\ ConnTyped' /\ Same(h) /\ conn'[h].pc = "slot" /\ conn'[h].at = 0
          /\ conn'[h].cmd = c
      BY <1>1, <1>6, StartFacts DEF Stages, TypeOK
    <2>2. new \in EntryType /\ new # NoEntry
      BY <1>1, ConstantTypes, CommandFacts DEF EntryType, NoEntry, TypeOK
    <2>3. TypeOK'
      BY <1>1, <1>3, <1>6, <2>1, <2>2 DEF TypeOK, ConnTyped
    <2>4. Owns(h)' /\ Executing(h)' /\ conn'[h].pc \notin Acquired /\ conn'[h].at <= now
      BY <1>1, <1>3, <1>6, <2>1, <2>2 DEF Owns, Executing, Acquired, Stages, TypeOK
    <2>5. \A g \in Handlers : Executing(g) => conn[g].cmd.key # c.key
      BY <1>3, <1>6 DEF ControlInv, OwnInv, Owns
    <2>6. \A g \in Handlers : Executing(g) => entry'[conn[g].cmd.key] = entry[conn[g].cmd.key]
      BY <1>1, <1>3, <1>6, <2>5, NotIdle, LocalsType DEF Executing
    <2>7. OwnInv' /\ SlotsReturned' /\ ExclusiveExecution'
      BY <1>1, <1>2, <2>1, <2>4, <2>5, <2>6, OwnFrame DEF TypeOK
    <2>. QED
      BY <2>3, <2>7 DEF ControlInv
  <1>. QED
    BY <1>4, <1>5, <1>6 DEF Begin

(* A return of handleRevocation: the entries of the others are left alone. *)
LEMMA ReturnControl ==
    ASSUME ControlInv, NEW h \in Handlers, status = "up", status' = "up", now' = now, Return(h),
           \A g \in Handlers :
               g # h /\ Executing(g) => entry'[conn[g].cmd.key] = entry[conn[g].cmd.key]
    PROVE  ConnTyped' /\ slots' \subseteq Handlers /\ OwnInv' /\ SlotsReturned' /\ ExclusiveExecution'
  <1>1. /\ ConnTyped' /\ Same(h) /\ conn'[h] = Idle /\ slots' = slots \ {h}
        /\ slots' \subseteq Handlers
    BY ReturnFacts DEF ControlInv, TypeOK
  <1>2. ~Executing(h)' /\ conn'[h].pc \notin Acquired
    BY <1>1 DEF Executing, Idle, Stages, Acquired
  <1>. QED
    BY <1>1, <1>2, OwnFrame

(* A step of h that goes on with the same command.                         *)
LEMMA MoveControl ==
    ASSUME ControlInv, NEW h \in Handlers, Executing(h),
           status = "up", status' = "up", now' = now, Same(h), slots' = slots,
           conn'[h].pc \in Stages \ {"wait"}, conn'[h].cmd = conn[h].cmd,
           conn'[h].at <= now, conn'[h].pc \in Acquired => h \in slots,
           \A g \in Handlers :
               g # h /\ Executing(g) => entry'[conn[g].cmd.key] = entry[conn[g].cmd.key],
           Owns(h)'
    PROVE  OwnInv' /\ SlotsReturned' /\ ExclusiveExecution'
  <1>1. Executing(h)'
    BY DEF Executing
  <1>2. \A g \in Handlers : g # h /\ Executing(g) => conn[g].cmd.key # conn'[h].cmd.key
    BY DEF ControlInv, ExclusiveExecution
  <1>3. slots' \subseteq Handlers
    BY DEF ControlInv, TypeOK
  <1>. QED
    BY <1>1, <1>2, <1>3, OwnFrame

LEMMA WaitControl ==
    ASSUME ControlInv, NEW h \in Handlers, Wake(h) \/ WaitTimeout(h)
    PROVE  ControlInv'
  <1>1. /\ TypeOK /\ status = "up" /\ conn[h].pc = "wait" /\ Return(h)
        /\ UNCHANGED <<status, now, entry, rules, file, requests, crashes>>
    BY DEF Wake, WaitTimeout, At, ControlInv
  <1>2. conn[h].cmd \in Commands /\ conn[h].cmd.key \in Keys
    BY <1>1, NotIdle, LocalsType DEF Stages
  <1>3. entry[conn[h].cmd.key] # NoEntry => entry[conn[h].cmd.key] \in EntryType
    BY <1>1, <1>2 DEF TypeOK
  <1>4. released' \subseteq [cmd: Commands, ack: AckType]
    BY <1>1, <1>2, <1>3 DEF Wake, WaitTimeout, TypeOK, EntryType
  <1>5. ConnTyped' /\ slots' \subseteq Handlers /\ OwnInv' /\ SlotsReturned' /\ ExclusiveExecution'
    BY <1>1, ReturnControl
  <1>6. TypeOK'
    BY <1>1, <1>4, <1>5 DEF TypeOK, ConnTyped
  <1>. QED
    BY <1>5, <1>6 DEF ControlInv

-----------------------------------------------------------------------------
(* What the steps of an execution do.                                      *)

(* The goroutine that executes a command, before the step.                 *)
LEMMA ExecutorFacts ==
    ASSUME ControlInv, NEW h \in Handlers, conn[h].pc \in Stages \ {"wait"}
    PROVE  /\ TypeOK /\ status = "up" /\ conn[h] # Idle /\ Executing(h) /\ Owns(h)
           /\ conn[h] \in ConnType /\ conn[h].cmd \in Commands
           /\ conn[h].cmd.key \in Keys /\ conn[h].cmd.target \in Targets
           /\ conn[h].cmd.until \in Nat
           /\ conn[h].req \in Nat /\ conn[h].ack \in AckType /\ conn[h].snap \in FileType
           /\ now \in Nat /\ conn[h].at \in Nat /\ conn[h].at <= now
           /\ entry[conn[h].cmd.key] \in EntryType
           /\ \A g \in Handlers : g # h /\ Executing(g) => conn[g].cmd.key # conn[h].cmd.key
  <1>1. TypeOK /\ conn[h] # Idle /\ Executing(h)
    BY NotIdle DEF ControlInv, Executing
  <1>2. /\ status = "up" /\ Owns(h) /\ now \in Nat /\ conn[h].at <= now
        /\ \A g \in Handlers : g # h /\ Executing(g) => conn[g].cmd.key # conn[h].cmd.key
    BY <1>1 DEF ControlInv, OwnInv, TypeOK, ExclusiveExecution
  <1>3. entry[conn[h].cmd.key] \in EntryType
    BY <1>1, <1>2, LocalsType DEF TypeOK, Owns
  <1>. QED
    BY <1>1, <1>2, <1>3, LocalsType, CommandFacts

(* The step keeps the command, and ends in s.                              *)
Moves(h, s) ==
    /\ ConnTyped' /\ Same(h) /\ conn'[h] # Idle
    /\ conn'[h].pc = s /\ conn'[h].cmd = conn[h].cmd /\ conn'[h].req = conn[h].req

LEMMA AcquireEffect ==
    ASSUME ControlInv, NEW h \in Handlers, Acquire(h)
    PROVE  /\ conn[h].pc = "slot"
           /\ UNCHANGED <<status, now, entry, rules, file, requests, crashes, released>>
           /\ \/ /\ Moves(h, "abandon") /\ conn'[h].at = conn[h].at
                 /\ slots' \in {slots, slots \cup {h}}
              \/ /\ Moves(h, "ack") /\ conn'[h].at = now
                 /\ conn'[h].ack = [outcome |-> "already_expired", until |-> conn[h].cmd.until,
                                    req |-> conn[h].req, at |-> now]
                 /\ slots' = slots \cup {h} /\ conn[h].cmd.until <= now
              \/ /\ Moves(h, "install") /\ conn'[h].at = now /\ slots' = slots \cup {h}
                 /\ now < conn[h].cmd.until /\ conn[h].cmd.until <= now + MaxDeny
           /\ slots' # slots => Cardinality(slots) < MaxCommands
  <1>. DEFINE ack == [outcome |-> "already_expired", until |-> conn[h].cmd.until,
                      req |-> conn[h].req, at |-> now]
  <1>1. /\ conn[h].pc = "slot" /\ {"slot", "abandon", "ack", "install"} \subseteq Stages \ {"wait"}
        /\ UNCHANGED <<status, now, entry, rules, file, requests, crashes, released>>
    BY DEF Acquire, At, Stages
  <1>2. ack \in AckType
    BY <1>1, ExecutorFacts, AckTypes
  <1>3. /\ TypeOK /\ conn[h] # Idle /\ conn[h] \in ConnType /\ conn[h].ack \in AckType
        /\ now \in Nat
    BY <1>1, ExecutorFacts
  <1>4. CASE Goto(h, "abandon")
    BY <1>1, <1>3, <1>4, GotoFacts DEF Acquire, Moves
  <1>5. CASE /\ Cardinality(slots) < MaxCommands /\ slots' = slots \cup {h}
             /\ conn' = [conn EXCEPT ![h].pc = "ack", ![h].at = now, ![h].ack = ack]
             /\ conn[h].cmd.until <= now
    <2>1. Moves(h, "ack") /\ conn'[h].at = now /\ conn'[h].ack = ack
      BY <1>1, <1>2, <1>3, <1>5, AckFacts DEF Moves, Stages
    <2>. QED
      BY <1>1, <1>5, <2>1
  <1>6. CASE /\ Cardinality(slots) < MaxCommands /\ slots' = slots \cup {h}
             /\ conn' = [conn EXCEPT ![h].pc = "install", ![h].at = now]
             /\ now < conn[h].cmd.until /\ conn[h].cmd.until <= now + MaxDeny
    <2>1. conn' = [conn EXCEPT ![h].pc = "install", ![h].at = now, ![h].ack = conn[h].ack]
      BY <1>3, <1>6 DEF ConnType, TypeOK
    <2>2. Moves(h, "install") /\ conn'[h].at = now
      BY <1>1, <1>3, <2>1, AckFacts DEF Moves, Stages
    <2>. QED
      BY <1>1, <1>6, <2>2
  <1>. QED
    BY <1>4, <1>5, <1>6 DEF Acquire

(* Cleaned with a time read in the past, no rule loses its deadline.       *)
RulesKept == \A t \in Targets : rules[t] > now => rules'[t] >= rules[t]

LEMMA InstallEffect ==
    ASSUME ControlInv, NEW h \in Handlers, Install(h)
    PROVE  /\ conn[h].pc = "install"
           /\ UNCHANGED <<status, now, entry, slots, file, requests, crashes, released>>
           /\ rules' \in [Targets -> Nat] /\ RulesKept
           /\ conn'[h].at = conn[h].at
           /\ \/ Moves(h, "abandon") /\ rules' = CleanRules(conn[h].at)
              \/ /\ Moves(h, "ack")
                 /\ conn'[h].ack = [outcome |-> "applied", until |-> conn[h].cmd.until,
                                    req |-> conn[h].req, at |-> conn[h].at]
                 /\ rules'[conn[h].cmd.target] >= conn[h].cmd.until
                 /\ rules' = [CleanRules(conn[h].at) EXCEPT
                                 ![conn[h].cmd.target] = Later(@, conn[h].cmd.until)]
  <1>. DEFINE c == conn[h].cmd
              kept == CleanRules(conn[h].at)
              ack == [outcome |-> "applied", until |-> c.until,
                      req |-> conn[h].req, at |-> conn[h].at]
  <1>1. /\ conn[h].pc = "install" /\ {"install", "abandon", "ack"} \subseteq Stages \ {"wait"}
        /\ UNCHANGED <<status, now, entry, slots, file, requests, crashes, released>>
    BY DEF Install, At, Stages
  <1>2. /\ TypeOK /\ conn[h] # Idle /\ conn[h] \in ConnType
        /\ c \in Commands /\ c.target \in Targets /\ c.until \in Nat
        /\ conn[h].at \in Nat /\ now \in Nat /\ conn[h].at <= now
        /\ rules \in [Targets -> Nat]
    BY <1>1, ExecutorFacts DEF TypeOK
  <1>3. ack \in AckType
    BY <1>1, ExecutorFacts, AckTypes
  <1>4. /\ kept \in [Targets -> Nat]
        /\ \A t \in Targets : rules[t] > now => kept[t] = rules[t]
    BY <1>2, CleanRulesFacts
  <1>. HIDE DEF kept
  <1>5. CASE /\ rules' = [kept EXCEPT ![c.target] = Later(@, c.until)]
             /\ conn' = [conn EXCEPT ![h].pc = "ack", ![h].ack = ack]
    <2>1. conn' = [conn EXCEPT ![h].pc = "ack", ![h].at = conn[h].at, ![h].ack = ack]
      BY <1>2, <1>5 DEF ConnType, TypeOK
    <2>2. Moves(h, "ack") /\ conn'[h].ack = ack /\ conn'[h].at = conn[h].at
      BY <1>1, <1>2, <1>3, <2>1, AckFacts DEF Moves, Stages
    <2>3. /\ rules' \in [Targets -> Nat] /\ rules'[c.target] >= c.until
          /\ \A t \in Targets : rules'[t] >= kept[t]
      BY <1>2, <1>4, <1>5 DEF Later
    <2>4. RulesKept
      BY <1>2, <1>4, <2>3 DEF RulesKept
    <2>. QED
      BY <1>1, <1>5, <2>2, <2>3, <2>4 DEF kept
  <1>6. CASE rules' = kept /\ Goto(h, "abandon")
    <2>1. Moves(h, "abandon") /\ conn'[h].at = conn[h].at
      BY <1>1, <1>2, <1>6, GotoFacts DEF Moves
    <2>2. RulesKept
      BY <1>2, <1>4, <1>6 DEF RulesKept
    <2>. QED
      BY <1>1, <1>4, <1>6, <2>1, <2>2 DEF kept
  <1>. QED
    BY <1>5, <1>6 DEF Install, kept

LEMMA SetAckEffect ==
    ASSUME ControlInv, NEW h \in Handlers, SetAck(h)
    PROVE  /\ conn[h].pc = "ack" /\ Moves(h, "snapRules")
           /\ conn'[h].ack = conn[h].ack /\ conn'[h].at = conn[h].at
           /\ UNCHANGED <<status, now, rules, slots, file, requests, crashes, released>>
           /\ entry' = [entry EXCEPT ![conn[h].cmd.key] =
                           [@ EXCEPT !.ack = conn[h].ack, !.expires = Expiry(conn[h].ack)]]
  <1>1. conn[h].pc = "ack" /\ {"ack", "snapRules"} \subseteq Stages \ {"wait"}
    BY DEF SetAck, At, Stages
  <1>2. TypeOK /\ conn[h] # Idle /\ Owns(h)
    BY <1>1, ExecutorFacts
  <1>3. Goto(h, "snapRules")
    BY <1>2 DEF SetAck
  <1>. QED
    BY <1>1, <1>2, <1>3, GotoFacts DEF SetAck, Moves

LEMMA SnapshotRulesEffect ==
    ASSUME ControlInv, NEW h \in Handlers, SnapshotRules(h)
    PROVE  /\ conn[h].pc = "snapRules" /\ Moves(h, "snapIdem")
           /\ conn'[h].ack = conn[h].ack /\ conn'[h].at = conn[h].at
           /\ UNCHANGED <<status, now, entry, slots, file, requests, crashes, released>>
           /\ rules' \in [Targets -> Nat] /\ RulesKept
           /\ rules' = CleanRules(conn[h].at)
           /\ conn'[h].snap.rules = rules'
  <1>1. conn[h].pc = "snapRules" /\ "snapRules" \in Stages \ {"wait"}
    BY DEF SnapshotRules, At, Stages
  <1>2. /\ TypeOK /\ conn[h] # Idle
        /\ conn[h].at \in Nat /\ now \in Nat /\ conn[h].at <= now
        /\ rules \in [Targets -> Nat]
    BY <1>1, ExecutorFacts DEF TypeOK
  <1>3. /\ rules' \in [Targets -> Nat]
        /\ \A t \in Targets : rules[t] > now => rules'[t] = rules[t]
    BY <1>2, CleanRulesFacts DEF SnapshotRules
  <1>4. RulesKept
    BY <1>2, <1>3 DEF RulesKept
  <1>. QED
    BY <1>1, <1>2, <1>3, <1>4, SnapRulesFacts DEF SnapshotRules, Moves

(* The acknowledgements that are saved.                                    *)
SavedKeys(h) ==
    {k \in Keys : /\ entry'[k] # NoEntry
                  /\ entry'[k].ack # NoAck
                  /\ entry'[k].expires > conn[h].at}

Saves(h) ==
    {[key |-> k, cmd |-> entry'[k].cmd, ack |-> entry'[k].ack, expires |-> entry'[k].expires] :
       k \in SavedKeys(h)}

LEMMA SnapshotIdempotencyEffect ==
    ASSUME ControlInv, NEW h \in Handlers, SnapshotIdempotency(h)
    PROVE  /\ conn[h].pc = "snapIdem" /\ Moves(h, "write")
           /\ conn'[h].ack = conn[h].ack /\ conn'[h].at = conn[h].at
           /\ UNCHANGED <<status, now, rules, slots, file, requests, crashes, released>>
           /\ entry' = CleanEntries(conn[h].at)
           /\ entry' \in [Keys -> EntryType \cup {NoEntry}]
           /\ conn'[h].snap.rules = conn[h].snap.rules
           /\ conn'[h].snap.idem = Saves(h)
  <1>1. conn[h].pc = "snapIdem" /\ "snapIdem" \in Stages \ {"wait"}
    BY DEF SnapshotIdempotency, At, Stages
  <1>2. TypeOK /\ conn[h] # Idle
    BY <1>1, ExecutorFacts
  <1>3. entry' = CleanEntries(conn[h].at) /\ entry' \in [Keys -> EntryType \cup {NoEntry}]
    BY <1>2, CleanEntriesFacts DEF SnapshotIdempotency
  <1>4. ASSUME NEW k \in SavedKeys(h)
        PROVE  [key |-> k, cmd |-> entry'[k].cmd, ack |-> entry'[k].ack,
                expires |-> entry'[k].expires] \in IdemType
    <2>1. k \in Keys /\ entry'[k] \in EntryType
      BY <1>3, <1>4 DEF SavedKeys
    <2>. QED
      BY <2>1 DEF EntryType, IdemType
  <1>5. Saves(h) \subseteq IdemType
    BY <1>4 DEF Saves
  <1>6. conn' = [conn EXCEPT ![h].pc = "write", ![h].snap.idem = Saves(h)]
    BY DEF SnapshotIdempotency, Saves, SavedKeys
  <1>. QED
    BY <1>1, <1>2, <1>3, <1>5, <1>6, SnapIdemFacts DEF SnapshotIdempotency, Moves

LEMMA WriteEffect ==
    ASSUME ControlInv, NEW h \in Handlers, Write(h) \/ WriteFails(h)
    PROVE  /\ conn[h].pc = "write"
           /\ \/ Moves(h, "complete") /\ file' = conn[h].snap
              \/ Moves(h, "abandon") /\ file' \in {file, conn[h].snap}
           /\ conn'[h].ack = conn[h].ack /\ conn'[h].at = conn[h].at
           /\ UNCHANGED <<status, now, entry, rules, slots, requests, crashes, released>>
  <1>1. conn[h].pc = "write" /\ {"write", "complete", "abandon"} \subseteq Stages \ {"wait"}
    BY DEF Write, WriteFails, At, Stages
  <1>2. TypeOK /\ conn[h] # Idle
    BY <1>1, ExecutorFacts
  <1>. QED
    BY <1>1, <1>2, GotoFacts DEF Write, WriteFails, Moves

LEMMA CompleteEffect ==
    ASSUME ControlInv, NEW h \in Handlers, Complete(h)
    PROVE  /\ conn[h].pc = "complete" /\ Return(h)
           /\ UNCHANGED <<status, now, rules, file, requests, crashes>>
           /\ \/ /\ entry' = [entry EXCEPT ![conn[h].cmd.key] = [@ EXCEPT !.completed = TRUE]]
                 /\ released' = released \cup {[cmd |-> conn[h].cmd, ack |-> conn[h].ack]}
                 /\ entry[conn[h].cmd.key].ack # NoAck
              \/ UNCHANGED <<entry, released>> /\ entry[conn[h].cmd.key].ack = NoAck
  <1>1. conn[h].pc = "complete" /\ "complete" \in Stages \ {"wait"}
    BY DEF Complete, At, Stages
  <1>. QED
    BY <1>1, ExecutorFacts DEF Complete

LEMMA AbandonEffect ==
    ASSUME ControlInv, NEW h \in Handlers, Abandon(h)
    PROVE  /\ conn[h].pc = "abandon" /\ Return(h)
           /\ UNCHANGED <<status, now, rules, file, requests, crashes, released>>
           /\ entry' = [entry EXCEPT ![conn[h].cmd.key] = NoEntry]
  <1>1. conn[h].pc = "abandon" /\ "abandon" \in Stages \ {"wait"}
    BY DEF Abandon, At, Stages
  <1>. QED
    BY <1>1, ExecutorFacts DEF Abandon

-----------------------------------------------------------------------------
(* Every step keeps ControlInv.                                            *)

LEMMA AcquireControl ==
    ASSUME ControlInv, NEW h \in Handlers, Acquire(h)
    PROVE  ControlInv'
  <1>1. conn[h].pc = "slot" /\ "slot" \in Stages \ {"wait"}
    BY AcquireEffect DEF Stages
  <1>2. /\ TypeOK /\ status = "up" /\ Executing(h) /\ Owns(h)
        /\ conn[h].at <= now /\ now \in Nat
        /\ \A g \in Handlers : g # h /\ Executing(g) => conn[g].cmd.key # conn[h].cmd.key
    BY <1>1, ExecutorFacts
  <1>3. /\ UNCHANGED <<status, now, entry, rules, file, requests, crashes, released>>
        /\ ConnTyped' /\ Same(h) /\ conn'[h] # Idle /\ conn'[h].cmd = conn[h].cmd
        /\ conn'[h].pc \in {"abandon", "ack", "install"}
        /\ conn'[h].at <= now
        /\ slots' \in {slots, slots \cup {h}}
        /\ conn'[h].pc \in Acquired => h \in slots'
    <2>0. UNCHANGED <<status, now, entry, rules, file, requests, crashes, released>>
      BY AcquireEffect
    <2>1. CASE /\ Moves(h, "abandon") /\ conn'[h].at = conn[h].at
               /\ slots' \in {slots, slots \cup {h}}
      BY <1>2, <2>0, <2>1 DEF Moves, Acquired
    <2>2. CASE Moves(h, "ack") /\ conn'[h].at = now /\ slots' = slots \cup {h}
      BY <1>2, <2>0, <2>2 DEF Moves
    <2>3. CASE Moves(h, "install") /\ conn'[h].at = now /\ slots' = slots \cup {h}
      BY <1>2, <2>0, <2>3 DEF Moves
    <2>. QED
      BY <2>1, <2>2, <2>3, AcquireEffect
  <1>4. TypeOK'
    BY <1>2, <1>3 DEF TypeOK, ConnTyped
  <1>5. Owns(h)' /\ Executing(h)'
    BY <1>2, <1>3 DEF Owns, Executing, Stages
  <1>6. slots' \subseteq Handlers
    BY <1>4 DEF TypeOK
  <1>7. OwnInv' /\ SlotsReturned' /\ ExclusiveExecution'
    BY <1>2, <1>3, <1>5, <1>6, OwnFrame
  <1>. QED
    BY <1>4, <1>7 DEF ControlInv

(* The steps between acquireCommand and the return.                        *)
LEMMA ExecuteControl ==
    ASSUME ControlInv, NEW h \in Handlers,
           \/ Install(h) \/ SetAck(h) \/ SnapshotRules(h)
           \/ SnapshotIdempotency(h) \/ Write(h) \/ WriteFails(h)
    PROVE  ControlInv'
  <1>. DEFINE k == conn[h].cmd.key
  <1>1. /\ conn[h].pc \in {"install", "ack", "snapRules", "snapIdem", "write"}
        /\ UNCHANGED <<status, now, slots, requests, crashes, released>>
        /\ ConnTyped' /\ Same(h) /\ conn'[h] # Idle /\ conn'[h].cmd = conn[h].cmd
        /\ conn'[h].pc \in Stages \ {"wait"}
        /\ conn'[h].at = conn[h].at
    <2>1. CASE Install(h)
      BY <2>1, InstallEffect DEF Moves, Stages
    <2>2. CASE SetAck(h)
      BY <2>2, SetAckEffect DEF Moves, Stages
    <2>3. CASE SnapshotRules(h)
      BY <2>3, SnapshotRulesEffect DEF Moves, Stages
    <2>4. CASE SnapshotIdempotency(h)
      BY <2>4, SnapshotIdempotencyEffect DEF Moves, Stages
    <2>5. CASE Write(h) \/ WriteFails(h)
      BY <2>5, WriteEffect DEF Moves, Stages
    <2>. QED
      BY <2>1, <2>2, <2>3, <2>4, <2>5
  <1>2. conn[h].pc \in Stages \ {"wait"} /\ conn[h].pc \in Acquired
    BY <1>1 DEF Stages, Acquired
  <1>3. /\ TypeOK /\ status = "up" /\ Executing(h) /\ Owns(h) /\ conn[h].at <= now
        /\ k \in Keys /\ entry[k] \in EntryType
        /\ conn[h].ack \in AckType /\ conn[h].snap \in FileType
        /\ h \in slots
        /\ \A g \in Handlers : g # h /\ Executing(g) => conn[g].cmd.key # k
    BY <1>2, ExecutorFacts DEF ControlInv, OwnInv
  <1>4. rules' \in [Targets -> Nat] /\ file' \in FileType
    BY <1>3, InstallEffect, SetAckEffect, SnapshotRulesEffect, SnapshotIdempotencyEffect,
       WriteEffect DEF TypeOK
  <1>5. /\ entry' \in [Keys -> EntryType \cup {NoEntry}]
        /\ \A g \in Handlers : Executing(g) /\ g # h =>
              entry'[conn[g].cmd.key] = entry[conn[g].cmd.key]
        /\ entry'[k] # NoEntry /\ entry'[k].cmd = entry[k].cmd /\ ~entry'[k].completed
    <2>1. CASE entry' = entry
      BY <1>3, <2>1 DEF TypeOK, Owns
    <2>2. CASE SetAck(h)
      <3>. DEFINE new == [entry[k] EXCEPT !.ack = conn[h].ack, !.expires = Expiry(conn[h].ack)]
      <3>1. /\ new \in EntryType /\ new.cmd = entry[k].cmd /\ new.completed = entry[k].completed
            /\ new # NoEntry
        BY <1>3, ExpiryFacts DEF EntryType, NoEntry
      <3>2. entry' = [entry EXCEPT ![k] = new]
        BY <2>2, SetAckEffect
      <3>. HIDE DEF new
      <3>3. entry'[k] = new /\ \A j \in Keys : j # k => entry'[j] = entry[j]
        BY <1>3, <3>2 DEF TypeOK
      <3>. QED
        BY <1>3, <3>1, <3>2, <3>3, NotIdle, LocalsType DEF TypeOK, Owns, Executing
    <2>3. CASE SnapshotIdempotency(h)
      BY <1>3, <2>3, SnapshotIdempotencyEffect, CleanKeepsOwned DEF Owns
    <2>. QED
      BY <2>1, <2>2, <2>3, InstallEffect, SnapshotRulesEffect, WriteEffect
  <1>6. TypeOK'
    BY <1>1, <1>3, <1>4, <1>5 DEF TypeOK, ConnTyped
  <1>7. Owns(h)'
    BY <1>1, <1>3, <1>5 DEF Owns
  <1>8. OwnInv' /\ SlotsReturned' /\ ExclusiveExecution'
    BY <1>1, <1>3, <1>5, <1>7, MoveControl
  <1>. QED
    BY <1>6, <1>8 DEF ControlInv

LEMMA FinishControl ==
    ASSUME ControlInv, NEW h \in Handlers, Complete(h) \/ Abandon(h)
    PROVE  ControlInv'
  <1>. DEFINE k == conn[h].cmd.key
  <1>1. /\ conn[h].pc \in Stages \ {"wait"} /\ Return(h)
        /\ UNCHANGED <<status, now, rules, file, requests, crashes>>
    BY CompleteEffect, AbandonEffect DEF Stages
  <1>2. /\ TypeOK /\ status = "up" /\ k \in Keys /\ entry[k] \in EntryType
        /\ conn[h].cmd \in Commands /\ conn[h].ack \in AckType
        /\ \A g \in Handlers : g # h /\ Executing(g) => conn[g].cmd.key # k
    BY <1>1, ExecutorFacts
  <1>3. /\ entry' \in [Keys -> EntryType \cup {NoEntry}]
        /\ \A j \in Keys : j # k => entry'[j] = entry[j]
        /\ released' \subseteq [cmd: Commands, ack: AckType]
    <2>1. [entry[k] EXCEPT !.completed = TRUE] \in EntryType
      BY <1>2 DEF EntryType
    <2>. QED
      BY <1>2, <2>1, CompleteEffect, AbandonEffect DEF TypeOK
  <1>4. \A g \in Handlers : g # h /\ Executing(g) => entry'[conn[g].cmd.key] = entry[conn[g].cmd.key]
    BY <1>2, <1>3, NotIdle, LocalsType DEF Executing
  <1>5. ConnTyped' /\ slots' \subseteq Handlers /\ OwnInv' /\ SlotsReturned' /\ ExclusiveExecution'
    BY <1>1, <1>2, <1>4, ReturnControl
  <1>6. TypeOK'
    BY <1>1, <1>2, <1>3, <1>5 DEF TypeOK, ConnTyped
  <1>. QED
    BY <1>5, <1>6 DEF ControlInv

(* A restart restores what is in the file.                                 *)
LEMMA RestartEffect ==
    ASSUME TypeOK, Restart
    PROVE  /\ status = "down" /\ status' = "up"
           /\ UNCHANGED <<now, slots, file, conn, requests, crashes, released>>
           /\ rules' \in [Targets -> Nat]
           /\ rules' = [t \in Targets |-> IF file.rules[t] > now THEN file.rules[t] ELSE 0]
           /\ \A t \in Targets : file.rules[t] > now => rules'[t] = file.rules[t]
           /\ entry' \in [Keys -> EntryType \cup {NoEntry}]
           /\ \A k \in Keys :
                IF \E i \in file.idem : i.key = k
                THEN \E i \in file.idem :
                       /\ i.key = k
                       /\ entry'[k] = [req |-> i.ack.req, cmd |-> i.cmd, ack |-> i.ack,
                                       completed |-> TRUE, expires |-> i.expires]
                ELSE entry'[k] = NoEntry
  <1>1. file.rules \in [Targets -> Nat] /\ file.idem \subseteq IdemType
    BY DEF TypeOK, FileType
  <1>2. /\ status = "down" /\ status' = "up"
        /\ UNCHANGED <<now, slots, file, conn, requests, crashes, released>>
        /\ rules' \in [Targets -> Nat]
        /\ rules' = [t \in Targets |-> IF file.rules[t] > now THEN file.rules[t] ELSE 0]
        /\ \A t \in Targets : file.rules[t] > now => rules'[t] = file.rules[t]
    BY <1>1 DEF Restart, LiveRules
  <1>3. DOMAIN entry' = Keys /\ entry' = [k \in Keys |-> entry'[k]]
    BY DEF Restart
  <1>4. ASSUME NEW k \in Keys
        PROVE  /\ entry'[k] \in EntryType \cup {NoEntry}
               /\ IF \E i \in file.idem : i.key = k
                  THEN \E i \in file.idem :
                         /\ i.key = k
                         /\ entry'[k] = [req |-> i.ack.req, cmd |-> i.cmd, ack |-> i.ack,
                                         completed |-> TRUE, expires |-> i.expires]
                  ELSE entry'[k] = NoEntry
    <2>1. CASE \E i \in file.idem : i.key = k
      <3>. DEFINE i == CHOOSE x \in file.idem : x.key = k
      <3>1. i \in file.idem /\ i.key = k
        BY <2>1
      <3>2. entry'[k] = [req |-> i.ack.req, cmd |-> i.cmd, ack |-> i.ack,
                         completed |-> TRUE, expires |-> i.expires]
        BY <2>1 DEF Restart
      <3>. HIDE DEF i
      <3>3. i \in IdemType
        BY <1>1, <3>1
      <3>4. entry'[k] \in EntryType
        BY <3>2, <3>3 DEF IdemType, EntryType, AckType
      <3>. QED
        BY <3>1, <3>2, <3>4
    <2>2. CASE ~\E i \in file.idem : i.key = k
      <3>1. entry'[k] = NoEntry
        BY <2>2 DEF Restart
      <3>. QED
        BY <2>2, <3>1
    <2>. QED
      BY <2>1, <2>2
  <1>5. entry' \in [Keys -> EntryType \cup {NoEntry}]
    BY <1>3, <1>4
  <1>. QED
    BY <1>2, <1>4, <1>5

LEMMA ProcessControl ==
    ASSUME ControlInv, Crash \/ Restart \/ RefuseToStart \/ Tick
    PROVE  ControlInv'
  <1>1. CASE Crash
    <2>1. TypeOK'
      BY <1>1 DEF ControlInv, TypeOK, Crash
    <2>2. \A h \in Handlers : conn'[h] = Idle /\ ~Executing(h)' /\ conn'[h].pc \notin Acquired
      BY <1>1 DEF Crash, Executing, Idle, Stages, Acquired
    <2>3. OwnInv' /\ SlotsReturned' /\ ExclusiveExecution'
      BY <1>1, <2>2 DEF OwnInv, SlotsReturned, ExclusiveExecution, Crash
    <2>. QED
      BY <2>1, <2>3 DEF ControlInv
  <1>2. CASE Restart
    <2>1. TypeOK'
      BY <1>2, RestartEffect DEF ControlInv, TypeOK
    <2>2. \A h \in Handlers : conn'[h] = Idle
      BY <1>2, RestartEffect DEF ControlInv, OwnInv
    <2>3. \A h \in Handlers : ~Executing(h)' /\ conn'[h].pc \notin Acquired /\ ~Executing(h)
      BY <1>2, <2>2, RestartEffect DEF Executing, Idle, Stages, Acquired, ControlInv
    <2>4. OwnInv' /\ ExclusiveExecution'
      BY <2>2, <2>3, <1>2, RestartEffect DEF OwnInv, ExclusiveExecution, ControlInv
    <2>5. SlotsReturned'
      BY <2>3, <1>2, RestartEffect DEF SlotsReturned, ControlInv, TypeOK
    <2>. QED
      BY <2>1, <2>4, <2>5 DEF ControlInv
  <1>3. CASE RefuseToStart
    BY <1>3 DEF RefuseToStart, ControlInv, TypeOK, OwnInv, SlotsReturned, ExclusiveExecution,
                Executing, Owns
  <1>4. CASE Tick
    <2>1. TypeOK' /\ now \in Nat /\ now' = now + 1
      BY <1>4 DEF Tick, ControlInv, TypeOK
    <2>2. \A h \in Handlers : conn[h] # Idle => conn[h].at <= now'
      BY <2>1, LocalsType DEF ControlInv, OwnInv
    <2>. QED
      BY <1>4, <2>1, <2>2 DEF Tick, ControlInv, OwnInv, SlotsReturned, ExclusiveExecution,
                              Executing, Owns
  <1>. QED
    BY <1>1, <1>2, <1>3, <1>4

LEMMA ControlStep == ControlInv /\ [Next]_vars => ControlInv'
  <1>. SUFFICES ASSUME ControlInv, [Next]_vars PROVE ControlInv'
    OBVIOUS
  <1>1. CASE UNCHANGED vars
    BY <1>1 DEF vars, ControlInv, TypeOK, OwnInv, SlotsReturned, ExclusiveExecution, Executing, Owns
  <1>2. CASE Next
    BY <1>2, BeginControl, WaitControl, AcquireControl, ExecuteControl, FinishControl,
       ProcessControl DEF Next, Step
  <1>. QED
    BY <1>1, <1>2

LEMMA ControlInit == Init => ControlInv
  <1>. SUFFICES ASSUME Init PROVE ControlInv
    OBVIOUS
  <1>1. \A h \in Handlers : conn[h] = Idle /\ ~Executing(h) /\ conn[h].pc \notin Acquired
    BY DEF Init, Executing, Idle, Stages, Acquired
  <1>2. TypeOK
    BY ConstantTypes DEF Init, TypeOK
  <1>. QED
    BY <1>1, <1>2 DEF Init, ControlInv, OwnInv, SlotsReturned, ExclusiveExecution

(* In every reachable state, whatever the connections, commands, limits,   *)
(* failed writes and crashes.                                              *)
LEMMA ControlAlways == Spec => []ControlInv
  BY ControlInit, ControlStep, PTL DEF Spec

(* beginRevocation gives the authority to execute a message id to one      *)
(* connection at a time.                                                   *)
THEOREM ExecutionExclusive == Spec => []ExclusiveExecution
  <1>1. ControlInv => ExclusiveExecution
    BY DEF ControlInv
  <1>. QED
    BY <1>1, ControlAlways, PTL

(* Only installRevocation and the snapshot of the rules change a rule      *)
(* while the process lives.                                                *)
LEMMA RulesStep ==
    ASSUME ControlInv, [Next]_vars, status = "up", status' = "up"
    PROVE  RulesKept
  <1>0. ASSUME UNCHANGED rules PROVE RulesKept
    BY <1>0 DEF RulesKept, ControlInv, TypeOK
  <1>1. CASE UNCHANGED vars \/ Crash \/ Restart \/ RefuseToStart \/ Tick
    BY <1>0, <1>1 DEF vars, Crash, Restart, RefuseToStart, Tick
  <1>2. ASSUME NEW h \in Handlers, NEW c \in Commands, Begin(h, c) PROVE RulesKept
    BY <1>0, <1>2 DEF Begin
  <1>3. ASSUME NEW h \in Handlers, Step(h) \/ WaitTimeout(h) \/ WriteFails(h) PROVE RulesKept
    <2>1. CASE Install(h) \/ SnapshotRules(h)
      BY <2>1, InstallEffect, SnapshotRulesEffect
    <2>2. CASE ~(Install(h) \/ SnapshotRules(h))
      BY <1>0, <1>3, <2>2 DEF Step, Wake, Acquire, SetAck, SnapshotIdempotency, Write, Complete,
                             Abandon, WaitTimeout, WriteFails
    <2>. QED
      BY <2>1, <2>2
  <1>. QED
    BY <1>1, <1>2, <1>3 DEF Next

(* While the process lives no deny rule loses a deadline that has not      *)
(* passed, although cleanupLocked runs with a time read before it took the *)
(* mutex: that time is in the past (OwnInv), and installRevocation keeps   *)
(* the later of two deadlines.                                             *)
THEOREM RulesAlwaysExtended == Spec => RulesOnlyExtended
  <1>1. ControlInv /\ [Next]_vars
          => [status = "up" /\ status' = "up" =>
                \A t \in Targets : rules[t] > now => rules'[t] >= rules[t]]_vars
    BY RulesStep DEF RulesKept
  <1>. QED
    BY <1>1, ControlAlways, PTL DEF Spec, RulesOnlyExtended

-----------------------------------------------------------------------------
(* The idempotency map, step by step.                                      *)

(* What goroutine h may do.                                                *)
Acts(h) ==
    (\E c \in Commands : Begin(h, c)) \/ Step(h) \/ WaitTimeout(h) \/ WriteFails(h)

(* A step of h leaves the goroutines of the others and the entries they    *)
(* own alone.                                                              *)
LEMMA OthersKept ==
    ASSUME ControlInv, NEW h \in Handlers, Acts(h)
    PROVE  /\ status = "up" /\ status' = "up" /\ now' = now /\ Same(h)
           /\ \A g \in Handlers :
                g # h /\ Executing(g) => entry'[conn[g].cmd.key] = entry[conn[g].cmd.key]
  <1>. DEFINE Kept == \A g \in Handlers :
                        g # h /\ Executing(g) => entry'[conn[g].cmd.key] = entry[conn[g].cmd.key]
  <1>0. TypeOK
    BY DEF ControlInv
  <1>1. ASSUME NEW c \in Commands, Begin(h, c)
        PROVE  status = "up" /\ status' = "up" /\ now' = now /\ Same(h) /\ Kept
    <2>. DEFINE kept == CleanEntries(now)
    <2>1. status = "up" /\ status' = "up" /\ now' = now /\ requests \in Nat /\ c.key \in Keys
      BY <1>0, <1>1, CommandFacts DEF Begin, TypeOK
    <2>2. Same(h)
      <3>1. CASE UNCHANGED conn
        BY <3>1 DEF Same
      <3>2. ASSUME NEW s, NEW req, Start(h, c, s, req) PROVE Same(h)
        BY <1>0, <3>2 DEF Same, Start, TypeOK
      <3>. QED
        BY <1>1, <3>1, <3>2 DEF Begin
    <2>3. \A g \in Handlers : Executing(g) =>
            /\ kept[conn[g].cmd.key] = entry[conn[g].cmd.key]
            /\ entry[conn[g].cmd.key] # NoEntry /\ conn[g].cmd.key \in Keys
      BY <1>0, CleanKeepsOwned, NotIdle, LocalsType DEF Executing, ControlInv, OwnInv, Owns
    <2>4. kept \in [Keys -> EntryType \cup {NoEntry}]
      BY <1>0, CleanEntriesFacts
    <2>5. \A j \in Keys : entry'[j] = kept[j] \/ (j = c.key /\ kept[j] = NoEntry)
      <3>. HIDE DEF kept
      <3>1. entry' = kept \/ (kept[c.key] = NoEntry /\ \E new : entry' = [kept EXCEPT ![c.key] = new])
        BY <1>1 DEF Begin, kept
      <3>. QED
        BY <2>1, <2>4, <3>1
    <2>. QED
      BY <2>1, <2>2, <2>3, <2>5
  <1>2. CASE Wake(h) \/ WaitTimeout(h)
    BY <1>0, <1>2, ReturnFacts DEF Wake, WaitTimeout, At
  <1>3. CASE Acquire(h) \/ Install(h) \/ SnapshotRules(h) \/ Write(h) \/ WriteFails(h)
    <2>1. conn[h].pc \in Stages \ {"wait"} /\ UNCHANGED <<status, now, entry>> /\ Same(h)
      BY <1>3, AcquireEffect, InstallEffect, SnapshotRulesEffect, WriteEffect DEF Moves, Stages
    <2>. QED
      BY <2>1, ExecutorFacts
  <1>4. CASE SnapshotIdempotency(h)
    <2>1. conn[h].pc \in Stages \ {"wait"} /\ UNCHANGED <<status, now>> /\ Same(h)
      BY <1>4, SnapshotIdempotencyEffect DEF Moves, Stages
    <2>. QED
      BY <1>4, <2>1, ExecutorFacts, SnapshotIdempotencyEffect, CleanKeepsOwned
  <1>5. CASE SetAck(h) \/ Complete(h) \/ Abandon(h)
    <2>1. /\ conn[h].pc \in Stages \ {"wait"} /\ UNCHANGED <<status, now>>
          /\ \/ UNCHANGED entry
             \/ \E new : entry' = [entry EXCEPT ![conn[h].cmd.key] = new]
      BY <1>5, SetAckEffect, CompleteEffect, AbandonEffect DEF Stages
    <2>2. Same(h)
      BY <1>0, <1>5, SetAckEffect, CompleteEffect, AbandonEffect, ReturnFacts DEF Moves
    <2>3. \A g \in Handlers : Executing(g) => conn[g].cmd.key \in Keys
      BY <1>0, NotIdle, LocalsType DEF Executing
    <2>4. \A g \in Handlers : g # h /\ Executing(g) => conn[g].cmd.key # conn[h].cmd.key
      BY <2>1, ExecutorFacts
    <2>. QED
      BY <1>0, <2>1, <2>2, <2>3, <2>4, ExecutorFacts DEF TypeOK
  <1>. QED
    BY <1>1, <1>2, <1>3, <1>4, <1>5 DEF Acts, Step

(* What may become of entry k: it expires, is begun anew, gets its         *)
(* acknowledgement, is completed or is abandoned.                          *)
Expired(k) == entry[k] # NoEntry /\ entry[k].completed /\ entry[k].expires <= now

Fresh(k) ==
    /\ entry[k] = NoEntry \/ Expired(k)
    /\ entry'[k] # NoEntry /\ entry'[k].cmd.key = k
    /\ entry'[k].ack = NoAck /\ ~entry'[k].completed

Own(h, k) == k = conn[h].cmd.key /\ entry[k] # NoEntry /\ ~entry[k].completed /\ entry[k].cmd = conn[h].cmd

LEMMA EntryEffect ==
    ASSUME ControlInv, NEW h \in Handlers, Acts(h), NEW k \in Keys
    PROVE  \/ entry'[k] = entry[k]
           \/ Expired(k) /\ entry'[k] = NoEntry
           \/ Fresh(k)
           \/ /\ SetAck(h) /\ Own(h, k) /\ entry'[k] # NoEntry
              /\ entry'[k] = [entry[k] EXCEPT !.ack = conn[h].ack, !.expires = Expiry(conn[h].ack)]
           \/ /\ Complete(h) /\ Own(h, k) /\ entry[k].ack # NoAck /\ entry'[k] # NoEntry
              /\ entry'[k] = [entry[k] EXCEPT !.completed = TRUE]
           \/ Abandon(h) /\ Own(h, k) /\ entry'[k] = NoEntry
  <1>0. TypeOK /\ entry \in [Keys -> EntryType \cup {NoEntry}]
    BY DEF ControlInv, TypeOK
  <1>1. ASSUME NEW time \in Nat, time <= now
        PROVE  CleanEntries(time)[k] = entry[k] \/ (Expired(k) /\ CleanEntries(time)[k] = NoEntry)
    <2>1. entry[k] # NoEntry => entry[k].expires \in Nat
      BY <1>0 DEF EntryType
    <2>2. now \in Nat
      BY <1>0 DEF TypeOK
    <2>. QED
      BY <1>0, <1>1, <2>1, <2>2, CleanEntriesFacts DEF Expired
  <1>2. ASSUME NEW c \in Commands, Begin(h, c)
        PROVE  \/ entry'[k] = entry[k]
               \/ Expired(k) /\ entry'[k] = NoEntry
               \/ Fresh(k)
    <2>. DEFINE kept == CleanEntries(now)
                new  == [req |-> requests + 1, cmd |-> c, ack |-> NoAck,
                         completed |-> FALSE, expires |-> now + TTL]
    <2>1. kept[k] = entry[k] \/ (Expired(k) /\ kept[k] = NoEntry)
      BY <1>0, <1>1 DEF TypeOK
    <2>2. kept \in [Keys -> EntryType \cup {NoEntry}] /\ c.key \in Keys
      BY <1>0, CleanEntriesFacts, CommandFacts
    <2>. HIDE DEF kept
    <2>3. entry' = kept \/ (kept[c.key] = NoEntry /\ entry' = [kept EXCEPT ![c.key] = new])
      BY <1>2 DEF Begin, kept
    <2>4. new # NoEntry /\ new.ack = NoAck /\ ~new.completed /\ new.cmd = c
      BY DEF NoEntry
    <2>. HIDE DEF new
    <2>. QED
      BY <2>1, <2>2, <2>3, <2>4 DEF Fresh
  <1>3. CASE \/ Wake(h) \/ WaitTimeout(h) \/ Acquire(h) \/ Install(h)
             \/ SnapshotRules(h) \/ Write(h) \/ WriteFails(h)
    BY <1>3 DEF Wake, WaitTimeout, Acquire, Install, SnapshotRules, Write, WriteFails
  <1>4. CASE SnapshotIdempotency(h)
    <2>1. conn[h].pc \in Stages \ {"wait"} /\ entry' = CleanEntries(conn[h].at)
      BY <1>4, SnapshotIdempotencyEffect DEF Stages
    <2>. QED
      BY <1>1, <2>1, ExecutorFacts
  <1>5. CASE SetAck(h) \/ Complete(h) \/ Abandon(h)
    <2>. DEFINE j == conn[h].cmd.key
    <2>1. conn[h].pc \in Stages \ {"wait"}
      BY <1>5, SetAckEffect, CompleteEffect, AbandonEffect DEF Stages
    <2>2. /\ j \in Keys /\ entry[j] \in EntryType /\ conn[h].ack \in AckType
          /\ Own(h, j)
      BY <2>1, ExecutorFacts DEF Owns, Own
    <2>3. CASE SetAck(h)
      <3>. DEFINE new == [entry[j] EXCEPT !.ack = conn[h].ack, !.expires = Expiry(conn[h].ack)]
      <3>1. new # NoEntry
        BY <2>2 DEF EntryType, NoEntry
      <3>2. entry' = [entry EXCEPT ![j] = new]
        BY <2>3, SetAckEffect
      <3>. QED
        BY <1>0, <2>2, <2>3, <3>1, <3>2
    <2>4. CASE Complete(h)
      <3>. DEFINE new == [entry[j] EXCEPT !.completed = TRUE]
      <3>1. new # NoEntry
        BY <2>2 DEF EntryType, NoEntry
      <3>2. entry' = entry \/ (entry' = [entry EXCEPT ![j] = new] /\ entry[j].ack # NoAck)
        BY <2>4, CompleteEffect
      <3>. QED
        BY <1>0, <2>2, <2>4, <3>1, <3>2
    <2>5. CASE Abandon(h)
      BY <1>0, <2>2, <2>5, AbandonEffect
    <2>. QED
      BY <1>5, <2>3, <2>4, <2>5
  <1>. QED
    BY <1>2, <1>3, <1>4, <1>5 DEF Acts, Step

(* Its shape is kept.                                                      *)
LEMMA EntriesShaped ==
    ASSUME ControlInv, ShapeInv, NEW h \in Handlers, Acts(h), NEW k \in Keys
    PROVE  EntryShape(k)'
  <1>0. /\ TypeOK /\ EntryShape(k) /\ LocalShape(h)
        /\ entry[k] # NoEntry => entry[k] \in EntryType
    BY DEF ControlInv, TypeOK, ShapeInv
  <1>1. CASE entry'[k] = entry[k] \/ entry'[k] = NoEntry
    BY <1>0, <1>1 DEF EntryShape, Made, Expiry
  <1>2. CASE Fresh(k)
    BY <1>2 DEF Fresh, EntryShape
  <1>3. CASE /\ SetAck(h) /\ Own(h, k)
             /\ entry'[k] = [entry[k] EXCEPT !.ack = conn[h].ack, !.expires = Expiry(conn[h].ack)]
    <2>1. conn[h].ack.outcome # "none"
      BY <1>0, <1>3, SetAckEffect DEF LocalShape, Acked
    <2>2. /\ entry'[k].ack = conn[h].ack /\ entry'[k].expires = Expiry(conn[h].ack)
          /\ entry'[k].cmd = entry[k].cmd /\ entry'[k].completed = entry[k].completed
      BY <1>0, <1>3 DEF EntryType, Own
    <2>3. Made(entry'[k].ack, entry'[k].expires)
      BY <2>1, <2>2 DEF Made
    <2>. QED
      BY <1>0, <1>3, <2>2, <2>3 DEF EntryShape, Own, Made, Expiry
  <1>4. CASE Complete(h) /\ Own(h, k) /\ entry[k].ack # NoAck
             /\ entry'[k] = [entry[k] EXCEPT !.completed = TRUE]
    <2>1. /\ entry'[k].ack = entry[k].ack /\ entry'[k].expires = entry[k].expires
          /\ entry'[k].cmd = entry[k].cmd
      BY <1>0, <1>4 DEF EntryType, Own
    <2>. QED
      BY <1>0, <1>4, <2>1 DEF EntryShape, Own, Made, Expiry
  <1>. QED
    BY <1>1, <1>2, <1>3, <1>4, EntryEffect

(* What persistentStateSnapshot saves is well kept.                        *)
LEMMA SavesWellKept ==
    ASSUME ControlInv, ShapeInv, NEW h \in Handlers, SnapshotIdempotency(h)
    PROVE  WellKept(Saves(h))
  <1>1. \A k \in Keys : EntryShape(k)'
    BY EntriesShaped DEF Acts, Step
  <1>2. ASSUME NEW i \in Saves(h)
        PROVE  /\ i.key \in SavedKeys(h)
               /\ i = [key |-> i.key, cmd |-> entry'[i.key].cmd, ack |-> entry'[i.key].ack,
                       expires |-> entry'[i.key].expires]
    BY DEF Saves
  <1>3. ASSUME NEW i \in Saves(h) PROVE i.key = i.cmd.key /\ Made(i.ack, i.expires)
    <2>1. i.key \in Keys /\ entry'[i.key] # NoEntry /\ entry'[i.key].ack # NoAck
      BY <1>2 DEF SavedKeys
    <2>2. i.cmd = entry'[i.key].cmd /\ i.ack = entry'[i.key].ack /\ i.expires = entry'[i.key].expires
      BY <1>2
    <2>3. entry'[i.key].cmd.key = i.key /\ Made(entry'[i.key].ack, entry'[i.key].expires)
      BY <1>1, <2>1 DEF EntryShape, Made, Expiry
    <2>. QED
      BY <2>2, <2>3
  <1>4. ASSUME NEW i \in Saves(h), NEW j \in Saves(h), i.key = j.key PROVE i = j
    BY <1>2, <1>4
  <1>. QED
    BY <1>3, <1>4 DEF WellKept

LEMMA LocalsShaped ==
    ASSUME ControlInv, ShapeInv, NEW h \in Handlers, Acts(h)
    PROVE  LocalShape(h)'
  <1>0. TypeOK /\ LocalShape(h)
    BY DEF ControlInv, ShapeInv
  <1>1. ASSUME conn'[h].pc \in {"idle", "wait", "slot", "install", "abandon"} PROVE LocalShape(h)'
    BY <1>1 DEF LocalShape, Acked, Stored
  <1>2. ASSUME NEW c \in Commands, Begin(h, c) PROVE LocalShape(h)'
    <2>1. CASE UNCHANGED conn
      BY <1>1, <1>2, <2>1 DEF Begin, Idle
    <2>2. ASSUME NEW s \in {"wait", "slot"}, NEW req, Start(h, c, s, req) PROVE LocalShape(h)'
      <3>1. conn'[h].pc = s
        BY <1>0, <2>2 DEF Start, TypeOK
      <3>. QED
        BY <1>1, <3>1
    <2>. QED
      BY <1>2, <2>1, <2>2 DEF Begin
  <1>3. CASE Wake(h) \/ WaitTimeout(h) \/ Complete(h) \/ Abandon(h)
    <2>1. conn'[h] = Idle
      BY <1>0, <1>3, ReturnFacts DEF Wake, WaitTimeout, Complete, Abandon
    <2>. QED
      BY <1>1, <2>1 DEF Idle
  <1>4. CASE Acquire(h) \/ Install(h)
    <2>1. \/ conn'[h].pc \in {"abandon", "install"}
          \/ /\ conn'[h].pc = "ack" /\ conn'[h].ack.outcome # "none"
             /\ conn'[h].ack.at = conn'[h].at
      <3>0. ASSUME NEW outcome \in {"applied", "already_expired"}, NEW until, NEW req, NEW at,
                   conn'[h].ack = [outcome |-> outcome, until |-> until, req |-> req, at |-> at]
            PROVE  conn'[h].ack.outcome # "none" /\ conn'[h].ack.at = at
        BY <3>0
      <3>1. CASE Moves(h, "abandon") \/ Moves(h, "install")
        BY <3>1 DEF Moves
      <3>2. CASE /\ Moves(h, "ack") /\ conn'[h].at = now
                 /\ conn'[h].ack = [outcome |-> "already_expired", until |-> conn[h].cmd.until,
                                    req |-> conn[h].req, at |-> now]
        BY <3>0, <3>2 DEF Moves
      <3>3. CASE /\ Moves(h, "ack") /\ conn'[h].at = conn[h].at
                 /\ conn'[h].ack = [outcome |-> "applied", until |-> conn[h].cmd.until,
                                    req |-> conn[h].req, at |-> conn[h].at]
        BY <3>0, <3>3 DEF Moves
      <3>. QED
        BY <1>4, <3>1, <3>2, <3>3, AcquireEffect, InstallEffect
    <2>. QED
      BY <1>1, <2>1 DEF LocalShape, Stored
  <1>5. CASE Write(h) \/ WriteFails(h)
    <2>1. /\ conn[h].pc = "write" /\ conn'[h].pc \in {"complete", "abandon"} /\ UNCHANGED entry
          /\ conn'[h].cmd = conn[h].cmd /\ conn'[h].ack = conn[h].ack /\ conn'[h].at = conn[h].at
      BY <1>5, WriteEffect DEF Moves
    <2>. QED
      BY <1>0, <2>1 DEF LocalShape, Acked, Stored
  <1>6. CASE SetAck(h) \/ SnapshotRules(h) \/ SnapshotIdempotency(h)
    <2>. DEFINE k == conn[h].cmd.key
    <2>1. /\ conn[h].pc \in Acked /\ conn[h].pc \in Stages \ {"wait"}
          /\ conn'[h].cmd = conn[h].cmd /\ conn'[h].ack = conn[h].ack /\ conn'[h].at = conn[h].at
          /\ conn'[h].pc \in {"snapRules", "snapIdem", "write"}
      BY <1>6, SetAckEffect, SnapshotRulesEffect, SnapshotIdempotencyEffect DEF Moves, Acked, Stages
    <2>2. k \in Keys /\ entry[k] \in EntryType /\ Executing(h)
      BY <2>1, ExecutorFacts
    <2>3. entry'[k].ack = conn[h].ack
      <3>1. CASE SetAck(h)
        <4>. DEFINE new == [entry[k] EXCEPT !.ack = conn[h].ack, !.expires = Expiry(conn[h].ack)]
        <4>1. new.ack = conn[h].ack
          BY <2>2 DEF EntryType
        <4>2. entry' = [entry EXCEPT ![k] = new]
          BY <3>1, SetAckEffect
        <4>. QED
          BY <1>0, <2>2, <4>1, <4>2 DEF TypeOK
      <3>2. CASE SnapshotRules(h)
        BY <1>0, <3>2, SnapshotRulesEffect DEF LocalShape, Stored
      <3>3. CASE SnapshotIdempotency(h)
        BY <1>0, <2>2, <3>3, SnapshotIdempotencyEffect, CleanKeepsOwned DEF LocalShape, Stored
      <3>. QED
        BY <1>6, <3>1, <3>2, <3>3
    <2>4. conn'[h].pc = "write" => WellKept(conn'[h].snap.idem)
      BY <1>6, SetAckEffect, SnapshotRulesEffect, SnapshotIdempotencyEffect, SavesWellKept DEF Moves
    <2>. QED
      BY <1>0, <2>1, <2>3, <2>4 DEF LocalShape, WellKept, Made, Expiry
  <1>. QED
    BY <1>2, <1>3, <1>4, <1>5, <1>6 DEF Acts, Step

(* A step is one of a goroutine, of the process, or of the clock.          *)
LEMMA Steps ==
    ASSUME Next
    PROVE  (\E h \in Handlers : Acts(h)) \/ Crash \/ Restart \/ RefuseToStart \/ Tick
  BY DEF Next, Acts

(* Who changes the file is at the rename, and leaves the rest alone.       *)
LEMMA FileStep ==
    ASSUME NEW h \in Handlers, Acts(h)
    PROVE  \/ UNCHANGED file
           \/ (Write(h) \/ WriteFails(h)) /\ conn[h].pc = "write" /\ file' = conn[h].snap
  BY DEF Acts, Step, Begin, Wake, WaitTimeout, Acquire, Install, SetAck, SnapshotRules,
         SnapshotIdempotency, Write, WriteFails, Complete, Abandon, At

-----------------------------------------------------------------------------
(* The limits of the tables.                                               *)

(* The keys of saved acknowledgements.                                     *)
KeysOf(idem) == {k \in Keys : \E i \in idem : i.key = k}

(* A restart makes an entry of every saved acknowledgement and counts      *)
(* none, so a file, and a snapshot that becomes one, keep the limit too.   *)
LimitsInv ==
    /\ WithinLimits
    /\ Cardinality(KeysOf(file.idem)) <= MaxIdempotency
    /\ \A h \in Handlers :
         conn[h].pc = "write" => Cardinality(KeysOf(conn[h].snap.idem)) <= MaxIdempotency

LEMMA TablesFinite ==
    /\ \A S \in SUBSET Keys : IsFiniteSet(S)
    /\ \A S \in SUBSET Targets : IsFiniteSet(S)
    /\ \A S \in SUBSET Handlers : IsFiniteSet(S)
    /\ MaxCommands \in Nat /\ MaxIdempotency \in Nat /\ MaxRules \in Nat
  <1>. DEFINE f == [c \in Commands |-> c.key]
              g == [c \in Commands |-> c.target]
  <1>1. f \in Surjection(Commands, Keys) /\ g \in Surjection(Commands, Targets)
    BY DEF Surjection, Keys, Targets
  <1>. HIDE DEF f, g
  <1>2. IsFiniteSet(Keys) /\ IsFiniteSet(Targets) /\ IsFiniteSet(Handlers)
    BY <1>1, FS_Surjection, PrivateControlAssumption
  <1>. QED
    BY <1>2, FS_Subset, PrivateControlAssumption

(* acquireCommand takes a slot while one is free.                          *)
LEMMA SlotsLimited ==
    ASSUME ControlInv, LimitsInv, NEW h \in Handlers, Acts(h)
    PROVE  Cardinality(slots') <= MaxCommands
  <1>1. slots \in SUBSET Handlers /\ Cardinality(slots) <= MaxCommands
    BY DEF ControlInv, TypeOK, LimitsInv, WithinLimits
  <1>2. CASE Acquire(h)
    <2>1. slots' = slots \/ (slots' = slots \cup {h} /\ Cardinality(slots) < MaxCommands)
      BY <1>2, AcquireEffect
    <2>. QED
      BY <1>1, <2>1, TablesFinite, OneLarger
  <1>3. CASE ~Acquire(h)
    <2>1. slots' \in SUBSET slots
      BY <1>3 DEF Acts, Step, Begin, Wake, WaitTimeout, Install, SetAck, SnapshotRules,
                  SnapshotIdempotency, Write, WriteFails, Complete, Abandon, Return
    <2>. QED
      BY <1>1, <2>1, TablesFinite, NoLarger
  <1>. QED
    BY <1>2, <1>3

(* beginRevocation makes an entry while the cache has room.                *)
LEMMA CacheLimited ==
    ASSUME ControlInv, LimitsInv, NEW h \in Handlers, Acts(h)
    PROVE  Cardinality(Held(entry')) <= MaxIdempotency
  <1>1. Held(entry) \in SUBSET Keys /\ Cardinality(Held(entry)) <= MaxIdempotency
    BY DEF Held, LimitsInv, WithinLimits
  <1>2. ASSUME NEW c \in Commands, Begin(h, c)
        PROVE  Cardinality(Held(entry')) <= MaxIdempotency
    <2>. DEFINE kept == CleanEntries(now)
    <2>1. /\ c.key \in Keys /\ kept \in [Keys -> EntryType \cup {NoEntry}]
          /\ \A k \in Keys : kept[k] # NoEntry => kept[k] = entry[k]
      BY CommandFacts, CleanEntriesFacts DEF ControlInv
    <2>. HIDE DEF kept
    <2>2. /\ \/ entry' = kept
             \/ /\ \E new : entry' = [kept EXCEPT ![c.key] = new]
                /\ Cardinality(Held(kept)) < MaxIdempotency
      BY <1>2 DEF Begin, kept
    <2>3. Held(kept) \in SUBSET Held(entry) /\ Held(kept) \in SUBSET Keys
      BY <2>1 DEF Held
    <2>4. CASE entry' = kept
      BY <1>1, <2>3, <2>4, TablesFinite, NoLarger
    <2>5. CASE /\ \E new : entry' = [kept EXCEPT ![c.key] = new]
               /\ Cardinality(Held(kept)) < MaxIdempotency
      <3>1. Held(entry') \in SUBSET (Held(kept) \cup {c.key})
        BY <2>1, <2>5 DEF Held
      <3>. QED
        BY <2>1, <2>3, <2>5, <3>1, TablesFinite, OneLarger
    <2>. QED
      BY <2>2, <2>4, <2>5
  <1>3. CASE ~\E c \in Commands : Begin(h, c)
    <2>1. ASSUME NEW k \in Keys, entry'[k] # NoEntry PROVE entry[k] # NoEntry
      <3>1. CASE SnapshotIdempotency(h)
        BY <2>1, <3>1, SnapshotIdempotencyEffect, CleanEntriesFacts DEF ControlInv
      <3>2. CASE SetAck(h) \/ Complete(h) \/ Abandon(h)
        <4>1. conn[h].pc \in Stages \ {"wait"}
          BY <3>2 DEF SetAck, Complete, Abandon, At, Stages
        <4>2. /\ conn[h].cmd.key \in Keys /\ entry[conn[h].cmd.key] # NoEntry
              /\ entry \in [Keys -> EntryType \cup {NoEntry}]
          BY <4>1, ExecutorFacts DEF Owns, ControlInv, TypeOK
        <4>3. entry' = entry \/ \E new : entry' = [entry EXCEPT ![conn[h].cmd.key] = new]
          BY <3>2, SetAckEffect, CompleteEffect, AbandonEffect
        <4>. QED
          BY <2>1, <4>2, <4>3
      <3>3. CASE UNCHANGED entry
        BY <2>1, <3>3
      <3>. QED
        BY <1>3, <3>1, <3>2, <3>3
        DEF Acts, Step, Wake, WaitTimeout, Acquire, Install, SnapshotRules, Write, WriteFails
    <2>2. Held(entry') \in SUBSET Held(entry)
      BY <2>1 DEF Held
    <2>. QED
      BY <1>1, <2>2, TablesFinite, NoLarger
  <1>. QED
    BY <1>2, <1>3

(* installRevocation adds a rule while the set has room; cleaning only     *)
(* removes.                                                                *)
LEMMA RulesLimited ==
    ASSUME ControlInv, LimitsInv, NEW h \in Handlers, Acts(h)
    PROVE  Cardinality(RulesIn(rules')) <= MaxRules
  <1>. DEFINE kept == CleanRules(conn[h].at)
  <1>1. /\ RulesIn(rules) \in SUBSET Targets /\ Cardinality(RulesIn(rules)) <= MaxRules
        /\ RulesIn(kept) \in SUBSET Targets /\ RulesIn(kept) \in SUBSET RulesIn(rules)
        /\ DOMAIN kept = Targets
    BY DEF RulesIn, CleanRules, LimitsInv, WithinLimits
  <1>. HIDE DEF kept
  <1>2. CASE Install(h)
    <2>. DEFINE target == conn[h].cmd.target
    <2>1. /\ target \in Targets /\ kept \in [Targets -> Nat] /\ conn[h].cmd.until \in Nat
      <3>1. conn[h].pc \in Stages \ {"wait"}
        BY <1>2 DEF Install, At, Stages
      <3>. QED
        BY <3>1, ExecutorFacts, CleanRulesFacts, CommandFacts DEF kept
    <2>. HIDE DEF target
    <2>2. \/ rules' = kept
          \/ /\ rules' = [kept EXCEPT ![target] = Later(@, conn[h].cmd.until)]
             /\ kept[target] > 0 \/ Cardinality(RulesIn(kept)) < MaxRules
      BY <1>2 DEF Install, kept, target
    <2>3. CASE rules' = kept
      BY <1>1, <2>3, TablesFinite, NoLarger
    <2>4. CASE rules' = [kept EXCEPT ![target] = Later(@, conn[h].cmd.until)] /\ kept[target] > 0
      <3>1. RulesIn(rules') \in SUBSET RulesIn(rules)
        BY <1>1, <2>1, <2>4 DEF RulesIn
      <3>. QED
        BY <1>1, <3>1, TablesFinite, NoLarger
    <2>5. CASE /\ rules' = [kept EXCEPT ![target] = Later(@, conn[h].cmd.until)]
               /\ Cardinality(RulesIn(kept)) < MaxRules
      <3>1. RulesIn(rules') \in SUBSET (RulesIn(kept) \cup {target})
        BY <1>1, <2>1, <2>5 DEF RulesIn
      <3>2. /\ IsFiniteSet(RulesIn(kept)) /\ MaxRules \in Nat
            /\ Cardinality(RulesIn(kept)) < MaxRules
        BY <1>1, <2>1, <2>5, TablesFinite DEF target
      <3>. QED
        BY ONLY <3>1, <3>2, OneLarger
    <2>. QED
      BY <2>2, <2>3, <2>4, <2>5 DEF target
  <1>3. CASE ~Install(h)
    <2>1. rules' = rules \/ rules' = kept
      BY <1>3 DEF Acts, Step, Begin, Wake, WaitTimeout, Acquire, SetAck, SnapshotRules, kept,
                  SnapshotIdempotency, Write, WriteFails, Complete, Abandon
    <2>. QED
      BY <1>1, <2>1, TablesFinite, NoLarger
  <1>. QED
    BY <1>2, <1>3

(* What is saved was in the cache.                                         *)
LEMMA SavedLimited ==
    ASSUME ControlInv, LimitsInv, NEW h \in Handlers, Acts(h)
    PROVE  /\ Cardinality(KeysOf(file'.idem)) <= MaxIdempotency
           /\ \A g \in Handlers :
                conn'[g].pc = "write" => Cardinality(KeysOf(conn'[g].snap.idem)) <= MaxIdempotency
  <1>1. Cardinality(KeysOf(file'.idem)) <= MaxIdempotency
    BY FileStep DEF LimitsInv
  <1>2. \A g \in Handlers : g # h => conn'[g] = conn[g]
    BY OthersKept DEF Same
  <1>3. ASSUME conn'[h].pc = "write"
        PROVE  Cardinality(KeysOf(conn'[h].snap.idem)) <= MaxIdempotency
    <2>1. CASE SnapshotIdempotency(h)
      <3>1. conn'[h].snap.idem = Saves(h)
        BY <2>1, SnapshotIdempotencyEffect
      <3>2. KeysOf(conn'[h].snap.idem) \in SUBSET Held(entry')
        BY <3>1 DEF KeysOf, Saves, SavedKeys, Held
      <3>3. Held(entry') \in SUBSET Keys
        BY DEF Held
      <3>. QED
        BY <3>2, <3>3, CacheLimited, TablesFinite, NoLarger
    <2>2. CASE ~SnapshotIdempotency(h)
      <3>1. CASE \E c \in Commands : Begin(h, c)
        <4>1. ASSUME NEW c, NEW s, NEW req, Start(h, c, s, req), s # "write" PROVE FALSE
          BY <1>3, <4>1 DEF Start, ControlInv, TypeOK
        <4>2. conn[h] = Idle /\ UNCHANGED conn => FALSE
          BY <1>3 DEF Idle
        <4>. QED
          BY <3>1, <4>1, <4>2 DEF Begin
      <3>2. CASE Wake(h) \/ WaitTimeout(h) \/ Complete(h) \/ Abandon(h)
        <4>1. Return(h)
          BY <3>2 DEF Wake, WaitTimeout, Complete, Abandon
        <4>. QED
          BY <1>3, <4>1, ReturnFacts DEF ControlInv, Idle
      <3>3. CASE \/ Acquire(h) \/ Install(h) \/ SetAck(h) \/ SnapshotRules(h)
                 \/ Write(h) \/ WriteFails(h)
        BY <1>3, <3>3, AcquireEffect, InstallEffect, SetAckEffect, SnapshotRulesEffect, WriteEffect
        DEF Moves
      <3>. QED
        BY <2>2, <3>1, <3>2, <3>3 DEF Acts, Step
    <2>. QED
      BY <2>1, <2>2
  <1>. QED
    BY <1>1, <1>2, <1>3 DEF LimitsInv

LEMMA LimitsStep == ControlInv /\ LimitsInv /\ [Next]_vars => LimitsInv'
  <1>. SUFFICES ASSUME ControlInv, LimitsInv, [Next]_vars PROVE LimitsInv'
    OBVIOUS
  <1>1. ASSUME NEW h \in Handlers, Acts(h) PROVE LimitsInv'
    BY <1>1, SlotsLimited, CacheLimited, RulesLimited, SavedLimited DEF LimitsInv, WithinLimits
  <1>2. CASE Crash
    <2>1. slots' = {} /\ Held(entry') = {} /\ RulesIn(rules') = {} /\ file' = file
      BY <1>2 DEF Crash, Held, RulesIn
    <2>2. \A h \in Handlers : conn'[h].pc # "write"
      BY <1>2 DEF Crash, Idle
    <2>. QED
      BY <2>1, <2>2, FS_EmptySet, TablesFinite DEF LimitsInv, WithinLimits
  <1>3. CASE Restart
    <2>1. /\ UNCHANGED <<slots, file, conn>>
          /\ \A k \in Keys : entry'[k] # NoEntry => \E i \in file.idem : i.key = k
      BY <1>3, RestartEffect DEF ControlInv
    <2>2. Held(entry') \in SUBSET KeysOf(file.idem) /\ KeysOf(file.idem) \in SUBSET Keys
      BY <2>1 DEF Held, KeysOf
    <2>3. Cardinality(Held(entry')) <= MaxIdempotency
      BY <2>2, TablesFinite, NoLarger DEF LimitsInv
    <2>4. RulesIn(rules') \in SUBSET LiveRules /\ LiveRules \in SUBSET Targets
      BY <1>3 DEF Restart, RulesIn, LiveRules
    <2>5. Cardinality(RulesIn(rules')) <= MaxRules
      BY <1>3, <2>4, TablesFinite, NoLarger DEF Restart, Restorable
    <2>. QED
      BY <2>1, <2>3, <2>5 DEF LimitsInv, WithinLimits
  <1>4. CASE RefuseToStart \/ Tick \/ UNCHANGED vars
    BY <1>4 DEF RefuseToStart, Tick, vars, LimitsInv, WithinLimits
  <1>. QED
    BY <1>1, <1>2, <1>3, <1>4, Steps

LEMMA LimitsInit == Init => LimitsInv
  <1>. SUFFICES ASSUME Init PROVE LimitsInv
    OBVIOUS
  <1>1. slots = {} /\ Held(entry) = {} /\ RulesIn(rules) = {} /\ KeysOf(file.idem) = {}
    BY DEF Init, Held, RulesIn, KeysOf, EmptyFile
  <1>2. \A h \in Handlers : conn[h].pc # "write"
    BY DEF Init, Idle
  <1>. QED
    BY <1>1, <1>2, FS_EmptySet, TablesFinite DEF LimitsInv, WithinLimits

(* The tables keep their types, the command slots, the cache and the deny  *)
(* rules their limits, across crashes and restarts, and a slot is held     *)
(* only by a command under way, from its acquisition on: the deferred      *)
(* releaseCommand gives it back at every return of handleRevocation.       *)
THEOREM SlotsAlwaysSound == Spec => []SlotsSound
  <1>1. ControlInv /\ LimitsInv => SlotsSound
    BY DEF ControlInv, LimitsInv, SlotsSound
  <1>2. Init => LimitsInv
    BY LimitsInit
  <1>3. ControlInv /\ LimitsInv /\ [Next]_vars => LimitsInv'
    BY LimitsStep
  <1>. QED
    BY <1>1, <1>2, <1>3, ControlAlways, PTL DEF Spec

-----------------------------------------------------------------------------
(* The shape of the acknowledgements.                                      *)

LEMMA ShapeStep == ControlInv /\ ShapeInv /\ [Next]_vars => ShapeInv'
  <1>. SUFFICES ASSUME ControlInv, ShapeInv, [Next]_vars PROVE ShapeInv'
    OBVIOUS
  <1>. USE DEF WellKept, Made, Expiry
  <1>1. CASE UNCHANGED vars \/ RefuseToStart \/ Tick
    BY <1>1 DEF vars, RefuseToStart, Tick, ShapeInv, EntryShape, LocalShape
  <1>2. ASSUME NEW h \in Handlers, Acts(h) PROVE ShapeInv'
    <2>1. /\ status' = "up" /\ Same(h)
          /\ \A g \in Handlers :
                g # h /\ Executing(g) => entry'[conn[g].cmd.key] = entry[conn[g].cmd.key]
      BY <1>2, OthersKept
    <2>2. (\A k \in Keys : EntryShape(k)') /\ LocalShape(h)'
      BY <1>2, EntriesShaped, LocalsShaped
    <2>3. ASSUME NEW g \in Handlers, g # h PROVE LocalShape(g)'
      BY <2>1, <2>3 DEF Same, ShapeInv, LocalShape, Executing, Stages, Stored
    <2>4. WellKept(file'.idem)
      BY <1>2, FileStep DEF ShapeInv, LocalShape
    <2>. QED
      BY <2>1, <2>2, <2>3, <2>4 DEF ShapeInv
  <1>3. CASE Crash
    BY <1>3 DEF Crash, ShapeInv, EntryShape, LocalShape, Idle, Acked, Stored
  <1>4. CASE Restart
    <2>1. /\ status' = "up" /\ UNCHANGED <<file, conn>>
          /\ \A h \in Handlers : conn[h] = Idle
      BY <1>4, RestartEffect DEF ControlInv, OwnInv
    <2>2. ASSUME NEW k \in Keys PROVE EntryShape(k)'
      <3>1. CASE \E i \in file.idem : i.key = k
        <4>1. PICK i \in file.idem :
                /\ i.key = k
                /\ entry'[k] = [req |-> i.ack.req, cmd |-> i.cmd, ack |-> i.ack,
                                completed |-> TRUE, expires |-> i.expires]
          BY <1>4, <3>1, RestartEffect DEF ControlInv
        <4>2. i.cmd.key = k /\ i.ack.outcome # "none" /\ i.expires = Expiry(i.ack)
          BY <4>1 DEF ShapeInv
        <4>. QED
          BY <4>1, <4>2 DEF EntryShape, NoAck
      <3>2. CASE ~\E i \in file.idem : i.key = k
        BY <1>4, <3>2, RestartEffect DEF ControlInv, EntryShape
      <3>. QED
        BY <3>1, <3>2
    <2>3. \A h \in Handlers : LocalShape(h)'
      BY <2>1 DEF LocalShape, Idle, Acked, Stored
    <2>. QED
      BY <2>1, <2>2, <2>3 DEF ShapeInv
  <1>. QED
    BY <1>1, <1>2, <1>3, <1>4, Steps

LEMMA ShapeInit == Init => ShapeInv
  BY DEF Init, ShapeInv, EntryShape, LocalShape, WellKept, EmptyFile, Idle, Acked, Stored

-----------------------------------------------------------------------------
(* What a client may be told.                                              *)

LEMMA ObservableType ==
    ASSUME TypeOK
    PROVE  /\ Observable \subseteq [cmd: Commands, ack: AckType]
           /\ \A r \in Observable : r.cmd \in Commands /\ r.ack \in AckType
  <1>1. ASSUME NEW k \in Keys, entry[k] # NoEntry
        PROVE  [cmd |-> entry[k].cmd, ack |-> entry[k].ack] \in [cmd: Commands, ack: AckType]
    <2>1. entry[k] \in EntryType
      BY <1>1 DEF TypeOK
    <2>. QED
      BY <2>1 DEF EntryType
  <1>2. Observable \subseteq [cmd: Commands, ack: AckType]
    BY <1>1 DEF Observable, TypeOK
  <1>. QED
    BY <1>2

LEMMA ObservableCases ==
    ASSUME TypeOK, NEW r
    PROVE  /\ r \in Observable => r \in released \/ \E k \in Keys : Answers(k, r)
           /\ \A k \in Keys : Answers(k, r) => [cmd |-> r.cmd, ack |-> r.ack] \in Observable
  BY DEF Observable, Answers

(* A completed entry stays, until it has expired.                          *)
LEMMA CompletedKept ==
    ASSUME ControlInv, NEW h \in Handlers, Acts(h), NEW k \in Keys,
           entry[k] # NoEntry, entry[k].completed
    PROVE  entry'[k] = entry[k] \/ entry[k].expires <= now
  BY EntryEffect DEF Expired, Fresh, Own

(* Only completeRevocation's second critical section completes an entry.   *)
LEMMA CompletedBefore ==
    ASSUME ControlInv, NEW h \in Handlers, Acts(h), NEW k \in Keys,
           entry'[k] # NoEntry, entry'[k].completed
    PROVE  \/ entry'[k] = entry[k]
           \/ /\ Complete(h) /\ Own(h, k) /\ entry[k].ack # NoAck
              /\ entry'[k] = [entry[k] EXCEPT !.completed = TRUE]
  <1>1. ASSUME Own(h, k) PROVE entry[k] \in EntryType
    BY <1>1 DEF ControlInv, TypeOK, Own
  <1>2. ASSUME Own(h, k), entry'[k] = [entry[k] EXCEPT !.ack = conn[h].ack, !.expires = Expiry(conn[h].ack)]
        PROVE  FALSE
    BY <1>1, <1>2 DEF EntryType, Own
  <1>. QED
    BY <1>2, EntryEffect DEF Fresh

LEMMA ObservableStep ==
    ASSUME ControlInv, ShapeInv, NEW h \in Handlers, Acts(h), NEW r \in Observable'
    PROVE  r \in Observable \/ (Complete(h) /\ r = Result(h))
  <1>0. TypeOK
    BY DEF ControlInv
  <1>1. ASSUME r \in released' PROVE r \in Observable \/ (Complete(h) /\ r = Result(h))
    <2>1. CASE r \in released
      BY <2>1 DEF Observable
    <2>2. ASSUME NEW c \in Commands, Begin(h, c), r \notin released PROVE r \in Observable
      <3>1. /\ CleanEntries(now)[c.key] # NoEntry /\ CleanEntries(now)[c.key].cmd = c
            /\ CleanEntries(now)[c.key].completed
            /\ r = [cmd |-> c, ack |-> CleanEntries(now)[c.key].ack]
        BY <1>1, <2>2 DEF Begin
      <3>2. c.key \in Keys /\ CleanEntries(now)[c.key] = entry[c.key]
        BY <1>0, <3>1, CommandFacts, CleanEntriesFacts
      <3>. QED
        BY <3>1, <3>2 DEF Observable
    <2>3. CASE Wake(h) /\ r \notin released
      <3>1. conn[h].cmd.key \in Keys
        BY <1>0, <2>3, NotIdle, LocalsType DEF Wake, At, Stages
      <3>2. /\ entry[conn[h].cmd.key] # NoEntry /\ entry[conn[h].cmd.key].completed
            /\ r = [cmd |-> entry[conn[h].cmd.key].cmd, ack |-> entry[conn[h].cmd.key].ack]
        BY <1>1, <2>3 DEF Wake
      <3>. QED
        BY <3>1, <3>2 DEF Observable
    <2>4. CASE Complete(h) /\ r \notin released
      BY <1>1, <2>4, CompleteEffect DEF Result
    <2>. QED
      BY <1>1, <2>1, <2>2, <2>3, <2>4
         DEF Acts, Step, WaitTimeout, Acquire, Install, SetAck, SnapshotRules,
             SnapshotIdempotency, Write, WriteFails, Abandon
  <1>2. ASSUME NEW k \in Keys, entry'[k] # NoEntry, entry'[k].completed,
               r = [cmd |-> entry'[k].cmd, ack |-> entry'[k].ack]
        PROVE  r \in Observable \/ (Complete(h) /\ r = Result(h))
    <2>1. CASE entry'[k] = entry[k]
      BY <1>2, <2>1 DEF Observable
    <2>2. CASE Complete(h) /\ Own(h, k) /\ entry'[k] = [entry[k] EXCEPT !.completed = TRUE]
      <3>1. entry[k] \in EntryType
        BY <1>0, <2>2 DEF TypeOK, Own
      <3>2. entry'[k].cmd = conn[h].cmd /\ entry'[k].ack = entry[k].ack
        BY <2>2, <3>1 DEF EntryType, Own
      <3>3. entry[k].ack = conn[h].ack
        BY <2>2, CompleteEffect DEF ShapeInv, LocalShape, Stored, Own
      <3>. QED
        BY <1>2, <2>2, <3>2, <3>3 DEF Result
    <2>. QED
      BY <1>2, <2>1, <2>2, CompletedBefore
  <1>. QED
    BY <1>1, <1>2 DEF Observable

-----------------------------------------------------------------------------
(* The acknowledgements, as long as the process lives.                     *)

(* The clock does not run backwards.                                       *)
LEMMA NowStep ==
    ASSUME TypeOK, [Next]_vars
    PROVE  now \in Nat /\ now' \in Nat /\ now <= now'
  <1>1. now \in Nat
    BY DEF TypeOK
  <1>2. now' = now \/ now' = now + 1
    <2>1. CASE UNCHANGED vars \/ Crash \/ Restart \/ RefuseToStart \/ Tick
      BY <2>1 DEF vars, Crash, Restart, RefuseToStart, Tick
    <2>2. ASSUME NEW h \in Handlers, Acts(h) PROVE now' = now
      BY <2>2 DEF Acts, Step, Begin, Wake, WaitTimeout, Acquire, Install, SetAck, SnapshotRules,
                  SnapshotIdempotency, Write, WriteFails, Complete, Abandon
    <2>. QED
      BY <2>1, <2>2, Steps
  <1>. QED
    BY <1>1, <1>2

(* A rule that keeps what r says goes on doing so.                         *)
LEMMA EnforcedStep ==
    ASSUME ControlInv, [Next]_vars, status = "up", status' = "up",
           NEW c \in Commands, NEW ack \in AckType, Enforced(rules, c, ack)
    PROVE  Enforced(rules, c, ack)'
  <1>1. /\ rules \in [Targets -> Nat] /\ rules' \in [Targets -> Nat] /\ c.target \in Targets
        /\ ack.until \in Nat
    BY ControlStep, CommandFacts DEF ControlInv, TypeOK, AckType
  <1>2. now \in Nat /\ now' \in Nat /\ now <= now' /\ RulesKept
    BY NowStep, RulesStep DEF ControlInv
  <1>. QED
    BY <1>1, <1>2 DEF Enforced, RulesKept

(* What an executor acknowledges is in force when it does.                 *)
LEMMA ExecutorEnforced ==
    ASSUME ControlInv, AckInv, NEW h \in Handlers, Acts(h), conn'[h].pc \in Acked
    PROVE  Enforced(rules, conn[h].cmd, conn[h].ack)'
  <1>1. status = "up" /\ status' = "up" /\ [Next]_vars
    BY OthersKept DEF Next, Acts
  <1>2. CASE Acquire(h) \/ Install(h)
    <2>0. ASSUME NEW outcome, NEW until, NEW req, NEW at,
                 conn'[h].ack = [outcome |-> outcome, until |-> until, req |-> req, at |-> at]
          PROVE  conn'[h].ack.outcome = outcome /\ conn'[h].ack.until = until
      BY <2>0
    <2>1. CASE Moves(h, "abandon") \/ Moves(h, "install")
      BY <2>1 DEF Moves, Acked
    <2>2. CASE /\ Moves(h, "ack")
               /\ conn'[h].ack = [outcome |-> "already_expired", until |-> conn[h].cmd.until,
                                  req |-> conn[h].req, at |-> now]
      BY <2>0, <2>2 DEF Enforced
    <2>3. CASE /\ Moves(h, "ack")
               /\ conn'[h].ack = [outcome |-> "applied", until |-> conn[h].cmd.until,
                                  req |-> conn[h].req, at |-> conn[h].at]
               /\ rules'[conn[h].cmd.target] >= conn[h].cmd.until
      BY <2>0, <2>3 DEF Enforced, Moves
    <2>. QED
      BY <1>2, <2>1, <2>2, <2>3, AcquireEffect, InstallEffect
  <1>3. CASE SetAck(h) \/ SnapshotRules(h) \/ SnapshotIdempotency(h) \/ Write(h) \/ WriteFails(h)
    <2>1. /\ conn[h].pc \in Acked /\ conn[h].pc \in Stages \ {"wait"}
          /\ conn'[h].cmd = conn[h].cmd /\ conn'[h].ack = conn[h].ack
      BY <1>3, SetAckEffect, SnapshotRulesEffect, SnapshotIdempotencyEffect, WriteEffect
         DEF Moves, Acked, Stages
    <2>2. Enforced(rules, conn[h].cmd, conn[h].ack)
      BY <1>1, <2>1 DEF AckInv, LocalAck
    <2>3. ASSUME NEW c \in Commands, NEW ack \in AckType, Enforced(rules, c, ack)
          PROVE  ack.outcome = "applied" /\ ack.until > now' => rules'[c.target] >= ack.until
      BY <1>1, <2>3, EnforcedStep DEF Enforced
    <2>. QED
      BY <2>1, <2>2, <2>3, ExecutorFacts DEF Enforced
  <1>4. CASE (\E c \in Commands : Begin(h, c)) \/ Wake(h) \/ WaitTimeout(h) \/ Complete(h) \/ Abandon(h)
    <2>1. TypeOK
      BY DEF ControlInv
    <2>2. (conn'[h] = conn[h] /\ conn[h] = Idle) \/ conn'[h] = Idle \/ conn'[h].pc \in {"wait", "slot"}
      <3>1. ASSUME NEW c \in Commands, NEW s, NEW req, Start(h, c, s, req) PROVE conn'[h].pc = s
        BY <2>1, <3>1 DEF Start, TypeOK
      <3>. QED
        BY <1>4, <2>1, <3>1, ReturnFacts DEF Begin, Wake, WaitTimeout, Complete, Abandon
    <2>. QED
      BY <2>2 DEF Idle, Acked
  <1>. QED
    BY <1>2, <1>3, <1>4 DEF Acts, Step

(* What is or becomes observable is known, and nothing is forgotten before *)
(* it has expired.                                                         *)
LEMMA KnownStep ==
    ASSUME ControlInv, ShapeInv, AckInv, NEW h \in Handlers, Acts(h), NEW r \in Observable'
    PROVE  Known(r)'
  <1>0. TypeOK /\ status = "up" /\ status' = "up" /\ now' = now /\ [Next]_vars
    BY OthersKept DEF ControlInv, Next, Acts
  <1>1. CASE r \in Observable
    <2>1. r.cmd \in Commands /\ r.ack \in AckType /\ r.cmd.key \in Keys
      BY <1>0, <1>1, ObservableType, CommandFacts
    <2>2. Known(r)
      BY <1>0, <1>1 DEF AckInv
    <2>3. Enforced(rules, r.cmd, r.ack)'
      BY <1>0, <2>1, <2>2, EnforcedStep DEF Known, Enforced
    <2>4. CASE Answers(r.cmd.key, r)
      <3>1. entry[r.cmd.key].expires = Expiry(r.ack)
        BY <2>1, <2>4 DEF Answers, ShapeInv, EntryShape, Made
      <3>2. entry'[r.cmd.key] = entry[r.cmd.key] \/ Expiry(r.ack) <= now
        BY <2>1, <2>4, <3>1, CompletedKept DEF Answers
      <3>. QED
        BY <1>0, <2>3, <2>4, <3>2 DEF Known, Answers, Expiry
    <2>5. CASE Expiry(r.ack) <= now
      BY <1>0, <2>3, <2>5 DEF Known, Expiry
    <2>. QED
      BY <2>2, <2>4, <2>5 DEF Known
  <1>2. CASE Complete(h) /\ r = Result(h)
    <2>. DEFINE k == conn[h].cmd.key
    <2>1. /\ conn[h].pc = "complete" /\ conn[h].pc \in Stages \ {"wait"} /\ conn[h].pc \in Stored
          /\ conn[h].pc \in Acked
      BY <1>2, CompleteEffect DEF Stages, Stored, Acked
    <2>2. /\ k \in Keys /\ entry[k] \in EntryType /\ conn[h].cmd \in Commands
          /\ conn[h].ack \in AckType /\ entry[k].cmd = conn[h].cmd
      BY <2>1, ExecutorFacts DEF Owns
    <2>3. entry[k].ack = conn[h].ack /\ conn[h].ack # NoAck
      BY <2>1 DEF ShapeInv, LocalShape, NoAck
    <2>4. entry' = [entry EXCEPT ![k] = [entry[k] EXCEPT !.completed = TRUE]]
      BY <1>2, <2>3, CompleteEffect
    <2>5. /\ entry'[k].cmd = conn[h].cmd /\ entry'[k].ack = conn[h].ack
          /\ entry'[k].completed /\ entry'[k] # NoEntry
      BY <1>0, <2>2, <2>3, <2>4 DEF TypeOK, EntryType, NoEntry
    <2>6. r.cmd = conn[h].cmd /\ r.ack = conn[h].ack
      BY <1>2 DEF Result
    <2>7. Answers(r.cmd.key, r)'
      BY <2>5, <2>6 DEF Answers
    <2>8. Enforced(rules, conn[h].cmd, conn[h].ack)
      BY <1>0, <2>1 DEF AckInv, LocalAck
    <2>9. Enforced(rules, r.cmd, r.ack)'
      BY <1>0, <2>2, <2>6, <2>8, EnforcedStep DEF Enforced
    <2>. QED
      BY <2>7, <2>9 DEF Known
  <1>. QED
    BY <1>1, <1>2, ObservableStep

(* An executor reads the clock after its command's earlier answers have    *)
(* expired, and no other goroutine completes the command meanwhile.        *)
LEMMA LocalAckStep ==
    ASSUME ControlInv, ShapeInv, AckInv, NEW h \in Handlers, Acts(h), NEW g \in Handlers
    PROVE  LocalAck(g)'
  <1>0. TypeOK /\ status = "up" /\ status' = "up" /\ now' = now /\ [Next]_vars /\ Same(h)
    BY OthersKept DEF ControlInv, Next, Acts
  <1>1. ASSUME conn'[g].pc \in Acked PROVE Enforced(rules, conn[g].cmd, conn[g].ack)'
    <2>1. CASE g = h
      BY <1>1, <2>1, ExecutorEnforced
    <2>2. CASE g # h
      <3>1. conn'[g] = conn[g] /\ conn[g].pc \in Stages \ {"wait"}
        BY <1>0, <1>1, <2>2 DEF Same, Acked, Stages
      <3>2. Enforced(rules, conn[g].cmd, conn[g].ack)
        BY <1>0, <1>1, <3>1 DEF AckInv, LocalAck
      <3>3. conn[g].cmd \in Commands /\ conn[g].ack \in AckType
        BY <3>1, ExecutorFacts
      <3>4. ASSUME NEW c \in Commands, NEW ack \in AckType, Enforced(rules, c, ack)
            PROVE  ack.outcome = "applied" /\ ack.until > now' => rules'[c.target] >= ack.until
        BY <1>0, <3>4, EnforcedStep DEF Enforced
      <3>. QED
        BY <3>1, <3>2, <3>3, <3>4 DEF Enforced
    <2>. QED
      BY <2>1, <2>2
  <1>2. ASSUME conn'[g].pc \in Acquired, NEW r \in Observable', r.cmd = conn'[g].cmd
        PROVE  conn'[g].at >= Expiry(r.ack)
    <2>1. CASE g # h
      <3>1. conn'[g] = conn[g] /\ conn[g].pc \in Stages \ {"wait"} /\ conn[g].pc \in Acquired
        BY <1>0, <1>2, <2>1 DEF Same, Acquired, Stages
      <3>2. CASE r \in Observable
        BY <1>0, <1>2, <3>1, <3>2 DEF AckInv, LocalAck
      <3>3. CASE Complete(h) /\ r = Result(h)
        <4>1. conn[h].pc \in Stages \ {"wait"} /\ r.cmd = conn[h].cmd
          BY <3>3, CompleteEffect DEF Stages, Result
        <4>. QED
          BY <1>2, <2>1, <3>1, <4>1, ExecutorFacts
      <3>. QED
        BY <3>2, <3>3, ObservableStep
    <2>2. CASE g = h /\ Acquire(h)
      <3>1. conn[h].pc = "slot" /\ conn[h].pc \in Stages \ {"wait"}
        BY <2>2, AcquireEffect DEF Stages
      <3>2. r \in Observable
        BY <2>2, <3>1, CompleteEffect, ObservableStep
      <3>3. conn'[h].at = now /\ conn'[h].cmd = conn[h].cmd
        <4>1. CASE Moves(h, "abandon")
          BY <1>2, <2>2, <4>1 DEF Moves, Acquired
        <4>2. CASE (Moves(h, "ack") \/ Moves(h, "install")) /\ conn'[h].at = now
          BY <4>2 DEF Moves
        <4>. QED
          BY <2>2, <4>1, <4>2, AcquireEffect
      <3>4. ~Answers(r.cmd.key, r)
        BY <1>2, <2>2, <3>1, <3>3, ExecutorFacts DEF Owns, Answers
      <3>5. Expiry(r.ack) <= now
        BY <1>0, <3>2, <3>4 DEF AckInv, Known
      <3>6. Expiry(r.ack) \in Nat /\ now \in Nat
        BY <1>0, <3>2, ObservableType, ExpiryFacts DEF TypeOK
      <3>. QED
        BY <2>2, <3>3, <3>5, <3>6
    <2>3. CASE /\ g = h
               /\ Install(h) \/ SetAck(h) \/ SnapshotRules(h) \/ SnapshotIdempotency(h)
                    \/ Write(h) \/ WriteFails(h)
      <3>1. /\ conn[h].pc \in Acquired \ {"complete"}
            /\ conn'[h].cmd = conn[h].cmd /\ conn'[h].at = conn[h].at
        <4>1. CASE Install(h)
          BY <4>1, InstallEffect DEF Moves, Acquired
        <4>2. CASE SetAck(h)
          BY <4>2, SetAckEffect DEF Moves, Acquired
        <4>3. CASE SnapshotRules(h)
          BY <4>3, SnapshotRulesEffect DEF Moves, Acquired
        <4>4. CASE SnapshotIdempotency(h)
          BY <4>4, SnapshotIdempotencyEffect DEF Moves, Acquired
        <4>5. CASE Write(h) \/ WriteFails(h)
          BY <4>5, WriteEffect DEF Moves, Acquired
        <4>. QED
          BY <2>3, <4>1, <4>2, <4>3, <4>4, <4>5
      <3>2. r \in Observable
        BY <3>1, CompleteEffect, ObservableStep
      <3>. QED
        BY <1>0, <1>2, <2>3, <3>1, <3>2 DEF AckInv, LocalAck
    <2>4. CASE /\ g = h
               /\ (\E c \in Commands : Begin(h, c)) \/ Wake(h) \/ WaitTimeout(h)
                    \/ Complete(h) \/ Abandon(h)
      <3>1. \/ conn'[h] = conn[h] /\ conn[h] = Idle
            \/ conn'[h] = Idle
            \/ conn'[h].pc \in {"wait", "slot"}
        <4>1. ASSUME NEW c \in Commands, NEW s, NEW req, Start(h, c, s, req) PROVE conn'[h].pc = s
          BY <1>0, <4>1 DEF Start, TypeOK
        <4>. QED
          BY <1>0, <2>4, <4>1, ReturnFacts DEF Begin, Wake, WaitTimeout, Complete, Abandon
      <3>. QED
        BY <1>2, <2>4, <3>1 DEF Idle, Acquired
    <2>. QED
      BY <2>1, <2>2, <2>3, <2>4 DEF Acts, Step
  <1>. QED
    BY <1>1, <1>2 DEF LocalAck, Expiry

(* Every step but a restart keeps what was told.                           *)
LEMMA AckStep ==
    ASSUME ControlInv, ShapeInv, AckInv, [Next]_vars, ~Restart
    PROVE  AckInv'
  <1>1. ASSUME NEW h \in Handlers, Acts(h) PROVE AckInv'
    <2>1. ASSUME NEW q \in Observable', NEW r \in Observable', q.cmd = r.cmd
          PROVE  Ordered(q.ack, r.ack)
      <3>1. CASE q \in Observable /\ r \in Observable
        BY <2>1, <3>1 DEF AckInv
      <3>2. ASSUME NEW o \in Observable, Complete(h), o.cmd = conn[h].cmd
            PROVE  conn[h].ack.at >= Expiry(o.ack)
        <4>1. conn[h].pc = "complete"
          BY <3>2, CompleteEffect
        <4>2. conn[h].ack.at = conn[h].at /\ status = "up"
          BY <1>1, <4>1, OthersKept DEF ShapeInv, LocalShape, Acked
        <4>. QED
          BY <3>2, <4>1, <4>2 DEF AckInv, LocalAck, Acquired
      <3>3. CASE Complete(h) /\ q = Result(h) /\ r \in Observable
        BY <2>1, <3>2, <3>3 DEF Ordered, Result
      <3>4. CASE Complete(h) /\ r = Result(h) /\ q \in Observable
        BY <2>1, <3>2, <3>4 DEF Ordered, Result
      <3>5. CASE q = r
        BY <3>5 DEF Ordered
      <3>. QED
        BY <1>1, <3>1, <3>3, <3>4, <3>5, ObservableStep
    <2>2. \A r \in Observable' : Known(r)'
      BY <1>1, KnownStep
    <2>3. \A g \in Handlers : LocalAck(g)'
      BY <1>1, LocalAckStep
    <2>. QED
      BY <2>1, <2>2, <2>3 DEF AckInv, Ordered, Expiry
  <1>2. CASE Crash \/ RefuseToStart
    <2>1. Observable' \subseteq Observable
      BY <1>2 DEF Crash, RefuseToStart, Observable
    <2>2. status' # "up"
      BY <1>2 DEF Crash, RefuseToStart
    <2>. QED
      BY <2>1, <2>2 DEF AckInv, Ordered, Expiry
  <1>3. CASE Tick \/ UNCHANGED vars
    <2>1. UNCHANGED <<status, entry, rules, conn, released>> /\ Observable' = Observable
      BY <1>3 DEF Tick, vars, Observable
    <2>2. TypeOK /\ now \in Nat /\ now' \in Nat /\ now <= now'
      BY NowStep DEF ControlInv
    <2>3. ASSUME status = "up", NEW r \in Observable PROVE Known(r)'
      <3>1. Known(r) /\ r.cmd \in Commands /\ r.ack \in AckType /\ Expiry(r.ack) \in Nat
        BY <2>2, <2>3, ObservableType, ExpiryFacts DEF AckInv
      <3>2. Enforced(rules, r.cmd, r.ack)'
        BY <2>1, <2>3, <3>1, EnforcedStep DEF Known, Enforced
      <3>. QED
        BY <2>1, <2>2, <3>1, <3>2 DEF Known, Answers, Expiry
    <2>4. ASSUME status = "up", NEW h \in Handlers PROVE LocalAck(h)'
      <3>1. LocalAck(h)
        BY <2>4 DEF AckInv
      <3>2. ASSUME conn[h].pc \in Acked
            PROVE  Enforced(rules, conn[h].cmd, conn[h].ack)'
        <4>1. conn[h].cmd \in Commands /\ conn[h].ack \in AckType
          BY <3>2, ExecutorFacts DEF Acked, Stages
        <4>2. ASSUME NEW c \in Commands, NEW ack \in AckType, Enforced(rules, c, ack)
              PROVE  ack.outcome = "applied" /\ ack.until > now' => rules'[c.target] >= ack.until
          BY <2>1, <2>4, <4>2, EnforcedStep DEF Enforced
        <4>. QED
          BY <2>1, <3>1, <3>2, <4>1, <4>2 DEF LocalAck, Enforced
      <3>. QED
        BY <2>1, <3>1, <3>2 DEF LocalAck, Expiry
    <2>. QED
      BY <2>1, <2>3, <2>4 DEF AckInv, Ordered, Expiry
  <1>. QED
    BY <1>1, <1>2, <1>3, Steps

(* A restart keeps it when the file does.                                  *)
LEMMA RestoredEntries ==
    ASSUME TypeOK, ShapeInv, Restart, NEW i \in file.idem
    PROVE  /\ i.key \in Keys /\ i.cmd \in Commands /\ i.ack \in AckType
           /\ entry'[i.key] # NoEntry /\ entry'[i.key].completed
           /\ entry'[i.key].cmd = i.cmd /\ entry'[i.key].ack = i.ack
  <1>1. i \in IdemType /\ i.key \in Keys /\ i.cmd \in Commands /\ i.ack \in AckType
    BY DEF TypeOK, FileType, IdemType
  <1>2. PICK j \in file.idem :
          /\ j.key = i.key
          /\ entry'[i.key] = [req |-> j.ack.req, cmd |-> j.cmd, ack |-> j.ack,
                              completed |-> TRUE, expires |-> j.expires]
    BY <1>1, RestartEffect
  <1>3. j = i
    BY <1>2 DEF ShapeInv, WellKept
  <1>. QED
    BY <1>1, <1>2, <1>3 DEF NoEntry

LEMMA ObservableRestart ==
    ASSUME TypeOK, Restart, NEW r \in Observable'
    PROVE  r \in released \/ \E i \in file.idem : r = [cmd |-> i.cmd, ack |-> i.ack]
  <1>1. ASSUME NEW k \in Keys, entry'[k] # NoEntry, r = [cmd |-> entry'[k].cmd, ack |-> entry'[k].ack]
        PROVE  \E i \in file.idem : r = [cmd |-> i.cmd, ack |-> i.ack]
    <2>1. PICK i \in file.idem :
             entry'[k] = [req |-> i.ack.req, cmd |-> i.cmd, ack |-> i.ack,
                          completed |-> TRUE, expires |-> i.expires]
      BY <1>1, RestartEffect
    <2>. QED
      BY <1>1, <2>1
  <1>. QED
    BY <1>1, RestartEffect DEF Observable

LEMMA AckRestart ==
    ASSUME ControlInv, ShapeInv, AckInv, FileInv, Restart
    PROVE  AckInv' /\ \A r \in Observable' : Saved(file, r.cmd, r.ack)'
  <1>0. /\ TypeOK /\ status' = "up" /\ UNCHANGED <<now, file, conn>>
        /\ \A h \in Handlers : conn[h] = Idle
    BY RestartEffect DEF ControlInv, OwnInv
  <1>1. ASSUME NEW i \in file.idem, NEW j \in file.idem, i.cmd = j.cmd PROVE i = j
    BY <1>1 DEF ShapeInv, WellKept
  <1>2. ASSUME NEW r \in Observable' PROVE Saved(file, r.cmd, r.ack)
    <2>1. CASE r \in released
      BY <2>1 DEF FileInv, Observable
    <2>2. ASSUME NEW i \in file.idem, r = [cmd |-> i.cmd, ack |-> i.ack]
          PROVE  Saved(file, r.cmd, r.ack)
      BY <1>1, <2>2 DEF FileInv, Coherent, Saved, Ordered
    <2>. QED
      BY <1>0, <2>1, <2>2, ObservableRestart
  <1>3. ASSUME NEW q \in Observable', NEW r \in Observable', q.cmd = r.cmd
        PROVE  Ordered(q.ack, r.ack)
    <2>1. CASE q \in released /\ r \in released
      BY <1>3, <2>1 DEF AckInv, Observable
    <2>2. ASSUME NEW i \in file.idem, r = [cmd |-> i.cmd, ack |-> i.ack]
          PROVE  Ordered(q.ack, r.ack)
      BY <1>2, <1>3, <2>2 DEF Saved
    <2>3. ASSUME NEW i \in file.idem, q = [cmd |-> i.cmd, ack |-> i.ack]
          PROVE  Ordered(q.ack, r.ack)
      BY <1>2, <1>3, <2>3 DEF Saved, Ordered
    <2>. QED
      BY <1>0, <2>1, <2>2, <2>3, ObservableRestart
  <1>4. ASSUME NEW r \in Observable' PROVE Known(r)'
    <2>1. r.cmd \in Commands /\ r.ack \in AckType /\ r.cmd.target \in Targets
      <3>1. TypeOK'
        BY <1>0, ProcessControl DEF ControlInv
      <3>2. \A x \in Observable' : x.cmd \in Commands /\ x.ack \in AckType
        BY <1>0, ObservableRestart, RestoredEntries DEF TypeOK
      <3>. QED
        BY <3>2, CommandFacts
    <2>2. Enforced(rules, r.cmd, r.ack)'
      <3>1. file.rules \in [Targets -> Nat] /\ r.ack.until \in Nat /\ now \in Nat
        BY <1>0, <2>1 DEF TypeOK, FileType, AckType
      <3>2. \A t \in Targets : file.rules[t] > now => rules'[t] = file.rules[t]
        BY <1>0, RestartEffect
      <3>3. Enforced(file.rules, r.cmd, r.ack)
        BY <1>2 DEF Saved
      <3>. QED
        BY <1>0, <2>1, <3>1, <3>2, <3>3 DEF Enforced
    <2>3. CASE \E i \in file.idem : i.cmd = r.cmd /\ i.ack = r.ack
      <3>1. PICK i \in file.idem : i.cmd = r.cmd /\ i.ack = r.ack
        BY <2>3
      <3>2. i.key = r.cmd.key
        BY <3>1 DEF ShapeInv, WellKept
      <3>3. Answers(r.cmd.key, r)'
        BY <1>0, <3>1, <3>2, RestoredEntries DEF Answers
      <3>. QED
        BY <2>2, <3>3 DEF Known
    <2>4. CASE Expiry(r.ack) <= now
      BY <1>0, <2>2, <2>4 DEF Known, Expiry
    <2>. QED
      BY <1>2, <2>3, <2>4 DEF Saved
  <1>5. \A h \in Handlers : LocalAck(h)'
    BY <1>0 DEF LocalAck, Idle, Acked, Acquired
  <1>6. AckInv'
    BY <1>3, <1>4, <1>5 DEF AckInv, Ordered, Expiry
  <1>7. \A r \in Observable' : Saved(file, r.cmd, r.ack)'
    BY <1>0, <1>2 DEF Saved, Enforced, Ordered, Expiry
  <1>. QED
    BY <1>6, <1>7

-----------------------------------------------------------------------------
(* The state file, while commands do not overlap.                          *)

LEMMA SlotStep ==
    ASSUME ControlInv, NEW h \in Handlers, Acts(h)
    PROVE  \A g \in slots : g # h => g \in slots'
  <1>1. CASE Acquire(h)
    BY <1>1, AcquireEffect
  <1>2. CASE ~Acquire(h)
    <2>1. slots' = slots \/ slots' = slots \ {h}
      BY <1>2 DEF Acts, Step, Begin, Wake, WaitTimeout, Install, SetAck, SnapshotRules,
                  SnapshotIdempotency, Write, WriteFails, Complete, Abandon, Return
    <2>. QED
      BY <2>1
  <1>. QED
    BY <1>1, <1>2

LEMMA ReservedStep ==
    ASSUME ControlInv, FileInv, NEW h \in Handlers, Acts(h), NEW k \in Keys
    PROVE  Reserved(k)'
  <1>. SUFFICES ASSUME entry'[k] # NoEntry, ~entry'[k].completed, entry'[k].ack # NoAck
                PROVE  \E g \in slots' : conn'[g].cmd.key = k
    BY DEF Reserved
  <1>0. TypeOK /\ Same(h) /\ slots \subseteq Handlers
    BY OthersKept DEF ControlInv, TypeOK
  <1>1. CASE entry'[k] = entry[k]
    <2>1. PICK g \in slots : conn[g].cmd.key = k
      BY <1>1 DEF FileInv, Reserved
    <2>2. CASE g # h
      BY <1>0, <2>1, <2>2, SlotStep DEF Same
    <2>3. CASE g = h
      <3>1. Executing(h) /\ conn[h].pc \in Stages \ {"wait"}
        BY <2>3 DEF ControlInv, SlotsReturned, Executing
      <3>2. Own(h, k) /\ entry[k] \in EntryType
        BY <2>1, <2>3, <3>1, ExecutorFacts DEF Owns, Own
      <3>3. ~Abandon(h)
        <4>1. ASSUME Abandon(h) PROVE entry'[k] = NoEntry
          BY <1>0, <3>2, <4>1, AbandonEffect DEF TypeOK, Own
        <4>. QED
          BY <4>1
      <3>4. ~Complete(h)
        <4>1. ASSUME Complete(h) PROVE entry'[k] = [entry[k] EXCEPT !.completed = TRUE]
          BY <1>0, <1>1, <3>2, <4>1, CompleteEffect DEF TypeOK, Own
        <4>. QED
          BY <3>2, <4>1 DEF EntryType
      <3>5. ~Wake(h) /\ ~WaitTimeout(h) /\ \A c \in Commands : ~Begin(h, c)
        BY <3>1 DEF Wake, WaitTimeout, Begin, At, Idle, Stages
      <3>6. conn'[h].cmd = conn[h].cmd
        BY <3>3, <3>4, <3>5, AcquireEffect, InstallEffect, SetAckEffect, SnapshotRulesEffect,
           SnapshotIdempotencyEffect, WriteEffect DEF Acts, Step, Moves
      <3>7. h \in slots'
        BY <2>3, <3>3, <3>4, <3>5, AcquireEffect, InstallEffect, SetAckEffect, SnapshotRulesEffect,
           SnapshotIdempotencyEffect, WriteEffect DEF Acts, Step
      <3>. QED
        BY <2>1, <2>3, <3>6, <3>7
    <2>. QED
      BY <2>2, <2>3
  <1>2. CASE SetAck(h) /\ Own(h, k)
    <2>1. h \in slots' /\ conn'[h].cmd = conn[h].cmd
      BY <1>2, SetAckEffect DEF Moves, ControlInv, OwnInv, Acquired
    <2>. QED
      BY <1>2, <2>1 DEF Own
  <1>3. CASE Complete(h) /\ Own(h, k) /\ entry'[k] = [entry[k] EXCEPT !.completed = TRUE]
    BY <1>0, <1>3 DEF TypeOK, EntryType, Own
  <1>. QED
    BY <1>1, <1>2, <1>3, EntryEffect DEF Fresh

(* What h saves: all that may be told, and nothing else.                   *)
LEMMA SnapshotSaves ==
    ASSUME ControlInv, ShapeInv, AckInv, FileInv, NEW h \in Handlers, SnapshotIdempotency(h)
    PROVE  /\ \A i \in Saves(h) : [cmd |-> i.cmd, ack |-> i.ack] \in Observable \cup {Result(h)}
           /\ \A r \in Observable \cup {Result(h)} :
                (\E i \in Saves(h) : i.cmd = r.cmd /\ i.ack = r.ack) \/ Expiry(r.ack) <= now
           /\ \A q, r \in Observable \cup {Result(h)} : q.cmd = r.cmd => Ordered(q.ack, r.ack)
  <1>. DEFINE own == conn[h].cmd.key
              at  == conn[h].at
  <1>0. /\ conn[h].pc = "snapIdem" /\ conn[h].pc \in Stages \ {"wait"} /\ conn[h].pc \in Acked
        /\ conn[h].pc \in Acquired /\ conn[h].pc \in Stored
        /\ entry' = CleanEntries(at)
    BY SnapshotIdempotencyEffect DEF Stages, Acked, Acquired, Stored
  <1>1. /\ TypeOK /\ status = "up" /\ Executing(h) /\ Owns(h) /\ own \in Keys
        /\ conn[h].ack \in AckType /\ at \in Nat /\ now \in Nat /\ at <= now
        /\ h \in slots
    BY <1>0, ExecutorFacts DEF ControlInv, OwnInv
  <1>2. conn[h].ack.at = at /\ conn[h].ack # NoAck /\ entry[own].ack = conn[h].ack
    BY <1>0 DEF ShapeInv, LocalShape, NoAck
  <1>3. ASSUME NEW k \in Keys, entry'[k] # NoEntry PROVE entry'[k] = entry[k]
    BY <1>0, <1>1, <1>3, CleanEntriesFacts
  <1>4. ASSUME NEW k \in SavedKeys(h)
        PROVE  [cmd |-> entry'[k].cmd, ack |-> entry'[k].ack] \in Observable \cup {Result(h)}
    <2>1. k \in Keys /\ entry[k] # NoEntry /\ entry[k].ack # NoAck /\ entry'[k] = entry[k]
      BY <1>3 DEF SavedKeys
    <2>2. CASE entry[k].completed
      BY <2>1, <2>2 DEF Observable
    <2>3. CASE ~entry[k].completed
      <3>1. k = own
        BY <1>1, <2>1, <2>3 DEF FileInv, OneAtATime, Reserved
      <3>. QED
        BY <1>1, <1>2, <2>1, <3>1 DEF Owns, Result
    <2>. QED
      BY <2>2, <2>3
  <1>5. \A i \in Saves(h) : [cmd |-> i.cmd, ack |-> i.ack] \in Observable \cup {Result(h)}
    BY <1>4 DEF Saves
  <1>6. ASSUME NEW k \in SavedKeys(h)
        PROVE  \E i \in Saves(h) : i.cmd = entry'[k].cmd /\ i.ack = entry'[k].ack
    <2>. DEFINE i == [key |-> k, cmd |-> entry'[k].cmd, ack |-> entry'[k].ack,
                      expires |-> entry'[k].expires]
    <2>1. i \in Saves(h)
      BY DEF Saves
    <2>2. i.cmd = entry'[k].cmd /\ i.ack = entry'[k].ack
      OBVIOUS
    <2>. QED
      BY <2>1, <2>2
  <1>7. ASSUME NEW r \in Observable
        PROVE  (\E i \in Saves(h) : i.cmd = r.cmd /\ i.ack = r.ack) \/ Expiry(r.ack) <= now
    <2>. DEFINE k == r.cmd.key
    <2>1. k \in Keys /\ Expiry(r.ack) \in Nat /\ Known(r)
      BY <1>1, ObservableType, CommandFacts, ExpiryFacts DEF AckInv
    <2>2. CASE Answers(k, r) /\ Expiry(r.ack) > at
      <3>1. entry[k].expires = Expiry(r.ack) /\ entry[k].ack # NoAck
        BY <2>1, <2>2 DEF Answers, ShapeInv, EntryShape, Made
      <3>2. entry'[k] = entry[k]
        BY <1>0, <1>1, <2>1, <2>2, <3>1, CleanEntriesFacts DEF Answers
      <3>3. k \in SavedKeys(h)
        BY <2>1, <2>2, <3>1, <3>2 DEF SavedKeys, Answers
      <3>. QED
        BY <1>6, <2>2, <3>2, <3>3 DEF Answers
    <2>3. CASE Expiry(r.ack) <= at
      BY <1>1, <2>1, <2>3
    <2>. QED
      BY <1>1, <2>1, <2>2, <2>3 DEF Known
  <1>8. \E i \in Saves(h) : i.cmd = conn[h].cmd /\ i.ack = conn[h].ack
    <2>1. entry'[own] = entry[own] /\ entry[own] # NoEntry /\ entry[own].cmd = conn[h].cmd
      BY <1>0, <1>1, CleanKeepsOwned DEF Owns
    <2>2. entry[own].expires = Expiry(conn[h].ack)
      BY <1>1, <1>2, <2>1 DEF ShapeInv, EntryShape, Made
    <2>3. own \in SavedKeys(h)
      BY <1>1, <1>2, <2>1, <2>2, ExpiryFacts DEF SavedKeys
    <2>. QED
      BY <1>2, <1>6, <2>1, <2>3
  <1>9. ASSUME NEW r \in Observable, r.cmd = conn[h].cmd PROVE conn[h].ack.at >= Expiry(r.ack)
    BY <1>0, <1>1, <1>2, <1>9 DEF AckInv, LocalAck
  <1>10. \A q, r \in Observable \cup {Result(h)} : q.cmd = r.cmd => Ordered(q.ack, r.ack)
    BY <1>9 DEF AckInv, Ordered, Result
  <1>11. \A r \in Observable \cup {Result(h)} :
           (\E i \in Saves(h) : i.cmd = r.cmd /\ i.ack = r.ack) \/ Expiry(r.ack) <= now
    BY <1>7, <1>8 DEF Result
  <1>. QED
    BY <1>5, <1>10, <1>11

(* Time only weakens what a file has to say.                               *)
LEMMA SavedLater ==
    ASSUME TypeOK, [Next]_vars, NEW c, NEW ack \in AckType, NEW f
    PROVE  /\ (ack.outcome = "applied" /\ ack.until > now => f.rules[c.target] >= ack.until)
                => (ack.outcome = "applied" /\ ack.until > now' => f.rules[c.target] >= ack.until)
           /\ Expiry(ack) <= now => Expiry(ack) <= now'
  <1>1. now \in Nat /\ now' \in Nat /\ now <= now'
    BY NowStep
  <1>2. ack.until \in Nat /\ Expiry(ack) \in Nat
    BY ExpiryFacts DEF AckType
  <1>. QED
    BY <1>1, <1>2

(* The snapshot of h under steps of its own.                               *)
LEMMA LocalFileStep ==
    ASSUME ControlInv, ShapeInv, AckInv, FileInv, NEW h \in Handlers, Acts(h)
    PROVE  LocalFile(h)'
  <1>. USE DEF Coherent, Saved, Enforced, Ordered, Expiry
  <1>0. TypeOK /\ now' = now /\ status' = "up" /\ [Next]_vars /\ ~Restart
    BY OthersKept DEF ControlInv, Next, Acts, Restart
  <1>1. ASSUME conn'[h].pc \notin {"snapIdem", "write", "complete"} PROVE LocalFile(h)'
    BY <1>1 DEF LocalFile
  <1>2. CASE SnapshotRules(h)
    <2>1. conn'[h].pc = "snapIdem" /\ conn'[h].snap.rules = rules'
      BY <1>2, SnapshotRulesEffect DEF Moves
    <2>2. \A r \in Observable' : Enforced(rules, r.cmd, r.ack)'
      BY <1>0, AckStep DEF AckInv, Known
    <2>3. Enforced(rules, conn[h].cmd, conn[h].ack)'
      BY <1>0, <2>1, AckStep DEF AckInv, LocalAck, Acked
    <2>. QED
      BY <2>1, <2>2, <2>3 DEF LocalFile, Result
  <1>3. CASE SnapshotIdempotency(h)
    <2>1. /\ conn[h].pc = "snapIdem" /\ conn'[h].pc = "write"
          /\ conn'[h].cmd = conn[h].cmd /\ conn'[h].ack = conn[h].ack
          /\ conn'[h].snap.rules = conn[h].snap.rules /\ conn'[h].snap.idem = Saves(h)
      BY <1>3, SnapshotIdempotencyEffect DEF Moves
    <2>2. Observable' \subseteq Observable /\ Result(h)' = Result(h)
      BY <2>1, ObservableStep, CompleteEffect DEF Result
    <2>3. \A r \in Observable \cup {Result(h)} : Enforced(conn[h].snap.rules, r.cmd, r.ack)
      BY <2>1 DEF FileInv, LocalFile
    <2>4. \A i \in Saves(h) : Enforced(conn[h].snap.rules, i.cmd, i.ack)
      BY <1>3, <2>3, SnapshotSaves
    <2>5. ASSUME NEW r \in Observable \cup {Result(h)}, NEW i \in Saves(h), i.cmd = r.cmd
          PROVE  Ordered(r.ack, i.ack)
      BY <1>3, <2>5, SnapshotSaves
    <2>6. \A r \in Observable \cup {Result(h)} : Saved(conn[h].snap, r.cmd, r.ack)'
      BY <1>0, <1>3, <2>1, <2>3, <2>5, SnapshotSaves
    <2>. QED
      BY <1>0, <2>1, <2>2, <2>3, <2>4, <2>6 DEF LocalFile
  <1>4. CASE Write(h) \/ WriteFails(h)
    <2>1. CASE Moves(h, "abandon")
      BY <1>1, <2>1 DEF Moves
    <2>2. CASE Moves(h, "complete") /\ file' = conn[h].snap
      <3>1. conn[h].pc = "write" /\ conn'[h].pc = "complete" /\ conn'[h].cmd = conn[h].cmd
            /\ conn'[h].ack = conn[h].ack
        BY <1>4, <2>2, WriteEffect DEF Moves
      <3>2. Saved(conn[h].snap, conn[h].cmd, conn[h].ack)
        <4>1. \A r \in Observable \cup {Result(h)} : Saved(conn[h].snap, r.cmd, r.ack)
          BY <3>1 DEF FileInv, LocalFile
        <4>2. Result(h).cmd = conn[h].cmd /\ Result(h).ack = conn[h].ack
          BY DEF Result
        <4>. HIDE DEF Saved, Enforced, Ordered, Expiry
        <4>. QED
          BY <4>1, <4>2
      <3>. QED
        BY <1>0, <2>2, <3>1, <3>2 DEF LocalFile
    <2>. QED
      BY <1>4, <2>1, <2>2, WriteEffect
  <1>5. CASE Acquire(h) \/ Install(h) \/ SetAck(h)
    <2>1. conn'[h].pc \in {"abandon", "ack", "install", "snapRules"}
      BY <1>5, AcquireEffect, InstallEffect, SetAckEffect DEF Moves
    <2>. QED
      BY <1>1, <2>1
  <1>6. CASE (\E c \in Commands : Begin(h, c)) \/ Wake(h) \/ WaitTimeout(h) \/ Complete(h) \/ Abandon(h)
    <2>1. \/ conn'[h] = conn[h] /\ conn[h] = Idle
          \/ conn'[h] = Idle
          \/ conn'[h].pc \in {"wait", "slot"}
      <3>1. ASSUME NEW c \in Commands, NEW s, NEW req, Start(h, c, s, req) PROVE conn'[h].pc = s
        BY <1>0, <3>1 DEF Start, TypeOK
      <3>. QED
        BY <1>0, <1>6, <3>1, ReturnFacts DEF Begin, Wake, WaitTimeout, Complete, Abandon
    <2>. QED
      BY <1>1, <2>1 DEF Idle
  <1>. QED
    BY <1>2, <1>3, <1>4, <1>5, <1>6 DEF Acts, Step

(* ... and under steps of another, which cannot be at the rename or at the *)
(* completion while h holds the only slot.                                 *)
LEMMA LocalFileFrame ==
    ASSUME ControlInv, ShapeInv, FileInv, NEW h \in Handlers, Acts(h),
           NEW g \in Handlers, g # h
    PROVE  LocalFile(g)'
  <1>1. now' = now /\ conn'[g] = conn[g]
    BY OthersKept DEF Same
  <1>2. CASE conn[g].pc \notin {"snapIdem", "write", "complete"}
    BY <1>1, <1>2 DEF LocalFile
  <1>3. CASE conn[g].pc \in {"snapIdem", "write", "complete"}
    <2>1. conn[h].pc \notin Acquired
      BY <1>3 DEF ControlInv, OwnInv, FileInv, OneAtATime, Acquired
    <2>2. UNCHANGED file
      BY <2>1, FileStep DEF Acquired
    <2>3. Observable' \subseteq Observable
      BY <2>1, ObservableStep, CompleteEffect DEF Acquired
    <2>4. LocalFile(g)
      BY DEF FileInv
    <2>. QED
      BY <1>1, <2>2, <2>3, <2>4
         DEF LocalFile, Coherent, Saved, Enforced, Ordered, Expiry, Result
  <1>. QED
    BY <1>2, <1>3

LEMMA FileStepKept ==
    ASSUME ControlInv, ShapeInv, AckInv, FileInv, [Next]_vars, OneAtATime'
    PROVE  FileInv'
  <1>. USE DEF Coherent, Saved, Enforced, Ordered, Expiry
  <1>0. TypeOK
    BY DEF ControlInv
  <1>1. ASSUME NEW h \in Handlers, Acts(h) PROVE FileInv'
    <2>0. now' = now
      BY <1>1, OthersKept
    <2>2. \A k \in Keys : Reserved(k)'
      BY <1>1, ReservedStep
    <2>3. \A g \in Handlers : LocalFile(g)'
      BY <1>1, LocalFileStep, LocalFileFrame
    <2>4. Coherent(file)'
      BY <1>1, <2>0, FileStep DEF FileInv, LocalFile
    <2>5. ASSUME NEW r \in Observable' PROVE Saved(file, r.cmd, r.ack)'
      <3>1. CASE r \in Observable
        BY <1>1, <2>0, <3>1, FileStep DEF FileInv, LocalFile
      <3>2. CASE Complete(h) /\ r = Result(h)
        <4>1. conn[h].pc = "complete" /\ UNCHANGED file /\ r.cmd = conn[h].cmd /\ r.ack = conn[h].ack
          BY <3>2, CompleteEffect DEF Result
        <4>. QED
          BY <2>0, <4>1 DEF FileInv, LocalFile
      <3>. QED
        BY <1>1, <3>1, <3>2, ObservableStep
    <2>. QED
      BY <2>2, <2>3, <2>4, <2>5 DEF FileInv
  <1>2. CASE Crash
    <2>1. /\ slots' = {} /\ UNCHANGED <<now, file>> /\ Observable' \subseteq Observable
          /\ \A k \in Keys : entry'[k] = NoEntry
          /\ \A h \in Handlers : conn'[h] = Idle
      BY <1>2 DEF Crash, Observable
    <2>2. \A h \in Handlers : LocalFile(h)'
      BY <2>1 DEF LocalFile, Idle
    <2>. QED
      BY <2>1, <2>2 DEF FileInv, Reserved
  <1>3. CASE Restart
    <2>1. /\ UNCHANGED <<now, slots, file, conn>>
          /\ \A h \in Handlers : conn[h] = Idle
      BY <1>0, <1>3, RestartEffect DEF ControlInv, OwnInv
    <2>2. \A h \in Handlers : LocalFile(h)'
      BY <2>1 DEF LocalFile, Idle
    <2>3. ASSUME NEW k \in Keys PROVE entry'[k] = NoEntry \/ entry'[k].completed
      BY <1>0, <1>3, RestartEffect
    <2>4. \A r \in Observable' : Saved(file, r.cmd, r.ack)'
      BY <1>3, AckRestart
    <2>. QED
      BY <2>1, <2>2, <2>3, <2>4 DEF FileInv, Reserved
  <1>4. CASE RefuseToStart \/ Tick \/ UNCHANGED vars
    <2>1. UNCHANGED <<entry, slots, file, conn, released>>
      BY <1>4 DEF RefuseToStart, Tick, vars
    <2>2. Observable' = Observable /\ \A h \in Handlers : Result(h)' = Result(h)
      BY <2>1 DEF Observable, Result
    <2>3. ASSUME NEW r \in Observable PROVE r.ack \in AckType
      BY <1>0, ObservableType
    <2>4. Coherent(file)'
      <3>1. \A i \in file.idem : i.ack \in AckType
        BY <1>0 DEF TypeOK, FileType, IdemType
      <3>. QED
        BY <1>0, <2>1, <3>1, SavedLater DEF FileInv
    <2>5. \A r \in Observable : Saved(file, r.cmd, r.ack)'
      BY <1>0, <2>1, <2>3, SavedLater DEF FileInv
    <2>6. ASSUME NEW h \in Handlers PROVE LocalFile(h)'
      <3>1. CASE conn[h].pc \notin {"snapIdem", "write", "complete"}
        BY <2>1, <3>1 DEF LocalFile
      <3>2. CASE conn[h].pc \in {"snapIdem", "write", "complete"}
        <4>1. conn[h].snap \in FileType /\ conn[h].ack \in AckType
          BY <3>2, ExecutorFacts DEF Stages
        <4>2. \A i \in conn[h].snap.idem : i.ack \in AckType
          BY <4>1 DEF FileType, IdemType
        <4>3. \A r \in Observable \cup {Result(h)} : r.ack \in AckType
          BY <2>3, <4>1 DEF Result
        <4>4. LocalFile(h)
          BY DEF FileInv
        <4>5. \A r \in Observable \cup {Result(h)} :
                conn[h].pc \in {"snapIdem", "write"} =>
                    Enforced(conn[h].snap.rules, r.cmd, r.ack)'
          BY <1>0, <2>1, <4>3, <4>4, SavedLater DEF LocalFile
        <4>6. conn[h].pc = "write" => Coherent(conn[h].snap)'
          BY <1>0, <2>1, <4>2, <4>4, SavedLater DEF LocalFile
        <4>7. \A r \in Observable \cup {Result(h)} :
                conn[h].pc = "write" => Saved(conn[h].snap, r.cmd, r.ack)'
          BY <1>0, <2>1, <4>3, <4>4, SavedLater DEF LocalFile
        <4>8. conn[h].pc = "complete" => Saved(file, conn[h].cmd, conn[h].ack)'
          BY <1>0, <2>1, <4>1, <4>4, SavedLater DEF LocalFile
        <4>. HIDE DEF Coherent, Saved, Enforced, Ordered, Expiry
        <4>. QED
          BY <2>1, <2>2, <4>5, <4>6, <4>7, <4>8 DEF LocalFile
      <3>. QED
        BY <3>1, <3>2
    <2>. QED
      BY <2>1, <2>2, <2>4, <2>5, <2>6 DEF FileInv, Reserved
  <1>. QED
    BY <1>1, <1>2, <1>3, <1>4, Steps

-----------------------------------------------------------------------------
(* The promises of the acknowledgements.                                   *)

AcrossRestarts == ControlInv /\ ShapeInv /\ AckInv /\ FileInv

WithoutRestart == ControlInv /\ ShapeInv /\ AckInv

LEMMA PromisesInit == Init => AcrossRestarts /\ WithoutRestart
  <1>. SUFFICES ASSUME Init PROVE AcrossRestarts /\ WithoutRestart
    OBVIOUS
  <1>1. Observable = {} /\ status = "up" /\ slots = {} /\ file.idem = {}
    BY DEF Init, Observable, EmptyFile
  <1>2. \A h \in Handlers : conn[h] = Idle
    BY DEF Init
  <1>3. AckInv
    BY <1>1, <1>2 DEF AckInv, LocalAck, Idle, Acked, Acquired
  <1>4. FileInv
    BY <1>1, <1>2 DEF Init, FileInv, OneAtATime, LocalFile, Idle, Coherent, Reserved
  <1>. QED
    BY <1>1, <1>3, <1>4, ControlInit, ShapeInit DEF AcrossRestarts, WithoutRestart

(* While commands do not overlap, across any number of crashes.            *)
LEMMA OneByOneAlways == Spec /\ []OneAtATime => []AcrossRestarts
  <1>1. AcrossRestarts /\ [Next]_vars /\ OneAtATime' => AcrossRestarts'
    BY ControlStep, ShapeStep, AckStep, AckRestart, FileStepKept DEF AcrossRestarts
  <1>2. Init => AcrossRestarts
    BY PromisesInit
  <1>. QED
    BY <1>1, <1>2, PTL DEF Spec

(* With overlapping commands, in one life of the process.                  *)
LEMMA OneLifeAlways == Spec /\ []Alive => []WithoutRestart
  <1>1. WithoutRestart /\ [Next]_vars /\ Alive => WithoutRestart'
    <2>. SUFFICES ASSUME WithoutRestart, [Next]_vars, Alive PROVE WithoutRestart'
      OBVIOUS
    <2>1. ~Restart
      BY DEF Alive, Restart
    <2>. QED
      BY <2>1, ControlStep, ShapeStep, AckStep DEF WithoutRestart
  <1>2. Init => WithoutRestart
    BY PromisesInit
  <1>. QED
    BY <1>1, <1>2, PTL DEF Spec

LEMMA PromisesKept == AckInv => AppliedAckEnforced /\ DuplicatesGetOriginalAck
  <1>1. released \subseteq Observable
    BY DEF Observable
  <1>2. AckInv => DuplicatesGetOriginalAck
    BY <1>1 DEF AckInv, Ordered, DuplicatesGetOriginalAck
  <1>3. AckInv => AppliedAckEnforced
    BY <1>1 DEF AckInv, Known, Enforced, AppliedAckEnforced
  <1>. QED
    BY <1>2, <1>3

(* An "applied" acknowledgement that was handed out is in force until its  *)
(* deadline: across any number of crashes and restarts if no two commands  *)
(* hold a slot at a time, and with overlapping commands while the process  *)
(* lives (completeRevocation, persistState, restorePersistentState).       *)
THEOREM AppliedAcksEnforced ==
    Spec /\ ([]OneAtATime \/ []Alive) => []AppliedAckEnforced
  <1>1. AcrossRestarts => AppliedAckEnforced
    BY PromisesKept DEF AcrossRestarts
  <1>2. WithoutRestart => AppliedAckEnforced
    BY PromisesKept DEF WithoutRestart
  <1>. QED
    BY <1>1, <1>2, OneByOneAlways, OneLifeAlways, PTL

(* All who send one command are told one acknowledgement, until it has     *)
(* expired (beginRevocation, cachedCompletedRevocation and the cache that  *)
(* restorePersistentState fills), under the same condition.                *)
THEOREM OriginalAcksGiven ==
    Spec /\ ([]OneAtATime \/ []Alive) => []DuplicatesGetOriginalAck
  <1>1. AcrossRestarts => DuplicatesGetOriginalAck
    BY PromisesKept DEF AcrossRestarts
  <1>2. WithoutRestart => DuplicatesGetOriginalAck
    BY PromisesKept DEF WithoutRestart
  <1>. QED
    BY <1>1, <1>2, OneByOneAlways, OneLifeAlways, PTL

(* While commands do not overlap, the state file never holds an "applied"  *)
(* acknowledgement without its rule (persistentStateSnapshot reads the     *)
(* rules and the acknowledgements in two critical sections).               *)
THEOREM FileAlwaysCoherent == Spec /\ []OneAtATime => []FileCoherent
  <1>1. AcrossRestarts => FileCoherent
    BY DEF AcrossRestarts, FileInv, Coherent, Enforced, FileCoherent
  <1>. QED
    BY <1>1, OneByOneAlways, PTL

-----------------------------------------------------------------------------
(* The acknowledgements and the files are true: of their command, and of   *)
(* the rules.                                                              *)

(* An acknowledgement is about its command, as it was when the clock was   *)
(* read.                                                                   *)
Says(cmd, ack, time) ==
    /\ ack.outcome \in {"applied", "already_expired"}
    /\ ack.until = cmd.until /\ ack.at <= time
    /\ ack.outcome = "applied" <=> ack.at < cmd.until
    /\ cmd.until <= ack.at + MaxDeny

LocalSays(h) ==
    /\ conn[h].pc = "install" =>
          conn[h].at < conn[h].cmd.until /\ conn[h].cmd.until <= conn[h].at + MaxDeny
    /\ conn[h].pc \in Acked => Says(conn[h].cmd, conn[h].ack, now)
    /\ conn[h].pc = "write" => \A i \in conn[h].snap.idem : Says(i.cmd, i.ack, now)

EntrySays(k) ==
    entry[k] # NoEntry /\ entry[k].ack # NoAck => Says(entry[k].cmd, entry[k].ack, now)

SaysInv ==
    /\ \A k \in Keys : EntrySays(k)
    /\ \A h \in Handlers : LocalSays(h)
    /\ \A i \in file.idem : Says(i.cmd, i.ack, now)

(* A saved table denies nothing that the rules do not.                     *)
Below(table, over, time) == \A t \in Targets : table[t] > time => table[t] <= over[t]

LocalBelow(h) ==
    conn[h].pc \in {"snapIdem", "write"} => Below(conn[h].snap.rules, rules, now)

BelowInv ==
    status = "up" => Below(file.rules, rules, now) /\ \A h \in Handlers : LocalBelow(h)

LEMMA SaysLater ==
    ASSUME NEW c, NEW ack \in AckType, NEW t \in Nat, NEW u \in Nat, t <= u, Says(c, ack, t)
    PROVE  Says(c, ack, u)
  BY DEF Says, AckType

(* acquireCommand and installRevocation answer for the time they read.     *)
LEMMA LocalSaysStep ==
    ASSUME ControlInv, ShapeInv, SaysInv, NEW h \in Handlers, Acts(h),
           \A k \in Keys : EntrySays(k)'
    PROVE  LocalSays(h)'
  <1>0. TypeOK /\ LocalSays(h) /\ now' = now
    BY OthersKept DEF ControlInv, SaysInv
  <1>1. ASSUME conn'[h].pc \in {"idle", "wait", "slot", "abandon"} PROVE LocalSays(h)'
    BY <1>1 DEF LocalSays, Acked
  <1>2. ASSUME NEW c \in Commands, Begin(h, c) PROVE LocalSays(h)'
    <2>1. CASE UNCHANGED conn
      BY <1>1, <1>2, <2>1 DEF Begin, Idle
    <2>2. ASSUME NEW s \in {"wait", "slot"}, NEW req, Start(h, c, s, req) PROVE LocalSays(h)'
      <3>1. conn'[h].pc = s
        BY <1>0, <2>2 DEF Start, TypeOK
      <3>. QED
        BY <1>1, <3>1
    <2>. QED
      BY <1>2, <2>1, <2>2 DEF Begin
  <1>3. CASE Wake(h) \/ WaitTimeout(h) \/ Complete(h) \/ Abandon(h)
    <2>1. conn'[h] = Idle
      BY <1>0, <1>3, ReturnFacts DEF Wake, WaitTimeout, Complete, Abandon
    <2>. QED
      BY <1>1, <2>1 DEF Idle
  <1>4. CASE Acquire(h)
    <2>0. /\ conn[h].cmd \in Commands /\ conn[h].cmd.until \in Nat /\ now \in Nat
          /\ MaxDeny \in Nat
      BY <1>4, AcquireEffect, ExecutorFacts, PrivateControlAssumption DEF Stages
    <2>1. CASE Moves(h, "abandon")
      BY <1>1, <2>1 DEF Moves
    <2>2. CASE /\ Moves(h, "ack") /\ conn[h].cmd.until <= now
               /\ conn'[h].ack = [outcome |-> "already_expired", until |-> conn[h].cmd.until,
                                  req |-> conn[h].req, at |-> now]
      <3>1. Says(conn[h].cmd, conn'[h].ack, now)
        BY <2>0, <2>2 DEF Says
      <3>. QED
        BY <1>0, <2>2, <3>1 DEF LocalSays, Moves
    <2>3. CASE /\ Moves(h, "install") /\ conn'[h].at = now
               /\ now < conn[h].cmd.until /\ conn[h].cmd.until <= now + MaxDeny
      BY <2>3 DEF LocalSays, Moves, Acked
    <2>. QED
      BY <1>4, <2>1, <2>2, <2>3, AcquireEffect
  <1>5. CASE Install(h)
    <2>0. /\ conn[h].cmd \in Commands /\ conn[h].cmd.until \in Nat /\ now \in Nat
          /\ conn[h].at \in Nat /\ conn[h].at <= now /\ MaxDeny \in Nat
          /\ conn[h].pc = "install"
      BY <1>5, InstallEffect, ExecutorFacts, PrivateControlAssumption DEF Stages
    <2>1. CASE Moves(h, "abandon")
      BY <1>1, <2>1 DEF Moves
    <2>2. CASE /\ Moves(h, "ack")
               /\ conn'[h].ack = [outcome |-> "applied", until |-> conn[h].cmd.until,
                                  req |-> conn[h].req, at |-> conn[h].at]
      <3>1. Says(conn[h].cmd, conn'[h].ack, now)
        BY <1>0, <2>0, <2>2 DEF Says, LocalSays
      <3>. QED
        BY <1>0, <2>2, <3>1 DEF LocalSays, Moves
    <2>. QED
      BY <1>5, <2>1, <2>2, InstallEffect
  <1>6. CASE SetAck(h) \/ SnapshotRules(h) \/ Write(h) \/ WriteFails(h)
    <2>1. /\ conn[h].pc \in Acked /\ conn'[h].cmd = conn[h].cmd /\ conn'[h].ack = conn[h].ack
          /\ conn'[h].pc \in {"snapRules", "snapIdem", "complete", "abandon"}
      BY <1>6, SetAckEffect, SnapshotRulesEffect, WriteEffect DEF Moves, Acked
    <2>. QED
      BY <1>0, <2>1 DEF LocalSays
  <1>7. CASE SnapshotIdempotency(h)
    <2>1. /\ conn[h].pc \in Acked /\ conn'[h].cmd = conn[h].cmd /\ conn'[h].ack = conn[h].ack
          /\ conn'[h].pc = "write" /\ conn'[h].snap.idem = Saves(h)
      BY <1>7, SnapshotIdempotencyEffect DEF Moves, Acked
    <2>2. ASSUME NEW i \in Saves(h) PROVE Says(i.cmd, i.ack, now)
      <3>1. PICK k \in SavedKeys(h) :
               i = [key |-> k, cmd |-> entry'[k].cmd, ack |-> entry'[k].ack,
                    expires |-> entry'[k].expires]
        BY <2>2 DEF Saves
      <3>2. EntrySays(k)' /\ entry'[k] # NoEntry /\ entry'[k].ack # NoAck
        BY <3>1 DEF SavedKeys
      <3>3. Says(entry'[k].cmd, entry'[k].ack, now)
        BY <1>0, <3>2 DEF EntrySays
      <3>. QED
        BY <3>1, <3>3
    <2>. QED
      BY <1>0, <2>1, <2>2 DEF LocalSays
  <1>. QED
    BY <1>2, <1>3, <1>4, <1>5, <1>6, <1>7 DEF Acts, Step

LEMMA EntrySaysStep ==
    ASSUME ControlInv, ShapeInv, SaysInv, NEW h \in Handlers, Acts(h), NEW k \in Keys
    PROVE  EntrySays(k)'
  <1>0. /\ now' = now /\ EntrySays(k) /\ LocalSays(h)
        /\ entry[k] # NoEntry => entry[k] \in EntryType
    BY OthersKept DEF SaysInv, ControlInv, TypeOK
  <1>1. CASE entry'[k] = entry[k] \/ entry'[k] = NoEntry
    BY <1>0, <1>1 DEF EntrySays
  <1>2. CASE Fresh(k)
    BY <1>2 DEF Fresh, EntrySays
  <1>3. CASE /\ SetAck(h) /\ Own(h, k)
             /\ entry'[k] = [entry[k] EXCEPT !.ack = conn[h].ack, !.expires = Expiry(conn[h].ack)]
    <2>1. entry'[k].ack = conn[h].ack /\ entry'[k].cmd = conn[h].cmd
      BY <1>0, <1>3 DEF EntryType, Own
    <2>2. Says(conn[h].cmd, conn[h].ack, now)
      BY <1>0, <1>3, SetAckEffect DEF LocalSays, Acked
    <2>. QED
      BY <1>0, <2>1, <2>2 DEF EntrySays
  <1>4. CASE Own(h, k) /\ entry'[k] = [entry[k] EXCEPT !.completed = TRUE]
    <2>1. entry'[k].ack = entry[k].ack /\ entry'[k].cmd = entry[k].cmd /\ entry[k] # NoEntry
      BY <1>0, <1>4 DEF EntryType, Own
    <2>. QED
      BY <1>0, <2>1 DEF EntrySays
  <1>. QED
    BY <1>1, <1>2, <1>3, <1>4, EntryEffect

LEMMA SaysStep == ControlInv /\ ShapeInv /\ SaysInv /\ [Next]_vars => SaysInv'
  <1>. SUFFICES ASSUME ControlInv, ShapeInv, SaysInv, [Next]_vars PROVE SaysInv'
    OBVIOUS
  <1>0. TypeOK
    BY DEF ControlInv
  <1>1. ASSUME NEW h \in Handlers, Acts(h) PROVE SaysInv'
    <2>1. now' = now /\ Same(h)
      BY <1>1, OthersKept
    <2>2. \A k \in Keys : EntrySays(k)'
      BY <1>1, EntrySaysStep
    <2>3. LocalSays(h)'
      BY <1>1, <2>2, LocalSaysStep
    <2>4. ASSUME NEW g \in Handlers, g # h PROVE LocalSays(g)'
      BY <2>1, <2>4 DEF Same, SaysInv, LocalSays
    <2>5. \A i \in file'.idem : Says(i.cmd, i.ack, now)
      BY <1>1, FileStep DEF SaysInv, LocalSays
    <2>. QED
      BY <2>1, <2>2, <2>3, <2>4, <2>5 DEF SaysInv
  <1>2. CASE Crash
    BY <1>2 DEF Crash, SaysInv, EntrySays, LocalSays, Idle, Acked
  <1>3. CASE Restart
    <2>1. /\ UNCHANGED <<now, file, conn>> /\ \A h \in Handlers : conn[h] = Idle
      BY <1>0, <1>3, RestartEffect DEF ControlInv, OwnInv
    <2>2. ASSUME NEW k \in Keys, entry'[k] # NoEntry PROVE Says(entry'[k].cmd, entry'[k].ack, now)
      <3>1. PICK i \in file.idem :
               entry'[k] = [req |-> i.ack.req, cmd |-> i.cmd, ack |-> i.ack,
                            completed |-> TRUE, expires |-> i.expires]
        BY <1>0, <1>3, <2>2, RestartEffect
      <3>. QED
        BY <3>1 DEF SaysInv
    <2>3. \A h \in Handlers : LocalSays(h)'
      BY <2>1 DEF LocalSays, Idle, Acked
    <2>. QED
      BY <2>1, <2>2, <2>3 DEF SaysInv, EntrySays
  <1>4. CASE RefuseToStart \/ Tick \/ UNCHANGED vars
    <2>1. UNCHANGED <<entry, file, conn>> /\ now \in Nat /\ now' \in Nat /\ now <= now'
      BY <1>0, <1>4, NowStep DEF RefuseToStart, Tick, vars
    <2>2. ASSUME NEW k \in Keys PROVE EntrySays(k)'
      <3>1. entry[k] # NoEntry => entry[k].ack \in AckType
        BY <1>0 DEF TypeOK, EntryType
      <3>. QED
        BY <2>1, <3>1, SaysLater DEF SaysInv, EntrySays
    <2>3. ASSUME NEW f \in FileType, NEW i \in f.idem, Says(i.cmd, i.ack, now)
          PROVE  Says(i.cmd, i.ack, now')
      BY <2>1, <2>3, SaysLater DEF FileType, IdemType
    <2>4. ASSUME NEW h \in Handlers PROVE LocalSays(h)'
      <3>1. CASE conn[h].pc \in Acked
        <4>1. conn[h].ack \in AckType /\ conn[h].snap \in FileType
          BY <3>1, ExecutorFacts DEF Acked, Stages
        <4>. QED
          BY <2>1, <2>3, <3>1, <4>1, SaysLater DEF SaysInv, LocalSays
      <3>2. CASE conn[h].pc \notin Acked
        BY <2>1, <3>2 DEF SaysInv, LocalSays, Acked
      <3>. QED
        BY <3>1, <3>2
    <2>5. \A i \in file'.idem : Says(i.cmd, i.ack, now')
      BY <1>0, <2>1, <2>3 DEF SaysInv, TypeOK
    <2>. QED
      BY <2>2, <2>4, <2>5 DEF SaysInv
  <1>. QED
    BY <1>1, <1>2, <1>3, <1>4, Steps

(* What was saved stays below the rules, which only lose what is past.     *)
LEMMA BelowLater ==
    ASSUME ControlInv, [Next]_vars, status = "up", status' = "up",
           NEW table \in [Targets -> Nat], Below(table, rules, now)
    PROVE  Below(table, rules', now')
  <1>1. /\ rules \in [Targets -> Nat] /\ rules' \in [Targets -> Nat]
        /\ now \in Nat /\ now' \in Nat /\ now <= now' /\ RulesKept
    BY ControlStep, NowStep, RulesStep DEF ControlInv, TypeOK
  <1>. QED
    BY <1>1 DEF Below, RulesKept

LEMMA BelowStep == ControlInv /\ BelowInv /\ [Next]_vars => BelowInv'
  <1>. SUFFICES ASSUME ControlInv, BelowInv, [Next]_vars, status' = "up" PROVE BelowInv'
    BY DEF BelowInv
  <1>0. TypeOK /\ file.rules \in [Targets -> Nat]
    BY DEF ControlInv, TypeOK, FileType
  <1>1. ASSUME NEW h \in Handlers, conn[h].pc \in {"snapIdem", "write"}, status = "up"
        PROVE  Below(conn[h].snap.rules, rules', now')
    <2>1. conn[h].snap.rules \in [Targets -> Nat]
      BY <1>1, ExecutorFacts DEF Stages, FileType
    <2>2. Below(conn[h].snap.rules, rules, now)
      BY <1>1 DEF BelowInv, LocalBelow
    <2>. QED
      BY <1>1, <2>1, <2>2, BelowLater
  <1>2. ASSUME status = "up" PROVE Below(file.rules, rules', now')
    BY <1>0, <1>2, BelowLater DEF BelowInv
  <1>3. ASSUME NEW h \in Handlers, Acts(h) PROVE BelowInv'
    <2>1. status = "up" /\ Same(h)
      BY <1>3, OthersKept
    <2>2. Below(file'.rules, rules', now')
      BY <1>1, <1>2, <1>3, <2>1, FileStep
    <2>3. ASSUME NEW g \in Handlers, g # h PROVE LocalBelow(g)'
      BY <1>1, <2>1, <2>3 DEF Same, LocalBelow
    <2>4. LocalBelow(h)'
      <3>1. CASE SnapshotRules(h)
        <4>1. conn'[h].snap.rules = rules' /\ rules' \in [Targets -> Nat]
          BY <3>1, SnapshotRulesEffect
        <4>. QED
          BY <4>1 DEF LocalBelow, Below
      <3>2. CASE SnapshotIdempotency(h)
        <4>1. conn[h].pc = "snapIdem" /\ conn'[h].snap.rules = conn[h].snap.rules
          BY <3>2, SnapshotIdempotencyEffect
        <4>. QED
          BY <1>1, <2>1, <4>1 DEF LocalBelow
      <3>3. ASSUME NEW c \in Commands, Begin(h, c) PROVE LocalBelow(h)'
        <4>1. conn'[h].pc \in {"idle", "wait", "slot"}
          BY <1>0, <3>3 DEF Begin, Start, Idle, TypeOK
        <4>. QED
          BY <4>1 DEF LocalBelow
      <3>4. CASE Wake(h) \/ WaitTimeout(h) \/ Complete(h) \/ Abandon(h)
        <4>1. conn'[h] = Idle
          BY <1>0, <3>4, ReturnFacts DEF Wake, WaitTimeout, Complete, Abandon
        <4>. QED
          BY <4>1 DEF LocalBelow, Idle
      <3>5. CASE Acquire(h) \/ Install(h) \/ SetAck(h) \/ Write(h) \/ WriteFails(h)
        <4>1. conn'[h].pc \in {"abandon", "ack", "install", "snapRules", "complete"}
          BY <3>5, AcquireEffect, InstallEffect, SetAckEffect, WriteEffect DEF Moves
        <4>. QED
          BY <4>1 DEF LocalBelow
      <3>. QED
        BY <1>3, <3>1, <3>2, <3>3, <3>4, <3>5 DEF Acts, Step
    <2>. QED
      BY <2>2, <2>3, <2>4 DEF BelowInv
  <1>4. CASE Restart
    <2>1. /\ UNCHANGED <<now, file, conn>> /\ \A h \in Handlers : conn[h] = Idle
          /\ \A t \in Targets : file.rules[t] > now => rules'[t] = file.rules[t]
      BY <1>0, <1>4, RestartEffect DEF ControlInv, OwnInv
    <2>. QED
      BY <1>0, <2>1 DEF BelowInv, LocalBelow, Below, Idle
  <1>5. CASE Tick \/ UNCHANGED vars
    <2>1. UNCHANGED <<status, file, conn>>
      BY <1>5 DEF Tick, vars
    <2>. QED
      BY <1>1, <1>2, <2>1 DEF BelowInv, LocalBelow
  <1>. QED
    BY <1>3, <1>4, <1>5, Steps DEF Crash, RefuseToStart

LEMMA TrueAlways == Spec => [](SaysInv /\ BelowInv)
  <1>1. Init => ShapeInv /\ SaysInv /\ BelowInv
    <2>. SUFFICES ASSUME Init PROVE SaysInv /\ BelowInv
      BY ShapeInit
    <2>1. \A h \in Handlers : conn[h] = Idle
      BY DEF Init
    <2>2. \A k \in Keys : entry[k] = NoEntry
      BY DEF Init
    <2>3. file.idem = {} /\ file.rules = rules /\ rules \in [Targets -> Nat]
      BY DEF Init, EmptyFile
    <2>. QED
      BY <2>1, <2>2, <2>3
         DEF SaysInv, EntrySays, LocalSays, BelowInv, LocalBelow, Below, Idle, Acked
  <1>2. ControlInv /\ ShapeInv /\ SaysInv /\ BelowInv /\ [Next]_vars
          => (ShapeInv /\ SaysInv /\ BelowInv)'
    BY ShapeStep, SaysStep, BelowStep
  <1>. QED
    BY <1>1, <1>2, ControlAlways, PTL DEF Spec

-----------------------------------------------------------------------------
(* PrivateControl implements Revocations.                                  *)

LEMMA SubjectsAreTargets == Rev!Subjects = Targets
  BY DEF Rev!Subjects, Targets

LEMMA ForgottenIsExpiry ==
    ASSUME NEW ack \in AckType
    PROVE  Rev!Forgotten(ack) = Expiry(ack)
  BY CommandFacts DEF AckType, Expiry, Later, Rev!Forgotten

(* cleanupLocked with a time in the past drops rules that have lapsed.     *)
LEMMA CleanRulesLapse ==
    ASSUME TypeOK, status = "up", NEW time \in Nat, time <= now
    PROVE  \E S \in SUBSET Rev!Past : CleanRules(time) = Rev!Without(S)
  <1>. DEFINE S == {t \in Targets : ~(rules[t] > time)}
  <1>1. rules \in [Targets -> Nat] /\ now \in Nat
    BY DEF TypeOK
  <1>2. S \in SUBSET Rev!Past
    BY <1>1, SubjectsAreTargets DEF Rev!Past
  <1>3. CleanRules(time) = Rev!Without(S)
    BY <1>1, SubjectsAreTargets DEF CleanRules, Rev!Without
  <1>. QED
    BY <1>2, <1>3

(* A step of a goroutine that changes neither the rules nor what was told. *)
LEMMA Unnoticed ==
    ASSUME status = "up", UNCHANGED <<status, now, rules, released>>
    PROVE  UNCHANGED Rev!revocationVars
  BY DEF Rev!revocationVars

LEMMA InstallRefines ==
    ASSUME ControlInv, NEW h \in Handlers, Install(h)
    PROVE  Rev!RevocationNext
  <1>. DEFINE c == conn[h].cmd
  <1>1. /\ TypeOK /\ status = "up" /\ c \in Commands /\ conn[h].at \in Nat /\ conn[h].at <= now
        /\ UNCHANGED <<status, now, released>>
    BY InstallEffect, ExecutorFacts DEF Stages
  <1>2. PICK S \in SUBSET Rev!Past : CleanRules(conn[h].at) = Rev!Without(S)
    BY <1>1, CleanRulesLapse
  <1>3. CASE rules' = CleanRules(conn[h].at)
    <2>1. Rev!Lapse
      BY <1>1, <1>2, <1>3 DEF Rev!Lapse
    <2>. QED
      BY <2>1 DEF Rev!RevocationNext
  <1>4. CASE rules' = [CleanRules(conn[h].at) EXCEPT ![c.target] = Later(@, c.until)]
    <2>1. rules' = [Rev!Without(S) EXCEPT ![c.target] = IF @ > c.until THEN @ ELSE c.until]
      BY <1>2, <1>4 DEF Later
    <2>2. Rev!Deny(c)
      BY <1>1, <2>1 DEF Rev!Deny
    <2>. QED
      BY <1>1, <2>2 DEF Rev!RevocationNext
  <1>. QED
    BY <1>3, <1>4, InstallEffect

LEMMA SnapshotRulesRefines ==
    ASSUME ControlInv, NEW h \in Handlers, SnapshotRules(h)
    PROVE  Rev!RevocationNext
  <1>1. /\ TypeOK /\ status = "up" /\ conn[h].at \in Nat /\ conn[h].at <= now
        /\ UNCHANGED <<status, now, released>> /\ rules' = CleanRules(conn[h].at)
    BY SnapshotRulesEffect, ExecutorFacts DEF Stages
  <1>2. PICK S \in SUBSET Rev!Past : CleanRules(conn[h].at) = Rev!Without(S)
    BY <1>1, CleanRulesLapse
  <1>3. Rev!Lapse
    BY <1>1, <1>2 DEF Rev!Lapse
  <1>. QED
    BY <1>3 DEF Rev!RevocationNext

(* What is handed out: the cached acknowledgement of an entry, or the one  *)
(* the command just got.                                                   *)
LEMMA ToldStep ==
    ASSUME ControlInv, ShapeInv, SaysInv, NEW h \in Handlers, Acts(h), released' # released
    PROVE  /\ UNCHANGED <<status, now, rules>>
           /\ \E r \in [cmd: Commands, ack: AckType] :
                released' = released \cup {r} /\ Says(r.cmd, r.ack, now)
  <1>0. TypeOK
    BY DEF ControlInv
  <1>1. ASSUME NEW k \in Keys, entry[k] # NoEntry, entry[k].completed
        PROVE  /\ [cmd |-> entry[k].cmd, ack |-> entry[k].ack] \in [cmd: Commands, ack: AckType]
               /\ Says(entry[k].cmd, entry[k].ack, now)
    <2>1. entry[k] \in EntryType /\ entry[k].ack # NoAck
      BY <1>0, <1>1 DEF TypeOK, ShapeInv, EntryShape
    <2>. QED
      BY <1>1, <2>1 DEF EntryType, SaysInv, EntrySays
  <1>2. ASSUME NEW c \in Commands, Begin(h, c)
        PROVE  \E k \in Keys : /\ entry[k] # NoEntry /\ entry[k].completed
                               /\ released' = released \cup {[cmd |-> entry[k].cmd, ack |-> entry[k].ack]}
    <2>1. /\ CleanEntries(now)[c.key] # NoEntry /\ CleanEntries(now)[c.key].cmd = c
          /\ CleanEntries(now)[c.key].completed
          /\ released' = released \cup {[cmd |-> c, ack |-> CleanEntries(now)[c.key].ack]}
      BY <1>2 DEF Begin
    <2>2. c.key \in Keys /\ CleanEntries(now)[c.key] = entry[c.key]
      BY <1>0, <2>1, CommandFacts, CleanEntriesFacts
    <2>. QED
      BY <2>1, <2>2
  <1>3. CASE Wake(h)
    <2>1. conn[h].cmd.key \in Keys
      BY <1>0, <1>3, NotIdle, LocalsType DEF Wake, At, Stages
    <2>2. /\ entry[conn[h].cmd.key] # NoEntry /\ entry[conn[h].cmd.key].completed
          /\ released' = released \cup {[cmd |-> entry[conn[h].cmd.key].cmd,
                                         ack |-> entry[conn[h].cmd.key].ack]}
      BY <1>3 DEF Wake
    <2>3. UNCHANGED <<status, now, rules>>
      BY <1>3 DEF Wake
    <2>. QED
      BY <1>1, <2>1, <2>2, <2>3
  <1>4. CASE Complete(h)
    <2>1. /\ conn[h].pc = "complete" /\ UNCHANGED <<status, now, rules>>
          /\ released' = released \cup {Result(h)}
      BY <1>4, CompleteEffect DEF Result
    <2>2. conn[h].cmd \in Commands /\ conn[h].ack \in AckType
      BY <2>1, ExecutorFacts DEF Stages
    <2>3. Result(h) \in [cmd: Commands, ack: AckType] /\ Says(Result(h).cmd, Result(h).ack, now)
      BY <2>1, <2>2 DEF Result, SaysInv, LocalSays, Acked
    <2>. QED
      BY <2>1, <2>3
  <1>5. ASSUME NEW c \in Commands, Begin(h, c) PROVE UNCHANGED <<status, now, rules>>
    BY <1>5 DEF Begin
  <1>. QED
    BY <1>1, <1>2, <1>3, <1>4, <1>5
       DEF Acts, Step, WaitTimeout, Acquire, Install, SetAck, SnapshotRules,
           SnapshotIdempotency, Write, WriteFails, Abandon

LEMMA TellRefines ==
    ASSUME ControlInv, ShapeInv, SaysInv, AckInv', NEW h \in Handlers, Acts(h),
           released' # released
    PROVE  Rev!RevocationNext
  <1>1. PICK r \in [cmd: Commands, ack: AckType] :
           released' = released \cup {r} /\ Says(r.cmd, r.ack, now)
    BY ToldStep
  <1>2. /\ status = "up" /\ UNCHANGED <<status, now, rules>> /\ now \in Nat
        /\ r.cmd \in Commands /\ r.ack \in AckType
    BY <1>1, OthersKept, ToldStep DEF ControlInv, TypeOK
  <1>3. r \in Observable' /\ released \subseteq Observable'
    BY <1>1 DEF Observable
  <1>4. Rev!Answer(r.cmd, r.ack)
    <2>1. r.ack.at \in 0 .. now
      BY <1>1, <1>2 DEF Says, AckType
    <2>2. r.ack \in [outcome: {"applied", "already_expired"}, until: {r.cmd.until}, req: Nat,
                     at: 0 .. now]
      BY <1>1, <1>2, <2>1 DEF Says, AckType
    <2>. QED
      BY <1>1, <2>2 DEF Says, Rev!Answer
  <1>5. Rev!InForce(rules, r)
    <2>1. Enforced(rules, r.cmd, r.ack)'
      BY <1>2, <1>3 DEF AckInv, Known
    <2>. QED
      BY <1>2, <2>1 DEF Enforced, Rev!InForce
  <1>6. ASSUME NEW q \in released, q.cmd = r.cmd
        PROVE  \/ q.ack = r.ack
               \/ q.ack.at >= Rev!Forgotten(r.ack)
               \/ r.ack.at >= Rev!Forgotten(q.ack)
    <2>1. q.ack \in AckType
      BY DEF ControlInv, TypeOK
    <2>2. Ordered(q.ack, r.ack)
      BY <1>3, <1>6 DEF AckInv, Ordered, Expiry
    <2>. QED
      BY <1>2, <2>1, <2>2, ForgottenIsExpiry DEF Ordered
  <1>7. Rev!Tell(r)
    BY <1>1, <1>2, <1>4, <1>5, <1>6 DEF Rev!Tell
  <1>. QED
    BY <1>1, <1>7 DEF Rev!RevocationNext

LEMMA ActsRefine ==
    ASSUME ControlInv, ShapeInv, SaysInv, AckInv', NEW h \in Handlers, Acts(h)
    PROVE  [Rev!RevocationNext]_(Rev!revocationVars)
  <1>1. CASE Install(h) \/ SnapshotRules(h)
    BY <1>1, InstallRefines, SnapshotRulesRefines
  <1>2. CASE released' # released
    BY <1>2, TellRefines
  <1>3. CASE ~(Install(h) \/ SnapshotRules(h)) /\ released' = released
    <2>1. status = "up" /\ UNCHANGED <<status, now>>
      BY OthersKept
    <2>2. UNCHANGED rules
      BY <1>3 DEF Acts, Begin, Step, Wake, WaitTimeout, Acquire, SetAck,
                  SnapshotIdempotency, Write, WriteFails, Complete, Abandon
    <2>. QED
      BY <1>3, <2>1, <2>2, Unnoticed
  <1>. QED
    BY <1>1, <1>2, <1>3

(* A crash takes back only what nobody was told.                           *)
LEMMA CrashRefines ==
    ASSUME AcrossRestarts, BelowInv, Crash
    PROVE  Rev!RevocationNext
  <1>1. /\ TypeOK /\ status = "up" /\ status' = "down" /\ UNCHANGED <<now, file, released>>
        /\ file.rules \in [Targets -> Nat] /\ rules \in [Targets -> Nat]
    BY DEF Crash, AcrossRestarts, ControlInv, TypeOK, FileType
  <1>2. \A t \in Targets : file.rules[t] > now => file.rules[t] <= rules[t]
    BY <1>1 DEF BelowInv, Below
  <1>3. ASSUME NEW r \in released PROVE Rev!InForce(file.rules, r)
    <2>1. Enforced(file.rules, r.cmd, r.ack)
      BY DEF AcrossRestarts, FileInv, Observable, Saved
    <2>. QED
      BY <2>1 DEF Enforced, Rev!InForce
  <1>4. Rev!Stop
    BY <1>1, <1>2, <1>3, SubjectsAreTargets DEF Rev!Stop, Rev!InForce
  <1>. QED
    BY <1>4 DEF Rev!RevocationNext

LEMMA RestartRefines ==
    ASSUME TypeOK, Restart
    PROVE  Rev!RevocationNext
  <1>. DEFINE S == {t \in Targets : ~(file.rules[t] > now)}
  <1>1. /\ status = "down" /\ status' = "up" /\ UNCHANGED <<now, file, released>>
        /\ rules' = [t \in Targets |-> IF file.rules[t] > now THEN file.rules[t] ELSE 0]
        /\ file.rules \in [Targets -> Nat] /\ now \in Nat
    BY RestartEffect DEF TypeOK, FileType
  <1>2. S \in SUBSET Rev!Past
    BY <1>1, SubjectsAreTargets DEF Rev!Past
  <1>3. rules' = Rev!Without(S)
    BY <1>1, SubjectsAreTargets DEF Rev!Without
  <1>4. Rev!Resume
    BY <1>1, <1>2, <1>3 DEF Rev!Resume
  <1>. QED
    BY <1>4 DEF Rev!RevocationNext

(* The clock, a refused start and stuttering.                              *)
LEMMA IdleRefines ==
    ASSUME RefuseToStart \/ Tick \/ UNCHANGED vars
    PROVE  [Rev!RevocationNext]_(Rev!revocationVars)
  <1>1. CASE RefuseToStart \/ UNCHANGED vars
    BY <1>1 DEF RefuseToStart, vars, Rev!revocationVars
  <1>2. CASE Tick
    <2>1. Rev!Pass
      BY <1>2 DEF Tick, Rev!Pass
    <2>. QED
      BY <2>1 DEF Rev!RevocationNext
  <1>. QED
    BY <1>1, <1>2

LEMMA RevocationsInit == Init => Rev!RevocationInit
  BY SubjectsAreTargets DEF Init, Rev!RevocationInit

(* Every behaviour in which commands do not overlap, whatever crashes, and *)
(* every one without a crash, whatever overlaps, is one of Revocations:    *)
(* rules are only extended or dropped when past (installRevocation,        *)
(* cleanupLocked), an acknowledgement is true and the only one until it    *)
(* expires (completeRevocation), and a crash takes back only what was not  *)
(* acknowledged (writePrivateControlPersistentState before the release,    *)
(* restorePersistentState).                                                *)
THEOREM RevocationsImplemented ==
    Spec /\ ([]OneAtATime \/ []Alive) => ImplementsRevocations
  <1>1. AcrossRestarts /\ AcrossRestarts' /\ SaysInv /\ BelowInv /\ [Next]_vars
          => [Rev!RevocationNext]_(Rev!revocationVars)
    <2>. SUFFICES ASSUME AcrossRestarts, AcrossRestarts', SaysInv, BelowInv, [Next]_vars
                  PROVE  [Rev!RevocationNext]_(Rev!revocationVars)
      OBVIOUS
    <2>1. ControlInv /\ ShapeInv /\ AckInv' /\ TypeOK
      BY DEF AcrossRestarts, ControlInv
    <2>. QED
      BY <2>1, Steps, ActsRefine, CrashRefines, RestartRefines, IdleRefines
  <1>2. WithoutRestart /\ WithoutRestart' /\ SaysInv /\ Alive /\ Alive' /\ [Next]_vars
          => [Rev!RevocationNext]_(Rev!revocationVars)
    <2>. SUFFICES ASSUME WithoutRestart, WithoutRestart', SaysInv, Alive, Alive', [Next]_vars
                  PROVE  [Rev!RevocationNext]_(Rev!revocationVars)
      OBVIOUS
    <2>1. ControlInv /\ ShapeInv /\ AckInv'
      BY DEF WithoutRestart
    <2>2. ~Crash /\ ~Restart
      BY DEF Alive, Crash, Restart
    <2>. QED
      BY <2>1, <2>2, Steps, ActsRefine, IdleRefines
  <1>. QED
    BY <1>1, <1>2, RevocationsInit, TrueAlways, OneByOneAlways, OneLifeAlways, PTL
       DEF Spec, ImplementsRevocations, Rev!RevocationSpec
=============================================================================
