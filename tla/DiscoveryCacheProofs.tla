-------------------------- MODULE DiscoveryCacheProofs --------------------------
(***************************************************************************)
(* The discovery cache implements the snapshot its readers are promised,   *)
(* for any number of processes, tasks and lists.  The inductive invariant  *)
(* says what a refresh holds between its steps: the lock, the committed    *)
(* snapshot as its base, and a candidate that differs from that snapshot   *)
(* only in selected rows, all of them from the one process it queries.     *)
(***************************************************************************)
EXTENDS DiscoveryCache, TLAPS

Selections == Announced \cup {Keys}

RowType == [from : Procs, content : 0..MaxContent + 1]
CacheType == [rows : [Keys -> RowType], generation : Nat, epoch : Nat]
JobType == [pc : {"idle", "lock", "live", "base", "query", "commit"}, proc : Procs \cup {Nil},
            generation : Nat, base : {Nil} \cup CacheType, todo : SUBSET Keys,
            rows : {Nil} \cup [Keys -> RowType]]

\* The tasks that start a process hold one, and count their attempts.
OpInv ==
    /\ op \in [Actors -> OpType]
    /\ \A a \in Actors :
          /\ op[a].pc \in {"handshake", "install"} => op[a].mine \in 1..spawned
          /\ op[a].pc # "giveup" => op[a].tries < Attempts

ProcInv ==
    /\ slot \in Procs \cup {Nil} /\ alive \subseteq 1..spawned /\ spawned \in Procs
    /\ generation \in Nat

SlotInv == OpInv /\ ProcInv /\ cooldown \in BOOLEAN

CacheTypeOK ==
    /\ cache \in CacheType
    /\ job \in [Tasks -> JobType]
    /\ serves \in [Procs -> [Keys -> 0..MaxContent]]
    /\ notices \subseteq Announced

ReadRow(k, rows, p) == rows[k].from = p /\ rows[k].content \in Offers[k]

\* A candidate is the committed snapshot with rows of one process in place of
\* a part of the selected ones.
CandidateOf(t) ==
    /\ job[t].base = cache
    /\ job[t].proc \in Procs
    /\ job[t].rows \in [Keys -> RowType]
    /\ job[t].todo \subseteq Supported
    /\ \E K \in Selections :
          /\ job[t].todo \subseteq K
          /\ \A k \in Keys :
             IF k \in K THEN k \in job[t].todo \/ ReadRow(k, job[t].rows, job[t].proc)
                        ELSE job[t].rows[k] = cache.rows[k]

\* What a task has at each point of its refresh; only the holder of the lock
\* is past it.
JobOK(t) ==
    /\ job[t].pc \in {"live", "base", "query", "commit"} => holder = t
    /\ job[t].pc \in {"lock", "live", "base"} => job[t].todo \in Selections
    /\ job[t].pc = "base" => job[t].proc \in Procs
    /\ job[t].pc \in {"query", "commit"} => CandidateOf(t)
    /\ job[t].pc = "commit" => job[t].todo = {}

CacheInv == CacheTypeOK /\ \A t \in Tasks : JobOK(t)

RefreshInv == SlotInv /\ CacheInv

-----------------------------------------------------------------------------
(* The slot *)

LEMMA SlotInitInv == SlotInit => SlotInv
<1> SUFFICES ASSUME SlotInit PROVE SlotInv OBVIOUS
<1> USE SlotAssumption DEF SlotInit, Procs
<1>1. ProcInv BY DEF ProcInv
<1>2. op \in [Actors -> OpType] BY DEF OpType, Idle
<1>3. OpInv BY <1>2 DEF OpInv, Idle
<1>4. cooldown \in BOOLEAN OBVIOUS
<1> QED BY <1>1, <1>3, <1>4 DEF SlotInv

\* A task that moves to a value of the right type, without losing its
\* process or running out of attempts, keeps the invariant of all of them.
LEMMA OneTaskMoves ==
  ASSUME OpInv, NEW a \in Actors, NEW r \in OpType, op' = [op EXCEPT ![a] = r],
         ProcInv, spawned' \in Nat, spawned <= spawned',
         r.pc \in {"handshake", "install"} => r.mine \in 1..spawned',
         r.pc # "giveup" => r.tries < Attempts
  PROVE  OpInv'
<1>1. op' \in [Actors -> OpType] BY DEF OpInv
<1>2. ASSUME NEW b \in Actors
      PROVE  /\ op'[b].pc \in {"handshake", "install"} => op'[b].mine \in 1..spawned'
             /\ op'[b].pc # "giveup" => op'[b].tries < Attempts
  <2>1. CASE b = a BY <2>1 DEF OpInv
  <2>2. CASE b # a BY <2>2 DEF OpInv, ProcInv, Procs
  <2> QED BY <2>1, <2>2
<1> QED BY <1>1, <1>2 DEF OpInv

\* An idle task, or one that has its backend, holds no process to start.
LEMMA TaskSettles ==
  ASSUME OpInv, ProcInv, NEW a \in Actors, UNCHANGED spawned,
         \/ Finish(a)
         \/ Enter(a, "served") \/ Enter(a, "refresh")
  PROVE  OpInv'
<1>1. spawned \in Nat
  <2>1. spawned \in 1..MaxSpawns BY DEF ProcInv, Procs
  <2> QED BY <2>1, SlotAssumption
<1>2. spawned' \in Nat /\ spawned <= spawned' BY <1>1
<1>3. \A r \in OpType : r.pc \in {"idle", "served", "refresh"} /\ r.tries = 0 =>
         /\ r.pc \in {"handshake", "install"} => r.mine \in 1..spawned'
         /\ r.pc # "giveup" => r.tries < Attempts
  BY SlotAssumption
<1>4. Idle \in OpType /\ Idle.pc = "idle" /\ Idle.tries = 0
  BY SlotAssumption DEF Idle, OpType
<1>5. CASE Finish(a) BY <1>2, <1>3, <1>4, <1>5, OneTaskMoves DEF Finish
<1>6. ASSUME NEW label \in {"served", "refresh"}, Enter(a, label) PROVE OpInv'
  <2> DEFINE r == [Idle EXCEPT !.pc = label]
  <2>1. r \in OpType BY <1>4 DEF OpType
  <2>2. r.pc = label /\ r.tries = 0 BY <1>4 DEF OpType
  <2>3. op' = [op EXCEPT ![a] = r] BY <1>6 DEF Enter
  <2> HIDE DEF r
  <2> QED BY <1>2, <1>3, <2>1, <2>2, <2>3, OneTaskMoves
<1> QED BY <1>5, <1>6

\* The looks of an ensure, and the number a start takes.
LEMMA LookOps ==
  ASSUME OpInv, ProcInv, NEW a \in Actors,
         BrokerLook(a) \/ EnsureLook(a) \/ EnsureStart(a) \/ RestartStart(a)
  PROVE  OpInv'
<1> USE SlotAssumption
<1>3. UNCHANGED spawned
  BY DEF BrokerLook, EnsureLook, EnsureStart, RestartStart, procVars
<1>1. spawned' \in Nat /\ spawned <= spawned'
  <2>1. spawned \in 1..MaxSpawns BY DEF ProcInv, Procs
  <2>2. spawned \in Nat BY <2>1
  <2> QED BY <1>3, <2>2
<1>2. op[a] \in OpType BY DEF OpInv
<1>4. CASE Finish(a) \/ Enter(a, "served") BY <1>3, <1>4, TaskSettles
<1>5. ASSUME NEW label \in {"ensure", "start"},
             NEW what \in {"nothing", "seen dead", "dead backend"},
             op[a].pc \in {"idle", "ensure"},
             op' = [op EXCEPT ![a].pc = label, ![a].replaces = what]
      PROVE  OpInv'
  <2>0. op[a].tries < Attempts BY <1>5 DEF OpInv
  <2> DEFINE r == [op[a] EXCEPT !.pc = label, !.replaces = what]
  <2>1. r \in OpType BY <1>2 DEF OpType
  <2>2. r.pc = label /\ r.tries = op[a].tries BY <1>2 DEF OpType
  <2>3. op' = [op EXCEPT ![a] = r] BY <1>5
  <2>4. r.tries < Attempts BY <2>0, <2>2
  <2>5. r.pc \notin {"handshake", "install"} BY <2>2
  <2> HIDE DEF r
  <2> QED BY <1>1, <2>1, <2>3, <2>4, <2>5, OneTaskMoves
<1>6. ASSUME op[a].pc \in {"idle", "start"}, Number(a) PROVE OpInv'
  <2> DEFINE r == [op[a] EXCEPT !.pc = IF a \in Callers THEN "spawn" ELSE "take",
                                !.next = generation + 1]
  <2>1. generation + 1 \in Nat BY DEF ProcInv
  <2>2. r \in OpType BY <1>2, <2>1 DEF OpType
  <2>3. r.pc \in {"spawn", "take"} /\ r.tries = op[a].tries BY <1>2 DEF OpType
  <2>4. op' = [op EXCEPT ![a] = r] BY <1>6 DEF Number
  <2>5. r.tries < Attempts BY <1>6, <2>3 DEF OpInv
  <2>6. r.pc \notin {"handshake", "install"} BY <2>3
  <2> HIDE DEF r
  <2> QED BY <1>1, <2>2, <2>4, <2>5, <2>6, OneTaskMoves
<1>7. CASE BrokerLook(a) BY <1>4, <1>5, <1>7 DEF BrokerLook
<1>8. CASE EnsureLook(a)
  <2>1. CASE LiveSlot BY <1>4, <1>8, <2>1 DEF EnsureLook
  <2>2. CASE ~LiveSlot
    <3> DEFINE what == IF slot # Nil /\ op[a].replaces = "seen dead"
                       THEN "dead backend" ELSE "nothing"
    <3>1. op' = [op EXCEPT ![a].pc = "start", ![a].replaces = what]
      BY <1>8, <2>2, <1>2 DEF EnsureLook, OpType, OpInv
    <3>2. what \in {"nothing", "seen dead", "dead backend"} OBVIOUS
    <3>3. op[a].pc = "ensure" BY <1>8 DEF EnsureLook
    <3> HIDE DEF what
    <3> QED BY <1>5, <3>1, <3>2, <3>3
  <2> QED BY <2>1, <2>2
<1>9. CASE EnsureStart(a) BY <1>4, <1>6, <1>9 DEF EnsureStart
<1>10. CASE RestartStart(a)
  <2>1. CASE cooldown /\ a \notin Forced
    BY <1>10, <2>1, <1>3 DEF RestartStart, OpInv, OpType, Procs, Actors
  <2>2. CASE ~(cooldown /\ a \notin Forced) BY <1>6, <1>10, <2>2 DEF RestartStart
  <2> QED BY <2>1, <2>2
<1> QED BY <1>7, <1>8, <1>9, <1>10

\* A task that starts a process holds the one it has spawned.
LEMMA StartOps ==
  ASSUME OpInv, ProcInv, NEW a \in Actors, RestartTake(a) \/ Spawn(a) \/ Handshake(a)
  PROVE  OpInv'
<1> USE SlotAssumption
<1>1. spawned \in 1..MaxSpawns BY DEF ProcInv, Procs
<1>2. spawned \in Nat BY <1>1
<1>3. op[a] \in OpType BY DEF OpInv
<1>4. op[a].pc # "giveup" BY DEF RestartTake, Spawn, Handshake
<1>5. op[a].tries < Attempts BY <1>4 DEF OpInv
<1>6. ASSUME NEW label \in {"spawn", "install"}, Goto(a, label), UNCHANGED spawned,
             label = "install" => op[a].mine \in 1..spawned
      PROVE  OpInv'
  <2> DEFINE r == [op[a] EXCEPT !.pc = label]
  <2>1. r \in OpType BY <1>3 DEF OpType
  <2>2. r.pc = label /\ r.tries = op[a].tries /\ r.mine = op[a].mine BY <1>3 DEF OpType
  <2>3. op' = [op EXCEPT ![a] = r] BY <1>6 DEF Goto
  <2>4. r.pc \in {"handshake", "install"} => r.mine \in 1..spawned' BY <1>6, <2>2
  <2>5. spawned' \in Nat /\ spawned <= spawned' BY <1>2, <1>6
  <2>6. r.tries < Attempts BY <1>5, <2>2
  <2> HIDE DEF r
  <2> QED BY <2>1, <2>3, <2>4, <2>5, <2>6, OneTaskMoves
<1>7. CASE RestartTake(a) BY <1>6, <1>7 DEF RestartTake
<1>8. CASE Spawn(a)
  <2> DEFINE r == [op[a] EXCEPT !.pc = "handshake", !.mine = spawned + 1]
  <2>1. spawned + 1 \in Procs BY <1>1, <1>8 DEF Spawn, Procs
  <2>2. r \in OpType
    <3>1. \A p \in Procs : [op[a] EXCEPT !.pc = "handshake", !.mine = p] \in OpType
      BY <1>3 DEF OpType
    <3> QED BY <2>1, <3>1
  <2>3. r.tries = op[a].tries /\ r.mine = spawned + 1 BY <1>3 DEF OpType
  <2>4. op' = [op EXCEPT ![a] = r] BY <1>8 DEF Spawn
  <2>5. spawned' = spawned + 1 BY <1>8 DEF Spawn
  <2>6. r.mine \in 1..spawned' /\ spawned' \in Nat /\ spawned <= spawned'
    BY <1>2, <2>3, <2>5
  <2> HIDE DEF r
  <2> QED BY <1>5, <2>2, <2>3, <2>4, <2>6, OneTaskMoves
<1>9. CASE Handshake(a)
  <2>1. op[a].mine \in 1..spawned BY <1>9 DEF Handshake, OpInv
  <2> QED BY <1>6, <1>9, <2>1 DEF Handshake, procVars
<1> QED BY <1>7, <1>8, <1>9

\* A start that fails is counted or ends its task.
LEMMA FailOps ==
  ASSUME OpInv, ProcInv, NEW a \in Actors, SpawnError(a) \/ HandshakeError(a)
  PROVE  OpInv'
<1> USE SlotAssumption
<1>1. UNCHANGED spawned /\ StartFails(a) /\ op[a].pc # "giveup"
  BY DEF SpawnError, HandshakeError, procVars
<1>2. CASE a \notin Callers BY <1>1, <1>2, TaskSettles DEF StartFails, RestartFails
<1>3. CASE a \in Callers
  <2>1. op[a] \in OpType /\ op[a].tries < Attempts BY <1>1 DEF OpInv
  <2>2. op[a].tries \in 0..Attempts /\ op[a].tries + 1 \in 0..Attempts
    <3>1. op[a].tries \in 0..Attempts BY <2>1 DEF OpType
    <3> QED BY <2>1, <3>1
  <2> DEFINE r == [op[a] EXCEPT !.tries = op[a].tries + 1, !.mine = Nil,
                                !.pc = IF op[a].tries + 1 < Attempts THEN "spawn"
                                       ELSE "giveup"]
  <2>3. r \in OpType BY <2>1, <2>2 DEF OpType
  <2>4. /\ r.pc = IF op[a].tries + 1 < Attempts THEN "spawn" ELSE "giveup"
        /\ r.tries = op[a].tries + 1
    BY <2>1 DEF OpType
  <2>5. op' = [op EXCEPT ![a] = r]
    BY <1>1, <1>3, <2>1 DEF StartFails, Retry, OpType, OpInv
  <2>6. r.pc \notin {"handshake", "install"} /\ (r.pc # "giveup" => r.tries < Attempts)
    BY <2>4
  <2>7. spawned' \in Nat /\ spawned <= spawned'
    <3>1. spawned \in 1..MaxSpawns BY DEF ProcInv, Procs
    <3>2. spawned \in Nat BY <3>1
    <3> QED BY <1>1, <3>2
  <2> HIDE DEF r
  <2> QED BY <2>3, <2>5, <2>6, <2>7, OneTaskMoves
<1> QED BY <1>2, <1>3

\* Slot, processes and numbers stay what they are under every step of the slot.
LEMMA SlotStepInv == SlotInv /\ SlotNext => SlotInv'
<1> SUFFICES ASSUME SlotInv, SlotNext PROVE SlotInv' OBVIOUS
<1> USE SlotAssumption
<1>0. OpInv /\ ProcInv /\ cooldown \in BOOLEAN BY DEF SlotInv
<1>1. CASE Stop \/ CooldownEnds \/ \E p \in Procs : Die(p)
  <2>1. UNCHANGED <<op, spawned, generation>> BY <1>1 DEF Stop, CooldownEnds, Die, procVars
  <2>2. OpInv' BY <1>0, <2>1 DEF OpInv, OpType, Procs, Actors
  <2>3. ProcInv'
    BY <1>0, <1>1, <2>1 DEF ProcInv, Stop, CooldownEnds, Die, procVars, Procs
  <2>4. cooldown' \in BOOLEAN BY <1>0, <1>1 DEF Stop, CooldownEnds, Die
  <2> QED BY <2>2, <2>3, <2>4 DEF SlotInv
<1>2. ASSUME NEW a \in Actors, BrokerLook(a) \/ EnsureLook(a) \/ EnsureStart(a) \/ RestartStart(a)
      PROVE  SlotInv'
  <2>1. UNCHANGED <<slot, alive, spawned, generation>>
    BY <1>2 DEF BrokerLook, EnsureLook, EnsureStart, RestartStart, procVars
  <2>2. ProcInv' BY <1>0, <2>1 DEF ProcInv, Procs
  <2>3. cooldown' \in BOOLEAN
    BY <1>0, <1>2 DEF BrokerLook, EnsureLook, EnsureStart, RestartStart
  <2> QED BY <1>0, <1>2, <2>2, <2>3, LookOps DEF SlotInv
<1>3. ASSUME NEW a \in Actors, EnsureInstall(a) \/ RestartInstall(a) PROVE SlotInv'
  <2>1. op[a].mine \in 1..spawned /\ op[a].next \in Nat
    BY <1>0, <1>3 DEF OpInv, OpType, EnsureInstall, RestartInstall
  <2>2. spawned \in 1..MaxSpawns /\ UNCHANGED spawned
    BY <1>0, <1>3 DEF ProcInv, Procs, EnsureInstall, RestartInstall
  <2>3. op[a].mine \in Procs BY <2>1, <2>2 DEF Procs
  <2>4. slot' = op[a].mine /\ generation' = op[a].next /\ alive' \subseteq alive
    BY <1>3 DEF EnsureInstall, RestartInstall
  <2>5. ProcInv' BY <1>0, <2>1, <2>2, <2>3, <2>4 DEF ProcInv, Procs
  <2>6. cooldown' \in BOOLEAN BY <1>3 DEF EnsureInstall, RestartInstall
  <2>7. OpInv' BY <1>0, <1>3, <2>2, TaskSettles DEF EnsureInstall, RestartInstall
  <2> QED BY <2>5, <2>6, <2>7 DEF SlotInv
<1>4. ASSUME NEW a \in Actors, EnsureGiveUp(a) \/ CallSucceeds(a) \/ CallFails(a) PROVE SlotInv'
  <2>1. UNCHANGED <<spawned, generation>> /\ Finish(a)
    BY <1>4 DEF EnsureGiveUp, CallSucceeds, CallFails, procVars
  <2>2. slot' \in {slot, Nil} /\ alive' \subseteq alive
    BY <1>4 DEF EnsureGiveUp, CallSucceeds, CallFails, procVars
  <2>3. ProcInv' BY <1>0, <2>1, <2>2 DEF ProcInv, Procs
  <2>4. cooldown' \in BOOLEAN BY <1>0, <1>4 DEF EnsureGiveUp, CallSucceeds, CallFails
  <2> QED BY <1>0, <2>1, <2>3, <2>4, TaskSettles DEF SlotInv
<1>5. ASSUME NEW a \in Actors, RestartTake(a) \/ Spawn(a) \/ Handshake(a) PROVE SlotInv'
  <2>1. ASSUME Spawn(a) PROVE ProcInv'
    <3>1. spawned \in 1..MaxSpawns /\ spawned < MaxSpawns /\ spawned' = spawned + 1
      BY <1>0, <2>1 DEF ProcInv, Procs, Spawn
    <3>2. spawned' \in Procs /\ 1..spawned \subseteq 1..spawned' /\ spawned' \in 1..spawned'
      BY <3>1 DEF Procs
    <3>3. alive' = alive \cup {spawned'} /\ UNCHANGED <<slot, generation>>
      BY <2>1, <3>1 DEF Spawn
    <3>4. alive' \subseteq 1..spawned' BY <1>0, <3>2, <3>3 DEF ProcInv
    <3> QED BY <1>0, <3>2, <3>3, <3>4 DEF ProcInv, Procs
  <2>2. ASSUME RestartTake(a) \/ Handshake(a) PROVE ProcInv'
    <3>1. UNCHANGED <<spawned, generation>> /\ slot' \in {slot, Nil} /\ alive' \subseteq alive
      BY <2>2 DEF RestartTake, Handshake, procVars
    <3> QED BY <1>0, <3>1 DEF ProcInv, Procs
  <2>3. ProcInv' BY <1>5, <2>1, <2>2
  <2>4. cooldown' \in BOOLEAN BY <1>0, <1>5 DEF RestartTake, Spawn, Handshake
  <2> QED BY <1>0, <1>5, <2>3, <2>4, StartOps DEF SlotInv
<1>6. ASSUME NEW a \in Actors, SpawnError(a) \/ HandshakeError(a) PROVE SlotInv'
  <2>1. UNCHANGED <<slot, alive, spawned, generation>>
    BY <1>6 DEF SpawnError, HandshakeError, procVars
  <2>2. ProcInv' BY <1>0, <2>1 DEF ProcInv, Procs
  <2>3. cooldown' \in BOOLEAN
    BY <1>0, <1>6 DEF SpawnError, HandshakeError, StartFails, Retry, RestartFails
  <2> QED BY <1>0, <1>6, <2>2, <2>3, FailOps DEF SlotInv
<1> QED BY <1>1, <1>2, <1>3, <1>4, <1>5, <1>6 DEF SlotNext

\* A refresh touches the slot only to let its task go on.
LEMMA RefreshSlotInv ==
  ASSUME SlotInv, NEW t \in Tasks,
         \/ RefreshAfterStart(t) \/ NotLive(t) \/ QueryFails(t)
         \/ CheckCurrent(t) \/ Commit(t)
  PROVE  SlotInv'
<1> USE SlotAssumption
<1>0. OpInv /\ ProcInv /\ cooldown \in BOOLEAN BY DEF SlotInv
<1>1. UNCHANGED <<slot, alive, spawned, generation, cooldown>>
  BY DEF RefreshAfterStart, NotLive, QueryFails, CheckCurrent, Commit, Done, slotVars, procVars
<1>2. ProcInv' /\ cooldown' \in BOOLEAN BY <1>0, <1>1 DEF ProcInv, Procs
<1>3. CASE UNCHANGED op BY <1>0, <1>1, <1>2, <1>3 DEF SlotInv, OpInv, OpType, Procs, Actors
<1>4. CASE t \in Actors /\ (Finish(t) \/ Enter(t, "served"))
  <2>1. OpInv' BY <1>0, <1>1, <1>4, TaskSettles
  <2> QED BY <1>2, <2>1 DEF SlotInv
<1>5. UNCHANGED op \/ (t \in Actors /\ (Finish(t) \/ Enter(t, "served")))
  BY DEF RefreshAfterStart, NotLive, QueryFails, CheckCurrent, Commit, Done, slotVars, Actors
<1> QED BY <1>3, <1>4, <1>5

-----------------------------------------------------------------------------
(* The cache *)

\* A task that moves leaves the others what they had: the candidate of
\* another task is not disturbed, because its task holds the lock.
LEMMA OneJobMoves ==
  ASSUME CacheInv, NEW t \in Tasks, NEW r \in JobType, job' = [job EXCEPT ![t] = r],
         UNCHANGED <<holder, cache>> \/ holder \in {t, Nil},
         JobOK(t)'
  PROVE  job' \in [Tasks -> JobType] /\ \A u \in Tasks : JobOK(u)'
<1>1. job \in [Tasks -> JobType] /\ \A u \in Tasks : JobOK(u) BY DEF CacheInv, CacheTypeOK
<1>2. job' \in [Tasks -> JobType] BY <1>1
<1>3. ASSUME NEW u \in Tasks PROVE JobOK(u)'
  <2>1. CASE u = t BY <2>1
  <2>2. CASE u # t
    <3>1. job'[u] = job[u] BY <1>1, <2>2
    <3>2. JobOK(u) BY <1>1
    <3>3. u # Nil BY CacheAssumption DEF Tasks
    <3>4. CASE UNCHANGED <<holder, cache>>
      <4>1. holder' = holder /\ cache' = cache BY <3>4
      <4>2. CandidateOf(u) => CandidateOf(u)'
        BY <3>1, <4>1 DEF CandidateOf, ReadRow, Selections, Procs, RowType, Offers, Empty
      <4> QED BY <3>1, <3>2, <4>1, <4>2 DEF JobOK, Selections, Procs
    <3>5. CASE holder \in {t, Nil}
      <4>1. job[u].pc \notin {"live", "base", "query", "commit"} BY <2>2, <3>2, <3>3, <3>5 DEF JobOK
      <4> QED BY <3>1, <3>2, <4>1 DEF JobOK, Selections
    <3> QED BY <3>4, <3>5
  <2> QED BY <2>1, <2>2
<1> QED BY <1>2, <1>3

LEMMA InitInv == Init => RefreshInv
<1> SUFFICES ASSUME Init PROVE RefreshInv OBVIOUS
<1> USE SlotAssumption, CacheAssumption
<1>1. SlotInv BY SlotInitInv DEF Init
<1>2. 1 \in Procs /\ Empty \in 0..MaxContent + 1 /\ 0 \in 0..MaxContent + 1 /\ 0 \in 0..MaxContent
  BY DEF Procs, Empty
<1>3. PICK read \in SUBSET Supported :
         cache = [rows |-> [k \in Keys |-> Row(1, IF k \in read THEN 0 ELSE Empty)],
                  generation |-> 1, epoch |-> 1]
  BY DEF Init
<1>4. \A k \in Keys : cache.rows[k] \in RowType BY <1>2, <1>3 DEF Row, RowType
<1>5. cache.rows \in [Keys -> RowType] BY <1>3, <1>4
<1>6. cache \in CacheType BY <1>3, <1>5 DEF CacheType
<1>7. NoJob \in JobType BY DEF NoJob, JobType
<1>8. job \in [Tasks -> JobType] BY <1>7 DEF Init
<1>9. serves \in [Procs -> [Keys -> 0..MaxContent]] /\ notices \subseteq Announced
  BY <1>2 DEF Init
<1>10. \A t \in Tasks : JobOK(t) BY DEF Init, NoJob, JobOK
<1> QED BY <1>1, <1>4, <1>6, <1>8, <1>9, <1>10 DEF RefreshInv, CacheInv, CacheTypeOK

\* What the slot does, and a list that changes, touches no refresh.
LEMMA OtherStepInv == CacheInv /\ (Slot \/ \E p \in Procs, k \in Keys : ListChanges(p, k)) => CacheInv'
<1> SUFFICES ASSUME CacheInv, Slot \/ \E p \in Procs, k \in Keys : ListChanges(p, k)
             PROVE  CacheInv'
  OBVIOUS
<1>1. UNCHANGED <<cache, holder, job>> BY DEF Slot, cacheVars, ListChanges
<1>2. \A t \in Tasks : JobOK(t)'
  BY <1>1 DEF CacheInv, JobOK, CandidateOf, ReadRow, Selections, Procs, RowType, Offers, Empty
<1>3. serves' \in [Procs -> [Keys -> 0..MaxContent]] /\ notices' \subseteq Announced
  <2>1. CASE Slot BY <2>1 DEF Slot, cacheVars, CacheInv, CacheTypeOK
  <2>2. ASSUME NEW p \in Procs, NEW k \in Keys, ListChanges(p, k)
        PROVE  serves' \in [Procs -> [Keys -> 0..MaxContent]] /\ notices' \subseteq Announced
    <3>1. serves \in [Procs -> [Keys -> 0..MaxContent]] /\ notices \subseteq Announced
      BY DEF CacheInv, CacheTypeOK
    <3>2. serves[p][k] \in 0..MaxContent /\ serves[p][k] < MaxContent
      BY <2>2, <3>1 DEF ListChanges
    <3>3. serves[p][k] + 1 \in 0..MaxContent BY <3>2, CacheAssumption
    <3>4. serves' = [serves EXCEPT ![p] = [serves[p] EXCEPT ![k] = serves[p][k] + 1]]
      BY <2>2, <3>1 DEF ListChanges
    <3>5. serves' \in [Procs -> [Keys -> 0..MaxContent]] BY <3>1, <3>3, <3>4
    <3>6. notices' \subseteq Announced BY <2>2, <3>1 DEF ListChanges
    <3> QED BY <3>5, <3>6
  <2> QED BY <2>1, <2>2
<1>4. cache' \in CacheType /\ job' \in [Tasks -> JobType]
  BY <1>1 DEF CacheInv, CacheTypeOK, CacheType, JobType, RowType, Procs, Tasks
<1> QED BY <1>2, <1>3, <1>4 DEF CacheInv, CacheTypeOK

\* The steps of a refresh up to its first query.
LEMMA EnterStepInv ==
  ASSUME CacheInv, NEW t \in Tasks, SlotInv,
         TakeNotice(t) \/ RefreshCommand(t) \/ RefreshAfterStart(t) \/ Lock(t) \/ Live(t)
  PROVE  CacheInv'
<1> USE CacheAssumption
<1>0. /\ cache \in CacheType /\ job \in [Tasks -> JobType] /\ notices \subseteq Announced
      /\ serves \in [Procs -> [Keys -> 0..MaxContent]]
  BY DEF CacheInv, CacheTypeOK
<1>1. job[t] \in JobType /\ JobOK(t) BY <1>0 DEF CacheInv
<1>2. UNCHANGED <<cache, serves>> /\ notices' \subseteq Announced
  BY <1>0 DEF TakeNotice, RefreshCommand, RefreshAfterStart, Lock, Live
<1>3. ASSUME job' \in [Tasks -> JobType] /\ \A u \in Tasks : JobOK(u)'
      PROVE  CacheInv'
  BY <1>0, <1>2, <1>3 DEF CacheInv, CacheTypeOK, CacheType, JobType, RowType, Procs, Tasks,
                         Offers, Empty
<1>4. ASSUME UNCHANGED <<job, holder>> PROVE CacheInv'
  <2>1. \A u \in Tasks : JobOK(u)'
    BY <1>2, <1>4 DEF CacheInv, JobOK, CandidateOf, ReadRow, Selections, Procs, RowType,
                      Offers, Empty
  <2> QED BY <1>0, <1>3, <1>4, <2>1
<1>5. ASSUME NEW keys \in Selections, Want(t, keys), UNCHANGED holder PROVE CacheInv'
  <2> DEFINE r == [job[t] EXCEPT !.pc = "lock", !.todo = keys]
  <2>1. keys \subseteq Keys BY DEF Selections
  <2>2. r \in JobType BY <1>1, <2>1 DEF JobType
  <2>3. r.pc = "lock" /\ r.todo = keys BY <1>1 DEF JobType
  <2>4. job' = [job EXCEPT ![t] = r] BY <1>5 DEF Want
  <2> HIDE DEF r
  <2>5. job'[t] = r BY <1>0, <2>4
  <2>6. JobOK(t)' BY <2>3, <2>5 DEF JobOK, Selections
  <2> QED BY <1>2, <1>3, <1>5, <2>2, <2>4, <2>6, OneJobMoves
<1>6. CASE TakeNotice(t) BY <1>0, <1>4, <1>5, <1>6 DEF TakeNotice, Selections
<1>7. CASE RefreshCommand(t) BY <1>5, <1>7 DEF RefreshCommand, Selections
<1>8. CASE RefreshAfterStart(t) BY <1>4, <1>5, <1>8 DEF RefreshAfterStart, Selections
<1>9. CASE Lock(t)
  <2> DEFINE r == [job[t] EXCEPT !.pc = "live"]
  <2>1. r \in JobType BY <1>1 DEF JobType
  <2>2. r.pc = "live" /\ r.todo = job[t].todo BY <1>1 DEF JobType
  <2>3. job' = [job EXCEPT ![t] = r] /\ holder = Nil /\ holder' = t BY <1>9 DEF Lock
  <2>4. job[t].todo \in Selections BY <1>1, <1>9 DEF JobOK, Lock
  <2> HIDE DEF r
  <2>5. job'[t] = r BY <1>0, <2>3
  <2>6. JobOK(t)' BY <2>2, <2>3, <2>4, <2>5 DEF JobOK, Selections
  <2> QED BY <1>3, <2>1, <2>3, <2>6, OneJobMoves
<1>10. CASE Live(t)
  <2> DEFINE r == [job[t] EXCEPT !.pc = "base", !.proc = slot]
  <2>1. slot \in Procs
    BY <1>10, SlotAssumption DEF Live, LiveSlot, SlotInv, ProcInv, Procs
  <2>2. r \in JobType BY <1>1, <2>1 DEF JobType
  <2>3. r.pc = "base" /\ r.todo = job[t].todo /\ r.proc = slot BY <1>1 DEF JobType
  <2>4. job' = [job EXCEPT ![t] = r] /\ UNCHANGED <<holder, cache>> BY <1>10 DEF Live
  <2>5. job[t].todo \in Selections /\ holder = t BY <1>1, <1>10 DEF JobOK, Live
  <2> HIDE DEF r
  <2>6. job'[t] = r BY <1>0, <2>4
  <2>7. JobOK(t)' BY <2>1, <2>3, <2>4, <2>5, <2>6 DEF JobOK, Selections, Procs
  <2> QED BY <1>3, <2>2, <2>4, <2>7, OneJobMoves
<1> QED BY <1>6, <1>7, <1>8, <1>9, <1>10

\* The base of a refresh: its candidate is the committed snapshot, with the
\* lists that are not supported already empty.
LEMMA BaseStepInv ==
  ASSUME CacheInv, SlotInv, NEW t \in Tasks, Base(t)
  PROVE  CacheInv'
<1> USE CacheAssumption
<1>0. /\ cache \in CacheType /\ job \in [Tasks -> JobType] /\ notices \subseteq Announced
      /\ serves \in [Procs -> [Keys -> 0..MaxContent]]
  BY DEF CacheInv, CacheTypeOK
<1>1. job[t] \in JobType /\ JobOK(t) /\ job[t].pc = "base" BY <1>0 DEF CacheInv, Base
<1>2. job[t].proc \in Procs /\ job[t].todo \in Selections BY <1>1 DEF JobOK
<1>3. cache.rows \in [Keys -> RowType] BY <1>0 DEF CacheType
<1> DEFINE rows == [k \in Keys |-> IF k \in job[t].todo \ Supported
                                  THEN Row(job[t].proc, Empty) ELSE cache.rows[k]]
           r == [job[t] EXCEPT !.pc = "query", !.generation = generation,
                               !.base = cache, !.todo = job[t].todo \cap Supported,
                               !.rows = rows]
<1>4. Row(job[t].proc, Empty) \in RowType /\ Row(job[t].proc, Empty).from = job[t].proc
      /\ Row(job[t].proc, Empty).content = Empty
  BY <1>2 DEF Row, RowType, Empty
<1>5. rows \in [Keys -> RowType] BY <1>3, <1>4
<1>6. \A k \in Keys : rows[k] = IF k \in job[t].todo \ Supported
                               THEN Row(job[t].proc, Empty) ELSE cache.rows[k]
  OBVIOUS
<1>7. \A k \in job[t].todo \ Supported : ReadRow(k, rows, job[t].proc)
  BY <1>1, <1>4, <1>6 DEF ReadRow, Offers, JobType
<1>8. job' = [job EXCEPT ![t] = r]
  BY <1>1, Zenon DEF Base, JobType
<1> HIDE DEF rows
<1>9. generation \in Nat /\ job[t].todo \cap Supported \subseteq Keys
  BY <1>1 DEF SlotInv, ProcInv, JobType
<1>10. r \in JobType BY <1>0, <1>1, <1>5, <1>9 DEF JobType
<1>11. /\ r.pc = "query" /\ r.base = cache /\ r.todo = job[t].todo \cap Supported
       /\ r.rows = rows /\ r.proc = job[t].proc
  BY <1>1 DEF JobType
<1> HIDE DEF r
<1>12. job'[t] = r /\ UNCHANGED <<cache, holder, serves, notices>> BY <1>0, <1>8 DEF Base
<1>13. CandidateOf(t)'
  <2>1. \A k \in Keys :
           IF k \in job[t].todo THEN k \in r.todo \/ ReadRow(k, r.rows, r.proc)
                                ELSE r.rows[k] = cache.rows[k]
    BY <1>6, <1>7, <1>11
  <2>2. /\ job'[t].base = cache' /\ job'[t].proc \in Procs
        /\ job'[t].rows \in [Keys -> RowType] /\ job'[t].todo \subseteq Supported
    BY <1>2, <1>5, <1>11, <1>12
  <2>4. \E K \in Selections : job'[t].todo \subseteq K /\ \A k \in Keys :
           IF k \in K THEN k \in job'[t].todo \/ ReadRow(k, job'[t].rows, job'[t].proc)
                      ELSE job'[t].rows[k] = cache'.rows[k]
    BY <1>2, <1>11, <1>12, <2>1
  <2> QED BY <2>2, <2>4 DEF CandidateOf, ReadRow, Selections, RowType, Procs, Offers, Empty
<1>14. JobOK(t)' BY <1>1, <1>11, <1>12, <1>13 DEF JobOK
<1>15. job' \in [Tasks -> JobType] /\ \A u \in Tasks : JobOK(u)'
  BY <1>8, <1>10, <1>12, <1>14, OneJobMoves
<1> QED BY <1>0, <1>12, <1>15 DEF CacheInv, CacheTypeOK, CacheType, JobType, RowType, Procs,
                               Tasks

\* A list that is read replaces one row of the candidate.
LEMMA QueryStepInv ==
  ASSUME CacheInv, NEW t \in Tasks, NEW k \in Keys, Query(t, k)
  PROVE  CacheInv'
<1> USE CacheAssumption
<1>0. /\ cache \in CacheType /\ job \in [Tasks -> JobType] /\ notices \subseteq Announced
      /\ serves \in [Procs -> [Keys -> 0..MaxContent]]
  BY DEF CacheInv, CacheTypeOK
<1>1. job[t] \in JobType /\ JobOK(t) /\ job[t].pc = "query" /\ k \in job[t].todo
  BY <1>0 DEF CacheInv, Query
<1>2. CandidateOf(t) /\ holder = t BY <1>1 DEF JobOK
<1> DEFINE row == Row(job[t].proc, serves[job[t].proc][k])
           rows == [job[t].rows EXCEPT ![k] = row]
           r == [job[t] EXCEPT !.todo = job[t].todo \ {k}, !.rows = rows]
<1>3. row.from = job[t].proc /\ row.content = serves[job[t].proc][k] BY DEF Row
<1>4. row \in RowType
  <2>1. serves[job[t].proc][k] \in 0..MaxContent BY <1>0, <1>2 DEF CandidateOf
  <2>2. serves[job[t].proc][k] \in 0..MaxContent + 1 BY <2>1
  <2> QED BY <1>2, <2>2 DEF CandidateOf, Row, RowType
<1>5. row.content \in Offers[k]
  BY <1>0, <1>1, <1>2, <1>3 DEF CandidateOf, Offers
<1>6. job' = [job EXCEPT ![t] = r]
  BY <1>0, <1>1, Zenon DEF Query, Gather, JobType
<1> HIDE DEF row
<1>7. rows \in [Keys -> RowType] BY <1>2, <1>4 DEF CandidateOf
<1>8. \A l \in Keys : rows[l] = IF l = k THEN row ELSE job[t].rows[l] BY <1>2 DEF CandidateOf
<1>9. ReadRow(k, rows, job[t].proc) BY <1>3, <1>5, <1>8 DEF ReadRow
<1> HIDE DEF rows
<1>10. r \in JobType BY <1>1, <1>7 DEF JobType
<1>11. /\ r.pc = "query" /\ r.base = job[t].base /\ r.todo = job[t].todo \ {k}
       /\ r.rows = rows /\ r.proc = job[t].proc
  BY <1>1 DEF JobType
<1> HIDE DEF r
<1>12. job'[t] = r /\ UNCHANGED <<cache, holder, serves, notices>>
  BY <1>0, <1>6 DEF Query, Gather
<1>13. CandidateOf(t)'
  <2>1. PICK K \in Selections : job[t].todo \subseteq K /\ \A l \in Keys :
           IF l \in K THEN l \in job[t].todo \/ ReadRow(l, job[t].rows, job[t].proc)
                      ELSE job[t].rows[l] = cache.rows[l]
    BY <1>2 DEF CandidateOf
  <2>2. k \in K BY <1>1, <2>1
  <2>3. \E L \in Selections : job'[t].todo \subseteq L /\ \A l \in Keys :
           IF l \in L THEN l \in job'[t].todo \/ ReadRow(l, job'[t].rows, job'[t].proc)
                      ELSE job'[t].rows[l] = cache'.rows[l]
    BY <1>8, <1>9, <1>11, <1>12, <2>1, <2>2 DEF ReadRow
  <2>4. /\ job'[t].base = cache' /\ job'[t].proc \in Procs
        /\ job'[t].rows \in [Keys -> RowType] /\ job'[t].todo \subseteq Supported
    BY <1>2, <1>7, <1>11, <1>12 DEF CandidateOf
  <2> QED BY <2>3, <2>4 DEF CandidateOf, ReadRow, Selections, RowType, Procs, Offers, Empty
<1>14. JobOK(t)' BY <1>2, <1>11, <1>12, <1>13 DEF JobOK
<1>15. job' \in [Tasks -> JobType] /\ \A u \in Tasks : JobOK(u)'
  BY <1>6, <1>10, <1>12, <1>14, OneJobMoves
<1> QED BY <1>0, <1>12, <1>15 DEF CacheInv, CacheTypeOK, CacheType, JobType, RowType, Procs,
                               Tasks

\* A candidate that is found current stays what it is.
LEMMA CheckStepInv ==
  ASSUME CacheInv, NEW t \in Tasks, CheckCurrent(t), ~Done(t)
  PROVE  CacheInv'
<1> USE CacheAssumption
<1>0. /\ cache \in CacheType /\ job \in [Tasks -> JobType] /\ notices \subseteq Announced
      /\ serves \in [Procs -> [Keys -> 0..MaxContent]]
  BY DEF CacheInv, CacheTypeOK
<1>1. /\ job[t] \in JobType /\ JobOK(t) /\ job[t].pc = "query" /\ job[t].todo = {}
      /\ UNCHANGED <<cache, holder, serves, notices>>
  BY <1>0 DEF CacheInv, CheckCurrent
<1> DEFINE r == [job[t] EXCEPT !.pc = "commit"]
<1>2. job' = [job EXCEPT ![t] = r] BY <1>0, <1>1, Zenon DEF CheckCurrent, JobType
<1>3. r \in JobType BY <1>1 DEF JobType
<1>4. /\ r.pc = "commit" /\ r.base = job[t].base /\ r.todo = job[t].todo
      /\ r.rows = job[t].rows /\ r.proc = job[t].proc
  BY <1>1 DEF JobType
<1> HIDE DEF r
<1>5. job'[t] = r BY <1>0, <1>2
<1>6. CandidateOf(t)'
  BY <1>1, <1>4, <1>5 DEF JobOK, CandidateOf, ReadRow, Selections, RowType, Procs, Offers, Empty
<1>7. JobOK(t)' BY <1>1, <1>4, <1>5, <1>6 DEF JobOK
<1>8. job' \in [Tasks -> JobType] /\ \A u \in Tasks : JobOK(u)'
  BY <1>1, <1>2, <1>3, <1>7, OneJobMoves
<1> QED BY <1>0, <1>1, <1>8 DEF CacheInv, CacheTypeOK, CacheType, JobType, RowType, Procs, Tasks

\* A refresh that ends leaves the old snapshot, or a whole candidate.
LEMMA DoneStepInv ==
  ASSUME CacheInv, SlotInv, NEW t \in Tasks,
         NotLive(t) \/ QueryFails(t) \/ (CheckCurrent(t) /\ Done(t)) \/ Commit(t)
  PROVE  /\ CacheInv'
         /\ cache' = cache \/ (Commit(t) /\ cache' = Candidate(t) /\ CandidateOf(t))
<1> USE CacheAssumption
<1>0. /\ cache \in CacheType /\ job \in [Tasks -> JobType] /\ notices \subseteq Announced
      /\ serves \in [Procs -> [Keys -> 0..MaxContent]]
  BY DEF CacheInv, CacheTypeOK
<1>1. job[t] \in JobType /\ JobOK(t) /\ job[t].pc \in {"live", "query", "commit"}
  BY <1>0 DEF CacheInv, NotLive, QueryFails, CheckCurrent, Commit
<1>2. holder = t BY <1>1 DEF JobOK
<1>3. job' = [job EXCEPT ![t] = NoJob] /\ UNCHANGED <<serves, notices>>
  BY DEF NotLive, QueryFails, CheckCurrent, Commit, Done
<1>4. NoJob \in JobType BY DEF NoJob, JobType
<1>5. JobOK(t)'
  <2>1. job'[t].pc = "idle" BY <1>0, <1>3 DEF NoJob
  <2> QED BY <2>1 DEF JobOK
<1>6. job' \in [Tasks -> JobType] /\ \A u \in Tasks : JobOK(u)'
  BY <1>2, <1>3, <1>4, <1>5, OneJobMoves
<1>7. cache' = cache \/ (Commit(t) /\ cache' = Candidate(t))
  BY DEF NotLive, QueryFails, CheckCurrent, Commit
<1>8. ASSUME Commit(t), cache' = Candidate(t)
      PROVE  CandidateOf(t) /\ cache' \in CacheType
  <2>1. CandidateOf(t) BY <1>1, <1>8 DEF JobOK, Commit
  <2>2. job[t].generation \in Nat BY <1>1 DEF JobType
  <2>3. NextEpoch(t) \in Nat BY <1>0, <2>1 DEF NextEpoch, CandidateOf, CacheType
  <2>4. job[t].rows \in [Keys -> RowType] BY <2>1 DEF CandidateOf
  <2>5. cache' \in CacheType BY <1>8, <2>2, <2>3, <2>4 DEF Candidate, CacheType
  <2>6. cache'.rows = job[t].rows BY <1>8 DEF Candidate
  <2> QED BY <2>1, <2>4, <2>5, <2>6
<1>9. cache' \in CacheType BY <1>0, <1>7, <1>8
<1>10. CacheInv'
  BY <1>0, <1>3, <1>6, <1>9 DEF CacheInv, CacheTypeOK, CacheType, JobType, RowType, Procs,
                               Tasks
<1> QED BY <1>7, <1>8, <1>10

\* Every step keeps the invariant, and only a commit changes the cache.
LEMMA StepInv ==
  ASSUME RefreshInv, [Next]_vars
  PROVE  /\ RefreshInv'
         /\ \/ cache' = cache
            \/ \E t \in Tasks : Commit(t) /\ cache' = Candidate(t) /\ CandidateOf(t)
<1>0. SlotInv /\ CacheInv BY DEF RefreshInv
<1>1. CASE UNCHANGED vars
  <2>1. UNCHANGED <<slotVars, cacheVars>> BY <1>1 DEF vars
  <2>2. SlotInv'
    BY <1>0, <2>1 DEF slotVars, SlotInv, OpInv, ProcInv, OpType, Procs, Actors
  <2>3. UNCHANGED <<cache, holder, job, serves, notices>> BY <2>1 DEF cacheVars
  <2>4. \A t \in Tasks : JobOK(t)'
    BY <1>0, <2>3 DEF CacheInv, JobOK, CandidateOf, ReadRow, Selections, Procs, RowType, Offers,
                      Empty
  <2>5. CacheInv'
    BY <1>0, <2>3, <2>4 DEF CacheInv, CacheTypeOK, CacheType, JobType, RowType, Procs, Tasks,
                            Offers, Empty
  <2> QED BY <2>2, <2>3, <2>5 DEF RefreshInv
<1>2. CASE Slot
  BY <1>0, <1>2, SlotStepInv, OtherStepInv DEF Slot, cacheVars, RefreshInv
<1>3. CASE \E p \in Procs, k \in Keys : ListChanges(p, k)
  <2>1. UNCHANGED slotVars /\ UNCHANGED cache BY <1>3 DEF ListChanges
  <2>2. SlotInv'
    BY <1>0, <2>1 DEF slotVars, SlotInv, OpInv, ProcInv, OpType, Procs, Actors
  <2> QED BY <1>0, <1>3, <2>1, <2>2, OtherStepInv DEF RefreshInv
<1>4. ASSUME NEW t \in Tasks,
             \/ TakeNotice(t) \/ RefreshCommand(t) \/ RefreshAfterStart(t)
             \/ Lock(t) \/ Live(t) \/ Base(t)
             \/ \E k \in Keys : Query(t, k)
      PROVE  RefreshInv' /\ cache' = cache
  <2>1. CacheInv' BY <1>0, <1>4, EnterStepInv, BaseStepInv, QueryStepInv
  <2>2. SlotInv'
    <3>1. CASE RefreshAfterStart(t) BY <1>0, <3>1, RefreshSlotInv
    <3>2. CASE UNCHANGED slotVars
      BY <1>0, <3>2 DEF slotVars, SlotInv, OpInv, ProcInv, OpType, Procs, Actors
    <3> QED BY <1>4, <3>1, <3>2
            DEF TakeNotice, RefreshCommand, Lock, Live, Base, Query, Gather
  <2>3. cache' = cache
    BY <1>4 DEF TakeNotice, RefreshCommand, RefreshAfterStart, Lock, Live, Base, Query, Gather
  <2> QED BY <2>1, <2>2, <2>3 DEF RefreshInv
<1>5. ASSUME NEW t \in Tasks, NotLive(t) \/ QueryFails(t) \/ CheckCurrent(t) \/ Commit(t)
      PROVE  RefreshInv' /\ (cache' = cache \/ (Commit(t) /\ cache' = Candidate(t) /\ CandidateOf(t)))
  <2>1. SlotInv' BY <1>0, <1>5, RefreshSlotInv
  <2>2. CASE CheckCurrent(t) /\ ~Done(t)
    <3>1. CacheInv' /\ cache' = cache BY <1>0, <2>2, CheckStepInv DEF CheckCurrent
    <3> QED BY <2>1, <3>1 DEF RefreshInv
  <2>3. CASE ~(CheckCurrent(t) /\ ~Done(t))
    BY <1>0, <1>5, <2>1, <2>3, DoneStepInv DEF RefreshInv
  <2> QED BY <2>2, <2>3
<1> QED BY <1>1, <1>2, <1>3, <1>4, <1>5 DEF Next, Refresh

-----------------------------------------------------------------------------
(* The theorems *)

LEMMA RefreshInvariant == Spec => []RefreshInv
<1>1. Init => RefreshInv BY InitInv
<1>2. RefreshInv /\ [Next]_vars => RefreshInv' BY StepInv
<1> QED BY <1>1, <1>2, PTL DEF Spec

\* The slot's variables have their types, and no ensure starts a backend more
\* often than its backoff has entries, however starts, stops, failures and
\* deaths overlap.
THEOREM SlotWellTyped == Spec => []SlotTypeOK
<1>1. RefreshInv => SlotTypeOK
  BY DEF RefreshInv, SlotInv, OpInv, ProcInv, SlotTypeOK
<1> QED BY <1>1, RefreshInvariant, PTL

LEMMA InitialSnapshot == Init => Snapshot!SnapshotInit
<1> SUFFICES ASSUME Init PROVE Snapshot!SnapshotInit OBVIOUS
<1> USE SlotAssumption, CacheAssumption
<1>0. PICK read \in SUBSET Supported :
         cache = [rows |-> [k \in Keys |-> Row(1, IF k \in read THEN 0 ELSE Empty)],
                  generation |-> 1, epoch |-> 1]
  BY DEF Init
<1>1. /\ cache.rows = [k \in Keys |-> Row(1, IF k \in read THEN 0 ELSE Empty)]
      /\ cache.epoch = 1
  BY <1>0
<1>2. 1 \in Procs /\ 0 \in 0..MaxContent BY DEF Procs
<1>3. \A k \in Keys : cache.rows[k].from = 1 /\ cache.rows[k].content \in Offers[k] \cup {Empty}
  BY <1>1, <1>2 DEF Row, Offers
<1>4. DOMAIN cache.rows = Keys BY <1>1
<1>5. \E p \in Procs : \A k \in Keys :
         cache.rows[k].from = p /\ cache.rows[k].content \in Offers[k] \cup {Empty}
  BY <1>2, <1>3
<1> QED BY <1>1, <1>4, <1>5 DEF Snapshot!SnapshotInit

\* A commit is the replacement of the selected rows that the readers are
\* promised.
LEMMA CommitIsReplacement ==
  ASSUME RefreshInv, NEW t \in Tasks, Commit(t), cache' = Candidate(t), CandidateOf(t),
         cache' # cache
  PROVE  Snapshot!SnapshotNext
<1>1. job[t].todo = {} BY DEF Commit, RefreshInv, CacheInv, JobOK
<1>2. PICK K \in Selections : \A k \in Keys :
         IF k \in K THEN ReadRow(k, job[t].rows, job[t].proc)
                    ELSE job[t].rows[k] = cache.rows[k]
  BY <1>1 DEF CandidateOf
<1>3. /\ cache'.rows = job[t].rows /\ cache'.generation = job[t].generation
      /\ cache'.epoch = NextEpoch(t)
  BY DEF Candidate
<1>4. job[t].base = cache /\ job[t].proc \in Procs
      /\ job[t].rows \in [Keys -> RowType]
  BY DEF CandidateOf
<1>5. DOMAIN cache'.rows = Keys BY <1>3, <1>4
<1>6. Snapshot!ReplaceRows(K, job[t].proc)
  BY <1>2, <1>3, <1>5 DEF Snapshot!ReplaceRows, ReadRow
<1>7. Snapshot!SameTruth <=> ~Changed(t)
  BY <1>3, <1>4 DEF Snapshot!SameTruth, Changed, ContentOf
<1>8. Snapshot!Commit(K, job[t].proc)
  BY <1>3, <1>4, <1>6, <1>7 DEF Snapshot!Commit, NextEpoch
<1> QED BY <1>4, <1>8 DEF Snapshot!SnapshotNext, Selections

\* The cache implements the snapshot its readers are promised: rows are
\* replaced together by rows of one process, and an epoch names its content.
THEOREM CacheImplementsSnapshot == Spec => SnapshotSpec
<1>1. Init => Snapshot!SnapshotInit BY InitialSnapshot
<1>2. RefreshInv /\ [Next]_vars => [Snapshot!SnapshotNext]_cache
  <2> SUFFICES ASSUME RefreshInv, [Next]_vars, cache' # cache PROVE Snapshot!SnapshotNext
    OBVIOUS
  <2> QED BY StepInv, CommitIsReplacement
<1> QED BY <1>1, <1>2, RefreshInvariant, PTL DEF Spec, SnapshotSpec, Snapshot!SnapshotSpec
-----------------------------------------------------------------------------
(* The number a candidate is committed under *)

\* Every selection has a list that the backend is asked for.
SelectionsAsked == \A keys \in Selections : keys \cap Supported # {}

Starting(pc) == pc \in {"handshake", "install"}
Numbered(pc) == pc \in {"take", "spawn", "handshake", "install"}

\* The process in the slot carries the slot's number.  A process that is being
\* started has none yet, and nobody else holds it.
SlotScope ==
    /\ tagOf \in [Procs -> Nat]
    /\ generation > 0
    /\ slot # Nil => tagOf[slot] = generation
    /\ \A p \in Procs : p > spawned => tagOf[p] = 0
    /\ \A a \in Actors : Numbered(op[a].pc) => op[a].next > 0
    /\ \A a \in Actors : Starting(op[a].pc) => tagOf[op[a].mine] = 0
    /\ \A a, b \in Actors :
          (a # b /\ Starting(op[a].pc) /\ Starting(op[b].pc)) => op[a].mine # op[b].mine

\* The process of a refresh was in the slot.  Before the number is read it still
\* is, or it is dead, or overwritten.  A process that was dead then answers no
\* query, so it is never committed.
JobScope(t) ==
    /\ job[t].pc \in {"base", "query", "commit"} => tagOf[job[t].proc] # 0
    /\ job[t].pc = "base" =>
          job[t].proc = slot \/ job[t].proc \notin alive \/ job[t].proc \in overwritten
    /\ job[t].pc \in {"query", "commit"} =>
          \/ tagOf[job[t].proc] = job[t].generation
          \/ job[t].proc \in overwritten
          \/ job[t].proc \notin alive /\ job[t].todo # {}

ScopeInv == SlotScope /\ \A t \in Tasks : JobScope(t)

\* What a task that neither spawns nor installs does to its number and process.
Carried(b) ==
    /\ Starting(op'[b].pc) => Starting(op[b].pc) /\ op'[b].mine = op[b].mine
    /\ Numbered(op'[b].pc) =>
          \/ Numbered(op[b].pc) /\ op'[b].next = op[b].next
          \/ op'[b].next = generation + 1

QuietStep ==
    /\ slot' \in {slot, Nil} /\ (slot' = slot \/ slot \notin alive')
    /\ alive' \subseteq alive
    /\ UNCHANGED <<generation, spawned>>
    /\ \A b \in Actors : Carried(b)

\* A task that moves leaves the others' numbers and processes alone.
LEMMA OthersCarried ==
  ASSUME OpInv, NEW a \in Actors, NEW r, op' = [op EXCEPT ![a] = r],
         Starting(r.pc) => Starting(op[a].pc) /\ r.mine = op[a].mine,
         Numbered(r.pc) => \/ Numbered(op[a].pc) /\ r.next = op[a].next
                           \/ r.next = generation + 1
  PROVE  \A b \in Actors : Carried(b)
<1> SUFFICES ASSUME NEW b \in Actors PROVE Carried(b) OBVIOUS
<1>1. op'[b] = IF b = a THEN r ELSE op[b] BY DEF OpInv
<1> QED BY <1>1 DEF Carried

LEMMA SettledCarried ==
  ASSUME OpInv, NEW a \in Actors, Finish(a) \/ Enter(a, "served") \/ Enter(a, "refresh")
  PROVE  \A b \in Actors : Carried(b)
<1>1. CASE Finish(a)
  <2>1. ~Starting(Idle.pc) /\ ~Numbered(Idle.pc) BY DEF Idle, Starting, Numbered
  <2> QED BY <1>1, <2>1, OthersCarried DEF Finish
<1>2. ASSUME NEW label \in {"served", "refresh"}, Enter(a, label)
      PROVE  \A b \in Actors : Carried(b)
  <2> DEFINE r == [Idle EXCEPT !.pc = label]
  <2>1. r.pc = label BY DEF Idle
  <2>2. ~Starting(r.pc) /\ ~Numbered(r.pc) BY <2>1 DEF Starting, Numbered
  <2>3. op' = [op EXCEPT ![a] = r] BY <1>2 DEF Enter
  <2> HIDE DEF r
  <2> QED BY <2>2, <2>3, OthersCarried
<1> QED BY <1>1, <1>2

LEMMA UnchangedCarried == ASSUME UNCHANGED op PROVE \A b \in Actors : Carried(b)
BY DEF Carried

\* Looks, numbers, failures: the task moves by one or two fields.
LEMMA LookCarried ==
  ASSUME OpInv, NEW a \in Actors,
         BrokerLook(a) \/ EnsureLook(a) \/ EnsureStart(a) \/ RestartStart(a)
  PROVE  \A b \in Actors : Carried(b)
<1>1. op[a] \in OpType BY DEF OpInv
<1>2. ASSUME NEW label \in {"ensure", "start"}, NEW what,
             op' = [op EXCEPT ![a].pc = label, ![a].replaces = what]
      PROVE  \A b \in Actors : Carried(b)
  <2> DEFINE r == [op[a] EXCEPT !.pc = label, !.replaces = what]
  <2>1. r.pc = label BY <1>1 DEF OpType
  <2>2. ~Starting(r.pc) /\ ~Numbered(r.pc) BY <2>1 DEF Starting, Numbered
  <2>3. op' = [op EXCEPT ![a] = r] BY <1>2 DEF OpInv
  <2> HIDE DEF r
  <2> QED BY <2>2, <2>3, OthersCarried
<1>3. ASSUME Number(a) PROVE \A b \in Actors : Carried(b)
  <2> DEFINE r == [op[a] EXCEPT !.pc = IF a \in Callers THEN "spawn" ELSE "take",
                                !.next = generation + 1]
  <2>1. r.pc \in {"spawn", "take"} /\ r.next = generation + 1 BY <1>1 DEF OpType
  <2>2. ~Starting(r.pc) BY <2>1 DEF Starting
  <2>3. op' = [op EXCEPT ![a] = r] BY <1>3 DEF Number
  <2> HIDE DEF r
  <2> QED BY <2>1, <2>2, <2>3, OthersCarried
<1>4. CASE Enter(a, "served") \/ Finish(a) BY <1>4, SettledCarried
<1>5. CASE UNCHANGED op BY <1>5, UnchangedCarried
<1>6. CASE BrokerLook(a) BY <1>2, <1>4, <1>6 DEF BrokerLook
<1>7. CASE EnsureLook(a)
  <2>1. CASE LiveSlot BY <1>4, <1>7, <2>1 DEF EnsureLook
  <2>2. CASE ~LiveSlot
    <3>1. \E what : op' = [op EXCEPT ![a].pc = "start", ![a].replaces = what]
      BY <1>1, <1>7, <2>2 DEF EnsureLook, OpType, OpInv
    <3> QED BY <1>2, <3>1
  <2> QED BY <2>1, <2>2
<1>8. CASE EnsureStart(a) BY <1>3, <1>4, <1>8 DEF EnsureStart
<1>9. CASE RestartStart(a) BY <1>3, <1>5, <1>9 DEF RestartStart
<1> QED BY <1>6, <1>7, <1>8, <1>9

LEMMA GotoCarried ==
  ASSUME OpInv, NEW a \in Actors, NEW label, Goto(a, label), Numbered(op[a].pc),
         Starting(label) => Starting(op[a].pc)
  PROVE  \A b \in Actors : Carried(b)
<1> DEFINE r == [op[a] EXCEPT !.pc = label]
<1>1. op[a] \in OpType BY DEF OpInv
<1>2. r.pc = label /\ r.mine = op[a].mine /\ r.next = op[a].next BY <1>1 DEF OpType
<1>3. op' = [op EXCEPT ![a] = r] BY DEF Goto
<1> HIDE DEF r
<1> QED BY <1>2, <1>3, OthersCarried

LEMMA FailCarried ==
  ASSUME OpInv, NEW a \in Actors, SpawnError(a) \/ HandshakeError(a)
  PROVE  \A b \in Actors : Carried(b)
<1>1. op[a] \in OpType /\ Numbered(op[a].pc) /\ StartFails(a)
  BY DEF OpInv, SpawnError, HandshakeError, Numbered
<1>2. CASE a \notin Callers BY <1>1, <1>2, SettledCarried DEF StartFails, RestartFails
<1>3. CASE a \in Callers
  <2> DEFINE label == IF op[a].tries + 1 < Attempts THEN "spawn" ELSE "giveup"
             r == [op[a] EXCEPT !.tries = op[a].tries + 1, !.mine = Nil, !.pc = label]
  <2>1. r.pc = label /\ r.next = op[a].next BY <1>1 DEF OpType
  <2>2. ~Starting(r.pc) BY <2>1 DEF Starting
  <2>3. op' = [op EXCEPT ![a] = r]
    BY <1>1, <1>3 DEF StartFails, Retry, OpType, OpInv
  <2> HIDE DEF r
  <2> QED BY <1>1, <2>1, <2>2, <2>3, OthersCarried
<1> QED BY <1>2, <1>3

\* A step of the slot spawns, installs, or takes at most a dead process out.
LEMMA SlotStepKinds ==
  ASSUME SlotInv, SlotNext
  PROVE  QuietStep \/ \E a \in Actors : Spawn(a) \/ EnsureInstall(a) \/ RestartInstall(a)
<1>0. OpInv BY DEF SlotInv
<1>1. CASE Stop \/ CooldownEnds \/ \E p \in Procs : Die(p)
  <2>1. \A b \in Actors : Carried(b)
    BY <1>1, UnchangedCarried DEF Stop, CooldownEnds, Die, procVars
  <2> QED BY <1>1, <2>1 DEF QuietStep, Stop, CooldownEnds, Die, procVars
<1>2. ASSUME NEW a \in Actors, BrokerLook(a) \/ EnsureLook(a) \/ EnsureStart(a) \/ RestartStart(a)
      PROVE  QuietStep
  BY <1>0, <1>2, LookCarried
     DEF QuietStep, BrokerLook, EnsureLook, EnsureStart, RestartStart, procVars
<1>3. ASSUME NEW a \in Actors, EnsureGiveUp(a) \/ CallSucceeds(a) \/ CallFails(a) PROVE QuietStep
  BY <1>0, <1>3, SettledCarried DEF QuietStep, EnsureGiveUp, CallSucceeds, CallFails, procVars
<1>4. ASSUME NEW a \in Actors, RestartTake(a) PROVE QuietStep
  <2>1. \A b \in Actors : Carried(b)
    BY <1>0, <1>4, GotoCarried DEF RestartTake, Numbered, Starting
  <2> QED BY <1>4, <2>1 DEF QuietStep, RestartTake
<1>5. ASSUME NEW a \in Actors, Handshake(a) PROVE QuietStep
  <2>1. \A b \in Actors : Carried(b)
    BY <1>0, <1>5, GotoCarried DEF Handshake, Numbered, Starting
  <2> QED BY <1>5, <2>1 DEF QuietStep, Handshake, procVars
<1>6. ASSUME NEW a \in Actors, SpawnError(a) \/ HandshakeError(a) PROVE QuietStep
  BY <1>0, <1>6, FailCarried DEF QuietStep, SpawnError, HandshakeError, procVars
<1> QED BY <1>1, <1>2, <1>3, <1>4, <1>5, <1>6 DEF SlotNext

\* What a quiet step leaves of the slot's part.
LEMMA QuietSlotScope ==
  ASSUME SlotInv, SlotScope, QuietStep, UNCHANGED tagOf
  PROVE  SlotScope'
<1> USE DEF QuietStep
<1>1. /\ tagOf' \in [Procs -> Nat]
      /\ generation' > 0
      /\ slot' # Nil => tagOf'[slot'] = generation'
      /\ \A p \in Procs' : p > spawned' => tagOf'[p] = 0
  BY DEF SlotScope, Procs
<1>2. \A a \in Actors : Numbered(op'[a].pc) => op'[a].next > 0
  BY DEF SlotScope, Carried, SlotInv, ProcInv
<1>3. \A a \in Actors : Starting(op'[a].pc) => tagOf'[op'[a].mine] = 0
  BY DEF SlotScope, Carried
<1>4. \A a, b \in Actors :
         (a # b /\ Starting(op'[a].pc) /\ Starting(op'[b].pc)) => op'[a].mine # op'[b].mine
  BY DEF SlotScope, Carried
<1> QED BY <1>1, <1>2, <1>3, <1>4 DEF SlotScope, Procs, Actors

\* A spawned process is new: no number, and nobody holds it.
LEMMA SpawnScope ==
  ASSUME SlotInv, SlotScope, NEW a \in Actors, Spawn(a), UNCHANGED tagOf
  PROVE  SlotScope'
<1> USE SlotAssumption
<1>1. spawned \in Nat /\ spawned + 1 \in Procs
  <2>1. spawned \in 1..MaxSpawns BY DEF SlotInv, ProcInv, Procs
  <2> QED BY <2>1 DEF Spawn, Procs
<1>2. op[a] \in OpType /\ op \in [Actors -> OpType] BY DEF SlotInv, OpInv
<1> DEFINE r == [op[a] EXCEPT !.pc = "handshake", !.mine = spawned + 1]
<1>3. r.mine = spawned + 1 /\ r.next = op[a].next BY <1>2 DEF OpType
<1>4. op' = [op EXCEPT ![a] = r] BY <1>2 DEF Spawn, OpType
<1> HIDE DEF r
<1>5. \A b \in Actors : op'[b] = IF b = a THEN r ELSE op[b] BY <1>2, <1>4
<1>6. \A b \in Actors : Starting(op[b].pc) => op[b].mine \in 1..spawned
  BY DEF SlotInv, OpInv, Starting
<1>7. tagOf[spawned + 1] = 0 BY <1>1 DEF SlotScope
<1>8. /\ tagOf' \in [Procs -> Nat] /\ generation' > 0
      /\ slot' # Nil => tagOf'[slot'] = generation'
  BY DEF SlotScope, Spawn
<1>9. \A p \in Procs : p > spawned' => tagOf'[p] = 0
  BY <1>1 DEF SlotScope, Spawn, Procs
<1>10. \A b \in Actors : Numbered(op'[b].pc) => op'[b].next > 0
  BY <1>3, <1>5 DEF SlotScope, Spawn, Numbered
<1>11. \A b \in Actors : Starting(op'[b].pc) => tagOf'[op'[b].mine] = 0
  BY <1>3, <1>5, <1>7 DEF SlotScope
<1>12. ASSUME NEW b \in Actors, NEW c \in Actors, b # c, Starting(op'[b].pc), Starting(op'[c].pc)
       PROVE  op'[b].mine # op'[c].mine
  <2>1. CASE b # a /\ c # a BY <1>5, <1>12, <2>1 DEF SlotScope
  <2>2. ASSUME NEW d \in Actors, d # a, Starting(op'[d].pc) PROVE op'[d].mine # op'[a].mine
    <3>1. op[d].mine \in 1..spawned BY <1>5, <1>6, <2>2
    <3> QED BY <1>1, <1>3, <1>5, <2>2, <3>1
  <2> QED BY <1>12, <2>1, <2>2
<1> QED BY <1>8, <1>9, <1>10, <1>11, <1>12 DEF SlotScope, Procs, Actors

\* An installed process gets the number its start has drawn.
LEMMA InstallScope ==
  ASSUME SlotInv, SlotScope, NEW a \in Actors, EnsureInstall(a) \/ RestartInstall(a),
         tagOf' = IF slot' # slot /\ slot' # Nil
                  THEN [tagOf EXCEPT ![slot'] = generation'] ELSE tagOf
  PROVE  /\ SlotScope' /\ slot' # slot /\ slot' # Nil /\ tagOf[slot'] = 0
         /\ \A p \in Procs : p # slot' => tagOf'[p] = tagOf[p]
<1> USE SlotAssumption
<1>1. /\ slot' = op[a].mine /\ generation' = op[a].next /\ op[a].pc = "install"
      /\ UNCHANGED spawned /\ (Enter(a, "refresh") \/ Enter(a, "served"))
  BY DEF EnsureInstall, RestartInstall
<1>2. op[a].mine \in Procs
  <2>1. op[a].mine \in 1..spawned /\ spawned \in 1..MaxSpawns
    BY <1>1 DEF SlotInv, OpInv, ProcInv, Procs
  <2> QED BY <2>1 DEF Procs
<1>3. generation' > 0 /\ generation' \in Nat
  BY <1>1 DEF SlotScope, Numbered, SlotInv, OpInv, OpType
<1>4. tagOf[op[a].mine] = 0 BY <1>1 DEF SlotScope, Starting
<1>5. slot' # slot /\ slot' # Nil
  <2>1. slot' # Nil BY <1>1, <1>2 DEF Procs
  <2>2. slot # Nil => tagOf[slot] # 0 BY DEF SlotScope
  <2> QED BY <1>1, <1>4, <2>1, <2>2
<1>6. /\ tagOf' \in [Procs -> Nat] /\ tagOf'[slot'] = generation'
      /\ \A p \in Procs : p # slot' => tagOf'[p] = tagOf[p]
  BY <1>1, <1>2, <1>3, <1>5 DEF SlotScope
<1>7. \A b \in Actors : Carried(b) BY <1>1, SettledCarried DEF SlotInv
<1>8. op'[a].pc \in {"refresh", "served"}
  BY <1>1 DEF Enter, Idle, SlotInv, OpInv
<1>9. \A p \in Procs : p > spawned' => tagOf'[p] = 0
  <2>1. op[a].mine \in 1..spawned /\ spawned \in Nat
    BY <1>1 DEF SlotInv, OpInv, ProcInv, Procs
  <2>2. \A p \in Procs : p > spawned => p # op[a].mine BY <2>1 DEF Procs
  <2> QED BY <1>1, <1>6, <2>2 DEF SlotScope
<1>10. \A b \in Actors : Numbered(op'[b].pc) => op'[b].next > 0
  <2>1. ASSUME NEW b \in Actors, b # a PROVE op'[b] = op[b]
    BY <1>1, <2>1 DEF Enter, SlotInv, OpInv
  <2>2. ~Numbered(op'[a].pc) BY <1>8 DEF Numbered
  <2> QED BY <2>1, <2>2 DEF SlotScope
<1>11. \A b \in Actors : Starting(op'[b].pc) => b # a /\ Starting(op[b].pc) /\ op'[b].mine = op[b].mine
  BY <1>7, <1>8 DEF Carried, Starting
<1>12. ASSUME NEW b \in Actors, Starting(op'[b].pc) PROVE tagOf'[op'[b].mine] = 0
  <2>1. b # a /\ Starting(op[b].pc) /\ op'[b].mine = op[b].mine BY <1>11, <1>12
  <2>2. op[b].mine # op[a].mine /\ tagOf[op[b].mine] = 0
    BY <1>1, <2>1 DEF SlotScope, Starting
  <2>3. op[b].mine \in Procs
    <3>1. op[b].mine \in 1..spawned /\ spawned \in 1..MaxSpawns
      BY <2>1 DEF SlotInv, OpInv, ProcInv, Procs, Starting
    <3> QED BY <3>1 DEF Procs
  <2> QED BY <1>1, <1>6, <2>1, <2>2, <2>3
<1>13. \A b, c \in Actors :
          (b # c /\ Starting(op'[b].pc) /\ Starting(op'[c].pc)) => op'[b].mine # op'[c].mine
  BY <1>11 DEF SlotScope
<1>14. SlotScope'
  BY <1>3, <1>6, <1>9, <1>10, <1>12, <1>13 DEF SlotScope, Procs, Actors
<1> QED BY <1>1, <1>4, <1>5, <1>6, <1>14

\* The process a refresh has taken is one of the numbered ones.
LEMMA JobProc ==
  ASSUME CacheInv, NEW t \in Tasks, job[t].pc \in {"base", "query", "commit"}
  PROVE  job[t].proc \in Procs
BY DEF CacheInv, JobOK, CandidateOf

\* Whatever the slot does, the process of a refresh stays in it, dies or is
\* overwritten.
LEMMA SlotKeepsScope ==
  ASSUME RefreshInv, ScopeInv, Slot
  PROVE  ScopeInv'
<1>0. SlotInv /\ CacheInv /\ SlotScope /\ SlotNext /\ UNCHANGED job
  BY DEF RefreshInv, ScopeInv, Slot, cacheVars
<1>1. /\ tagOf' = IF slot' # slot /\ slot' # Nil
                  THEN [tagOf EXCEPT ![slot'] = generation'] ELSE tagOf
      /\ overwritten' = overwritten \cup
                           {p \in alive' : p = slot /\ slot' \notin {slot, Nil}}
  BY DEF Slot
<1>2. overwritten \subseteq overwritten' BY <1>1
<1>3. CASE QuietStep
  <2>1. UNCHANGED tagOf BY <1>1, <1>3 DEF QuietStep
  <2>2. SlotScope' BY <1>0, <1>3, <2>1, QuietSlotScope
  <2>3. ASSUME NEW t \in Tasks PROVE JobScope(t)'
    BY <1>0, <1>2, <1>3, <2>1 DEF ScopeInv, JobScope, QuietStep
  <2> QED BY <2>2, <2>3 DEF ScopeInv, Tasks
<1>4. ASSUME NEW a \in Actors, Spawn(a) PROVE ScopeInv'
  <2>1. UNCHANGED <<slot, tagOf>> BY <1>1, <1>4 DEF Spawn
  <2>2. SlotScope' BY <1>0, <1>4, <2>1, SpawnScope
  <2>3. ASSUME NEW t \in Tasks PROVE JobScope(t)'
    <3>1. JobScope(t) BY DEF ScopeInv
    <3>2. CASE job[t].pc \notin {"base", "query", "commit"} BY <1>0, <3>2 DEF JobScope
    <3>3. CASE job[t].pc \in {"base", "query", "commit"}
      <4>1. job[t].proc \in Procs /\ tagOf[job[t].proc] # 0 BY <1>0, <3>1, <3>3, JobProc DEF JobScope
      <4>2. spawned + 1 > spawned /\ spawned + 1 \in Procs
        <5>1. spawned \in 1..MaxSpawns /\ spawned < MaxSpawns
          BY <1>0, <1>4 DEF SlotInv, ProcInv, Procs, Spawn
        <5> QED BY <5>1, SlotAssumption DEF Procs
      <4>3. job[t].proc # spawned + 1 BY <1>0, <4>1, <4>2 DEF SlotScope
      <4>4. job[t].proc \in alive' <=> job[t].proc \in alive BY <1>4, <4>3 DEF Spawn
      <4> QED BY <1>0, <1>2, <2>1, <3>1, <4>4 DEF JobScope
    <3> QED BY <3>2, <3>3
  <2> QED BY <2>2, <2>3 DEF ScopeInv, Tasks
<1>5. ASSUME NEW a \in Actors, EnsureInstall(a) \/ RestartInstall(a) PROVE ScopeInv'
  <2>1. /\ SlotScope' /\ slot' # slot /\ slot' # Nil /\ tagOf[slot'] = 0
        /\ \A p \in Procs : p # slot' => tagOf'[p] = tagOf[p]
    BY <1>0, <1>1, <1>5, InstallScope
  <2>2. alive' \subseteq alive BY <1>5 DEF EnsureInstall, RestartInstall
  <2>3. slot \notin alive' \/ slot \in overwritten' BY <1>1, <2>1
  <2>4. ASSUME NEW t \in Tasks PROVE JobScope(t)'
    <3>1. JobScope(t) BY DEF ScopeInv
    <3>2. CASE job[t].pc \notin {"base", "query", "commit"} BY <1>0, <3>2 DEF JobScope
    <3>3. CASE job[t].pc \in {"base", "query", "commit"}
      <4>1. job[t].proc \in Procs /\ tagOf[job[t].proc] # 0 BY <1>0, <3>1, <3>3, JobProc DEF JobScope
      <4>2. tagOf'[job[t].proc] = tagOf[job[t].proc] BY <2>1, <4>1
      <4> QED BY <1>0, <1>2, <2>2, <2>3, <3>1, <4>1, <4>2 DEF JobScope
    <3> QED BY <3>2, <3>3
  <2> QED BY <2>1, <2>4 DEF ScopeInv, Tasks
<1> QED BY <1>0, <1>3, <1>4, <1>5, SlotStepKinds

\* A refresh takes the process in the slot, then its number, and commits only
\* what a query could still be made for.
LEMMA RefreshKeepsScope ==
  ASSUME RefreshInv, ScopeInv, SelectionsAsked, NEW t \in Tasks,
         \/ TakeNotice(t) \/ RefreshCommand(t) \/ RefreshAfterStart(t)
         \/ Lock(t) \/ Live(t) \/ NotLive(t) \/ Base(t)
         \/ \E k \in Keys : Query(t, k)
         \/ QueryFails(t) \/ CheckCurrent(t) \/ Commit(t)
  PROVE  ScopeInv'
<1>0. SlotInv /\ CacheInv /\ OpInv /\ SlotScope /\ JobOK(t) /\ JobScope(t)
  BY DEF RefreshInv, ScopeInv, SlotInv, CacheInv
<1>1. UNCHANGED <<slot, alive, spawned, generation, tagOf, overwritten>>
  BY DEF TakeNotice, RefreshCommand, RefreshAfterStart, Lock, Live, NotLive, Base, Query,
         Gather, QueryFails, CheckCurrent, Commit, Done, slotVars, procVars, history
<1>2. \A b \in Actors : Carried(b)
  <2>1. UNCHANGED op \/ (t \in Actors /\ (Finish(t) \/ Enter(t, "served")))
    BY DEF TakeNotice, RefreshCommand, RefreshAfterStart, Lock, Live, NotLive, Base, Query,
           Gather, QueryFails, CheckCurrent, Commit, Done, slotVars, Actors
  <2> QED BY <1>0, <2>1, UnchangedCarried, SettledCarried
<1>3. SlotScope' BY <1>0, <1>1, <1>2, QuietSlotScope DEF QuietStep
<1>4. job \in [Tasks -> JobType] /\ job[t] \in JobType BY <1>0 DEF CacheInv, CacheTypeOK
<1>5. \A u \in Tasks : u # t => job'[u] = job[u]
  BY <1>4 DEF TakeNotice, RefreshCommand, RefreshAfterStart, Want, Lock, Live, NotLive, Base,
              Query, Gather, QueryFails, CheckCurrent, Commit, Done
<1>6. JobScope(t)'
  <2>1. CASE \/ TakeNotice(t) \/ RefreshCommand(t) \/ RefreshAfterStart(t) \/ Lock(t)
             \/ NotLive(t) \/ QueryFails(t) \/ Commit(t)
    <3>1. job'[t] = job[t] \/ job'[t].pc \in {"idle", "lock", "live"}
      BY <1>4, <2>1 DEF TakeNotice, RefreshCommand, RefreshAfterStart, Want, Lock, NotLive,
                        QueryFails, Commit, Done, NoJob, JobType
    <3> QED BY <1>0, <1>1, <3>1 DEF JobScope
  <2>2. CASE Live(t)
    <3>1. job'[t].pc = "base" /\ job'[t].proc = slot
      BY <1>4, <2>2 DEF Live, JobType
    <3>2. slot \in Procs
      BY <1>0, <2>2, SlotAssumption DEF Live, LiveSlot, SlotInv, ProcInv, Procs
    <3>3. slot # Nil BY <3>2, SlotAssumption DEF Procs
    <3> QED BY <1>0, <1>1, <3>1, <3>3 DEF JobScope, SlotScope
  <2>3. CASE Base(t)
    <3>1. /\ job'[t].pc = "query" /\ job'[t].proc = job[t].proc
          /\ job'[t].generation = generation /\ job'[t].todo = job[t].todo \cap Supported
          /\ job[t].pc = "base"
      BY <1>4, <2>3 DEF Base, JobType
    <3>2. job'[t].todo # {} BY <1>0, <3>1 DEF JobOK, SelectionsAsked
    <3>3. job[t].proc \in Procs BY <1>0, <3>1 DEF JobOK
    <3>4. job[t].proc # Nil BY <3>3, SlotAssumption DEF Procs
    <3> QED BY <1>0, <1>1, <3>1, <3>2, <3>4 DEF JobScope, SlotScope
  <2>5. CASE CheckCurrent(t)
    <3>1. CASE Done(t)
      <4>1. job'[t].pc = "idle" BY <1>4, <3>1 DEF Done, NoJob
      <4> QED BY <4>1 DEF JobScope
    <3>2. CASE ~Done(t)
      <4>1. /\ job'[t].pc = "commit" /\ job'[t].proc = job[t].proc
            /\ job'[t].generation = job[t].generation /\ job'[t].todo = job[t].todo
            /\ job[t].pc = "query"
        BY <1>4, <2>5, <3>2 DEF CheckCurrent, JobType
      <4> QED BY <1>0, <1>1, <4>1 DEF JobScope
    <3> QED BY <3>1, <3>2
  <2>4. ASSUME NEW k \in Keys, Query(t, k) PROVE JobScope(t)'
    <3>1. /\ job'[t].pc = "query" /\ job'[t].proc = job[t].proc
          /\ job'[t].generation = job[t].generation
          /\ job[t].pc = "query" /\ job[t].proc \in alive
      BY <1>4, <2>4 DEF Query, Gather, JobType
    <3> QED BY <1>0, <1>1, <3>1 DEF JobScope
  <2> QED BY <2>1, <2>2, <2>3, <2>4, <2>5
<1>7. ASSUME NEW u \in Tasks PROVE JobScope(u)'
  <2>1. CASE u = t BY <1>6, <2>1
  <2>2. CASE u # t
    <3>1. job'[u] = job[u] BY <1>5, <2>2
    <3> QED BY <1>1, <3>1 DEF ScopeInv, JobScope
  <2> QED BY <2>1, <2>2
<1> QED BY <1>3, <1>7 DEF ScopeInv, Tasks

LEMMA StepKeepsScope ==
  ASSUME RefreshInv, ScopeInv, SelectionsAsked, [Next]_vars
  PROVE  ScopeInv'
<1>1. CASE Slot BY <1>1, SlotKeepsScope
<1>2. CASE Refresh BY <1>2, RefreshKeepsScope DEF Refresh
<1>3. CASE UNCHANGED vars \/ \E p \in Procs, k \in Keys : ListChanges(p, k)
  <2>1. UNCHANGED <<slot, alive, spawned, generation, op, job, tagOf, overwritten>>
    BY <1>3 DEF vars, slotVars, cacheVars, history, ListChanges
  <2>2. QuietStep
    BY <2>1, UnchangedCarried DEF QuietStep
  <2>3. SlotScope' BY <2>1, <2>2, QuietSlotScope DEF RefreshInv, ScopeInv
  <2>4. \A t \in Tasks : JobScope(t)' BY <2>1 DEF ScopeInv, JobScope
  <2> QED BY <2>3, <2>4 DEF ScopeInv, Tasks
<1> QED BY <1>1, <1>2, <1>3 DEF Next

LEMMA InitScope == Init => ScopeInv
<1> SUFFICES ASSUME Init PROVE ScopeInv OBVIOUS
<1> USE SlotAssumption DEF Init, SlotInit, Idle, Procs
<1>1. tagOf \in [Procs -> Nat] /\ tagOf[slot] = generation OBVIOUS
<1>2. \A a \in Actors : ~Numbered(op[a].pc) /\ ~Starting(op[a].pc) BY DEF Numbered, Starting
<1>3. SlotScope BY <1>1, <1>2 DEF SlotScope
<1>4. \A t \in Tasks : JobScope(t) BY DEF JobScope, NoJob
<1> QED BY <1>3, <1>4 DEF ScopeInv

\* A refresh finds current, and commits, rows under the number of the process it
\* asked, whatever restarts, stops, deaths and other refreshes come in between,
\* unless a start has overwritten that process while it ran.
THEOREM CommitsAreCurrent == ASSUME SelectionsAsked PROVE Spec => CommitsCurrentGeneration
<1> DEFINE Inv == RefreshInv /\ ScopeInv
           Current ==
              /\ \A t \in Tasks :
                    job[t].pc = "query" /\ job'[t].pc = "commit" =>
                       \/ tagOf[job[t].proc] = generation
                       \/ job[t].proc \in overwritten
              /\ cache' # cache =>
                    \/ tagOf[job[holder].proc] = cache'.generation
                    \/ job[holder].proc \in overwritten
<1>1. Init => Inv BY InitInv, InitScope
<1>2. Inv /\ [Next]_vars => Inv' BY StepInv, StepKeepsScope
<1>3. ASSUME RefreshInv, ScopeInv, [Next]_vars, NEW t \in Tasks,
             job[t].pc = "query", job'[t].pc = "commit"
      PROVE  tagOf[job[t].proc] = generation \/ job[t].proc \in overwritten
  <2>1. job \in [Tasks -> JobType] BY <1>3 DEF RefreshInv, CacheInv, CacheTypeOK
  <2>5. job' # job BY <1>3
  <2>7. ASSUME NEW u \in Tasks,
               \/ TakeNotice(u) \/ RefreshCommand(u) \/ RefreshAfterStart(u)
               \/ Lock(u) \/ Live(u) \/ Base(u)
        PROVE  FALSE
    <3>1. job'[u].pc # "commit" /\ (u # t => job'[t] = job[t])
      BY <2>1, <2>5, <2>7 DEF TakeNotice, RefreshCommand, RefreshAfterStart, Want, Lock, Live, Base,
                              JobType
    <3> QED BY <1>3, <3>1
  <2>8. ASSUME NEW u \in Tasks, \E k \in Keys : Query(u, k) PROVE FALSE
    <3>1. job'[u].pc = job[u].pc /\ (u # t => job'[t] = job[t])
      BY <2>1, <2>8 DEF Query, Gather, JobType
    <3> QED BY <1>3, <3>1
  <2>9. ASSUME NEW u \in Tasks, NotLive(u) \/ QueryFails(u) \/ Commit(u) PROVE FALSE
    <3>1. job' = [job EXCEPT ![u] = NoJob] BY <2>9 DEF NotLive, QueryFails, Commit, Done
    <3>2. NoJob.pc # "commit" BY DEF NoJob
    <3>3. job'[t] = job[t] \/ job'[t] = NoJob BY <2>1, <3>1
    <3> QED BY <1>3, <3>2, <3>3
  <2>10. ~Slot /\ ~(UNCHANGED vars) /\ ~\E p \in Procs, k \in Keys : ListChanges(p, k)
    BY <2>5 DEF Slot, vars, cacheVars, ListChanges
  <2>2. PICK u \in Tasks : CheckCurrent(u)
    BY <1>3, <2>7, <2>8, <2>9, <2>10 DEF Next, Refresh
  <2>3. u = t BY <1>3, <2>1, <2>2 DEF CheckCurrent, Done, NoJob
  <2>4. generation = job[t].generation /\ job[t].todo = {}
    BY <1>3, <2>1, <2>2, <2>3 DEF CheckCurrent, Done, NoJob
  <2> QED BY <1>3, <2>4 DEF ScopeInv, JobScope
<1>4. ASSUME RefreshInv, ScopeInv, [Next]_vars, cache' # cache
      PROVE  tagOf[job[holder].proc] = cache'.generation \/ job[holder].proc \in overwritten
  <2>1. PICK u \in Tasks : Commit(u) /\ cache' = Candidate(u) BY <1>4, StepInv
  <2>2. /\ holder = u /\ job[u].pc = "commit" /\ job[u].todo = {}
        /\ cache'.generation = job[u].generation
    BY <1>4, <2>1 DEF RefreshInv, CacheInv, JobOK, Commit, Candidate
  <2> QED BY <1>4, <2>2 DEF ScopeInv, JobScope
<1>5. Inv /\ [Next]_vars => [Current]_vars BY <1>3, <1>4
<1> QED BY <1>1, <1>2, <1>5, PTL DEF Spec, CommitsCurrentGeneration
=============================================================================
