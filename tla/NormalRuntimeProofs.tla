-------------------------- MODULE NormalRuntimeProofs --------------------------
(***************************************************************************)
(* The end of normal mode and the controls of the backend, for any lines,  *)
(* notifications and processes: the program ends by itself only when every *)
(* answer is written, and neither a stop, a restart that is not forced nor *)
(* the idle reaper kills under a call that was there before it counted.    *)
(* Then the calls: normal mode uses the lifetime index as it is meant and  *)
(* serves its calls as CallService says; and what reaches a backend: only  *)
(* what the event plane's table leaves to it.                              *)
(***************************************************************************)
EXTENDS NormalRuntime, RequestLifetimeProofs, FiniteSetTheorems, TLAPS

Over(c) == pc[c] \in {"unsent", "done"}
Decisive == {"taking", "drain", "exited"}
Inner == {"taking", "drain", "exited", "discarding", "translate", "translated"}
Fields == {"cut", "sent", "cancelled", "killed", "written", "restarted"}

(* What the look at the queue at the end relies on: the calls are over     *)
(* since the look before it, and an answer is in the queue or was written. *)
DrainInv ==
    /\ loop.at = "drain" => \A c \in Calls : Over(c)
    /\ \A c \in Calls : reply[c] # "none" => c \in outq \cup history.written
    /\ loop.at = "exited" /\ loop.why = "eof" => outq = {} /\ \A c \in Calls : Over(c)

(* What was dispatched before the number of active calls was read is over. *)
SpareInv ==
    /\ loop.at = "taking" => \A c \in Calls \cap loop.before : pc[c] = "done"
    /\ reaper.at = "decided" => \A c \in Calls \cap reaper.before : pc[c] = "done"
    /\ history.killed = {}

RuntimeInv ==
    /\ pc \in [Calls -> {pc[c] : c \in Calls}]
    /\ reply \in [Calls -> {reply[c] : c \in Calls}]
    /\ history \in [Fields -> {history[f] : f \in Fields}]
    /\ DrainInv /\ SpareInv

(* The first of the entries that match exists, and what it mounts is not   *)
(* one of the places where the loop decides something.                     *)
LEMMA LeastIndex ==
    ASSUME NEW hits \in SUBSET (1 .. 19), hits # {}
    PROVE  \E i \in hits : \A j \in hits : i <= j
<1> DEFINE Less == {ss \in Nat \X Nat : ss[1] < ss[2]}
<1>1. IsWellFoundedOn(Less, Nat)
  BY NatLessThanWellFounded DEF OpToRel
<1>2. \A i, j \in Nat : j < i => <<j, i>> \in Less
  <2>1. SUFFICES ASSUME NEW i \in Nat, NEW j \in Nat, j < i
                 PROVE  <<j, i>> \in Nat \X Nat /\ <<j, i>>[1] < <<j, i>>[2]
    BY Zenon
  <2>2. QED
    BY <2>1
<1> HIDE DEF Less
<1>3. hits \subseteq Nat
  OBVIOUS
<1>4. \E i \in hits : \A j \in hits : <<j, i>> \notin Less
  BY <1>1, <1>3, WFMin, Zenon
<1>5. QED
  BY <1>2, <1>3, <1>4

LEMMA TablePrograms ==
    DOMAIN MountTable = 1 .. 19
    /\ \A i \in 1 .. 19 : MountTable[i].program \notin Inner
<1> USE DEF MountTable, Requests, Notifications, Mount
<1>1. DOMAIN MountTable = 1 .. 19
  OBVIOUS
<1>2. \A i \in 1 .. 19 : MountTable[i].program \notin {"taking", "drain", "exited"}
  OBVIOUS
<1>3. \A i \in 1 .. 19 : MountTable[i].program # "discarding"
  OBVIOUS
<1>4. \A i \in 1 .. 19 : MountTable[i].program \notin {"translate", "translated"}
  OBVIOUS
<1> HIDE DEF MountTable
<1>5. QED
  BY <1>1, <1>2, <1>3, <1>4 DEF Inner

LEMMA ProgramsDecideNothing ==
    ASSUME NEW dir, NEW method
    PROVE  NotificationProgram(dir, method) \notin Inner
<1> DEFINE hits == {i \in DOMAIN MountTable :
                        Matches(MountTable[i], dir, "notification", method, NoTool)}
<1>1. CASE hits = {}
  BY <1>1 DEF NotificationProgram, FindMount, NoMount, Inner
<1>2. CASE hits # {}
  <2>1. \E i \in hits : \A j \in hits : i <= j
    BY <1>2, TablePrograms, LeastIndex
  <2>2. PICK i \in hits : FindMount(dir, "notification", method, NoTool) = MountTable[i]
    BY <1>2, <2>1 DEF FindMount
  <2>3. QED
    BY <2>2, TablePrograms DEF NotificationProgram
<1>3. QED
  BY <1>1, <1>2

(* The count of active calls is zero just if none is between dispatch and  *)
(* the end of its task.                                                    *)
LEMMA NobodyActive ==
    /\ Active = 0 => \A c \in Calls : Over(c)
    /\ ~(Active > 0) => Active = 0
<1> DEFINE act == {c \in Calls : pc[c] \notin {"unsent", "done"}}
<1>1. IsFiniteSet(act)
  <2>1. act \subseteq Lines
    BY DEF Calls
  <2>2. QED
    BY <2>1, NormalAssumption, FS_Subset
<1>2. Cardinality(act) \in Nat /\ (Cardinality(act) = 0 => act = {})
  BY <1>1, FS_CardinalityType, FS_EmptySet
<1>3. Active = Cardinality(act)
  BY DEF Active
<1>4. Active = 0 => act = {}
  BY <1>2, <1>3
<1>5. ~(Active > 0) => Active = 0
  BY <1>2, <1>3
<1>6. act = {} => \A c \in Calls : Over(c)
  BY DEF Over
<1>7. QED
  BY <1>4, <1>5, <1>6

(* A step that moves calls within their tasks, and the loop to no place    *)
(* where it decides.                                                       *)
CallsMove == \A c \in Calls : Over(c) => pc'[c] = pc[c]

HarmlessStep ==
    /\ CallsMove
    /\ pc' \in [Calls -> {pc'[c] : c \in Calls}]
    /\ history' \in [Fields -> {history'[f] : f \in Fields}]
    /\ UNCHANGED <<reply, reaper, history.killed>>
    /\ UNCHANGED loop \/ loop'.at \notin Decisive
    /\ outq \cup history.written \subseteq outq' \cup history'.written

LEMMA HarmlessKeepsInv ==
    ASSUME RuntimeInv, Running, HarmlessStep
    PROVE  RuntimeInv'
<1> USE DEF HarmlessStep, RuntimeInv, CallsMove, Decisive
<1>1. DrainInv'
  BY DEF DrainInv, Over, Running
<1>2. SpareInv'
  BY DEF SpareInv, Over
<1>3. QED
  BY <1>1, <1>2

LEMMA CallIsHarmless ==
    ASSUME RuntimeInv, NEW c \in Calls, CallStep(c) \/ Answer(c), ~Respond(c)
    PROVE  HarmlessStep
<1> USE DEF HarmlessStep, CallsMove, Over, RuntimeInv, Goto, Note, taskVars, procVars,
            backendVars, eventVars, inVars
<1>1. CASE \/ Acquire(c) \/ EnsureReuses(c) \/ EnsureSpawns(c) \/ EnsureFails(c)
           \/ CloneSlot(c) \/ RefreshAfterSpawn(c)
  BY <1>1 DEF Acquire, EnsureReuses, EnsureSpawns, EnsureFails, CloneSlot, RefreshAfterSpawn
<1>2. CASE AdmitRow(c) \/ BindRow(c) \/ RemoveRow(c)
  BY <1>2 DEF AdmitRow, BindRow, RemoveRow
<1>3. CASE Register(c)
  BY <1>3 DEF Register, Fields
<1>4. CASE Deliver(c) \/ TimeOut(c) \/ DetectFailure(c)
  BY <1>4 DEF Deliver, TimeOut, DetectFailure
<1>5. CASE EmptySlot(c)
  BY <1>5 DEF EmptySlot, EmptiesSlot, PcAfterEnd, WaitsFor
<1>6. CASE Finish(c)
  BY <1>6 DEF Finish
<1>7. CASE Answer(c)
  BY <1>7 DEF Answer
<1>8. QED
  BY <1>1, <1>2, <1>3, <1>4, <1>5, <1>6, <1>7 DEF CallStep

LEMMA ProcessIsHarmless ==
    ASSUME RuntimeInv,
           \/ \E g \in Gens : ProcessStep(g)
           \/ \E e \in Emits : JobEnds(e)
    PROVE  HarmlessStep
<1> USE DEF HarmlessStep, CallsMove, Over, RuntimeInv, taskVars, procVars, backendVars,
            eventVars, inVars
<1>1. ASSUME NEW g \in Gens, NEW e \in Emits, Emit(e, g)
      PROVE  HarmlessStep
  BY <1>1 DEF Emit
<1>2. ASSUME NEW g \in Gens, Die(g)
      PROVE  HarmlessStep
  BY <1>2 DEF Die, PcAfterEnd, WaitsFor
<1>3. ASSUME NEW g \in Gens, SendExit(g)
      PROVE  HarmlessStep
  BY <1>3 DEF SendExit
<1>4. ASSUME NEW e \in Emits, JobEnds(e)
      PROVE  HarmlessStep
  BY <1>4 DEF JobEnds, Post
<1>5. QED
  BY <1>1, <1>2, <1>3, <1>4 DEF ProcessStep


LEMMA ReadIsHarmless ==
    ASSUME RuntimeInv, NEW l \in Lines,
           ReadHalf(l) \/ ReadLocal(l) \/ ReadNotification(l) \/ ReadResponse(l)
    PROVE  HarmlessStep
<1> USE DEF HarmlessStep, CallsMove, Over, RuntimeInv, taskVars, Reads, Select, Top
<1>1. CASE ReadHalf(l)
  BY <1>1 DEF ReadHalf
<1>2. CASE ReadLocal(l)
  BY <1>2 DEF ReadLocal, Post
<1>3. CASE ReadNotification(l)
  <2>1. ClientProgram[l] \notin Decisive
    BY ProgramsDecideNothing DEF ClientProgram, Inner, Decisive
  <2>2. loop'.at \notin Decisive
    BY <1>3, <2>1 DEF ReadNotification, Decisive, Inner
  <2>3. QED
    BY <1>3, <2>2 DEF ReadNotification
<1>4. CASE ReadResponse(l)
  <2>1. UNCHANGED loop \/ loop'.at \notin Decisive
    BY <1>4 DEF ReadResponse, Decisive
  <2>2. QED
    BY <1>4, <2>1 DEF ReadResponse
<1>5. QED
  BY <1>1, <1>2, <1>3, <1>4

LEMMA EofIsHarmless ==
    ASSUME RuntimeInv, ReadEof
    PROVE  HarmlessStep
BY DEF ReadEof, Top, Decisive, HarmlessStep, CallsMove, Over, RuntimeInv, taskVars

LEMMA HandlerIsHarmless ==
    ASSUME RuntimeInv,
           \/ AnswerPeer \/ PassNotification \/ ClientProgress
           \/ CancelRow \/ CancelPending \/ CancelPeer
           \/ ControlRefused \/ RestartSpawns \/ RestartFails
           \/ RefreshAnswered \/ RefreshEnds
           \/ TranslateCancel \/ DiscardCancelled
    PROVE  HarmlessStep
<1> USE DEF HarmlessStep, CallsMove, Over, RuntimeInv, taskVars, Decisive, Fields
<1>0. Resume.at \notin Decisive
  BY DEF Resume, Top, Select
<1>1. CASE AnswerPeer \/ PassNotification \/ ClientProgress
  BY <1>0, <1>1 DEF AnswerPeer, PassNotification, ClientProgress, Forwards, Note
<1>2. CASE CancelRow
  <2>1. loop'.at \notin Decisive
    BY <1>0, <1>2 DEF CancelRow
  <2>2. QED
    BY <1>2, <2>1 DEF CancelRow, Note
<1>3. CASE CancelPending
  <2>1. loop'.at \notin Decisive
    BY <1>0, <1>3 DEF CancelPending
  <2>2. QED
    BY <1>3, <2>1 DEF CancelPending, Discard, WaitsFor
<1>4. CASE CancelPeer
  BY <1>0, <1>4 DEF CancelPeer, Forwards, Note
<1>5. CASE ControlRefused \/ RestartFails \/ RefreshEnds
  BY <1>0, <1>5 DEF ControlRefused, RestartFails, RefreshEnds, Post
<1>6. CASE RestartSpawns
  BY <1>6 DEF RestartSpawns, Asking, Note
<1>7. CASE RefreshAnswered
  BY <1>7 DEF RefreshAnswered
<1>8. CASE TranslateCancel
  <2>1. loop'.at \notin Decisive
    BY <1>0, <1>8 DEF TranslateCancel
  <2>2. QED
    BY <1>8, <2>1 DEF TranslateCancel, Note
<1>9. CASE DiscardCancelled
  BY <1>0, <1>9 DEF DiscardCancelled, Discard, WaitsFor, Post
<1>10. QED
  BY <1>1, <1>2, <1>3, <1>4, <1>5, <1>6, <1>7, <1>8, <1>9

LEMMA EventIsHarmless ==
    ASSUME RuntimeInv, EventStep \/ WriteStep
    PROVE  HarmlessStep
<1> USE DEF HarmlessStep, CallsMove, Over, RuntimeInv, taskVars, Decisive, Fields, CutHalf
<1>0. Resume.at \notin Decisive
  BY DEF Resume, Top, Select
<1>1. ASSUME NEW e \in Emits, TakeShown(e)
      PROVE  HarmlessStep
  BY <1>0, <1>1 DEF TakeShown, Post
<1>2. ASSUME NEW e \in Emits, TakeUnmatched(e)
      PROVE  HarmlessStep
  BY <1>0, <1>2 DEF TakeUnmatched, Post
<1>3. ASSUME NEW e \in Emits, TakeListChanged(e)
      PROVE  HarmlessStep
  BY <1>0, <1>3 DEF TakeListChanged, Post
<1>4. ASSUME NEW e \in Emits, TakePeerRequest(e)
      PROVE  HarmlessStep
  BY <1>0, <1>4 DEF TakePeerRequest, Post
<1>5. ASSUME NEW e \in Emits, TakeCancel(e)
      PROVE  HarmlessStep
  <2>1. loop'.at \notin Decisive
    BY <1>0, <1>5 DEF TakeCancel
  <2>2. QED
    BY <1>5, <2>1 DEF TakeCancel
<1>6. CASE TakeExit
  BY <1>0, <1>6 DEF TakeExit
<1>7. ASSUME NEW message \in outq, WriteOut(message)
      PROVE  HarmlessStep
  BY <1>0, <1>7 DEF WriteOut
<1>8. QED
  BY <1>1, <1>2, <1>3, <1>4, <1>5, <1>6, <1>7 DEF EventStep, WriteStep

-----------------------------------------------------------------------------
(* The steps the two properties are about.                                 *)

LEMMA AnswersAreQueued ==
    ASSUME RuntimeInv, Running, NEW c \in Calls, Respond(c)
    PROVE  RuntimeInv'
<1>1. /\ ~Over(c) /\ pc' = [pc EXCEPT ![c] = "replied"]
      /\ reply' = [reply EXCEPT ![c] = result[c]] /\ outq' = outq \cup {c}
      /\ UNCHANGED <<loop, reaper, history>>
  BY DEF Respond, Over, Goto, Post
<1>2. DrainInv'
  BY <1>1 DEF RuntimeInv, DrainInv, Over, Running
<1>3. SpareInv'
  BY <1>1 DEF RuntimeInv, SpareInv, Over
<1>4. QED
  BY <1>1, <1>2, <1>3 DEF RuntimeInv

LEMMA NewCallsKeepInv ==
    ASSUME RuntimeInv, Running, NEW l \in Lines, ReadCall(l)
    PROVE  RuntimeInv'
<1>1. /\ loop = Select /\ pc[l] = "unsent" /\ pc' = [pc EXCEPT ![l] = "queued"]
      /\ UNCHANGED <<loop, outq, reply, reaper, history>>
  BY DEF ReadCall, Reads, Goto
<1>2. DrainInv' /\ SpareInv'
  BY <1>1 DEF RuntimeInv, DrainInv, SpareInv, Select
<1>3. QED
  BY <1>1, <1>2 DEF RuntimeInv

(* A control that is not forced goes on only if nobody is active.          *)
LEMMA ControlsKeepInv ==
    ASSUME RuntimeInv, Running, NEW l \in Lines, ReadControl(l)
    PROVE  RuntimeInv'
<1>1. UNCHANGED <<outq, pc, reply, reaper, history>>
  BY DEF ReadControl, taskVars
<1>2. loop'.at = "taking" =>
          \/ loop'.before = {}
          \/ loop'.before = Dispatched /\ ~(Active > 0)
  BY DEF ReadControl, Acts, Blocked, Asking
<1>3. loop'.at \notin {"drain", "exited"}
  BY DEF ReadControl, Asking
<1>4. loop'.at = "taking" => \A c \in Calls \cap loop'.before : pc[c] = "done"
  BY <1>2, NobodyActive DEF Over, Dispatched
<1>5. QED
  BY <1>1, <1>3, <1>4 DEF RuntimeInv, DrainInv, SpareInv, Over

LEMMA ReaperKeepsInv ==
    ASSUME RuntimeInv, Running, ReaperStep
    PROVE  RuntimeInv'
<1>1. CASE ReapDecide
  <2>1. /\ Active = 0 /\ reaper' = [at |-> "decided", before |-> Dispatched]
        /\ UNCHANGED <<loop, outq, pc, reply, history>>
    BY <1>1 DEF ReapDecide, taskVars
  <2>2. QED
    BY <2>1, NobodyActive DEF RuntimeInv, DrainInv, SpareInv, Over, Dispatched
<1>2. CASE ReapTake
  <2>1. /\ reaper.at = "decided" /\ reaper' = Asleep
        /\ history' = [history EXCEPT !["killed"] = @ \cup (reaper.before \cap AtBackend)]
        /\ pc' = PcAfterEnd(slot, pc)
        /\ UNCHANGED <<loop, outq, reply>>
    BY <1>2 DEF ReapTake, EmptiesSlot, Note
  <2>2. reaper.before \cap AtBackend = {}
    BY <2>1 DEF RuntimeInv, SpareInv, AtBackend, AtProcess
  <2>3. /\ \A c \in Calls : Over(c) => pc'[c] = pc[c]
        /\ pc' \in [Calls -> {pc'[c] : c \in Calls}]
    BY <2>1 DEF PcAfterEnd, WaitsFor, Over
  <2>4. UNCHANGED <<history.killed, history.written>>
        /\ history' \in [Fields -> {history'[f] : f \in Fields}]
    BY <2>1, <2>2 DEF RuntimeInv, Fields
  <2>5. QED
    BY <2>1, <2>3, <2>4 DEF RuntimeInv, DrainInv, SpareInv, Over, Asleep
<1>3. QED
  BY <1>1, <1>2 DEF ReaperStep

LEMMA TakesKeepInv ==
    ASSUME RuntimeInv, Running, ControlTakes
    PROVE  RuntimeInv'
<1>1. /\ loop.at = "taking" /\ loop'.at \notin Decisive
      /\ history' = [history EXCEPT !["killed"] = @ \cup (loop.before \cap AtBackend)]
      /\ pc' = PcAfterEnd(slot, pc)
      /\ outq \subseteq outq' /\ UNCHANGED <<reply, reaper>>
  BY DEF ControlTakes, EmptiesSlot, Note, Post, Resume, Top, Select, Decisive
<1>2. loop.before \cap AtBackend = {}
  BY <1>1 DEF RuntimeInv, SpareInv, AtBackend, AtProcess
<1>3. /\ CallsMove
      /\ pc' \in [Calls -> {pc'[c] : c \in Calls}]
  BY <1>1 DEF CallsMove, PcAfterEnd, WaitsFor, Over
<1>4. UNCHANGED <<history.killed, history.written>>
      /\ history' \in [Fields -> {history'[f] : f \in Fields}]
  BY <1>1, <1>2 DEF RuntimeInv, Fields
<1>5. HarmlessStep
  BY <1>1, <1>3, <1>4 DEF HarmlessStep
<1>6. QED
  BY <1>5, HarmlessKeepsInv

(* The end: the calls were over at the first look, and the queue is empty  *)
(* at the second.                                                          *)
LEMMA EndKeepsInv ==
    ASSUME RuntimeInv, Running, CheckFirst \/ CheckSecond \/ Break
    PROVE  RuntimeInv'
<1>1. CASE CheckFirst
  <2>1. /\ UNCHANGED <<outq, pc, reply, reaper, history>>
        /\ loop' = IF Active = 0 THEN [at |-> "drain"] ELSE Sleep
    BY <1>1 DEF CheckFirst, Checks, taskVars
  <2>2. QED
    BY <2>1, NobodyActive DEF RuntimeInv, DrainInv, SpareInv, Over, Sleep
<1>2. CASE CheckSecond
  <2>1. /\ loop.at = "drain" /\ UNCHANGED <<outq, pc, reply, reaper, history>>
        /\ \/ outq = {} /\ loop' = [at |-> "exited", why |-> "eof"]
           \/ loop' = Sleep
    BY <1>2 DEF CheckSecond, Checks, Exits, taskVars
  <2>2. QED
    BY <2>1 DEF RuntimeInv, DrainInv, SpareInv, Over, Sleep
<1>3. CASE Break
  <2>1. /\ UNCHANGED <<outq, pc, reply, reaper, history>>
        /\ loop' = [at |-> "exited", why |-> "broken"]
    BY <1>3 DEF Break, Exits, taskVars
  <2>2. QED
    BY <2>1 DEF RuntimeInv, DrainInv, SpareInv, Over
<1>4. QED
  BY <1>1, <1>2, <1>3

LEMMA RuntimeInit == Init => RuntimeInv
BY DEF Init, RuntimeInv, DrainInv, SpareInv, Select, Asleep, Fields

LEMMA RuntimeStep == RuntimeInv /\ [Next]_vars => RuntimeInv'
<1> SUFFICES ASSUME RuntimeInv, [Next]_vars
             PROVE  RuntimeInv'
  OBVIOUS
<1>1. CASE UNCHANGED vars
  BY <1>1 DEF vars, taskVars, RuntimeInv, DrainInv, SpareInv, Over
<1>2. ASSUME Running,
             \/ \E c \in Calls : CallStep(c) \/ Answer(c)
             \/ \E g \in Gens : ProcessStep(g)
             \/ \E e \in Emits : JobEnds(e)
      PROVE  RuntimeInv'
  BY <1>2, CallIsHarmless, AnswersAreQueued, ProcessIsHarmless, HarmlessKeepsInv
<1>3. ASSUME Running, ReadStep
      PROVE  RuntimeInv'
  <2>1. ASSUME NEW l \in Lines,
               ReadHalf(l) \/ ReadLocal(l) \/ ReadNotification(l) \/ ReadResponse(l)
        PROVE  RuntimeInv'
    BY <1>3, <2>1, ReadIsHarmless, HarmlessKeepsInv
  <2>2. ASSUME NEW l \in Lines, ReadCall(l) \/ ReadControl(l)
        PROVE  RuntimeInv'
    BY <1>3, <2>2, NewCallsKeepInv, ControlsKeepInv
  <2>3. CASE ReadEof
    BY <1>3, <2>3, EofIsHarmless, HarmlessKeepsInv
  <2>4. QED
    BY <1>3, <2>1, <2>2, <2>3 DEF ReadStep
<1>4. ASSUME Running, HandlerStep
      PROVE  RuntimeInv'
  BY <1>4, HandlerIsHarmless, TakesKeepInv, EndKeepsInv, HarmlessKeepsInv DEF HandlerStep
<1>5. ASSUME Running, EventStep \/ WriteStep \/ ReaperStep \/ Break
      PROVE  RuntimeInv'
  BY <1>5, EventIsHarmless, ReaperKeepsInv, EndKeepsInv, HarmlessKeepsInv
<1>6. QED
  BY <1>1, <1>2, <1>3, <1>4, <1>5 DEF Next

LEMMA RuntimeInvariant == Spec => []RuntimeInv
<1>1. QED
  BY RuntimeInit, RuntimeStep, PTL DEF Spec

(* When the end of stdin ends the program, every call it read is over and  *)
(* every answer is written, whatever the calls, the reaper and the events  *)
(* did between the two looks of run_server's loop.                         *)
THEOREM AnswersWrittenAtExit == Spec => []DrainedAtExit
<1>1. RuntimeInv => DrainedAtExit
  BY DEF RuntimeInv, DrainInv, DrainedAtExit, Over
<1>2. QED
  BY <1>1, RuntimeInvariant, PTL

(* A stop, a restart that is not forced and the idle reaper never take the *)
(* process away from a call dispatched before they counted.                *)
THEOREM OldCallsKeepProcess == Spec => []OldCallsSpared
<1>1. RuntimeInv => OldCallsSpared
  BY DEF RuntimeInv, SpareInv, OldCallsSpared
<1>2. QED
  BY <1>1, RuntimeInvariant, PTL

-----------------------------------------------------------------------------
(* The calls: from here on the index, the numbers and the call service.    *)

Holding == {"ensuring", "ensured", "respawned", "refreshing", "cloned", "admitted", "bound",
            "waiting", "delivering", "returned", "removed", "failed", "reporting", "replied"}
Labels == Holding \cup {"unsent", "queued", "done"}
Bound == {"bound", "waiting", "delivering", "returned"}
WithRow == Bound \cup {"admitted"}
AtSlot == WithRow \cup {"refreshing", "cloned"}
Past == {"returned", "removed", "failed", "reporting", "replied", "done"}
Drawn == WithRow \cup Past

(* The lock is held by the one call that is inside its task, and only its   *)
(* row is there.                                                           *)
TaskInv ==
    /\ pc \in [Calls -> Labels] /\ id \in [Calls -> BackendIds \cup {None}]
    /\ lock \in Calls \cup {None}
    /\ \A c \in Calls :
           /\ pc[c] \in Holding <=> lock = c
           /\ pc[c] \in WithRow => id[c] \in BackendIds
           /\ id[c] # None => pc[c] \in Drawn

RowInv ==
    \A k \in Keys : HasRow(k) =>
        /\ lock # None /\ k = Key(lock) /\ pc[lock] \in WithRow
        /\ IsBound(k) => backendOf[k] = id[lock] /\ pc[lock] \in Bound

(* Each process numbers the calls from one, so none has a number twice.    *)
DrawnFrom(g) == {c \in Calls : gen[c] = g /\ id[c] # None}
NumberInv ==
    /\ gen = [c \in Calls |-> gen[c]]
    /\ \A c \in Calls : id[c] # None =>
           id[c] \in Nat /\ id[c] <= Cardinality(DrawnFrom(gen[c]))
    /\ \A c, d \in Calls : gen[c] = gen[d] /\ id[c] = id[d] /\ id[c] # None => c = d

AnswerInv ==
    /\ reply = [c \in Calls |-> reply[c]] /\ result = [c \in Calls |-> result[c]]
    /\ history = [f \in Fields |-> history[f]] /\ history.cancelled \subseteq Calls
    /\ spawned \in Nat
    /\ \A c \in Calls :
           /\ pc[c] \notin {"replied", "done"} => reply[c] = "none"
           /\ pc[c] = "replied" => reply[c] # "none"
           /\ pc[c] \in {"failed", "reporting"} => result[c] = "broken"
           /\ c \in discarded => pc[c] \in Past

(* The loop has a line in hand when it cancels.                            *)
LineInv == loop.at \in {"CancelRequest", "discarding", "peer cancel"} => loop.line \in Lines

(* A cancellation on its way to process g under id b hits no call but the  *)
(* one that lost its row to it.                                            *)
Aimed(g, b) ==
    g # spawned \/ \E c \in history.cancelled : gen[c] = g /\ id[c] = b /\ b # None

(* Without a restart the process in the slot is the last one, and the one  *)
(* that the served call is at.                                             *)
LastProcess ==
    /\ slot \in {None, spawned}
    /\ \A c \in Calls : pc[c] \in AtSlot => gen[c] = spawned
    /\ loop.at \in {"CancelRequest", "discarding", "translate", "translated"} =>
           loop.gen \in Nat /\ loop.gen <= spawned

(* Only a cancellation makes a call that was sent end as a discarded one.  *)
OnlyCancelled ==
    /\ \A c \in Calls : c \in discarded /\ result[c] = "broken" => c \in history.cancelled
    /\ loop.at \in {"discarding", "translated"} => Aimed(loop.gen, loop.id)

Undisturbed == history.restarted = {}

CallsInv == TaskInv /\ RowInv /\ NumberInv /\ AnswerInv /\ LineInv
Own == CallsInv /\ (Undisturbed => LastProcess /\ OnlyCancelled)
ServiceInv == LifetimeInv /\ Own

LEMMA KeysOfLines == \A l \in Lines : Key(l) \in Keys /\ TokenOf(l) \in Tokens \cup {None}
<1>1. Cardinality(Sessions) = 1
  BY NormalAssumption
<1>2. Sessions # {}
  BY <1>1, FS_EmptySet
<1>3. QED
  BY <1>2, NormalAssumption DEF Key, Keys, Client, TokenOf

LEMMA KeyOfCall == \A c \in Calls : Key(c) \in Keys /\ c # None
BY KeysOfLines, NormalAssumption DEF Calls

-----------------------------------------------------------------------------
(* Steps that move calls on inside their tasks.                            *)

Onward == {<<"ensuring", "ensured">>, <<"ensuring", "removed">>, <<"ensured", "removed">>,
           <<"respawned", "removed">>, <<"refreshing", "cloned">>, <<"bound", "waiting">>,
           <<"bound", "returned">>, <<"waiting", "delivering">>, <<"waiting", "returned">>,
           <<"delivering", "returned">>, <<"removed", "failed">>, <<"failed", "reporting">>}
GoesOn(c) == pc'[c] = pc[c] \/ <<pc[c], pc'[c]>> \in Onward

LEMMA OnwardKeeps ==
    ASSUME NEW c \in Calls, GoesOn(c)
    PROVE  /\ pc'[c] \in Holding <=> pc[c] \in Holding
           /\ pc'[c] = "unsent" <=> pc[c] = "unsent"
           /\ pc'[c] = "done" <=> pc[c] = "done"
           /\ pc'[c] = "replied" <=> pc[c] = "replied"
           /\ pc'[c] \in WithRow <=> pc[c] \in WithRow
           /\ pc[c] \in Bound => pc'[c] \in Bound
           /\ pc'[c] \in AtSlot => pc[c] \in AtSlot
           /\ pc[c] \in Past => pc'[c] \in Past
           /\ pc[c] \in Drawn => pc'[c] \in Drawn
           /\ pc[c] \in Labels => pc'[c] \in Labels
BY DEF GoesOn, Onward, Holding, Labels, WithRow, Bound, AtSlot, Past, Drawn

Forfeits(c) == Undisturbed => c \in history.cancelled

CallsGoOn ==
    /\ pc' = [c \in Calls |-> pc'[c]] /\ result' = [c \in Calls |-> result'[c]]
    /\ \A c \in Calls :
           /\ GoesOn(c)
           /\ pc'[c] \in {"failed", "reporting"} => result'[c] = "broken"
           /\ c \in discarded' => c \in discarded \/ pc'[c] \in Past
           /\ c \in discarded' /\ result'[c] = "broken" =>
                 (c \in discarded /\ result[c] = "broken") \/ Forfeits(c)

(* Where a cancellation starts from: the process in the slot, as it is now. *)
Cancels == {"CancelRequest", "discarding", "peer cancel", "translate", "translated"}
LoopGoesOn ==
    \/ UNCHANGED loop
    \/ loop'.at \notin Cancels
    \/ /\ loop'.at \in {"CancelRequest", "translate"} /\ loop'.gen = slot /\ slot # None
       /\ loop'.at = "CancelRequest" => loop'.line \in Lines
    \/ loop'.at = "peer cancel" /\ loop'.line \in Lines

QuietStep ==
    /\ UNCHANGED <<clientVars, gen, id, lock, reply, spawned>>
    /\ UNCHANGED <<history.cancelled, history.restarted>>
    /\ history' = [f \in Fields |-> history'[f]]
    /\ slot' \in {slot, None}
    /\ CallsGoOn /\ LoopGoesOn

LEMMA QuietKeepsOwn ==
    ASSUME Own, QuietStep
    PROVE  Own'
<1> USE DEF Own, CallsInv, QuietStep
<1>0. \A c \in Calls : GoesOn(c)
  BY DEF CallsGoOn
<1>1. TaskInv'
  <2>1. pc' \in [Calls -> Labels]
    BY <1>0, OnwardKeeps DEF CallsGoOn, TaskInv
  <2>2. QED
    BY <1>0, <2>1, OnwardKeeps DEF TaskInv
<1>2. RowInv'
  <2>1. lock # None => lock \in Calls /\ GoesOn(lock)
    BY <1>0 DEF TaskInv
  <2>2. QED
    BY <2>1, OnwardKeeps DEF RowInv, HasRow, IsBound, clientVars, Key
<1>3. NumberInv'
  <2>1. \A g : DrawnFrom(g)' = DrawnFrom(g)
    BY DEF DrawnFrom
  <2>2. QED
    BY <2>1 DEF NumberInv
<1>4. AnswerInv'
  BY <1>0, OnwardKeeps DEF AnswerInv, CallsGoOn
<1>5. LineInv'
  BY DEF LineInv, LoopGoesOn, Cancels
<1>6. ASSUME Undisturbed
      PROVE  LastProcess'
  <2>1. \A c \in Calls : pc'[c] \in AtSlot => gen'[c] = spawned'
    BY <1>0, <1>6, OnwardKeeps DEF LastProcess
  <2>2. spawned \in Nat /\ slot \in {None, spawned}
    BY <1>6 DEF LastProcess, AnswerInv
  <2>3. loop'.at \in {"CancelRequest", "discarding", "translate", "translated"} =>
            loop'.gen \in Nat /\ loop'.gen <= spawned
    <3>1. slot # None => slot \in Nat /\ slot <= spawned
      BY <2>2
    <3>2. QED
      BY <1>6, <3>1 DEF LastProcess, LoopGoesOn, Cancels
  <2>4. QED
    BY <2>1, <2>2, <2>3 DEF LastProcess
<1>7. ASSUME Undisturbed
      PROVE  OnlyCancelled'
  <2>1. \A g, b : Aimed(g, b)' <=> Aimed(g, b)
    BY <1>7 DEF Aimed
  <2>2. \A c \in Calls : c \in discarded' /\ result'[c] = "broken" => c \in history.cancelled
    BY <1>7 DEF CallsGoOn, Forfeits, OnlyCancelled
  <2>3. QED
    BY <1>7, <2>1, <2>2 DEF OnlyCancelled, LoopGoesOn, Cancels
<1>8. Undisturbed' <=> Undisturbed
  BY DEF Undisturbed
<1>9. QED
  BY <1>1, <1>2, <1>3, <1>4, <1>5, <1>6, <1>7, <1>8

(* ... and the client sees nothing of it.                                  *)
Unseen == UNCHANGED <<Stages, lock, Forfeited>>

LEMMA QuietIsUnseen ==
    ASSUME QuietStep
    PROVE  Unseen
<1>1. \A c \in Calls : Stage(c)' = Stage(c)
  BY OnwardKeeps DEF QuietStep, CallsGoOn, Stage
<1>2. QED
  BY <1>1 DEF QuietStep, Unseen, Stages, Forfeited

LEMMA CallFacts ==
    ASSUME Own
    PROVE  /\ pc = [c \in Calls |-> pc[c]] /\ result = [c \in Calls |-> result[c]]
           /\ history = [f \in Fields |-> history[f]]
           /\ \A c \in Calls :
                  /\ pc[c] \in {"failed", "reporting"} => result[c] = "broken"
                  /\ c \in discarded => pc[c] \in Past
BY DEF Own, CallsInv, TaskInv, AnswerInv

LEMMA CallsStay ==
    ASSUME Own, UNCHANGED <<pc, result, discarded>>
    PROVE  CallsGoOn
BY CallFacts DEF CallsGoOn, GoesOn

(* The calls that the end of a process wakes have not been discarded.      *)
LEMMA CallsWake ==
    ASSUME Own, NEW g, Ended(g), pc' = PcAfterEnd(g, pc), UNCHANGED discarded
    PROVE  CallsGoOn
<1>1. \A c \in Calls :
          \/ pc'[c] = pc[c] /\ result'[c] = result[c]
          \/ pc[c] = "waiting" /\ pc'[c] = "returned" /\ c \notin discarded
  BY CallFacts DEF Ended, PcAfterEnd, WaitsFor, Past
<1>2. /\ pc' = [c \in Calls |-> pc'[c]] /\ result' = [c \in Calls |-> result'[c]]
  BY DEF Ended, PcAfterEnd
<1>3. QED
  BY <1>1, <1>2, CallFacts DEF CallsGoOn, GoesOn, Onward

LEMMA LoopResumes ==
    ASSUME loop' = Resume \/ UNCHANGED loop
    PROVE  LoopGoesOn
<1>1. Resume.at \notin Cancels
  BY DEF Resume, Top, Select, Cancels
<1>2. QED
  BY <1>1 DEF LoopGoesOn

LEMMA LoopTurns ==
    ASSUME NEW at, at \notin Cancels, loop'.at = at
    PROVE  LoopGoesOn
BY DEF LoopGoesOn

LEMMA CallIsQuiet ==
    ASSUME Own, NEW c \in Calls,
           \/ EnsureReuses(c) \/ EnsureFails(c) \/ (CloneSlot(c) /\ slot = None)
           \/ RefreshAfterSpawn(c) \/ Register(c) \/ Deliver(c) \/ TimeOut(c)
           \/ DetectFailure(c) \/ EmptySlot(c) \/ Answer(c)
    PROVE  QuietStep
<1> USE CallFacts, LoopResumes DEF QuietStep, Goto, clientVars, lifetimeVars
<1>1. CASE EnsureReuses(c) \/ RefreshAfterSpawn(c)
  BY <1>1 DEF EnsureReuses, RefreshAfterSpawn, backendVars, procVars, CallsGoOn, GoesOn,
     Onward, Past
<1>2. CASE EnsureFails(c)
  BY <1>2 DEF EnsureFails, CallsGoOn, GoesOn, Onward, Past
<1>3. CASE CloneSlot(c) /\ slot = None
  BY <1>3 DEF CloneSlot, backendVars, procVars, CallsGoOn, GoesOn, Onward, Past
<1>4. CASE Register(c)
  BY <1>4 DEF Register, Note, Fields, procVars, CallsGoOn, GoesOn, Onward, Past
<1>5. CASE Deliver(c)
  BY <1>5 DEF Deliver, backendVars, procVars, CallsGoOn, GoesOn, Onward, Past
<1>6. CASE TimeOut(c)
  BY <1>6 DEF TimeOut, procVars, CallsGoOn, GoesOn, Onward, Past
<1>7. CASE DetectFailure(c)
  BY <1>7 DEF DetectFailure, backendVars, procVars, CallsGoOn, GoesOn, Onward, Past
<1>8. CASE EmptySlot(c)
  <2>1. \A d \in Calls :
            \/ pc'[d] = pc[d] /\ result'[d] = result[d]
            \/ pc[d] = "waiting" /\ pc'[d] = "returned" /\ d \notin discarded
            \/ pc[d] = "failed" /\ pc'[d] = "reporting" /\ result'[d] = result[d]
    BY <1>8 DEF EmptySlot, EmptiesSlot, Ended, PcAfterEnd, WaitsFor, Past
  <2>2. UNCHANGED discarded
    BY <1>8 DEF EmptySlot
  <2>3. CallsGoOn
    BY <1>8, <2>1, <2>2 DEF CallsGoOn, GoesOn, Onward, EmptySlot, EmptiesSlot, Ended, PcAfterEnd
  <2>4. QED
    BY <1>8, <2>3 DEF EmptySlot, EmptiesSlot
<1>9. CASE Answer(c)
  BY <1>9 DEF Answer, procVars, CallsGoOn, GoesOn, Onward, Past
<1>10. QED
  BY <1>1, <1>2, <1>3, <1>4, <1>5, <1>6, <1>7, <1>8, <1>9

LEMMA ProcessIsQuiet ==
    ASSUME Own,
           \/ \E g \in Gens : ProcessStep(g)
           \/ \E e \in Emits : JobEnds(e)
           \/ ReaperStep
    PROVE  QuietStep
<1> USE CallFacts, CallsStay, LoopResumes DEF QuietStep, taskVars, backendVars, procVars,
                                              clientVars, lifetimeVars
<1>1. ASSUME NEW g \in Gens, NEW e \in Emits, Emit(e, g)
      PROVE  QuietStep
  BY <1>1 DEF Emit
<1>2. ASSUME NEW g \in Gens, Die(g)
      PROVE  QuietStep
  BY <1>2, CallsWake DEF Die
<1>3. ASSUME NEW g \in Gens, SendExit(g)
      PROVE  QuietStep
  BY <1>3 DEF SendExit
<1>4. ASSUME NEW e \in Emits, JobEnds(e)
      PROVE  QuietStep
  BY <1>4 DEF JobEnds
<1>5. CASE ReapDecide
  BY <1>5 DEF ReapDecide
<1>6. CASE ReapTake
  BY <1>6, CallsWake DEF ReapTake, EmptiesSlot, Note, Fields
<1>7. QED
  BY <1>1, <1>2, <1>3, <1>4, <1>5, <1>6 DEF ProcessStep, ReaperStep

LEMMA ReadIsQuiet ==
    ASSUME Own,
           \/ \E l \in Lines : \/ ReadHalf(l) \/ ReadLocal(l) \/ ReadControl(l)
                               \/ ReadNotification(l) \/ ReadResponse(l)
           \/ ReadEof
    PROVE  QuietStep
<1> USE CallFacts, CallsStay DEF QuietStep, taskVars, backendVars, procVars, clientVars,
                                 lifetimeVars
<1>1. ASSUME NEW l \in Lines, ReadHalf(l) \/ ReadLocal(l)
      PROVE  QuietStep
  BY <1>1, LoopResumes DEF ReadHalf, ReadLocal
<1>2. ASSUME NEW l \in Lines, ReadControl(l)
      PROVE  QuietStep
  <2>1. loop'.at \in {"asking", "taking"}
    BY <1>2 DEF ReadControl, Asking
  <2>2. QED
    BY <1>2, <2>1, LoopTurns DEF ReadControl, Cancels
<1>3. ASSUME NEW l \in Lines, ReadNotification(l)
      PROVE  QuietStep
  <2>1. ClientProgram[l] \notin Cancels \ {"CancelRequest", "peer cancel"}
    BY ProgramsDecideNothing DEF ClientProgram, Cancels, Inner
  <2>2. LoopGoesOn
    BY <1>3, <2>1 DEF ReadNotification, LoopGoesOn, Cancels, Select, Live
  <2>3. QED
    BY <1>3, <2>2 DEF ReadNotification
<1>4. ASSUME NEW l \in Lines, ReadResponse(l)
      PROVE  QuietStep
  <2>1. UNCHANGED loop \/ loop'.at = "answering"
    BY <1>4 DEF ReadResponse
  <2>2. LoopGoesOn
    BY <2>1, LoopResumes, LoopTurns DEF Cancels
  <2>3. UNCHANGED clientVars
    BY <1>4 DEF ReadResponse, TakePeer
  <2>4. QED
    BY <1>4, <2>2, <2>3 DEF ReadResponse
<1>5. CASE ReadEof
  <2>1. loop'.at = "top"
    BY <1>5 DEF ReadEof, Top
  <2>2. QED
    BY <1>5, <2>1, LoopTurns DEF ReadEof, Cancels
<1>6. QED
  BY <1>1, <1>2, <1>3, <1>4, <1>5

LEMMA HandlerIsQuiet ==
    ASSUME Own,
           \/ AnswerPeer \/ PassNotification \/ ClientProgress \/ CancelPeer
           \/ ControlTakes \/ ControlRefused \/ RestartFails
           \/ RefreshAnswered \/ RefreshEnds
           \/ CheckFirst \/ CheckSecond \/ Break \/ UNCHANGED vars
    PROVE  QuietStep
<1> USE CallFacts, CallsStay, LoopResumes
    DEF QuietStep, taskVars, backendVars, procVars, clientVars, lifetimeVars
<1>1. CASE AnswerPeer \/ PassNotification \/ ClientProgress
  BY <1>1 DEF AnswerPeer, PassNotification, ClientProgress, Forwards, Note, Fields
<1>2. CASE CancelPeer
  BY <1>2 DEF CancelPeer, TakePeer, Forwards, Note, Fields
<1>3. CASE ControlTakes
  <2>1. loop' = Resume \/ loop'.at = "spawning"
    BY <1>3 DEF ControlTakes
  <2>2. LoopGoesOn
    BY <2>1, LoopTurns DEF Cancels
  <2>3. QED
    BY <1>3, <2>2, CallsWake DEF ControlTakes, EmptiesSlot, Note, Fields
<1>4. CASE ControlRefused \/ RestartFails \/ RefreshEnds
  BY <1>4 DEF ControlRefused, RestartFails, RefreshEnds
<1>5. CASE RefreshAnswered
  <2>1. loop'.at = "refreshing"
    BY <1>5 DEF RefreshAnswered
  <2>2. QED
    BY <1>5, <2>1, LoopTurns DEF RefreshAnswered, Cancels
<1>6. CASE CheckFirst \/ CheckSecond \/ Break
  <2>1. loop'.at \in {"drain", "sleep", "exited"}
    BY <1>6 DEF CheckFirst, CheckSecond, Break, Exits, Sleep
  <2>2. LoopGoesOn
    BY <2>1, LoopTurns DEF Cancels
  <2>3. QED
    BY <1>6, <2>2 DEF CheckFirst, CheckSecond, Break, Exits
<1>7. CASE UNCHANGED vars
  BY <1>7 DEF vars
<1>8. QED
  BY <1>1, <1>2, <1>3, <1>4, <1>5, <1>6, <1>7

LEMMA EventIsQuiet ==
    ASSUME Own, EventStep \/ WriteStep
    PROVE  QuietStep
<1> USE CallFacts, CallsStay DEF QuietStep, taskVars, backendVars, procVars, clientVars,
                                 lifetimeVars, CutHalf, Fields
<1>1. ASSUME loop' = Resume
      PROVE  LoopGoesOn
  BY <1>1, LoopResumes
<1>2. ASSUME NEW e \in Emits, TakeShown(e) \/ TakeUnmatched(e) \/ TakeListChanged(e)
      PROVE  QuietStep
  BY <1>1, <1>2 DEF TakeShown, TakeUnmatched, TakeListChanged
<1>3. ASSUME NEW e \in Emits, TakePeerRequest(e)
      PROVE  QuietStep
  BY <1>1, <1>3 DEF TakePeerRequest, InsertPeer
<1>4. ASSUME NEW e \in Emits, TakeCancel(e)
      PROVE  QuietStep
  <2>1. \/ loop' = Resume
        \/ loop'.at = "translate" /\ loop'.gen = slot /\ slot # None
    BY <1>4 DEF TakeCancel
  <2>2. LoopGoesOn
    BY <1>1, <2>1 DEF LoopGoesOn
  <2>3. QED
    BY <1>4, <2>2 DEF TakeCancel
<1>5. CASE TakeExit
  BY <1>1, <1>5 DEF TakeExit, ClearPeers
<1>6. ASSUME NEW message \in outq, WriteOut(message)
      PROVE  QuietStep
  BY <1>1, <1>6 DEF WriteOut
<1>7. QED
  BY <1>2, <1>3, <1>4, <1>5, <1>6 DEF EventStep, WriteStep

(* A call that is discarded while it waits has lost its row to the same     *)
(* cancellation, unless the number is that of another process.             *)
LEMMA DiscardIsQuiet ==
    ASSUME Own, CancelPending \/ DiscardCancelled
    PROVE  QuietStep
<1> USE CallFacts DEF clientVars, lifetimeVars, procVars
<1>1. /\ Discard(loop.gen, loop.id) /\ loop.at \in {"discarding", "translated"}
      /\ UNCHANGED <<clientVars, gen, id, lock, reply, spawned, slot, history>>
  BY DEF CancelPending, DiscardCancelled
<1>2. ASSUME NEW c \in Calls, WaitsFor(c, loop.gen), id[c] = loop.id
      PROVE  Forfeits(c)
  <2> SUFFICES ASSUME Undisturbed PROVE c \in history.cancelled
    BY DEF Forfeits
  <2>1. gen[c] = spawned /\ gen[c] = loop.gen
    BY <1>2 DEF Own, LastProcess, WaitsFor, AtSlot, WithRow, Bound
  <2>2. PICK d \in history.cancelled : gen[d] = gen[c] /\ id[d] = id[c] /\ id[c] # None
    BY <1>1, <1>2, <2>1 DEF Own, OnlyCancelled, Aimed
  <2>3. c = d
    BY <2>2 DEF Own, CallsInv, NumberInv, AnswerInv
  <2>4. QED
    BY <2>2, <2>3
<1>3. CallsGoOn
  <2>1. \A c \in Calls :
            \/ pc'[c] = pc[c] /\ result'[c] = result[c] /\ (c \in discarded' => c \in discarded)
            \/ pc[c] = "waiting" /\ pc'[c] = "returned" /\ Forfeits(c)
    BY <1>1, <1>2 DEF Discard, WaitsFor
  <2>2. /\ pc' = [c \in Calls |-> pc'[c]] /\ result' = [c \in Calls |-> result'[c]]
    BY <1>1 DEF Discard
  <2>3. QED
    BY <2>1, <2>2 DEF CallsGoOn, GoesOn, Onward, Past
<1>4. LoopGoesOn
  <2>1. CASE DiscardCancelled
    BY <2>1, LoopResumes DEF DiscardCancelled
  <2>2. CASE CancelPending
    <3>1. loop.line \in Lines
      BY <2>2 DEF CancelPending, Own, CallsInv, LineInv
    <3>2. loop' = Resume \/ (loop'.at = "peer cancel" /\ loop'.line = loop.line)
      BY <2>2 DEF CancelPending
    <3>3. CASE loop'.at = "peer cancel" /\ loop'.line = loop.line
      BY <3>1, <3>3 DEF LoopGoesOn
    <3>4. QED
      BY <3>2, <3>3, LoopResumes
  <2>3. QED
    BY <2>1, <2>2
<1>5. QED
  BY <1>1, <1>3, <1>4 DEF QuietStep

-----------------------------------------------------------------------------
(* The steps of a call that change its row, its number, its lock or its     *)
(* answer.                                                                 *)

Moves(c, to) ==
    /\ pc' = [pc EXCEPT ![c] = to]
    /\ UNCHANGED <<gen, id, result, slot, spawned, discarded, loop, history>>
    /\ to \notin {"failed", "reporting"}
    /\ to \in AtSlot => pc[c] \in AtSlot
    /\ pc[c] \in Past => to \in Past

Replies(c, to) ==
    /\ reply' = [d \in Calls |-> reply'[d]]
    /\ \A d \in Calls : d # c => reply'[d] = reply[d]
    /\ to \notin {"replied", "done"} => reply'[c] = "none"
    /\ to = "replied" => reply'[c] # "none"

LEMMA MoveKeepsOwn ==
    ASSUME Own, NEW c \in Calls, NEW to, Moves(c, to), Replies(c, to), TaskInv', RowInv'
    PROVE  Own'
<1> USE DEF Own, CallsInv, Moves
<1>1. pc'[c] = to /\ \A d \in Calls : d # c => pc'[d] = pc[d]
  BY CallFacts
<1>2. NumberInv'
  <2>1. \A g : DrawnFrom(g)' = DrawnFrom(g)
    BY DEF DrawnFrom
  <2>2. QED
    BY <2>1 DEF NumberInv
<1>3. AnswerInv'
  BY <1>1 DEF AnswerInv, Replies
<1>4. LineInv'
  BY DEF LineInv
<1>5. ASSUME Undisturbed
      PROVE  LastProcess' /\ OnlyCancelled'
  <2>1. LastProcess'
    BY <1>1, <1>5 DEF LastProcess
  <2>2. \A g, b : Aimed(g, b)' <=> Aimed(g, b)
    BY DEF Aimed
  <2>3. QED
    BY <1>5, <2>1, <2>2 DEF OnlyCancelled
<1>6. Undisturbed' <=> Undisturbed
  BY DEF Undisturbed
<1>7. QED
  BY <1>2, <1>3, <1>4, <1>5, <1>6

Serves == [Service!ServiceNext]_<<Stages, lock, Forfeited>>

LEMMA StageMoves ==
    ASSUME NEW c \in Calls, NEW v, Stage(c)' = v,
           \A d \in Calls : d # c => Stage(d)' = Stage(d)
    PROVE  Stages' = [Stages EXCEPT ![c] = v]
BY DEF Stages

LEMMA ReadCallServes ==
    ASSUME ServiceInv, NEW c \in Lines, ReadCall(c)
    PROVE  Own' /\ Serves
<1> USE CallFacts DEF ServiceInv, Own, CallsInv
<1>1. /\ c \in Calls /\ pc[c] = "unsent" /\ pc' = [pc EXCEPT ![c] = "queued"]
      /\ UNCHANGED <<lifetimeVars, gen, id, result, reply, lock, slot, spawned, discarded, loop,
                     history>>
  BY DEF ReadCall, Goto, backendVars, procVars
<1>2. lock # c /\ id[c] = None /\ reply[c] = "none"
  BY <1>1 DEF TaskInv, AnswerInv, Holding, Drawn, WithRow, Bound, Past
<1>3. TaskInv'
  BY <1>1, <1>2 DEF TaskInv, Labels, Holding, WithRow, Bound, Drawn, Past
<1>4. RowInv'
  BY <1>1, <1>2 DEF RowInv, TaskInv, HasRow, IsBound, lifetimeVars, Key
<1>5. Moves(c, "queued") /\ Replies(c, "queued")
  BY <1>1, <1>2 DEF Moves, Replies, AnswerInv, AtSlot, WithRow, Bound, Past
<1>6. Own'
  BY <1>1, <1>3, <1>4, <1>5, MoveKeepsOwn
<1>7. Stages' = [Stages EXCEPT ![c] = "pending"]
  BY <1>1, <1>2, StageMoves DEF Stage
<1>8. Stages[c] = "unsent" /\ Forfeited' = Forfeited
  BY <1>1 DEF Stages, Stage, Forfeited
<1>9. Service!Send(c)
  BY <1>1, <1>7, <1>8 DEF Service!Send, Service!Becomes
<1>10. QED
  BY <1>1, <1>6, <1>9 DEF Serves, Service!ServiceNext

LEMMA AcquireServes ==
    ASSUME ServiceInv, NEW c \in Calls, Acquire(c)
    PROVE  Own' /\ Serves
<1> USE CallFacts DEF ServiceInv, Own, CallsInv
<1>1. /\ pc[c] = "queued" /\ pc' = [pc EXCEPT ![c] = "ensuring"] /\ lock = None /\ lock' = c
      /\ UNCHANGED <<lifetimeVars, gen, id, result, reply, slot, spawned, discarded, loop,
                     history>>
  BY DEF Acquire, Goto, backendVars, procVars
<1>2. id[c] = None /\ reply[c] = "none"
  BY <1>1 DEF TaskInv, AnswerInv, Drawn, WithRow, Bound, Past
<1>3. TaskInv'
  BY <1>1, <1>2, KeyOfCall DEF TaskInv, Labels, Holding, WithRow, Bound, Drawn, Past
<1>4. RowInv'
  BY <1>1 DEF RowInv, HasRow, lifetimeVars
<1>5. Moves(c, "ensuring") /\ Replies(c, "ensuring")
  BY <1>1, <1>2 DEF Moves, Replies, AnswerInv, AtSlot, WithRow, Bound, Past
<1>6. Own'
  BY <1>3, <1>4, <1>5, MoveKeepsOwn
<1>7. Stages' = Stages /\ Stages[c] = "pending" /\ Forfeited' = Forfeited
  BY <1>1, <1>2 DEF Stages, Stage, Forfeited
<1>8. Service!Take(c)
  BY <1>1, <1>7 DEF Service!Take
<1>9. QED
  BY <1>6, <1>8 DEF Serves, Service!ServiceNext

(* The one who binds holds the lock and no other row is there, so its       *)
(* number is new to the index.                                             *)
LEMMA BindIsFresh ==
    ASSUME Own, NEW c \in Calls, BindRow(c)
    PROVE  lock = c /\ id[c] \in BackendIds /\ Fresh(id[c])
<1> USE DEF Own, CallsInv
<1>1. lock = c /\ id[c] \in BackendIds /\ pc[c] \notin Bound
  BY DEF BindRow, TaskInv, Holding, WithRow, Bound
<1>2. \A k \in Keys : backendOf[k] # id[c]
  BY <1>1, SentinelAssumption DEF RowInv, IsBound, HasRow
<1>3. QED
  BY <1>1, <1>2 DEF Fresh

LEMMA BindServes ==
    ASSUME ServiceInv, NEW c \in Calls, BindRow(c)
    PROVE  Own' /\ Serves
<1> USE CallFacts DEF ServiceInv, Own, CallsInv
<1>1. /\ pc[c] = "admitted" /\ pc' = [pc EXCEPT ![c] = "bound"] /\ Bind(Key(c), id[c])
      /\ lock = c /\ id[c] \in BackendIds
      /\ UNCHANGED <<gen, id, result, reply, lock, slot, spawned, discarded, loop, history>>
  BY BindIsFresh DEF BindRow, Goto, backendVars, procVars
<1>2. TaskInv'
  BY <1>1 DEF TaskInv, Labels, Holding, WithRow, Bound, Drawn, Past
<1>3. RowInv'
  <2>1. \A k \in Keys : HasRow(k)' => HasRow(k) \/ k = Key(c)
    BY <1>1, KeyOfCall DEF Bind, HasRow, lifetimeVars, LifetimeInv, LifetimeTypeOK
  <2>2. \A k \in Keys : HasRow(k)' => k = Key(c)
    BY <1>1, <2>1 DEF RowInv
  <2>3. HasRow(Key(c))' => backendOf'[Key(c)] = id[c]
    BY <1>1, KeyOfCall DEF Bind, HasRow, lifetimeVars, LifetimeInv, LifetimeTypeOK
  <2>4. Key(c)' = Key(c) /\ pc'[c] \in Bound /\ lock' = c /\ id' = id
    BY <1>1 DEF Bound, Key
  <2>5. QED
    BY <1>1, <2>2, <2>3, <2>4, KeyOfCall DEF RowInv, WithRow, Key
<1>4. Moves(c, "bound") /\ Replies(c, "bound")
  BY <1>1 DEF Moves, Replies, AnswerInv, AtSlot, WithRow, Bound, Past
<1>5. Own'
  BY <1>2, <1>3, <1>4, MoveKeepsOwn
<1>6. Stages' = Stages /\ Forfeited' = Forfeited
  BY <1>1 DEF Stages, Stage, Forfeited
<1>7. QED
  BY <1>1, <1>5, <1>6 DEF Serves

LEMMA RemoveServes ==
    ASSUME ServiceInv, NEW c \in Calls, RemoveRow(c)
    PROVE  Own' /\ Serves
<1> USE CallFacts DEF ServiceInv, Own, CallsInv
<1>1. /\ pc[c] = "returned" /\ pc' = [pc EXCEPT ![c] = "removed"] /\ Remove(Key(c))
      /\ UNCHANGED <<gen, id, result, reply, lock, slot, spawned, discarded, loop, history>>
  BY DEF RemoveRow, Goto, backendVars, procVars
<1>2. lock = c
  BY <1>1 DEF TaskInv, Holding
<1>3. TaskInv'
  BY <1>1, <1>2 DEF TaskInv, Labels, Holding, WithRow, Bound, Drawn, Past
<1>4. RowInv'
  <2>1. \A k \in Keys : HasRow(k)' => HasRow(k) /\ k # Key(c)
    BY <1>1, KeyOfCall DEF Remove, DropRow, HasRow, lifetimeVars, LifetimeInv, LifetimeTypeOK
  <2>2. QED
    BY <1>2, <2>1 DEF RowInv
<1>5. Moves(c, "removed") /\ Replies(c, "removed")
  BY <1>1 DEF Moves, Replies, AnswerInv, AtSlot, WithRow, Bound, Past
<1>6. Own'
  BY <1>3, <1>4, <1>5, MoveKeepsOwn
<1>7. Stages' = Stages /\ Forfeited' = Forfeited
  BY <1>1 DEF Stages, Stage, Forfeited
<1>8. QED
  BY <1>1, <1>6, <1>7 DEF Serves

(* Nobody's row is left when a call answers or ends.                       *)
LEMMA NoRowLeft ==
    ASSUME Own, NEW c \in Calls, pc[c] \in Holding \ WithRow
    PROVE  lock = c /\ \A k \in Keys : ~HasRow(k)
BY DEF Own, CallsInv, TaskInv, RowInv

LEMMA RespondServes ==
    ASSUME ServiceInv, NEW c \in Calls, Respond(c)
    PROVE  Own' /\ Serves
<1> USE CallFacts DEF ServiceInv, Own, CallsInv
<1>1. /\ pc[c] \in {"removed", "reporting"} /\ pc' = [pc EXCEPT ![c] = "replied"]
      /\ reply' = [reply EXCEPT ![c] = result[c]] /\ result[c] # "none"
      /\ UNCHANGED <<lifetimeVars, gen, id, result, lock, slot, spawned, discarded, loop,
                     history>>
  BY DEF Respond, Goto, backendVars, procVars
<1>2. lock = c /\ \A k \in Keys : ~HasRow(k)
  BY <1>1, NoRowLeft DEF Holding, WithRow, Bound
<1>3. TaskInv'
  BY <1>1, <1>2 DEF TaskInv, Labels, Holding, WithRow, Bound, Drawn, Past
<1>4. RowInv'
  BY <1>1, <1>2 DEF RowInv, HasRow, lifetimeVars
<1>5. Moves(c, "replied") /\ Replies(c, "replied")
  BY <1>1 DEF Moves, Replies, AnswerInv, AtSlot, WithRow, Bound, Past
<1>6. Own'
  BY <1>3, <1>4, <1>5, MoveKeepsOwn
<1>7. Stages' = [Stages EXCEPT ![c] = "answered"]
  <2>1. reply'[c] # "none" /\ \A d \in Calls : d # c => reply'[d] = reply[d]
    BY <1>1, <1>5 DEF Replies
  <2>2. QED
    BY <1>1, <2>1, StageMoves DEF Stage
<1>8. Stages[c] = "pending" /\ Forfeited' = Forfeited
  BY <1>1 DEF AnswerInv, Stages, Stage, Forfeited
<1>9. Service!Answer(c)
  BY <1>1, <1>2, <1>7, <1>8 DEF Service!Answer, Service!Becomes
<1>10. QED
  BY <1>6, <1>9 DEF Serves, Service!ServiceNext

LEMMA FinishServes ==
    ASSUME ServiceInv, NEW c \in Calls, Finish(c)
    PROVE  Own' /\ Serves
<1> USE CallFacts DEF ServiceInv, Own, CallsInv
<1>1. /\ \/ pc[c] = "replied"
         \/ pc[c] = "removed" /\ result[c] = "broken" /\ c \in discarded
      /\ pc' = [pc EXCEPT ![c] = "done"] /\ lock' = None
      /\ UNCHANGED <<lifetimeVars, gen, id, result, reply, slot, spawned, discarded, loop,
                     history>>
  BY DEF Finish, Goto, backendVars, procVars
<1>2. lock = c /\ \A k \in Keys : ~HasRow(k)
  BY <1>1, NoRowLeft DEF Holding, WithRow, Bound
<1>3. TaskInv'
  BY <1>1, <1>2, KeyOfCall DEF TaskInv, Labels, Holding, WithRow, Bound, Drawn, Past
<1>4. RowInv'
  BY <1>1, <1>2 DEF RowInv, HasRow, lifetimeVars
<1>5. Moves(c, "done") /\ Replies(c, "done")
  BY <1>1 DEF Moves, Replies, AnswerInv, AtSlot, WithRow, Bound, Past
<1>6. Own'
  BY <1>3, <1>4, <1>5, MoveKeepsOwn
<1>7. Forfeited' = Forfeited
  BY <1>1 DEF Forfeited
<1>8. CASE pc[c] = "replied"
  <2>1. reply[c] # "none"
    BY <1>8 DEF AnswerInv
  <2>2. Stages' = Stages /\ Stages[c] = "answered"
    BY <1>1, <1>8, <2>1 DEF Stages, Stage
  <2>3. Service!Release(c)
    BY <1>1, <1>2, <1>7, <2>2 DEF Service!Release
  <2>4. QED
    BY <1>6, <2>3 DEF Serves, Service!ServiceNext
<1>9. CASE pc[c] = "removed" /\ result[c] = "broken" /\ c \in discarded
  <2>1. c \in Forfeited
    BY <1>9 DEF OnlyCancelled, Undisturbed, Forfeited
  <2>2. reply[c] = "none"
    BY <1>9 DEF AnswerInv
  <2>3. Stages' = [Stages EXCEPT ![c] = "dropped"] /\ Stages[c] = "pending"
    BY <1>1, <1>9, <2>2, StageMoves DEF Stages, Stage
  <2>4. Service!Drop(c)
    BY <1>1, <1>2, <1>7, <2>1, <2>3 DEF Service!Drop, Service!Becomes
  <2>5. QED
    BY <1>6, <2>4 DEF Serves, Service!ServiceNext
<1>10. QED
  BY <1>1, <1>8, <1>9


(* A new process: no call is at one, and what the loop still has in hand    *)
(* is aimed at one before.                                                 *)
LEMMA SpawnServes ==
    ASSUME ServiceInv, NEW c \in Calls, EnsureSpawns(c)
    PROVE  Own' /\ Serves
<1> USE CallFacts DEF ServiceInv, Own, CallsInv
<1> DEFINE to == IF slot = None THEN "ensured" ELSE "respawned"
<1>1. /\ pc[c] = "ensuring" /\ pc' = [pc EXCEPT ![c] = to] /\ to \in {"ensured", "respawned"}
      /\ spawned' = spawned + 1 /\ slot' = spawned'
      /\ UNCHANGED <<lifetimeVars, gen, id, result, reply, lock, discarded, loop, history>>
  BY DEF EnsureSpawns, Installed, Goto
<1> HIDE DEF to
<1>2. lock = c /\ id[c] = None /\ reply[c] = "none" /\ c \notin discarded
  BY <1>1 DEF TaskInv, AnswerInv, Holding, Drawn, WithRow, Bound, Past
<1>3. pc'[c] = to /\ \A d \in Calls : d # c => pc'[d] = pc[d]
  BY <1>1
<1>4. TaskInv'
  BY <1>1, <1>2 DEF TaskInv, Labels, Holding, WithRow, Bound, Drawn, Past
<1>5. RowInv'
  BY <1>1, <1>2 DEF RowInv, HasRow, WithRow, Bound, lifetimeVars
<1>6. NumberInv'
  <2>1. \A g : DrawnFrom(g)' = DrawnFrom(g)
    BY <1>1 DEF DrawnFrom
  <2>2. QED
    BY <1>1, <2>1 DEF NumberInv
<1>7. AnswerInv' /\ LineInv'
  <2>1. spawned' \in Nat
    BY <1>1 DEF AnswerInv
  <2>2. AnswerInv'
    BY <1>1, <1>2, <1>3, <2>1 DEF AnswerInv
  <2>3. QED
    BY <1>1, <2>2 DEF LineInv
<1>8. ASSUME Undisturbed
      PROVE  LastProcess' /\ OnlyCancelled'
  <2>1. \A d \in Calls : pc'[d] \notin AtSlot
    BY <1>1, <1>2, <1>3 DEF TaskInv, AtSlot, WithRow, Bound, Holding
  <2>2. ASSUME loop.at \in {"CancelRequest", "discarding", "translate", "translated"}
        PROVE  loop'.gen \in Nat /\ loop'.gen < spawned'
    <3>1. loop.gen \in Nat /\ loop.gen <= spawned /\ spawned \in Nat
      BY <1>8, <2>2 DEF LastProcess, AnswerInv
    <3>2. QED
      BY <1>1, <3>1
  <2>3. LastProcess'
    <3>1. ASSUME loop'.at \in {"CancelRequest", "discarding", "translate", "translated"}
          PROVE  loop'.gen \in Nat /\ loop'.gen <= spawned'
      <4>1. loop'.gen \in Nat /\ loop'.gen < spawned'
        BY <1>1, <2>2, <3>1
      <4>2. spawned' \in Nat
        BY <1>7 DEF AnswerInv
      <4>3. QED
        BY <4>1, <4>2
    <3>2. QED
      BY <1>1, <2>1, <3>1 DEF LastProcess
  <2>4. OnlyCancelled'
    <3>1. ASSUME loop'.at \in {"discarding", "translated"}
          PROVE  Aimed(loop.gen, loop.id)'
      <4>1. loop'.gen \in Nat /\ loop'.gen < spawned'
        BY <1>1, <2>2, <3>1
      <4>2. spawned' \in Nat
        BY <1>7 DEF AnswerInv
      <4>3. loop'.gen # spawned'
        BY <4>1, <4>2
      <4>4. QED
        BY <4>3 DEF Aimed
    <3>2. QED
      BY <1>1, <1>8, <3>1 DEF OnlyCancelled
  <2>5. QED
    BY <2>3, <2>4
<1>9. Undisturbed' = Undisturbed /\ Stages' = Stages /\ Forfeited' = Forfeited
  BY <1>1, <1>3 DEF Undisturbed, Stages, Stage, Forfeited
<1>10. QED
  BY <1>1, <1>4, <1>5, <1>6, <1>7, <1>8, <1>9 DEF Serves

(* The clone is the last process, and no number has been drawn with it yet. *)
LEMMA CloneServes ==
    ASSUME ServiceInv, NEW c \in Calls, CloneSlot(c), slot # None
    PROVE  Own' /\ Serves
<1> USE CallFacts DEF ServiceInv, Own, CallsInv
<1> DEFINE to == IF pc[c] = "ensured" THEN "cloned" ELSE "refreshing"
<1>1. /\ pc[c] \in {"ensured", "respawned"} /\ pc' = [pc EXCEPT ![c] = to]
      /\ to \in {"cloned", "refreshing"}
      /\ gen' = [gen EXCEPT ![c] = slot]
      /\ UNCHANGED <<lifetimeVars, id, result, reply, lock, slot, spawned, discarded, loop,
                     history>>
  BY DEF CloneSlot, Goto, backendVars, procVars
<1> HIDE DEF to
<1>2. lock = c /\ id[c] = None /\ reply[c] = "none" /\ c \notin discarded
  BY <1>1 DEF TaskInv, AnswerInv, Holding, Drawn, WithRow, Bound, Past
<1>3. pc'[c] = to /\ \A d \in Calls : d # c => pc'[d] = pc[d] /\ gen'[d] = gen[d]
  BY <1>1 DEF NumberInv
<1>4. TaskInv'
  BY <1>1, <1>2 DEF TaskInv, Labels, Holding, WithRow, Bound, Drawn, Past
<1>5. RowInv'
  BY <1>1, <1>2 DEF RowInv, HasRow, WithRow, Bound, lifetimeVars
<1>6. NumberInv'
  <2>1. \A g : DrawnFrom(g)' = DrawnFrom(g)
    BY <1>1, <1>2, <1>3 DEF DrawnFrom
  <2>2. \A d \in Calls : id[d] # None => gen'[d] = gen[d]
    BY <1>2, <1>3
  <2>3. gen' = [d \in Calls |-> gen'[d]]
    BY <1>1 DEF NumberInv
  <2>4. QED
    BY <1>1, <2>1, <2>2, <2>3 DEF NumberInv
<1>7. AnswerInv' /\ LineInv'
  BY <1>1, <1>2, <1>3 DEF AnswerInv, LineInv
<1>8. ASSUME Undisturbed
      PROVE  LastProcess' /\ OnlyCancelled'
  <2>1. slot = spawned /\ gen'[c] = slot
    BY <1>1, <1>8 DEF LastProcess, NumberInv
  <2>2. \A d \in Calls : d # c => pc[d] \notin AtSlot
    BY <1>2 DEF TaskInv, AtSlot, WithRow, Bound, Holding
  <2>3. LastProcess'
    BY <1>1, <1>3, <1>8, <2>1, <2>2 DEF LastProcess
  <2>4. \A g, b : Aimed(g, b) => Aimed(g, b)'
    BY <1>1, <1>2, <1>3 DEF Aimed, AnswerInv
  <2>5. QED
    BY <1>1, <1>8, <2>3, <2>4 DEF OnlyCancelled
<1>9. Undisturbed' = Undisturbed /\ Stages' = Stages /\ Forfeited' = Forfeited
  BY <1>1, <1>3 DEF Undisturbed, Stages, Stage, Forfeited
<1>10. QED
  BY <1>1, <1>4, <1>5, <1>6, <1>7, <1>8, <1>9 DEF Serves

(* The row of the call that holds the lock is the only one, and its number  *)
(* is the next one of its process.                                         *)
LEMMA AdmitServes ==
    ASSUME ServiceInv, NEW c \in Calls, AdmitRow(c)
    PROVE  Own' /\ Serves
<1> USE CallFacts DEF ServiceInv, Own, CallsInv
<1> DEFINE n == NextId(gen[c])
<1>1. /\ pc[c] = "cloned" /\ pc' = [pc EXCEPT ![c] = "admitted"] /\ id' = [id EXCEPT ![c] = n]
      /\ n \in BackendIds /\ n # None
      /\ Admit(Key(c), TokenOf(c))
      /\ UNCHANGED <<gen, result, reply, lock, slot, spawned, discarded, loop, history>>
  BY SentinelAssumption DEF AdmitRow, Goto, backendVars, procVars
<1>2. n = 1 + Cardinality(DrawnFrom(gen[c]))
  BY DEF NextId, DrawnFrom
<1> HIDE DEF n
<1>3. lock = c /\ id[c] = None /\ reply[c] = "none" /\ c \notin discarded
  BY <1>1 DEF TaskInv, AnswerInv, Holding, Drawn, WithRow, Bound, Past
<1>4. /\ pc'[c] = "admitted" /\ id'[c] = n
      /\ \A d \in Calls : d # c => pc'[d] = pc[d] /\ id'[d] = id[d]
  BY <1>1 DEF TaskInv
<1>5. TaskInv'
  BY <1>1, <1>3 DEF TaskInv, Labels, Holding, WithRow, Bound, Drawn, Past
<1>6. RowInv'
  <2>1. \A k \in Keys : HasRow(k) => FALSE
    BY <1>1, <1>3 DEF RowInv, WithRow, Bound
  <2>2. \A k \in Keys : HasRow(k)' => k = Key(c) /\ ~IsBound(k)'
    BY <1>1, <2>1, KeyOfCall, SentinelAssumption
    DEF Admit, HasRow, IsBound, LifetimeInv, LifetimeTypeOK
  <2>3. lock' # None /\ Key(lock)' = Key(c) /\ pc'[lock'] \in WithRow
    BY <1>1, <1>3, <1>4, KeyOfCall DEF Key, WithRow
  <2>4. QED
    BY <2>2, <2>3 DEF RowInv
<1>7. NumberInv'
  <2>1. \A g : IsFiniteSet(DrawnFrom(g)) /\ Cardinality(DrawnFrom(g)) \in Nat
    <3>1. \A g : DrawnFrom(g) \subseteq Lines
      BY DEF DrawnFrom, Calls
    <3>2. QED
      BY <3>1, NormalAssumption, FS_Subset, FS_CardinalityType
  <2>2. n = Cardinality(DrawnFrom(gen[c])) + 1
    BY <1>2, <2>1
  <2>3. DrawnFrom(gen[c])' = DrawnFrom(gen[c]) \cup {c} /\ c \notin DrawnFrom(gen[c])
    BY <1>1, <1>3, <1>4 DEF DrawnFrom
  <2>4. Cardinality(DrawnFrom(gen[c])') = n
    BY <2>1, <2>2, <2>3, FS_AddElement
  <2>5. \A g : g # gen[c] => DrawnFrom(g)' = DrawnFrom(g)
    BY <1>1, <1>4 DEF DrawnFrom
  <2>6. ASSUME NEW d \in Calls, id'[d] # None
        PROVE  id'[d] \in Nat /\ id'[d] <= Cardinality(DrawnFrom(gen[d])')
    <3>1. CASE d = c
      BY <1>4, <2>1, <2>2, <2>4, <3>1
    <3>2. CASE d # c /\ gen[d] = gen[c]
      <4>1. id'[d] \in Nat /\ id'[d] <= Cardinality(DrawnFrom(gen[c]))
        BY <1>4, <2>6, <3>2 DEF NumberInv
      <4>2. Cardinality(DrawnFrom(gen[d])') = n
        BY <1>1, <2>4, <3>2 DEF DrawnFrom
      <4>3. Cardinality(DrawnFrom(gen[c])) \in Nat
        BY <2>1
      <4>4. QED
        BY <2>2, <4>1, <4>2, <4>3
    <3>3. CASE d # c /\ gen[d] # gen[c]
      <4>1. id'[d] \in Nat /\ id'[d] <= Cardinality(DrawnFrom(gen[d]))
        BY <1>4, <2>6, <3>3 DEF NumberInv
      <4>2. \A g : g # gen[c] => {e \in Calls : gen'[e] = g /\ id'[e] # None} = DrawnFrom(g)
        BY <1>1, <1>4 DEF DrawnFrom
      <4>3. DrawnFrom(gen[d])' = DrawnFrom(gen[d])
        BY <1>1, <3>3, <4>2 DEF DrawnFrom
      <4>4. QED
        BY <4>1, <4>3
    <3>4. QED
      BY <3>1, <3>2, <3>3
  <2>7. ASSUME NEW d \in Calls, d # c, gen[d] = gen[c]
        PROVE  id'[d] # n
    <3>1. CASE id[d] = None
      BY <1>1, <1>4, <2>7, <3>1
    <3>2. CASE id[d] # None
      <4>1. id[d] \in Nat /\ id[d] <= Cardinality(DrawnFrom(gen[c]))
        BY <2>7, <3>2 DEF NumberInv
      <4>2. Cardinality(DrawnFrom(gen[c])) \in Nat
        BY <2>1
      <4>3. QED
        BY <1>4, <2>2, <2>7, <4>1, <4>2
    <3>3. QED
      BY <3>1, <3>2
  <2>8. \A d, e \in Calls : gen'[d] = gen'[e] /\ id'[d] = id'[e] /\ id'[d] # None => d = e
    BY <1>1, <1>4, <2>7 DEF NumberInv
  <2>9. QED
    BY <1>1, <2>6, <2>8 DEF NumberInv, DrawnFrom
<1>8. AnswerInv' /\ LineInv'
  BY <1>1, <1>3, <1>4 DEF AnswerInv, LineInv
<1>9. ASSUME Undisturbed
      PROVE  LastProcess' /\ OnlyCancelled'
  <2>1. LastProcess'
    BY <1>1, <1>4, <1>9 DEF LastProcess, AtSlot, WithRow
  <2>2. \A g, b : Aimed(g, b) => Aimed(g, b)'
    BY <1>1, <1>3, <1>4 DEF Aimed, AnswerInv
  <2>3. QED
    BY <1>1, <1>9, <2>1, <2>2 DEF OnlyCancelled
<1>10. Undisturbed' = Undisturbed /\ Stages' = Stages /\ Forfeited' = Forfeited
  BY <1>1, <1>4 DEF Undisturbed, Stages, Stage, Forfeited
<1>11. QED
  BY <1>1, <1>5, <1>6, <1>7, <1>8, <1>9, <1>10 DEF Serves


(* A cancellation takes the one row there is, and with it the number that  *)
(* its second half is aimed at.                                            *)
CancelsLock(k) ==
    /\ HasRow(k) /\ \A j \in Keys : HasRow(j)' => HasRow(j) /\ j # k
    /\ UNCHANGED <<pc, gen, id, result, reply, lock, slot, spawned, discarded>>
    /\ history' = [f \in Fields |-> history'[f]]
    /\ history'.cancelled = history.cancelled \cup {lock}
    /\ history'.restarted = history.restarted
    /\ \/ loop' = Resume
       \/ /\ loop'.at = "discarding" /\ loop.at = "CancelRequest" /\ loop'.line \in Lines
          /\ loop'.gen = loop.gen /\ IsBound(k) /\ loop'.id = backendOf[k]
       \/ /\ loop'.at = "translated" /\ loop.at = "translate"
          /\ loop'.gen = loop.gen /\ IsBound(k) /\ loop'.id = backendOf[k]

LEMMA CancelServes ==
    ASSUME ServiceInv, NEW k \in Keys, CancelsLock(k)
    PROVE  Own' /\ Serves
<1> USE CallFacts DEF ServiceInv, Own, CallsInv, CancelsLock
<1>1. lock \in Calls /\ pc[lock] \in WithRow /\ \A j \in Keys : HasRow(j) => j = k
  BY DEF TaskInv, RowInv
<1>2. TaskInv' /\ RowInv'
  BY <1>1 DEF TaskInv, RowInv
<1>3. NumberInv'
  <2>1. \A g : DrawnFrom(g)' = DrawnFrom(g)
    BY DEF DrawnFrom
  <2>2. QED
    BY <2>1 DEF NumberInv
<1>4. AnswerInv'
  BY <1>1 DEF AnswerInv
<1>5. Resume.at \notin Cancels
  BY DEF Resume, Top, Select, Cancels
<1>6. LineInv'
  BY <1>5 DEF LineInv, Cancels
<1>7. ASSUME Undisturbed
      PROVE  LastProcess' /\ OnlyCancelled'
  <2>1. LastProcess'
    BY <1>5, <1>7 DEF LastProcess, Cancels
  <2>2. ASSUME IsBound(k), loop'.id = backendOf[k]
        PROVE  Aimed(loop.gen, loop.id)'
    <3>1. backendOf[k] = id[lock] /\ id[lock] # None
      BY <1>1, <2>2, SentinelAssumption DEF RowInv, IsBound
    <3>2. gen[lock] = spawned
      BY <1>1, <1>7 DEF LastProcess, AtSlot
    <3>3. QED
      BY <2>2, <3>1, <3>2 DEF Aimed
  <2>3. \A d \in Calls : d \in discarded' /\ result'[d] = "broken" => d \in history'.cancelled
    BY <1>7 DEF OnlyCancelled
  <2>4. loop'.at \in {"discarding", "translated"} => Aimed(loop.gen, loop.id)'
    BY <1>5, <2>2 DEF Cancels
  <2>5. QED
    BY <2>1, <2>3, <2>4 DEF OnlyCancelled
<1>8. Undisturbed' = Undisturbed /\ Stages' = Stages
  BY DEF Undisturbed, Stages, Stage
<1>9. CASE Undisturbed
  <2>1. Forfeited' = Forfeited \cup {lock}
    BY <1>9 DEF Forfeited, Undisturbed
  <2>2. Service!Forfeit
    BY <1>1, <1>8, <2>1 DEF Service!Forfeit
  <2>3. QED
    BY <1>2, <1>3, <1>4, <1>6, <1>7, <1>8, <2>2 DEF Serves, Service!ServiceNext
<1>10. CASE ~Undisturbed
  BY <1>2, <1>3, <1>4, <1>6, <1>8, <1>10 DEF Serves, Forfeited, Undisturbed
<1>11. QED
  BY <1>9, <1>10

LEMMA CancelRowServes ==
    ASSUME ServiceInv, CancelRow
    PROVE  Own' /\ Serves
<1> DEFINE k == Key(loop.line)
<1> USE CallFacts DEF ServiceInv, Own, CallsInv
<1>1. loop.at = "CancelRequest" /\ loop.line \in Lines /\ k \in Keys
  BY KeysOfLines DEF CancelRow, LineInv
<1>2. /\ UNCHANGED <<pc, gen, id, result, reply, lock, slot, spawned, discarded>>
      /\ history' = [history EXCEPT !["cancelled"] = @ \cup {c \in Calls : HasRow(k) /\ lock = c}]
      /\ Remove(k)
      /\ loop' = IF IsBound(k) THEN [at |-> "discarding", line |-> loop.line,
                                     gen |-> loop.gen, id |-> backendOf[k]]
                 ELSE IF HasRow(k) THEN Resume
                 ELSE [at |-> "peer cancel", line |-> loop.line, gen |-> loop.gen]
  BY DEF CancelRow, Note, taskVars, backendVars, procVars
<1>3. /\ history' = [f \in Fields |-> history'[f]] /\ history'.restarted = history.restarted
      /\ history'.cancelled = history.cancelled \cup {c \in Calls : HasRow(k) /\ lock = c}
  BY <1>2 DEF Fields
<1>4. CASE HasRow(k)
  <2>1. lock \in Calls
    BY <1>1, <1>4 DEF RowInv, TaskInv
  <2>2. \A j \in Keys : HasRow(j)' => HasRow(j) /\ j # k
    BY <1>1, <1>2 DEF Remove, DropRow, HasRow, lifetimeVars, LifetimeInv, LifetimeTypeOK
  <2>3. history'.cancelled = history.cancelled \cup {lock}
    BY <1>3, <1>4, <2>1
  <2>4. \/ loop' = Resume
        \/ /\ loop'.at = "discarding" /\ loop'.line \in Lines
           /\ loop'.gen = loop.gen /\ IsBound(k) /\ loop'.id = backendOf[k]
    BY <1>1, <1>2, <1>4
  <2> HIDE DEF k
  <2>5. CancelsLock(k)
    BY <1>1, <1>2, <1>3, <1>4, <2>2, <2>3, <2>4 DEF CancelsLock
  <2>6. QED
    BY <1>1, <2>5, CancelServes
<1>5. CASE ~HasRow(k)
  <2>1. ~IsBound(k)
    BY <1>5, SentinelAssumption DEF IsBound, HasRow
  <2>2. loop'.at = "peer cancel" /\ loop'.line \in Lines
    BY <1>1, <1>2, <1>5, <2>1
  <2>3. LoopGoesOn
    BY <2>2 DEF LoopGoesOn
  <2>4. history'.cancelled = history.cancelled
    BY <1>3, <1>5
  <2>5. UNCHANGED clientVars
    BY <1>2, <1>5 DEF Remove, lifetimeVars, clientVars
  <2>6. QuietStep
    BY <1>2, <1>3, <2>3, <2>4, <2>5, CallsStay DEF QuietStep
  <2>7. QED
    BY <2>6, QuietKeepsOwn, QuietIsUnseen DEF Serves, Unseen
<1>6. QED
  BY <1>4, <1>5

LEMMA TranslateServes ==
    ASSUME ServiceInv, TranslateCancel
    PROVE  Own' /\ Serves
<1> USE CallFacts DEF ServiceInv, Own, CallsInv
<1>1. UNCHANGED <<pc, gen, id, result, reply, lock, slot, spawned, discarded>>
      /\ loop.at = "translate"
  BY DEF TranslateCancel, taskVars, backendVars, procVars
<1>2. CASE NamesRow(loop.id) /\ RemoveByBackend(loop.id)
           /\ loop' = [at |-> "translated", id |-> loop.id, gen |-> loop.gen]
           /\ Note("cancelled", {c \in Calls : lock = c})
  <2> DEFINE k == clientByBackend[loop.id]
  <2>1. k \in Keys /\ backendOf[k] = loop.id /\ loop.id \in BackendIds
    BY <1>2 DEF NamesRow, LifetimeInv, LifetimeTypeOK, BackendIndexExact
  <2>2. IsBound(k) /\ HasRow(k)
    BY <2>1, SentinelAssumption DEF IsBound, HasRow
  <2>3. lock \in Calls
    BY <2>1, <2>2 DEF RowInv, TaskInv
  <2>4. \A j \in Keys : HasRow(j)' => HasRow(j) /\ j # k
    BY <1>2, <2>1 DEF RemoveByBackend, HasRow, LifetimeInv, LifetimeTypeOK
  <2>5. /\ history' = [f \in Fields |-> history'[f]] /\ history'.restarted = history.restarted
        /\ history'.cancelled = history.cancelled \cup {lock}
    BY <1>2, <2>3 DEF Note, Fields
  <2>6. loop'.at = "translated" /\ loop'.gen = loop.gen /\ loop'.id = backendOf[k]
    BY <1>2, <2>1
  <2> HIDE DEF k
  <2>7. CancelsLock(k)
    BY <1>1, <2>2, <2>4, <2>5, <2>6 DEF CancelsLock
  <2>8. QED
    BY <2>1, <2>7, CancelServes
<1>3. CASE loop' = Resume /\ UNCHANGED <<lifetimeVars, history>>
  <2>1. QuietStep
    BY <1>1, <1>3, CallsStay, LoopResumes DEF QuietStep, lifetimeVars, clientVars
  <2>2. QED
    BY <2>1, QuietKeepsOwn, QuietIsUnseen DEF Serves, Unseen
<1>4. QED
  BY <1>2, <1>3 DEF TranslateCancel, RemoveByBackend

(* A restart puts a process under whatever call is there: from then on any  *)
(* call may be taken for the one that is cancelled.                        *)
LEMMA RestartServes ==
    ASSUME ServiceInv, RestartSpawns
    PROVE  Own' /\ Serves
<1> USE CallFacts DEF ServiceInv, Own, CallsInv
<1>1. /\ UNCHANGED <<lifetimeVars, pc, gen, id, result, reply, lock, discarded>>
      /\ spawned' = spawned + 1 /\ loop'.at = "asking"
      /\ history' = [history EXCEPT !["restarted"] = @ \cup {loop.line}]
  BY DEF RestartSpawns, Installed, Asking, Note, taskVars
<1>2. TaskInv' /\ RowInv'
  BY <1>1 DEF TaskInv, RowInv, HasRow, IsBound, Key, lifetimeVars
<1>3. NumberInv'
  <2>1. \A g : DrawnFrom(g)' = DrawnFrom(g)
    BY <1>1 DEF DrawnFrom
  <2>2. QED
    BY <1>1, <2>1 DEF NumberInv
<1>4. AnswerInv'
  <2>1. spawned' \in Nat
    BY <1>1 DEF AnswerInv
  <2>2. history' = [f \in Fields |-> history'[f]] /\ history'.cancelled = history.cancelled
    BY <1>1 DEF Fields
  <2>3. QED
    BY <1>1, <2>1, <2>2 DEF AnswerInv
<1>5. LineInv'
  BY <1>1 DEF LineInv
<1>6. history'.restarted # {}
  BY <1>1 DEF Fields
<1>7. ~Undisturbed' /\ Stages' = Stages /\ Forfeited' = Calls
  BY <1>1, <1>6 DEF Undisturbed, Stages, Stage, Forfeited
<1>8. Service!Forfeit \/ Forfeited' = Forfeited
  BY <1>1, <1>7 DEF Service!Forfeit, Forfeited, AnswerInv
<1>9. QED
  BY <1>1, <1>2, <1>3, <1>4, <1>5, <1>7, <1>8 DEF Serves, Service!ServiceNext

-----------------------------------------------------------------------------
(* Every step of normal mode is one of the index or none.                  *)

IndexMoves == [LifetimeNext]_lifetimeVars

LEMMA CallsMoveIndex ==
    ASSUME Own, NEW c \in Calls, CallStep(c) \/ Answer(c)
    PROVE  IndexMoves
<1> USE DEF IndexMoves
<1>1. Key(c) \in Keys /\ TokenOf(c) \in Tokens \cup {None}
  BY KeysOfLines DEF Calls
<1>2. CASE AdmitRow(c)
  BY <1>1, <1>2 DEF AdmitRow, LifetimeNext
<1>3. CASE BindRow(c)
  <2>1. Bind(Key(c), id[c])
    BY <1>3 DEF BindRow
  <2>2. QED
    BY <1>1, <1>3, <2>1, BindIsFresh DEF LifetimeNext
<1>4. CASE RemoveRow(c)
  BY <1>1, <1>4 DEF RemoveRow, LifetimeNext
<1>5. CASE \/ Acquire(c) \/ EnsureReuses(c) \/ EnsureSpawns(c) \/ EnsureFails(c)
           \/ CloneSlot(c) \/ RefreshAfterSpawn(c) \/ Answer(c)
  BY <1>5 DEF Acquire, EnsureReuses, EnsureSpawns, EnsureFails, CloneSlot, RefreshAfterSpawn,
     Answer
<1>6. CASE \/ Register(c) \/ Deliver(c) \/ TimeOut(c) \/ DetectFailure(c)
           \/ EmptySlot(c) \/ Respond(c) \/ Finish(c)
  BY <1>6 DEF Register, Deliver, TimeOut, DetectFailure, EmptySlot, Respond, Finish
<1>7. QED
  BY <1>2, <1>3, <1>4, <1>5, <1>6 DEF CallStep

LEMMA LoopMovesIndex ==
    ASSUME Own, ReadStep \/ HandlerStep
    PROVE  IndexMoves
<1> USE DEF IndexMoves
<1>1. ASSUME NEW l \in Lines, TakePeer(Key(l)) \/ Remove(Key(l))
      PROVE  LifetimeNext
  BY <1>1, KeysOfLines DEF LifetimeNext
<1>2. ASSUME NEW l \in Lines,
             \/ ReadHalf(l) \/ ReadCall(l) \/ ReadLocal(l) \/ ReadControl(l)
             \/ ReadNotification(l)
      PROVE  IndexMoves
  BY <1>2 DEF ReadHalf, ReadCall, ReadLocal, ReadControl, ReadNotification
<1>3. ASSUME NEW l \in Lines, ReadResponse(l)
      PROVE  IndexMoves
  BY <1>1, <1>3 DEF ReadResponse
<1>4. CASE ReadEof
  BY <1>4 DEF ReadEof
<1>5. CASE CancelRow \/ CancelPeer
  <2>1. loop.line \in Lines
    BY <1>5 DEF CancelRow, CancelPeer, Own, CallsInv, LineInv
  <2>2. QED
    BY <1>1, <1>5, <2>1 DEF CancelRow, CancelPeer
<1>6. CASE TranslateCancel
  <2>1. ASSUME RemoveByBackend(loop.id)
        PROVE  LifetimeNext
    BY <2>1 DEF RemoveByBackend, NamesRow, LifetimeNext
  <2>2. QED
    BY <1>6, <2>1 DEF TranslateCancel
<1>7. CASE AnswerPeer \/ PassNotification \/ ClientProgress \/ CancelPending \/ DiscardCancelled
  BY <1>7 DEF AnswerPeer, PassNotification, ClientProgress, CancelPending, DiscardCancelled
<1>8. CASE \/ ControlTakes \/ ControlRefused \/ RestartSpawns \/ RestartFails
           \/ RefreshAnswered \/ RefreshEnds
  BY <1>8 DEF ControlTakes, ControlRefused, RestartSpawns, RestartFails, RefreshAnswered,
     RefreshEnds
<1>9. CASE CheckFirst \/ CheckSecond
  BY <1>9 DEF CheckFirst, CheckSecond, Exits
<1>10. QED
  BY <1>2, <1>3, <1>4, <1>5, <1>6, <1>7, <1>8, <1>9 DEF ReadStep, HandlerStep

LEMMA EventsMoveIndex ==
    ASSUME EventStep \/ WriteStep
    PROVE  IndexMoves
<1> USE DEF IndexMoves
<1>1. ASSUME NEW e \in Emits, TakePeerRequest(e)
      PROVE  IndexMoves
  <2>1. <<Client, EmitSays[e].id>> \in Keys
    <3>1. Cardinality(Sessions) = 1
      BY NormalAssumption
    <3>2. Sessions # {}
      BY <3>1, FS_EmptySet
    <3>3. QED
      BY <3>2, NormalAssumption DEF Keys, Client
  <2>2. QED
    BY <1>1, <2>1, NormalAssumption DEF TakePeerRequest, LifetimeNext
<1>2. ASSUME NEW e \in Emits,
             TakeShown(e) \/ TakeUnmatched(e) \/ TakeListChanged(e) \/ TakeCancel(e)
      PROVE  IndexMoves
  BY <1>2 DEF TakeShown, TakeUnmatched, TakeListChanged, TakeCancel
<1>3. CASE TakeExit
  BY <1>3 DEF TakeExit, LifetimeNext
<1>4. ASSUME NEW message \in outq, WriteOut(message)
      PROVE  IndexMoves
  BY <1>4 DEF WriteOut
<1>5. QED
  BY <1>1, <1>2, <1>3, <1>4 DEF EventStep, WriteStep

LEMMA StepMovesIndex ==
    ASSUME Own, [Next]_vars
    PROVE  IndexMoves
<1>1. ASSUME \/ \E g \in Gens : ProcessStep(g)
             \/ \E e \in Emits : JobEnds(e)
             \/ ReaperStep \/ Break \/ UNCHANGED vars
      PROVE  UNCHANGED lifetimeVars
  BY <1>1 DEF ProcessStep, Emit, Die, SendExit, JobEnds, ReaperStep, ReapDecide, ReapTake,
     Break, Exits, vars
<1>2. QED
  BY <1>1, CallsMoveIndex, LoopMovesIndex, EventsMoveIndex DEF Next, IndexMoves

(* ... and one of the call service or none.                                *)
LEMMA QuietServes == ASSUME ServiceInv, QuietStep PROVE Own' /\ Serves
BY QuietKeepsOwn, QuietIsUnseen DEF ServiceInv, Serves, Unseen

LEMMA StepServes ==
    ASSUME ServiceInv, [Next]_vars
    PROVE  ServiceInv' /\ Serves
<1>1. Own
  BY DEF ServiceInv
<1>2. LifetimeInv'
  BY <1>1, StepMovesIndex, NextKeepsInv DEF ServiceInv, IndexMoves
<1>3. ASSUME NEW c \in Calls, CallStep(c) \/ Answer(c)
      PROVE  Own' /\ Serves
  <2>1. CASE \/ EnsureReuses(c) \/ EnsureFails(c) \/ (CloneSlot(c) /\ slot = None)
             \/ RefreshAfterSpawn(c) \/ Register(c) \/ Deliver(c) \/ TimeOut(c)
             \/ DetectFailure(c) \/ EmptySlot(c) \/ Answer(c)
    <3>1. QuietStep
      BY <1>1, <2>1, CallIsQuiet
    <3>2. QED
      BY <3>1, QuietServes
  <2>2. CASE \/ Acquire(c) \/ EnsureSpawns(c) \/ (CloneSlot(c) /\ slot # None) \/ AdmitRow(c)
             \/ BindRow(c) \/ RemoveRow(c) \/ Respond(c) \/ Finish(c)
    BY <2>2, AcquireServes, SpawnServes, CloneServes, AdmitServes, BindServes, RemoveServes,
       RespondServes, FinishServes
  <2>3. QED
    BY <1>3, <2>1, <2>2 DEF CallStep
<1>4. ASSUME \/ \E g \in Gens : ProcessStep(g)
             \/ \E e \in Emits : JobEnds(e)
             \/ ReaperStep \/ EventStep \/ WriteStep
      PROVE  Own' /\ Serves
  BY <1>1, <1>4, ProcessIsQuiet, EventIsQuiet, QuietServes
<1>5. ASSUME ReadStep
      PROVE  Own' /\ Serves
  <2>1. CASE \E c \in Lines : ReadCall(c)
    BY <2>1, ReadCallServes
  <2>2. CASE \/ \E l \in Lines : \/ ReadHalf(l) \/ ReadLocal(l) \/ ReadControl(l)
                                 \/ ReadNotification(l) \/ ReadResponse(l)
             \/ ReadEof
    <3>1. QuietStep
      BY <1>1, <2>2, ReadIsQuiet
    <3>2. QED
      BY <3>1, QuietServes
  <2>3. QED
    BY <1>5, <2>1, <2>2 DEF ReadStep
<1>6. ASSUME HandlerStep \/ Break \/ UNCHANGED vars
      PROVE  Own' /\ Serves
  <2>1. CASE CancelPending \/ DiscardCancelled
    BY <1>1, <2>1, DiscardIsQuiet, QuietServes
  <2>2. CASE CancelRow \/ TranslateCancel \/ RestartSpawns
    BY <2>2, CancelRowServes, TranslateServes, RestartServes
  <2>3. CASE \/ AnswerPeer \/ PassNotification \/ ClientProgress \/ CancelPeer
             \/ ControlTakes \/ ControlRefused \/ RestartFails
             \/ RefreshAnswered \/ RefreshEnds
             \/ CheckFirst \/ CheckSecond \/ Break \/ UNCHANGED vars
    <3>1. QuietStep
      BY <1>1, <2>3, HandlerIsQuiet
    <3>2. QED
      BY <3>1, QuietServes
  <2>4. QED
    BY <1>6, <2>1, <2>2, <2>3 DEF HandlerStep
<1>7. Own' /\ Serves
  BY <1>3, <1>4, <1>5, <1>6 DEF Next
<1>8. QED
  BY <1>2, <1>7 DEF ServiceInv

LEMMA InitServes ==
    ASSUME Init
    PROVE  ServiceInv /\ Service!ServiceInit
<1> USE DEF Init
<1>1. LifetimeInv
  BY InitInv
<1>2. \A k \in Keys : ~HasRow(k)
  BY DEF HasRow, LifetimeInit
<1>3. /\ history = [f \in Fields |-> history[f]]
      /\ history.cancelled = {} /\ history.restarted = {}
  BY DEF Fields
<1>4. TaskInv /\ RowInv
  BY <1>2, KeyOfCall DEF TaskInv, RowInv, Labels, Holding, WithRow, Bound
<1>5. NumberInv /\ AnswerInv /\ LineInv
  BY <1>3 DEF NumberInv, AnswerInv, LineInv, Select
<1>6. LastProcess /\ OnlyCancelled
  BY DEF LastProcess, OnlyCancelled, AtSlot, WithRow, Bound, Select
<1>7. Stages = [c \in Calls |-> "unsent"] /\ Forfeited = {}
  BY <1>3 DEF Stages, Stage, Forfeited
<1>8. QED
  BY <1>1, <1>4, <1>5, <1>6, <1>7 DEF ServiceInv, Own, CallsInv, Service!ServiceInit

(* Normal mode uses the lifetime index as the index means it, whatever ids  *)
(* the client gives its calls: a row is made under the lock of the calls,  *)
(* so no two are there at once and every number bound is new.              *)
THEOREM NormalUsesIndexAsMeant == Spec => LifetimeSpec
<1>1. ServiceInv /\ [Next]_vars => ServiceInv'
  BY StepServes
<1>2. ServiceInv /\ [Next]_vars => [LifetimeNext]_lifetimeVars
  BY StepMovesIndex DEF ServiceInv, IndexMoves
<1>3. Init => LifetimeInit /\ ServiceInv
  BY InitServes DEF Init
<1>4. QED
  BY <1>1, <1>2, <1>3, PTL DEF Spec, LifetimeSpec

(* Normal mode serves its calls as CallService says: one at a time, and no  *)
(* call that was not cancelled ends in silence unless a restart has put a  *)
(* process under a running call.                                           *)
THEOREM NormalServesCalls == Spec => CallServiceSpec
<1>1. ServiceInv /\ [Next]_vars => ServiceInv'
  BY StepServes
<1>2. ServiceInv /\ [Next]_vars => [Service!ServiceNext]_<<Stages, lock, Forfeited>>
  BY StepServes DEF Serves
<1>3. Init => Service!ServiceInit /\ ServiceInv
  BY InitServes
<1>4. QED
  BY <1>1, <1>2, <1>3, PTL DEF Spec, CallServiceSpec, Service!ServiceSpec

-----------------------------------------------------------------------------
(* What reaches a backend.                                                 *)

LEMMA FirstMatchFound ==
    ASSUME NEW dir, NEW kind, NEW method, NEW tool, NEW i \in 1 .. 19,
           Matches(MountTable[i], dir, kind, method, tool)
    PROVE  \E k \in 1 .. i : /\ Matches(MountTable[k], dir, kind, method, tool)
                             /\ FindMount(dir, kind, method, tool) = MountTable[k]
<1> DEFINE hits == {k \in DOMAIN MountTable : Matches(MountTable[k], dir, kind, method, tool)}
<1>1. hits \in SUBSET (1 .. 19) /\ i \in hits
  BY TablePrograms
<1>2. \E k \in hits : \A j \in hits : k <= j
  BY <1>1, LeastIndex
<1>3. PICK k \in hits : /\ \A j \in hits : k <= j
                        /\ FindMount(dir, kind, method, tool) = MountTable[k]
  BY <1>1, <1>2 DEF FindMount
<1>4. k \in 1 .. i
  BY <1>1, <1>3
<1>5. QED
  BY <1>3, <1>4

(* The entries of the table for requests of the client.                    *)
LEMMA RequestEntries ==
    /\ MountTable[1] = Requests("c2s", {"initialize"}, "CacheInitializeView", "Respond")
    /\ MountTable[3] = Requests("c2s", {"ping"}, "LocalPing", "Respond")
    /\ MountTable[5] = Requests("c2s", {"tools/list"}, "CacheToolsList", "Respond")
    /\ MountTable[6] = Requests("c2s", {"prompts/list"}, "CachePromptsList", "Respond")
    /\ MountTable[7] = Requests("c2s", {"resources/list"}, "CacheResourcesList", "Respond")
    /\ MountTable[8] = Requests("c2s", {"resources/templates/list"},
                                "CacheResourceTemplatesList", "Respond")
    /\ MountTable[9] = Mount("c2s", "request", {"tools/call"}, WrapperTool,
                             "InvokeWrapperTool", "Respond")
    /\ MountTable[19] = Requests("c2s", LegacyMethods, "LegacyBackendHook", "Respond")
    /\ \A i \in 1 .. 19 : MountTable[i].dir = "c2s" /\ MountTable[i].kind = "request" =>
           i \in {1, 3, 5, 6, 7, 8, 9, 10, 19}
    /\ MountTable[10].methods = {"tools/call", "prompts/get", "resources/read",
           "resources/subscribe", "resources/unsubscribe", "completion/complete",
           "logging/setLevel"}
    /\ MountTable[2] = Notifications("c2s", {"notifications/initialized"},
                                     "DropClientInitialized", "Drop")
<1> USE DEF MountTable
<1>1. \A i \in 1 .. 19 : MountTable[i].dir = "c2s" /\ MountTable[i].kind = "request" =>
           i \in {1, 3, 5, 6, 7, 8, 9, 10, 19}
  BY DEF Requests, Notifications, Mount
<1>2. MountTable[10].methods = {"tools/call", "prompts/get", "resources/read",
           "resources/subscribe", "resources/unsubscribe", "completion/complete",
           "logging/setLevel"}
  BY DEF Requests, Mount
<1>3. QED
  BY <1>1, <1>2 DEF Requests

(* What a look-up of a method that the wrapper answers itself can find.    *)
LEMMA ControlNames ==
    /\ {LegacyControls[x] : x \in DOMAIN LegacyControls} =
           {"mcp-wrapper/backend/status", "mcp-wrapper/backend/refresh",
            "mcp-wrapper/backend/restart", "mcp-wrapper/backend/stop",
            "mcp-wrapper/backend/ping"}
BY DEF LegacyControls

ControlMethods == {LegacyControls[x] : x \in DOMAIN LegacyControls}

(* Whatever the wrapper answers itself has an entry, and the first one says *)
(* so.                                                                     *)
LEMMA ReservedIsMounted ==
    ASSUME NEW method \in ReservedMethods
    PROVE  \E i \in 1 .. 19 : Matches(MountTable[i], "c2s", "request", method, NoTool)
<1> USE RequestEntries DEF Requests, Mount, Matches
<1>1. CASE method \in ControlMethods
  <2>1. method \in LegacyMethods
    BY <1>1 DEF LegacyMethods, ControlMethods
  <2>2. Matches(MountTable[19], "c2s", "request", method, NoTool)
    BY <2>1
  <2>3. QED
    BY <2>2
<1>2. CASE method = "initialize"
  <2>1. Matches(MountTable[1], "c2s", "request", method, NoTool)
    BY <1>2
  <2>2. QED
    BY <2>1
<1>3. CASE method = "ping"
  <2>1. Matches(MountTable[3], "c2s", "request", method, NoTool)
    BY <1>3
  <2>2. QED
    BY <2>1
<1>4. CASE method \in {"tools/list", "prompts/list"}
  <2>1. \/ Matches(MountTable[5], "c2s", "request", method, NoTool)
        \/ Matches(MountTable[6], "c2s", "request", method, NoTool)
    BY <1>4
  <2>2. QED
    BY <2>1
<1>5. CASE method \in {"resources/list", "resources/templates/list"}
  <2>1. \/ Matches(MountTable[7], "c2s", "request", method, NoTool)
        \/ Matches(MountTable[8], "c2s", "request", method, NoTool)
    BY <1>5
  <2>2. QED
    BY <2>1
<1>6. QED
  BY <1>1, <1>2, <1>3, <1>4, <1>5 DEF ReservedMethods, ControlMethods

LEMMA ReservedPrograms ==
    ASSUME NEW method \in ReservedMethods, NEW i \in 1 .. 19,
           Matches(MountTable[i], "c2s", "request", method, NoTool)
    PROVE  \/ MountTable[i].program \in CachePrograms \cup {"LocalPing"}
           \/ MountTable[i].program = "LegacyBackendHook" /\ method \in ControlMethods
<1>1. i \in {1, 3, 5, 6, 7, 8, 9, 10, 19} /\ method \in MountTable[i].methods
  BY RequestEntries DEF Matches
<1>2. method \notin {"tools/call", "prompts/get", "resources/read", "resources/subscribe",
                     "resources/unsubscribe", "completion/complete", "logging/setLevel",
                     "mcp-wrapper/backend/other"}
  BY ControlNames DEF ReservedMethods
<1>3. i \notin {9, 10}
  BY <1>1, <1>2, RequestEntries DEF Mount
<1>4. CASE i = 19
  <2>1. method \in ControlMethods
    BY <1>1, <1>2, <1>4, RequestEntries DEF Requests, Mount, LegacyMethods, ControlMethods
  <2>2. QED
    BY <1>4, <2>1, RequestEntries DEF Requests, Mount
<1>5. CASE i \in {1, 3, 5, 6, 7, 8}
  BY <1>5, RequestEntries DEF Requests, Mount, CachePrograms
<1>6. QED
  BY <1>1, <1>3, <1>4, <1>5

LEMMA WrapperToolIsMounted ==
    FindMount("c2s", "request", "tools/call", WrapperTool).program = "InvokeWrapperTool"
<1>1. Matches(MountTable[9], "c2s", "request", "tools/call", WrapperTool)
  BY RequestEntries DEF Mount, Matches
<1>2. PICK k \in 1 .. 9 :
          /\ Matches(MountTable[k], "c2s", "request", "tools/call", WrapperTool)
          /\ FindMount("c2s", "request", "tools/call", WrapperTool) = MountTable[k]
  BY <1>1, FirstMatchFound
<1>3. k \in {1, 3, 5, 6, 7, 8, 9} /\ "tools/call" \in MountTable[k].methods
  BY <1>2, RequestEntries DEF Matches
<1>4. k = 9
  BY <1>3, RequestEntries DEF Requests, Mount
<1>5. QED
  BY <1>2, <1>4, RequestEntries DEF Mount

LEMMA CallsAreNotReserved == \A c \in Calls : ~Reserved(c)
<1> SUFFICES ASSUME NEW c \in Calls, Reserved(c)
             PROVE  FALSE
  OBVIOUS
<1> DEFINE method == Says[c].method
<1>1. /\ ~IsToolLine(c) /\ RouteForClientRequest(method) = "PassThrough"
      /\ Says[c].kind = "request"
  BY DEF Calls, Route
<1>2. CASE method = "tools/call" /\ Says[c].tool = WrapperTool
  BY <1>1, <1>2, WrapperToolIsMounted DEF IsToolLine, IsWrapperToolRequest
<1>3. CASE method \in ReservedMethods
  <2>1. PICK i \in 1 .. 19 :
            /\ Matches(MountTable[i], "c2s", "request", method, NoTool)
            /\ FindMount("c2s", "request", method, NoTool) = MountTable[i]
    BY <1>3, ReservedIsMounted, FirstMatchFound
  <2> DEFINE program == FindMount("c2s", "request", method, NoTool).program
  <2>2. \/ program \in CachePrograms \cup {"LocalPing"}
        \/ program = "LegacyBackendHook" /\ method \in ControlMethods
    BY <1>3, <2>1, ReservedPrograms
  <2>3. method \in ControlMethods => \E x \in DOMAIN LegacyControls : LegacyControls[x] = method
    BY DEF ControlMethods
  <2>4. QED
    BY <1>1, <2>2, <2>3 DEF RouteForClientRequest, CachePrograms
<1>4. QED
  BY <1>1, <1>2, <1>3 DEF Reserved

LEMMA InitializedIsDropped == ShouldDropClientNotification("notifications/initialized")
<1> DEFINE method == "notifications/initialized"
<1>1. Matches(MountTable[2], "c2s", "notification", method, NoTool)
  BY RequestEntries DEF Notifications, Mount, Matches
<1>2. PICK k \in 1 .. 2 :
          /\ Matches(MountTable[k], "c2s", "notification", method, NoTool)
          /\ FindMount("c2s", "notification", method, NoTool) = MountTable[k]
  BY <1>1, FirstMatchFound
<1>3. k = 2
  BY <1>2, RequestEntries DEF Requests, Mount, Matches
<1>4. QED
  BY <1>2, <1>3, RequestEntries DEF ShouldDropClientNotification, Notifications, Mount
(* A line that is on its way to a process is not reserved; most steps send  *)
(* nothing and put no line on its way.                                     *)
OnItsWay == {"answering", "PassNotification", "none", "ProgressRequest", "CancelRequest",
             "discarding", "peer cancel"}
SentInv ==
    /\ BackendSeesOnlyItsOwn
    /\ loop.at \in OnItsWay => ~Reserved(loop.line)

SendsNothing ==
    /\ history'.sent = history.sent
    /\ UNCHANGED loop \/ loop'.at \notin OnItsWay

LEMMA SilentKeepsSent == ASSUME SentInv, SendsNothing PROVE SentInv'
BY DEF SentInv, SendsNothing, BackendSeesOnlyItsOwn, Reserved

LEMMA ResumesNowhere == Resume.at \notin OnItsWay
BY DEF Resume, Top, Select, OnItsWay

LEMMA CallsSend ==
    ASSUME RuntimeInv, SentInv, NEW c \in Calls, CallStep(c) \/ Answer(c)
    PROVE  SentInv'
<1>1. CASE Register(c)
  <2>1. UNCHANGED loop /\ history'.sent \in {history.sent, history.sent \cup {c}}
    BY <1>1 DEF Register, Note, RuntimeInv, Fields
  <2>2. QED
    BY <2>1, CallsAreNotReserved DEF SentInv, BackendSeesOnlyItsOwn, Reserved
<1>2. CASE \/ Acquire(c) \/ EnsureReuses(c) \/ EnsureSpawns(c) \/ EnsureFails(c)
           \/ CloneSlot(c) \/ RefreshAfterSpawn(c) \/ AdmitRow(c) \/ BindRow(c)
  <2>1. UNCHANGED <<loop, history>>
    BY <1>2 DEF Acquire, EnsureReuses, EnsureSpawns, EnsureFails, CloneSlot,
       RefreshAfterSpawn, AdmitRow, BindRow
  <2>2. QED
    BY <2>1, SilentKeepsSent DEF SendsNothing
<1>3. CASE \/ Deliver(c) \/ TimeOut(c) \/ RemoveRow(c) \/ DetectFailure(c) \/ EmptySlot(c)
           \/ Respond(c) \/ Finish(c) \/ Answer(c)
  <2>1. UNCHANGED <<loop, history>>
    BY <1>3 DEF Deliver, TimeOut, RemoveRow, DetectFailure, EmptySlot, Respond, Finish, Answer
  <2>2. QED
    BY <2>1, SilentKeepsSent DEF SendsNothing
<1>4. QED
  BY <1>1, <1>2, <1>3 DEF CallStep

LEMMA ReadsSend ==
    ASSUME RuntimeInv, SentInv, ReadStep
    PROVE  SentInv'
<1>1. ASSUME NEW l \in Lines, ReadHalf(l) \/ ReadCall(l) \/ ReadLocal(l)
      PROVE  SentInv'
  <2>1. UNCHANGED <<loop, history>>
    BY <1>1 DEF ReadHalf, ReadCall, ReadLocal
  <2>2. QED
    BY <2>1, SilentKeepsSent DEF SendsNothing
<1>2. ASSUME NEW l \in Lines, ReadControl(l)
      PROVE  SentInv'
  <2>1. loop'.at \in {"asking", "taking"} /\ UNCHANGED history
    BY <1>2 DEF ReadControl, Asking
  <2>2. QED
    BY <2>1, SilentKeepsSent DEF SendsNothing, OnItsWay
<1>3. ASSUME NEW l \in Lines, ReadNotification(l)
      PROVE  SentInv'
  <2>1. UNCHANGED history /\ (loop'.at = "select" \/ (loop'.line = l /\ ~Dropped[l]))
    BY <1>3 DEF ReadNotification, Select
  <2>2. ~Dropped[l] => ~Reserved(l)
    BY <1>3, InitializedIsDropped DEF ReadNotification, Dropped, Reserved
  <2>3. loop'.at \in OnItsWay => ~Reserved(loop'.line)
    <3>1. loop'.at \in OnItsWay => loop'.line = l /\ ~Reserved(l)
      BY <2>1, <2>2 DEF OnItsWay
    <3>2. QED
      BY <3>1 DEF Reserved
  <2>4. QED
    BY <2>1, <2>3 DEF SentInv, BackendSeesOnlyItsOwn, Reserved
<1>4. ASSUME NEW l \in Lines, ReadResponse(l)
      PROVE  SentInv'
  <2>1. UNCHANGED history /\ (UNCHANGED loop \/ loop'.line = l) /\ ~Reserved(l)
    BY <1>4 DEF ReadResponse, Reserved
  <2>2. QED
    BY <2>1 DEF SentInv, BackendSeesOnlyItsOwn, Reserved
<1>5. CASE ReadEof
  <2>1. loop' = Top /\ UNCHANGED history
    BY <1>5 DEF ReadEof
  <2>2. QED
    BY <2>1, SilentKeepsSent DEF SendsNothing, OnItsWay, Top
<1>6. QED
  BY <1>1, <1>2, <1>3, <1>4, <1>5 DEF ReadStep

LEMMA HandlersSend ==
    ASSUME RuntimeInv, SentInv, HandlerStep
    PROVE  SentInv'
<1> USE ResumesNowhere DEF RuntimeInv, Fields
<1>1. CASE AnswerPeer \/ PassNotification \/ ClientProgress \/ CancelPeer
  <2>1. /\ loop.at \in OnItsWay /\ loop' = Resume
        /\ history'.sent \in {history.sent, history.sent \cup {loop.line}}
    BY <1>1 DEF AnswerPeer, PassNotification, ClientProgress, CancelPeer, Forwards, Note,
       OnItsWay
  <2>2. QED
    BY <2>1 DEF SentInv, BackendSeesOnlyItsOwn, Reserved
<1>2. CASE CancelRow \/ CancelPending
  <2>1. /\ loop.at \in OnItsWay /\ (loop' = Resume \/ loop'.line = loop.line)
        /\ history'.sent = history.sent
    <3>1. CASE CancelRow
      <4>1. loop' = Resume \/ loop'.line = loop.line
        BY <3>1 DEF CancelRow
      <4>2. loop.at \in OnItsWay /\ history'.sent = history.sent
        BY <3>1 DEF CancelRow, Note, OnItsWay
      <4>3. QED
        BY <4>1, <4>2
    <3>2. CASE CancelPending
      <4>1. loop' = Resume \/ loop'.line = loop.line
        BY <3>2 DEF CancelPending
      <4>2. loop.at \in OnItsWay /\ history'.sent = history.sent
        BY <3>2 DEF CancelPending, OnItsWay
      <4>3. QED
        BY <4>1, <4>2
    <3>3. QED
      BY <1>2, <3>1, <3>2
  <2>2. QED
    BY <2>1 DEF SentInv, BackendSeesOnlyItsOwn, Reserved
<1>3. CASE ControlTakes \/ ControlRefused \/ RestartFails \/ RefreshEnds
  <2>1. loop' = Resume \/ loop'.at = "spawning"
    BY <1>3 DEF ControlTakes, ControlRefused, RestartFails, RefreshEnds
  <2>2. history'.sent = history.sent
    BY <1>3 DEF ControlTakes, ControlRefused, RestartFails, RefreshEnds, Note
  <2>3. QED
    BY <2>1, <2>2, SilentKeepsSent DEF SendsNothing, OnItsWay
<1>4. CASE RestartSpawns \/ RefreshAnswered \/ CheckFirst \/ CheckSecond
  <2>1. loop'.at \in {"asking", "refreshing", "drain", "sleep", "exited"}
    BY <1>4 DEF RestartSpawns, RefreshAnswered, CheckFirst, CheckSecond, Exits, Asking, Sleep
  <2>2. history'.sent = history.sent
    BY <1>4 DEF RestartSpawns, RefreshAnswered, CheckFirst, CheckSecond, Exits, Note
  <2>3. QED
    BY <2>1, <2>2, SilentKeepsSent DEF SendsNothing, OnItsWay
<1>5. CASE TranslateCancel \/ DiscardCancelled
  <2>1. loop' = Resume \/ loop'.at = "translated"
    BY <1>5 DEF TranslateCancel, DiscardCancelled
  <2>2. history'.sent = history.sent
    BY <1>5 DEF TranslateCancel, DiscardCancelled, Note
  <2>3. QED
    BY <2>1, <2>2, SilentKeepsSent DEF SendsNothing, OnItsWay
<1>6. QED
  BY <1>1, <1>2, <1>3, <1>4, <1>5 DEF HandlerStep

LEMMA OthersSend ==
    ASSUME RuntimeInv, SentInv,
           \/ \E g \in Gens : ProcessStep(g)
           \/ \E e \in Emits : JobEnds(e)
           \/ ReaperStep \/ EventStep \/ WriteStep \/ Break \/ UNCHANGED vars
    PROVE  SentInv'
<1> USE ResumesNowhere DEF RuntimeInv, Fields, SendsNothing
<1>1. CASE (\E g \in Gens : ProcessStep(g)) \/ (\E e \in Emits : JobEnds(e))
  BY <1>1, SilentKeepsSent DEF ProcessStep, Emit, Die, SendExit, JobEnds
<1>2. CASE ReaperStep
  BY <1>2, SilentKeepsSent DEF ReaperStep, ReapDecide, ReapTake, Note
<1>3. CASE EventStep
  <2>1. ASSUME NEW e \in Emits, \/ TakeShown(e) \/ TakeUnmatched(e) \/ TakeListChanged(e)
                                \/ TakePeerRequest(e)
        PROVE  SendsNothing
    BY <2>1 DEF TakeShown, TakeUnmatched, TakeListChanged, TakePeerRequest, CutHalf
  <2>2. ASSUME NEW e \in Emits, TakeCancel(e)
        PROVE  SendsNothing
    <3>1. loop' = Resume \/ loop'.at = "translate"
      BY <2>2 DEF TakeCancel
    <3>2. QED
      BY <2>2, <3>1 DEF TakeCancel, CutHalf, OnItsWay
  <2>3. ASSUME TakeExit
        PROVE  SendsNothing
    BY <2>3 DEF TakeExit, CutHalf
  <2>4. QED
    BY <1>3, <2>1, <2>2, <2>3, SilentKeepsSent DEF EventStep
<1>4. CASE WriteStep
  BY <1>4, SilentKeepsSent DEF WriteStep, WriteOut, CutHalf
<1>5. CASE Break \/ UNCHANGED vars
  <2>1. UNCHANGED loop \/ loop'.at = "exited"
    BY <1>5 DEF Break, Exits, vars
  <2>2. UNCHANGED history
    BY <1>5 DEF Break, Exits, vars
  <2>3. QED
    BY <2>1, <2>2, SilentKeepsSent DEF OnItsWay
<1>6. QED
  BY <1>1, <1>2, <1>3, <1>4, <1>5

(* Nothing the wrapper answers itself reaches a backend, whatever lines the *)
(* client sends and in whatever state they find the loop: find_mount takes *)
(* the wrapper tool and the legacy prefix before tools/call and the rest,  *)
(* and no handler forwards a line that is not its own.                     *)
THEOREM BackendSeesItsOwn == Spec => []BackendSeesOnlyItsOwn
<1>1. RuntimeInv /\ SentInv /\ [Next]_vars => RuntimeInv' /\ SentInv'
  <2> SUFFICES ASSUME RuntimeInv, SentInv, [Next]_vars
               PROVE  SentInv'
    BY RuntimeStep
  <2>1. QED
    BY CallsSend, ReadsSend, HandlersSend, OthersSend DEF Next
<1>2. Init => RuntimeInv /\ SentInv
  BY RuntimeInit DEF Init, SentInv, BackendSeesOnlyItsOwn, Select, OnItsWay
<1>3. SentInv => BackendSeesOnlyItsOwn
  BY DEF SentInv
<1>4. QED
  BY <1>1, <1>2, <1>3, PTL DEF Spec

-----------------------------------------------------------------------------
(* Types.                                                                  *)

(* The loop answers the line it has in hand, and holds half a line at most. *)
LoopTypeOK ==
    /\ todo \subseteq Inputs /\ half \in Split \cup {None} /\ stdinClosed \in BOOLEAN
    /\ outq \subseteq Lines \cup {"notice"} /\ jobs \subseteq Emits
    /\ loop.at \in {"taking", "spawning", "asking", "refreshing"} => loop.line \in Lines

Outcomes == {"none", "ok", "timeout", "broken", "noBackend"}
ProcessTypeOK ==
    /\ \A c \in Calls : pc[c] \in AtProcess => gen[c] # None
    /\ gen \in [Calls -> Gens \cup {None}]
    /\ result \in [Calls -> Outcomes] /\ reply \in [Calls -> Outcomes]
    /\ slot \in Gens \cup {None} /\ spawned \in 0 .. MaxGens
    /\ alive \subseteq Gens /\ leaving \subseteq Gens
    /\ discarded \subseteq Calls /\ working \subseteq Calls

(* Most steps start no process and put no call at one.                     *)
StartsNothing ==
    /\ UNCHANGED <<gen, spawned>> /\ slot' \in {slot, None}
    /\ alive' \subseteq alive /\ leaving' \subseteq leaving \cup alive
    /\ discarded' \subseteq Calls /\ working' \subseteq Calls
    /\ result' \in [Calls -> Outcomes] /\ reply' \in [Calls -> Outcomes]
    /\ \A c \in Calls : pc'[c] \in AtProcess => pc[c] \in AtProcess

LEMMA StartsNothingKeeps == ASSUME ProcessTypeOK, StartsNothing PROVE ProcessTypeOK'
BY DEF ProcessTypeOK, StartsNothing, AtProcess, Gens, Outcomes

LEMMA CallsKeepProcessType ==
    ASSUME TaskInv, ProcessTypeOK, NEW c \in Calls, CallStep(c) \/ Answer(c)
    PROVE  ProcessTypeOK'
<1> USE DEF ProcessTypeOK, TaskInv, Goto
<1>1. CASE EnsureSpawns(c)
  <2>1. spawned + 1 \in Gens
    BY <1>1, NormalAssumption DEF EnsureSpawns, Installed, Gens
  <2>2. spawned' \in 0 .. MaxGens /\ slot' \in Gens
    BY <1>1, <2>1 DEF EnsureSpawns, Installed, Gens
  <2>3. QED
    BY <1>1, <2>1, <2>2 DEF EnsureSpawns, Installed, AtProcess
<1>2. CASE CloneSlot(c)
  <2>1. CASE slot = None
    BY <1>2, <2>1 DEF CloneSlot, AtProcess, Outcomes, backendVars, procVars
  <2>2. CASE slot # None
    BY <1>2, <2>2 DEF CloneSlot, AtProcess, backendVars, procVars
  <2>3. QED
    BY <2>1, <2>2
<1>3. CASE \/ Acquire(c) \/ EnsureReuses(c) \/ RefreshAfterSpawn(c) \/ AdmitRow(c)
           \/ BindRow(c) \/ RemoveRow(c) \/ DetectFailure(c) \/ Finish(c)
  <2>1. /\ UNCHANGED <<gen, result, reply, slot, spawned, alive, leaving, discarded, working>>
        /\ \A d \in Calls : pc'[d] \in AtProcess => pc[d] \in AtProcess
    BY <1>3 DEF Acquire, EnsureReuses, RefreshAfterSpawn, AdmitRow, BindRow, RemoveRow,
       DetectFailure, Finish, AtProcess, backendVars, procVars
  <2>2. QED
    BY <2>1, StartsNothingKeeps DEF StartsNothing
<1>4. CASE EnsureFails(c)
  BY <1>4, StartsNothingKeeps DEF EnsureFails, StartsNothing, AtProcess, Outcomes
<1>5. CASE Register(c)
  BY <1>5, StartsNothingKeeps DEF Register, StartsNothing, AtProcess, Outcomes, procVars
<1>6. CASE Deliver(c) \/ TimeOut(c)
  BY <1>6, StartsNothingKeeps DEF Deliver, TimeOut, StartsNothing, AtProcess, Outcomes,
     backendVars, procVars
<1>7. CASE EmptySlot(c)
  <2>1. result' \in [Calls -> Outcomes]
    BY <1>7 DEF EmptySlot, EmptiesSlot, Ended, Outcomes
  <2>2. \A d \in Calls : pc'[d] \in AtProcess => pc[d] \in AtProcess
    BY <1>7 DEF EmptySlot, EmptiesSlot, PcAfterEnd, AtProcess
  <2>3. QED
    BY <1>7, <2>1, <2>2, StartsNothingKeeps DEF EmptySlot, EmptiesSlot, Ended, StartsNothing
<1>8. CASE Respond(c)
  BY <1>8, StartsNothingKeeps DEF Respond, StartsNothing, AtProcess, backendVars, procVars
<1>9. CASE Answer(c)
  BY <1>9, StartsNothingKeeps DEF Answer, StartsNothing, AtProcess, procVars
<1>10. QED
  BY <1>1, <1>2, <1>3, <1>4, <1>5, <1>6, <1>7, <1>8, <1>9 DEF CallStep

(* The end of a process, and a discarded call.                             *)
LEMMA EndsStartNothing ==
    ASSUME ProcessTypeOK, NEW g, Ended(g), pc' = PcAfterEnd(g, pc),
           UNCHANGED <<gen, reply, spawned, discarded>>, slot' \in {slot, None}
    PROVE  StartsNothing
<1>1. result' \in [Calls -> Outcomes]
  BY DEF Ended, Outcomes, ProcessTypeOK
<1>2. \A d \in Calls : pc'[d] \in AtProcess => pc[d] \in AtProcess
  BY DEF PcAfterEnd, AtProcess
<1>3. QED
  BY <1>1, <1>2 DEF Ended, StartsNothing, ProcessTypeOK

LEMMA DiscardStartsNothing ==
    ASSUME ProcessTypeOK, NEW g, NEW b, Discard(g, b),
           UNCHANGED <<gen, reply, slot, spawned, alive, leaving, working>>
    PROVE  StartsNothing
<1>1. result' \in [Calls -> Outcomes] /\ discarded' \subseteq Calls
  BY DEF Discard, Outcomes, ProcessTypeOK
<1>2. \A d \in Calls : pc'[d] \in AtProcess => pc[d] \in AtProcess
  BY DEF Discard, AtProcess
<1>3. QED
  BY <1>1, <1>2 DEF StartsNothing, ProcessTypeOK

LEMMA OthersKeepProcessType ==
    ASSUME TaskInv, ProcessTypeOK, [Next]_vars, ~(\E c \in Calls : CallStep(c) \/ Answer(c))
    PROVE  ProcessTypeOK'
<1> USE StartsNothingKeeps DEF taskVars, backendVars, procVars
<1>1. ASSUME UNCHANGED <<pc, gen, result, reply, slot, spawned, leaving, discarded, working>>,
             alive' \subseteq alive
      PROVE  ProcessTypeOK'
  BY <1>1 DEF StartsNothing, ProcessTypeOK
<1>2. ASSUME NEW g \in Gens, ProcessStep(g)
      PROVE  ProcessTypeOK'
  <2>1. ASSUME NEW e \in Emits, Emit(e, g)
        PROVE  ProcessTypeOK'
    BY <1>1, <2>1 DEF Emit
  <2>2. CASE Die(g)
    BY <2>2, EndsStartNothing DEF Die
  <2>3. CASE SendExit(g)
    BY <2>3 DEF SendExit, StartsNothing, ProcessTypeOK
  <2>4. QED
    BY <1>2, <2>1, <2>2, <2>3 DEF ProcessStep
<1>3. ASSUME NEW e \in Emits, JobEnds(e)
      PROVE  ProcessTypeOK'
  BY <1>1, <1>3 DEF JobEnds
<1>4. CASE ReaperStep
  <2>1. CASE ReapDecide
    BY <1>1, <2>1 DEF ReapDecide
  <2>2. CASE ReapTake
    BY <2>2, EndsStartNothing DEF ReapTake, EmptiesSlot
  <2>3. QED
    BY <1>4, <2>1, <2>2 DEF ReaperStep
<1>5. CASE ReadStep
  <2>1. ASSUME NEW l \in Lines, ReadCall(l)
        PROVE  ProcessTypeOK'
    BY <2>1 DEF ReadCall, Goto, StartsNothing, ProcessTypeOK, TaskInv, AtProcess
  <2>2. ASSUME NEW l \in Lines,
               \/ ReadHalf(l) \/ ReadLocal(l) \/ ReadControl(l) \/ ReadNotification(l)
               \/ ReadResponse(l)
        PROVE  ProcessTypeOK'
    BY <1>1, <2>2 DEF ReadHalf, ReadLocal, ReadControl, ReadNotification, ReadResponse
  <2>3. ASSUME ReadEof
        PROVE  ProcessTypeOK'
    BY <1>1, <2>3 DEF ReadEof
  <2>4. QED
    BY <1>5, <2>1, <2>2, <2>3 DEF ReadStep
<1>6. CASE HandlerStep
  <2>1. CASE AnswerPeer \/ PassNotification \/ ClientProgress \/ CancelRow \/ CancelPeer
    BY <1>1, <2>1 DEF AnswerPeer, PassNotification, ClientProgress, CancelRow, CancelPeer
  <2>2. CASE CancelPending \/ DiscardCancelled
    BY <2>2, DiscardStartsNothing DEF CancelPending, DiscardCancelled
  <2>3. CASE ControlTakes
    BY <2>3, EndsStartNothing DEF ControlTakes, EmptiesSlot
  <2>4. CASE RestartSpawns
    <3>1. spawned + 1 \in Gens
      BY <2>4, NormalAssumption DEF RestartSpawns, Installed, Gens, ProcessTypeOK
    <3>2. spawned' \in 0 .. MaxGens /\ slot' \in Gens
      BY <2>4, <3>1 DEF RestartSpawns, Installed, Gens
    <3>3. QED
      BY <2>4, <3>1, <3>2 DEF RestartSpawns, Installed, ProcessTypeOK
  <2>5. CASE ControlRefused \/ RestartFails \/ RefreshAnswered \/ RefreshEnds \/ TranslateCancel
    BY <1>1, <2>5 DEF ControlRefused, RestartFails, RefreshAnswered, RefreshEnds,
       TranslateCancel
  <2>6. CASE CheckFirst \/ CheckSecond
    <3>1. UNCHANGED <<taskVars, slot, spawned, leaving, discarded, working>> /\ alive' \subseteq alive
      BY <2>6 DEF CheckFirst, CheckSecond, Exits
    <3>2. QED
      BY <1>1, <3>1
  <2>7. QED
    BY <1>6, <2>1, <2>2, <2>3, <2>4, <2>5, <2>6 DEF HandlerStep
<1>7. CASE EventStep \/ WriteStep
  <2>1. UNCHANGED <<taskVars, backendVars>>
    BY <1>7 DEF EventStep, WriteStep, TakeShown, TakeUnmatched, TakeListChanged,
       TakePeerRequest, TakeCancel, TakeExit, WriteOut
  <2>2. QED
    BY <1>1, <2>1
<1>8. CASE Break
  <2>1. UNCHANGED <<taskVars, slot, spawned, leaving, discarded, working>> /\ alive' \subseteq alive
    BY <1>8 DEF Break, Exits
  <2>2. QED
    BY <1>1, <2>1
<1>9. CASE UNCHANGED vars
  BY <1>1, <1>9 DEF vars
<1>10. QED
  BY <1>2, <1>3, <1>4, <1>5, <1>6, <1>7, <1>8, <1>9 DEF Next

LEMMA LineOfRead == ASSUME LoopTypeOK, NEW l \in Lines, Reads(l) PROVE todo' \subseteq Inputs
BY DEF LoopTypeOK, Reads, Comes

LEMMA StepKeepsLoopType == ASSUME LoopTypeOK, [Next]_vars PROVE LoopTypeOK'
<1> USE DEF LoopTypeOK, inVars
<1> DEFINE InHand == {"taking", "spawning", "asking", "refreshing"}
<1>0. Resume.at \notin InHand
  BY DEF Resume, Top, Select
<1>1. ASSUME UNCHANGED <<inVars, jobs>>, outq' \subseteq outq \cup Lines \cup {"notice"},
             UNCHANGED loop \/ loop'.at \notin InHand \/ loop'.line = loop.line
                \/ loop' = Resume,
             loop'.at \in InHand => loop.at \in InHand
      PROVE  LoopTypeOK'
  <2>1. loop'.at \in InHand => loop'.line = loop.line
    BY <1>0, <1>1
  <2>2. QED
    BY <1>1, <2>1
<1>2. ASSUME NEW c \in Calls, CallStep(c) \/ Answer(c)
      PROVE  LoopTypeOK'
  <2>1. CASE \/ Acquire(c) \/ EnsureReuses(c) \/ EnsureSpawns(c) \/ EnsureFails(c)
             \/ CloneSlot(c) \/ RefreshAfterSpawn(c) \/ AdmitRow(c) \/ BindRow(c)
    BY <1>1, <2>1 DEF Acquire, EnsureReuses, EnsureSpawns, EnsureFails, CloneSlot,
       RefreshAfterSpawn, AdmitRow, BindRow
  <2>2. CASE \/ Register(c) \/ Deliver(c) \/ TimeOut(c) \/ RemoveRow(c) \/ DetectFailure(c)
             \/ EmptySlot(c) \/ Finish(c) \/ Answer(c)
    BY <1>1, <2>2 DEF Register, Deliver, TimeOut, RemoveRow, DetectFailure, EmptySlot, Finish,
       Answer
  <2>3. CASE Respond(c)
    BY <1>1, <2>3 DEF Respond, Post, Calls
  <2>4. QED
    BY <1>2, <2>1, <2>2, <2>3 DEF CallStep
<1>3. ASSUME NEW g \in Gens, ProcessStep(g)
      PROVE  LoopTypeOK'
  BY <1>3 DEF ProcessStep, Emit, Die, SendExit, Comes
<1>4. ASSUME NEW e \in Emits, JobEnds(e)
      PROVE  LoopTypeOK'
  BY <1>4 DEF JobEnds, Post
<1>5. CASE ReaperStep
  BY <1>1, <1>5 DEF ReaperStep, ReapDecide, ReapTake
<1>6. CASE ReadStep
  <2>1. ASSUME NEW l \in Lines, ReadHalf(l)
        PROVE  LoopTypeOK'
    BY <2>1 DEF ReadHalf, Comes
  <2>2. ASSUME NEW l \in Lines, ReadCall(l) \/ ReadLocal(l)
        PROVE  LoopTypeOK'
    <3>1. todo' \subseteq Inputs /\ half' = None /\ UNCHANGED <<stdinClosed, loop, jobs>>
      BY <2>2, LineOfRead DEF ReadCall, ReadLocal, Reads
    <3>2. outq' \subseteq outq \cup Lines
      BY <2>2 DEF ReadCall, ReadLocal, Post
    <3>3. QED
      BY <3>1, <3>2
  <2>3. ASSUME NEW l \in Lines, ReadControl(l) \/ ReadNotification(l) \/ ReadResponse(l)
        PROVE  LoopTypeOK'
    <3>1. todo' \subseteq Inputs /\ half' = None /\ UNCHANGED <<stdinClosed, outq, jobs>>
      BY <2>3, LineOfRead DEF ReadControl, ReadNotification, ReadResponse, Reads
    <3>2. UNCHANGED loop \/ loop'.at = "select" \/ loop'.line = l
      <4>1. CASE ReadControl(l)
        BY <4>1 DEF ReadControl, Asking
      <4>2. CASE ReadNotification(l)
        BY <4>2 DEF ReadNotification, Select
      <4>3. CASE ReadResponse(l)
        BY <4>3 DEF ReadResponse
      <4>4. QED
        BY <2>3, <4>1, <4>2, <4>3
    <3>3. QED
      BY <3>1, <3>2
  <2>4. CASE ReadEof
    BY <2>4 DEF ReadEof, Comes, Top
  <2>5. QED
    BY <1>6, <2>1, <2>2, <2>3, <2>4 DEF ReadStep
<1>7. CASE HandlerStep
  <2>1. CASE AnswerPeer \/ PassNotification \/ ClientProgress \/ CancelPeer
    BY <1>0, <2>1 DEF AnswerPeer, PassNotification, ClientProgress, CancelPeer
  <2>2. CASE CancelRow \/ CancelPending
    <3>1. loop'.at \notin InHand
      <4>1. CASE CancelRow
        BY <1>0, <4>1 DEF CancelRow
      <4>2. CASE CancelPending
        BY <1>0, <4>2 DEF CancelPending
      <4>3. QED
        BY <2>2, <4>1, <4>2
    <3>2. UNCHANGED <<inVars, jobs, outq>>
      BY <2>2 DEF CancelRow, CancelPending
    <3>3. QED
      BY <3>1, <3>2
  <2>3. CASE ControlTakes \/ ControlRefused \/ RestartFails \/ RefreshEnds
    <3>1. UNCHANGED <<inVars, jobs>> /\ loop.at \in InHand
      BY <2>3 DEF ControlTakes, ControlRefused, RestartFails, RefreshEnds
    <3>2. outq' \subseteq outq \cup {loop.line}
      BY <2>3 DEF ControlTakes, ControlRefused, RestartFails, RefreshEnds, Post
    <3>3. loop' = Resume \/ loop'.line = loop.line
      BY <2>3 DEF ControlTakes, ControlRefused, RestartFails, RefreshEnds
    <3>4. loop.line \in Lines
      BY <3>1
    <3>5. QED
      BY <1>0, <3>1, <3>2, <3>3, <3>4
  <2>4. CASE RestartSpawns \/ RefreshAnswered
    <3>1. /\ UNCHANGED <<inVars, jobs, outq>>
          /\ loop.at \in InHand /\ loop'.line = loop.line
      BY <2>4 DEF RestartSpawns, RefreshAnswered, Asking
    <3>2. QED
      BY <3>1
  <2>5. CASE TranslateCancel \/ DiscardCancelled
    <3>1. loop'.at \notin InHand
      BY <1>0, <2>5 DEF TranslateCancel, DiscardCancelled
    <3>2. UNCHANGED <<inVars, jobs>> /\ outq' \subseteq outq \cup {"notice"}
      BY <2>5 DEF TranslateCancel, DiscardCancelled, Post
    <3>3. QED
      BY <3>1, <3>2
  <2>6. CASE CheckFirst \/ CheckSecond
    <3>1. loop'.at \in {"drain", "sleep", "exited"} /\ UNCHANGED <<inVars, jobs, outq>>
      BY <2>6 DEF CheckFirst, CheckSecond, Exits, Sleep
    <3>2. QED
      BY <3>1
  <2>7. QED
    BY <1>7, <2>1, <2>2, <2>3, <2>4, <2>5, <2>6 DEF HandlerStep
<1>8. CASE EventStep \/ WriteStep
  <2>1. UNCHANGED <<todo, stdinClosed>> /\ half' = None
    BY <1>8 DEF EventStep, WriteStep, TakeShown, TakeUnmatched, TakeListChanged,
       TakePeerRequest, TakeCancel, TakeExit, WriteOut, CutHalf
  <2>2. outq' \subseteq outq \cup {"notice"} /\ jobs' \subseteq jobs \cup Emits
    BY <1>8 DEF EventStep, WriteStep, TakeShown, TakeUnmatched, TakeListChanged,
       TakePeerRequest, TakeCancel, TakeExit, WriteOut, Post
  <2>3. loop' = Resume \/ loop'.at = "translate"
    <3>1. ASSUME NEW e \in Emits, TakeCancel(e)
          PROVE  loop' = Resume \/ loop'.at = "translate"
      BY <3>1 DEF TakeCancel
    <3>2. QED
      BY <1>8, <3>1 DEF EventStep, WriteStep, TakeShown, TakeUnmatched, TakeListChanged,
         TakePeerRequest, TakeExit, WriteOut
  <2>4. QED
    BY <1>0, <2>1, <2>2, <2>3
<1>9. CASE Break
  <2>1. /\ todo' \subseteq todo /\ loop'.at = "exited"
        /\ UNCHANGED <<half, stdinClosed, outq, jobs>>
    BY <1>9 DEF Break, Comes, Exits
  <2>2. QED
    BY <2>1
<1>10. CASE UNCHANGED vars
  BY <1>10 DEF vars
<1>11. QED
  BY <1>2, <1>3, <1>4, <1>5, <1>6, <1>7, <1>8, <1>9, <1>10 DEF Next

(* In normal mode everything keeps its type, the index and the tables of    *)
(* the calls included, and a call that has gone past the slot has a         *)
(* process in hand.                                                        *)
THEOREM NormalWellTyped == Spec => []NormalTypeOK
<1> DEFINE Inv == ServiceInv /\ ProcessTypeOK /\ LoopTypeOK
<1>1. Inv /\ [Next]_vars => Inv'
  <2> SUFFICES ASSUME Inv, [Next]_vars
               PROVE  ProcessTypeOK'
    BY StepServes, StepKeepsLoopType
  <2>1. TaskInv
    BY DEF ServiceInv, Own, CallsInv
  <2>2. QED
    BY <2>1, CallsKeepProcessType, OthersKeepProcessType
<1>2. Init => Inv
  <2> SUFFICES ASSUME Init
               PROVE  ProcessTypeOK /\ LoopTypeOK
    BY InitServes
  <2>1. ProcessTypeOK
    BY NormalAssumption DEF Init, ProcessTypeOK, AtProcess, Outcomes
  <2>2. LoopTypeOK
    BY NormalAssumption DEF Init, LoopTypeOK, Select
  <2>3. QED
    BY <2>1, <2>2
<1>3. Inv => NormalTypeOK
  <2> SUFFICES ASSUME Inv
               PROVE  NormalTypeOK
    OBVIOUS
  <2>1. LifetimeTypeOK /\ TaskInv
    BY DEF ServiceInv, LifetimeInv, Own, CallsInv
  <2>2. Labels = AtProcess \cup {"unsent", "queued", "ensuring", "ensured", "respawned",
                                 "returned", "removed", "failed", "reporting", "replied", "done"}
    BY DEF Labels, Holding, AtProcess
  <2>3. alive \cup leaving \subseteq Gens /\ discarded \cup working \subseteq Calls
    BY DEF ProcessTypeOK
  <2>4. QED
    BY <2>1, <2>2, <2>3 DEF ProcessTypeOK, LoopTypeOK, TaskInv, Outcomes, NormalTypeOK
<1>4. QED
  BY <1>1, <1>2, <1>3, PTL DEF Spec
=============================================================================
