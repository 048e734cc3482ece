---------------------------- MODULE BrokerCallsProofs ----------------------------
(***************************************************************************)
(* The broker's calls use the request lifetime index as it is meant to be  *)
(* used, for any number of calls, sessions, ids and processes: although    *)
(* each process numbers its requests from one, an id is never bound while  *)
(* another row has it, because only the holder of pass_through_lock has a  *)
(* bound row and no way out of a call leaves that row behind.              *)
(***************************************************************************)
EXTENDS BrokerCalls, RequestLifetimeProofs

Labels == Holding \cup {"unsent", "queued", "done"}
Numbered == {"checked", "bound", "writing", "disowned", "waiting", "delivering"}
AtRow == {"bound", "writing", "disowned", "waiting", "delivering", "returned"}
Rowless == {"unsent", "done"} \cup Answering

TaskInv ==
    /\ pc \in [Calls -> Labels]
    /\ id \in [Calls -> BackendIds \cup {None}]
    /\ lock \in Calls \cup {None}
    /\ \A c \in Calls : pc[c] \in Numbered => id[c] \in BackendIds

(* The lock is held by the one call that is between taking and dropping it. *)
LockInv == \A c \in Calls : pc[c] \in Holding <=> lock = c

BrokerInv == LifetimeInv /\ TaskInv /\ LockInv /\ OneBoundRow

(* A step that leaves the rows, the ids and the lock alone and moves calls  *)
(* only within the stretches of code the invariant tells apart.            *)
QuietStep ==
    /\ UNCHANGED <<lifetimeVars, id, lock>>
    /\ pc' \in [Calls -> Labels]
    /\ \A c \in Calls :
         /\ pc'[c] \in Holding <=> pc[c] \in Holding
         /\ pc[c] \in AtRow => pc'[c] \in AtRow
         /\ pc'[c] \in Numbered => pc[c] \in Numbered
         /\ pc'[c] \in Rowless => pc[c] \in Rowless

USE DEF Labels, Numbered, AtRow, Holding, Answering, Rowless

LEMMA QuietKeepsInv == ASSUME BrokerInv, QuietStep PROVE BrokerInv'
<1> USE BrokerAssumption
<1>1. LifetimeInv'
  BY NextKeepsInv DEF BrokerInv, QuietStep, lifetimeVars
<1>2. TaskInv' /\ LockInv'
  BY DEF BrokerInv, TaskInv, LockInv, QuietStep
<1>3. OneBoundRow'
  <2> SUFFICES ASSUME NEW k \in Keys, IsBound(k)'
               PROVE  /\ lock' # None /\ Key(lock)' = k /\ backendOf'[k] = id'[lock']
                      /\ pc'[lock'] \in AtRow
    BY DEF OneBoundRow
  <2>1. IsBound(k)
    BY DEF QuietStep, lifetimeVars, IsBound
  <2>2. lock # None /\ Key(lock) = k /\ backendOf[k] = id[lock] /\ pc[lock] \in AtRow
    BY <2>1 DEF BrokerInv, OneBoundRow
  <2>3. lock \in Calls
    BY <2>2 DEF BrokerInv, TaskInv
  <2>4. QED
    BY <2>2, <2>3 DEF QuietStep, lifetimeVars, Key
<1>4. QED
  BY <1>1, <1>2, <1>3 DEF BrokerInv

LEMMA TaskIsQuiet ==
    ASSUME BrokerInv, NEW c \in Calls,
           \/ EnsureReuses(c) \/ EnsureSpawns(c) \/ RefreshAfterSpawn(c) \/ EnsureFails(c)
           \/ CloneSlot(c) \/ Register(c) \/ Write(c) \/ Deliver(c) \/ TimeOut(c)
           \/ DetectFailure(c) \/ EmptySlot(c)
    PROVE  QuietStep
<1> USE DEF BrokerInv, TaskInv, QuietStep, Goto
<1>1. CASE EnsureReuses(c)
  BY <1>1 DEF EnsureReuses
<1>2. CASE EnsureSpawns(c)
  BY <1>2 DEF EnsureSpawns
<1>3. CASE RefreshAfterSpawn(c)
  BY <1>3 DEF RefreshAfterSpawn
<1>4. CASE EnsureFails(c)
  BY <1>4 DEF EnsureFails
<1>5. CASE CloneSlot(c)
  BY <1>5 DEF CloneSlot
<1>6. CASE Register(c)
  BY <1>6 DEF Register
<1>7. CASE Deliver(c)
  BY <1>7 DEF Deliver
<1>8. CASE TimeOut(c)
  BY <1>8 DEF TimeOut
<1>9. CASE DetectFailure(c)
  BY <1>9 DEF DetectFailure
<1>10. CASE EmptySlot(c)
  BY <1>10 DEF EmptySlot, PcAfterEnd, HeldBy
<1>11. CASE Write(c)
  BY <1>11 DEF Write
<1>12. QED
  BY <1>1, <1>2, <1>3, <1>4, <1>5, <1>6, <1>7, <1>8, <1>9, <1>10, <1>11

LEMMA BackendIsQuiet == ASSUME BrokerInv, BackendStep PROVE QuietStep
<1> USE DEF BrokerInv, TaskInv, QuietStep
<1>1. CASE \E c \in Calls : Answer(c)
  BY <1>1 DEF Answer, Goto
<1>2. CASE \E e \in Emits : Emit(e[1], e[2])
  BY <1>2 DEF Emit, taskVars
<1>3. CASE \E g \in Gens : Exit(g)
  BY <1>3 DEF Exit, PcAfterEnd, HeldBy
<1>4. CASE \E g \in Gens : Jam(g) \/ Drain(g)
  BY <1>4 DEF Jam, Drain, taskVars
<1>5. QED
  BY <1>1, <1>2, <1>3, <1>4 DEF BackendStep

LEMMA FanIsQuiet ==
    ASSUME BrokerInv, TakeProgress \/ TakeCancel \/ DiscardCancelled
    PROVE  QuietStep
<1> USE DEF BrokerInv, TaskInv, QuietStep
<1>1. CASE TakeProgress \/ TakeCancel
  BY <1>1 DEF TakeProgress, TakeCancel, taskVars
<1>2. CASE DiscardCancelled
  BY <1>2 DEF DiscardCancelled, Discard, AfterDiscard, WaitsFor
<1>3. QED
  BY <1>1, <1>2

LEMMA LoopIsQuiet ==
    ASSUME BrokerInv, NEW s \in Sessions,
           \/ CancelPending(s) \/ TellBackend(s) \/ ControlRefused(s) \/ ControlTakes(s)
           \/ RestartSpawns(s) \/ RestartRefreshes(s) \/ CheckClosed(s)
           \/ \E message \in Messages : WriteOut(s, message)
    PROVE  QuietStep
<1> USE DEF BrokerInv, TaskInv, QuietStep
<1>1. CASE CancelPending(s)
  BY <1>1 DEF CancelPending, Discard, AfterDiscard, WaitsFor
<1>2. CASE ControlTakes(s)
  BY <1>2 DEF ControlTakes, PcAfterEnd, HeldBy
<1>3. CASE \/ TellBackend(s) \/ ControlRefused(s) \/ RestartSpawns(s) \/ RestartRefreshes(s)
           \/ CheckClosed(s)
  BY <1>3 DEF TellBackend, ControlRefused, RestartSpawns, RestartRefreshes, CheckClosed, taskVars
<1>4. CASE \E message \in Messages : WriteOut(s, message)
  BY <1>4 DEF WriteOut, taskVars
<1>5. QED
  BY <1>1, <1>2, <1>3, <1>4

LEMMA ClientIsQuiet ==
    ASSUME BrokerInv,
           \/ \E c \in Calls : Request(c) /\ HasRow(Key(c))
           \/ \E k \in Keys : CancelLine(k)
           \/ \E s \in Sessions, command \in Commands : ControlLine(s, command)
           \/ \E s \in Sessions : HalfClose(s) \/ Break(s)
    PROVE  QuietStep
<1> USE DEF BrokerInv, TaskInv, QuietStep
<1>1. CASE \E c \in Calls : Request(c) /\ HasRow(Key(c))
  BY <1>1 DEF Request, Admit, Goto
<1>2. CASE \E k \in Keys : CancelLine(k)
  BY <1>2 DEF CancelLine, taskVars
<1>3. CASE \E s \in Sessions, command \in Commands : ControlLine(s, command)
  BY <1>3 DEF ControlLine, taskVars
<1>4. CASE \E s \in Sessions : HalfClose(s) \/ Break(s)
  BY <1>4 DEF HalfClose, Break, taskVars
<1>5. QED
  BY <1>1, <1>2, <1>3, <1>4

(* No row is bound while the lock is free or its holder is not at its row.  *)
LEMMA NothingBound ==
    ASSUME BrokerInv, lock # None => pc[lock] \notin AtRow
    PROVE  \A k \in Keys : ~IsBound(k)
  BY DEF BrokerInv, OneBoundRow

LEMMA AcquireKeepsInv == ASSUME BrokerInv, NEW c \in Calls, Acquire(c) PROVE BrokerInv'
<1> USE BrokerAssumption
<1>1. \A k \in Keys : ~IsBound(k)
  BY NothingBound DEF Acquire
<1>2. OneBoundRow'
  BY <1>1 DEF OneBoundRow, Acquire, IsBound, lifetimeVars
<1>3. LifetimeInv'
  BY NextKeepsInv DEF BrokerInv, Acquire
<1>4. TaskInv' /\ LockInv'
  BY DEF BrokerInv, TaskInv, LockInv, Acquire, Goto
<1>5. QED
  BY <1>2, <1>3, <1>4 DEF BrokerInv

LEMMA LeaveKeepsInv ==
    ASSUME BrokerInv, NEW c \in Calls, pc[c] \in {"cloned", "removed", "reporting"},
           Leave(c), UNCHANGED <<lifetimeVars, id>>
    PROVE  BrokerInv'
<1> USE BrokerAssumption
<1>1. lock = c
  BY DEF BrokerInv, LockInv
<1>2. \A k \in Keys : ~IsBound(k)
  BY <1>1, NothingBound
<1>3. OneBoundRow'
  BY <1>2 DEF OneBoundRow, IsBound, lifetimeVars
<1>4. LifetimeInv'
  BY NextKeepsInv DEF BrokerInv
<1>5. TaskInv' /\ LockInv'
  BY <1>1 DEF BrokerInv, TaskInv, LockInv, Leave, Goto
<1>6. QED
  BY <1>3, <1>4, <1>5 DEF BrokerInv

LEMMA CheckKeepsInv == ASSUME BrokerInv, NEW c \in Calls, CheckRow(c) PROVE BrokerInv'
<1> USE BrokerAssumption
<1>1. CASE Leave(c) /\ UNCHANGED id
  BY <1>1, LeaveKeepsInv DEF CheckRow
<1>2. CASE id' = [id EXCEPT ![c] = NextId(gen[c])] /\ NextId(gen[c]) \in BackendIds
           /\ Goto(c, "checked") /\ UNCHANGED lock
  <2>1. lock = c
    BY DEF BrokerInv, LockInv, CheckRow
  <2>2. \A k \in Keys : ~IsBound(k)
    BY <2>1, NothingBound DEF CheckRow
  <2>3. OneBoundRow'
    BY <2>2 DEF OneBoundRow, IsBound, CheckRow, lifetimeVars
  <2>4. LifetimeInv'
    BY NextKeepsInv DEF BrokerInv, CheckRow
  <2>5. TaskInv' /\ LockInv'
    BY <1>2, <2>1 DEF BrokerInv, TaskInv, LockInv, CheckRow, Goto
  <2>6. QED
    BY <2>3, <2>4, <2>5 DEF BrokerInv
<1>3. QED
  BY <1>1, <1>2 DEF CheckRow

(* The key step: when a call binds its id no row has any, so the id is new. *)
LEMMA BindIsFresh ==
    ASSUME BrokerInv, NEW c \in Calls, pc[c] = "checked"
    PROVE  /\ lock = c /\ Key(c) \in Keys /\ id[c] \in BackendIds /\ Fresh(id[c])
           /\ \A k \in Keys : ~IsBound(k)
<1>1. lock = c /\ id[c] \in BackendIds
  BY DEF BrokerInv, LockInv, TaskInv
<1>2. \A k \in Keys : ~IsBound(k)
  BY <1>1, NothingBound
<1>3. QED
  BY <1>1, <1>2, BrokerAssumption DEF Fresh, IsBound, Key, Keys

LEMMA BindKeepsBrokerInv == ASSUME BrokerInv, NEW c \in Calls, BindRow(c) PROVE BrokerInv'
<1> USE BrokerAssumption
<1>1. /\ lock = c /\ Key(c) \in Keys /\ id[c] \in BackendIds /\ Fresh(id[c])
      /\ \A k \in Keys : ~IsBound(k)
  BY BindIsFresh DEF BindRow
<1>2. LifetimeInv'
  BY <1>1, BindKeepsInv DEF BrokerInv, BindRow
<1>3. TaskInv' /\ LockInv'
  BY <1>1 DEF BrokerInv, TaskInv, LockInv, BindRow, Goto
<1>4. \A k \in Keys : IsBound(k)' => k = Key(c) /\ backendOf'[k] = id[c]
  BY <1>1 DEF BindRow, Bind, IsBound, lifetimeVars, BrokerInv, LifetimeInv, LifetimeTypeOK
<1>5. lock' = c /\ id' = id /\ pc'[c] = "bound"
  BY <1>1 DEF BindRow, Goto, BrokerInv, TaskInv
<1>6. OneBoundRow'
  BY <1>4, <1>5 DEF OneBoundRow, Key
<1>7. QED
  BY <1>2, <1>3, <1>6 DEF BrokerInv

(* Rows only go away: what is still bound is bound as before.              *)
OnlyUnbinds == \A k \in Keys : IsBound(k)' => IsBound(k) /\ backendOf'[k] = backendOf[k]

LEMMA RemoveUnbinds ==
    ASSUME BrokerInv, NEW k \in Keys, Remove(k)
    PROVE  OnlyUnbinds /\ ~IsBound(k)'
  BY SentinelAssumption DEF Remove, DropRow, OnlyUnbinds, IsBound, HasRow, lifetimeVars,
     BrokerInv, LifetimeInv, LifetimeTypeOK

LEMMA RemoveRowKeepsInv == ASSUME BrokerInv, NEW c \in Calls, RemoveRow(c) PROVE BrokerInv'
<1> USE BrokerAssumption
<1>1. Key(c) \in Keys /\ Remove(Key(c)) /\ lock = c
  BY DEF Key, Keys, RemoveRow, BrokerInv, LockInv
<1>2. LifetimeInv'
  BY <1>1, RemoveKeepsInv DEF BrokerInv
<1>3. TaskInv' /\ LockInv'
  BY <1>1 DEF BrokerInv, TaskInv, LockInv, RemoveRow, Goto
<1>4. \A k \in Keys : ~IsBound(k)'
  BY <1>1, RemoveUnbinds DEF OnlyUnbinds, BrokerInv, OneBoundRow
<1>5. QED
  BY <1>2, <1>3, <1>4 DEF BrokerInv, OneBoundRow

LEMMA UnbindKeepsInv ==
    ASSUME BrokerInv, LifetimeInv', OnlyUnbinds, UNCHANGED taskVars
    PROVE  BrokerInv'
<1>1. TaskInv' /\ LockInv'
  BY DEF BrokerInv, TaskInv, LockInv, taskVars
<1>2. OneBoundRow'
  BY DEF BrokerInv, OneBoundRow, OnlyUnbinds, taskVars, Key
<1>3. QED
  BY <1>1, <1>2 DEF BrokerInv

LEMMA CancelRowKeepsInv ==
    ASSUME BrokerInv, NEW k \in Keys, Remove(k), UNCHANGED taskVars
    PROVE  BrokerInv'
  BY RemoveKeepsInv, RemoveUnbinds, UnbindKeepsInv DEF BrokerInv

LEMMA TranslateKeepsInv ==
    ASSUME BrokerInv, NEW b \in BackendIds, RemoveByBackend(b), UNCHANGED taskVars
    PROVE  BrokerInv'
<1>1. LifetimeInv'
  BY RemoveByBackendKeepsInv DEF BrokerInv
<1>2. OnlyUnbinds
  BY SentinelAssumption DEF RemoveByBackend, NamesRow, OnlyUnbinds, IsBound, BrokerInv, LifetimeInv,
     LifetimeTypeOK
<1>3. QED
  BY <1>1, <1>2, UnbindKeepsInv

LEMMA AdmitKeepsBrokerInv ==
    ASSUME BrokerInv, NEW c \in Calls, Admit(Key(c), TokenOf[c]), Goto(c, "queued"),
           pc[c] = "unsent", UNCHANGED <<id, lock>>
    PROVE  BrokerInv'
<1> USE BrokerAssumption
<1>1. Key(c) \in Keys /\ TokenOf[c] \in Tokens \cup {None}
  BY DEF Key, Keys
<1>2. LifetimeInv'
  BY <1>1, AdmitKeepsInv DEF BrokerInv
<1>3. TaskInv' /\ LockInv'
  BY DEF BrokerInv, TaskInv, LockInv, Goto
<1>4. OnlyUnbinds
  BY <1>1, SentinelAssumption DEF Admit, OnlyUnbinds, IsBound, BrokerInv, LifetimeInv,
     LifetimeTypeOK
<1>5. OneBoundRow'
  BY <1>4 DEF OnlyUnbinds, BrokerInv, OneBoundRow, LockInv, TaskInv, Goto, Key
<1>6. QED
  BY <1>2, <1>3, <1>5 DEF BrokerInv

(* A client's cancellation that reaches a peer request takes no client row. *)
LEMMA PeerOnlyKeepsInv ==
    ASSUME BrokerInv, LifetimeInv', UNCHANGED clientVars, UNCHANGED taskVars
    PROVE  BrokerInv'
<1>1. OnlyUnbinds
  BY DEF OnlyUnbinds, IsBound, clientVars
<1>2. QED
  BY <1>1, UnbindKeepsInv

(* A session loop that cancels has a key in hand.                          *)
LoopInv ==
    /\ loop = [s \in Sessions |-> loop[s]]
    /\ \A s \in Sessions :
         loop[s].at \in {"cancelling", "discarding", "unmatched"} => loop[s].key \in Keys

LEMMA CancelPeerKeepsInv ==
    ASSUME BrokerInv, LoopInv, NEW s \in Sessions, CancelPeer(s)
    PROVE  BrokerInv'
<1>1. loop[s].key \in Keys
  BY DEF CancelPeer, LoopInv
<1>2. CASE TakePeer(loop[s].key)
  BY <1>1, <1>2, TakePeerKeepsInv, PeerOnlyKeepsInv DEF BrokerInv, TakePeer, CancelPeer
<1>3. CASE UNCHANGED lifetimeVars
  BY <1>3, NextKeepsInv, PeerOnlyKeepsInv DEF BrokerInv, CancelPeer, lifetimeVars, clientVars
<1>4. QED
  BY <1>2, <1>3 DEF CancelPeer

LEMMA LoopKeepsInv == LoopInv /\ [Next]_vars => LoopInv'
<1> SUFFICES ASSUME LoopInv, [Next]_vars PROVE LoopInv'
  OBVIOUS
<1> USE DEF LoopInv, Continue
<1>1. ASSUME NEW s \in Sessions, LoopStep(s)
      PROVE  LoopInv'
  <2>1. CASE \/ CancelRow(s) \/ CancelPending(s) \/ CancelPeer(s) \/ TellBackend(s)
             \/ ControlRefused(s)
    BY <2>1 DEF CancelRow, CancelPending, CancelPeer, TellBackend, Telling, ControlRefused, Ready
  <2>2. CASE ControlTakes(s) \/ RestartSpawns(s) \/ RestartRefreshes(s)
    BY <2>2 DEF ControlTakes, RestartSpawns, RestartRefreshes, Ready
  <2>3. CASE CheckClosed(s) \/ \E message \in Messages : WriteOut(s, message)
    BY <2>3 DEF CheckClosed, WriteOut, Ready, Top
  <2>4. QED
    BY <1>1, <2>1, <2>2, <2>3 DEF LoopStep
<1>2. ASSUME NEW k \in Keys, CancelLine(k)
      PROVE  LoopInv'
  BY <1>2 DEF CancelLine, Keys
<1>3. ASSUME NEW s \in Sessions, NEW command \in Commands, ControlLine(s, command)
      PROVE  LoopInv'
  BY <1>3 DEF ControlLine
<1>4. CASE UNCHANGED loop
  BY <1>4
<1>5. ASSUME NEW c \in Calls, TaskStep(c)
      PROVE  UNCHANGED loop
  BY <1>5 DEF TaskStep, Acquire, EnsureReuses, EnsureSpawns, EnsureFails, RefreshAfterSpawn,
     CloneSlot, CheckRow, BindRow, Register, Write, Deliver, TimeOut, RemoveRow, Respond, Abandon,
     DetectFailure, EmptySlot, Report, sessionVars
<1>6. ASSUME FanStep \/ BackendStep
      PROVE  UNCHANGED loop
  BY <1>6 DEF FanStep, TakeProgress, TakeCancel, TranslateCancel, DiscardCancelled,
     BackendStep, Answer, Emit, Exit, Jam, Drain, sessionVars
<1>7. ASSUME \/ \E c \in Calls : Request(c)
             \/ \E s \in Sessions : Break(s)
             \/ UNCHANGED vars
      PROVE  UNCHANGED loop
  BY <1>7 DEF Request, Break, vars, sessionVars
<1>8. ASSUME NEW s \in Sessions, HalfClose(s)
      PROVE  LoopInv'
  BY <1>8 DEF HalfClose, Top
<1>9. QED
  BY <1>1, <1>2, <1>3, <1>4, <1>5, <1>6, <1>7, <1>8, BrokerAssumption DEF Next, ClientStep

(* What a step does to the rows is one operation of the index.              *)
LEMMA StepRefines ==
    ASSUME BrokerInv, LoopInv, [Next]_vars
    PROVE  [LifetimeNext]_lifetimeVars
<1> USE BrokerAssumption
<1>1. ASSUME NEW c \in Calls, TaskStep(c)
      PROVE  [LifetimeNext]_lifetimeVars
  <2> Key(c) \in Keys
    BY DEF Key, Keys
  <2>1. CASE BindRow(c)
    BY <2>1, BindIsFresh DEF BindRow, LifetimeNext
  <2>2. CASE RemoveRow(c)
    BY <2>2 DEF RemoveRow, LifetimeNext
  <2>3. CASE UNCHANGED lifetimeVars
    BY <2>3
  <2>4. QED
    BY <1>1, <2>1, <2>2, <2>3 DEF TaskStep, Acquire, EnsureReuses, EnsureSpawns, EnsureFails,
       RefreshAfterSpawn, CloneSlot, CheckRow, Register, Write, Deliver, TimeOut, Respond, Abandon,
       DetectFailure, EmptySlot, Report
<1>2. ASSUME NEW c \in Calls, Request(c)
      PROVE  [LifetimeNext]_lifetimeVars
  <2> Key(c) \in Keys /\ TokenOf[c] \in Tokens \cup {None}
    BY DEF Key, Keys
  <2> QED
    BY <1>2 DEF Request, LifetimeNext
<1>3. ASSUME NEW s \in Sessions, CancelRow(s)
      PROVE  [LifetimeNext]_lifetimeVars
  BY <1>3 DEF CancelRow, LifetimeNext, LoopInv
<1>4. CASE TranslateCancel
  BY <1>4 DEF TranslateCancel, NamesRow, RemoveByBackend, LifetimeNext
<1>5. ASSUME \/ TakeProgress \/ TakeCancel \/ DiscardCancelled \/ BackendStep
             \/ UNCHANGED vars
      PROVE  UNCHANGED lifetimeVars
  BY <1>5 DEF TakeProgress, TakeCancel, DiscardCancelled, BackendStep, Answer, Emit, Exit, Jam, Drain,
     vars
<1>6. ASSUME NEW s \in Sessions,
             \/ CancelPending(s) \/ TellBackend(s) \/ ControlRefused(s) \/ ControlTakes(s)
             \/ RestartSpawns(s) \/ RestartRefreshes(s) \/ CheckClosed(s)
             \/ \E message \in Messages : WriteOut(s, message)
      PROVE  UNCHANGED lifetimeVars
  BY <1>6 DEF CancelPending, TellBackend, ControlRefused, ControlTakes, RestartSpawns,
     RestartRefreshes, CheckClosed, WriteOut
<1>7. ASSUME \/ \E k \in Keys : CancelLine(k)
             \/ \E s \in Sessions, command \in Commands : ControlLine(s, command)
             \/ \E s \in Sessions : HalfClose(s) \/ Break(s)
      PROVE  UNCHANGED lifetimeVars
  BY <1>7 DEF CancelLine, ControlLine, HalfClose, Break
<1>8. ASSUME NEW s \in Sessions, CancelPeer(s)
      PROVE  [LifetimeNext]_lifetimeVars
  BY <1>8 DEF CancelPeer, LifetimeNext, LoopInv
<1>9. QED
  BY <1>1, <1>2, <1>3, <1>4, <1>5, <1>6, <1>7, <1>8 DEF Next, FanStep, LoopStep, ClientStep

LEMMA StepKeepsInv ==
    ASSUME BrokerInv, LoopInv, [Next]_vars
    PROVE  BrokerInv'
<1>1. ASSUME NEW c \in Calls, TaskStep(c)
      PROVE  BrokerInv'
  <2>1. CASE Acquire(c) \/ CheckRow(c) \/ BindRow(c) \/ RemoveRow(c)
    BY <2>1, AcquireKeepsInv, CheckKeepsInv, BindKeepsBrokerInv, RemoveRowKeepsInv
  <2>2. CASE Respond(c) \/ Abandon(c) \/ Report(c)
    BY <2>2, LeaveKeepsInv DEF Respond, Abandon, Report
  <2>3. QED
    BY <1>1, <2>1, <2>2, TaskIsQuiet, QuietKeepsInv DEF TaskStep
<1>2. ASSUME NEW c \in Calls, Request(c)
      PROVE  BrokerInv'
  <2>1. CASE HasRow(Key(c))
    BY <1>2, <2>1, ClientIsQuiet, QuietKeepsInv
  <2>2. CASE ~HasRow(Key(c))
    BY <1>2, <2>2, AdmitKeepsBrokerInv DEF Request
  <2>3. QED
    BY <2>1, <2>2
<1>3. ASSUME NEW s \in Sessions, CancelRow(s)
      PROVE  BrokerInv'
  BY <1>3, CancelRowKeepsInv DEF CancelRow, LoopInv
<1>4. CASE TranslateCancel
  <2>1. CASE UNCHANGED <<lifetimeVars, taskVars>>
    BY <2>1, UnbindKeepsInv, NextKeepsInv DEF BrokerInv, OnlyUnbinds, lifetimeVars, IsBound
  <2>2. CASE RemoveByBackend(id[fan.call]) /\ UNCHANGED taskVars
    BY <2>2, TranslateKeepsInv DEF RemoveByBackend, NamesRow
  <2>3. QED
    BY <1>4, <2>1, <2>2 DEF TranslateCancel
<1>5. CASE TakeProgress \/ TakeCancel \/ DiscardCancelled
  BY <1>5, FanIsQuiet, QuietKeepsInv
<1>6. ASSUME NEW s \in Sessions, LoopStep(s)
      PROVE  BrokerInv'
  BY <1>3, <1>6, CancelPeerKeepsInv, LoopIsQuiet, QuietKeepsInv DEF LoopStep
<1>7. CASE BackendStep
  BY <1>7, BackendIsQuiet, QuietKeepsInv
<1>8. CASE \/ \E k \in Keys : CancelLine(k)
           \/ \E s \in Sessions, command \in Commands : ControlLine(s, command)
           \/ \E s \in Sessions : HalfClose(s) \/ Break(s)
  BY <1>8, ClientIsQuiet, QuietKeepsInv
<1>9. CASE UNCHANGED vars
  <2>1. UNCHANGED lifetimeVars /\ UNCHANGED taskVars
    BY <1>9 DEF vars
  <2>2. QED
    BY <2>1, UnbindKeepsInv, NextKeepsInv DEF BrokerInv, OnlyUnbinds, lifetimeVars, IsBound
<1>10. QED
  BY <1>1, <1>2, <1>4, <1>5, <1>6, <1>7, <1>8, <1>9 DEF Next, FanStep, ClientStep

LEMMA InitBroker == Init => BrokerInv /\ LoopInv
<1> SUFFICES ASSUME Init PROVE BrokerInv /\ LoopInv
  OBVIOUS
<1> USE BrokerAssumption, SentinelAssumption DEF Init
<1>1. LifetimeInv
  BY InitInv
<1>2. TaskInv /\ LockInv
  BY DEF TaskInv, LockInv
<1>3. OneBoundRow
  BY DEF OneBoundRow, IsBound, LifetimeInit
<1>4. LoopInv
  BY DEF LoopInv, Ready
<1>5. QED
  BY <1>1, <1>2, <1>3, <1>4 DEF BrokerInv

(* pass_through_lock keeps its promise: the only bound row is that of the   *)
(* call that holds the lock (handle_request), whatever cancellations,      *)
(* failures, stops and restarts come in between.                           *)
THEOREM CallsSerialized == Spec => []OneBoundRow
<1>1. BrokerInv /\ LoopInv /\ [Next]_vars => BrokerInv' /\ LoopInv'
  BY StepKeepsInv, LoopKeepsInv
<1>2. BrokerInv => OneBoundRow
  BY DEF BrokerInv
<1>3. QED
  BY <1>1, <1>2, InitBroker, PTL DEF Spec

(* The broker implements the index on its own: each of its steps is one    *)
(* operation of the index, and no id is bound that is not new to it.       *)
THEOREM BrokerUsesIndexAsMeant == Spec => LifetimeSpec
<1>1. BrokerInv /\ LoopInv /\ [Next]_vars => BrokerInv' /\ LoopInv'
  BY StepKeepsInv, LoopKeepsInv
<1>2. BrokerInv /\ LoopInv /\ [Next]_vars => [LifetimeNext]_lifetimeVars
  BY StepRefines
<1>3. Init => LifetimeInit
  BY DEF Init
<1>4. QED
  BY <1>1, <1>2, <1>3, InitBroker, PTL DEF Spec, LifetimeSpec

-----------------------------------------------------------------------------
(* A quiet step, or one that only takes rows away, leaves no row behind.    *)
LEMMA QuietLeavesNone ==
    ASSUME NoOrphanRow, \A k \in Keys : HasRow(k)' => HasRow(k),
           \A c \in Calls : pc'[c] \in Rowless => pc[c] \in Rowless
    PROVE  NoOrphanRow'
<1> SUFFICES ASSUME NEW k \in Keys, HasRow(k)'
             PROVE  \E c \in Calls : Key(c) = k /\ pc'[c] \notin Rowless
  BY DEF NoOrphanRow, Key
<1> QED
  BY DEF NoOrphanRow

(* A call that gives up its place has no row left.                         *)
LEMMA LastLeavesNone ==
    ASSUME NoOrphanRow, BrokerInv, NEW c \in Calls, NEW label \in Labels, Goto(c, label),
           \A k \in Keys : HasRow(k)' => HasRow(k),
           pc[c] \in Rowless \/ ~HasRow(Key(c))'
    PROVE  NoOrphanRow'
<1> SUFFICES ASSUME NEW k \in Keys, HasRow(k)'
             PROVE  \E d \in Calls : Key(d) = k /\ pc'[d] \notin Rowless
  BY DEF NoOrphanRow, Key
<1>1. PICK d \in Calls : Key(d) = k /\ pc[d] \notin Rowless
  BY DEF NoOrphanRow
<1>2. d # c
  BY <1>1 DEF Key
<1>3. QED
  BY <1>1, <1>2 DEF Goto, BrokerInv, TaskInv

LEMMA RemoveTakesRow ==
    ASSUME BrokerInv, NEW k \in Keys, Remove(k)
    PROVE  ~HasRow(k)' /\ \A j \in Keys : HasRow(j)' => HasRow(j)
  BY DEF Remove, DropRow, HasRow, lifetimeVars, BrokerInv, LifetimeInv, LifetimeTypeOK

LEMMA TaskLeavesNone ==
    ASSUME NoOrphanRow, BrokerInv, NEW c \in Calls, TaskStep(c)
    PROVE  NoOrphanRow'
<1> USE BrokerAssumption
<1> Key(c) \in Keys
  BY DEF Key, Keys
<1>1. CASE Acquire(c)
  <2>1. UNCHANGED lifetimeVars
    BY <1>1 DEF Acquire
  <2>2. CASE HasRow(Key(c))
    BY <1>1, <2>1, <2>2, QuietLeavesNone DEF Acquire, Goto, HasRow, lifetimeVars, BrokerInv,
       TaskInv
  <2>3. CASE ~HasRow(Key(c))
    BY <1>1, <2>1, <2>3, LastLeavesNone DEF Acquire, HasRow, lifetimeVars, Key
  <2>4. QED
    BY <2>2, <2>3
<1>2. CASE CheckRow(c)
  <2>1. UNCHANGED lifetimeVars
    BY <1>2 DEF CheckRow
  <2>2. CASE ~HasRow(Key(c)) /\ Leave(c)
    BY <2>1, <2>2, LastLeavesNone DEF Leave, HasRow, lifetimeVars, Key
  <2>3. CASE Goto(c, "checked")
    BY <1>2, <2>1, <2>3, QuietLeavesNone DEF Goto, HasRow, lifetimeVars, BrokerInv, TaskInv
  <2>4. QED
    BY <1>2, <2>2, <2>3 DEF CheckRow
<1>3. CASE BindRow(c)
  <2>1. \A k \in Keys : HasRow(k)' => HasRow(k)
    BY <1>3, BindIsFresh DEF BindRow, Bind, HasRow, lifetimeVars, BrokerInv, LifetimeInv,
       LifetimeTypeOK
  <2>2. QED
    BY <1>3, <2>1, QuietLeavesNone DEF BindRow, Goto, BrokerInv, TaskInv
<1>4. CASE RemoveRow(c)
  BY <1>4, RemoveTakesRow, LastLeavesNone DEF RemoveRow, Key, HasRow
<1>5. CASE Respond(c) \/ Abandon(c) \/ Report(c)
  <2>1. UNCHANGED lifetimeVars /\ Leave(c) /\ pc[c] \in Rowless
    BY <1>5 DEF Respond, Abandon, Report
  <2>2. QED
    BY <2>1, LastLeavesNone DEF Leave, HasRow, lifetimeVars
<1>6. CASE QuietStep
  BY <1>6, QuietLeavesNone DEF QuietStep, HasRow, lifetimeVars
<1>7. QED
  BY <1>1, <1>2, <1>3, <1>4, <1>5, <1>6, TaskIsQuiet DEF TaskStep

LEMMA StepLeavesNone ==
    ASSUME NoOrphanRow, BrokerInv, LoopInv, [Next]_vars
    PROVE  NoOrphanRow'
<1> USE BrokerAssumption
<1>1. ASSUME NEW c \in Calls, Request(c)
      PROVE  NoOrphanRow'
  <2>1. CASE HasRow(Key(c))
    BY <1>1, <2>1, ClientIsQuiet, QuietLeavesNone DEF QuietStep, HasRow, lifetimeVars
  <2>2. CASE ~HasRow(Key(c))
    <3>1. Admit(Key(c), TokenOf[c]) /\ Goto(c, "queued")
      BY <1>1, <2>2 DEF Request
    <3> SUFFICES ASSUME NEW k \in Keys, HasRow(k)'
                 PROVE  \E d \in Calls : Key(d) = k /\ pc'[d] \notin Rowless
      BY DEF NoOrphanRow, Key
    <3>2. CASE k = Key(c)
      BY <3>1, <3>2 DEF Goto, BrokerInv, TaskInv
    <3>3. CASE k # Key(c)
      <4>1. HasRow(k)
        BY <3>1, <3>3 DEF Admit, HasRow, BrokerInv, LifetimeInv, LifetimeTypeOK
      <4>2. PICK d \in Calls : Key(d) = k /\ pc[d] \notin Rowless
        BY <4>1 DEF NoOrphanRow
      <4>3. QED
        BY <3>1, <3>3, <4>2 DEF Goto, BrokerInv, TaskInv
    <3>4. QED
      BY <3>2, <3>3
  <2>3. QED
    BY <2>1, <2>2
<1>2. CASE UNCHANGED pc /\ \A k \in Keys : HasRow(k)' => HasRow(k)
  BY <1>2, QuietLeavesNone
<1>3. ASSUME NEW s \in Sessions, CancelRow(s)
      PROVE  NoOrphanRow'
  BY <1>2, <1>3, RemoveTakesRow DEF CancelRow, LoopInv, taskVars
<1>4. CASE TranslateCancel
  BY <1>2, <1>4 DEF TranslateCancel, RemoveByBackend, HasRow, lifetimeVars, taskVars,
     BrokerInv, LifetimeInv, LifetimeTypeOK
<1>5. CASE QuietStep
  BY <1>5, QuietLeavesNone DEF QuietStep, HasRow, lifetimeVars
<1>6. ASSUME NEW s \in Sessions, CancelPeer(s)
      PROVE  NoOrphanRow'
  BY <1>2, <1>6 DEF CancelPeer, TakePeer, clientVars, lifetimeVars, taskVars, HasRow
<1>7. ASSUME NEW s \in Sessions, LoopStep(s)
      PROVE  NoOrphanRow'
  BY <1>3, <1>5, <1>6, <1>7, LoopIsQuiet DEF LoopStep
<1>8. CASE UNCHANGED vars
  BY <1>2, <1>8 DEF vars, taskVars, lifetimeVars, HasRow
<1>9. QED
  BY <1>1, <1>4, <1>5, <1>7, <1>8, TaskLeavesNone, FanIsQuiet, BackendIsQuiet, ClientIsQuiet
     DEF Next, FanStep, ClientStep

(* No request row is left behind by the call it belongs to, so neither the  *)
(* stop and restart gate (active_count) nor a half-closed session waits for *)
(* a row nobody will remove.                                               *)
THEOREM RowsHaveOwners == Spec => []NoOrphanRow
<1>1. BrokerInv /\ LoopInv /\ NoOrphanRow /\ [Next]_vars
        => BrokerInv' /\ LoopInv' /\ NoOrphanRow'
  BY StepKeepsInv, LoopKeepsInv, StepLeavesNone
<1>2. Init => NoOrphanRow
  BY DEF Init, LifetimeInit, NoOrphanRow, HasRow
<1>3. QED
  BY <1>1, <1>2, InitBroker, PTL DEF Spec

-----------------------------------------------------------------------------
(* The types.  A call that is past the slot has a process in hand.         *)

AtProcess == {"cloned", "checked", "bound", "writing", "disowned", "waiting", "delivering"}
Results == {"none", "ok", "broken", "timeout", "noBackend"}

CallType ==
    /\ gen \in [Calls -> Gens \cup {None}]
    /\ \A c \in Calls : pc[c] \in AtProcess => gen[c] # None
    /\ result \in [Calls -> Results]

ProcessType ==
    /\ slot \in Gens \cup {None} /\ spawned \in Gens /\ alive \subseteq Gens
    /\ discarded \subseteq Calls /\ working \subseteq Calls

SessionType ==
    /\ reply \in [Calls -> Verdicts]
    /\ conn \in [Sessions -> {"open", "half", "closed", "broken"}]
    /\ outbox \in [Sessions -> SUBSET Messages]
    /\ owner \in [Keys -> Calls \cup {None}]

TypeParts == CallType /\ ProcessType /\ SessionType

LEMMA PostedIsTyped ==
    ASSUME SessionType, NEW to, NEW message \in Messages
    PROVE  Posted(to, message) \in [Sessions -> SUBSET Messages]
BY DEF SessionType, Posted

LEMMA InstalledIsTyped ==
    ASSUME ProcessType, Installed
    PROVE  /\ slot' \in Gens \cup {None} /\ spawned' \in Gens
           /\ alive \cup {spawned + 1} \subseteq Gens
BY BrokerAssumption DEF ProcessType, Installed, Gens

(* A call's own steps.                                                     *)
LEMMA TaskKeepsTypes ==
    ASSUME BrokerInv, TypeParts, NEW c \in Calls, TaskStep(c)
    PROVE  TypeParts'
<1> USE DEF TypeParts, Goto, Leave, AtProcess
<1>0. pc \in [Calls -> Labels] /\ c \in Messages /\ "notice" \in Messages
  BY DEF BrokerInv, TaskInv, Messages
<1>1. CASE Acquire(c) \/ EnsureReuses(c) \/ CheckRow(c) \/ BindRow(c) \/ RemoveRow(c)
           \/ Abandon(c) \/ DetectFailure(c)
  <2>1. UNCHANGED <<gen, result, reply, slot, spawned, alive, discarded, working, conn, outbox,
                    owner>>
    BY <1>1 DEF Acquire, EnsureReuses, CheckRow, BindRow, RemoveRow, Abandon, DetectFailure,
                backendVars, sessionVars
  <2>2. \A d \in Calls : pc'[d] \in AtProcess => pc[d] \in AtProcess
    BY <1>0, <1>1 DEF Acquire, EnsureReuses, CheckRow, BindRow, RemoveRow, Abandon, DetectFailure
  <2>3. QED
    BY <2>1, <2>2 DEF CallType, ProcessType, SessionType
<1>2. CASE EnsureSpawns(c)
  <2>1. ProcessType'
    BY <1>2, InstalledIsTyped DEF EnsureSpawns, ProcessType
  <2>2. CallType' /\ SessionType'
    BY <1>0, <1>2 DEF EnsureSpawns, CallType, SessionType, sessionVars
  <2>3. QED
    BY <2>1, <2>2
<1>3. CASE RefreshAfterSpawn(c)
  <2>1. outbox' \in [Sessions -> SUBSET Messages]
    BY <1>0, <1>3, PostedIsTyped DEF RefreshAfterSpawn, SessionType
  <2>2. QED
    BY <1>0, <1>3, <2>1 DEF RefreshAfterSpawn, CallType, SessionType, ProcessType, backendVars
<1>4. CASE EnsureFails(c)
  BY <1>0, <1>4
     DEF EnsureFails, CallType, SessionType, ProcessType, Results, sessionVars
<1>5. CASE CloneSlot(c)
  <2>1. CallType'
    BY <1>0, <1>5 DEF CloneSlot, CallType, ProcessType, Results
  <2>2. ProcessType' /\ SessionType'
    BY <1>5 DEF CloneSlot, SessionType, ProcessType, backendVars, sessionVars
  <2>3. QED
    BY <2>1, <2>2
<1>6. CASE Register(c)
  <2>1. CallType'
    BY <1>0, <1>6 DEF Register, CallType, Results
  <2>2. ProcessType' /\ SessionType'
    BY <1>6 DEF Register, SessionType, ProcessType, backendVars, sessionVars
  <2>3. QED
    BY <2>1, <2>2
<1>7. CASE Deliver(c) \/ TimeOut(c)
  <2>1. CallType'
    BY <1>0, <1>7 DEF Deliver, TimeOut, CallType, Results
  <2>2. ProcessType' /\ SessionType'
    BY <1>7 DEF Deliver, TimeOut, SessionType, ProcessType, backendVars, sessionVars
  <2>3. QED
    BY <2>1, <2>2
<1>8. CASE Respond(c) \/ Report(c)
  <2>1. outbox' \in [Sessions -> SUBSET Messages]
    BY <1>0, <1>8, PostedIsTyped DEF Respond, Report, Send
  <2>2. reply' \in [Calls -> Verdicts]
    BY <1>8 DEF Respond, Report, Send, SessionType, Verdicts
  <2>3. CallType' /\ ProcessType'
    BY <1>0, <1>8 DEF Respond, Report, CallType, ProcessType, backendVars
  <2>4. QED
    BY <1>8, <2>1, <2>2, <2>3 DEF Respond, Report, SessionType
<1>9. CASE EmptySlot(c)
  <2>1. CallType'
    BY <1>0, <1>9 DEF EmptySlot, PcAfterEnd, ResultAfterEnd, HeldBy, CallType, Results
  <2>2. ProcessType' /\ SessionType'
    BY <1>9 DEF EmptySlot, Ended, SessionType, ProcessType, sessionVars
  <2>3. QED
    BY <2>1, <2>2
<1>10. CASE Write(c)
  <2>1. CallType'
    BY <1>0, <1>10 DEF Write, CallType
  <2>2. ProcessType' /\ SessionType'
    BY <1>10 DEF Write, SessionType, ProcessType, sessionVars
  <2>3. QED
    BY <2>1, <2>2
<1>11. QED
  BY <1>1, <1>2, <1>3, <1>4, <1>5, <1>6, <1>7, <1>8, <1>9, <1>10 DEF TaskStep

LEMMA FanKeepsTypes ==
    ASSUME BrokerInv, TypeParts, FanStep
    PROVE  TypeParts'
<1> USE DEF TypeParts, AtProcess
<1>0. pc \in [Calls -> Labels] /\ "notice" \in Messages
  BY DEF BrokerInv, TaskInv, Messages
<1>1. outbox' \in [Sessions -> SUBSET Messages]
  BY <1>0, PostedIsTyped DEF FanStep, TakeProgress, TakeCancel, TranslateCancel,
     DiscardCancelled, SessionType, sessionVars
<1>2. UNCHANGED <<gen, reply, slot, spawned, alive, working, conn, owner>>
  BY DEF FanStep, TakeProgress, TakeCancel, TranslateCancel, DiscardCancelled, taskVars,
     backendVars, sessionVars
<1>3. /\ discarded' \subseteq Calls /\ result' \in [Calls -> Results]
      /\ \A c \in Calls : pc'[c] \in AtProcess => pc[c] \in AtProcess
  <2>1. CASE DiscardCancelled
    BY <1>0, <2>1 DEF DiscardCancelled, Discard, AfterDiscard, WaitsFor, CallType, ProcessType, Results
  <2>2. CASE UNCHANGED <<taskVars, discarded>>
    BY <2>2 DEF taskVars, CallType, ProcessType
  <2>3. QED
    BY <2>1, <2>2 DEF FanStep, TakeProgress, TakeCancel, TranslateCancel, backendVars
<1>4. QED
  BY <1>1, <1>2, <1>3 DEF CallType, ProcessType, SessionType

LEMMA LoopKeepsTypes ==
    ASSUME BrokerInv, TypeParts, NEW s \in Sessions, LoopStep(s)
    PROVE  TypeParts'
<1> USE DEF TypeParts, AtProcess
<1>0. pc \in [Calls -> Labels] /\ "notice" \in Messages
  BY DEF BrokerInv, TaskInv, Messages
<1>1. CASE CancelRow(s) \/ CancelPeer(s) \/ TellBackend(s) \/ ControlRefused(s)
  BY <1>1 DEF CancelRow, CancelPeer, TellBackend, ControlRefused, taskVars, backendVars, CallType,
     ProcessType, SessionType, sessionVars
<1>2. CASE CancelPending(s)
  <2>1. /\ discarded' \subseteq Calls /\ result' \in [Calls -> Results]
        /\ \A c \in Calls : pc'[c] \in AtProcess => pc[c] \in AtProcess
    BY <1>0, <1>2 DEF CancelPending, Discard, AfterDiscard, WaitsFor, CallType, ProcessType, Results
  <2>2. QED
    BY <1>2, <2>1 DEF CancelPending, CallType, ProcessType, SessionType
<1>3. CASE ControlTakes(s)
  <2>1. CallType'
    BY <1>0, <1>3 DEF ControlTakes, PcAfterEnd, ResultAfterEnd, HeldBy, CallType, Results
  <2>2. ProcessType' /\ SessionType'
    BY <1>3 DEF ControlTakes, Ended, ProcessType, SessionType
  <2>3. QED
    BY <2>1, <2>2
<1>4. CASE RestartSpawns(s)
  <2>1. ProcessType'
    BY <1>4, InstalledIsTyped DEF RestartSpawns, ProcessType
  <2>2. CallType' /\ SessionType'
    BY <1>4 DEF RestartSpawns, CallType, SessionType, taskVars
  <2>3. QED
    BY <2>1, <2>2
<1>5. CASE RestartRefreshes(s) \/ CheckClosed(s) \/ \E message \in Messages : WriteOut(s, message)
  <2>1. outbox' \in [Sessions -> SUBSET Messages]
    BY <1>0, <1>5, PostedIsTyped DEF RestartRefreshes, CheckClosed, WriteOut, SessionType
  <2>2. conn' \in [Sessions -> {"open", "half", "closed", "broken"}]
    BY <1>5 DEF RestartRefreshes, CheckClosed, WriteOut, SessionType
  <2>3. QED
    BY <1>5, <2>1, <2>2 DEF RestartRefreshes, CheckClosed, WriteOut, CallType, ProcessType,
       SessionType, taskVars, backendVars
<1>6. QED
  BY <1>1, <1>2, <1>3, <1>4, <1>5 DEF LoopStep

LEMMA OthersKeepTypes ==
    ASSUME BrokerInv, TypeParts, ClientStep \/ BackendStep
    PROVE  TypeParts'
<1> USE DEF TypeParts, AtProcess
<1>0. pc \in [Calls -> Labels] /\ Calls \subseteq Messages
  BY DEF BrokerInv, TaskInv, Messages
<1>1. ASSUME NEW c \in Calls, Request(c)
      PROVE  TypeParts'
  <2>1. outbox' \in [Sessions -> SUBSET Messages]
    BY <1>0, <1>1, PostedIsTyped DEF Request, Send, SessionType
  <2>2. reply' \in [Calls -> Verdicts] /\ owner' \in [Keys -> Calls \cup {None}]
    BY <1>1 DEF Request, Send, SessionType, Verdicts
  <2>3. CallType' /\ ProcessType'
    BY <1>0, <1>1 DEF Request, Goto, CallType, ProcessType, backendVars
  <2>4. QED
    BY <1>1, <2>1, <2>2, <2>3 DEF Request, SessionType
<1>2. CASE \/ \E k \in Keys : CancelLine(k)
           \/ \E s \in Sessions, command \in Commands : ControlLine(s, command)
           \/ \E s \in Sessions : HalfClose(s) \/ Break(s)
  <2>1. UNCHANGED <<taskVars, backendVars, owner>>
    BY <1>2 DEF CancelLine, ControlLine, HalfClose, Break
  <2>2. /\ conn' \in [Sessions -> {"open", "half", "closed", "broken"}]
        /\ outbox' \in [Sessions -> SUBSET Messages]
    BY <1>2 DEF CancelLine, ControlLine, HalfClose, Break, SessionType
  <2>3. QED
    BY <2>1, <2>2 DEF taskVars, backendVars, CallType, ProcessType, SessionType
<1>3. ASSUME NEW c \in Calls, Answer(c)
      PROVE  TypeParts'
  <2>1. CallType'
    BY <1>0, <1>3 DEF Answer, Goto, CallType
  <2>2. QED
    BY <1>3, <2>1 DEF Answer, ProcessType, SessionType, sessionVars
<1>4. ASSUME NEW e \in Emits, Emit(e[1], e[2])
      PROVE  TypeParts'
  BY <1>4 DEF Emit, taskVars, backendVars, CallType, ProcessType, SessionType, sessionVars
<1>5. ASSUME NEW g \in Gens, Exit(g)
      PROVE  TypeParts'
  <2>1. CallType'
    BY <1>0, <1>5 DEF Exit, PcAfterEnd, ResultAfterEnd, HeldBy, CallType, Results
  <2>2. QED
    BY <1>5, <2>1 DEF Exit, Ended, ProcessType, SessionType, sessionVars
<1>6. ASSUME NEW g \in Gens, Jam(g) \/ Drain(g)
      PROVE  TypeParts'
  BY <1>6 DEF Jam, Drain, taskVars, backendVars, CallType, ProcessType, SessionType, sessionVars
<1>7. QED
  BY <1>1, <1>2, <1>3, <1>4, <1>5, <1>6 DEF ClientStep, BackendStep

LEMMA StepKeepsTypes == BrokerInv /\ TypeParts /\ [Next]_vars => TypeParts'
<1> SUFFICES ASSUME BrokerInv, TypeParts, [Next]_vars PROVE TypeParts'
  OBVIOUS
<1>1. CASE UNCHANGED vars
  BY <1>1 DEF vars, taskVars, backendVars, sessionVars, TypeParts, CallType, ProcessType,
     SessionType
<1>2. QED
  BY <1>1, TaskKeepsTypes, FanKeepsTypes, LoopKeepsTypes, OthersKeepTypes DEF Next

LEMMA InitTypes == Init => TypeParts
<1> SUFFICES ASSUME Init PROVE TypeParts
  OBVIOUS
<1>1. 1 \in Gens
  BY BrokerAssumption DEF Gens
<1>2. QED
  BY <1>1 DEF Init, TypeParts, CallType, ProcessType, SessionType, AtProcess, Results, Verdicts

LEMMA PartsMakeType == BrokerInv /\ TypeParts => BrokerTypeOK
BY DEF BrokerInv, TaskInv, TypeParts, CallType, ProcessType, SessionType, AtProcess, Results,
   BrokerTypeOK

(* Calls, processes and sessions keep their types, and a call that goes on *)
(* past the slot has taken a process from it.                              *)
THEOREM BrokerWellTyped == Spec => []BrokerTypeOK
<1>1. BrokerInv /\ LoopInv /\ [Next]_vars => BrokerInv' /\ LoopInv'
  BY StepKeepsInv, LoopKeepsInv
<1>2. QED
  BY <1>1, InitBroker, InitTypes, StepKeepsTypes, PartsMakeType, PTL DEF Spec

=============================================================================
