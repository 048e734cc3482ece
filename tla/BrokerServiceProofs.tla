-------------------------- MODULE BrokerServiceProofs --------------------------
(***************************************************************************)
(* The broker serves its calls as CallService says, for any number of      *)
(* calls, sessions and processes, as long as no raw id is used twice: each *)
(* call ends once, and as long as nobody restarts the backend it ends with *)
(* an answer its session takes, unless it was cancelled or its session has *)
(* left it behind.  A session whose client has closed its end is then      *)
(* woken whenever its loop has to look again.  And the channel to each     *)
(* process is used as ChannelService allows.                               *)
(***************************************************************************)
EXTENDS BrokerPeersProofs

USE DEF Unrestarted

IdsUsedOnce == IsFiniteSet(Calls) /\ \A c, d \in Calls : Key(c) = Key(d) => c = d

AtBack == {"cloned", "checked", "bound", "writing", "disowned", "waiting", "delivering"}
Underway == {"queued", "ensuring", "ensured", "refreshing", "cloned", "checked", "bound",
             "writing", "disowned", "waiting", "delivering", "returned"}
Past == {"disowned", "returned", "removed", "failed", "reporting", "done"}
Drawn == Past \cup {"checked", "bound", "writing", "waiting", "delivering"}

(* Each process numbers the calls from one, so none has a number twice.    *)
DrawnFrom(g) == {c \in Calls : gen[c] = g /\ id[c] # None}
NumberInv ==
    /\ gen = [c \in Calls |-> gen[c]]
    /\ \A c \in Calls : id[c] # None =>
           pc[c] \in Drawn /\ id[c] \in Nat /\ id[c] <= Cardinality(DrawnFrom(gen[c]))
    /\ \A c, d \in Calls : gen[c] = gen[d] /\ id[c] = id[d] /\ id[c] # None => c = d

(* A control that has passed the gate has been noted.                      *)
Controlled(at, controls) ==
    /\ at.at = "gate" => at.command \in controls
    /\ at.at = "spawning" => ~(controls \subseteq {"stop"})

(* What holds whoever restarts the backend.                                *)
CallInv ==
    /\ reply = [c \in Calls |-> reply[c]] /\ result = [c \in Calls |-> result[c]]
    /\ owner = [k \in Keys |-> owner[k]] /\ history = [f \in HistoryFields |-> history[f]]
    /\ conn = [s \in Sessions |-> conn[s]]
    /\ history.cancelled \subseteq Calls /\ history.left \subseteq Calls /\ spawned \in Nat
    /\ \A c \in Calls :
           /\ pc[c] # "done" => reply[c] = "none"
           /\ c \in discarded => pc[c] \in Past
           /\ pc[c] = "disowned" => result[c] = "broken"
    /\ \A k \in Keys : HasRow(k) => owner[k] \in Calls /\ Key(owner[k]) = k
    /\ \A s \in Sessions : Controlled(loop[s], history.controls)

(* A cancellation on its way to process g under id b hits no call but the  *)
(* one that lost its row to it.                                            *)
Aimed(g, b) ==
    g # spawned \/ \E c \in history.cancelled : gen[c] = g /\ id[c] = b /\ b # None

(* Without a restart the process in the slot is the last one, and the one  *)
(* that served call is at.                                                 *)
LastProcess ==
    /\ slot \in {None, spawned}
    /\ \A c \in Calls :
           pc[c] \in AtBack \/ (pc[c] = "returned" /\ id[c] # None) => gen[c] = spawned
    /\ fan.at \in {"translate", "discard"} => fan.gen \in Nat /\ fan.gen <= spawned
    /\ \A s \in Sessions : loop[s].at \in {"cancelling", "discarding"} =>
           loop[s].gen \in Nat /\ loop[s].gen <= spawned

(* Only a cancellation takes the row of a call that has yet to be sent, or *)
(* makes a call that was sent end as a discarded one.                      *)
OnlyCancelled ==
    /\ \A c \in Calls :
           /\ pc[c] \in Underway => HasRow(Key(c)) \/ c \in history.cancelled
           /\ c \in discarded /\ result[c] = "broken" => c \in history.cancelled
    /\ fan.at = "discard" => Aimed(fan.gen, fan.id)
    /\ \A s \in Sessions : loop[s].at = "discarding" => Aimed(loop[s].gen, loop[s].id)

(* Where nobody listens any more, a call that has yet to end was cancelled  *)
(* or left behind.                                                         *)
LeftBehind ==
    \A c \in Calls : pc[c] \notin {"unsent", "done"} =>
        Listens(SessionOf[c]) \/ c \in history.cancelled \cup history.left

Own == NumberInv /\ CallInv /\ (Unrestarted => LastProcess /\ OnlyCancelled /\ LeftBehind)
ServiceInv == BrokerInv /\ LoopInv /\ Own

(* A step that moves calls on inside their tasks and touches neither rows  *)
(* nor numbers, nor what a cancellation relies on.                         *)
Forfeits(c) == Unrestarted => c \in history.cancelled

CalmFrame ==
    /\ UNCHANGED <<gen, id, lock, reply, owner>>
    /\ UNCHANGED <<history.cancelled, history.left, history.controls>>
    /\ conn' = [s \in Sessions |-> conn'[s]]
    /\ \A s \in Sessions : Listens(s) => Listens(s)'
    /\ result' = [c \in Calls |-> result'[c]]
    /\ history' = [f \in HistoryFields |-> history'[f]]
    /\ \A k \in Keys : HasRow(k)' <=> HasRow(k)
    /\ \/ slot' \in {slot, None} /\ UNCHANGED spawned
       \/ spawned' \in Nat /\ ~Unrestarted

CalmCalls ==
    \A c \in Calls :
       /\ pc'[c] = "unsent" <=> pc[c] = "unsent"
       /\ pc'[c] = "done" <=> pc[c] = "done"
       /\ pc'[c] \in Underway => pc[c] \in Underway
       /\ pc[c] \in Past => pc'[c] \in Past
       /\ pc[c] \in Drawn => pc'[c] \in Drawn
       /\ pc'[c] \in AtBack => pc[c] \in AtBack
       /\ pc'[c] = "disowned" => result'[c] = "broken"
       /\ pc'[c] = "returned" /\ id[c] # None => pc[c] \in AtBack \cup {"returned"}
       /\ c \in discarded' => c \in discarded \/ pc'[c] \in Past
       /\ c \in discarded' /\ result'[c] = "broken" =>
             (c \in discarded /\ result[c] = "broken") \/ Forfeits(c)

CalmWaits ==
    /\ \/ UNCHANGED fan
       \/ fan'.at \notin {"translate", "discard"}
       \/ fan'.at = "translate" /\ fan'.gen = slot /\ slot # None
    /\ \A s \in Sessions :
           \/ loop'[s] = loop[s]
           \/ loop'[s].at \notin {"cancelling", "discarding", "gate", "spawning"}
           \/ loop'[s].at = "cancelling" /\ loop'[s].gen = slot /\ slot # None
           \/ loop'[s].at = "spawning" /\ loop[s].at = "gate" /\ loop[s].command # "stop"

CalmStep == CalmFrame /\ CalmCalls /\ CalmWaits

LEMMA LeftStays ==
    ASSUME LeftBehind, \A s \in Sessions : Listens(s) => Listens(s)',
           \A c \in Calls : pc'[c] \notin {"unsent", "done"} =>
               pc[c] \notin {"unsent", "done"} \/ Listens(SessionOf[c])',
           history.cancelled \subseteq history'.cancelled, history.left \subseteq history'.left
    PROVE  LeftBehind'
BY BrokerAssumption DEF LeftBehind

LEMMA CalmKeepsInv ==
    ASSUME ServiceInv, CalmStep
    PROVE  Own'
<1> USE DEF ServiceInv, CalmStep, CalmFrame, CalmCalls, CalmWaits, Own
<1>1. NumberInv'
  <2>1. \A g : DrawnFrom(g)' = DrawnFrom(g)
    BY DEF DrawnFrom
  <2>2. QED
    BY <2>1 DEF NumberInv
<1>2. CallInv'
  <2>1. ASSUME NEW s \in Sessions
        PROVE  Controlled(loop'[s], history.controls)
    <3>1. Controlled(loop[s], history.controls)
      BY DEF CallInv
    <3>2. CASE loop'[s] = loop[s]
      BY <3>1, <3>2
    <3>3. CASE loop'[s].at \notin {"gate", "spawning"}
      BY <3>3 DEF Controlled
    <3>4. CASE loop'[s].at = "spawning" /\ loop[s].at = "gate" /\ loop[s].command # "stop"
      BY <3>1, <3>4 DEF Controlled
    <3>5. QED
      BY <3>2, <3>3, <3>4
  <2>2. /\ \A c \in Calls : pc'[c] # "done" => reply[c] = "none"
        /\ \A c \in Calls : c \in discarded' => pc'[c] \in Past
        /\ \A c \in Calls : pc'[c] = "disowned" => result'[c] = "broken"
    BY DEF CallInv
  <2>3. spawned' \in Nat
    BY DEF CallInv
  <2> QED
    BY <2>1, <2>2, <2>3 DEF CallInv, Key
<1>3. ASSUME Unrestarted
      PROVE  LastProcess'
  <2>1. LastProcess /\ UNCHANGED spawned /\ slot' \in {slot, None} /\ spawned \in Nat
    BY <1>3 DEF CallInv
  <2>2. slot # None => slot \in Nat /\ slot <= spawned
    BY <2>1 DEF LastProcess
  <2>3. fan'.at \in {"translate", "discard"} => fan'.gen \in Nat /\ fan'.gen <= spawned
    BY <2>1, <2>2 DEF LastProcess
  <2>4. \A s \in Sessions : loop'[s].at \in {"cancelling", "discarding"} =>
            loop'[s].gen \in Nat /\ loop'[s].gen <= spawned
    BY <2>1, <2>2 DEF LastProcess
  <2>5. \A c \in Calls :
            pc'[c] \in AtBack \/ (pc'[c] = "returned" /\ id'[c] # None) => gen'[c] = spawned
    BY <2>1 DEF LastProcess
  <2>6. QED
    BY <2>1, <2>3, <2>4, <2>5 DEF LastProcess
<1>4. ASSUME Unrestarted
      PROVE  OnlyCancelled'
  <2>1. \A g, b : Aimed(g, b)' <=> Aimed(g, b)
    BY <1>4 DEF Aimed
  <2>2. \A c \in Calls : Key(c)' = Key(c) /\ Key(c) \in Keys
    BY BrokerAssumption DEF Key, Keys
  <2>3. QED
    BY <1>4, <2>1, <2>2 DEF OnlyCancelled, Forfeits
<1>5. Unrestarted => LeftBehind'
  BY LeftStays
<1>6. QED
  BY <1>1, <1>2, <1>3, <1>4, <1>5

(* ... and the client sees nothing of it.                                  *)
LEMMA CalmIsUnseen ==
    ASSUME ServiceInv, CalmStep
    PROVE  UNCHANGED <<Stages, lock, Forfeited>>
<1>1. \A c \in Calls : Stage(c)' = Stage(c)
  BY DEF CalmStep, CalmFrame, CalmCalls, Stage
<1>2. QED
  BY <1>1 DEF CalmStep, CalmFrame, Stages, Forfeited

-----------------------------------------------------------------------------
(* The calm steps.                                                         *)

(* What the calm steps rely on.                                            *)
LEMMA CallFacts ==
    ASSUME ServiceInv
    PROVE  /\ pc = [c \in Calls |-> pc[c]] /\ result = [c \in Calls |-> result[c]]
           /\ history = [f \in HistoryFields |-> history[f]]
           /\ loop = [s \in Sessions |-> loop[s]] /\ conn = [s \in Sessions |-> conn[s]]
           /\ \A c \in Calls : c \in discarded => pc[c] \in Past
           /\ \A c \in Calls : pc[c] = "disowned" => result[c] = "broken"
           /\ \A c \in Calls : id[c] # None => pc[c] \in Drawn
BY DEF ServiceInv, Own, BrokerInv, TaskInv, LoopInv, CallInv, NumberInv

LEMMA TaskIsCalm ==
    ASSUME ServiceInv, NEW c \in Calls,
           \/ EnsureReuses(c) \/ RefreshAfterSpawn(c) \/ EnsureFails(c) \/ BindRow(c)
           \/ Register(c) \/ Write(c) \/ Deliver(c) \/ TimeOut(c) \/ DetectFailure(c)
           \/ EmptySlot(c)
    PROVE  CalmStep
<1> USE CallFacts DEF CalmStep, CalmFrame, CalmCalls, CalmWaits, Goto, HasRow, Listens, Past,
                      Drawn, Underway, AtBack
<1>1. CASE EnsureReuses(c) \/ RefreshAfterSpawn(c)
  BY <1>1 DEF EnsureReuses, RefreshAfterSpawn, lifetimeVars, backendVars, eventVars, sessionVars
<1>2. CASE EnsureFails(c)
  BY <1>2 DEF EnsureFails, lifetimeVars, eventVars, sessionVars
<1>3. CASE BindRow(c)
  <2>1. \A k \in Keys : HasRow(k)' <=> HasRow(k)
    BY <1>3, BindIsFresh, SentinelAssumption DEF BindRow, Bind, ServiceInv, BrokerInv,
       LifetimeInv, LifetimeTypeOK, lifetimeVars
  <2>2. QED
    BY <1>3, <2>1 DEF BindRow, backendVars, eventVars, sessionVars
<1>4. CASE Register(c)
  BY <1>4 DEF Register, Note, HistoryFields, lifetimeVars, backendVars, eventVars, sessionVars
<1>5. CASE Deliver(c)
  BY <1>5 DEF Deliver, lifetimeVars, backendVars, eventVars, sessionVars
<1>6. CASE TimeOut(c)
  BY <1>6 DEF TimeOut, lifetimeVars, eventVars, sessionVars
<1>7. CASE DetectFailure(c)
  BY <1>7 DEF DetectFailure, lifetimeVars, backendVars, eventVars, sessionVars
<1>8. CASE EmptySlot(c)
  BY <1>8 DEF EmptySlot, PcAfterEnd, ResultAfterEnd, HeldBy, Ended, Note, HistoryFields,
     lifetimeVars, eventVars, sessionVars
<1>9. CASE Write(c)
  BY <1>9 DEF Write, lifetimeVars, eventVars, sessionVars
<1>10. QED
  BY <1>1, <1>2, <1>3, <1>4, <1>5, <1>6, <1>7, <1>8, <1>9

LEMMA BackendIsCalm == ASSUME ServiceInv, BackendStep PROVE CalmStep
<1> USE CallFacts DEF CalmStep, CalmFrame, CalmCalls, CalmWaits, HasRow, Listens, lifetimeVars,
                      eventVars, sessionVars
<1>1. ASSUME NEW c \in Calls, Answer(c)
      PROVE  CalmStep
  BY <1>1 DEF Answer, Goto, Past, Drawn, Underway, AtBack
<1>2. ASSUME NEW e \in Emits, Emit(e[1], e[2])
      PROVE  CalmStep
  BY <1>2 DEF Emit, taskVars, backendVars
<1>3. ASSUME NEW g \in Gens, Exit(g)
      PROVE  CalmStep
  BY <1>3 DEF Exit, PcAfterEnd, ResultAfterEnd, HeldBy, Ended, Past, Drawn, Underway, AtBack
<1>4. ASSUME NEW g \in Gens, Jam(g) \/ Drain(g)
      PROVE  CalmStep
  BY <1>4 DEF Jam, Drain, taskVars, backendVars
<1>5. QED
  BY <1>1, <1>2, <1>3, <1>4 DEF BackendStep

LEMMA EventIsCalm ==
    ASSUME ServiceInv, TakeProgress \/ TakeCancel \/ UNCHANGED vars
    PROVE  CalmStep
<1> USE CallFacts DEF CalmStep, CalmFrame, CalmCalls, CalmWaits, HasRow, Listens, lifetimeVars,
                      taskVars, backendVars, eventVars, sessionVars
<1>1. CASE TakeProgress
  BY <1>1 DEF TakeProgress
<1>2. CASE TakeCancel
  BY <1>2 DEF TakeCancel, Ready
<1>3. CASE UNCHANGED vars
  BY <1>3 DEF vars
<1>4. QED
  BY <1>1, <1>2, <1>3

LEMMA LoopIsCalm ==
    ASSUME ServiceInv, NEW s \in Sessions,
           \/ CancelPeer(s) \/ TellBackend(s) \/ ControlRefused(s) \/ ControlTakes(s)
           \/ RestartRefreshes(s) \/ \E message \in Messages : WriteOut(s, message)
           \/ \E k \in Keys : CancelLine(k)
           \/ HalfClose(s)
    PROVE  CalmStep
<1> USE CallFacts DEF CalmStep, CalmFrame, CalmCalls, CalmWaits, Continue, HasRow, Listens,
                      Ready, Top, lifetimeVars, taskVars, backendVars, eventVars, sessionVars
<1>1. CASE CancelPeer(s)
  BY <1>1 DEF CancelPeer, TakePeer, Telling, clientVars, Note, HistoryFields
<1>2. CASE TellBackend(s) \/ ControlRefused(s) \/ RestartRefreshes(s)
  BY <1>2 DEF TellBackend, ControlRefused, RestartRefreshes
<1>3. CASE ControlTakes(s)
  <2>1. CalmCalls
    BY <1>3 DEF ControlTakes, PcAfterEnd, ResultAfterEnd, HeldBy, Past, Drawn, Underway, AtBack
  <2>2. CalmFrame
    BY <1>3 DEF ControlTakes, ResultAfterEnd, Note, HistoryFields
  <2>3. CalmWaits
    BY <1>3 DEF ControlTakes
  <2>4. QED
    BY <2>1, <2>2, <2>3
<1>4. CASE \E message \in Messages : WriteOut(s, message)
  BY <1>4 DEF WriteOut
<1>5. ASSUME NEW k \in Keys, CancelLine(k)
      PROVE  CalmStep
  BY <1>5 DEF CancelLine, Live, Keys
<1>6. CASE HalfClose(s)
  BY <1>6 DEF HalfClose
<1>7. QED
  BY <1>1, <1>2, <1>3, <1>4, <1>5, <1>6

LEMMA AskIsCalm == ASSUME ServiceInv, AskInv, AskStep PROVE CalmStep
<1> USE CallFacts DEF CalmStep, CalmFrame, CalmCalls, CalmWaits, Continue, HasRow, Listens,
                      Ready, lifetimeVars, taskVars, backendVars, eventVars, sessionVars
<1>1. ASSUME NEW a \in Asks, TakeAsk(a)
      PROVE  CalmStep
  BY <1>1 DEF TakeAsk, Offer
<1>2. ASSUME NEW a \in Asks, ReadAnswer(a)
      PROVE  CalmStep
  BY <1>2 DEF ReadAnswer, TakePeer, clientVars
<1>3. ASSUME NEW a \in Asks, NEW g \in Gens, Ask(a, g)
      PROVE  CalmStep
  BY <1>3 DEF Ask
<1>4. CASE InsertAsk
  BY <1>4 DEF InsertAsk, InsertPeer, clientVars, OfferGoesOn, Offer
<1>5. CASE SendAsk
  BY <1>5 DEF SendAsk, OfferGoesOn, Offer
<1>6. CASE TakeExit
  BY <1>6 DEF TakeExit, ClearPeers, clientVars
<1>7. ASSUME NEW g \in Gens, SendExit(g)
      PROVE  CalmStep
  BY <1>7 DEF SendExit
<1>8. ASSUME NEW s \in Sessions, ForwardAnswer(s)
      PROVE  CalmStep
  BY <1>8 DEF ForwardAnswer, Telling
<1>9. CASE RefuseAsk
  BY <1>9 DEF RefuseAsk
<1>10. QED
  BY <1>1, <1>2, <1>3, <1>4, <1>5, <1>6, <1>7, <1>8, <1>9 DEF AskStep

LEMMA RestartSpawnsIsCalm ==
    ASSUME ServiceInv, NEW s \in Sessions, RestartSpawns(s)
    PROVE  CalmStep
<1> USE CallFacts DEF RestartSpawns, Continue, taskVars, eventVars, sessionVars
<1>1. ~Unrestarted /\ spawned \in Nat
  BY DEF ServiceInv, Own, CallInv, Controlled
<1>2. CalmFrame
  BY <1>1 DEF CalmFrame, Installed, HasRow, Listens, lifetimeVars
<1>3. CalmCalls /\ CalmWaits
  BY DEF CalmCalls, CalmWaits, Ready
<1>4. QED
  BY <1>2, <1>3 DEF CalmStep

(* A call that is discarded while it waits has lost its row to the same     *)
(* cancellation, unless the number is that of another process.             *)
LEMMA DiscardForfeits ==
    ASSUME ServiceInv, NEW g, NEW b, Unrestarted => Aimed(g, b),
           NEW c \in Calls, WaitsFor(c, g), id[c] = b
    PROVE  Forfeits(c)
<1> SUFFICES ASSUME Unrestarted PROVE c \in history.cancelled
  BY DEF Forfeits
<1>1. gen[c] = spawned /\ gen[c] = g
  BY DEF ServiceInv, Own, LastProcess, WaitsFor, AtBack
<1>2. PICK d \in history.cancelled : gen[d] = g /\ id[d] = b /\ b # None
  BY <1>1 DEF Aimed
<1>3. c = d
  BY <1>1, <1>2 DEF ServiceInv, Own, CallInv, NumberInv
<1>4. QED
  BY <1>2, <1>3

LEMMA DiscardIsCalm ==
    ASSUME ServiceInv,
           DiscardCancelled \/ \E s \in Sessions : CancelPending(s)
    PROVE  CalmStep
<1> USE CallFacts
<1>1. ASSUME NEW g, NEW b, Discard(g, b), Unrestarted => Aimed(g, b)
      PROVE  CalmCalls /\ result' = [c \in Calls |-> result'[c]]
  <2>1. \A c \in Calls :
            \/ pc'[c] = pc[c] /\ result'[c] = result[c] /\ (c \in discarded' => c \in discarded)
            \/ /\ pc[c] \in {"writing", "waiting"} /\ pc'[c] = AfterDiscard(c)
               /\ result'[c] = "broken" /\ Forfeits(c)
    BY <1>1, DiscardForfeits DEF Discard, WaitsFor
  <2>2. CalmCalls
    BY <2>1 DEF CalmCalls, AfterDiscard, Past, Drawn, Underway, AtBack
  <2>3. QED
    BY <1>1, <2>2 DEF Discard
<1>2. CASE DiscardCancelled
  <2>1. CalmCalls /\ result' = [c \in Calls |-> result'[c]]
    BY <1>1, <1>2 DEF DiscardCancelled, ServiceInv, Own, OnlyCancelled
  <2>2. CalmFrame
    BY <1>2, <2>1 DEF CalmFrame, DiscardCancelled, HasRow, Listens, lifetimeVars
  <2>3. CalmWaits
    BY <1>2 DEF CalmWaits, DiscardCancelled, Ready
  <2>4. QED
    BY <2>1, <2>2, <2>3 DEF CalmStep
<1>3. ASSUME NEW s \in Sessions, CancelPending(s)
      PROVE  CalmStep
  <2>1. CalmCalls /\ result' = [c \in Calls |-> result'[c]]
    BY <1>1, <1>3 DEF CancelPending, ServiceInv, Own, OnlyCancelled
  <2>2. CalmFrame
    BY <1>3, <2>1 DEF CalmFrame, CancelPending, HasRow, Listens, lifetimeVars
  <2>3. CalmWaits
    BY <1>3 DEF CalmWaits, CancelPending, Continue, Telling, eventVars
  <2>4. QED
    BY <2>1, <2>2, <2>3 DEF CalmStep
<1>4. QED
  BY <1>2, <1>3

-----------------------------------------------------------------------------
(* The steps the client sees, or that cancel something.                    *)

Serves == [Service!ServiceNext]_<<Stages, lock, Forfeited>>

LEMMA StageMoves ==
    ASSUME NEW c \in Calls, NEW v, Stage(c)' = v,
           \A d \in Calls : d # c => Stage(d)' = Stage(d)
    PROVE  Stages' = [Stages EXCEPT ![c] = v]
BY DEF Stages

(* The task of a call goes on, or ends, with or without its row; nobody     *)
(* else's row is touched.                                                  *)
Moves(c, to) ==
    /\ pc[c] # "done" /\ pc' = [pc EXCEPT ![c] = to]
    /\ UNCHANGED <<gen, id, result, owner, history, slot, spawned, discarded, fan, loop, conn>>
    /\ \/ UNCHANGED reply
       \/ to = "done" /\ \E r : reply' = [reply EXCEPT ![c] = r]
    /\ \/ to = "ensuring" /\ pc[c] = "queued" /\ HasRow(Key(c))'
       \/ to = "removed" /\ pc[c] = "returned"
       \/ to = "done"
    /\ \A k \in Keys : /\ HasRow(k)' => HasRow(k)
                       /\ k # Key(c) /\ HasRow(k) => HasRow(k)'

LEMMA MoveKeepsInv ==
    ASSUME ServiceInv, IdsUsedOnce, NEW c \in Calls, NEW to, Moves(c, to)
    PROVE  Own'
<1> USE CallFacts DEF Moves
<1>1. pc'[c] = to /\ \A d \in Calls : d # c => pc'[d] = pc[d]
  BY CallFacts
<1>2. NumberInv'
  <2>1. \A g : DrawnFrom(g)' = DrawnFrom(g)
    BY DEF DrawnFrom
  <2>2. \A d \in Calls : id[d] # None => pc'[d] \in Drawn
    BY <1>1 DEF Drawn, Past
  <2>3. QED
    BY <2>1, <2>2 DEF ServiceInv, Own, NumberInv
<1>3. CallInv'
  <2>1. reply' = [d \in Calls |-> reply'[d]]
        /\ \A d \in Calls : pc'[d] # "done" => reply'[d] = "none"
    <3>1. reply = [d \in Calls |-> reply[d]]
          /\ \A d \in Calls : pc[d] # "done" => reply[d] = "none"
      BY DEF ServiceInv, Own, CallInv
    <3>2. CASE UNCHANGED reply
      <4>1. \A d \in Calls : pc'[d] # "done" => pc[d] # "done"
        BY <1>1
      <4>2. QED
        BY <3>1, <3>2, <4>1
    <3>3. ASSUME NEW r, to = "done", reply' = [reply EXCEPT ![c] = r]
          PROVE  reply' = [d \in Calls |-> reply'[d]]
                 /\ \A d \in Calls : pc'[d] # "done" => reply'[d] = "none"
      BY <1>1, <3>1, <3>3
    <3>4. QED
      BY <3>2, <3>3
  <2>2. \A d \in Calls : d \in discarded => pc'[d] \in Past
    BY <1>1 DEF Past
  <2>3. QED
    BY <2>1, <2>2 DEF ServiceInv, Own, CallInv, Key
<1>4. ASSUME Unrestarted
      PROVE  LastProcess'
  BY <1>1, <1>4 DEF ServiceInv, Own, LastProcess, AtBack
<1>5. ASSUME Unrestarted
      PROVE  OnlyCancelled'
  <2>1. \A g, b : Aimed(g, b)' <=> Aimed(g, b)
    BY DEF Aimed
  <2>2. \A d \in Calls : Key(d)' = Key(d) /\ Key(d) \in Keys
    BY BrokerAssumption DEF Key, Keys
  <2>3. \A d \in Calls : pc'[d] \in Underway => HasRow(Key(d))' \/ d \in history.cancelled
    <3>1. TAKE d \in Calls
    <3>2. CASE d = c
      BY <1>1, <2>2, <3>2 DEF Underway
    <3>3. CASE d # c
      <4>1. Key(d) # Key(c)
        BY <3>3 DEF IdsUsedOnce
      <4>2. QED
        BY <1>1, <1>5, <2>2, <3>3, <4>1 DEF ServiceInv, Own, OnlyCancelled
    <3>4. QED
      BY <3>2, <3>3
  <2>4. QED
    BY <1>5, <2>1, <2>2, <2>3 DEF ServiceInv, Own, OnlyCancelled
<1>6. Unrestarted => LeftBehind'
  BY <1>1, LeftStays DEF ServiceInv, Own, Listens
<1>7. QED
  BY <1>2, <1>3, <1>4, <1>5, <1>6 DEF Own, ServiceInv

LEMMA AcquireServes ==
    ASSUME ServiceInv, IdsUsedOnce, NEW c \in Calls, Acquire(c)
    PROVE  Own' /\ Serves
<1> USE CallFacts DEF Acquire, Goto, lifetimeVars, backendVars, eventVars, sessionVars
<1>1. Key(c)' = Key(c) /\ \A k \in Keys : HasRow(k)' <=> HasRow(k)
  BY DEF Key, HasRow
<1>2. Key(c) \in Keys
  BY BrokerAssumption DEF Key, Keys
<1>3. Own'
  BY <1>1, <1>2, MoveKeepsInv DEF Moves
<1>4. reply[c] = "none" /\ Stage(c) = "pending"
  BY DEF ServiceInv, Own, CallInv, Stage
<1>5. Forfeited' = Forfeited
  BY DEF Forfeited
<1>6. CASE HasRow(Key(c))
  <2>1. Stages' = Stages
    BY <1>4, <1>6 DEF Stages, Stage
  <2>2. Service!Take(c)
    BY <1>4, <1>5, <1>6, <2>1 DEF Service!Take, Stages
  <2>3. QED
    BY <1>3, <2>2 DEF Serves, Service!ServiceNext
<1>7. CASE ~HasRow(Key(c))
  <2>1. c \in Forfeited
    BY <1>7 DEF ServiceInv, Own, OnlyCancelled, Underway, Forfeited
  <2>2. Stages' = [Stages EXCEPT ![c] = "dropped"]
    BY <1>4, <1>7, StageMoves DEF Stage
  <2>3. Service!Drop(c)
    BY <1>4, <1>5, <1>7, <2>1, <2>2, BrokerAssumption DEF Service!Drop, Service!Becomes, Stages
  <2>4. QED
    BY <1>3, <2>3 DEF Serves, Service!ServiceNext
<1>8. QED
  BY <1>6, <1>7

LEMMA RemoveRowServes ==
    ASSUME ServiceInv, IdsUsedOnce, NEW c \in Calls, RemoveRow(c)
    PROVE  Own' /\ Serves
<1> USE CallFacts DEF RemoveRow, Goto, backendVars, eventVars, sessionVars
<1>1. \A k \in Keys : /\ HasRow(k)' => HasRow(k)
                      /\ k # Key(c) /\ HasRow(k) => HasRow(k)'
  BY BrokerAssumption DEF ServiceInv, BrokerInv, LifetimeInv, LifetimeTypeOK, Remove, DropRow,
     HasRow, lifetimeVars, Key, Keys
<1>2. Own'
  BY <1>1, MoveKeepsInv DEF Moves
<1>3. Stages' = Stages /\ Forfeited' = Forfeited
  BY DEF Stages, Stage, Forfeited
<1>4. QED
  BY <1>2, <1>3 DEF Serves

(* The three ways a call ends that has been taken up; an answer is lost only *)
(* where nobody listens any more.                                          *)
LEMMA EndServes ==
    ASSUME ServiceInv, IdsUsedOnce, NEW c \in Calls, Respond(c) \/ Abandon(c) \/ Report(c)
    PROVE  Own' /\ Serves
<1> USE CallFacts DEF Leave, Goto, Holding
<1>1. /\ pc[c] \in {"removed", "reporting"} /\ pc' = [pc EXCEPT ![c] = "done"]
      /\ UNCHANGED <<lifetimeVars, gen, id, result, owner, history, slot, spawned, discarded,
                     fan, loop, conn>>
      /\ lock' = None
  BY DEF Respond, Abandon, Report, backendVars, eventVars, sessionVars
<1>2. reply' = reply \/ \E r : reply' = [reply EXCEPT ![c] = r]
  BY DEF Respond, Abandon, Report, Send
<1>3. Own'
  <2>1. \A k \in Keys : HasRow(k)' <=> HasRow(k)
    BY <1>1 DEF lifetimeVars, HasRow
  <2>2. QED
    BY <1>1, <1>2, <2>1, MoveKeepsInv DEF Moves
<1>4. /\ lock = c /\ reply[c] = "none" /\ Stage(c) = "pending" /\ Forfeited' = Forfeited
      /\ reply = [d \in Calls |-> reply[d]]
  BY <1>1 DEF ServiceInv, Own, CallInv, BrokerInv, LockInv, Stage, Forfeited
<1>5. CASE Respond(c) \/ Report(c)
  <2>1. \E r \in {"ok", "timeout", "noBackend", "failed"} :
            reply' = [reply EXCEPT ![c] = IF Listens(SessionOf[c]) THEN r ELSE "lost"]
    BY <1>5 DEF Respond, Report, Send
  <2>2. CASE Listens(SessionOf[c])
    <3>1. Stages' = [Stages EXCEPT ![c] = "answered"]
      BY <1>1, <1>4, <2>1, <2>2, StageMoves DEF Stage
    <3>2. Service!Answer(c)
      BY <1>1, <1>4, <3>1 DEF Service!Answer, Service!Becomes, Stages
    <3>3. QED
      BY <1>3, <3>2 DEF Serves, Service!ServiceNext
  <2>3. CASE ~Listens(SessionOf[c])
    <3>1. c \in Forfeited
      BY <1>1, <2>3 DEF ServiceInv, Own, LeftBehind, Forfeited
    <3>2. Stages' = [Stages EXCEPT ![c] = "dropped"]
      BY <1>1, <1>4, <2>1, <2>3, StageMoves DEF Stage
    <3>3. Service!Drop(c)
      BY <1>1, <1>4, <3>1, <3>2 DEF Service!Drop, Service!Becomes, Stages
    <3>4. QED
      BY <1>3, <3>3 DEF Serves, Service!ServiceNext
  <2>4. QED
    BY <2>2, <2>3
<1>6. CASE Abandon(c)
  <2>1. UNCHANGED reply /\ c \in Forfeited
    BY <1>6 DEF Abandon, ServiceInv, Own, OnlyCancelled, Forfeited
  <2>2. Stages' = [Stages EXCEPT ![c] = "dropped"]
    BY <1>1, <1>4, <2>1, StageMoves DEF Stage
  <2>3. Service!Drop(c)
    BY <1>1, <1>4, <2>1, <2>2 DEF Service!Drop, Service!Becomes, Stages
  <2>4. QED
    BY <1>3, <2>3 DEF Serves, Service!ServiceNext
<1>7. QED
  BY <1>5, <1>6

LEMMA EnsureSpawnsServes ==
    ASSUME ServiceInv, NEW c \in Calls, EnsureSpawns(c)
    PROVE  Own' /\ Serves
<1> USE CallFacts DEF EnsureSpawns, Installed, Goto, lifetimeVars, eventVars, sessionVars
<1>1. NumberInv'
  BY DEF ServiceInv, Own, NumberInv, DrawnFrom, Drawn, Past
<1>2. CallInv'
  <2>1. spawned' \in Nat
    BY DEF ServiceInv, Own, CallInv
  <2>2. \A d \in Calls : /\ pc'[d] = "done" <=> pc[d] = "done"
                         /\ pc[d] \in Past => pc'[d] \in Past
                         /\ pc'[d] = "disowned" => pc[d] = "disowned"
    BY DEF Past
  <2>3. UNCHANGED <<reply, result, owner, history, discarded, backendOf, loop, conn>>
    OBVIOUS
  <2> HIDE DEF EnsureSpawns
  <2>4. QED
    BY <2>1, <2>2, <2>3 DEF ServiceInv, Own, CallInv, Key, HasRow
<1>3. ASSUME Unrestarted
      PROVE  LastProcess'
  <2>1. \A d \in Calls : pc'[d] \notin AtBack \cup {"returned"}
    BY DEF ServiceInv, BrokerInv, LockInv, Holding, AtBack
  <2>2. QED
    BY <1>3, <2>1 DEF ServiceInv, Own, CallInv, LastProcess
<1>4. ASSUME Unrestarted
      PROVE  OnlyCancelled'
  <2>0. LastProcess /\ spawned \in Nat
    BY <1>4 DEF ServiceInv, Own, CallInv
  <2>1. fan.at = "discard" => fan.gen # spawned'
    BY <2>0 DEF LastProcess
  <2>2. \A s \in Sessions : loop[s].at = "discarding" => loop[s].gen # spawned'
    BY <2>0 DEF LastProcess
  <2>3. \A d \in Calls : pc'[d] \in Underway => HasRow(Key(d))' \/ d \in history.cancelled
    BY <1>4 DEF ServiceInv, Own, OnlyCancelled, Underway, HasRow, Key
  <2>4. QED
    BY <1>4, <2>1, <2>2, <2>3 DEF ServiceInv, Own, OnlyCancelled, Aimed
<1>5. Stages' = Stages /\ Forfeited' = Forfeited
  BY DEF Stages, Stage, Forfeited
<1>6. Unrestarted => LeftBehind'
  BY LeftStays DEF ServiceInv, Own, Listens
<1>7. QED
  BY <1>1, <1>2, <1>3, <1>4, <1>5, <1>6 DEF Own, Serves

LEMMA CloneServes ==
    ASSUME ServiceInv, NEW c \in Calls, CloneSlot(c)
    PROVE  Own' /\ Serves
<1> USE CallFacts DEF CloneSlot, Goto, lifetimeVars, backendVars, eventVars, sessionVars
<1>1. id[c] = None /\ gen = [d \in Calls |-> gen[d]]
  BY DEF ServiceInv, Own, NumberInv, Drawn, Past
<1>2. NumberInv'
  <2>1. \A g : DrawnFrom(g)' = DrawnFrom(g)
    BY <1>1 DEF DrawnFrom
  <2>2. QED
    BY <1>1, <2>1 DEF ServiceInv, Own, NumberInv, Drawn, Past
<1>3. CallInv'
  BY DEF ServiceInv, Own, CallInv, Past, Key, HasRow
<1>4. ASSUME Unrestarted
      PROVE  LastProcess'
  BY <1>1, <1>4 DEF ServiceInv, Own, LastProcess, AtBack
<1>5. ASSUME Unrestarted
      PROVE  OnlyCancelled'
  <2>1. \A g, b : Aimed(g, b) => Aimed(g, b)'
    BY <1>1 DEF Aimed, ServiceInv, Own, CallInv
  <2>2. \A d \in Calls : pc'[d] \in Underway => HasRow(Key(d))' \/ d \in history.cancelled
    BY <1>5 DEF ServiceInv, Own, OnlyCancelled, Underway, HasRow, Key
  <2>3. \A d \in Calls : d \in discarded /\ result'[d] = "broken" => d \in history.cancelled
    BY <1>5 DEF ServiceInv, Own, OnlyCancelled
  <2>4. QED
    BY <1>5, <2>1, <2>2, <2>3 DEF ServiceInv, Own, OnlyCancelled
<1>6. Stages' = Stages /\ Forfeited' = Forfeited
  BY DEF Stages, Stage, Forfeited
<1>7. Unrestarted => LeftBehind'
  BY LeftStays DEF ServiceInv, Own, Listens
<1>8. QED
  BY <1>2, <1>3, <1>4, <1>5, <1>6, <1>7 DEF Own, Serves

(* The number a call draws is greater than those drawn before.             *)
LEMMA CheckServes ==
    ASSUME ServiceInv, IdsUsedOnce, NEW c \in Calls, CheckRow(c)
    PROVE  Own' /\ Serves
<1> USE CallFacts
<1>1. pc[c] = "cloned" /\ id[c] = None /\ lock = c /\ lock # None /\ reply[c] = "none"
  BY BrokerAssumption DEF CheckRow, ServiceInv, BrokerInv, LockInv, Holding, Own, NumberInv,
     Drawn, Past, CallInv
<1>2. /\ UNCHANGED <<lifetimeVars, gen, result, reply, owner, history, slot, spawned, discarded,
                     fan, loop, conn>>
      /\ \A k \in Keys : HasRow(k)' <=> HasRow(k)
      /\ Forfeited' = Forfeited
  BY DEF CheckRow, backendVars, eventVars, sessionVars, lifetimeVars, HasRow, Forfeited
<1>3. CASE ~HasRow(Key(c))
  <2>1. pc' = [pc EXCEPT ![c] = "done"] /\ lock' = None /\ UNCHANGED id
    BY <1>3 DEF CheckRow, Leave, Goto
  <2>2. Own'
    BY <1>1, <1>2, <2>1, MoveKeepsInv DEF Moves
  <2>3. c \in Forfeited
    BY <1>1, <1>3 DEF ServiceInv, Own, OnlyCancelled, Underway, Forfeited
  <2>4. Stages' = [Stages EXCEPT ![c] = "dropped"]
    BY <1>1, <1>2, <2>1, StageMoves DEF Stage
  <2>5. Service!Drop(c)
    BY <1>1, <1>2, <2>1, <2>3, <2>4 DEF Service!Drop, Service!Becomes, Stages, Stage
  <2>6. QED
    BY <2>2, <2>5 DEF Serves, Service!ServiceNext
<1>4. CASE HasRow(Key(c))
  <2> DEFINE n == NextId(gen[c])
  <2>1. /\ pc' = [pc EXCEPT ![c] = "checked"] /\ id' = [id EXCEPT ![c] = n] /\ lock' = lock
        /\ id = [d \in Calls |-> id[d]] /\ n # None
    BY <1>4, SentinelAssumption DEF CheckRow, Goto, ServiceInv, BrokerInv, TaskInv
  <2>2. NumberInv'
    <3>1. \A g : IsFiniteSet(DrawnFrom(g)) /\ Cardinality(DrawnFrom(g)) \in Nat
      BY FS_Subset, FS_CardinalityType DEF DrawnFrom, IdsUsedOnce
    <3>2. n = Cardinality(DrawnFrom(gen[c])) + 1
      <4>1. n = 1 + Cardinality(DrawnFrom(gen[c]))
        BY DEF NextId, DrawnFrom
      <4>2. Cardinality(DrawnFrom(gen[c])) \in Nat
        BY <3>1
      <4> HIDE DEF n
      <4>3. QED
        BY <4>1, <4>2
    <3>3. DrawnFrom(gen[c])' = DrawnFrom(gen[c]) \cup {c} /\ c \notin DrawnFrom(gen[c])
      BY <1>1, <1>2, <2>1 DEF DrawnFrom
    <3>4. Cardinality(DrawnFrom(gen[c])') = n
      BY <3>1, <3>2, <3>3, FS_AddElement
    <3>5. \A g : g # gen[c] => DrawnFrom(g)' = DrawnFrom(g)
      BY <1>2, <2>1 DEF DrawnFrom
    <3>6. \A d \in Calls : d # c => id'[d] = id[d] /\ pc'[d] = pc[d] /\ gen'[d] = gen[d]
      BY <1>2, <2>1
    <3>7. id'[c] = n /\ pc'[c] = "checked" /\ gen'[c] = gen[c] /\ gen' = gen
      BY <1>2, <2>1, CallFacts
    <3>8. ASSUME NEW d \in Calls, id'[d] # None
          PROVE  /\ pc'[d] \in Drawn /\ id'[d] \in Nat
                 /\ id'[d] <= Cardinality(DrawnFrom(gen[d])')
      <4>1. CASE d = c
        BY <3>1, <3>2, <3>4, <3>7, <4>1 DEF Drawn
      <4>2. CASE d # c /\ gen[d] = gen[c]
        <5>1. /\ pc'[d] \in Drawn /\ id'[d] \in Nat
              /\ id'[d] <= Cardinality(DrawnFrom(gen[c]))
          BY <3>6, <3>8, <4>2 DEF ServiceInv, Own, NumberInv
        <5>2. Cardinality(DrawnFrom(gen[c])) \in Nat
          BY <3>1
        <5>3. Cardinality(DrawnFrom(gen[d])') = n
          BY <3>4, <3>7, <4>2 DEF DrawnFrom
        <5> HIDE DEF n
        <5>4. QED
          BY <3>2, <5>1, <5>2, <5>3
      <4>3. CASE d # c /\ gen[d] # gen[c]
        BY <3>5, <3>6, <3>8, <4>3 DEF ServiceInv, Own, NumberInv
      <4>4. QED
        BY <4>1, <4>2, <4>3
    <3>9. ASSUME NEW d \in Calls, d # c, gen[d] = gen[c]
          PROVE  id'[d] # n
      BY <2>1, <3>1, <3>2, <3>6, <3>9 DEF ServiceInv, Own, NumberInv
    <3>10. \A d, e \in Calls : gen'[d] = gen'[e] /\ id'[d] = id'[e] /\ id'[d] # None => d = e
      BY <3>6, <3>7, <3>9 DEF ServiceInv, Own, NumberInv
    <3>11. gen' = [d \in Calls |-> gen'[d]]
      BY <3>7 DEF ServiceInv, Own, NumberInv
    <3>12. QED
      BY <3>7, <3>8, <3>10, <3>11 DEF NumberInv, DrawnFrom
  <2>3. CallInv'
    <3>1. \A d \in Calls : /\ pc'[d] = "done" <=> pc[d] = "done"
                           /\ pc[d] \in Past => pc'[d] \in Past
                           /\ pc'[d] = "disowned" => pc[d] = "disowned"
      BY <1>1, <2>1 DEF Past
    <3>2. QED
      BY <1>2, <3>1 DEF ServiceInv, Own, CallInv, Key
  <2>4. ASSUME Unrestarted
        PROVE  LastProcess'
    BY <1>1, <1>2, <2>1, <2>4 DEF ServiceInv, Own, LastProcess, AtBack
  <2>5. ASSUME Unrestarted
        PROVE  OnlyCancelled'
    <3>1. \A g, b : Aimed(g, b) => Aimed(g, b)'
      BY <1>1, <1>2, <2>1 DEF Aimed, ServiceInv, Own, CallInv
    <3>2. \A d \in Calls : Key(d)' = Key(d) /\ Key(d) \in Keys
      BY BrokerAssumption DEF Key, Keys
    <3>3. \A d \in Calls : pc'[d] \in Underway => HasRow(Key(d))' \/ d \in history.cancelled
      BY <1>1, <1>2, <2>1, <2>5, <3>2 DEF ServiceInv, Own, OnlyCancelled, Underway
    <3>4. QED
      BY <1>2, <2>5, <3>1, <3>3 DEF ServiceInv, Own, OnlyCancelled
  <2>6. Stages' = Stages
    BY <1>1, <1>2, <2>1 DEF Stages, Stage
  <2>7. Unrestarted => LeftBehind'
    BY <1>1, <1>2, <2>1, LeftStays DEF ServiceInv, Own, Listens
  <2>8. QED
    BY <1>2, <2>1, <2>2, <2>3, <2>4, <2>5, <2>6, <2>7 DEF Own, Serves
<1>5. QED
  BY <1>3, <1>4

(* A new call is nobody's before it has its row.                           *)
LEMMA RequestServes ==
    ASSUME ServiceInv, IdsUsedOnce, NEW c \in Calls, Request(c)
    PROVE  Own' /\ Serves
<1> USE CallFacts
<1>1. /\ pc[c] = "unsent" /\ id[c] = None /\ reply[c] = "none" /\ Stage(c) = "unsent"
      /\ UNCHANGED <<gen, id, result, lock, backendVars, fan, loop, conn, history>>
      /\ Forfeited' = Forfeited /\ Listens(SessionOf[c])
  BY DEF Request, Reading, Listens, ServiceInv, Own, NumberInv, CallInv, Drawn, Past, Stage,
     eventVars, Forfeited
<1>2. Key(c) \in Keys
  BY BrokerAssumption DEF Key, Keys
<1>3. CASE /\ HasRow(Key(c)) /\ Goto(c, "done") /\ Send(c, "duplicate")
           /\ UNCHANGED <<lifetimeVars, owner>>
  <2>1. /\ pc' = [pc EXCEPT ![c] = "done"] /\ reply' = [reply EXCEPT ![c] = "duplicate"]
        /\ \A k \in Keys : HasRow(k)' <=> HasRow(k)
    BY <1>1, <1>3 DEF Goto, Send, lifetimeVars, HasRow
  <2>2. Own'
    BY <1>1, <1>3, <2>1, MoveKeepsInv DEF Moves, backendVars
  <2>3. reply = [d \in Calls |-> reply[d]]
    BY DEF ServiceInv, Own, CallInv
  <2>4. Stages' = [Stages EXCEPT ![c] = "answered"]
    BY <2>1, <2>3, StageMoves DEF Stage
  <2>5. Service!Refuse(c)
    BY <1>1, <2>4 DEF Service!Refuse, Service!Becomes, Stages
  <2>6. QED
    BY <2>2, <2>5 DEF Serves, Service!ServiceNext
<1>4. CASE /\ Admit(Key(c), TokenOf[c]) /\ Goto(c, "queued")
           /\ owner' = [owner EXCEPT ![Key(c)] = c] /\ UNCHANGED <<reply, outbox>>
  <2>1. /\ pc' = [pc EXCEPT ![c] = "queued"] /\ UNCHANGED reply
        /\ owner' = [owner EXCEPT ![Key(c)] = c]
        /\ backendOf' = [backendOf EXCEPT ![Key(c)] = None]
    BY <1>4 DEF Goto, Admit
  <2>2. HasRow(Key(c))' /\ \A k \in Keys : k # Key(c) => (HasRow(k)' <=> HasRow(k))
    BY <1>2, <2>1, SentinelAssumption DEF ServiceInv, BrokerInv, LifetimeInv, LifetimeTypeOK,
       HasRow, Key
  <2>3. NumberInv'
    <3>1. \A g : DrawnFrom(g)' = DrawnFrom(g)
      BY <1>1 DEF DrawnFrom
    <3>2. QED
      BY <1>1, <2>1, <3>1 DEF ServiceInv, Own, NumberInv
  <2>4. CallInv'
    <3>1. \A d \in Calls : (pc'[d] = "done" => pc[d] = "done") /\ (pc[d] \in Past => pc'[d] \in Past)
      BY <1>1, <2>1 DEF Past
    <3>2. owner = [k \in Keys |-> owner[k]]
      BY DEF ServiceInv, Own, CallInv
    <3>3. /\ owner' = [k \in Keys |-> owner'[k]] /\ owner'[Key(c)] = c
          /\ \A k \in Keys : k # Key(c) => owner'[k] = owner[k]
      BY <1>2, <2>1, <3>2
    <3>4. \A k \in Keys : HasRow(k)' => owner'[k] \in Calls /\ Key(owner'[k]) = k
      BY <2>2, <3>3 DEF ServiceInv, Own, CallInv
    <3>5. \A d \in Calls : (pc'[d] # "done" => reply'[d] = "none")
                           /\ (d \in discarded' => pc'[d] \in Past)
      BY <1>1, <2>1, <3>1 DEF ServiceInv, Own, CallInv, backendVars
    <3>6. QED
      BY <1>1, <2>1, <3>3, <3>4, <3>5 DEF ServiceInv, Own, CallInv, backendVars, Key
  <2>5. ASSUME Unrestarted
        PROVE  LastProcess'
    BY <1>1, <2>1, <2>5 DEF ServiceInv, Own, LastProcess, AtBack, backendVars
  <2>6. ASSUME Unrestarted
        PROVE  OnlyCancelled'
    <3>1. \A g, b : Aimed(g, b)' <=> Aimed(g, b)
      BY <1>1 DEF Aimed, backendVars
    <3>2. \A d \in Calls : Key(d)' = Key(d) /\ Key(d) \in Keys
      BY BrokerAssumption DEF Key, Keys
    <3>3. \A d \in Calls : pc'[d] \in Underway => HasRow(Key(d))' \/ d \in history.cancelled
      BY <1>1, <2>1, <2>2, <2>6, <3>2 DEF ServiceInv, Own, OnlyCancelled
    <3>4. QED
      BY <1>1, <2>6, <3>1, <3>3 DEF ServiceInv, Own, OnlyCancelled, backendVars
  <2>7. Stages' = [Stages EXCEPT ![c] = "pending"]
    BY <1>1, <2>1, StageMoves DEF Stage
  <2>8. Service!Send(c)
    BY <1>1, <2>7 DEF Service!Send, Service!Becomes, Stages
  <2>9. Unrestarted => LeftBehind'
    BY <1>1, <2>1, LeftStays DEF ServiceInv, Own, Listens
  <2>10. QED
    BY <1>1, <2>3, <2>4, <2>5, <2>6, <2>8, <2>9 DEF Own, Serves, Service!ServiceNext
<1>5. QED
  BY <1>3, <1>4 DEF Request

(* A restart makes every call one that may end in silence.                 *)
LEMMA ControlServes ==
    ASSUME ServiceInv, NEW s \in Sessions, NEW command \in Commands, ControlLine(s, command)
    PROVE  Own' /\ Serves
<1> USE CallFacts DEF ControlLine, lifetimeVars, taskVars, backendVars, eventVars
<1>1. history.controls' = history.controls \cup {command}
      /\ history.cancelled' = history.cancelled /\ history.left' = history.left
      /\ history' = [f \in HistoryFields |-> history'[f]]
  BY DEF Note, HistoryFields
<1>2. NumberInv'
  BY DEF ServiceInv, Own, NumberInv, DrawnFrom
<1>3. CallInv'
  <2>1. ASSUME NEW r \in Sessions
        PROVE  Controlled(loop'[r], history'.controls)
    <3>1. Controlled(loop[r], history.controls)
      BY DEF ServiceInv, Own, CallInv
    <3>2. loop'[r] = loop[r] \/ (loop'[r].at = "gate" /\ loop'[r].command = command)
      BY DEF Continue
    <3>3. QED
      BY <1>1, <3>1, <3>2 DEF Controlled
  <2>2. QED
    BY <1>1, <2>1 DEF ServiceInv, Own, CallInv, HasRow, Key
<1>4. Stages' = Stages
  BY DEF Stages, Stage
<1>5. CASE ~Unrestarted'
  <2>1. Own' /\ Forfeited' = Calls
    BY <1>2, <1>3, <1>5 DEF Own, Forfeited
  <2>2. Forfeited \subseteq Calls
    BY DEF Forfeited, ServiceInv, Own, CallInv
  <2>3. Service!Forfeit
    BY <1>4, <2>1, <2>2 DEF Service!Forfeit
  <2>4. QED
    BY <2>1, <2>3 DEF Serves, Service!ServiceNext
<1>6. CASE Unrestarted'
  <2>1. Unrestarted /\ Forfeited' = Forfeited
    BY <1>1, <1>6 DEF Forfeited
  <2>2. \A r \in Sessions : loop'[r] = loop[r] \/ loop'[r].at = "gate"
    BY DEF Continue
  <2>3. LastProcess'
    BY <2>1, <2>2 DEF ServiceInv, Own, LastProcess
  <2>4. OnlyCancelled'
    <3>1. \A g, b : Aimed(g, b)' <=> Aimed(g, b)
      BY <1>1 DEF Aimed
    <3>2. \A d \in Calls : HasRow(Key(d))' <=> HasRow(Key(d))
      BY DEF HasRow, Key
    <3>3. QED
      BY <1>1, <2>1, <2>2, <3>1, <3>2 DEF ServiceInv, Own, OnlyCancelled
  <2>5. LeftBehind'
    BY <1>1, <2>1, LeftStays DEF ServiceInv, Own, Listens
  <2>6. QED
    BY <1>2, <1>3, <1>4, <2>1, <2>3, <2>4, <2>5 DEF Own, Serves
<1>7. QED
  BY <1>5, <1>6

(* A loop that leaves, or is left, takes the answer from the calls it leaves *)
(* behind; the loop of a half-closed session has no rows any more.         *)
LEMMA CloseServes ==
    ASSUME ServiceInv, NEW s \in Sessions, CheckClosed(s) \/ Break(s)
    PROVE  Own' /\ Serves
<1> USE CallFacts
<1>1. /\ UNCHANGED <<lifetimeVars, taskVars, backendVars, eventVars, owner>>
      /\ history' = [f \in HistoryFields |-> history'[f]]
      /\ UNCHANGED <<history.cancelled, history.controls>>
      /\ conn' = [r \in Sessions |-> conn'[r]]
      /\ \A r \in Sessions : r # s => conn'[r] = conn[r]
      /\ \A r \in Sessions : loop'[r] = loop[r] \/ loop'[r] = Ready
  BY DEF CheckClosed, Break, Continue, Note, HistoryFields
<1>2. PICK more \in SUBSET Calls :
          /\ history'.left = history.left \cup more
          /\ \/ UNCHANGED conn
             \/ RowsOfSession(s) = {}
                /\ {c \in Calls : SessionOf[c] = s /\ pc[c] \in Answering} \subseteq more
             \/ {c \in Calls : SessionOf[c] = s} \subseteq more
  <2>1. CASE CheckClosed(s) /\ conn' # conn
    <3> DEFINE more == {c \in Calls : SessionOf[c] = s /\ pc[c] \in Answering}
    <3>1. RowsOfSession(s) = {} /\ history'.left = history.left \cup more
      BY <2>1 DEF CheckClosed, Note, HistoryFields
    <3>2. QED
      BY <3>1
  <2>2. CASE CheckClosed(s) /\ conn' = conn
    <3>1. \E more \in SUBSET Calls : history'.left = history.left \cup more
      <4> DEFINE more == {c \in Calls : SessionOf[c] = s /\ pc[c] \in Answering}
      <4>1. history'.left = history.left \cup more \/ history'.left = history.left \cup {}
        BY <2>2 DEF CheckClosed, Note, HistoryFields
      <4>2. QED
        BY <4>1
    <3>2. QED
      BY <2>2, <3>1
  <2>3. CASE Break(s)
    <3> DEFINE more == {c \in Calls : SessionOf[c] = s}
    <3>1. history'.left = history.left \cup more
      BY <2>3 DEF Break, Note, HistoryFields
    <3>2. QED
      BY <3>1
  <2>4. QED
    BY <2>1, <2>2, <2>3
<1>3. NumberInv'
  BY <1>1 DEF ServiceInv, Own, NumberInv, DrawnFrom, taskVars
<1>4. CallInv'
  <2>1. \A r \in Sessions : Controlled(loop'[r], history'.controls)
    <3>1. \A r \in Sessions : Controlled(loop[r], history.controls)
      BY DEF ServiceInv, Own, CallInv
    <3>2. Controlled(Ready, history.controls)
      BY DEF Controlled, Ready
    <3>3. history'.controls = history.controls
      BY <1>1
    <3>4. QED
      BY <1>1, <3>1, <3>2, <3>3
  <2>2. history'.left \subseteq Calls
    BY <1>2 DEF ServiceInv, Own, CallInv
  <2>3. QED
    BY <1>1, <2>1, <2>2 DEF ServiceInv, Own, CallInv, Key, HasRow, lifetimeVars, taskVars,
       backendVars
<1>5. ASSUME Unrestarted
      PROVE  LastProcess' /\ OnlyCancelled'
  <2>1. \A r \in Sessions : loop'[r].at \in {"cancelling", "discarding"} => loop'[r] = loop[r]
    BY <1>1 DEF Ready
  <2>2. LastProcess'
    BY <1>1, <1>5, <2>1 DEF ServiceInv, Own, LastProcess, taskVars, backendVars, eventVars
  <2>3. \A g, b : Aimed(g, b)' <=> Aimed(g, b)
    BY <1>1 DEF Aimed, taskVars, backendVars
  <2>4. \A c \in Calls : HasRow(Key(c))' <=> HasRow(Key(c))
    BY <1>1 DEF HasRow, Key, lifetimeVars
  <2>5. QED
    BY <1>1, <1>5, <2>1, <2>2, <2>3, <2>4 DEF ServiceInv, Own, OnlyCancelled, taskVars,
       backendVars, eventVars
<1>6. ASSUME Unrestarted
      PROVE  LeftBehind'
  <2> SUFFICES ASSUME NEW c \in Calls, pc[c] \notin {"unsent", "done"}
               PROVE  Listens(SessionOf[c])' \/ c \in history'.cancelled \cup history'.left
    BY <1>1 DEF LeftBehind, taskVars
  <2>1. Listens(SessionOf[c]) \/ c \in history'.cancelled \cup history'.left
    BY <1>1, <1>2, <1>6 DEF ServiceInv, Own, LeftBehind
  <2>2. CASE UNCHANGED conn \/ SessionOf[c] # s
    BY <1>1, <2>1, <2>2, BrokerAssumption DEF Listens
  <2>3. CASE SessionOf[c] = s /\ {d \in Calls : SessionOf[d] = s} \subseteq more
    BY <1>2, <2>3
  <2>4. CASE /\ SessionOf[c] = s /\ RowsOfSession(s) = {}
             /\ {d \in Calls : SessionOf[d] = s /\ pc[d] \in Answering} \subseteq more
    <3>1. CASE pc[c] \in Answering
      BY <1>2, <2>4, <3>1
    <3>2. CASE pc[c] \notin Answering
      <4>1. pc[c] \in Underway
        BY <3>2 DEF Underway, AtBack, Answering, Holding, Labels, ServiceInv, BrokerInv, TaskInv
      <4>2. Key(c) \in Keys /\ Key(c)[1] = s
        BY <2>4, BrokerAssumption DEF Key, Keys
      <4>3. ~HasRow(Key(c))
        BY <2>4, <4>2 DEF RowsOfSession, Rows
      <4>4. QED
        BY <1>1, <1>6, <4>1, <4>3 DEF ServiceInv, Own, OnlyCancelled
    <3>3. QED
      BY <3>1, <3>2
  <2>5. QED
    BY <1>2, <2>2, <2>3, <2>4
<1>7. Stages' = Stages /\ UNCHANGED lock
  BY <1>1 DEF Stages, Stage, taskVars
<1>8. CASE Unrestarted
  <2>1. Forfeited' = Forfeited \cup more
    BY <1>1, <1>2, <1>8 DEF Forfeited
  <2>2. Service!Forfeit
    BY <1>7, <2>1 DEF Service!Forfeit
  <2>3. QED
    BY <1>1, <1>3, <1>4, <1>5, <1>6, <2>2 DEF Own, Serves, Service!ServiceNext
<1>9. CASE ~Unrestarted
  BY <1>1, <1>3, <1>4, <1>7, <1>9 DEF Own, Serves, Forfeited
<1>10. QED
  BY <1>8, <1>9

(* A cancellation takes the row of a call and goes on to look for it in the *)
(* backend.                                                                *)
Cancels(k) ==
    /\ UNCHANGED <<pc, gen, id, result, reply, lock, owner, discarded, slot, spawned, conn>>
    /\ UNCHANGED <<history.controls, history.left>>
    /\ history' = [f \in HistoryFields |-> history'[f]]
    /\ HasRow(k) /\ history.cancelled' = history.cancelled \cup {owner[k]}
    /\ \A j \in Keys : HasRow(j)' <=> HasRow(j) /\ j # k
    /\ \/ UNCHANGED fan
       \/ /\ fan.at = "translate" /\ fan'.at = "discard" /\ fan'.gen = fan.gen
          /\ IsBound(k) /\ fan'.id = backendOf[k]
    /\ \A s \in Sessions :
          \/ loop'[s] = loop[s]
          \/ loop'[s].at \notin {"cancelling", "discarding", "gate", "spawning"}
          \/ /\ loop[s].at = "cancelling" /\ loop'[s].at = "discarding"
             /\ loop'[s].gen = loop[s].gen
             /\ IsBound(k) /\ loop'[s].id = backendOf[k]

LEMMA CancelServes ==
    ASSUME ServiceInv, IdsUsedOnce, NEW k \in Keys, Cancels(k)
    PROVE  Own' /\ Serves
<1> USE CallFacts DEF Cancels
<1>1. owner[k] \in Calls /\ Key(owner[k]) = k
  BY DEF ServiceInv, Own, CallInv
<1>2. NumberInv'
  BY DEF ServiceInv, Own, NumberInv, DrawnFrom
<1>3. CallInv'
  <2>1. \A s \in Sessions : loop'[s].at \in {"gate", "spawning"} => loop'[s] = loop[s]
    OBVIOUS
  <2>2. history'.cancelled \subseteq Calls
    BY <1>1 DEF ServiceInv, Own, CallInv
  <2>3. QED
    <3>1. ASSUME NEW s \in Sessions
          PROVE  Controlled(loop'[s], history.controls)
      <4>1. Controlled(loop[s], history.controls)
        BY DEF ServiceInv, Own, CallInv
      <4>2. CASE loop'[s].at \notin {"gate", "spawning"}
        BY <4>2 DEF Controlled
      <4>3. QED
        BY <2>1, <4>1, <4>2
    <3>2. QED
      BY <2>2, <3>1 DEF ServiceInv, Own, CallInv, Key
<1>4. ASSUME Unrestarted
      PROVE  LastProcess'
  BY <1>4 DEF ServiceInv, Own, LastProcess
<1>5. ASSUME Unrestarted
      PROVE  OnlyCancelled'
  <2>1. \A g, b : Aimed(g, b) => Aimed(g, b)'
    BY DEF Aimed
  <2>2. ASSUME NEW g, NEW b, IsBound(k), b = backendOf[k]
        PROVE  Aimed(g, b)'
    <3>1. /\ lock \in Calls /\ Key(lock) = k /\ backendOf[k] = id[lock]
          /\ pc[lock] \in AtBack \cup {"returned"}
      BY <2>2 DEF ServiceInv, BrokerInv, TaskInv, OneBoundRow, AtBack
    <3>2. owner[k] = lock
      BY <1>1, <3>1 DEF IdsUsedOnce
    <3>3. id[lock] # None
      BY <2>2, <3>1, SentinelAssumption DEF IsBound
    <3>4. gen[lock] = spawned
      BY <1>5, <3>1, <3>3 DEF ServiceInv, Own, LastProcess
    <3>5. QED
      BY <2>2, <3>1, <3>2, <3>3, <3>4 DEF Aimed
  <2>3. \A d \in Calls : Key(d)' = Key(d) /\ Key(d) \in Keys
    BY BrokerAssumption DEF Key, Keys
  <2>4. \A d \in Calls : pc'[d] \in Underway => HasRow(Key(d))' \/ d \in history'.cancelled
    <3>1. \A d \in Calls : Key(d) = k => d = owner[k]
      BY <1>1 DEF IdsUsedOnce
    <3>2. QED
      BY <1>5, <2>3, <3>1 DEF ServiceInv, Own, OnlyCancelled
  <2>5. fan'.at = "discard" => Aimed(fan.gen, fan.id)'
    <3>1. CASE UNCHANGED fan
      BY <1>5, <2>1, <3>1 DEF ServiceInv, Own, OnlyCancelled
    <3>2. CASE fan'.at = "discard" /\ IsBound(k) /\ fan'.id = backendOf[k]
      BY <2>2, <3>2
    <3>3. QED
      BY <3>1, <3>2
  <2>6. ASSUME NEW s \in Sessions, loop'[s].at = "discarding"
        PROVE  Aimed(loop[s].gen, loop[s].id)'
    <3>1. CASE loop'[s] = loop[s]
      BY <1>5, <2>1, <2>6, <3>1 DEF ServiceInv, Own, OnlyCancelled
    <3>2. CASE IsBound(k) /\ loop'[s].id = backendOf[k]
      BY <2>2, <3>2
    <3>3. QED
      BY <2>6, <3>1, <3>2
  <2>7. QED
    BY <1>5, <2>4, <2>5, <2>6 DEF ServiceInv, Own, OnlyCancelled
<1>6. Stages' = Stages
  BY DEF Stages, Stage
<1>7. Unrestarted => LeftBehind'
  BY LeftStays DEF ServiceInv, Own, Listens
<1>8. CASE Unrestarted
  <2>1. Forfeited' = Forfeited \cup {owner[k]}
    BY <1>8 DEF Forfeited
  <2>2. Service!Forfeit
    BY <1>1, <1>6, <2>1 DEF Service!Forfeit
  <2>3. QED
    BY <1>2, <1>3, <1>4, <1>5, <1>7, <1>8, <2>2 DEF Own, Serves, Service!ServiceNext
<1>9. CASE ~Unrestarted
  BY <1>2, <1>3, <1>6, <1>9 DEF Own, Serves, Forfeited
<1>10. QED
  BY <1>8, <1>9

LEMMA CancelRowServes ==
    ASSUME ServiceInv, IdsUsedOnce, NEW s \in Sessions, CancelRow(s)
    PROVE  Own' /\ Serves
<1> DEFINE k == loop[s].key
<1> USE CallFacts
<1>1. k \in Keys /\ loop[s].at = "cancelling"
  BY DEF CancelRow, ServiceInv, LoopInv
<1>2. /\ UNCHANGED <<taskVars, backendVars, fan, owner, conn>>
      /\ UNCHANGED <<history.controls, history.left>>
      /\ history' = [f \in HistoryFields |-> history'[f]]
      /\ history'.cancelled = history.cancelled \cup IF HasRow(k) THEN {owner[k]} ELSE {}
  BY DEF CancelRow, eventVars, Note, HistoryFields
<1>3. \A j \in Keys : HasRow(j)' <=> HasRow(j) /\ j # k
  BY <1>1 DEF CancelRow, Remove, DropRow, HasRow, ServiceInv, BrokerInv, LifetimeInv,
     LifetimeTypeOK, lifetimeVars
<1>4. CASE HasRow(k)
  <2>1. Cancels(k)
    BY <1>1, <1>2, <1>3, <1>4 DEF Cancels, CancelRow, Continue, taskVars, backendVars, Ready
  <2>2. QED
    BY <1>1, <2>1, CancelServes
<1>5. CASE ~HasRow(k)
  <2>1. ~IsBound(k)
    BY <1>5, SentinelAssumption DEF IsBound, HasRow
  <2>2. CalmFrame /\ CalmCalls
    BY <1>1, <1>2, <1>3, <1>5 DEF CalmFrame, CalmCalls, Listens, taskVars, backendVars
  <2>3. CalmWaits
    BY <1>2, <1>5, <2>1 DEF CalmWaits, CancelRow, Continue
  <2>4. QED
    BY <2>2, <2>3, CalmKeepsInv, CalmIsUnseen DEF CalmStep, Serves
<1>6. QED
  BY <1>4, <1>5

LEMMA TranslateServes ==
    ASSUME ServiceInv, IdsUsedOnce, TranslateCancel
    PROVE  Own' /\ Serves
<1> DEFINE b == id[fan.call]
           k == clientByBackend[b]
<1> USE CallFacts
<1>1. UNCHANGED <<taskVars, backendVars, loop, conn, owner>> /\ fan.at = "translate"
  BY DEF TranslateCancel, sessionVars
<1>2. CASE NamesRow(b)
  <2>1. k \in Keys /\ backendOf[k] = b /\ b \in BackendIds
    BY <1>2 DEF NamesRow, ServiceInv, BrokerInv, LifetimeInv, LifetimeTypeOK, BackendIndexExact
  <2>2. IsBound(k) /\ HasRow(k)
    BY <2>1, SentinelAssumption DEF IsBound, HasRow
  <2>3. /\ RemoveByBackend(b)
        /\ fan' = [at |-> "discard", id |-> b, gen |-> fan.gen, session |-> k[1]]
        /\ history' = [history EXCEPT !.cancelled = @ \cup {owner[k]},
                                      !.notices = @ \cup {<<fan.call, owner[k]>>}]
    BY <1>2 DEF TranslateCancel
  <2>4. \A j \in Keys : HasRow(j)' <=> HasRow(j) /\ j # k
    BY <2>1, <2>3 DEF RemoveByBackend, HasRow, ServiceInv, BrokerInv, LifetimeInv,
       LifetimeTypeOK
  <2>5. /\ UNCHANGED <<history.controls, history.left>>
        /\ history' = [f \in HistoryFields |-> history'[f]]
        /\ history.cancelled' = history.cancelled \cup {owner[k]}
    BY <2>3 DEF HistoryFields
  <2>6. Cancels(k)
    BY <1>1, <2>1, <2>2, <2>3, <2>4, <2>5 DEF Cancels, taskVars, backendVars
  <2>7. QED
    BY <2>1, <2>6, CancelServes
<1>3. CASE ~NamesRow(b)
  <2>1. fan' = Ready /\ UNCHANGED <<lifetimeVars, history>>
    BY <1>3 DEF TranslateCancel, RemoveByBackend
  <2>2. CalmStep
    BY <1>1, <2>1 DEF CalmStep, CalmFrame, CalmCalls, CalmWaits, HasRow, Listens, Ready,
       lifetimeVars, taskVars, backendVars
  <2>3. QED
    BY <2>2, CalmKeepsInv, CalmIsUnseen DEF Serves
<1>4. QED
  BY <1>2, <1>3

-----------------------------------------------------------------------------
(* Every step of the daemon is one of CallService or none.                 *)

LEMMA CalmServes == ASSUME ServiceInv, CalmStep PROVE Own' /\ Serves
BY CalmKeepsInv, CalmIsUnseen DEF Serves

LEMMA StepServes ==
    ASSUME ServiceInv, IdsUsedOnce, [Next]_vars
    PROVE  Own' /\ Serves
<1>1. ASSUME NEW c \in Calls, TaskStep(c)
      PROVE  Own' /\ Serves
  BY <1>1, TaskIsCalm, CalmServes, AcquireServes, EnsureSpawnsServes, CloneServes, CheckServes,
     RemoveRowServes, EndServes DEF TaskStep
<1>2. CASE FanStep
  BY <1>2, EventIsCalm, DiscardIsCalm, TranslateServes, CalmServes DEF FanStep
<1>3. ASSUME NEW s \in Sessions, LoopStep(s)
      PROVE  Own' /\ Serves
  BY <1>3, LoopIsCalm, DiscardIsCalm, RestartSpawnsIsCalm, CancelRowServes, CloseServes,
     CalmServes DEF LoopStep
<1>4. CASE ClientStep
  <2>1. ASSUME NEW k \in Keys, CancelLine(k)
        PROVE  Own' /\ Serves
    BY <2>1, LoopIsCalm, CalmServes DEF Keys
  <2>2. QED
    BY <1>4, <2>1, RequestServes, ControlServes, CloseServes, LoopIsCalm, CalmServes DEF ClientStep
<1>5. CASE BackendStep
  BY <1>5, BackendIsCalm, CalmServes
<1>6. CASE UNCHANGED vars
  BY <1>6, EventIsCalm, CalmServes
<1>7. QED
  BY <1>1, <1>2, <1>3, <1>4, <1>5, <1>6 DEF Next

LEMMA StepKeepsService ==
    ASSUME ServiceInv, IdsUsedOnce, [Next]_vars
    PROVE  ServiceInv'
BY StepServes, StepKeepsInv, LoopKeepsInv DEF ServiceInv

LEMMA InitServes ==
    ASSUME Init
    PROVE  ServiceInv /\ Service!ServiceInit
<1> USE DEF Init
<1>1. NumberInv
  BY DEF NumberInv
<1>2. CallInv
  BY DEF CallInv, Controlled, HistoryFields, HasRow, LifetimeInit, Ready
<1>3. LastProcess /\ OnlyCancelled /\ LeftBehind
  BY DEF LastProcess, OnlyCancelled, LeftBehind, Underway, AtBack, Ready
<1>4. Service!ServiceInit
  BY DEF Service!ServiceInit, Stages, Stage, Forfeited
<1>5. QED
  BY <1>1, <1>2, <1>3, <1>4, InitBroker DEF ServiceInv, Own

(* The daemon serves its calls one at a time and ends each once.  Before   *)
(* anybody restarts the backend, a call whose client gets no answer was    *)
(* cancelled, or its client was gone, or the loop of its half-closed       *)
(* session has left between the removal of its row and its answer: no call *)
(* is lost while it has its row, and the task of a call finds out by its   *)
(* row, its number and its tombstone alone that it was cancelled           *)
(* (handle_request, handle_session, translate_backend_cancel and           *)
(* cancel_client_request_for_owner).                                       *)
THEOREM BrokerServesCalls == ASSUME IdsUsedOnce PROVE Spec => CallServiceSpec
<1>1. ServiceInv /\ [Next]_vars => ServiceInv'
  BY StepKeepsService
<1>2. ServiceInv /\ [Next]_vars => Serves
  BY StepServes
<1>3. Init => ServiceInv /\ Service!ServiceInit
  BY InitServes
<1>4. QED
  BY <1>1, <1>2, <1>3, PTL DEF Spec, CallServiceSpec, Service!ServiceSpec, Serves

(* The requests the backends make of the clients change nothing of that.   *)
LEMMA PeersStepServes ==
    ASSUME ServiceInv, AskInv, IdsUsedOnce, [PeersNext]_peersVars
    PROVE  ServiceInv' /\ AskInv' /\ Serves
<1>1. PeersInv'
  BY PeersStepKeepsInv DEF PeersInv, ServiceInv
<1>2. CASE [Next]_vars
  BY <1>1, <1>2, StepServes DEF ServiceInv, PeersInv
<1>3. CASE AskStep
  BY <1>1, <1>3, AskIsCalm, CalmServes DEF ServiceInv, PeersInv
<1>4. QED
  BY <1>2, <1>3 DEF PeersNext, peersVars

LEMMA InitPeersServe ==
    ASSUME PeersInit
    PROVE  ServiceInv /\ AskInv /\ Service!ServiceInit
BY InitServes, InitPeers DEF PeersInit, PeersInv

(* So CallService also holds of the whole broker.                          *)
THEOREM PeersServeCalls == ASSUME IdsUsedOnce PROVE PeersSpec => CallServiceSpec
<1>1. ServiceInv /\ AskInv /\ [PeersNext]_peersVars => ServiceInv' /\ AskInv' /\ Serves
  BY PeersStepServes
<1>2. PeersInit => ServiceInv /\ AskInv /\ Service!ServiceInit
  BY InitPeersServe
<1>3. QED
  BY <1>1, <1>2, PTL DEF PeersSpec, CallServiceSpec, Service!ServiceSpec, Serves

-----------------------------------------------------------------------------
(* The backend's cancellations.                                            *)

(* An event names a call that was sent, and a pair of calls that were       *)
(* compared by their numbers keeps them.                                   *)
NoticeInv ==
    /\ events \in Seq(EventRecords)
    /\ fan.at = "translate" => fan.call \in Calls
    /\ \A pair \in history.notices :
           pair[1] \in Calls /\ pair[2] \in Calls /\ id[pair[1]] # None /\ id[pair[2]] # None

Compared == NoticeInv /\ NoticeEndsItsCall

LEMMA NumbersStay ==
    ASSUME ServiceInv, Next
    PROVE  \A c \in Calls : id[c] # None => id'[c] = id[c] /\ gen'[c] = gen[c]
<1>1. ASSUME NEW c \in Calls, CloneSlot(c)
      PROVE  \A d \in Calls : id[d] # None => id'[d] = id[d] /\ gen'[d] = gen[d]
  <2>1. id[c] = None
    BY <1>1 DEF CloneSlot, ServiceInv, Own, NumberInv, Drawn, Past
  <2>2. QED
    BY <1>1, <2>1 DEF CloneSlot, ServiceInv, Own, NumberInv
<1>2. ASSUME NEW c \in Calls, CheckRow(c)
      PROVE  \A d \in Calls : id[d] # None => id'[d] = id[d] /\ gen'[d] = gen[d]
  <2>1. id[c] = None
    BY <1>2 DEF CheckRow, ServiceInv, Own, NumberInv, Drawn, Past
  <2>2. QED
    BY <1>2, <2>1 DEF CheckRow, ServiceInv, BrokerInv, TaskInv
<1>3. ASSUME NEW c \in Calls, TaskStep(c), ~CloneSlot(c), ~CheckRow(c)
      PROVE  UNCHANGED <<gen, id>>
  BY <1>3 DEF TaskStep, Acquire, EnsureReuses, EnsureSpawns, EnsureFails, RefreshAfterSpawn,
     BindRow, Register, Write, Deliver, TimeOut, RemoveRow, Respond, Abandon, DetectFailure,
     EmptySlot, Report
<1>4. ASSUME FanStep \/ \E s \in Sessions : LoopStep(s)
      PROVE  UNCHANGED <<gen, id>>
  BY <1>4 DEF FanStep, TakeProgress, TakeCancel, TranslateCancel, DiscardCancelled, LoopStep,
     CancelRow, CancelPending, CancelPeer, TellBackend, ControlRefused, ControlTakes,
     RestartSpawns, RestartRefreshes, CheckClosed, WriteOut, taskVars
<1>5. ASSUME ClientStep \/ BackendStep
      PROVE  UNCHANGED <<gen, id>>
  BY <1>5 DEF ClientStep, Request, CancelLine, ControlLine, HalfClose, Break, BackendStep,
     Answer, Emit, Exit, Jam, Drain, taskVars
<1>6. QED
  BY <1>1, <1>2, <1>3, <1>4, <1>5 DEF Next

LEMMA NoticesStay ==
    ASSUME ServiceInv, Next, ~TranslateCancel
    PROVE  /\ history.notices' = history.notices
           /\ fan'.at = "translate" => TakeCancel \/ fan' = fan
<1> USE CallFacts DEF Note, HistoryFields, Ready, eventVars
<1>1. ASSUME NEW c \in Calls, TaskStep(c)
      PROVE  history.notices' = history.notices /\ fan' = fan
  BY <1>1 DEF TaskStep, Acquire, EnsureReuses, EnsureSpawns, EnsureFails, RefreshAfterSpawn,
     CloneSlot, CheckRow, BindRow, Register, Write, Deliver, TimeOut, RemoveRow, Respond, Abandon,
     DetectFailure, EmptySlot, Report
<1>2. CASE FanStep
  BY <1>2 DEF FanStep, TakeProgress, TakeCancel, DiscardCancelled
<1>3. ASSUME NEW s \in Sessions, LoopStep(s)
      PROVE  history.notices' = history.notices /\ fan' = fan
  BY <1>3 DEF LoopStep, CancelRow, CancelPending, CancelPeer, TellBackend, ControlRefused,
     ControlTakes, RestartSpawns, RestartRefreshes, CheckClosed, WriteOut
<1>4. CASE ClientStep \/ BackendStep
  BY <1>4 DEF ClientStep, Request, CancelLine, ControlLine, HalfClose, Break, BackendStep,
     Answer, Emit, Exit, Jam, Drain
<1>5. QED
  BY <1>1, <1>2, <1>3, <1>4 DEF Next

LEMMA NextCompares ==
    ASSUME ServiceInv, IdsUsedOnce, Compared, Next
    PROVE  Compared'
<1> USE CallFacts DEF Compared
<1>1. events' \in Seq(EventRecords)
  BY EventsStay DEF NoticeInv
<1>2. \A c \in Calls : id[c] # None => id'[c] = id[c] /\ gen'[c] = gen[c]
  BY NumbersStay
<1>3. CASE TranslateCancel
  <2> DEFINE b == id[fan.call]
             k == clientByBackend[b]
  <2>1. fan.call \in Calls /\ UNCHANGED <<gen, id>> /\ fan'.at # "translate"
    BY <1>3 DEF TranslateCancel, NoticeInv, taskVars, Ready
  <2>2. CASE NamesRow(b)
    <3>1. k \in Keys /\ backendOf[k] = b /\ b \in BackendIds /\ IsBound(k)
      BY <2>2 DEF NamesRow, ServiceInv, BrokerInv, LifetimeInv, LifetimeTypeOK,
         BackendIndexExact, IsBound
    <3>2. HasRow(k) /\ b # None
      BY <3>1, SentinelAssumption DEF HasRow
    <3>3. owner[k] = lock /\ lock \in Calls /\ id[lock] = b
      BY <3>1, <3>2 DEF ServiceInv, Own, CallInv, BrokerInv, OneBoundRow, TaskInv, IdsUsedOnce
    <3>4. gen[fan.call] = gen[lock] => fan.call = lock
      BY <2>1, <3>2, <3>3 DEF ServiceInv, Own, NumberInv
    <3>5. history'.notices = history.notices \cup {<<fan.call, lock>>}
      BY <1>3, <2>2, <3>3 DEF TranslateCancel, HistoryFields
    <3>6. QED
      BY <1>1, <2>1, <3>2, <3>3, <3>4, <3>5 DEF NoticeInv, NoticeEndsItsCall
  <2>3. CASE ~NamesRow(b)
    BY <1>1, <1>3, <2>1, <2>3 DEF TranslateCancel, RemoveByBackend, NoticeInv, NoticeEndsItsCall
  <2>4. QED
    BY <2>2, <2>3
<1>4. CASE ~TranslateCancel
  <2>1. history'.notices = history.notices
    BY <1>4, NoticesStay
  <2>2. fan'.at = "translate" => fan'.call \in Calls
    <3>1. CASE TakeCancel
      <4>1. Head(events) \in EventRecords /\ Head(events).kind = "cancel"
        BY <3>1 DEF TakeCancel, NoticeInv
      <4>2. Head(events).call \in Calls
        BY <4>1 DEF EventRecords, CallEvents
      <4>3. QED
        BY <3>1, <4>2 DEF TakeCancel, Ready
    <3>2. QED
      BY <1>4, <3>1, NoticesStay DEF NoticeInv
  <2>3. \A pair \in history.notices :
            id'[pair[1]] = id[pair[1]] /\ gen'[pair[1]] = gen[pair[1]]
            /\ id'[pair[2]] = id[pair[2]] /\ gen'[pair[2]] = gen[pair[2]]
    BY <1>2 DEF NoticeInv
  <2>4. QED
    BY <1>1, <2>1, <2>2, <2>3 DEF NoticeInv, NoticeEndsItsCall
<1>5. QED
  BY <1>3, <1>4

LEMMA AskCompares ==
    ASSUME Compared, AskStep
    PROVE  Compared'
<1> USE DEF Compared, NoticeInv, NoticeEndsItsCall, taskVars, eventVars, Ready, Offer
<1>1. ASSUME NEW a \in Asks, NEW g \in Gens, Ask(a, g)
      PROVE  Compared'
  <2>1. [kind |-> "ask", ask |-> a] \in EventRecords
    BY DEF EventRecords
  <2>2. QED
    BY <1>1, <2>1 DEF Ask
<1>2. ASSUME NEW a \in Asks, TakeAsk(a)
      PROVE  Compared'
  BY <1>2 DEF TakeAsk
<1>3. CASE TakeExit
  BY <1>3 DEF TakeExit
<1>4. ASSUME NEW g \in Gens, SendExit(g)
      PROVE  Compared'
  <2>1. [kind |-> "exit", gen |-> g] \in EventRecords
    BY DEF EventRecords
  <2>2. QED
    BY <1>4, <2>1 DEF SendExit
<1>5. CASE InsertAsk \/ SendAsk
  BY <1>5 DEF InsertAsk, SendAsk, OfferGoesOn
<1>6. ASSUME NEW a \in Asks, ReadAnswer(a)
      PROVE  Compared'
  BY <1>6 DEF ReadAnswer
<1>7. ASSUME NEW s \in Sessions, ForwardAnswer(s)
      PROVE  Compared'
  BY <1>7 DEF ForwardAnswer
<1>8. CASE RefuseAsk
  BY <1>8 DEF RefuseAsk
<1>9. QED
  BY <1>1, <1>2, <1>3, <1>4, <1>5, <1>6, <1>7, <1>8 DEF AskStep

(* A notice of the backend ends no other call of its process: a number      *)
(* names one call of a process for good, and the row found by it is the    *)
(* row of the call that holds the lock (translate_backend_cancel).          *)
THEOREM NoticesEndTheirCalls == ASSUME IdsUsedOnce PROVE PeersSpec => []NoticeEndsItsCall
<1> DEFINE Inv == ServiceInv /\ AskInv /\ Compared
<1>1. Inv /\ [PeersNext]_peersVars => Inv'
  <2> SUFFICES ASSUME Inv, [PeersNext]_peersVars PROVE Compared'
    BY PeersStepServes
  <2>1. CASE Next
    BY <2>1, NextCompares
  <2>2. CASE AskStep
    BY <2>2, AskCompares
  <2>3. CASE UNCHANGED vars
    BY <2>3 DEF Compared, NoticeInv, NoticeEndsItsCall, vars, taskVars, eventVars
  <2>4. QED
    BY <2>1, <2>2, <2>3 DEF PeersNext, peersVars
<1>2. PeersInit => Inv
  <2> SUFFICES ASSUME PeersInit PROVE Compared
    BY InitPeersServe
  <2>1. QED
    BY DEF PeersInit, Init, Compared, NoticeInv, NoticeEndsItsCall, Ready
<1>3. Inv => NoticeEndsItsCall
  BY DEF Compared
<1>4. QED
  BY <1>1, <1>2, <1>3, PTL DEF PeersSpec

-----------------------------------------------------------------------------
(* Half-closed sessions.                                                   *)

(* A loop does something for its client only as long as it reads.          *)
LoopOpen ==
    \A s \in Sessions : /\ conn[s] # "open" => loop[s] \in {Ready, Top}
                        /\ loop[s].at = "cancelling" => loop[s].key[1] = s

(* A cancelled call has lost its row, and gets no other.                   *)
CancelledGone == \A c \in history.cancelled : ~HasRow(Key(c)) /\ pc[c] # "unsent"

(* What keeps a sleeping loop from being forgotten.                        *)
Sleeps(s) == conn[s] = "half" /\ loop[s] = Ready /\ outbox[s] = {}
Waker(c) ==
    \/ HasRow(Key(c))
    \/ pc[c] = "removed" /\ ~(result[c] = "broken" /\ c \in discarded)
    \/ pc[c] \in {"failed", "reporting"}
Awaited(s) ==
    \/ \E c \in Calls : SessionOf[c] = s /\ Waker(c)
    \/ fan.at = "discard" /\ fan.session = s

Awake == TypeParts /\ NoOrphanRow /\ LoopOpen /\ CancelledGone /\ SleeperIsWoken
AwakeInv == ServiceInv /\ Awake

LEMMA AwakeFacts ==
    ASSUME AwakeInv
    PROVE  /\ loop = [s \in Sessions |-> loop[s]] /\ conn = [s \in Sessions |-> conn[s]]
           /\ outbox = [s \in Sessions |-> outbox[s]] /\ pc = [c \in Calls |-> pc[c]]
           /\ result = [c \in Calls |-> result[c]]
BY DEF AwakeInv, Awake, ServiceInv, Own, CallInv, BrokerInv, TaskInv, LoopInv, TypeParts,
   SessionType

LEMMA SleepersAwaited ==
    SleeperIsWoken <=> (Unrestarted => \A s \in Sessions : Sleeps(s) => Awaited(s))
BY DEF SleeperIsWoken, Sleeps, Awaited, Waker

(* Loops move on from one line of the client to the next.                  *)
LEMMA StepKeepsOpen ==
    ASSUME AwakeInv, [Next]_vars
    PROVE  LoopOpen'
<1> USE AwakeFacts DEF LoopOpen, AwakeInv, Awake
<1>1. CASE UNCHANGED <<loop, conn>>
  BY <1>1
<1>2. ASSUME NEW s \in Sessions, NEW w, conn[s] = "open", Continue(s, w), UNCHANGED conn,
             w.at # "cancelling"
      PROVE  LoopOpen'
  BY <1>2 DEF Continue
<1>3. ASSUME NEW s \in Sessions, LoopStep(s)
      PROVE  LoopOpen'
  <2>1. CASE CheckClosed(s)
    BY <2>1 DEF CheckClosed, Continue, Ready, Top
  <2>2. ASSUME NEW message \in Messages, WriteOut(s, message)
        PROVE  LoopOpen'
    BY <2>2 DEF WriteOut, Continue, Ready, Top
  <2>3. CASE CancelRow(s)
    BY <2>3 DEF CancelRow, Continue, Ready, Top
  <2>4. CASE CancelPending(s) \/ CancelPeer(s) \/ TellBackend(s) \/ ControlRefused(s)
    BY <1>2, <2>4 DEF CancelPending, CancelPeer, TellBackend, ControlRefused, Telling, Ready, Top
  <2>5. CASE ControlTakes(s) \/ RestartSpawns(s) \/ RestartRefreshes(s)
    BY <1>2, <2>5 DEF ControlTakes, RestartSpawns, RestartRefreshes, Ready, Top
  <2>6. QED
    BY <1>3, <2>1, <2>2, <2>3, <2>4, <2>5 DEF LoopStep
<1>4. CASE ClientStep
  <2>1. ASSUME NEW k \in Keys, CancelLine(k)
        PROVE  LoopOpen'
    BY <2>1 DEF CancelLine, Reading, Keys
  <2>2. ASSUME NEW s \in Sessions, NEW command \in Commands, ControlLine(s, command)
        PROVE  LoopOpen'
    BY <1>2, <2>2 DEF ControlLine, Reading
  <2>3. ASSUME NEW s \in Sessions, HalfClose(s) \/ Break(s)
        PROVE  LoopOpen'
    BY <2>3 DEF HalfClose, Break, Continue, Ready, Top
  <2>4. QED
    BY <1>1, <1>4, <2>1, <2>2, <2>3 DEF ClientStep, Request
<1>5. ASSUME NEW c \in Calls, TaskStep(c)
      PROVE  UNCHANGED <<loop, conn>>
  BY <1>5 DEF TaskStep, Acquire, EnsureReuses, EnsureSpawns, EnsureFails, RefreshAfterSpawn,
     CloneSlot, CheckRow, BindRow, Register, Write, Deliver, TimeOut, RemoveRow, Respond,
     Abandon, DetectFailure, EmptySlot, Report, sessionVars
<1>6. CASE FanStep \/ BackendStep \/ UNCHANGED vars
  BY <1>1, <1>6 DEF FanStep, TakeProgress, TakeCancel, TranslateCancel, DiscardCancelled,
     BackendStep, Answer, Emit, Exit, Jam, Drain, vars, sessionVars
<1>7. QED
  BY <1>1, <1>3, <1>4, <1>5, <1>6 DEF Next

LEMMA CallKeys == \A c \in Calls : Key(c) \in Keys /\ Key(c)[1] = SessionOf[c]
BY BrokerAssumption DEF Key, Keys

LEMMA GoneStays ==
    ASSUME AwakeInv, history.cancelled' = history.cancelled,
           \A k \in Keys : HasRow(k)' => HasRow(k),
           \A c \in Calls : pc'[c] = "unsent" => pc[c] = "unsent"
    PROVE  CancelledGone'
<1>1. \A c \in Calls : Key(c)' = Key(c)
  BY DEF Key
<1>2. history.cancelled \subseteq Calls
  BY DEF AwakeInv, ServiceInv, Own, CallInv
<1>3. QED
  BY <1>1, <1>2, CallKeys DEF CancelledGone, AwakeInv, Awake

(* The row that goes is that of the one call that asked for it.            *)
LEMMA CancelledGoes ==
    ASSUME AwakeInv, IdsUsedOnce, NEW k \in Keys, HasRow(k), UNCHANGED pc,
           history.cancelled' = history.cancelled \cup {owner[k]},
           \A j \in Keys : HasRow(j)' <=> HasRow(j) /\ j # k
    PROVE  CancelledGone'
<1>1. owner[k] \in Calls /\ Key(owner[k]) = k
  BY DEF AwakeInv, ServiceInv, Own, CallInv
<1>2. PICK c \in Calls : Key(c) = k /\ pc[c] # "unsent"
  BY DEF AwakeInv, Awake, NoOrphanRow
<1>3. c = owner[k]
  BY <1>1, <1>2 DEF IdsUsedOnce
<1>4. \A d \in Calls : Key(d)' = Key(d)
  BY DEF Key
<1>5. history.cancelled \subseteq Calls
  BY DEF AwakeInv, ServiceInv, Own, CallInv
<1>6. ASSUME NEW d \in history'.cancelled
      PROVE  ~HasRow(Key(d))' /\ pc'[d] # "unsent"
  <2>1. CASE d = c
    BY <1>2, <1>3, <1>4, <2>1, CallKeys
  <2>2. CASE d \in history.cancelled
    BY <1>4, <1>5, <2>2, CallKeys DEF CancelledGone, AwakeInv, Awake
  <2>3. QED
    BY <1>3, <1>6, <2>1, <2>2
<1>7. QED
  BY <1>6 DEF CancelledGone

LEMMA CalmKeepsGone == ASSUME AwakeInv, CalmStep PROVE CancelledGone'
BY GoneStays DEF CalmStep, CalmFrame, CalmCalls

LEMMA CancelRowTakes ==
    ASSUME AwakeInv, NEW s \in Sessions, CancelRow(s)
    PROVE  LET k == loop[s].key
           IN  /\ k \in Keys /\ loop[s].at = "cancelling" /\ UNCHANGED <<pc, result, discarded, fan>>
               /\ \A j \in Keys : HasRow(j)' <=> HasRow(j) /\ j # k
               /\ history'.cancelled = history.cancelled \cup (IF HasRow(k) THEN {owner[k]} ELSE {})
               /\ UNCHANGED history.controls
<1> DEFINE k == loop[s].key
<1>1. k \in Keys /\ loop[s].at = "cancelling"
  BY DEF CancelRow, AwakeInv, ServiceInv, LoopInv
<1>2. /\ UNCHANGED <<pc, result, discarded, fan>> /\ UNCHANGED history.controls
      /\ history'.cancelled = history.cancelled \cup (IF HasRow(k) THEN {owner[k]} ELSE {})
  BY CallFacts DEF CancelRow, eventVars, taskVars, backendVars, Note, HistoryFields, AwakeInv
<1>3. \A j \in Keys : HasRow(j)' <=> HasRow(j) /\ j # k
  BY <1>1 DEF CancelRow, Remove, DropRow, HasRow, AwakeInv, ServiceInv, BrokerInv, LifetimeInv,
     LifetimeTypeOK, lifetimeVars
<1>4. QED
  BY <1>1, <1>2, <1>3

LEMMA TranslateTakes ==
    ASSUME AwakeInv, TranslateCancel
    PROVE  /\ UNCHANGED <<pc, result, discarded>> /\ fan.at = "translate"
           /\ UNCHANGED history.controls
           /\ \/ \E k \in Keys :
                    /\ HasRow(k) /\ history'.cancelled = history.cancelled \cup {owner[k]}
                    /\ \A j \in Keys : HasRow(j)' <=> HasRow(j) /\ j # k
                    /\ fan'.at = "discard" /\ fan'.session = k[1]
              \/ /\ UNCHANGED history
                 /\ \A j \in Keys : HasRow(j)' <=> HasRow(j)
<1> DEFINE b == id[fan.call]
           k == clientByBackend[b]
<1> USE CallFacts DEF AwakeInv
<1>1. UNCHANGED <<pc, result, discarded>> /\ fan.at = "translate"
  BY DEF TranslateCancel, taskVars, backendVars
<1>2. CASE NamesRow(b)
  <2>1. k \in Keys /\ backendOf[k] = b /\ b \in BackendIds
    BY <1>2 DEF NamesRow, ServiceInv, BrokerInv, LifetimeInv, LifetimeTypeOK, BackendIndexExact
  <2>2. HasRow(k)
    BY <2>1, SentinelAssumption DEF HasRow
  <2>3. /\ RemoveByBackend(b) /\ fan'.at = "discard" /\ fan'.session = k[1]
        /\ history' = [history EXCEPT !.cancelled = @ \cup {owner[k]},
                                      !.notices = @ \cup {<<fan.call, owner[k]>>}]
    BY <1>2 DEF TranslateCancel
  <2>4. \A j \in Keys : HasRow(j)' <=> HasRow(j) /\ j # k
    BY <2>1, <2>3 DEF RemoveByBackend, HasRow, ServiceInv, BrokerInv, LifetimeInv,
       LifetimeTypeOK
  <2>5. history.controls' = history.controls /\ history.cancelled' = history.cancelled \cup {owner[k]}
    BY <2>3 DEF HistoryFields
  <2> HIDE DEF k
  <2>6. QED
    BY <1>1, <2>1, <2>2, <2>3, <2>4, <2>5
<1>3. CASE ~NamesRow(b)
  BY <1>1, <1>3 DEF TranslateCancel, RemoveByBackend, HasRow, lifetimeVars
<1>4. QED
  BY <1>2, <1>3

LEMMA CloseKeepsGone ==
    ASSUME AwakeInv, NEW s \in Sessions, CheckClosed(s) \/ Break(s)
    PROVE  CancelledGone'
<1>1. history.cancelled' = history.cancelled
  BY CallFacts DEF AwakeInv, CheckClosed, Break, Note, HistoryFields
<1>2. \A k \in Keys : HasRow(k)' <=> HasRow(k)
  BY DEF CheckClosed, Break, HasRow, lifetimeVars
<1>3. QED
  BY <1>1, <1>2, GoneStays DEF CheckClosed, Break, taskVars

LEMMA TaskKeepsGone ==
    ASSUME AwakeInv, NEW c \in Calls, TaskStep(c)
    PROVE  CancelledGone'
<1> USE AwakeFacts
<1>1. CASE \/ EnsureReuses(c) \/ RefreshAfterSpawn(c) \/ EnsureFails(c) \/ BindRow(c)
           \/ Register(c) \/ Write(c) \/ Deliver(c) \/ TimeOut(c) \/ DetectFailure(c)
           \/ EmptySlot(c)
  BY <1>1, TaskIsCalm, CalmKeepsGone DEF AwakeInv
<1>2. CASE RemoveRow(c)
  <2>1. \A k \in Keys : HasRow(k)' => HasRow(k)
    BY <1>2, CallKeys, RemoveTakesRow DEF RemoveRow, AwakeInv, ServiceInv
  <2>2. QED
    BY <1>2, <2>1, GoneStays DEF RemoveRow, Goto
<1>3. CASE \/ Acquire(c) \/ EnsureSpawns(c) \/ CloneSlot(c) \/ CheckRow(c)
           \/ Respond(c) \/ Abandon(c) \/ Report(c)
  <2>1. UNCHANGED <<backendOf, history>>
    BY <1>3 DEF Acquire, EnsureSpawns, CloneSlot, CheckRow, Respond, Abandon, Report, lifetimeVars
  <2>2. \E to : to # "unsent" /\ pc' = [pc EXCEPT ![c] = to]
    BY <1>3 DEF Acquire, EnsureSpawns, CloneSlot, CheckRow, Respond, Abandon, Report, Leave, Goto
  <2>3. \A k \in Keys : HasRow(k)' <=> HasRow(k)
    BY <2>1 DEF HasRow
  <2>4. QED
    BY <2>1, <2>2, <2>3, GoneStays
<1>4. QED
  BY <1>1, <1>2, <1>3 DEF TaskStep

LEMMA RequestKeepsGone ==
    ASSUME AwakeInv, IdsUsedOnce, NEW c \in Calls, Request(c)
    PROVE  CancelledGone'
<1> USE AwakeFacts, CallKeys
<1>1. UNCHANGED history /\ pc[c] = "unsent" /\ \E to : to # "unsent" /\ pc' = [pc EXCEPT ![c] = to]
  BY DEF Request, Goto
<1>2. \A k \in Keys : k # Key(c) /\ HasRow(k)' => HasRow(k)
  BY DEF Request, Admit, HasRow, lifetimeVars, AwakeInv, ServiceInv, BrokerInv, LifetimeInv,
     LifetimeTypeOK
<1>3. history.cancelled \subseteq Calls
  BY DEF AwakeInv, ServiceInv, Own, CallInv
<1>4. ASSUME NEW d \in history.cancelled
      PROVE  ~HasRow(Key(d))' /\ pc'[d] # "unsent"
  <2>1. d # c /\ ~HasRow(Key(d)) /\ pc[d] # "unsent"
    BY <1>1 DEF AwakeInv, Awake, CancelledGone
  <2>2. Key(d) # Key(c) /\ Key(d)' = Key(d)
    BY <1>3, <2>1 DEF IdsUsedOnce, Key
  <2>3. QED
    BY <1>1, <1>2, <1>3, <2>1, <2>2
<1>5. QED
  BY <1>1, <1>4 DEF CancelledGone

LEMMA StepKeepsGone ==
    ASSUME AwakeInv, IdsUsedOnce, [Next]_vars
    PROVE  CancelledGone'
<1>1. CASE FanStep
  <2>1. CASE TranslateCancel
    <3>1. CASE \E k \in Keys :
                  /\ HasRow(k) /\ history'.cancelled = history.cancelled \cup {owner[k]}
                  /\ \A j \in Keys : HasRow(j)' <=> HasRow(j) /\ j # k
      BY <2>1, <3>1, TranslateTakes, CancelledGoes
    <3>2. CASE UNCHANGED history /\ \A j \in Keys : HasRow(j)' <=> HasRow(j)
      BY <2>1, <3>2, TranslateTakes, GoneStays
    <3>3. QED
      BY <2>1, <3>1, <3>2, TranslateTakes
  <2>2. QED
    BY <1>1, <2>1, EventIsCalm, DiscardIsCalm, CalmKeepsGone DEF FanStep, AwakeInv
<1>2. ASSUME NEW s \in Sessions, LoopStep(s)
      PROVE  CancelledGone'
  <2>1. CASE CancelRow(s)
    <3> DEFINE k == loop[s].key
    <3>1. CASE HasRow(k)
      BY <2>1, <3>1, CancelRowTakes, CancelledGoes
    <3>2. CASE ~HasRow(k)
      BY <2>1, <3>2, CancelRowTakes, GoneStays
    <3>3. QED
      BY <3>1, <3>2
  <2>2. QED
    BY <1>2, <2>1, LoopIsCalm, DiscardIsCalm, RestartSpawnsIsCalm, CalmKeepsGone,
       CloseKeepsGone DEF LoopStep, AwakeInv
<1>3. CASE ClientStep
  <2>1. ASSUME NEW k \in Keys, CancelLine(k)
        PROVE  CancelledGone'
    BY <2>1, LoopIsCalm, CalmKeepsGone DEF Keys, AwakeInv
  <2>2. ASSUME NEW s \in Sessions, NEW command \in Commands, ControlLine(s, command)
        PROVE  CancelledGone'
    <3>1. history.cancelled' = history.cancelled
      BY <2>2, CallFacts DEF ControlLine, Note, HistoryFields, AwakeInv
    <3>2. \A k \in Keys : HasRow(k)' <=> HasRow(k)
      BY <2>2 DEF ControlLine, HasRow, lifetimeVars
    <3>3. QED
      BY <2>2, <3>1, <3>2, GoneStays DEF ControlLine, taskVars
  <2>3. QED
    BY <1>3, <2>1, <2>2, RequestKeepsGone, LoopIsCalm, CalmKeepsGone, CloseKeepsGone
       DEF ClientStep, AwakeInv
<1>4. CASE BackendStep
  BY <1>4, BackendIsCalm, CalmKeepsGone DEF AwakeInv
<1>5. CASE UNCHANGED vars
  BY <1>5, EventIsCalm, CalmKeepsGone DEF AwakeInv
<1>6. QED
  BY <1>1, <1>2, <1>3, <1>4, <1>5, TaskKeepsGone DEF Next

(* What wakes a loop stays until it has done so.                           *)
Stays(c) ==
    \/ pc[c] \notin {"removed", "failed", "reporting"}
    \/ pc'[c] = pc[c] /\ result'[c] = result[c] /\ (c \in discarded' => c \in discarded)
    \/ pc'[c] \in {"failed", "reporting"}

LEMMA WakerStays ==
    ASSUME NEW c \in Calls, Stays(c), \A k \in Keys : HasRow(k) => HasRow(k)'
    PROVE  Waker(c) => Waker(c)'
<1>1. Key(c)' = Key(c)
  BY DEF Key
<1>2. HasRow(Key(c)) => HasRow(Key(c))'
  BY <1>1, CallKeys
<1>3. QED
  BY <1>2 DEF Waker, Stays

(* A loop falls asleep only after it has looked; until then no step but one *)
(* that takes what would wake it matters.                                  *)
LEMMA SleepersStay ==
    ASSUME AwakeInv, Unrestarted' => Unrestarted,
           \A s \in Sessions : Sleeps(s)' => Sleeps(s),
           Unrestarted => \A c \in Calls : Waker(c) => Waker(c)',
           fan.at = "discard" => fan' = fan
    PROVE  SleeperIsWoken'
<1>1. Unrestarted => \A s \in Sessions : Sleeps(s) => Awaited(s)
  BY SleepersAwaited DEF AwakeInv, Awake
<1>2. ASSUME Unrestarted, NEW s \in Sessions, Awaited(s)
      PROVE  Awaited(s)'
  BY <1>2 DEF Awaited
<1>3. Unrestarted' => \A s \in Sessions : Sleeps(s)' => Awaited(s)'
  BY <1>1, <1>2
<1>4. QED
  BY <1>3 DEF SleeperIsWoken, Sleeps, Awaited, Waker

LEMMA NobodyDozes ==
    ASSUME UNCHANGED <<conn, loop>>,
           outbox' = outbox \/ \E to, message : outbox' = Posted(to, message)
    PROVE  \A s \in Sessions : Sleeps(s)' => Sleeps(s)
BY DEF Sleeps, Posted

LEMMA ServedStays ==
    ASSUME AwakeInv, NEW c \in Calls,
           \/ Acquire(c) \/ EnsureReuses(c) \/ EnsureSpawns(c) \/ RefreshAfterSpawn(c)
           \/ EnsureFails(c) \/ CloneSlot(c) \/ CheckRow(c) \/ BindRow(c) \/ Register(c)
           \/ Write(c) \/ Deliver(c) \/ TimeOut(c) \/ DetectFailure(c) \/ EmptySlot(c)
    PROVE  \A d \in Calls : Stays(d)
<1> USE AwakeFacts DEF Goto, Leave, Stays
<1>1. CASE \/ Acquire(c) \/ EnsureReuses(c) \/ EnsureSpawns(c) \/ RefreshAfterSpawn(c)
           \/ CheckRow(c) \/ BindRow(c)
  BY <1>1 DEF Acquire, EnsureReuses, EnsureSpawns, RefreshAfterSpawn, CheckRow, BindRow,
     backendVars
<1>2. CASE EnsureFails(c) \/ CloneSlot(c) \/ Register(c) \/ Write(c) \/ Deliver(c)
  BY <1>2 DEF EnsureFails, CloneSlot, Register, Write, Deliver, backendVars
<1>3. CASE TimeOut(c)
  BY <1>3 DEF TimeOut
<1>4. CASE DetectFailure(c)
  BY <1>4 DEF DetectFailure, backendVars
<1>5. CASE EmptySlot(c)
  BY <1>5 DEF EmptySlot, PcAfterEnd, ResultAfterEnd, HeldBy, Ended
<1>6. QED
  BY <1>1, <1>2, <1>3, <1>4, <1>5

LEMMA TaskWakes ==
    ASSUME AwakeInv, NEW c \in Calls, TaskStep(c)
    PROVE  SleeperIsWoken'
<1> USE AwakeFacts
<1>1. /\ UNCHANGED <<conn, loop, fan>>
      /\ outbox' = outbox \/ \E to, message : outbox' = Posted(to, message)
  BY DEF TaskStep, Acquire, EnsureReuses, EnsureSpawns, EnsureFails, RefreshAfterSpawn,
     CloneSlot, CheckRow, BindRow, Register, Write, Deliver, TimeOut, RemoveRow, Respond,
     Abandon, DetectFailure, EmptySlot, Report, Send, eventVars, sessionVars
<1>2. \A s \in Sessions : Sleeps(s)' => Sleeps(s)
  BY <1>1, NobodyDozes
<1>3. UNCHANGED history.controls
  BY CallFacts DEF AwakeInv, TaskStep, Acquire, EnsureReuses, EnsureSpawns, EnsureFails,
     RefreshAfterSpawn, CloneSlot, CheckRow, BindRow, Register, Write, Deliver, TimeOut,
     RemoveRow, Respond, Abandon, DetectFailure, EmptySlot, Report, Note, HistoryFields
<1>4. CASE \/ Acquire(c) \/ EnsureReuses(c) \/ EnsureSpawns(c) \/ RefreshAfterSpawn(c)
           \/ EnsureFails(c) \/ CloneSlot(c) \/ CheckRow(c) \/ BindRow(c) \/ Register(c)
           \/ Write(c) \/ Deliver(c) \/ TimeOut(c) \/ DetectFailure(c) \/ EmptySlot(c)
  <2>1. \A d \in Calls : Stays(d)
    BY <1>4, ServedStays
  <2>2. \A k \in Keys : HasRow(k) => HasRow(k)'
    <3>1. CASE BindRow(c)
      BY <3>1, BindIsFresh, SentinelAssumption DEF BindRow, Bind, HasRow, AwakeInv, ServiceInv,
         BrokerInv, LifetimeInv, LifetimeTypeOK, lifetimeVars
    <3>2. CASE UNCHANGED lifetimeVars
      BY <3>2 DEF HasRow, lifetimeVars
    <3>3. QED
      BY <1>4, <3>1, <3>2 DEF Acquire, EnsureReuses, EnsureSpawns, RefreshAfterSpawn,
         EnsureFails, CloneSlot, CheckRow, Register, Write, Deliver, TimeOut, DetectFailure,
         EmptySlot
  <2>3. QED
    BY <1>1, <1>2, <1>3, <2>1, <2>2, WakerStays, SleepersStay
<1>5. CASE RemoveRow(c)
  <2>1. /\ pc[c] = "returned" /\ pc' = [pc EXCEPT ![c] = "removed"]
        /\ UNCHANGED <<result, discarded>>
    BY <1>5 DEF RemoveRow, Goto, backendVars
  <2>2. \A k \in Keys : k # Key(c) /\ HasRow(k) => HasRow(k)'
    BY <1>5, CallKeys DEF RemoveRow, Remove, DropRow, HasRow, AwakeInv, ServiceInv, BrokerInv,
       LifetimeInv, LifetimeTypeOK, lifetimeVars
  <2>3. ASSUME Unrestarted, HasRow(Key(c))
        PROVE  ~(result[c] = "broken" /\ c \in discarded)
    BY <2>3 DEF AwakeInv, Awake, ServiceInv, Own, OnlyCancelled, CancelledGone
  <2>4. ASSUME Unrestarted, NEW d \in Calls, Waker(d)
        PROVE  \E e \in Calls : SessionOf[e] = SessionOf[d] /\ Waker(e)'
    <3>1. Key(d)' = Key(d)
      BY DEF Key
    <3>2. CASE d = c
      BY <2>1, <2>3, <2>4, <3>2 DEF Waker
    <3>3. CASE d # c /\ Key(d) # Key(c)
      BY <2>1, <2>2, <2>4, <3>1, <3>3, CallKeys DEF Waker
    <3>4. CASE d # c /\ Key(d) = Key(c) /\ HasRow(Key(d))
      <4>1. Waker(c)'
        BY <2>1, <2>3, <2>4, <3>4 DEF Waker
      <4>2. QED
        BY <3>4, <4>1 DEF Key
    <3>5. CASE d # c /\ ~HasRow(Key(d))
      BY <2>1, <2>4, <3>5 DEF Waker
    <3>6. QED
      BY <3>2, <3>3, <3>4, <3>5
  <2>5. Unrestarted => \A s \in Sessions : Sleeps(s) => Awaited(s)
    BY SleepersAwaited DEF AwakeInv, Awake
  <2>6. Unrestarted' => \A s \in Sessions : Sleeps(s)' => Awaited(s)'
    BY <1>1, <1>2, <1>3, <2>4, <2>5 DEF Awaited
  <2>7. QED
    BY <2>6 DEF SleeperIsWoken, Sleeps, Awaited, Waker
<1>6. CASE Respond(c) \/ Abandon(c) \/ Report(c)
  <2>1. /\ pc' = [pc EXCEPT ![c] = "done"] /\ UNCHANGED <<result, discarded, lifetimeVars>>
    BY <1>6 DEF Respond, Abandon, Report, Leave, Goto, backendVars
  <2>2. \A k \in Keys : HasRow(k)' <=> HasRow(k)
    BY <2>1 DEF HasRow, lifetimeVars
  <2>3. \A d \in Calls : d # c /\ Waker(d) => Waker(d)'
    BY <2>1, <2>2, WakerStays DEF Stays
  <2>4. CASE Abandon(c)
    <3>1. Waker(c) => Waker(c)'
      BY <2>2, <2>4, CallKeys DEF Abandon, Waker, Key
    <3>2. QED
      BY <1>1, <1>2, <1>3, <2>3, <3>1, SleepersStay
  <2>5. CASE Respond(c) \/ Report(c)
    <3>1. \A s \in Sessions : s = SessionOf[c] => ~Sleeps(s)'
      BY <1>1, <2>5 DEF Respond, Report, Send, Posted, Listens, Sleeps
    <3>2. Unrestarted => \A s \in Sessions : Sleeps(s) => Awaited(s)
      BY SleepersAwaited DEF AwakeInv, Awake
    <3>3. Unrestarted' => \A s \in Sessions : Sleeps(s)' => Awaited(s)'
      BY <1>1, <1>2, <1>3, <2>3, <3>1, <3>2 DEF Awaited
    <3>4. QED
      BY <3>3 DEF SleeperIsWoken, Sleeps, Awaited, Waker
  <2>6. QED
    BY <1>6, <2>4, <2>5
<1>7. QED
  BY <1>4, <1>5, <1>6 DEF TaskStep

(* Ends of processes and tombstones reach calls that wait.                 *)
LEMMA OthersStay ==
    ASSUME AwakeInv,
           \/ \E g, b : Discard(g, b)
           \/ \E g : pc' = PcAfterEnd(g, pc) /\ result' = ResultAfterEnd(g) /\ UNCHANGED discarded
           \/ UNCHANGED <<pc, result, discarded>>
    PROVE  \A c \in Calls : Stays(c)
<1> USE AwakeFacts DEF Stays, WaitsFor, HeldBy
<1>1. CASE \E g, b : Discard(g, b)
  BY <1>1 DEF Discard
<1>2. CASE \E g : pc' = PcAfterEnd(g, pc) /\ result' = ResultAfterEnd(g) /\ UNCHANGED discarded
  BY <1>2 DEF PcAfterEnd, ResultAfterEnd
<1>3. CASE UNCHANGED <<pc, result, discarded>>
  BY <1>3
<1>4. QED
  BY <1>1, <1>2, <1>3

LEMMA FanWakes ==
    ASSUME AwakeInv, FanStep
    PROVE  SleeperIsWoken'
<1> USE AwakeFacts
<1>1. UNCHANGED <<conn, loop>> /\ UNCHANGED history.controls
  BY TranslateTakes DEF FanStep, TakeProgress, TakeCancel, TranslateCancel, DiscardCancelled,
     sessionVars
<1>2. outbox' = outbox \/ \E to, message : outbox' = Posted(to, message)
  BY DEF FanStep, TakeProgress, TakeCancel, TranslateCancel, DiscardCancelled, sessionVars
<1>3. \A s \in Sessions : Sleeps(s)' => Sleeps(s)
  BY <1>1, <1>2, NobodyDozes
<1>4. Unrestarted => \A s \in Sessions : Sleeps(s) => Awaited(s)
  BY SleepersAwaited DEF AwakeInv, Awake
<1>5. CASE TakeProgress \/ TakeCancel
  <2>1. UNCHANGED <<pc, result, discarded, backendOf>> /\ fan.at # "discard"
    BY <1>5 DEF TakeProgress, TakeCancel, Ready, lifetimeVars, taskVars, backendVars
  <2>2. \A c \in Calls : Waker(c) => Waker(c)'
    BY <2>1, OthersStay, WakerStays DEF HasRow
  <2>3. QED
    BY <1>1, <1>3, <2>1, <2>2, SleepersStay
<1>6. CASE TranslateCancel
  <2>1. ASSUME NEW k \in Keys, \A j \in Keys : HasRow(j)' <=> HasRow(j) /\ j # k,
               fan'.at = "discard", fan'.session = k[1]
        PROVE  SleeperIsWoken'
    <3>1. ASSUME NEW c \in Calls, Waker(c)
          PROVE  Waker(c)' \/ SessionOf[c] = fan'.session
      <4>1. CASE Key(c) = k
        BY <2>1, <4>1, CallKeys
      <4>2. CASE Key(c) # k
        BY <1>6, <2>1, <3>1, <4>2, CallKeys, TranslateTakes DEF Waker, Key
      <4>3. QED
        BY <4>1, <4>2
    <3>2. fan.at # "discard"
      BY <1>6 DEF TranslateCancel
    <3>3. Unrestarted' => \A s \in Sessions : Sleeps(s)' => Awaited(s)'
      BY <1>1, <1>3, <1>4, <2>1, <3>1, <3>2 DEF Awaited
    <3>4. QED
      BY <3>3 DEF SleeperIsWoken, Sleeps, Awaited, Waker
  <2>2. CASE \A j \in Keys : HasRow(j)' <=> HasRow(j)
    <3>1. \A c \in Calls : Waker(c) => Waker(c)'
      BY <1>6, <2>2, OthersStay, WakerStays, TranslateTakes
    <3>2. fan.at # "discard"
      BY <1>6 DEF TranslateCancel
    <3>3. QED
      BY <1>1, <1>3, <3>1, <3>2, SleepersStay
  <2>3. QED
    BY <1>6, <2>1, <2>2, TranslateTakes
<1>7. CASE DiscardCancelled
  <2>1. \A c \in Calls : Waker(c) => Waker(c)'
    BY <1>7, OthersStay, WakerStays DEF DiscardCancelled, HasRow, lifetimeVars
  <2>2. \A s \in Sessions : s = fan.session => ~Sleeps(s)'
    BY <1>1, <1>7 DEF DiscardCancelled, Posted, Listens, Sleeps
  <2>3. Unrestarted' => \A s \in Sessions : Sleeps(s)' => Awaited(s)'
    BY <1>1, <1>3, <1>4, <2>1, <2>2 DEF Awaited
  <2>4. QED
    BY <2>3 DEF SleeperIsWoken, Sleeps, Awaited, Waker
<1>8. QED
  BY <1>5, <1>6, <1>7 DEF FanStep

LEMMA LoopWakes ==
    ASSUME AwakeInv, NEW s \in Sessions, LoopStep(s)
    PROVE  SleeperIsWoken'
<1> USE AwakeFacts
<1>1. loop[s].at \notin {"ready", "top"} => conn[s] = "open"
  BY DEF AwakeInv, Awake, LoopOpen, Ready, Top
<1>2. UNCHANGED <<history.controls, fan>>
  BY CallFacts, CancelRowTakes DEF AwakeInv, LoopStep, CancelRow, CancelPending, CancelPeer,
     TellBackend, ControlRefused, ControlTakes, RestartSpawns, RestartRefreshes, CheckClosed, WriteOut, Note,
     HistoryFields, eventVars
<1>3. Unrestarted => \A r \in Sessions : Sleeps(r) => Awaited(r)
  BY SleepersAwaited DEF AwakeInv, Awake
<1>4. CASE CancelRow(s)
  <2>1. conn[s] = "open" /\ UNCHANGED <<conn, outbox>> /\ \A r \in Sessions \ {s} : loop'[r] = loop[r]
    BY <1>1, <1>4 DEF CancelRow, Continue
  <2>2. \A r \in Sessions : Sleeps(r)' => Sleeps(r) /\ r # s
    BY <2>1 DEF Sleeps
  <2>3. ASSUME NEW c \in Calls, SessionOf[c] # s, Waker(c)
        PROVE  Waker(c)'
    <3>1. loop[s].key[1] = s
      BY <1>4 DEF AwakeInv, Awake, LoopOpen, CancelRow
    <3>2. Key(c) # loop[s].key
      BY <2>3, <3>1, CallKeys
    <3>3. QED
      BY <1>4, <2>3, <3>2, CallKeys, CancelRowTakes DEF Waker, Key
  <2>4. Unrestarted' => \A r \in Sessions : Sleeps(r)' => Awaited(r)'
    BY <1>2, <1>3, <2>2, <2>3 DEF Awaited
  <2>5. QED
    BY <2>4 DEF SleeperIsWoken, Sleeps, Awaited, Waker
<1>5. CASE \/ CancelPending(s) \/ CancelPeer(s) \/ TellBackend(s) \/ ControlRefused(s)
           \/ ControlTakes(s) \/ RestartSpawns(s) \/ RestartRefreshes(s)
  <2>1. /\ conn[s] = "open" /\ UNCHANGED conn /\ \A r \in Sessions \ {s} : loop'[r] = loop[r]
        /\ outbox' = outbox \/ \E to, message : outbox' = Posted(to, message)
    BY <1>1, <1>5 DEF CancelPending, CancelPeer, TellBackend, ControlRefused, ControlTakes,
       RestartSpawns, RestartRefreshes, Continue
  <2>2. \A r \in Sessions : Sleeps(r)' => Sleeps(r)
    BY <2>1 DEF Sleeps, Posted
  <2>3. \A c \in Calls : Stays(c)
    BY <1>5, OthersStay DEF CancelPending, CancelPeer, TellBackend, ControlRefused,
       ControlTakes, RestartSpawns, RestartRefreshes, taskVars, backendVars
  <2>4. \A k \in Keys : HasRow(k)' <=> HasRow(k)
    BY <1>5 DEF CancelPending, CancelPeer, TellBackend, ControlRefused, ControlTakes,
       RestartSpawns, RestartRefreshes, TakePeer, HasRow, lifetimeVars, clientVars
  <2>5. QED
    BY <1>2, <2>2, <2>3, <2>4, WakerStays, SleepersStay
<1>6. CASE CheckClosed(s) \/ \E message \in Messages : WriteOut(s, message)
  <2>1. \A c \in Calls : Waker(c)' <=> Waker(c)
    BY <1>6 DEF CheckClosed, WriteOut, Waker, Key, HasRow, lifetimeVars, taskVars, backendVars
  <2>2. \A r \in Sessions \ {s} : Sleeps(r)' => Sleeps(r)
    BY <1>6 DEF CheckClosed, WriteOut, Continue, Sleeps
  <2>3. Sleeps(s)' => Awaited(s)'
    <3>1. CASE CheckClosed(s)
      <4>1. SUFFICES ASSUME RowsOfSession(s) # {}
                     PROVE  \E c \in Calls : SessionOf[c] = s /\ Waker(c)
        BY <2>1, <3>1 DEF CheckClosed, Sleeps, Awaited
      <4>2. PICK k \in Keys : HasRow(k) /\ k[1] = s
        BY <4>1 DEF RowsOfSession, Rows
      <4>3. PICK c \in Calls : Key(c) = k
        BY <4>2 DEF AwakeInv, Awake, NoOrphanRow
      <4>4. QED
        BY <4>2, <4>3, CallKeys DEF Waker
    <3>2. CASE \E message \in Messages : WriteOut(s, message)
      BY <3>2 DEF WriteOut, Continue, Sleeps, Ready, Top
    <3>3. QED
      BY <1>6, <3>1, <3>2
  <2>4. Unrestarted' => \A r \in Sessions : Sleeps(r)' => Awaited(r)'
    BY <1>2, <1>3, <2>1, <2>2, <2>3 DEF Awaited
  <2>5. QED
    BY <2>4 DEF SleeperIsWoken, Sleeps, Awaited, Waker
<1>7. QED
  BY <1>4, <1>5, <1>6 DEF LoopStep

LEMMA ClientWakes ==
    ASSUME AwakeInv, ClientStep \/ BackendStep
    PROVE  SleeperIsWoken'
<1> USE AwakeFacts
<1>1. /\ Unrestarted' => Unrestarted
      /\ UNCHANGED fan
  BY CallFacts DEF AwakeInv, ClientStep, Request, CancelLine, ControlLine, HalfClose, Break,
     BackendStep, Answer, Emit, Exit, Jam, Drain, Note, HistoryFields, eventVars
<1>2. ASSUME NEW c \in Calls, Request(c)
      PROVE  SleeperIsWoken'
  <2>1. /\ pc[c] = "unsent" /\ pc' = [pc EXCEPT ![c] = pc'[c]]
        /\ UNCHANGED <<result, discarded, conn, loop>>
        /\ outbox' = outbox \/ \E to, message : outbox' = Posted(to, message)
    BY <1>2 DEF Request, Goto, Send, backendVars
  <2>2. \A k \in Keys : HasRow(k) => HasRow(k)'
    BY <1>2, CallKeys, SentinelAssumption DEF Request, Admit, HasRow, lifetimeVars, AwakeInv,
       ServiceInv, BrokerInv, LifetimeInv, LifetimeTypeOK
  <2>3. \A d \in Calls : Waker(d) => Waker(d)'
    BY <2>1, <2>2, WakerStays DEF Stays
  <2>4. QED
    BY <1>1, <2>1, <2>3, NobodyDozes, SleepersStay
<1>3. ASSUME \A s \in Sessions : Sleeps(s)' => Sleeps(s), UNCHANGED lifetimeVars,
             \/ \E g : pc' = PcAfterEnd(g, pc) /\ result' = ResultAfterEnd(g) /\ UNCHANGED discarded
             \/ UNCHANGED <<pc, result, discarded>>
      PROVE  SleeperIsWoken'
  <2>1. \A k \in Keys : HasRow(k)' <=> HasRow(k)
    BY <1>3 DEF lifetimeVars, HasRow
  <2>2. \A c \in Calls : Waker(c) => Waker(c)'
    BY <1>3, <2>1, OthersStay, WakerStays
  <2>3. QED
    BY <1>1, <1>3, <2>2, SleepersStay
<1>4. ASSUME NEW k \in Keys, CancelLine(k)
      PROVE  SleeperIsWoken'
  <2>1. \A s \in Sessions : Sleeps(s)' => Sleeps(s)
    BY <1>4 DEF CancelLine, Reading, Sleeps
  <2>2. QED
    BY <1>3, <1>4, <2>1 DEF CancelLine, taskVars, backendVars
<1>5. ASSUME NEW s \in Sessions, NEW command \in Commands, ControlLine(s, command)
      PROVE  SleeperIsWoken'
  <2>1. \A r \in Sessions : Sleeps(r)' => Sleeps(r)
    BY <1>5 DEF ControlLine, Continue, Reading, Sleeps
  <2>2. QED
    BY <1>3, <1>5, <2>1 DEF ControlLine, taskVars, backendVars
<1>6. ASSUME NEW s \in Sessions, HalfClose(s) \/ Break(s)
      PROVE  SleeperIsWoken'
  <2>1. \A r \in Sessions : Sleeps(r)' => Sleeps(r)
    BY <1>6 DEF HalfClose, Break, Continue, Reading, Sleeps, Ready, Top
  <2>2. QED
    BY <1>3, <1>6, <2>1 DEF HalfClose, Break, taskVars, backendVars
<1>7. ASSUME NEW c \in Calls, Answer(c)
      PROVE  SleeperIsWoken'
  <2>1. \A d \in Calls : Stays(d)
    BY <1>7 DEF Answer, Goto, Stays
  <2>2. UNCHANGED <<sessionVars, lifetimeVars>>
    BY <1>7 DEF Answer
  <2>3. \A k \in Keys : HasRow(k)' <=> HasRow(k)
    BY <2>2 DEF lifetimeVars, HasRow
  <2>4. QED
    BY <1>1, <2>1, <2>2, <2>3, WakerStays, NobodyDozes, SleepersStay DEF sessionVars
<1>8. ASSUME \/ \E e \in Emits : Emit(e[1], e[2])
             \/ \E g \in Gens : Exit(g) \/ Jam(g) \/ Drain(g)
      PROVE  SleeperIsWoken'
  <2>1. UNCHANGED <<sessionVars, lifetimeVars>>
    BY <1>8 DEF Emit, Exit, Jam, Drain
  <2>2. QED
    BY <1>3, <1>8, <2>1, NobodyDozes DEF Emit, Exit, Jam, Drain, sessionVars, taskVars,
       backendVars
<1>9. QED
  BY <1>2, <1>4, <1>5, <1>6, <1>7, <1>8 DEF ClientStep, BackendStep

LEMMA StepKeepsAwake ==
    ASSUME AwakeInv, IdsUsedOnce, [Next]_vars
    PROVE  AwakeInv'
<1>1. ServiceInv' /\ TypeParts' /\ NoOrphanRow'
  BY StepKeepsService, StepKeepsTypes, StepLeavesNone DEF AwakeInv, Awake, ServiceInv
<1>2. SleeperIsWoken'
  <2>1. CASE UNCHANGED vars
    BY <2>1 DEF AwakeInv, Awake, SleeperIsWoken, HasRow, Key, vars, lifetimeVars, taskVars,
       backendVars, eventVars, sessionVars
  <2>2. QED
    BY <2>1, TaskWakes, FanWakes, LoopWakes, ClientWakes DEF Next
<1>3. QED
  BY <1>1, <1>2, StepKeepsOpen, StepKeepsGone DEF AwakeInv, Awake

LEMMA InitAwake == ASSUME Init PROVE AwakeInv
<1>1. NoOrphanRow /\ LoopOpen /\ CancelledGone /\ SleeperIsWoken
  BY DEF Init, LifetimeInit, NoOrphanRow, LoopOpen, CancelledGone, SleeperIsWoken, HasRow, Ready
<1>2. QED
  BY <1>1, InitServes, InitTypes DEF AwakeInv, Awake

(* No wake-up of a half-closed session is lost, as long as nobody restarts  *)
(* the backend: whoever takes the last row of a sleeping session, or has   *)
(* its last call end, sends it a message, or will (handle_session and       *)
(* handle_request).                                                         *)
THEOREM SleepersAreWoken == ASSUME IdsUsedOnce PROVE Spec => []SleeperIsWoken
<1>1. AwakeInv /\ [Next]_vars => AwakeInv'
  BY StepKeepsAwake
<1>2. Init => AwakeInv
  BY InitAwake
<1>3. AwakeInv => SleeperIsWoken
  BY DEF AwakeInv, Awake
<1>4. QED
  BY <1>1, <1>2, <1>3, PTL DEF Spec

(* What the backends ask and the clients answer puts no loop to sleep that  *)
(* somebody else would have to wake.                                        *)
LEMMA AskKeepsAwake ==
    ASSUME AwakeInv, AskInv, AskStep
    PROVE  AwakeInv'
<1> USE AwakeFacts
<1>1. CalmStep /\ PeersInv
  BY AskIsCalm DEF AwakeInv, ServiceInv, PeersInv
<1>2. ServiceInv' /\ TypeParts' /\ CancelledGone'
  BY <1>1, AskStepKeepsInv, CalmKeepsInv, AskKeepsTypes, CalmKeepsGone
     DEF AwakeInv, Awake, ServiceInv, PeersInv
<1>3. UNCHANGED <<clientVars, taskVars, backendVars, conn, history>>
  BY <1>1, AskStepIsPeerOnly DEF AskStep, Ask, TakeAsk, RefuseAsk, ReadAnswer, InsertAsk,
     SendAsk, TakeExit, SendExit, ForwardAnswer, sessionVars
<1>4. \A k \in Keys : HasRow(k)' <=> HasRow(k)
  BY <1>3 DEF HasRow, clientVars
<1>5. NoOrphanRow'
  BY <1>3, <1>4, QuietLeavesNone DEF AwakeInv, Awake, taskVars
<1>6. \A c \in Calls : Waker(c) => Waker(c)'
  BY <1>3, <1>4, OthersStay, WakerStays DEF taskVars, backendVars
<1>7. fan.at = "discard" => fan' = fan
  <2>1. ASSUME NEW a \in Asks, TakeAsk(a)
        PROVE  fan.at # "discard"
    BY <2>1 DEF TakeAsk, Ready
  <2>2. QED
    BY <2>1 DEF AskStep, Ask, RefuseAsk, ReadAnswer, InsertAsk, SendAsk, TakeExit, SendExit,
       ForwardAnswer, eventVars
<1>8. outbox' = outbox \/ \E to, message : outbox' = Posted(to, message)
  BY DEF AskStep, Ask, TakeAsk, RefuseAsk, ReadAnswer, InsertAsk, SendAsk, TakeExit, SendExit,
     ForwardAnswer, sessionVars
<1>9. \A s \in Sessions : loop'[s] = loop[s] \/ (conn[s] = "open" /\ loop'[s].at # "cancelling")
  <2> DEFINE Goal == \A s \in Sessions :
                        loop'[s] = loop[s] \/ (conn[s] = "open" /\ loop'[s].at # "cancelling")
  <2>1. ASSUME NEW s \in Sessions, ForwardAnswer(s)
        PROVE  Goal
    BY <2>1 DEF ForwardAnswer, Continue, Telling, AwakeInv, Awake, LoopOpen, Ready, Top
  <2>2. ASSUME NEW a \in Asks, ReadAnswer(a)
        PROVE  Goal
    BY <2>2 DEF ReadAnswer, Continue, Reading
  <2>3. CASE UNCHANGED loop
    BY <2>3
  <2>4. QED
    BY <2>1, <2>2, <2>3 DEF AskStep, Ask, TakeAsk, RefuseAsk, InsertAsk, SendAsk, TakeExit,
       SendExit, sessionVars
<1>10. LoopOpen'
  BY <1>3, <1>9 DEF AwakeInv, Awake, LoopOpen
<1>11. SleeperIsWoken'
  <2>1. \A s \in Sessions : Sleeps(s)' => Sleeps(s)
    BY <1>3, <1>8, <1>9 DEF Sleeps, Posted
  <2>2. QED
    BY <1>3, <1>6, <1>7, <2>1, SleepersStay
<1>12. QED
  BY <1>2, <1>5, <1>10, <1>11 DEF AwakeInv, Awake

(* The same holds of the whole broker.                                      *)
THEOREM PeersWakeSleepers == ASSUME IdsUsedOnce PROVE PeersSpec => []SleeperIsWoken
<1> DEFINE Inv == AwakeInv /\ AskInv
<1>1. Inv /\ [PeersNext]_peersVars => Inv'
  <2> SUFFICES ASSUME Inv, [PeersNext]_peersVars PROVE AwakeInv'
    BY PeersStepServes DEF AwakeInv
  <2>1. CASE [Next]_vars
    BY <2>1, StepKeepsAwake
  <2>2. QED
    BY <2>1, AskKeepsAwake DEF PeersNext, peersVars
<1>2. PeersInit => Inv
  BY InitAwake, InitPeersServe DEF PeersInit
<1>3. Inv => SleeperIsWoken
  BY DEF AwakeInv, Awake
<1>4. QED
  BY <1>1, <1>2, <1>3, PTL DEF PeersSpec

-----------------------------------------------------------------------------
(* The channel to each process.                                            *)

(* Who waits, waits at a process that runs; a tombstone is that of a call  *)
(* that was given up; and a process works on no call that has yet to be    *)
(* sent.                                                                   *)
AtProcesses ==
    /\ alive \subseteq 1 .. spawned
    /\ slot # None => slot \in 1 .. spawned
    /\ \A c \in Calls :
           /\ gen[c] # None => gen[c] \in 1 .. spawned
           /\ pc[c] \in {"writing", "waiting"} => gen[c] \in alive
           /\ pc[c] \in AtBack => gen[c] # None
CallPlaces ==
    \A c \in Calls :
        /\ pc[c] \notin Past => result[c] = "none"
        /\ pc[c] = "disowned" => result[c] = "broken"
        /\ c \in discarded => result[c] \in {"broken", "timeout"}
        /\ c \in working => pc[c] \in Past \cup {"waiting"}
(* Inputs come once: a deadline is one some behaviour has.                 *)
Scripted == \E script \in Scripts : todo \subseteq script
LinkInv == AtProcesses /\ CallPlaces
Linked == ServiceInv /\ LinkInv /\ Scripted

LEMMA LinkFacts ==
    ASSUME Linked
    PROVE  /\ pc = [c \in Calls |-> pc[c]] /\ result = [c \in Calls |-> result[c]]
           /\ reply = [c \in Calls |-> reply[c]] /\ gen = [c \in Calls |-> gen[c]]
           /\ spawned \in Nat /\ None \notin Nat
           /\ \A c \in Calls : c \in discarded => pc[c] \in Past
           /\ \A c \in Calls : pc[c] # "done" => reply[c] = "none"
           /\ \A c \in Calls : pc[c] \in Numbered => id[c] # None
<1> USE DEF Linked, ServiceInv, Own
<1>1. pc = [c \in Calls |-> pc[c]]
  BY DEF BrokerInv, TaskInv
<1>2. \A c \in Calls : pc[c] \in Numbered => id[c] # None
  BY SentinelAssumption, BrokerAssumption DEF BrokerInv, TaskInv
<1>3. QED
  BY <1>1, <1>2, BrokerAssumption DEF CallInv, NumberInv

-----------------------------------------------------------------------------
(* What keeps the invariant, by what a step does to processes and calls.   *)

(* No process comes or goes, and calls move on without being sent.         *)
Aside ==
    /\ UNCHANGED <<spawned, alive, gen>>
    /\ slot' \in {slot, None}
    /\ discarded' \subseteq discarded /\ working' \subseteq working
    /\ \A c \in Calls :
           /\ pc'[c] \in {"writing", "waiting"} => pc[c] \in {"writing", "waiting"}
           /\ pc'[c] \in AtBack => pc[c] \in AtBack
           /\ pc'[c] = "disowned" => pc[c] = "disowned" /\ result'[c] = result[c]
           /\ c \in working' /\ pc[c] \in Past \cup {"waiting"} => pc'[c] \in Past \cup {"waiting"}
           /\ pc'[c] \notin Past => pc[c] \notin Past /\ result'[c] = result[c]
           /\ c \in discarded => result'[c] = result[c]

LEMMA AsideKeepsLink == ASSUME LinkInv, Aside PROVE LinkInv'
<1>1. AtProcesses'
  BY DEF LinkInv, AtProcesses, Aside, AtBack
<1>2. CallPlaces'
  BY DEF LinkInv, CallPlaces, Aside
<1>3. QED
  BY <1>1, <1>2 DEF LinkInv

-----------------------------------------------------------------------------
(* What the channels see of a step.                                        *)

Follows(g) == [Channel(g)!ServiceNext]_(AtChannel(g))
Still == UNCHANGED <<taskVars, backendVars>>

LEMMA OneMoves ==
    ASSUME NEW g, NEW c \in Calls, NEW v, OutcomeIn(c, g)' = v,
           \A d \in Calls : d # c => OutcomeIn(d, g)' = OutcomeIn(d, g)
    PROVE  Channel(g)!Becomes(c, v)
BY DEF Channel!Becomes, OutcomesIn

(* A call whose outcome at its process stays what it is.                   *)
WaitsOn(c) == pc[c] \in {"writing", "waiting", "delivering"}
Unnoticed(c) ==
    \/ pc'[c] = pc[c] /\ result'[c] = result[c] /\ reply'[c] = reply[c]
    \/ /\ result[c] = "none" /\ result'[c] \in {"none", "noBackend"}
       /\ ~WaitsOn(c) /\ ~WaitsOn(c)'
    \/ /\ result'[c] = result[c] /\ result[c] # "none" /\ ~WaitsOn(c) /\ ~WaitsOn(c)'
       /\ \/ result[c] # "broken"
          \/ /\ pc[c] \in {"disowned", "returned", "removed"}
             /\ pc'[c] \in {"disowned", "returned", "removed"}
          \/ pc[c] \in {"failed", "reporting"} /\ pc'[c] \in {"failed", "reporting"}
          \/ pc[c] \in {"failed", "reporting"} /\ pc'[c] = "done" /\ reply'[c] # "none"

LEMMA UnnoticedStays ==
    ASSUME NEW g, NEW c \in Calls, Unnoticed(c), gen'[c] = gen[c]
    PROVE  OutcomeIn(c, g)' = OutcomeIn(c, g)
<1>1. CASE pc'[c] = pc[c] /\ result'[c] = result[c] /\ reply'[c] = reply[c]
  BY <1>1 DEF OutcomeIn
<1>2. CASE /\ result[c] = "none" /\ result'[c] \in {"none", "noBackend"}
           /\ ~WaitsOn(c) /\ ~WaitsOn(c)'
  <2>1. OutcomeIn(c, g) = "unsent"
    BY <1>2 DEF WaitsOn, OutcomeIn
  <2>2. OutcomeIn(c, g)' = "unsent"
    BY <1>2 DEF WaitsOn, OutcomeIn
  <2>3. QED
    BY <2>1, <2>2
<1>3. CASE /\ result'[c] = result[c] /\ result[c] # "none" /\ result[c] # "broken"
           /\ ~WaitsOn(c) /\ ~WaitsOn(c)'
  BY <1>3 DEF WaitsOn, OutcomeIn
<1>4. CASE result'[c] = result[c] /\ result[c] = "broken"
  BY <1>4 DEF Unnoticed, OutcomeIn
<1>5. QED
  BY <1>1, <1>2, <1>3, <1>4 DEF Unnoticed

LEMMA UnnoticedFollows ==
    ASSUME NEW g, UNCHANGED <<spawned, alive, gen, discarded>>, \A c \in Calls : Unnoticed(c)
    PROVE  Follows(g)
<1>1. OutcomesIn(g)' = OutcomesIn(g)
  BY UnnoticedStays DEF OutcomesIn
<1>2. QED
  BY <1>1 DEF Follows, AtChannel, SilencedIn, ProcessOf

LEMMA StillFollows ==
    ASSUME Linked, Still
    PROVE  LinkInv' /\ \A g \in Gens : Follows(g)
<1>1. Aside
  BY DEF Still, taskVars, backendVars, Aside
<1>2. LinkInv'
  BY <1>1, AsideKeepsLink DEF Linked
<1>3. \A c \in Calls : Unnoticed(c)
  BY DEF Still, taskVars, Unnoticed
<1>4. QED
  BY <1>2, <1>3, UnnoticedFollows DEF Still, taskVars, backendVars

-----------------------------------------------------------------------------
(* The task of a call on its way to its process and after it.              *)

LEMMA QuietTaskFollows ==
    ASSUME Linked, NEW c \in Calls,
           \/ Acquire(c) \/ EnsureReuses(c) \/ RefreshAfterSpawn(c) \/ EnsureFails(c)
           \/ CheckRow(c) \/ BindRow(c) \/ RemoveRow(c) \/ Respond(c) \/ Report(c)
           \/ Request(c)
    PROVE  LinkInv' /\ \A g \in Gens : Follows(g)
<1> USE LinkFacts
<1>1. /\ UNCHANGED <<spawned, alive, gen, discarded, working>> /\ slot' \in {slot, None}
      /\ \A d \in Calls : d # c => /\ pc'[d] = pc[d] /\ result'[d] = result[d]
                                   /\ reply'[d] = reply[d]
      /\ ~WaitsOn(c) /\ ~WaitsOn(c)' /\ (pc'[c] \in AtBack => pc[c] \in AtBack)
      /\ pc'[c] # "disowned"
  <2>2. CASE Acquire(c) \/ EnsureReuses(c) \/ RefreshAfterSpawn(c) \/ EnsureFails(c)
    BY <2>2 DEF Acquire, EnsureReuses, RefreshAfterSpawn, EnsureFails, Goto, WaitsOn,
                AtBack, backendVars
  <2>3. CASE CheckRow(c) \/ BindRow(c) \/ RemoveRow(c)
    BY <2>3 DEF CheckRow, BindRow, RemoveRow, Leave, Goto, WaitsOn, AtBack, backendVars
  <2>4. CASE Respond(c) \/ Report(c) \/ Request(c)
    BY <2>4 DEF Respond, Report, Request, Send, Leave, Goto, WaitsOn, AtBack, backendVars
  <2>5. QED
    BY <2>2, <2>3, <2>4
<1>2. /\ pc[c] \in Past => pc'[c] \in Past
      /\ pc[c] \notin Past => result[c] = "none"
      /\ \/ result'[c] = result[c]
         \/ (pc[c] \notin Past /\ pc'[c] \in Past /\ result'[c] = "noBackend")
  <2>1. pc[c] \notin Past => result[c] = "none"
    BY DEF Linked, LinkInv, CallPlaces
  <2>2. CASE Acquire(c) \/ EnsureReuses(c) \/ RefreshAfterSpawn(c) \/ EnsureFails(c)
    BY <2>1, <2>2 DEF Acquire, EnsureReuses, RefreshAfterSpawn, EnsureFails, Goto, Past
  <2>3. CASE CheckRow(c) \/ BindRow(c) \/ RemoveRow(c)
    BY <2>1, <2>3 DEF CheckRow, BindRow, RemoveRow, Leave, Goto, Past
  <2>4. CASE Respond(c) \/ Report(c) \/ Request(c)
    BY <2>1, <2>4 DEF Respond, Report, Request, Leave, Goto, Past
  <2>5. QED
    BY <2>2, <2>3, <2>4
<1>3. Aside
  BY <1>1, <1>2 DEF Aside, WaitsOn
<1>4. Unnoticed(c)
  <2>1. CASE pc[c] \notin Past
    BY <1>1, <1>2, <2>1 DEF Unnoticed
  <2>2. CASE pc[c] \in Past
    <3>1. RemoveRow(c) \/ Respond(c) \/ Report(c)
      BY <2>2 DEF Acquire, EnsureReuses, RefreshAfterSpawn, EnsureFails, CheckRow, BindRow,
                  Request, Past
    <3>2. result'[c] = result[c]
      BY <1>2, <2>2
    <3>3. CASE result[c] = "none"
      BY <1>1, <3>2, <3>3 DEF Unnoticed
    <3>4. CASE RemoveRow(c)
      BY <1>1, <3>2, <3>3, <3>4 DEF RemoveRow, Goto, Unnoticed
    <3>5. CASE Respond(c)
      BY <1>1, <3>2, <3>3, <3>5 DEF Respond, Unnoticed
    <3>6. CASE Report(c)
      BY <1>1, <3>2, <3>3, <3>6 DEF Report, Send, Leave, Goto, Unnoticed
    <3>7. QED
      BY <3>1, <3>4, <3>5, <3>6
  <2>3. QED
    BY <2>1, <2>2
<1>5. \A d \in Calls : Unnoticed(d)
  BY <1>1, <1>4 DEF Unnoticed
<1>6. QED
  BY <1>1, <1>3, <1>5, AsideKeepsLink, UnnoticedFollows DEF Linked

LEMMA SpawnFollows ==
    ASSUME Linked, Installed, alive' = alive \cup {spawned + 1},
           UNCHANGED <<gen, id, result, reply, discarded, working>>,
           \/ UNCHANGED pc
           \/ \E c \in Calls, to \in {"ensured", "refreshing"} : pc[c] = "ensuring" /\ Goto(c, to)
    PROVE  LinkInv' /\ \A g \in Gens : Follows(g)
<1> USE LinkFacts DEF Installed
<1>1. AtProcesses'
  <2>1. 1 .. spawned \subseteq 1 .. spawned' /\ slot' \in 1 .. spawned'
    OBVIOUS
  <2>2. \A c \in Calls : pc'[c] \in AtBack => pc'[c] = pc[c]
    BY DEF Goto, AtBack
  <2>3. \A c \in Calls : pc'[c] \in {"writing", "waiting"} => pc'[c] \in AtBack
    BY DEF AtBack
  <2>4. QED
    BY <2>1, <2>2, <2>3 DEF Linked, LinkInv, AtProcesses
<1>2. \A c \in Calls : pc'[c] = pc[c] \/ (pc[c] = "ensuring" /\ pc'[c] \in {"ensured", "refreshing"})
  BY DEF Goto
<1>3. CallPlaces'
  BY <1>2 DEF Linked, LinkInv, CallPlaces, Past
<1>4. ASSUME NEW g \in Gens
      PROVE  Follows(g)
  <2>1. \A c \in Calls : Unnoticed(c)
    BY <1>2 DEF Unnoticed, WaitsOn, Linked, LinkInv, CallPlaces, Past
  <2>2. OutcomesIn(g)' = OutcomesIn(g)
    BY <2>1, UnnoticedStays DEF OutcomesIn
  <2>3. ProcessOf(g)' = ProcessOf(g)
    <3>1. g \in Nat
      BY DEF Gens
    <3>2. (g \in alive' \/ g > spawned') <=> (g \in alive \/ g > spawned)
      BY <3>1
    <3>3. QED
      BY <3>2 DEF ProcessOf
  <2>4. QED
    BY <2>2, <2>3 DEF Follows, AtChannel, SilencedIn
<1>5. QED
  BY <1>1, <1>3, <1>4 DEF LinkInv

LEMMA CloneFollows ==
    ASSUME Linked, NEW c \in Calls, CloneSlot(c)
    PROVE  LinkInv' /\ \A g \in Gens : Follows(g)
<1> USE LinkFacts DEF CloneSlot, Goto, backendVars
<1>1. /\ pc[c] = "ensured" /\ result[c] = "none" /\ c \notin discarded /\ c \notin working
      /\ pc'[c] \in {"cloned", "returned"}
      /\ \A d \in Calls : d # c => pc'[d] = pc[d] /\ result'[d] = result[d] /\ gen'[d] = gen[d]
      /\ UNCHANGED <<id, reply, slot, spawned, alive, discarded, working>>
  BY DEF Linked, LinkInv, CallPlaces, Past
<1>2. /\ result'[c] \in {"none", "noBackend"} /\ (pc'[c] = "cloned" => result'[c] = "none")
      /\ gen'[c] # None => gen'[c] \in 1 .. spawned
      /\ pc'[c] = "cloned" => gen'[c] # None
  BY DEF Linked, LinkInv, AtProcesses, CallPlaces, Past
<1> HIDE DEF CloneSlot
<1>3. AtProcesses'
  BY <1>1, <1>2 DEF Linked, LinkInv, AtProcesses, AtBack
<1>4. CallPlaces'
  BY <1>1, <1>2 DEF Linked, LinkInv, CallPlaces, Past
<1>5. ASSUME NEW g \in Gens
      PROVE  Follows(g)
  <2>1. OutcomeIn(c, g) = "unsent" /\ OutcomeIn(c, g)' = "unsent"
    BY <1>1, <1>2 DEF OutcomeIn
  <2>2. \A d \in Calls : d # c => OutcomeIn(d, g)' = OutcomeIn(d, g)
    BY <1>1 DEF OutcomeIn
  <2>3. SilencedIn(g)' = SilencedIn(g)
    <3>1. \A d \in Calls : d \in discarded => gen'[d] = gen[d]
      BY <1>1
    <3>2. QED
      BY <1>1, <3>1 DEF SilencedIn
  <2> ProcessOf(g)' = ProcessOf(g)
    BY <1>1 DEF ProcessOf
  <2>4. QED
    BY <2>1, <2>2, <2>3 DEF Follows, AtChannel, OutcomesIn
<1>6. QED
  BY <1>3, <1>4, <1>5 DEF LinkInv

LEMMA RegisterFollows ==
    ASSUME Linked, NEW c \in Calls, Register(c)
    PROVE  LinkInv' /\ \A g \in Gens : Follows(g)
<1> USE LinkFacts DEF Register, Goto, backendVars
<1>1. /\ pc[c] = "bound" /\ result[c] = "none" /\ c \notin discarded /\ c \notin working
      /\ gen[c] \in alive => pc'[c] = "writing" /\ result'[c] = "none"
      /\ gen[c] \notin alive => pc'[c] = "returned" /\ result'[c] = "broken"
      /\ \A d \in Calls : d # c => pc'[d] = pc[d] /\ result'[d] = result[d]
      /\ UNCHANGED <<gen, id, reply, slot, spawned, alive, discarded, working>>
  BY DEF Linked, LinkInv, CallPlaces, Past
<1>2. gen[c] # None /\ id[c] # None /\ (gen[c] \in 1 .. spawned)
  BY <1>1 DEF Linked, LinkInv, AtProcesses, AtBack, Numbered
<1> HIDE DEF Register
<1>3. AtProcesses'
  BY <1>1, <1>2 DEF Linked, LinkInv, AtProcesses, AtBack
<1>4. CallPlaces'
  BY <1>1 DEF Linked, LinkInv, CallPlaces, Past
<1>5. ASSUME NEW g \in Gens
      PROVE  Follows(g)
  <2>1. SilencedIn(g)' = SilencedIn(g) /\ ProcessOf(g)' = ProcessOf(g)
    BY <1>1 DEF SilencedIn, ProcessOf
  <2>2. \A d \in Calls : d # c => OutcomeIn(d, g)' = OutcomeIn(d, g)
    BY <1>1 DEF OutcomeIn
  <2>3. CASE gen[c] # g
    <3>1. OutcomeIn(c, g)' = OutcomeIn(c, g)
      BY <1>1, <2>3 DEF OutcomeIn
    <3>2. QED
      BY <2>1, <2>2, <3>1 DEF Follows, AtChannel, OutcomesIn
  <2>4. CASE gen[c] = g /\ g \in alive
    <3>1. OutcomeIn(c, g) = "unsent" /\ OutcomeIn(c, g)' = "open" /\ ProcessOf(g) = "running"
      BY <1>1, <2>4 DEF OutcomeIn, ProcessOf
    <3>2. Channel(g)!Open(c)
      BY <2>1, <2>2, <3>1, OneMoves DEF Channel!Open, OutcomesIn
    <3>3. QED
      BY <3>2 DEF Follows, Channel!ServiceNext
  <2>5. CASE gen[c] = g /\ g \notin alive
    <3>1. OutcomeIn(c, g) = "unsent" /\ OutcomeIn(c, g)' = "broken" /\ ProcessOf(g) = "closed"
      BY <1>1, <1>2, <2>5 DEF OutcomeIn, ProcessOf
    <3>2. Channel(g)!Refuse(c)
      BY <2>1, <2>2, <3>1, OneMoves DEF Channel!Refuse, OutcomesIn
    <3>3. QED
      BY <3>2 DEF Follows, Channel!ServiceNext
  <2>6. QED
    BY <2>3, <2>4, <2>5
<1>6. QED
  BY <1>3, <1>4, <1>5 DEF LinkInv

(* The line has been written: the wait goes on, or has ended before.       *)
LEMMA WriteFollows ==
    ASSUME Linked, NEW c \in Calls, Write(c)
    PROVE  LinkInv' /\ \A g \in Gens : Follows(g)
<1> USE LinkFacts DEF Write, Goto
<1>1. /\ \/ pc[c] = "writing" /\ pc'[c] = "waiting" /\ result[c] = "none"
         \/ pc[c] = "disowned" /\ pc'[c] = "returned" /\ result[c] = "broken"
      /\ working' = working \cup {c}
      /\ \A d \in Calls : d # c => pc'[d] = pc[d]
      /\ UNCHANGED <<gen, id, result, reply, slot, spawned, alive, discarded>>
  BY DEF Linked, LinkInv, CallPlaces, Past
<1> HIDE DEF Write
<1>2. AtProcesses'
  BY <1>1 DEF Linked, LinkInv, AtProcesses, AtBack
<1>3. CallPlaces'
  BY <1>1 DEF Linked, LinkInv, CallPlaces, Past
<1>4. \A g : OutcomeIn(c, g)' = OutcomeIn(c, g)
  BY <1>1 DEF OutcomeIn
<1>5. \A g : \A d \in Calls : d # c => OutcomeIn(d, g)' = OutcomeIn(d, g)
  BY <1>1 DEF OutcomeIn
<1>6. \A g \in Gens : Follows(g)
  BY <1>1, <1>4, <1>5 DEF Follows, AtChannel, OutcomesIn, SilencedIn, ProcessOf
<1>7. QED
  BY <1>2, <1>3, <1>6 DEF LinkInv

(* What else a channel sees of a step that touches one call.               *)
LEMMA OthersFollow ==
    ASSUME Linked, NEW c \in Calls, NEW g, gen[c] # g,
           \A d \in Calls : d # c => /\ pc'[d] = pc[d] /\ result'[d] = result[d]
                                    /\ reply'[d] = reply[d] /\ (d \in discarded' <=> d \in discarded),
           UNCHANGED <<gen, spawned, alive>>
    PROVE  Follows(g)
<1>1. \A d \in Calls : OutcomeIn(d, g)' = OutcomeIn(d, g)
  BY DEF OutcomeIn
<1>2. SilencedIn(g)' = SilencedIn(g) /\ ProcessOf(g)' = ProcessOf(g)
  BY DEF SilencedIn, ProcessOf
<1>3. QED
  BY <1>1, <1>2 DEF Follows, AtChannel, OutcomesIn

LEMMA TimeOutFollows ==
    ASSUME Linked, NEW c \in Calls, TimeOut(c)
    PROVE  LinkInv' /\ \A g \in Gens : Follows(g)
<1> USE LinkFacts DEF TimeOut, Goto
<1>1. /\ pc[c] \in {"waiting", "delivering"} /\ pc'[c] = "returned" /\ result'[c] = "timeout"
      /\ result[c] = "none" /\ discarded' = discarded \cup {c} /\ Deadlines
      /\ \A d \in Calls : d # c => pc'[d] = pc[d] /\ result'[d] = result[d]
      /\ UNCHANGED <<gen, id, reply, slot, spawned, alive, working>>
  BY DEF Linked, LinkInv, CallPlaces, Past, Scripted, Timed, Deadlines
<1> HIDE DEF TimeOut
<1>2. AtProcesses'
  BY <1>1 DEF Linked, LinkInv, AtProcesses, AtBack
<1>3. CallPlaces'
  BY <1>1 DEF Linked, LinkInv, CallPlaces, Past
<1>4. ASSUME NEW g \in Gens
      PROVE  Follows(g)
  <2>1. CASE gen[c] # g
    BY <1>1, <2>1, OthersFollow
  <2>2. CASE gen[c] = g
    <3>1. OutcomeIn(c, g) \in {"open", "taken"} /\ OutcomeIn(c, g)' = "timedOut"
      BY <1>1, <2>2 DEF OutcomeIn
    <3>2. \A d \in Calls : d # c => OutcomeIn(d, g)' = OutcomeIn(d, g)
      BY <1>1 DEF OutcomeIn
    <3>3. SilencedIn(g)' = SilencedIn(g) \cup {c} /\ ProcessOf(g)' = ProcessOf(g)
      BY <1>1, <2>2 DEF SilencedIn, ProcessOf
    <3>4. Channel(g)!Becomes(c, "timedOut")
      BY <3>1, <3>2, OneMoves
    <3>5. Channel(g)!Expire(c)
      BY <1>1, <3>1, <3>3, <3>4 DEF Channel!Expire, Channel!Silence, OutcomesIn
    <3>6. QED
      BY <3>5 DEF Follows, Channel!ServiceNext
  <2>3. QED
    BY <2>1, <2>2
<1>5. QED
  BY <1>2, <1>3, <1>4 DEF LinkInv

LEMMA DeliverFollows ==
    ASSUME Linked, NEW c \in Calls, Deliver(c)
    PROVE  LinkInv' /\ \A g \in Gens : Follows(g)
<1> USE LinkFacts DEF Deliver, Goto, backendVars
<1>1. /\ pc[c] = "delivering" /\ pc'[c] = "returned" /\ result'[c] = "ok"
      /\ result[c] = "none" /\ c \notin discarded
      /\ \A d \in Calls : d # c => pc'[d] = pc[d] /\ result'[d] = result[d]
      /\ UNCHANGED <<gen, id, reply, slot, spawned, alive, working, discarded>>
  BY DEF Linked, LinkInv, CallPlaces, Past
<1> HIDE DEF Deliver
<1>2. Aside
  BY <1>1 DEF Aside, AtBack, Past
<1>3. LinkInv'
  BY <1>2, AsideKeepsLink DEF Linked
<1>4. ASSUME NEW g \in Gens
      PROVE  Follows(g)
  <2>1. CASE gen[c] # g
    BY <1>1, <2>1, OthersFollow
  <2>2. CASE gen[c] = g
    <3>1. OutcomeIn(c, g) = "taken" /\ OutcomeIn(c, g)' = "answered"
      BY <1>1, <2>2 DEF OutcomeIn
    <3>2. \A d \in Calls : d # c => OutcomeIn(d, g)' = OutcomeIn(d, g)
      BY <1>1 DEF OutcomeIn
    <3>3. /\ SilencedIn(g)' = SilencedIn(g) /\ ProcessOf(g)' = ProcessOf(g)
          /\ c \notin SilencedIn(g)
      BY <1>1 DEF SilencedIn, ProcessOf
    <3>4. Channel(g)!Becomes(c, "answered")
      BY <3>1, <3>2, OneMoves
    <3>5. Channel(g)!Answer(c)
      BY <3>1, <3>3, <3>4 DEF Channel!Answer, OutcomesIn
    <3>6. QED
      BY <3>5 DEF Follows, Channel!ServiceNext
  <2>3. QED
    BY <2>1, <2>2
<1>5. QED
  BY <1>3, <1>4

\* is_discarding_response tells the calls that were given up from the others.
LEMMA JudgeFollows ==
    ASSUME Linked, NEW c \in Calls, DetectFailure(c) \/ Abandon(c)
    PROVE  LinkInv' /\ \A g \in Gens : Follows(g)
<1> USE LinkFacts DEF Goto, Leave, backendVars
<1>1. /\ pc[c] = "removed" /\ result[c] = "broken" /\ reply[c] = "none"
      /\ c \in discarded => pc'[c] = "done"
      /\ c \notin discarded => pc'[c] = "failed"
      /\ \A d \in Calls : d # c => pc'[d] = pc[d]
      /\ UNCHANGED <<gen, id, result, reply, slot, spawned, alive, working, discarded>>
  BY DEF DetectFailure, Abandon
<1>2. Aside
  BY <1>1 DEF Aside, AtBack, Past
<1>3. LinkInv'
  BY <1>2, AsideKeepsLink DEF Linked
<1>4. ASSUME NEW g \in Gens
      PROVE  Follows(g)
  <2>1. CASE gen[c] # g
    BY <1>1, <2>1, OthersFollow
  <2>2. CASE gen[c] = g
    <3>1. OutcomeIn(c, g) = "broken"
          /\ OutcomeIn(c, g)' = IF c \in SilencedIn(g) THEN "abandoned" ELSE "failed"
      BY <1>1, <2>2 DEF OutcomeIn, SilencedIn
    <3>2. \A d \in Calls : d # c => OutcomeIn(d, g)' = OutcomeIn(d, g)
      BY <1>1 DEF OutcomeIn
    <3>3. SilencedIn(g)' = SilencedIn(g) /\ ProcessOf(g)' = ProcessOf(g)
      BY <1>1 DEF SilencedIn, ProcessOf
    <3>4. Channel(g)!Becomes(c, IF c \in SilencedIn(g) THEN "abandoned" ELSE "failed")
      BY <3>1, <3>2, OneMoves
    <3>5. Channel(g)!Judge(c)
      BY <3>1, <3>3, <3>4 DEF Channel!Judge, OutcomesIn
    <3>6. QED
      BY <3>5 DEF Follows, Channel!ServiceNext
  <2>3. QED
    BY <2>1, <2>2
<1>5. QED
  BY <1>3, <1>4

LEMMA AnswerFollows ==
    ASSUME Linked, NEW c \in Calls, Answer(c)
    PROVE  LinkInv' /\ \A g \in Gens : Follows(g)
<1> USE LinkFacts DEF Answer, Goto
<1>1. /\ \A d \in Calls : d # c => pc'[d] = pc[d] /\ (d \in discarded' <=> d \in discarded)
      /\ pc[c] \in Past \cup {"waiting"} /\ working' = working \ {c}
      /\ UNCHANGED <<gen, id, result, reply, slot, spawned, alive>>
  BY DEF Linked, LinkInv, CallPlaces
<1>2. \/ /\ pc[c] = "waiting" /\ pc'[c] = "delivering" /\ result[c] = "none"
         /\ c \notin discarded /\ UNCHANGED discarded
      \/ pc[c] \in Past /\ UNCHANGED pc /\ discarded' = discarded \ {c}
  BY <1>1 DEF Linked, LinkInv, CallPlaces, Past
<1> HIDE DEF Answer
<1>3. Aside
  BY <1>1, <1>2 DEF Aside, AtBack, Past
<1>4. LinkInv'
  BY <1>3, AsideKeepsLink DEF Linked
<1>5. ASSUME NEW g \in Gens
      PROVE  Follows(g)
  <2>1. CASE gen[c] # g
    BY <1>1, <2>1, OthersFollow
  <2>2. CASE gen[c] = g /\ pc[c] = "waiting"
    <3>1. OutcomeIn(c, g) = "open" /\ OutcomeIn(c, g)' = "taken"
      BY <1>1, <1>2, <2>2 DEF OutcomeIn, Past
    <3>2. \A d \in Calls : d # c => OutcomeIn(d, g)' = OutcomeIn(d, g)
      BY <1>1 DEF OutcomeIn
    <3>3. /\ SilencedIn(g)' = SilencedIn(g) /\ ProcessOf(g)' = ProcessOf(g)
          /\ c \notin SilencedIn(g)
      BY <1>1, <1>2, <2>2 DEF SilencedIn, ProcessOf, Past
    <3>4. Channel(g)!Becomes(c, "taken")
      BY <3>1, <3>2, OneMoves
    <3>5. Channel(g)!Take(c)
      BY <3>1, <3>3, <3>4 DEF Channel!Take, OutcomesIn
    <3>6. QED
      BY <3>5 DEF Follows, Channel!ServiceNext
  <2>3. CASE gen[c] = g /\ pc[c] \in Past
    <3>1. OutcomesIn(g)' = OutcomesIn(g) /\ ProcessOf(g)' = ProcessOf(g)
      BY <1>1, <1>2, <2>3 DEF OutcomesIn, OutcomeIn, ProcessOf, Past
    <3>2. SilencedIn(g)' = SilencedIn(g) \ {c}
      BY <1>1, <1>2, <2>3 DEF SilencedIn, Past
    <3>3. CASE c \notin discarded
      BY <3>1, <3>2, <3>3 DEF Follows, AtChannel, SilencedIn
    <3>4. CASE c \in discarded
      <4>1. OutcomeIn(c, g) \notin {"unsent", "open", "taken"} /\ c \in SilencedIn(g)
        BY <2>3, <3>4 DEF Linked, LinkInv, CallPlaces, OutcomeIn, SilencedIn
      <4>2. Channel(g)!Absorb(c)
        BY <3>1, <3>2, <4>1 DEF Channel!Absorb, OutcomesIn
      <4>3. QED
        BY <4>2 DEF Follows, Channel!ServiceNext
    <3>5. QED
      BY <3>3, <3>4
  <2>4. QED
    BY <1>1, <2>1, <2>2, <2>3
<1>6. QED
  BY <1>4, <1>5

-----------------------------------------------------------------------------
(* A process ends, or a call is cancelled at one.                          *)

LEMMA EndFollows ==
    ASSUME Linked, NEW h, Ended(h), NEW next,
           \A d \in Calls : next[d] = pc[d] \/ (pc[d] = "failed" /\ next[d] = "reporting"),
           pc' = PcAfterEnd(h, next), result' = ResultAfterEnd(h), slot' \in {slot, None},
           UNCHANGED <<gen, id, reply, spawned, discarded>>
    PROVE  LinkInv' /\ \A g \in Gens : Follows(g)
<1> USE LinkFacts
<1>1. \A d \in Calls :
          /\ WaitsFor(d, h) =>
                 /\ pc[d] \in {"writing", "waiting"} /\ gen[d] = h /\ pc'[d] = "returned"
                 /\ result'[d] = "broken" /\ d \notin discarded /\ d \notin working'
          /\ ~WaitsFor(d, h) =>
                 /\ result'[d] = result[d]
                 /\ \/ pc'[d] = pc[d]
                    \/ pc[d] = "failed" /\ pc'[d] = "reporting"
                    \/ pc[d] = "disowned" /\ pc'[d] = "returned" /\ result[d] = "broken"
  <2>1. \A d \in Calls : /\ pc'[d] = IF HeldBy(d, h) THEN "returned" ELSE next[d]
                         /\ result'[d] = IF HeldBy(d, h) THEN "broken" ELSE result[d]
    BY DEF PcAfterEnd, ResultAfterEnd
  <2>2. \A d \in Calls : pc[d] = "disowned" => result[d] = "broken"
    BY DEF Linked, LinkInv, CallPlaces
  <2>3. \A d \in Calls : HeldBy(d, h) <=>
            WaitsFor(d, h) \/ (pc[d] = "disowned" /\ gen[d] = h)
    BY DEF HeldBy, WaitsFor
  <2>4. \A d \in Calls : WaitsFor(d, h) => d \notin discarded /\ d \notin working'
    BY DEF WaitsFor, Ended, Past
  <2>5. QED
    BY <2>1, <2>2, <2>3, <2>4 DEF WaitsFor
<1>2. alive' = alive \ {h} /\ working' \subseteq working
  BY DEF Ended
<1>3. \A d \in Calls : pc[d] \in {"writing", "waiting"} => gen[d] \in alive
  BY DEF Linked, LinkInv, AtProcesses
<1>4. AtProcesses'
  <2>1. \A d \in Calls : pc'[d] \in {"writing", "waiting"} =>
            pc[d] \in {"writing", "waiting"} /\ gen[d] # h
    BY <1>1 DEF WaitsFor
  <2>2. \A d \in Calls : pc'[d] \in AtBack => pc[d] \in AtBack
    BY <1>1 DEF AtBack
  <2>3. QED
    BY <1>2, <1>3, <2>1, <2>2 DEF Linked, LinkInv, AtProcesses
<1>5. CallPlaces'
  <2>1. \A d \in Calls : pc'[d] \notin Past => pc[d] \notin Past /\ result'[d] = result[d]
    BY <1>1 DEF Past
  <2>2. ASSUME NEW d \in Calls, d \in discarded
        PROVE  result'[d] = result[d]
    <3>1. ~WaitsFor(d, h)
      BY <1>1, <2>2
    <3>2. QED
      BY <1>1, <3>1
  <2>3. \A d \in Calls : d \in working' => \/ d \in working /\ pc'[d] = pc[d]
                                          \/ pc'[d] \in Past
    BY <1>1, <1>2 DEF Past
  <2>4. \A d \in Calls : pc'[d] = "disowned" => pc[d] = "disowned" /\ result'[d] = result[d]
    BY <1>1
  <2>5. QED
    BY <2>1, <2>2, <2>3, <2>4 DEF Linked, LinkInv, CallPlaces
<1>6. ASSUME NEW g \in Gens
      PROVE  Follows(g)
  <2>1. \A d \in Calls : ~WaitsFor(d, h) => OutcomeIn(d, g)' = OutcomeIn(d, g)
    <3>1. TAKE d \in Calls
    <3>2. CASE ~WaitsFor(d, h)
      <4>1. /\ result'[d] = result[d] /\ reply'[d] = reply[d]
            /\ \/ pc'[d] = pc[d]
               \/ pc[d] = "failed" /\ pc'[d] = "reporting"
               \/ pc[d] = "disowned" /\ pc'[d] = "returned" /\ result[d] = "broken"
        BY <1>1, <3>2
      <4>2. Unnoticed(d)
        BY <4>1 DEF Unnoticed, WaitsOn
      <4>3. QED
        BY <4>2, UnnoticedStays
    <3>3. QED
      BY <3>2
  <2>2. SilencedIn(g)' = SilencedIn(g)
    BY DEF SilencedIn
  <2>3. CASE h # g \/ g \notin alive
    <3>1. \A d \in Calls : WaitsFor(d, h) => OutcomeIn(d, g)' = OutcomeIn(d, g)
      BY <1>1, <1>3, <2>3 DEF OutcomeIn
    <3>2. ProcessOf(g)' = ProcessOf(g)
      BY <1>2, <2>3 DEF ProcessOf
    <3>3. QED
      BY <2>1, <2>2, <3>1, <3>2 DEF Follows, AtChannel, OutcomesIn
  <2>4. CASE h = g /\ g \in alive
    <3>1. ProcessOf(g) = "running" /\ ProcessOf(g)' = "closed"
      <4>1. g \in 1 .. spawned
        BY <2>4 DEF Linked, LinkInv, AtProcesses
      <4>2. g \notin alive' /\ ~(g > spawned')
        BY <1>2, <2>4, <4>1
      <4>3. QED
        BY <2>4, <4>2 DEF ProcessOf
    <3>2. \A d \in Calls : OutcomeIn(d, g) = "open" <=> WaitsFor(d, h)
      <4>1. TAKE d \in Calls
      <4>2. CASE WaitsFor(d, h)
        BY <1>1, <2>4, <4>2 DEF Linked, LinkInv, CallPlaces, OutcomeIn, Past
      <4>3. CASE ~WaitsFor(d, h)
        <5>1. gen[d] # g \/ pc[d] \notin {"writing", "waiting"}
          BY <2>4, <4>3 DEF WaitsFor
        <5>2. CASE gen[d] # g
          BY <4>3, <5>2 DEF OutcomeIn
        <5>3. CASE gen[d] = g /\ pc[d] \notin {"writing", "waiting"}
          <6>1. OutcomeIn(d, g) # "open"
            BY <5>3 DEF OutcomeIn
          <6>2. QED
            BY <4>3, <6>1
        <5>4. QED
          BY <5>1, <5>2, <5>3
      <4>4. QED
        BY <4>2, <4>3
    <3>3. \A d \in Calls : WaitsFor(d, h) => OutcomeIn(d, g)' = "broken"
      BY <1>1, <2>4 DEF OutcomeIn
    <3>4. OutcomesIn(g)' = [d \in Calls |->
              IF OutcomesIn(g)[d] = "open" THEN "broken" ELSE OutcomesIn(g)[d]]
      BY <2>1, <3>2, <3>3 DEF OutcomesIn
    <3>5. Channel(g)!Close
      BY <2>2, <3>1, <3>4 DEF Channel!Close
    <3>6. QED
      BY <3>5 DEF Follows, Channel!ServiceNext
  <2>5. QED
    BY <2>3, <2>4
<1>7. QED
  BY <1>4, <1>5, <1>6 DEF LinkInv

LEMMA DiscardFollows ==
    ASSUME Linked, NEW h, NEW b, Discard(h, b),
           UNCHANGED <<gen, id, reply, slot, spawned, alive, working>>
    PROVE  LinkInv' /\ \A g \in Gens : Follows(g)
<1> USE LinkFacts
<1>1. \A d \in Calls :
          /\ WaitsFor(d, h) /\ id[d] = b =>
                 /\ pc[d] \in {"writing", "waiting"} /\ gen[d] = h
                 /\ pc'[d] \in {"disowned", "returned"} /\ result'[d] = "broken" /\ d \in discarded'
          /\ ~(WaitsFor(d, h) /\ id[d] = b) =>
                 pc'[d] = pc[d] /\ result'[d] = result[d] /\ (d \in discarded' <=> d \in discarded)
  BY DEF Discard, WaitsFor, AfterDiscard
<1>2. AtProcesses'
  <2>1. \A d \in Calls : \/ pc'[d] = pc[d] \/ pc'[d] = "returned"
                         \/ pc'[d] = "disowned" /\ pc[d] \in {"writing", "waiting"}
    BY <1>1
  <2>2. QED
    BY <2>1 DEF Linked, LinkInv, AtProcesses, AtBack
<1>3. CallPlaces'
  <2>1. ASSUME NEW d \in Calls
        PROVE  /\ pc'[d] \notin Past => result'[d] = "none"
               /\ pc'[d] = "disowned" => result'[d] = "broken"
               /\ d \in discarded' => result'[d] \in {"broken", "timeout"}
               /\ d \in working => pc'[d] \in Past \cup {"waiting"}
    <3>1. CASE WaitsFor(d, h) /\ id[d] = b
      BY <1>1, <3>1 DEF Past
    <3>2. CASE ~(WaitsFor(d, h) /\ id[d] = b)
      BY <1>1, <3>2 DEF Linked, LinkInv, CallPlaces
    <3>3. QED
      BY <3>1, <3>2
  <2>2. QED
    BY <2>1 DEF CallPlaces
<1>4. ASSUME NEW g \in Gens
      PROVE  Follows(g)
  <2>1. ProcessOf(g)' = ProcessOf(g)
    BY DEF ProcessOf
  <2>2. \A d \in Calls : ~(WaitsFor(d, h) /\ id[d] = b) \/ h # g =>
            OutcomeIn(d, g)' = OutcomeIn(d, g) /\ (gen[d] = g => (d \in discarded' <=> d \in discarded))
    BY <1>1 DEF OutcomeIn
  <2>3. CASE h # g \/ \A d \in Calls : ~(WaitsFor(d, h) /\ id[d] = b)
    BY <2>1, <2>2, <2>3 DEF Follows, AtChannel, OutcomesIn, SilencedIn
  <2>4. ASSUME NEW c \in Calls, h = g, WaitsFor(c, h) /\ id[c] = b
        PROVE  Follows(g)
    <3>1. \A d \in Calls : d # c => ~(WaitsFor(d, h) /\ id[d] = b)
      BY <2>4 DEF Linked, ServiceInv, Own, NumberInv, WaitsFor, Numbered
    <3>2. OutcomeIn(c, g) = "open" /\ OutcomeIn(c, g)' = "broken"
      BY <1>1, <2>4 DEF Linked, LinkInv, CallPlaces, OutcomeIn, Past
    <3>3. Channel(g)!Becomes(c, "broken")
      BY <2>2, <3>1, <3>2, OneMoves
    <3>4. SilencedIn(g)' = SilencedIn(g) \cup {c}
      <4>1. c \in discarded' /\ gen[c] = g
        BY <1>1, <2>4
      <4>2. \A d \in Calls : d # c /\ gen[d] = g => (d \in discarded' <=> d \in discarded)
        BY <2>2, <3>1
      <4>3. QED
        BY <4>1, <4>2 DEF SilencedIn
    <3>5. Channel(g)!Cancel(c)
      BY <2>1, <3>2, <3>3, <3>4 DEF Channel!Cancel, Channel!Silence, OutcomesIn
    <3>6. QED
      BY <3>5 DEF Follows, Channel!ServiceNext
  <2>5. QED
    BY <2>3, <2>4
<1>5. QED
  BY <1>2, <1>3, <1>4 DEF LinkInv

-----------------------------------------------------------------------------
LEMMA TaskFollows ==
    ASSUME Linked, NEW c \in Calls, TaskStep(c)
    PROVE  LinkInv' /\ \A g \in Gens : Follows(g)
<1> USE LinkFacts
<1>1. CASE EnsureSpawns(c)
  BY <1>1, SpawnFollows DEF EnsureSpawns, Installed
<1>2. CASE EmptySlot(c)
  <2>1. DEFINE next == [pc EXCEPT ![c] = "reporting"]
  <2>2. \A d \in Calls : next[d] = pc[d] \/ (pc[d] = "failed" /\ next[d] = "reporting")
    BY <1>2 DEF EmptySlot
  <2>3. /\ Ended(slot) /\ pc' = PcAfterEnd(slot, next) /\ result' = ResultAfterEnd(slot)
        /\ slot' = None /\ UNCHANGED <<gen, id, reply, spawned, discarded>>
    BY <1>2 DEF EmptySlot
  <2> HIDE DEF next
  <2>4. QED
    BY <2>2, <2>3, EndFollows
<1>3. CASE \/ Acquire(c) \/ EnsureReuses(c) \/ RefreshAfterSpawn(c) \/ EnsureFails(c)
           \/ CheckRow(c) \/ BindRow(c) \/ RemoveRow(c) \/ Respond(c) \/ Report(c)
  BY <1>3, QuietTaskFollows
<1>4. CASE DetectFailure(c) \/ Abandon(c)
  BY <1>4, JudgeFollows
<1>5. QED
  BY <1>1, <1>2, <1>3, <1>4, CloneFollows, RegisterFollows, WriteFollows, TimeOutFollows, DeliverFollows
     DEF TaskStep

LEMMA LoopFollows ==
    ASSUME Linked, NEW s \in Sessions, LoopStep(s)
    PROVE  LinkInv' /\ \A g \in Gens : Follows(g)
<1>1. CASE CancelPending(s)
  <2>1. Discard(loop[s].gen, loop[s].id)
        /\ UNCHANGED <<gen, id, reply, slot, spawned, alive, working>>
    BY <1>1 DEF CancelPending
  <2>2. QED
    BY <2>1, DiscardFollows
<1>2. CASE ControlTakes(s)
  <2>1. /\ Ended(slot) /\ pc' = PcAfterEnd(slot, pc) /\ result' = ResultAfterEnd(slot)
        /\ slot' = None /\ UNCHANGED <<gen, id, reply, spawned, discarded>>
    BY <1>2 DEF ControlTakes
  <2>2. QED
    BY <2>1, EndFollows
<1>3. CASE RestartSpawns(s)
  <2>1. CASE Installed /\ alive' = alive \cup {spawned + 1}
    BY <1>3, <2>1, SpawnFollows DEF RestartSpawns, taskVars
  <2>2. CASE UNCHANGED <<slot, spawned, alive>>
    BY <1>3, <2>2, StillFollows DEF RestartSpawns, Still, backendVars
  <2>3. QED
    BY <1>3, <2>1, <2>2 DEF RestartSpawns
<1>4. CASE \/ CancelRow(s) \/ CancelPeer(s) \/ TellBackend(s) \/ ControlRefused(s) \/ RestartRefreshes(s)
           \/ CheckClosed(s) \/ \E message \in Messages : WriteOut(s, message)
  <2>1. Still
    BY <1>4 DEF Still, CancelRow, CancelPeer, TellBackend, ControlRefused, RestartRefreshes, CheckClosed,
                WriteOut
  <2>2. QED
    BY <2>1, StillFollows
<1>5. QED
  BY <1>1, <1>2, <1>3, <1>4 DEF LoopStep

LEMMA StepFollows ==
    ASSUME Linked, [Next]_vars
    PROVE  LinkInv' /\ \A g \in Gens : Follows(g)
<1>1. CASE FanStep
  <2>1. CASE DiscardCancelled
    <3>1. Discard(fan.gen, fan.id)
          /\ UNCHANGED <<gen, id, reply, slot, spawned, alive, working>>
      BY <2>1 DEF DiscardCancelled
    <3>2. QED
      BY <3>1, DiscardFollows
  <2>2. CASE TakeProgress \/ TakeCancel \/ TranslateCancel
    BY <2>2, StillFollows DEF Still, TakeProgress, TakeCancel, TranslateCancel
  <2>3. QED
    BY <1>1, <2>1, <2>2 DEF FanStep
<1>2. CASE ClientStep
  <2>1. ASSUME NEW c \in Calls, Request(c)
        PROVE  LinkInv' /\ \A g \in Gens : Follows(g)
    BY <2>1, QuietTaskFollows
  <2>2. CASE ~\E c \in Calls : Request(c)
    BY <1>2, <2>2, StillFollows DEF ClientStep, Still, CancelLine, ControlLine, HalfClose, Break
  <2>3. QED
    BY <2>1, <2>2
<1>3. CASE BackendStep
  <2>1. ASSUME NEW e \in Emits, Emit(e[1], e[2])
        PROVE  LinkInv' /\ \A g \in Gens : Follows(g)
    BY <2>1, StillFollows DEF Still, Emit
  <2>2. ASSUME NEW h \in Gens, Exit(h)
        PROVE  LinkInv' /\ \A g \in Gens : Follows(g)
    <3>1. /\ Ended(h) /\ pc' = PcAfterEnd(h, pc) /\ result' = ResultAfterEnd(h)
          /\ slot' = slot /\ UNCHANGED <<gen, id, reply, spawned, discarded>>
      BY <2>2 DEF Exit
    <3>2. QED
      BY <3>1, EndFollows
  <2>3. ASSUME NEW h \in Gens, Jam(h) \/ Drain(h)
        PROVE  LinkInv' /\ \A g \in Gens : Follows(g)
    BY <2>3, StillFollows DEF Still, Jam, Drain
  <2>4. QED
    BY <1>3, <2>1, <2>2, <2>3, AnswerFollows DEF BackendStep
<1>4. CASE UNCHANGED vars
  BY <1>4, StillFollows DEF Still, vars
<1>5. QED
  BY <1>1, <1>2, <1>3, <1>4, TaskFollows, LoopFollows DEF Next

LEMMA ScriptShrinks == ASSUME Scripted, todo' \subseteq todo PROVE Scripted'
BY DEF Scripted

LEMMA StepKeepsScript == ASSUME Linked, [Next]_vars PROVE Scripted'
<1>1. todo' \subseteq todo
  BY CallsShrink DEF Linked, ServiceInv, RowsShrink, vars
<1>2. QED
  BY <1>1, ScriptShrinks DEF Linked

LEMMA InitFollows == ASSUME Init PROVE LinkInv /\ Scripted /\ \A g \in Gens : Channel(g)!ServiceInit
<1> USE DEF Init
<1>1. AtProcesses
  BY BrokerAssumption DEF AtProcesses, AtBack
<1>2. CallPlaces
  BY DEF CallPlaces, Past
<1>3. ASSUME NEW g \in Gens
      PROVE  Channel(g)!ServiceInit
  <2>1. OutcomesIn(g) = [c \in Calls |-> "unsent"]
    BY DEF OutcomesIn, OutcomeIn
  <2>2. SilencedIn(g) = {} /\ ProcessOf(g) = "running"
    <3>1. g = 1 \/ g > 1
      BY DEF Gens
    <3>2. QED
      BY <3>1 DEF SilencedIn, ProcessOf
  <2>3. QED
    BY <2>1, <2>2 DEF Channel!ServiceInit
<1>4. Scripted
  BY DEF Scripted
<1>5. QED
  BY <1>1, <1>2, <1>3, <1>4 DEF LinkInv

(* Whatever the daemon does with its calls, their rows and its processes,  *)
(* at the channel to each process it does only what ChannelService allows, *)
(* and ChannelKeepsPromise shows that Backend keeps that: what this module *)
(* takes for granted of send_request and the cancellations is so.          *)
THEOREM BrokerUsesChannels == ASSUME IdsUsedOnce PROVE Spec => ChannelsUsedAsPromised
<1>1. Init => Linked
  BY InitServes, InitFollows DEF Linked
<1>2. Linked /\ [Next]_vars => Linked'
  BY StepKeepsService, StepFollows, StepKeepsScript DEF Linked
<1>3. Linked /\ [Next]_vars => \A g \in Gens : Follows(g)
  BY StepFollows
<1>4. Init => \A g \in Gens : Channel(g)!ServiceInit
  BY InitFollows
<1>5. QED
  BY <1>1, <1>2, <1>3, <1>4, PTL DEF Spec, ChannelsUsedAsPromised, Follows

(* So is the whole broker, whose fan-out task and session loops take the    *)
(* requests of the backend by a way that touches no call and no process.   *)
LEMMA PeersStepFollows ==
    ASSUME Linked, [PeersNext]_peersVars
    PROVE  LinkInv' /\ Scripted' /\ \A g \in Gens : Follows(g)
<1>1. CASE AskStep
  <2>1. todo' \subseteq todo
    BY <1>1 DEF AskStep, Ask, Comes, TakeAsk, RefuseAsk, ReadAnswer, InsertAsk, SendAsk,
       TakeExit, SendExit, ForwardAnswer
  <2>2. Scripted'
    BY <2>1, ScriptShrinks DEF Linked
  <2> QED
    BY <1>1, <2>2, StillFollows DEF AskStep, Still, Ask, TakeAsk, RefuseAsk, ReadAnswer, InsertAsk,
     SendAsk, TakeExit, SendExit, ForwardAnswer
<1>2. CASE [Next]_vars
  BY <1>2, StepFollows, StepKeepsScript
<1>3. QED
  BY <1>1, <1>2 DEF PeersNext, peersVars

THEOREM PeersUseChannels == ASSUME IdsUsedOnce PROVE PeersSpec => ChannelsUsedAsPromised
<1>1. PeersInit => Linked /\ AskInv /\ \A g \in Gens : Channel(g)!ServiceInit
  BY InitPeersServe, InitFollows DEF Linked, PeersInit
<1>2. Linked /\ AskInv /\ [PeersNext]_peersVars =>
          Linked' /\ AskInv' /\ \A g \in Gens : Follows(g)
  BY PeersStepServes, PeersStepFollows DEF Linked
<1>3. QED
  BY <1>1, <1>2, PTL DEF PeersSpec, ChannelsUsedAsPromised, Follows
=============================================================================
