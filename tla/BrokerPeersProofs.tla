--------------------------- MODULE BrokerPeersProofs ---------------------------
(***************************************************************************)
(* What is proved of the calls alone still holds when the backends make    *)
(* requests of their own, and those requests go where they should, for any *)
(* number of calls, requests, sessions and processes.                      *)
(***************************************************************************)
EXTENDS BrokerPeers, BrokerCallsProofs, FiniteSetTheorems

(* A request on its way to a client is on its way to a session.            *)
AskInv ==
    /\ fan.at = "offer" => fan.session \in Sessions /\ fan.ask \in Asks
    /\ handed \in [Asks -> Sessions \cup {None}]

PeersInv == BrokerInv /\ LoopInv /\ AskInv

(* What the fan-out task and the loops do for a request of a backend       *)
(* touches no client row and no task of a call.                            *)
LEMMA AskStepIsPeerOnly ==
    ASSUME PeersInv, AskStep
    PROVE  /\ [LifetimeNext]_lifetimeVars
           /\ UNCHANGED clientVars /\ UNCHANGED taskVars
<1> USE PeersAssumption DEF PeersInv, AskInv, clientVars
<1>1. ASSUME NEW a \in Asks, NEW g \in Gens, Ask(a, g)
      PROVE  UNCHANGED <<lifetimeVars, taskVars>>
  BY <1>1 DEF Ask
<1>2. ASSUME NEW a \in Asks, TakeAsk(a)
      PROVE  UNCHANGED <<lifetimeVars, taskVars>>
  BY <1>2 DEF TakeAsk
<1>3. ASSUME NEW a \in Asks, ReadAnswer(a)
      PROVE  /\ UNCHANGED taskVars
             /\ \/ UNCHANGED lifetimeVars
                \/ \E p \in Keys : TakePeer(p)
  <2>1. <<handed[a], AskId[a]>> \in Keys
    BY <1>3 DEF ReadAnswer, Keys
  <2>2. QED
    BY <1>3, <2>1 DEF ReadAnswer
<1>4. CASE InsertAsk
  <2>1. <<fan.session, AskId[fan.ask]>> \in Keys /\ AskToken[fan.ask] \in Tokens \cup {None}
    BY <1>4 DEF InsertAsk, Keys
  <2>2. QED
    BY <1>4, <2>1 DEF InsertAsk, InsertPeer, LifetimeNext
<1>5. CASE SendAsk \/ TakeExit
  BY <1>5 DEF SendAsk, TakeExit, ClearPeers, LifetimeNext, lifetimeVars
<1>6. ASSUME NEW g \in Gens, SendExit(g)
      PROVE  UNCHANGED <<lifetimeVars, taskVars>>
  BY <1>6 DEF SendExit
<1>7. ASSUME NEW s \in Sessions, ForwardAnswer(s)
      PROVE  UNCHANGED <<lifetimeVars, taskVars>>
  BY <1>7 DEF ForwardAnswer
<1>8. CASE RefuseAsk
  BY <1>8 DEF RefuseAsk, lifetimeVars
<1>9. QED
  BY <1>1, <1>2, <1>3, <1>4, <1>5, <1>6, <1>7, <1>8
     DEF AskStep, LifetimeNext, TakePeer, lifetimeVars

(* At most one row is bound, so a session is found for a request whenever  *)
(* one is.                                                                 *)
LEMMA BoundSessionFound ==
    ASSUME BrokerInv
    PROVE  \/ UniqueBoundSession = None /\ \A k \in Keys : ~IsBound(k)
           \/ \E k \in Keys : IsBound(k) /\ UniqueBoundSession = k[1]
<1> DEFINE served == {k[1] : k \in {r \in Rows : IsBound(r)}}
<1>1. CASE \A k \in Keys : ~IsBound(k)
  <2>1. served = {}
    BY <1>1 DEF Rows
  <2>2. Cardinality(served) = 0
    BY <2>1, FS_EmptySet
  <2>3. QED
    BY <1>1, <2>2 DEF UniqueBoundSession, TheOnly
<1>2. CASE \E k \in Keys : IsBound(k)
  <2>1. PICK k \in Keys : IsBound(k)
    BY <1>2
  <2>2. \A j \in Keys : IsBound(j) => j = k
    BY <2>1 DEF BrokerInv, OneBoundRow
  <2>3. HasRow(k)
    BY <2>1, SentinelAssumption DEF IsBound, HasRow
  <2>4. served = {k[1]}
    BY <2>1, <2>2, <2>3 DEF Rows
  <2>5. Cardinality(served) = 1
    BY <2>4, FS_Singleton
  <2>6. UniqueBoundSession = k[1]
    BY <2>4, <2>5 DEF UniqueBoundSession, TheOnly
  <2>7. QED
    BY <2>1, <2>6
<1>3. QED
  BY <1>1, <1>2

LEMMA AskStepKeepsInv == ASSUME PeersInv, AskStep PROVE PeersInv'
<1>1. BrokerInv'
  BY AskStepIsPeerOnly, NextKeepsInv, PeerOnlyKeepsInv DEF PeersInv, BrokerInv
<1>2. LoopInv'
  <2> USE DEF PeersInv, LoopInv, Continue
  <2>1. ASSUME NEW a \in Asks, ReadAnswer(a)
        PROVE  LoopInv'
    BY <2>1 DEF ReadAnswer
  <2>2. ASSUME NEW s \in Sessions, ForwardAnswer(s)
        PROVE  LoopInv'
    BY <2>2 DEF ForwardAnswer, Ready, Telling
  <2>3. CASE UNCHANGED loop
    BY <2>3
  <2>4. QED
    BY <2>1, <2>2, <2>3 DEF AskStep, Ask, TakeAsk, RefuseAsk, InsertAsk, SendAsk, TakeExit, SendExit,
       sessionVars
<1>3. AskInv'
  <2> USE DEF PeersInv, AskInv
  <2>1. ASSUME NEW a \in Asks, TakeAsk(a)
        PROVE  AskInv'
    <3>1. UniqueBoundSession = None \/ UniqueBoundSession \in Sessions
      BY BoundSessionFound DEF Keys
    <3>2. \/ fan' = Ready
          \/ fan' = [at |-> "refusing", gen |-> slot]
          \/ fan' = Offer(a, UniqueBoundSession, 1) /\ UniqueBoundSession # None
      BY <2>1 DEF TakeAsk
    <3>3. QED
      BY <2>1, <3>1, <3>2 DEF TakeAsk, Ready, Offer, askVars
  <2>2. CASE InsertAsk \/ SendAsk
    <3>1. fan' = Offer(fan.ask, fan.session, 2) \/ fan' = Ready
      BY <2>2 DEF InsertAsk, SendAsk, OfferGoesOn
    <3>2. fan.at = "offer"
      BY <2>2 DEF InsertAsk, SendAsk
    <3>3. handed' \in [Asks -> Sessions \cup {None}]
      BY <2>2 DEF InsertAsk, SendAsk, askVars
    <3>4. QED
      BY <3>1, <3>2, <3>3 DEF Ready, Offer
  <2>3. CASE UNCHANGED <<fan, handed>>
    BY <2>3
  <2>4. CASE RefuseAsk
    BY <2>4 DEF RefuseAsk, Ready, askVars
  <2>5. QED
    BY <2>1, <2>2, <2>3, <2>4 DEF AskStep, Ask, ReadAnswer, TakeExit, SendExit, ForwardAnswer,
       askVars, eventVars
<1>4. QED
  BY <1>1, <1>2, <1>3 DEF PeersInv

(* What the calls do leaves the requests of the backends alone.            *)
LEMMA CallStepKeepsAskInv ==
    ASSUME AskInv, [Next]_vars, UNCHANGED askVars
    PROVE  AskInv'
<1> USE DEF AskInv, askVars
<1>1. CASE UNCHANGED fan
  BY <1>1
<1>2. CASE fan'.at \in {"ready", "translate", "discard"}
  BY <1>2
<1>3. ASSUME FanStep
      PROVE  UNCHANGED fan \/ fan'.at \in {"ready", "translate", "discard"}
  BY <1>3 DEF FanStep, TakeProgress, TakeCancel, TranslateCancel, DiscardCancelled, Ready
<1>4. ASSUME NEW c \in Calls, TaskStep(c)
      PROVE  UNCHANGED fan
  BY <1>4 DEF TaskStep, Acquire, EnsureReuses, EnsureSpawns, EnsureFails, RefreshAfterSpawn,
     CloneSlot, CheckRow, BindRow, Register, Write, Deliver, TimeOut, RemoveRow, Respond, Abandon,
     DetectFailure, EmptySlot, Report, eventVars
<1>5. ASSUME NEW s \in Sessions, LoopStep(s)
      PROVE  UNCHANGED fan
  BY <1>5 DEF LoopStep, CancelRow, CancelPending, CancelPeer, TellBackend, ControlRefused, ControlTakes,
     RestartSpawns, RestartRefreshes, CheckClosed, WriteOut, eventVars
<1>6. ASSUME ClientStep \/ BackendStep
      PROVE  UNCHANGED fan
  BY <1>6 DEF ClientStep, Request, CancelLine, ControlLine, HalfClose, Break, BackendStep,
     Answer, Emit, Exit, Jam, Drain, eventVars
<1>7. CASE UNCHANGED vars
  BY <1>7 DEF vars, eventVars
<1>8. QED
  BY <1>1, <1>2, <1>3, <1>4, <1>5, <1>6, <1>7 DEF Next

LEMMA PeersStepKeepsInv == PeersInv /\ [PeersNext]_peersVars => PeersInv'
<1> SUFFICES ASSUME PeersInv, [PeersNext]_peersVars PROVE PeersInv'
  OBVIOUS
<1>1. CASE [Next]_vars /\ UNCHANGED askVars
  BY <1>1, StepKeepsInv, LoopKeepsInv, CallStepKeepsAskInv DEF PeersInv
<1>2. QED
  BY <1>1, AskStepKeepsInv DEF PeersNext, peersVars

LEMMA InitPeers == PeersInit => PeersInv
  BY InitBroker DEF PeersInit, PeersInv, AskInv, Init, Ready

(* pass_through_lock keeps its promise also with peer requests about.      *)
THEOREM PeersSerialized == PeersSpec => []OneBoundRow
<1>1. PeersInv => OneBoundRow
  BY DEF PeersInv, BrokerInv
<1>2. QED
  BY <1>1, InitPeers, PeersStepKeepsInv, PTL DEF PeersSpec

(* The two parts of the broker together still use the index one operation  *)
(* at a time and never bind an id twice.                                   *)
THEOREM PeersUseIndexAsMeant == PeersSpec => LifetimeSpec
<1>1. PeersInv /\ [PeersNext]_peersVars => [LifetimeNext]_lifetimeVars
  <2> SUFFICES ASSUME PeersInv, [PeersNext]_peersVars PROVE [LifetimeNext]_lifetimeVars
    OBVIOUS
  <2>1. CASE [Next]_vars
    BY <2>1, StepRefines DEF PeersInv
  <2>2. QED
    BY <2>1, AskStepIsPeerOnly DEF PeersNext, peersVars
<1>2. PeersInit => LifetimeInit
  BY DEF PeersInit, Init
<1>3. QED
  BY <1>1, <1>2, InitPeers, PeersStepKeepsInv, PTL DEF PeersSpec, LifetimeSpec

(* So a cancellation or a request of a backend finds the live call its id   *)
(* names, and no other, in every state of the running broker.              *)
THEOREM BrokerIndexConsistent == PeersSpec => []BackendIndexExact
<1>1. PeersInv => BackendIndexExact
  BY DEF PeersInv, BrokerInv, LifetimeInv
<1>2. QED
  BY <1>1, InitPeers, PeersStepKeepsInv, PTL DEF PeersSpec

(* Progress of a backend is routed to a call that has been sent, has not    *)
(* ended and asked for that token, however the sessions share tokens.      *)
THEOREM ProgressFindsLiveCalls == PeersSpec => []TokenIndexSound
<1>1. PeersInv => TokenIndexSound
  BY DEF PeersInv, BrokerInv, LifetimeInv
<1>2. QED
  BY <1>1, InitPeers, PeersStepKeepsInv, PTL DEF PeersSpec

(* Progress of a client is relayed only for a request of the backend that   *)
(* the same session still has to answer, whatever ends of processes,       *)
(* answers and cancellations have cleared.                                 *)
THEOREM ClientProgressFindsPeers == PeersSpec => []PeerIndexSound
<1>1. PeersInv => PeerIndexSound
  BY DEF PeersInv, BrokerInv, LifetimeInv
<1>2. QED
  BY <1>1, InitPeers, PeersStepKeepsInv, PTL DEF PeersSpec

THEOREM BrokerRoutesSurvive == PeersSpec => RouteOutlivesOthers
  BY PeersUseIndexAsMeant, RoutesSurvive

(* Requests of the backends go out as messages like any other; types and   *)
(* processes are as they are without them.                                 *)
LEMMA AskKeepsTypes ==
    ASSUME PeersInv, TypeParts, AskStep
    PROVE  TypeParts'
<1>1. UNCHANGED <<taskVars, backendVars, conn, owner>>
  BY AskStepIsPeerOnly DEF AskStep, Ask, TakeAsk, RefuseAsk, ReadAnswer, InsertAsk, SendAsk,
     TakeExit, SendExit, ForwardAnswer, sessionVars
<1>2. outbox' \in [Sessions -> SUBSET Messages]
  <2>1. CASE SendAsk
    BY <2>1, PostedIsTyped DEF SendAsk, PeersInv, AskInv, Messages, TypeParts
  <2>2. CASE UNCHANGED outbox
    BY <2>2 DEF TypeParts, SessionType
  <2>3. QED
    BY <2>1, <2>2 DEF AskStep, Ask, TakeAsk, RefuseAsk, ReadAnswer, InsertAsk, TakeExit,
       SendExit, ForwardAnswer, sessionVars
<1>3. QED
  BY <1>1, <1>2 DEF TypeParts, CallType, ProcessType, SessionType, taskVars, backendVars

(* The types of calls, processes and sessions also hold with requests of   *)
(* the backends about.                                                     *)
THEOREM PeersWellTyped == PeersSpec => []BrokerTypeOK
<1>1. PeersInv /\ TypeParts /\ [PeersNext]_peersVars => TypeParts'
  BY StepKeepsTypes, AskKeepsTypes DEF PeersInv, PeersNext, peersVars
<1>2. PeersInit => TypeParts
  BY InitTypes DEF PeersInit
<1>3. PeersInv /\ TypeParts => BrokerTypeOK
  BY PartsMakeType DEF PeersInv
<1>4. QED
  BY <1>1, <1>2, <1>3, InitPeers, PeersStepKeepsInv, PTL DEF PeersSpec

(* No row outlives its call, whatever the backends ask and the clients      *)
(* answer or cancel.                                                       *)
THEOREM PeersRowsHaveOwners == PeersSpec => []NoOrphanRow
<1>1. PeersInv /\ NoOrphanRow /\ [PeersNext]_peersVars => NoOrphanRow'
  <2> SUFFICES ASSUME PeersInv, NoOrphanRow, [PeersNext]_peersVars PROVE NoOrphanRow'
    OBVIOUS
  <2>1. CASE [Next]_vars
    BY <2>1, StepLeavesNone DEF PeersInv
  <2>2. CASE AskStep
    BY <2>2, AskStepIsPeerOnly, QuietLeavesNone DEF clientVars, taskVars, HasRow
  <2>3. QED
    BY <2>1, <2>2 DEF PeersNext, peersVars
<1>2. PeersInit => NoOrphanRow
  BY DEF PeersInit, Init, LifetimeInit, NoOrphanRow, HasRow
<1>3. QED
  BY <1>1, <1>2, InitPeers, PeersStepKeepsInv, PTL DEF PeersSpec

-----------------------------------------------------------------------------
(* The answers of the clients.                                             *)

\* What the calls add to the queue.
CallEvents == [kind : {"progress"}, call : Calls, ack : Calls \cup {"reader", None}]
                  \cup [kind : {"cancel"}, call : Calls]
EventRecords == CallEvents \cup [kind : {"ask"}, ask : Asks] \cup [kind : {"exit"}, gen : Gens]
HistoryFields == {"cancelled", "revived", "stopped", "blamed", "notices", "controls",
                  "crossed", "left"}

Queued == {events[i] : i \in DOMAIN events}

LEMMA QueueGrows ==
    ASSUME events \in Seq(EventRecords), NEW e, events' = Append(events, e)
    PROVE  Queued' = Queued \cup {e}
<1>1. DOMAIN events = 1 .. Len(events) /\ DOMAIN events' = 1 .. (Len(events) + 1)
  OBVIOUS
<1>2. \A i \in 1 .. Len(events) : events'[i] = events[i]
  OBVIOUS
<1>3. events'[Len(events) + 1] = e /\ Len(events) \in Nat
  OBVIOUS
<1>4. QED
  BY <1>1, <1>2, <1>3 DEF Queued

LEMMA QueueShrinks ==
    ASSUME events \in Seq(EventRecords), events # <<>>, events' = Tail(events)
    PROVE  Queued' \subseteq Queued /\ Head(events) \in Queued
<1>1. DOMAIN events = 1 .. Len(events) /\ DOMAIN events' = 1 .. (Len(events) - 1)
  OBVIOUS
<1>2. \A i \in 1 .. (Len(events) - 1) : events'[i] = events[i + 1]
  OBVIOUS
<1>3. Head(events) = events[1] /\ Len(events) \in Nat /\ Len(events) # 0
  OBVIOUS
<1>4. QED
  BY <1>1, <1>2, <1>3 DEF Queued

(* An answer that takes acknowledgements moves no event.                   *)
LEMMA AcksMove ==
    ASSUME events \in Seq(EventRecords), NEW g, NEW to \in Calls \cup {None},
           events' = AcksGo(g, to)
    PROVE  /\ events' \in Seq(EventRecords) /\ DOMAIN events' = DOMAIN events
           /\ \A i \in DOMAIN events :
                 events'[i] # events[i]
                     => events[i].kind = "progress" /\ events'[i].kind = "progress"
                        /\ events'[i] \in CallEvents
<1>1. DOMAIN events = 1 .. Len(events) /\ Len(events) \in Nat
  OBVIOUS
<1>2. ASSUME NEW i \in DOMAIN events, events'[i] # events[i]
      PROVE  events[i].kind = "progress" /\ events'[i] \in CallEvents
                 /\ events'[i].kind = "progress"
  <2>1. events[i].kind = "progress" /\ events'[i] = [events[i] EXCEPT !.ack = to]
    BY <1>2 DEF AcksGo
  <2>2. events[i] \in EventRecords
    BY <1>1
  <2>3. events[i] \in [kind : {"progress"}, call : Calls, ack : Calls \cup {"reader", None}]
    BY <2>1, <2>2 DEF EventRecords, CallEvents
  <2>4. QED
    BY <2>1, <2>3 DEF CallEvents
<1>3. DOMAIN events' = DOMAIN events
  BY DEF AcksGo
<1>4. \A i \in DOMAIN events : events'[i] \in EventRecords
  BY <1>1, <1>2 DEF EventRecords
<1>5. events' \in Seq(EventRecords)
  <2>1. events' = [i \in 1 .. Len(events) |-> events'[i]]
    BY <1>1, <1>3 DEF AcksGo
  <2>2. QED
    BY <1>1, <1>3, <1>4, <2>1
<1>6. QED
  BY <1>2, <1>3, <1>5

LEMMA EventsStay ==
    ASSUME Next, events \in Seq(EventRecords)
    PROVE  events' \in Seq(EventRecords) /\ Queued' \subseteq Queued \cup CallEvents
<1> USE DEF eventVars
<1>1. ASSUME NEW e \in Emits, Emit(e[1], e[2])
      PROVE  events' \in Seq(EventRecords) /\ Queued' \subseteq Queued \cup CallEvents
  <2>1. PICK r \in CallEvents : events' = Append(events, r)
    BY <1>1 DEF Emit, Emits, CallEvents
  <2>2. QED
    BY <2>1, QueueGrows DEF EventRecords
<1>2. CASE TakeProgress \/ TakeCancel
  BY <1>2, QueueShrinks DEF TakeProgress, TakeCancel
<1>3. CASE events' = events
  BY <1>3 DEF Queued
<1>4. ASSUME NEW c \in Calls, TaskStep(c)
      PROVE  events' = events
  BY <1>4 DEF TaskStep, Acquire, EnsureReuses, EnsureSpawns, EnsureFails, RefreshAfterSpawn,
     CloneSlot, CheckRow, BindRow, Register, Write, Deliver, TimeOut, RemoveRow, Respond, Abandon,
     DetectFailure, EmptySlot, Report
<1>5. ASSUME NEW s \in Sessions, LoopStep(s)
      PROVE  events' = events
  BY <1>5 DEF LoopStep, CancelRow, CancelPending, CancelPeer, TellBackend, ControlRefused, ControlTakes,
     RestartSpawns, RestartRefreshes, CheckClosed, WriteOut
<1>6. ASSUME ClientStep \/ (\E g \in Gens : Exit(g) \/ Jam(g) \/ Drain(g))
             \/ TranslateCancel \/ DiscardCancelled
      PROVE  events' = events
  BY <1>6 DEF ClientStep, Request, CancelLine, ControlLine, HalfClose, Break, Exit, Jam,
     Drain, TranslateCancel, DiscardCancelled
<1>7. ASSUME NEW c \in Calls, Answer(c)
      PROVE  events' \in Seq(EventRecords) /\ Queued' \subseteq Queued \cup CallEvents
  <2>1. PICK to \in Calls \cup {None} : events' = AcksGo(gen[c], to)
    BY <1>7 DEF Answer
  <2>2. QED
    BY <2>1, AcksMove DEF Queued
<1>8. QED
  BY <1>1, <1>2, <1>3, <1>4, <1>5, <1>6, <1>7 DEF Next, BackendStep, FanStep

(* Nothing has taken rows away but the answers themselves.                 *)
Undisturbed == reported = {} /\ history.crossed = {}
Held(s, a) == peerToken[<<s, AskId[a]>>] # Absent

(* A request is in the queue, on its way or handed over only when it was    *)
(* made, an exit is told only of a process that ended, and as long as       *)
(* nothing disturbs the rows, that of a request sent, or about to be sent, *)
(* is there until its answer comes.                                        *)
AnswerInv ==
    /\ events \in Seq(EventRecords) /\ history = [f \in HistoryFields |-> history[f]]
    /\ asker = [a \in Asks |-> asker[a]] /\ spawned \in Nat
    /\ reported \subseteq (1 .. spawned) \ alive
    /\ \A r \in Queued : r.kind = "exit" => r.gen \in reported
    /\ \A r \in Queued : r.kind = "ask" => asker[r.ask] # None
    /\ \A a \in Asks : handed[a] # None => asker[a] # None
    /\ fan.at = "offer" => fan.step \in {1, 2} /\ asker[fan.ask] # None
RowsThere ==
    Undisturbed =>
        /\ \A a \in Asks : AloneWith(a) /\ a \notin answered /\ handed[a] # None
                               => Held(handed[a], a)
        /\ fan.at = "offer" /\ fan.step = 2 /\ AloneWith(fan.ask) /\ fan.ask \notin answered
               => Held(fan.session, fan.ask)
Answers == PeersInv /\ AnswerInv /\ RowsThere

(* What the calls and the controls do to all that: processes come up under  *)
(* new numbers, and a row goes only by a cancellation that crosses over.   *)
OtherFrame ==
    /\ history' = [f \in HistoryFields |-> history'[f]]
    /\ fan' = fan \/ (fan.at # "offer" /\ fan'.at # "offer")
    /\ spawned' \in Nat /\ spawned <= spawned'
    /\ \A g \in alive' : g \in alive \/ g > spawned
    /\ history'.crossed = {} => history.crossed = {} /\ peerToken' = peerToken

AnswersFrame ==
    /\ events' \in Seq(EventRecords) /\ Queued' \subseteq Queued \cup CallEvents
    /\ OtherFrame

LEMMA NoteOne ==
    ASSUME history = [f \in HistoryFields |-> history[f]],
           NEW field \in HistoryFields, NEW x, Note(field, x)
    PROVE  /\ history' = [f \in HistoryFields |-> history'[f]]
           /\ history'[field] = history[field] \cup x
           /\ \A f \in HistoryFields \ {field} : history'[f] = history[f]
<1> DEFINE noted == history[field] \cup x
<1>1. history' = [f \in HistoryFields |-> IF f = field THEN noted ELSE history[f]]
  BY DEF Note
<1> HIDE DEF noted
<1>2. QED
  BY <1>1 DEF noted

LEMMA TaskFrame ==
    ASSUME history = [f \in HistoryFields |-> history[f]], spawned \in Nat,
           NEW c \in Calls, TaskStep(c)
    PROVE  OtherFrame
<1> USE DEF OtherFrame, eventVars, backendVars, lifetimeVars, peerVars, HistoryFields
<1>1. CASE EnsureSpawns(c)
  BY <1>1 DEF EnsureSpawns, Installed
<1>2. CASE EmptySlot(c)
  <2>1. history' = [f \in HistoryFields |-> history'[f]] /\ history'.crossed = history.crossed
    BY <1>2, NoteOne DEF EmptySlot
  <2>2. UNCHANGED <<fan, spawned, peerToken>> /\ alive' \subseteq alive
    BY <1>2 DEF EmptySlot, Ended
  <2>3. QED
    BY <2>1, <2>2
<1>3. CASE Register(c)
  <2>1. history' = [f \in HistoryFields |-> history'[f]] /\ history'.crossed = history.crossed
    BY <1>3, NoteOne DEF Register
  <2>2. UNCHANGED <<fan, spawned, peerToken, alive>>
    BY <1>3 DEF Register
  <2>3. QED
    BY <2>1, <2>2
<1>4. CASE BindRow(c) \/ RemoveRow(c)
  BY <1>4 DEF BindRow, RemoveRow, Bind, Remove, DropRow
<1>5. CASE Acquire(c) \/ EnsureReuses(c) \/ EnsureFails(c) \/ RefreshAfterSpawn(c) \/ CloneSlot(c)
           \/ CheckRow(c) \/ Write(c) \/ Deliver(c) \/ TimeOut(c) \/ Respond(c) \/ Abandon(c)
           \/ DetectFailure(c) \/ Report(c)
  BY <1>5 DEF Acquire, EnsureReuses, EnsureFails, RefreshAfterSpawn, CloneSlot, CheckRow,
     Write, Deliver, TimeOut, Respond, Abandon, DetectFailure, Report
<1>6. QED
  BY <1>1, <1>2, <1>3, <1>4, <1>5 DEF TaskStep

LEMMA FanFrame ==
    ASSUME history = [f \in HistoryFields |-> history[f]], spawned \in Nat, FanStep
    PROVE  OtherFrame
<1> USE DEF OtherFrame, backendVars, lifetimeVars, peerVars, HistoryFields, Ready
<1>1. CASE TakeProgress \/ TakeCancel \/ DiscardCancelled
  BY <1>1 DEF TakeProgress, TakeCancel, DiscardCancelled
<1>2. CASE TranslateCancel
  <2>1. UNCHANGED <<spawned, alive, peerToken>> /\ fan.at # "offer" /\ fan'.at # "offer"
    BY <1>2 DEF TranslateCancel, RemoveByBackend
  <2>2. \/ history' = history
        \/ \E x, y : history' = [history EXCEPT !.cancelled = x, !.notices = y]
    BY <1>2 DEF TranslateCancel
  <2>3. history' = [f \in HistoryFields |-> history'[f]] /\ history'.crossed = history.crossed
    BY <2>2
  <2>4. QED
    BY <2>1, <2>3
<1>3. QED
  BY <1>1, <1>2 DEF FanStep

LEMMA LoopFrame ==
    ASSUME history = [f \in HistoryFields |-> history[f]], spawned \in Nat,
           NEW s \in Sessions, LoopStep(s)
    PROVE  OtherFrame
<1> USE DEF OtherFrame, eventVars, backendVars, lifetimeVars, peerVars, HistoryFields
<1>1. CASE RestartSpawns(s)
  BY <1>1 DEF RestartSpawns, Installed
<1>2. CASE ControlTakes(s)
  <2>1. history' = [f \in HistoryFields |-> history'[f]] /\ history'.crossed = history.crossed
    BY <1>2, NoteOne DEF ControlTakes
  <2>2. UNCHANGED <<fan, spawned, peerToken>> /\ alive' \subseteq alive
    BY <1>2 DEF ControlTakes, Ended
  <2>3. QED
    BY <2>1, <2>2
<1>3. CASE CancelRow(s)
  <2>1. history' = [f \in HistoryFields |-> history'[f]] /\ history'.crossed = history.crossed
    BY <1>3, NoteOne DEF CancelRow
  <2>2. UNCHANGED <<fan, spawned, alive, peerToken>>
    BY <1>3 DEF CancelRow, Remove, DropRow
  <2>3. QED
    BY <2>1, <2>2
<1>4. CASE CancelPeer(s)
  BY <1>4 DEF CancelPeer, Note
<1>5. CASE CancelPending(s) \/ TellBackend(s) \/ ControlRefused(s) \/ RestartRefreshes(s)
           \/ \E message \in Messages : WriteOut(s, message)
  BY <1>5 DEF CancelPending, TellBackend, ControlRefused, RestartRefreshes, WriteOut
<1>6. CASE CheckClosed(s)
  <2>1. history' = [f \in HistoryFields |-> history'[f]] /\ history'.crossed = history.crossed
    BY <1>6, NoteOne DEF CheckClosed
  <2>2. UNCHANGED <<fan, spawned, alive, peerToken>>
    BY <1>6 DEF CheckClosed
  <2>3. QED
    BY <2>1, <2>2
<1>7. QED
  BY <1>1, <1>2, <1>3, <1>4, <1>5, <1>6 DEF LoopStep

LEMMA ClientFrame ==
    ASSUME history = [f \in HistoryFields |-> history[f]], spawned \in Nat,
           ClientStep \/ BackendStep
    PROVE  OtherFrame
<1> USE DEF OtherFrame, eventVars, backendVars, lifetimeVars, peerVars, HistoryFields
<1>1. CASE \E c \in Calls : Request(c)
  BY <1>1 DEF Request, Admit
<1>2. CASE \E s \in Sessions, command \in Commands : ControlLine(s, command)
  <2>1. history' = [f \in HistoryFields |-> history'[f]] /\ history'.crossed = history.crossed
    BY <1>2, NoteOne DEF ControlLine
  <2>2. UNCHANGED <<fan, spawned, alive, peerToken>>
    BY <1>2 DEF ControlLine
  <2>3. QED
    BY <2>1, <2>2
<1>3. CASE (\E k \in Keys : CancelLine(k)) \/ (\E s \in Sessions : HalfClose(s))
           \/ (\E c \in Calls : Answer(c)) \/ (\E e \in Emits : Emit(e[1], e[2]))
           \/ (\E g \in Gens : Jam(g) \/ Drain(g))
  <2>1. UNCHANGED <<history, fan, spawned, alive, peerToken>>
    BY <1>3 DEF CancelLine, HalfClose, Answer, Emit, Jam, Drain
  <2>2. QED
    BY <2>1
<1>4. CASE \E g \in Gens : Exit(g)
  BY <1>4 DEF Exit, Ended
<1>5. CASE \E s \in Sessions : Break(s)
  <2>1. history' = [f \in HistoryFields |-> history'[f]] /\ history'.crossed = history.crossed
    BY <1>5, NoteOne DEF Break
  <2>2. UNCHANGED <<fan, spawned, alive, peerToken>>
    BY <1>5 DEF Break
  <2>3. QED
    BY <2>1, <2>2
<1>6. QED
  BY <1>1, <1>2, <1>3, <1>4, <1>5 DEF ClientStep, BackendStep

LEMMA CallsFrame == ASSUME AnswerInv, [Next]_vars PROVE AnswersFrame
<1>1. CASE Next
  <2>1. events' \in Seq(EventRecords) /\ Queued' \subseteq Queued \cup CallEvents
    BY <1>1, EventsStay DEF AnswerInv
  <2>2. OtherFrame
    BY <1>1, TaskFrame, FanFrame, LoopFrame, ClientFrame DEF AnswerInv, Next
  <2>3. QED
    BY <2>1, <2>2 DEF AnswersFrame
<1>2. CASE UNCHANGED vars
  <2>1. UNCHANGED <<events, history, fan, spawned, alive, peerToken>>
    BY <1>2 DEF vars, backendVars, eventVars, lifetimeVars
  <2>2. Queued' = Queued
    BY <2>1 DEF Queued
  <2>3. QED
    BY <2>1, <2>2 DEF AnswersFrame, OtherFrame, AnswerInv
<1>3. QED
  BY <1>1, <1>2

LEMMA CallsKeepAnswers ==
    ASSUME AnswerInv, RowsThere, [Next]_vars, UNCHANGED askVars
    PROVE  AnswerInv' /\ RowsThere'
<1> USE CallsFrame DEF AnswersFrame, OtherFrame, CallEvents, askVars
<1>1. AnswerInv'
  BY DEF AnswerInv
<1>2. RowsThere'
  BY DEF RowsThere, Undisturbed, Held, AloneWith
<1>3. QED
  BY <1>1, <1>2

(* What a request, its answer or an exit does to them.                     *)
LEMMA AskKeepsAnswers ==
    ASSUME Answers, NEW a \in Asks, NEW g \in Gens, Ask(a, g)
    PROVE  AnswerInv' /\ RowsThere'
<1>1. Queued' = Queued \cup {[kind |-> "ask", ask |-> a]} /\ events' \in Seq(EventRecords)
  <2>1. [kind |-> "ask", ask |-> a] \in EventRecords
    BY DEF EventRecords
  <2>2. QED
    BY <2>1, QueueGrows DEF Answers, AnswerInv, Ask
<1>2. UNCHANGED <<history, spawned, alive, reported, fan, handed, answered, peerToken>>
  BY DEF Ask, backendVars, lifetimeVars
<1>3. asker' = [asker EXCEPT ![a] = g] /\ g # None
  BY BrokerAssumption DEF Ask, Gens
<1>4. \A b \in Asks : asker[b] # None => asker'[b] # None
  BY <1>3 DEF Answers, AnswerInv
<1>5. asker'[a] # None
  BY <1>3 DEF Answers, AnswerInv
<1>6. \A r \in Queued : r.kind = "ask" => r.ask \in Asks
  BY DEF Answers, AnswerInv, Queued, EventRecords, CallEvents
<1>7. AnswerInv'
  BY <1>1, <1>2, <1>3, <1>4, <1>5, <1>6 DEF Answers, AnswerInv, PeersInv, AskInv
<1>8. RowsThere'
  BY <1>2, <1>4 DEF Answers, RowsThere, Undisturbed, Held, AloneWith
<1>9. QED
  BY <1>7, <1>8

LEMMA TakeAskKeepsAnswers ==
    ASSUME Answers, NEW a \in Asks, TakeAsk(a)
    PROVE  AnswerInv' /\ RowsThere'
<1>1. Queued' \subseteq Queued /\ events' \in Seq(EventRecords) /\ Head(events) \in Queued
  BY QueueShrinks DEF Answers, AnswerInv, TakeAsk
<1>2. UNCHANGED <<history, spawned, alive, reported, asker, handed, answered, peerToken>>
  BY DEF TakeAsk, backendVars, lifetimeVars, askVars
<1>3. fan'.at \in {"ready", "refusing"} \/ fan' = Offer(a, UniqueBoundSession, 1)
  BY DEF TakeAsk, Ready
<1>4. asker[a] # None
  BY <1>1 DEF TakeAsk, Answers, AnswerInv
<1>5. AnswerInv'
  BY <1>1, <1>2, <1>3, <1>4 DEF Answers, AnswerInv, Ready, Offer
<1>6. RowsThere'
  BY <1>2, <1>3 DEF Answers, RowsThere, Undisturbed, Held, AloneWith, Ready, Offer
<1>7. QED
  BY <1>5, <1>6

LEMMA InsertKeepsAnswers ==
    ASSUME Answers, InsertAsk
    PROVE  AnswerInv' /\ RowsThere'
<1> DEFINE key == <<fan.session, AskId[fan.ask]>>
<1>1. fan.ask \in Asks /\ key \in Keys /\ AskToken[fan.ask] # Absent
  BY PeersAssumption, SentinelAssumption DEF InsertAsk, Answers, PeersInv, AskInv, Keys
<1>2. fan' = Offer(fan.ask, fan.session, 2)
  BY DEF InsertAsk, OfferSteps, OfferGoesOn, Answers, AnswerInv
<1>3. UNCHANGED <<events, history, spawned, alive, reported, asker, handed, answered>>
  BY DEF InsertAsk, backendVars, askVars
<1>4. /\ \A k \in Keys : peerToken[k] # Absent => peerToken'[k] # Absent
      /\ peerToken'[key] # Absent
  BY <1>1 DEF InsertAsk, InsertPeer, Answers, PeersInv, BrokerInv, LifetimeInv, LifetimeTypeOK
<1>5. \A b \in Asks : handed[b] # None => <<handed[b], AskId[b]>> \in Keys
  BY PeersAssumption DEF Answers, PeersInv, AskInv, Keys
<1>6. AnswerInv'
  BY <1>2, <1>3 DEF Answers, AnswerInv, Queued, Offer, InsertAsk
<1>7. RowsThere'
  BY <1>2, <1>3, <1>4, <1>5 DEF Answers, RowsThere, Undisturbed, Held, AloneWith, Offer
<1>8. QED
  BY <1>6, <1>7

LEMMA SendKeepsAnswers ==
    ASSUME Answers, SendAsk
    PROVE  AnswerInv' /\ RowsThere'
<1>1. fan.ask \in Asks /\ fan.session \in Sessions /\ fan.step = 2
  BY DEF SendAsk, OfferSteps, Answers, AnswerInv, PeersInv, AskInv
<1>2. fan' = Ready
  BY <1>1 DEF SendAsk, OfferGoesOn
<1>3. UNCHANGED <<events, history, spawned, alive, reported, asker, answered, peerToken>>
  BY DEF SendAsk, backendVars, lifetimeVars
<1>4. handed' = [handed EXCEPT ![fan.ask] = fan.session]
  BY DEF SendAsk
<1>5. AnswerInv'
  BY <1>1, <1>2, <1>3, <1>4 DEF Answers, AnswerInv, PeersInv, AskInv, Queued, Ready, SendAsk
<1>6. RowsThere'
  BY <1>1, <1>2, <1>3, <1>4
     DEF Answers, RowsThere, PeersInv, AskInv, Undisturbed, Held, AloneWith, Ready, SendAsk
<1>7. QED
  BY <1>5, <1>6

LEMMA ExitKeepsAnswers ==
    ASSUME Answers, TakeExit \/ \E g \in Gens : SendExit(g)
    PROVE  AnswerInv' /\ RowsThere'
<1>1. CASE TakeExit
  <2>1. Queued' \subseteq Queued /\ events' \in Seq(EventRecords) /\ Head(events) \in Queued
    BY <1>1, QueueShrinks DEF Answers, AnswerInv, TakeExit
  <2>2. Head(events).kind = "exit"
    BY <1>1 DEF TakeExit
  <2>3. reported # {}
    BY <2>1, <2>2 DEF Answers, AnswerInv
  <2>4. UNCHANGED <<history, spawned, alive, reported, asker, handed, answered, fan>>
    BY <1>1 DEF TakeExit, backendVars, askVars
  <2>5. AnswerInv'
    BY <2>1, <2>4 DEF Answers, AnswerInv
  <2>6. RowsThere'
    BY <2>3, <2>4 DEF RowsThere, Undisturbed
  <2>7. QED
    BY <2>5, <2>6
<1>2. ASSUME NEW g \in Gens, SendExit(g)
      PROVE  AnswerInv' /\ RowsThere'
  <2>1. Queued' = Queued \cup {[kind |-> "exit", gen |-> g]} /\ events' \in Seq(EventRecords)
    <3>1. [kind |-> "exit", gen |-> g] \in EventRecords
      BY DEF EventRecords
    <3>2. QED
      BY <1>2, <3>1, QueueGrows DEF Answers, AnswerInv, SendExit
  <2>2. reported' = reported \cup {g} /\ g \in (1 .. spawned) \ alive
    BY <1>2 DEF SendExit
  <2>3. UNCHANGED <<history, spawned, alive, asker, handed, answered, fan>>
    BY <1>2 DEF SendExit, backendVars
  <2>4. AnswerInv'
    BY <2>1, <2>2, <2>3 DEF Answers, AnswerInv
  <2>5. RowsThere'
    BY <2>2 DEF RowsThere, Undisturbed
  <2>6. QED
    BY <2>4, <2>5
<1>3. QED
  BY <1>1, <1>2

(* An answer takes the row of its own request, and that of another only if  *)
(* the two share an id.                                                    *)
LEMMA ReadKeepsAnswers ==
    ASSUME Answers, NEW a \in Asks, ReadAnswer(a)
    PROVE  AnswerInv' /\ RowsThere'
<1>1. UNCHANGED <<events, history, spawned, alive, reported, asker, handed, fan>>
  BY DEF ReadAnswer, backendVars, eventVars
<1>2. answered' = answered \cup {a} /\ asker[a] # None
  BY DEF ReadAnswer, Answers, AnswerInv
<1>3. \A s \in Sessions, b \in Asks : Held(s, b) /\ AskId[b] # AskId[a] => Held(s, b)'
  <2>1. ASSUME NEW s \in Sessions, NEW b \in Asks, AskId[b] # AskId[a]
        PROVE  peerToken'[<<s, AskId[b]>>] = peerToken[<<s, AskId[b]>>]
    <3>1. <<s, AskId[b]>> \in Keys /\ <<s, AskId[b]>> # <<handed[a], AskId[a]>>
      BY <2>1, PeersAssumption DEF Keys
    <3>2. QED
      BY <3>1 DEF ReadAnswer, TakePeer, lifetimeVars, Answers, PeersInv, BrokerInv,
         LifetimeInv, LifetimeTypeOK
  <2>2. QED
    BY <2>1 DEF Held
<1>4. \A b \in Asks : AloneWith(b) /\ b \notin answered' => AskId[b] # AskId[a]
  BY <1>2 DEF AloneWith
<1>5. AnswerInv'
  BY <1>1 DEF Answers, AnswerInv, Queued
<1>6. AloneWith(fan.ask)' = AloneWith(fan.ask) /\ \A b \in Asks : AloneWith(b)' = AloneWith(b)
  BY <1>1 DEF AloneWith
<1>7. RowsThere'
  <2>1. SUFFICES ASSUME Undisturbed PROVE RowsThere'
    BY <1>1 DEF RowsThere, Undisturbed
  <2>2. ASSUME NEW b \in Asks, AloneWith(b), b \notin answered', handed[b] # None
        PROVE  Held(handed[b], b)'
    <3>1. Held(handed[b], b) /\ handed[b] \in Sessions
      BY <1>2, <2>1, <2>2 DEF Answers, RowsThere, PeersInv, AskInv
    <3>2. QED
      BY <1>1, <1>3, <1>4, <2>2, <3>1 DEF Held
  <2>3. ASSUME fan.at = "offer", fan.step = 2, AloneWith(fan.ask), fan.ask \notin answered'
        PROVE  Held(fan.session, fan.ask)'
    <3>1. Held(fan.session, fan.ask) /\ fan.session \in Sessions /\ fan.ask \in Asks
      BY <1>2, <2>1, <2>3 DEF Answers, RowsThere, PeersInv, AskInv
    <3>2. QED
      BY <1>1, <1>3, <1>4, <2>3, <3>1 DEF Held
  <2>4. QED
    BY <1>1, <1>6, <2>2, <2>3 DEF RowsThere, Held
<1>8. QED
  BY <1>5, <1>7

LEMMA PeersKeepAnswers == Answers /\ [PeersNext]_peersVars => Answers'
<1> SUFFICES ASSUME Answers, [PeersNext]_peersVars PROVE AnswerInv' /\ RowsThere'
  BY PeersStepKeepsInv DEF Answers
<1>1. CASE [Next]_vars /\ UNCHANGED askVars
  BY <1>1, CallsKeepAnswers DEF Answers
<1>2. ASSUME RefuseAsk \/ \E s \in Sessions : ForwardAnswer(s)
      PROVE  AnswerInv' /\ RowsThere'
  <2>1. UNCHANGED <<events, history, spawned, alive, peerToken, asker, handed, answered,
                    reported>>
    BY <1>2 DEF RefuseAsk, ForwardAnswer, eventVars, backendVars, lifetimeVars, askVars
  <2>2. fan' = fan \/ fan'.at = "ready"
    BY <1>2 DEF RefuseAsk, ForwardAnswer, eventVars, Ready
  <2>3. AnswerInv'
    BY <2>1, <2>2 DEF Answers, AnswerInv, Queued
  <2>4. RowsThere'
    BY <2>1, <2>2 DEF Answers, RowsThere, Undisturbed, Held, AloneWith
  <2>5. QED
    BY <2>3, <2>4
<1>3. QED
  BY <1>1, <1>2, AskKeepsAnswers, TakeAskKeepsAnswers, InsertKeepsAnswers, SendKeepsAnswers,
     ExitKeepsAnswers, ReadKeepsAnswers DEF PeersNext, AskStep, peersVars

LEMMA InitAnswers == PeersInit => Answers
<1> SUFFICES ASSUME PeersInit PROVE AnswerInv /\ RowsThere
  BY InitPeers DEF Answers
<1>1. Queued = {} /\ fan = Ready
  BY DEF PeersInit, Init, Queued
<1>2. AnswerInv
  BY <1>1 DEF PeersInit, Init, AnswerInv, HistoryFields, Ready
<1>3. RowsThere
  BY <1>1 DEF PeersInit, RowsThere, Ready
<1>4. QED
  BY <1>2, <1>3

(* A client's answer finds the row of the request it answers: the row is    *)
(* there before the request goes out, and only another answer under the    *)
(* same id, a cancellation or the end of a process takes it away.          *)
THEOREM AnswersFindTheirRows == PeersSpec => []AnswerFindsItsRow
<1> DEFINE Inv == Answers /\ AnswerFindsItsRow
<1>1. Inv /\ [PeersNext]_peersVars => Inv'
  <2> SUFFICES ASSUME Inv, [PeersNext]_peersVars PROVE dropped' = dropped
    BY PeersKeepAnswers DEF AnswerFindsItsRow
  <2>1. ASSUME NEW a \in Asks, ReadAnswer(a)
        PROVE  dropped' = dropped
    <3>1. SUFFICES ASSUME alive = {1}, spawned = 1, AloneWith(a), history.crossed = {}
                   PROVE  Held(handed[a], a)
      BY <2>1 DEF ReadAnswer, Held
    <3>2. Undisturbed
      BY <3>1 DEF Answers, AnswerInv, Undisturbed
    <3>3. QED
      BY <2>1, <3>1, <3>2 DEF ReadAnswer, Answers, RowsThere
  <2>2. QED
    BY <2>1 DEF PeersNext, AskStep, Ask, TakeAsk, RefuseAsk, InsertAsk, SendAsk, TakeExit,
       SendExit, ForwardAnswer, askVars, peersVars
<1>2. PeersInit => Inv
  BY InitAnswers DEF PeersInit, AnswerFindsItsRow
<1>3. QED
  BY <1>1, <1>2, PTL DEF PeersSpec

-----------------------------------------------------------------------------
(* The rows of the requests.                                               *)

(* In the queue a request comes before the exit of the process that made it, *)
(* and there is at most one place where a request is: in the queue, with   *)
(* the fan-out task, or handed over.                                       *)
OrderInv ==
    \A i, j \in DOMAIN events : j < i /\ events[i].kind = "ask" =>
        /\ events[j].kind = "exit" => events[j].gen # asker[events[i].ask]
        /\ events[j].kind = "ask" => events[j].ask # events[i].ask
PlaceInv ==
    /\ \A r \in Queued : r.kind = "ask" =>
          /\ asker[r.ask] \notin Buried /\ handed[r.ask] = None
          /\ fan.at = "offer" => fan.ask # r.ask
    /\ fan.at = "offer" => asker[fan.ask] \notin Buried /\ handed[fan.ask] = None
    /\ \A a \in Asks : <<"ask", a>> \in todo => asker[a] = None
Places == Answers /\ OrderInv /\ PlaceInv /\ PeerRowsEndWithProcess

BuriedNow == {g \in reported : \A r \in Queued : r.kind = "exit" => r.gen # g}

LEMMA BuriedIsBuriedNow == Buried = BuriedNow /\ Buried' = BuriedNow'
BY DEF Buried, BuriedNow, Queued

LEMMA TailShift ==
    ASSUME events \in Seq(EventRecords), events # <<>>, events' = Tail(events)
    PROVE  /\ DOMAIN events = 1 .. Len(events) /\ DOMAIN events' = 1 .. (Len(events) - 1)
           /\ \A i \in DOMAIN events' : events'[i] = events[i + 1]
           /\ Head(events) = events[1] /\ Len(events) \in Nat \ {0}
           /\ Queued = Queued' \cup {Head(events)}
<1>1. DOMAIN events = 1 .. Len(events) /\ DOMAIN events' = 1 .. (Len(events) - 1)
  OBVIOUS
<1>2. \A i \in 1 .. (Len(events) - 1) : events'[i] = events[i + 1]
  OBVIOUS
<1>3. Head(events) = events[1] /\ Len(events) \in Nat \ {0}
  OBVIOUS
<1>4. \A i \in 2 .. Len(events) : i - 1 \in DOMAIN events' /\ events'[i - 1] = events[i]
  BY <1>1, <1>2, <1>3
<1>5. Queued = Queued' \cup {Head(events)}
  <2>1. \A i \in 1 .. Len(events) : i = 1 \/ i \in 2 .. Len(events)
    BY <1>3
  <2>2. ASSUME NEW i \in DOMAIN events
        PROVE  events[i] = Head(events) \/ events[i] \in Queued'
    BY <1>1, <1>3, <1>4, <2>1 DEF Queued
  <2>3. ASSUME NEW i \in DOMAIN events'
        PROVE  events'[i] \in Queued
    BY <1>1, <1>2, <1>3 DEF Queued
  <2>4. Head(events) \in Queued
    BY <1>1, <1>3 DEF Queued
  <2>5. QED
    BY <2>2, <2>3, <2>4 DEF Queued
<1>6. QED
  BY <1>1, <1>2, <1>3, <1>5

LEMMA AppendGrows ==
    ASSUME events \in Seq(EventRecords), NEW e, events' = Append(events, e)
    PROVE  /\ DOMAIN events = 1 .. Len(events) /\ DOMAIN events' = 1 .. (Len(events) + 1)
           /\ \A i \in DOMAIN events : events'[i] = events[i]
           /\ events'[Len(events) + 1] = e /\ Len(events) \in Nat
<1>1. DOMAIN events = 1 .. Len(events) /\ DOMAIN events' = 1 .. (Len(events) + 1)
  OBVIOUS
<1>2. \A i \in 1 .. Len(events) : events'[i] = events[i]
  OBVIOUS
<1>3. events'[Len(events) + 1] = e /\ Len(events) \in Nat
  OBVIOUS
<1>4. QED
  BY <1>1, <1>2, <1>3

(* The queue loses nothing but, at its head, an event that is no exit, and  *)
(* keeps the order of requests and exits.                                  *)
Shifted(n) ==
    /\ \A i \in DOMAIN events' : events'[i].kind \in {"ask", "exit"} =>
          i + n \in DOMAIN events /\ events'[i] = events[i + n]
    /\ \A r \in Queued : r.kind = "exit" => r \in Queued'

LEMMA ShiftKeepsOrder ==
    ASSUME OrderInv, events' \in Seq(EventRecords), NEW n \in {0, 1}, Shifted(n),
           UNCHANGED <<asker, reported>>
    PROVE  /\ OrderInv' /\ Buried' = Buried
           /\ \A r \in Queued' : r.kind \in {"ask", "exit"} => r \in Queued
<1>1. DOMAIN events' \subseteq Nat
  BY DEF Shifted
<1>2. \A r \in Queued' : r.kind \in {"ask", "exit"} => r \in Queued
  BY DEF Shifted, Queued
<1>3. Buried' = Buried
  BY <1>2, BuriedIsBuriedNow DEF BuriedNow, Shifted
<1>4. ASSUME NEW i \in DOMAIN events', NEW j \in DOMAIN events', j < i,
             events'[i].kind = "ask"
      PROVE  /\ events'[j].kind = "exit" => events'[j].gen # asker[events'[i].ask]
             /\ events'[j].kind = "ask" => events'[j].ask # events'[i].ask
  <2>1. i + n \in DOMAIN events /\ events'[i] = events[i + n] /\ j + n < i + n
    BY <1>1, <1>4 DEF Shifted
  <2>2. CASE events'[j].kind \in {"ask", "exit"}
    <3>1. j + n \in DOMAIN events /\ events'[j] = events[j + n]
      BY <2>2 DEF Shifted
    <3>2. QED
      BY <1>4, <2>1, <3>1 DEF OrderInv
  <2>3. QED
    BY <2>2
<1>5. OrderInv'
  BY <1>4 DEF OrderInv
<1>6. QED
  BY <1>2, <1>3, <1>5

(* What the calls do to the queue ...                                      *)
LEMMA CallsShift ==
    ASSUME Next, events \in Seq(EventRecords)
    PROVE  \E n \in {0, 1} : Shifted(n)
<1> USE DEF eventVars
<1>0. DOMAIN events \subseteq Nat
  OBVIOUS
<1>1. ASSUME NEW e \in Emits, Emit(e[1], e[2])
      PROVE  Shifted(0)
  <2>1. PICK r : events' = Append(events, r) /\ r.kind \in {"progress", "cancel"}
    BY <1>1 DEF Emit, Emits
  <2>2. \A i \in DOMAIN events' : i \in DOMAIN events \/ i = Len(events) + 1
    BY <2>1, AppendGrows
  <2>3. Queued' = Queued \cup {r}
    BY <2>1, QueueGrows
  <2>4. QED
    BY <1>0, <2>1, <2>2, <2>3, AppendGrows DEF Shifted
<1>2. CASE TakeProgress \/ TakeCancel
  <2>1. events # <<>> /\ events' = Tail(events) /\ Head(events).kind # "exit"
    BY <1>2 DEF TakeProgress, TakeCancel
  <2>2. QED
    BY <2>1, TailShift DEF Shifted
<1>3. CASE events' = events
  BY <1>0, <1>3 DEF Shifted, Queued
<1>4. ASSUME NEW c \in Calls, Answer(c)
      PROVE  Shifted(0)
  <2>1. PICK to \in Calls \cup {None} : events' = AcksGo(gen[c], to)
    BY <1>4 DEF Answer
  <2>2. /\ DOMAIN events' = DOMAIN events
        /\ \A i \in DOMAIN events :
              events'[i] = events[i] \/ (events[i].kind = "progress" /\ events'[i].kind = "progress")
    BY <2>1, AcksMove
  <2>3. QED
    BY <1>0, <2>2 DEF Shifted, Queued
<1>5. ASSUME NEW c \in Calls, TaskStep(c)
      PROVE  events' = events
  BY <1>5 DEF TaskStep, Acquire, EnsureReuses, EnsureSpawns, EnsureFails, RefreshAfterSpawn,
     CloneSlot, CheckRow, BindRow, Register, Write, Deliver, TimeOut, RemoveRow, Respond, Abandon,
     DetectFailure, EmptySlot, Report
<1>6. ASSUME NEW s \in Sessions, LoopStep(s)
      PROVE  events' = events
  BY <1>6 DEF LoopStep, CancelRow, CancelPending, CancelPeer, TellBackend, ControlRefused,
     ControlTakes, RestartSpawns, RestartRefreshes, CheckClosed, WriteOut
<1>7. ASSUME ClientStep \/ (\E g \in Gens : Exit(g) \/ Jam(g) \/ Drain(g))
             \/ TranslateCancel \/ DiscardCancelled
      PROVE  events' = events
  BY <1>7 DEF ClientStep, Request, CancelLine, ControlLine, HalfClose, Break, Exit, Jam,
     Drain, TranslateCancel, DiscardCancelled
<1>8. QED
  BY <1>1, <1>2, <1>3, <1>4, <1>5, <1>6, <1>7 DEF Next, BackendStep, FanStep

(* ... and to the rows and the inputs: neither grows.                      *)
RowsShrink ==
    /\ todo' \subseteq todo
    /\ \A k \in Keys : peerToken'[k] # Absent => peerToken[k] # Absent

LEMMA CallsShrink == ASSUME BrokerInv, LoopInv, Next PROVE RowsShrink
<1> USE DEF RowsShrink, lifetimeVars, peerVars
<1>1. ASSUME NEW c \in Calls, TaskStep(c)
      PROVE  UNCHANGED <<todo, peerToken>>
  BY <1>1 DEF TaskStep, Acquire, EnsureReuses, EnsureSpawns, EnsureFails, RefreshAfterSpawn,
     CloneSlot, CheckRow, BindRow, Bind, Register, Write, Deliver, TimeOut, RemoveRow, Remove,
     DropRow, Respond, Abandon, DetectFailure, EmptySlot, Report
<1>2. CASE FanStep
  BY <1>2 DEF FanStep, TakeProgress, TakeCancel, TranslateCancel, RemoveByBackend,
     DiscardCancelled
<1>3. ASSUME NEW s \in Sessions, CancelPeer(s)
      PROVE  RowsShrink
  <2>1. loop[s].key \in Keys
    BY <1>3 DEF CancelPeer, LoopInv
  <2>2. QED
    BY <1>3, <2>1 DEF CancelPeer, TakePeer, BrokerInv, LifetimeInv, LifetimeTypeOK
<1>4. ASSUME NEW s \in Sessions, LoopStep(s), ~CancelPeer(s)
      PROVE  UNCHANGED <<todo, peerToken>>
  BY <1>4 DEF LoopStep, CancelRow, Remove, DropRow, CancelPending, TellBackend, ControlRefused,
     ControlTakes, RestartSpawns, RestartRefreshes, CheckClosed, WriteOut
<1>5. CASE ClientStep
  BY <1>5 DEF ClientStep, Request, Admit, CancelLine, ControlLine, HalfClose, Break, Comes
<1>6. CASE BackendStep
  BY <1>6 DEF BackendStep, Answer, Emit, Exit, Jam, Drain, Comes
<1>7. QED
  BY <1>1, <1>2, <1>3, <1>4, <1>5, <1>6 DEF Next

LEMMA CallsKeepPlaces ==
    ASSUME Places, [Next]_vars, UNCHANGED askVars
    PROVE  OrderInv' /\ PlaceInv' /\ PeerRowsEndWithProcess'
<1>1. CASE Next
  <2>1. PICK n \in {0, 1} : Shifted(n)
    BY <1>1, CallsShift DEF Places, Answers, AnswerInv
  <2>2. UNCHANGED <<asker, reported, handed>> /\ RowsShrink
    BY <1>1, CallsShrink DEF askVars, Places, Answers, PeersInv
  <2>3. events' \in Seq(EventRecords) /\ (fan' = fan \/ (fan.at # "offer" /\ fan'.at # "offer"))
    BY <1>1, CallsFrame DEF Places, Answers, AnswersFrame, OtherFrame
  <2>4. /\ OrderInv' /\ Buried' = Buried
        /\ \A r \in Queued' : r.kind \in {"ask", "exit"} => r \in Queued
    BY <2>1, <2>2, <2>3, ShiftKeepsOrder DEF Places
  <2>5. PlaceInv'
    BY <2>2, <2>3, <2>4 DEF Places, PlaceInv, RowsShrink
  <2>6. PeerRowsEndWithProcess'
    BY <2>2, <2>3, <2>4 DEF Places, PeerRowsEndWithProcess, RowsShrink
  <2>7. QED
    BY <2>4, <2>5, <2>6
<1>2. CASE UNCHANGED vars
  BY <1>2 DEF vars, eventVars, askVars, lifetimeVars, peerVars, Places, OrderInv, PlaceInv,
     Queued, Buried, PeerRowsEndWithProcess
<1>3. QED
  BY <1>1, <1>2

(* A request of a process that runs goes to the end of the queue.          *)
LEMMA AskKeepsPlaces ==
    ASSUME Places, NEW a \in Asks, NEW g \in Gens, Ask(a, g)
    PROVE  OrderInv' /\ PlaceInv' /\ PeerRowsEndWithProcess'
<1> DEFINE e == [kind |-> "ask", ask |-> a]
<1>1. UNCHANGED <<reported, handed, fan, peerToken>> /\ todo' = todo \ {<<"ask", a>>}
  BY DEF Ask, lifetimeVars, Comes
<1>2. events \in Seq(EventRecords) /\ events' = Append(events, e)
  BY DEF Ask, Places, Answers, AnswerInv
<1>3. Queued' = Queued \cup {e}
  BY <1>2, QueueGrows
<1>4. Buried' = Buried
  BY <1>1, <1>3, BuriedIsBuriedNow DEF BuriedNow
<1>5. asker[a] = None /\ g \notin reported
  BY DEF Ask, Comes, Places, PlaceInv, Answers, AnswerInv
<1>6. asker' = [b \in Asks |-> IF b = a THEN g ELSE asker[b]]
  <2>1. asker = [b \in Asks |-> asker[b]] /\ asker' = [asker EXCEPT ![a] = g]
    BY DEF Ask, Places, Answers, AnswerInv
  <2>2. QED
    BY <2>1
<1>7. \A r \in Queued : /\ r.kind = "ask" => r.ask \in Asks /\ r.ask # a
                        /\ r.kind = "exit" => r.gen # g
  <2>1. \A r \in Queued : r \in EventRecords
    BY <1>2 DEF Queued
  <2>2. \A r \in Queued : r.kind = "ask" => r.ask \in Asks
    BY <2>1 DEF EventRecords, CallEvents
  <2>3. QED
    BY <1>5, <2>2 DEF Places, Answers, AnswerInv
<1>8. OrderInv'
  <2> SUFFICES ASSUME NEW i \in DOMAIN events', NEW j \in DOMAIN events', j < i,
                      events'[i].kind = "ask"
               PROVE  /\ events'[j].kind = "exit" => events'[j].gen # asker'[events'[i].ask]
                      /\ events'[j].kind = "ask" => events'[j].ask # events'[i].ask
    BY DEF OrderInv
  <2>1. j \in DOMAIN events /\ events'[j] = events[j] /\ events'[j] \in Queued
    BY <1>2, AppendGrows DEF Queued
  <2>2. CASE i \in DOMAIN events
    <3>1. events'[i] = events[i] /\ events[i] \in Queued
      BY <1>2, <2>2, AppendGrows DEF Queued
    <3>2. asker'[events[i].ask] = asker[events[i].ask]
      BY <1>6, <1>7, <3>1
    <3>3. QED
      BY <2>1, <2>2, <3>1, <3>2 DEF Places, OrderInv
  <2>3. CASE i = Len(events) + 1
    <3>1. events'[i] = e
      BY <1>2, <2>3, AppendGrows
    <3>2. asker'[a] = g
      BY <1>6
    <3>3. QED
      BY <1>7, <2>1, <3>1, <3>2
  <2>4. QED
    BY <1>2, <2>2, <2>3, AppendGrows
<1>9. handed[a] = None /\ (fan.at = "offer" => fan.ask # a /\ fan.ask \in Asks)
  BY <1>5 DEF Places, Answers, AnswerInv, PeersInv, AskInv
<1>10. g \notin Buried
  BY <1>5 DEF Buried
<1>11. PlaceInv'
  <2>1. ASSUME NEW r \in Queued', r.kind = "ask"
        PROVE  /\ asker'[r.ask] \notin Buried /\ handed[r.ask] = None
               /\ fan.at = "offer" => fan.ask # r.ask
    <3>1. CASE r \in Queued
      BY <1>6, <1>7, <2>1, <3>1 DEF Places, PlaceInv
    <3>2. CASE r = e
      BY <1>6, <1>9, <1>10, <3>2
    <3>3. QED
      BY <1>3, <3>1, <3>2
  <2>2. fan.at = "offer" => asker'[fan.ask] \notin Buried /\ handed[fan.ask] = None
    BY <1>6, <1>9 DEF Places, PlaceInv
  <2>3. \A b \in Asks : <<"ask", b>> \in todo' => asker'[b] = None
    BY <1>1, <1>6 DEF Places, PlaceInv
  <2>4. QED
    BY <1>1, <1>4, <2>1, <2>2, <2>3 DEF PlaceInv
<1>12. PeerRowsEndWithProcess'
  BY <1>1, <1>4, <1>6, <1>9, <1>10 DEF Places, PeerRowsEndWithProcess
<1>13. QED
  BY <1>8, <1>11, <1>12

LEMMA TakeAskKeepsPlaces ==
    ASSUME Places, NEW a \in Asks, TakeAsk(a)
    PROVE  OrderInv' /\ PlaceInv' /\ PeerRowsEndWithProcess'
<1>1. UNCHANGED <<reported, asker, handed, peerToken, todo>> /\ fan.at # "offer"
  BY DEF TakeAsk, lifetimeVars, askVars, Ready
<1>2. /\ events \in Seq(EventRecords) /\ events # <<>> /\ events' = Tail(events)
      /\ Head(events).kind = "ask" /\ Head(events).ask = a
  BY DEF TakeAsk, Places, Answers, AnswerInv
<1>3. Shifted(1)
  BY <1>2, TailShift DEF Shifted
<1>4. /\ OrderInv' /\ Buried' = Buried
      /\ \A r \in Queued' : r.kind \in {"ask", "exit"} => r \in Queued
  <2>1. events' \in Seq(EventRecords)
    BY <1>2
  <2>2. QED
    BY <1>1, <1>3, <2>1, ShiftKeepsOrder DEF Places
<1>5. asker[a] \notin Buried /\ handed[a] = None
  <2>1. Head(events) \in Queued
    BY <1>2, TailShift
  <2>2. QED
    BY <1>2, <2>1 DEF Places, PlaceInv
<1>6. \A r \in Queued' : r.kind = "ask" => r.ask # a
  <2>1. ASSUME NEW i \in DOMAIN events', events'[i].kind = "ask"
        PROVE  events'[i].ask # a
    <3>1. i + 1 \in DOMAIN events /\ events'[i] = events[i + 1] /\ 1 < i + 1 /\ 1 \in DOMAIN events
      BY <1>2, TailShift
    <3>2. events[1] = Head(events)
      BY <1>2, TailShift
    <3>3. QED
      BY <1>2, <2>1, <3>1, <3>2 DEF Places, OrderInv
  <2>2. QED
    BY <2>1 DEF Queued
<1>7. fan'.at # "offer" \/ fan' = Offer(a, UniqueBoundSession, 1)
  BY DEF TakeAsk, Ready
<1>8. PlaceInv'
  BY <1>1, <1>4, <1>5, <1>6, <1>7 DEF Places, PlaceInv, Offer
<1>9. PeerRowsEndWithProcess'
  BY <1>1, <1>4 DEF Places, PeerRowsEndWithProcess
<1>10. QED
  BY <1>4, <1>8, <1>9

\* Steps at the rows leave the queue alone.
LEMMA QueueStays ==
    ASSUME OrderInv, UNCHANGED <<events, asker, reported>>
    PROVE  OrderInv' /\ Buried' = Buried /\ Queued' = Queued
BY DEF OrderInv, Buried, Queued

LEMMA OfferKeepsPlaces ==
    ASSUME Places, InsertAsk \/ SendAsk
    PROVE  OrderInv' /\ PlaceInv' /\ PeerRowsEndWithProcess'
<1>1. /\ fan.at = "offer" /\ fan.ask \in Asks /\ fan.session \in Sessions
      /\ asker[fan.ask] \notin Buried /\ handed[fan.ask] = None
  BY DEF InsertAsk, SendAsk, Places, PlaceInv, Answers, PeersInv, AskInv
<1>2. UNCHANGED <<events, asker, reported, todo>>
  BY DEF InsertAsk, SendAsk, askVars
<1>3. OrderInv' /\ Buried' = Buried /\ Queued' = Queued
  BY <1>2, QueueStays DEF Places
<1>4. CASE InsertAsk
  <2> DEFINE key == <<fan.session, AskId[fan.ask]>>
  <2>1. fan' = Offer(fan.ask, fan.session, 2) /\ handed' = handed
    BY <1>4 DEF InsertAsk, OfferSteps, OfferGoesOn, askVars, Places, Answers, AnswerInv
  <2>2. key \in Keys /\ key[1] = fan.session /\ key[2] = AskId[fan.ask]
    BY <1>1, PeersAssumption DEF Keys
  <2>3. \A k \in Keys : k # key => peerToken'[k] = peerToken[k]
    BY <1>4, <2>2 DEF InsertAsk, InsertPeer, Places, Answers, PeersInv, BrokerInv, LifetimeInv,
       LifetimeTypeOK
  <2>4. PeerRowsEndWithProcess'
    <3> SUFFICES ASSUME NEW k \in Keys, peerToken'[k] # Absent
                 PROVE  \E a \in Asks :
                          /\ AskId[a] = k[2] /\ asker[a] \notin Buried
                          /\ handed[a] = k[1] \/ (fan.ask = a /\ fan.session = k[1])
      BY <1>2, <1>3, <2>1 DEF PeerRowsEndWithProcess, Offer
    <3>1. CASE k = key
      BY <1>1, <2>2, <3>1
    <3>2. CASE k # key
      BY <2>3, <3>2 DEF Places, PeerRowsEndWithProcess
    <3>3. QED
      BY <3>1, <3>2
  <2>5. PlaceInv'
    BY <1>1, <1>2, <1>3, <2>1 DEF Places, PlaceInv, Offer
  <2>6. QED
    BY <1>3, <2>4, <2>5
<1>5. CASE SendAsk
  <2>1. fan.step = 2 /\ fan' = Ready /\ peerToken' = peerToken
    BY <1>5 DEF SendAsk, OfferSteps, OfferGoesOn, lifetimeVars, Places, Answers, AnswerInv
  <2>2. /\ handed'[fan.ask] = fan.session
        /\ \A b \in Asks \ {fan.ask} : handed'[b] = handed[b]
    BY <1>1, <1>5 DEF SendAsk, Places, Answers, PeersInv, AskInv
  <2>3. \A r \in Queued : r.kind = "ask" => r.ask \in Asks \ {fan.ask}
    <3>1. \A r \in Queued : r \in EventRecords
      BY DEF Places, Answers, AnswerInv, Queued
    <3>2. QED
      BY <1>1, <3>1 DEF EventRecords, CallEvents, Places, PlaceInv
  <2>4. PlaceInv'
    BY <1>2, <1>3, <2>1, <2>2, <2>3 DEF Places, PlaceInv, Ready
  <2>5. PeerRowsEndWithProcess'
    <3> SUFFICES ASSUME NEW k \in Keys, peerToken[k] # Absent
                 PROVE  \E a \in Asks : /\ AskId[a] = k[2] /\ asker[a] \notin Buried
                                        /\ handed'[a] = k[1]
      BY <1>2, <1>3, <2>1 DEF PeerRowsEndWithProcess
    <3>1. PICK a \in Asks : /\ AskId[a] = k[2] /\ asker[a] \notin Buried
                            /\ handed[a] = k[1] \/ (fan.ask = a /\ fan.session = k[1])
      BY DEF Places, PeerRowsEndWithProcess
    <3>2. a = fan.ask => fan.session = k[1]
      BY <1>1, <3>1, PeersAssumption DEF Keys
    <3>3. QED
      BY <2>2, <3>1, <3>2
  <2>6. QED
    BY <1>3, <2>4, <2>5
<1>6. QED
  BY <1>4, <1>5

(* The exit of a process is behind its requests, and takes all rows along.  *)
LEMMA ExitKeepsPlaces ==
    ASSUME Places, TakeExit \/ \E g \in Gens : SendExit(g)
    PROVE  OrderInv' /\ PlaceInv' /\ PeerRowsEndWithProcess'
<1>1. CASE TakeExit
  <2>1. UNCHANGED <<reported, asker, handed, todo, fan>> /\ fan.at # "offer"
    BY <1>1 DEF TakeExit, askVars, Ready
  <2>2. /\ events \in Seq(EventRecords) /\ events # <<>> /\ events' = Tail(events)
        /\ Head(events).kind = "exit"
    BY <1>1 DEF TakeExit, Places, Answers, AnswerInv
  <2>3. /\ \A i \in DOMAIN events' :
              /\ i \in Nat /\ i + 1 \in DOMAIN events /\ events'[i] = events[i + 1]
              /\ 1 < i + 1
        /\ Head(events) = events[1] /\ 1 \in DOMAIN events
        /\ Queued = Queued' \cup {Head(events)}
    BY <2>2, TailShift
  <2>4. OrderInv'
    <3>1. ASSUME NEW i \in DOMAIN events', NEW j \in DOMAIN events', j < i,
                 events'[i].kind = "ask"
          PROVE  /\ events'[j].kind = "exit" => events'[j].gen # asker[events'[i].ask]
                 /\ events'[j].kind = "ask" => events'[j].ask # events'[i].ask
      <4>1. j + 1 < i + 1
        BY <2>3, <3>1
      <4>2. QED
        BY <2>3, <3>1, <4>1 DEF Places, OrderInv
    <3>2. QED
      BY <2>1, <3>1 DEF OrderInv
  <2>5. Buried' \subseteq Buried \cup {Head(events).gen}
    BY <2>1, <2>3, BuriedIsBuriedNow DEF BuriedNow
  <2>6. \A r \in Queued' : r.kind = "ask" => asker[r.ask] # Head(events).gen
    <3>1. \A i \in DOMAIN events' :
             events'[i].kind = "ask" => asker[events'[i].ask] # Head(events).gen
      BY <2>2, <2>3 DEF Places, OrderInv
    <3>2. QED
      BY <3>1 DEF Queued
  <2>7. PlaceInv'
    BY <2>1, <2>3, <2>5, <2>6 DEF Places, PlaceInv
  <2>8. PeerRowsEndWithProcess'
    BY <1>1 DEF TakeExit, ClearPeers, PeerRowsEndWithProcess
  <2>9. QED
    BY <2>4, <2>7, <2>8
<1>2. ASSUME NEW g \in Gens, SendExit(g)
      PROVE  OrderInv' /\ PlaceInv' /\ PeerRowsEndWithProcess'
  <2> DEFINE e == [kind |-> "exit", gen |-> g]
  <2>1. UNCHANGED <<asker, handed, todo, fan, peerToken>> /\ reported' = reported \cup {g}
    BY <1>2 DEF SendExit, lifetimeVars
  <2>2. events \in Seq(EventRecords) /\ events' = Append(events, e)
    BY <1>2 DEF SendExit, Places, Answers, AnswerInv
  <2>3. Queued' = Queued \cup {e}
    BY <2>2, QueueGrows
  <2>4. Buried' \subseteq Buried
    <3>1. e.kind = "exit" /\ e.gen = g /\ e \in Queued' /\ Queued \subseteq Queued'
      BY <2>3
    <3>2. ASSUME NEW h \in Buried'
          PROVE  h \in Buried
      <4>1. h \in reported \cup {g} /\ \A r \in Queued' : r.kind = "exit" => r.gen # h
        BY <2>1, <3>2, BuriedIsBuriedNow DEF BuriedNow
      <4>2. h # g
        BY <3>1, <4>1
      <4>3. QED
        BY <3>1, <4>1, <4>2, BuriedIsBuriedNow DEF BuriedNow
    <3>3. QED
      BY <3>2
  <2>5. OrderInv'
    <3>1. ASSUME NEW i \in DOMAIN events', NEW j \in DOMAIN events', j < i,
                 events'[i].kind = "ask"
          PROVE  /\ i \in DOMAIN events /\ j \in DOMAIN events
                 /\ events'[i] = events[i] /\ events'[j] = events[j]
      BY <2>2, <3>1, AppendGrows
    <3>2. QED
      BY <2>1, <3>1 DEF Places, OrderInv
  <2>6. PlaceInv'
    BY <2>1, <2>3, <2>4 DEF Places, PlaceInv
  <2>7. PeerRowsEndWithProcess'
    BY <2>1, <2>4 DEF Places, PeerRowsEndWithProcess
  <2>8. QED
    BY <2>5, <2>6, <2>7
<1>3. QED
  BY <1>1, <1>2

LEMMA OthersKeepPlaces ==
    ASSUME Places,
           RefuseAsk \/ (\E a \in Asks : ReadAnswer(a)) \/ (\E s \in Sessions : ForwardAnswer(s))
    PROVE  OrderInv' /\ PlaceInv' /\ PeerRowsEndWithProcess'
<1>1. UNCHANGED <<events, asker, handed, reported, todo>>
      /\ (fan' = fan \/ (fan.at = "refusing" /\ fan' = Ready))
  BY DEF RefuseAsk, ReadAnswer, ForwardAnswer, askVars, eventVars
<1>2. OrderInv' /\ Buried' = Buried /\ Queued' = Queued
  BY <1>1, QueueStays DEF Places
<1>3. \A k \in Keys : peerToken'[k] # Absent => peerToken[k] # Absent
  <2>1. ASSUME NEW a \in Asks, ReadAnswer(a), NEW k \in Keys, peerToken'[k] # Absent
        PROVE  peerToken[k] # Absent
    <3>1. <<handed[a], AskId[a]>> \in Keys
      BY <2>1, PeersAssumption DEF ReadAnswer, Keys, Places, Answers, PeersInv, AskInv
    <3>2. QED
      BY <2>1, <3>1 DEF ReadAnswer, TakePeer, lifetimeVars, Places, Answers, PeersInv,
         BrokerInv, LifetimeInv, LifetimeTypeOK
  <2>2. QED
    BY <2>1 DEF RefuseAsk, ForwardAnswer, lifetimeVars
<1>4. PlaceInv'
  BY <1>1, <1>2 DEF Places, PlaceInv, Ready
<1>5. PeerRowsEndWithProcess'
  BY <1>1, <1>2, <1>3 DEF Places, PeerRowsEndWithProcess, Ready
<1>6. QED
  BY <1>2, <1>4, <1>5

(* The row of a backend's request is gone once the exit of its process has  *)
(* been consumed, whatever was in the queue before it and whichever process *)
(* has come up since (clear_peer_requests on ProcessExit).                 *)
THEOREM PeerRowsDieWithProcess == PeersSpec => []PeerRowsEndWithProcess
<1>1. Places /\ [PeersNext]_peersVars => Places'
  <2> SUFFICES ASSUME Places, [PeersNext]_peersVars
               PROVE  OrderInv' /\ PlaceInv' /\ PeerRowsEndWithProcess'
    BY PeersKeepAnswers DEF Places
  <2>1. CASE [Next]_vars /\ UNCHANGED askVars
    BY <2>1, CallsKeepPlaces
  <2>2. QED
    BY <2>1, AskKeepsPlaces, TakeAskKeepsPlaces, OfferKeepsPlaces, ExitKeepsPlaces,
       OthersKeepPlaces DEF PeersNext, AskStep, peersVars
<1>2. PeersInit => Places
  <2> SUFFICES ASSUME PeersInit PROVE Places
    OBVIOUS
  <2>1. Answers
    BY InitAnswers
  <2>2. events = <<>> /\ DOMAIN events = {} /\ fan.at # "offer"
    BY DEF PeersInit, Init, Ready
  <2>3. \A k \in Keys : peerToken[k] = Absent
    BY DEF PeersInit, Init, LifetimeInit
  <2>4. QED
    BY <2>1, <2>2, <2>3 DEF Places, OrderInv, PlaceInv, PeerRowsEndWithProcess, Queued,
       PeersInit
<1>3. QED
  BY <1>1, <1>2, PTL DEF PeersSpec, Places

-----------------------------------------------------------------------------
(* Processes that run stay in the slot.                                    *)

Peaceful == history.cancelled = {} /\ Unrestarted

(* Without a cancellation or a restart the process in the slot is the last *)
(* one, which is the one that the served call is at, and a call fails only  *)
(* when that process has ended.                                            *)
Health ==
    /\ slot \in {None, spawned} /\ history.blamed = {}
    /\ fan.at # "discard"
    /\ \A s \in Sessions : /\ loop[s].at \notin {"discarding", "spawning"}
                           /\ loop[s].at = "gate" => loop[s].command = "stop"
    /\ \A c \in Calls :
           /\ pc[c] \in {"cloned", "checked", "bound", "writing", "waiting", "delivering"}
                  => gen[c] = spawned
           /\ pc[c] # "disowned"
           /\ pc[c] = "failed" \/ (pc[c] \in {"returned", "removed"} /\ result[c] = "broken")
                  => ~Live(slot)
HealthInv ==
    /\ gen = [c \in Calls |-> gen[c]] /\ result = [c \in Calls |-> result[c]]
    /\ history = [f \in HistoryFields |-> history[f]] /\ spawned \in Nat
    /\ Peaceful => Health

(* A step inside the task of the call that is served.                      *)
LEMMA TaskKeepsHealth ==
    ASSUME BrokerInv, HealthInv, NEW c \in Calls, TaskStep(c)
    PROVE  HealthInv'
<1> USE DEF HealthInv, Health, Peaceful, Unrestarted, Goto, Leave, Live, BrokerInv, TaskInv, LockInv,
        backendVars, eventVars, sessionVars
<1>1. CASE EnsureSpawns(c)
  <2>1. \A d \in Calls \ {c} : pc[d] \notin Holding
    BY <1>1 DEF EnsureSpawns, Holding
  <2>2. /\ spawned' \in Nat /\ slot' = spawned'
        /\ pc' = [pc EXCEPT ![c] = pc'[c]] /\ pc'[c] \in {"ensured", "refreshing"}
        /\ UNCHANGED <<gen, result, history, fan, loop>>
    BY <1>1 DEF EnsureSpawns, Installed
  <2>3. QED
    BY <2>1, <2>2 DEF Holding
<1>2. CASE EnsureFails(c)
  BY <1>2 DEF EnsureFails
<1>3. CASE CloneSlot(c)
  BY <1>3 DEF CloneSlot
<1>4. CASE Register(c)
  <2>1. CASE gen[c] \in alive
    <3>1. /\ history' = [f \in HistoryFields |-> history'[f]]
          /\ UNCHANGED <<history.cancelled, history.controls, history.blamed>>
      BY <1>4, <2>1, NoteOne DEF Register, HistoryFields
    <3>2. QED
      BY <1>4, <2>1, <3>1 DEF Register
  <2>2. CASE gen[c] \notin alive
    BY <1>4, <2>2 DEF Register
  <2>3. QED
    BY <2>1, <2>2
<1>5. CASE EmptySlot(c)
  <2>1. /\ history' = [f \in HistoryFields |-> history'[f]]
        /\ UNCHANGED <<history.cancelled, history.controls>>
        /\ history'.blamed = history.blamed \cup (IF Live(slot) THEN {slot} ELSE {})
    BY <1>5, NoteOne DEF EmptySlot, HistoryFields
  <2>2. slot' = None /\ spawned' = spawned /\ UNCHANGED <<fan, loop, gen>>
    BY <1>5 DEF EmptySlot
  <2>3. result' = [d \in Calls |-> result'[d]]
    BY <1>5 DEF EmptySlot, ResultAfterEnd
  <2>4. \A d \in Calls : pc'[d] \in {"cloned", "checked", "bound", "writing", "waiting",
                                         "disowned", "delivering"}
                             => pc[d] = pc'[d]
    BY <1>5 DEF EmptySlot, PcAfterEnd
  <2>5. Peaceful => ~Live(slot)
    BY <1>5 DEF EmptySlot
  <2>6. QED
    BY <2>1, <2>2, <2>3, <2>4, <2>5
<1>6. CASE Deliver(c) \/ TimeOut(c)
  BY <1>6 DEF Deliver, TimeOut
<1>7. CASE RemoveRow(c) \/ DetectFailure(c)
  BY <1>7 DEF RemoveRow, DetectFailure
<1>8. CASE Acquire(c) \/ EnsureReuses(c) \/ RefreshAfterSpawn(c)
  BY <1>8 DEF Acquire, EnsureReuses, RefreshAfterSpawn
<1>9. CASE CheckRow(c) \/ BindRow(c)
  BY <1>9 DEF CheckRow, BindRow
<1>10. CASE Respond(c) \/ Abandon(c) \/ Report(c)
  BY <1>10 DEF Respond, Abandon, Report
<1>11. CASE Write(c)
  BY <1>11 DEF Write
<1>12. QED
  BY <1>1, <1>2, <1>3, <1>4, <1>5, <1>6, <1>7, <1>8, <1>9, <1>10, <1>11 DEF TaskStep

LEMMA FanKeepsHealth ==
    ASSUME BrokerInv, HealthInv, FanStep
    PROVE  HealthInv'
<1> USE DEF HealthInv, Health, Peaceful, Unrestarted, Ready, backendVars, sessionVars, taskVars
<1>1. CASE TakeProgress \/ TakeCancel
  <2>1. /\ UNCHANGED <<slot, spawned, alive, loop, pc, gen, result, history>>
        /\ fan' = fan \/ fan' = Ready
           \/ fan' = [at |-> "translate", call |-> Head(events).call, gen |-> slot]
    BY <1>1 DEF TakeProgress, TakeCancel
  <2>2. fan' = fan \/ fan'.at # "discard"
    BY <2>1
  <2>3. QED
    BY <2>1, <2>2 DEF Live
<1>2. CASE TranslateCancel
  <2> DEFINE k == clientByBackend[id[fan.call]]
  <2>1. CASE fan' = Ready /\ history' = history
    BY <1>2, <2>1 DEF TranslateCancel, Live
  <2>2. CASE \E y : history' = [history EXCEPT !.cancelled = @ \cup {owner[k]}, !.notices = y]
    <3>1. history' = [f \in HistoryFields |-> history'[f]] /\ history'.cancelled # {}
      BY <2>2 DEF HistoryFields
    <3>2. QED
      BY <1>2, <3>1 DEF TranslateCancel
  <2>3. QED
    BY <1>2, <2>1, <2>2 DEF TranslateCancel
<1>3. CASE DiscardCancelled
  <2>1. ~Peaceful /\ UNCHANGED <<history, gen, spawned>>
    BY <1>3 DEF DiscardCancelled
  <2>2. result' = [c \in Calls |-> result'[c]]
    BY <1>3 DEF DiscardCancelled, Discard
  <2>3. QED
    BY <2>1, <2>2
<1>4. QED
  BY <1>1, <1>2, <1>3 DEF FanStep

LEMMA LoopKeepsHealth ==
    ASSUME BrokerInv, LoopInv, HealthInv, NEW s \in Sessions, LoopStep(s)
    PROVE  HealthInv'
<1> USE DEF HealthInv, Health, Peaceful, Unrestarted, LoopInv, Continue, Ready, backendVars, eventVars,
        taskVars, Live
<1>1. CASE CancelRow(s)
  <2> DEFINE k == loop[s].key
  <2>1. /\ history' = [f \in HistoryFields |-> history'[f]]
        /\ history'.cancelled = history.cancelled \cup (IF HasRow(k) THEN {owner[k]} ELSE {})
        /\ UNCHANGED <<history.controls, history.blamed>>
    BY <1>1, NoteOne DEF CancelRow, HistoryFields
  <2>2. HasRow(k) \/ ~IsBound(k)
    BY SentinelAssumption DEF HasRow, IsBound
  <2>3. UNCHANGED <<slot, spawned, alive, fan, pc, gen, result>>
    BY <1>1 DEF CancelRow
  <2>4. CASE HasRow(k)
    BY <2>1, <2>3, <2>4
  <2>5. CASE ~HasRow(k)
    <3>1. loop' = [loop EXCEPT ![s] = [at |-> "unmatched", key |-> k, gen |-> loop[s].gen]]
      BY <1>1, <2>2, <2>5 DEF CancelRow
    <3>2. QED
      BY <2>1, <2>3, <2>5, <3>1
  <2>6. QED
    BY <2>4, <2>5
<1>2. CASE CancelPending(s)
  <2>1. ~Peaceful /\ UNCHANGED <<history, gen, spawned>>
    BY <1>2 DEF CancelPending
  <2>2. result' = [c \in Calls |-> result'[c]]
    BY <1>2 DEF CancelPending, Discard
  <2>3. QED
    BY <2>1, <2>2
<1>3. CASE CancelPeer(s)
  <2>1. /\ history' = [f \in HistoryFields |-> history'[f]]
        /\ UNCHANGED <<history.cancelled, history.controls, history.blamed>>
    BY <1>3, NoteOne DEF CancelPeer, HistoryFields
  <2>2. UNCHANGED <<slot, spawned, alive, fan, pc, gen, result>>
    BY <1>3 DEF CancelPeer
  <2>3. \A r \in Sessions : loop'[r] = loop[r] \/ loop'[r].at \in {"ready", "telling"}
    BY <1>3 DEF CancelPeer, Telling
  <2>4. QED
    BY <2>1, <2>2, <2>3
<1>4. CASE ControlTakes(s)
  <2>1. /\ history' = [f \in HistoryFields |-> history'[f]]
        /\ UNCHANGED <<history.cancelled, history.controls>>
    BY <1>4, NoteOne DEF ControlTakes, HistoryFields
  <2>2. /\ UNCHANGED <<gen, spawned, fan>> /\ slot' = None
        /\ history'.blamed = history.blamed
        /\ loop[s].at = "gate"
    BY <1>4, NoteOne DEF ControlTakes, HistoryFields
  <2>3. result' = [c \in Calls |-> result'[c]]
    BY <1>4 DEF ControlTakes, ResultAfterEnd
  <2>4. \A c \in Calls : pc'[c] = pc[c] \/ pc'[c] = "returned"
    BY <1>4 DEF ControlTakes, PcAfterEnd, HeldBy
  <2>5. Peaceful => \A r \in Sessions : loop'[r] = loop[r] \/ loop'[r].at = "ready"
    BY <1>4, <2>2 DEF ControlTakes
  <2>6. Peaceful' <=> Peaceful
    BY <2>1
  <2>7. ASSUME Peaceful
        PROVE  Health'
    <3>1. /\ slot' = None /\ fan' = fan /\ gen' = gen /\ spawned' = spawned
          /\ history'.blamed = history.blamed
      BY <2>2
    <3>2. ~Live(slot)'
      BY <3>1
    <3>3. QED
      BY <2>4, <2>5, <2>7, <3>1, <3>2
  <2>8. QED
    BY <2>1, <2>2, <2>3, <2>6, <2>7
<1>5. CASE RestartSpawns(s)
  <2>1. UNCHANGED <<history, gen, result>>
    BY <1>5 DEF RestartSpawns
  <2>2. spawned' = spawned + 1 \/ spawned' = spawned
    BY <1>5 DEF RestartSpawns, Installed
  <2>3. ~Peaceful
    BY <1>5 DEF RestartSpawns
  <2>4. QED
    BY <2>1, <2>2, <2>3
<1>6. CASE \/ TellBackend(s) \/ ControlRefused(s) \/ RestartRefreshes(s) \/ CheckClosed(s)
           \/ \E message \in Messages : WriteOut(s, message)
  <2>1. /\ UNCHANGED <<slot, spawned, alive, fan, pc, gen, result>>
        /\ loop' = [loop EXCEPT ![s] = Ready] \/ loop' = [loop EXCEPT ![s] = Top]
        /\ history' = history \/ \E x : Note("left", x)
    BY <1>6 DEF TellBackend, ControlRefused, RestartRefreshes, CheckClosed, WriteOut
  <2>2. \A r \in Sessions : loop'[r] = loop[r] \/ loop'[r].at \in {"ready", "top"}
    BY <2>1 DEF Top
  <2>3. /\ history' = [f \in HistoryFields |-> history'[f]]
        /\ UNCHANGED <<history.cancelled, history.controls, history.blamed>>
    BY <2>1, NoteOne DEF HistoryFields
  <2>4. QED
    BY <2>1, <2>2, <2>3
<1>7. QED
  BY <1>1, <1>2, <1>3, <1>4, <1>5, <1>6 DEF LoopStep

LEMMA ClientKeepsHealth ==
    ASSUME BrokerInv, LoopInv, HealthInv, ClientStep \/ BackendStep
    PROVE  HealthInv'
<1> USE DEF HealthInv, Health, Peaceful, Unrestarted, Continue, backendVars, eventVars, taskVars, Live
<1>1. ASSUME NEW c \in Calls, Request(c)
      PROVE  HealthInv'
  BY <1>1 DEF Request, Goto, BrokerInv, TaskInv
<1>2. ASSUME NEW k \in Keys, CancelLine(k)
      PROVE  HealthInv'
  <2>1. /\ UNCHANGED <<slot, spawned, alive, fan, pc, gen, result, history>>
        /\ \/ loop' = loop
           \/ loop' = [loop EXCEPT ![k[1]] = [at |-> "cancelling", key |-> k, gen |-> slot]]
    BY <1>2 DEF CancelLine
  <2>2. \A s \in Sessions : loop'[s] = loop[s] \/ loop'[s].at = "cancelling"
    BY <2>1 DEF LoopInv
  <2>3. QED
    BY <2>1, <2>2
<1>3. ASSUME NEW s \in Sessions, NEW command \in Commands, ControlLine(s, command)
      PROVE  HealthInv'
  <2>1. /\ history' = [f \in HistoryFields |-> history'[f]]
        /\ history'.controls = history.controls \cup {command}
    BY <1>3, NoteOne DEF ControlLine, HistoryFields
  <2>2. /\ UNCHANGED <<slot, spawned, alive, fan, pc, gen, result>>
        /\ UNCHANGED <<history.cancelled, history.blamed>>
    BY <1>3, NoteOne DEF ControlLine, HistoryFields
  <2>3. \A r \in Sessions : loop'[r] = loop[r]
                             \/ (loop'[r].at = "gate" /\ loop'[r].command = command)
    BY <1>3 DEF ControlLine, LoopInv
  <2>4. Peaceful' => Peaceful /\ command = "stop"
    BY <2>1, <2>2 DEF Commands
  <2>5. QED
    BY <2>1, <2>2, <2>3, <2>4
<1>4. ASSUME NEW s \in Sessions, HalfClose(s) \/ Break(s)
      PROVE  HealthInv'
  <2>1. /\ UNCHANGED <<slot, spawned, alive, fan, pc, gen, result>>
        /\ loop' = loop \/ loop' = [loop EXCEPT ![s] = Top]
        /\ history' = history \/ \E x : Note("left", x)
    BY <1>4 DEF HalfClose, Break
  <2>2. \A r \in Sessions : loop'[r] = loop[r] \/ loop'[r].at = "top"
    BY <2>1 DEF LoopInv, Top
  <2>3. /\ history' = [f \in HistoryFields |-> history'[f]]
        /\ UNCHANGED <<history.cancelled, history.controls, history.blamed>>
    BY <2>1, NoteOne DEF HistoryFields
  <2>4. QED
    BY <2>1, <2>2, <2>3
<1>5. ASSUME NEW c \in Calls, Answer(c)
      PROVE  HealthInv'
  <2>1. UNCHANGED <<slot, spawned, alive, fan, loop, gen, result, history>>
    BY <1>5 DEF Answer, sessionVars
  <2>2. pc' = pc \/ (pc[c] = "waiting" /\ pc' = [pc EXCEPT ![c] = "delivering"])
    BY <1>5 DEF Answer, Goto
  <2>3. \A d \in Calls : pc'[d] = pc[d] \/ (pc[d] = "waiting" /\ pc'[d] = "delivering")
    BY <2>2 DEF BrokerInv, TaskInv
  <2>4. QED
    BY <2>1, <2>3
<1>6. ASSUME NEW e \in Emits, Emit(e[1], e[2])
      PROVE  HealthInv'
  BY <1>6 DEF Emit, sessionVars
<1>7. ASSUME NEW g \in Gens, Exit(g)
      PROVE  HealthInv'
  <2>1. UNCHANGED <<slot, spawned, fan, loop, gen, history>> /\ alive' = alive \ {g}
    BY <1>7 DEF Exit, Ended, sessionVars
  <2>2. /\ result' = [c \in Calls |-> IF HeldBy(c, g) THEN "broken" ELSE result[c]]
        /\ pc' = [c \in Calls |-> IF HeldBy(c, g) THEN "returned" ELSE pc[c]]
    BY <1>7 DEF Exit, PcAfterEnd, ResultAfterEnd
  <2>3. QED
    BY <2>1, <2>2 DEF HeldBy
<1>8. ASSUME NEW g \in Gens, Jam(g) \/ Drain(g)
      PROVE  HealthInv'
  BY <1>8 DEF Jam, Drain, sessionVars
<1>9. QED
  BY <1>1, <1>2, <1>3, <1>4, <1>5, <1>6, <1>7, <1>8 DEF ClientStep, BackendStep

LEMMA AskKeepsHealth ==
    ASSUME PeersInv, HealthInv, AskStep
    PROVE  HealthInv'
<1> USE DEF HealthInv, Health, Peaceful, Unrestarted, PeersInv, LoopInv, Live
<1>1. UNCHANGED <<slot, spawned, alive, history, pc, gen, result>>
  BY AskStepIsPeerOnly DEF AskStep, Ask, TakeAsk, RefuseAsk, InsertAsk, SendAsk, TakeExit,
     SendExit, ReadAnswer, ForwardAnswer, taskVars, backendVars
<1>2. fan' = fan \/ fan'.at # "discard"
  <2>1. ASSUME NEW a \in Asks, TakeAsk(a)
        PROVE  fan'.at # "discard"
    BY <2>1 DEF TakeAsk, Ready, Offer
  <2>2. CASE RefuseAsk \/ InsertAsk \/ SendAsk
    BY <2>2 DEF RefuseAsk, InsertAsk, SendAsk, OfferGoesOn, Ready, Offer
  <2>3. QED
    BY <2>1, <2>2 DEF AskStep, Ask, TakeExit, SendExit, ReadAnswer, ForwardAnswer, eventVars
<1>3. \/ loop' = loop
      \/ \E s \in Sessions : loop' = [loop EXCEPT ![s] = Ready]
      \/ \E s : loop' = [loop EXCEPT ![s] = [at |-> "answering"]]
      \/ \E s, g : loop' = [loop EXCEPT ![s] = Telling(g)]
  <2>1. ASSUME NEW s \in Sessions, ForwardAnswer(s)
        PROVE  loop' = [loop EXCEPT ![s] = Ready] \/ \E g : loop' = [loop EXCEPT ![s] = Telling(g)]
    BY <2>1 DEF ForwardAnswer, Continue
  <2>2. ASSUME NEW a \in Asks, ReadAnswer(a)
        PROVE  loop' = loop \/ loop' = [loop EXCEPT ![handed[a]] = [at |-> "answering"]]
    BY <2>2 DEF ReadAnswer, Continue
  <2>3. QED
    BY <2>1, <2>2 DEF AskStep, Ask, TakeAsk, RefuseAsk, InsertAsk, SendAsk, TakeExit, SendExit,
       sessionVars
<1>4. \A s \in Sessions : loop'[s] = loop[s]
                             \/ loop'[s].at \in {"ready", "answering", "telling"}
  BY <1>3 DEF Ready, Telling
<1>5. QED
  BY <1>1, <1>2, <1>4

(* A process that runs is taken out of the slot by a call that failed only *)
(* after a cancellation or a restart: the process a call was sent to is    *)
(* the one in the slot, and it has ended (invalidate_on_failure).          *)
THEOREM HealthyBackendsKept == PeersSpec => []HealthyBackendKept
<1> DEFINE Inv == PeersInv /\ HealthInv
<1>1. Inv /\ [PeersNext]_peersVars => Inv'
  <2> SUFFICES ASSUME Inv, [PeersNext]_peersVars PROVE HealthInv'
    BY PeersStepKeepsInv
  <2>1. CASE UNCHANGED vars
    BY <2>1 DEF vars, taskVars, backendVars, eventVars, sessionVars, HealthInv, Health,
       Peaceful, Unrestarted, Live
  <2>2. QED
    BY <2>1, TaskKeepsHealth, FanKeepsHealth, LoopKeepsHealth, ClientKeepsHealth,
       AskKeepsHealth DEF PeersInv, PeersNext, Next, peersVars
<1>2. PeersInit => Inv
  BY InitPeers DEF PeersInit, Init, HealthInv, Health, Peaceful, Unrestarted, HistoryFields, Ready
<1>3. Inv => HealthyBackendKept
  BY DEF HealthInv, Health, Peaceful, Unrestarted, HealthyBackendKept
<1>4. QED
  BY <1>1, <1>2, <1>3, PTL DEF PeersSpec
=============================================================================
