-------------------------- MODULE BackendChannelProofs --------------------------
(***************************************************************************)
(* The pending map and the tombstones of the channel, for any number of    *)
(* calls, any pipe and any backend: no caller is forgotten, an id is       *)
(* awaited or suppressed, and a cancelled call is never completed.         *)
(***************************************************************************)
EXTENDS BackendChannel, TLAPS

InputLines == [kind : {"request", "cancel"}, call : Calls]
OutputLines ==
    [kind : {"response"}, call : Calls] \cup
    [kind : {"progress"}, call : Calls, number : 1 .. MaxProgress]

(* The lines in the pipes are what either side writes.                     *)
PipesOK == stdin \in Seq(InputLines) /\ stdout \in Seq(OutputLines)

(* A sender is in the map only as long as nothing has happened to its      *)
(* call, and a call that has not begun has left no trace.                  *)
PendingFresh ==
    \A c \in Calls :
        /\ c \in pending \/ pc[c] = "idle" =>
               /\ pc[c] \in {"idle", "registered", "waiting", "expired"}
               /\ cancelPc[c] = "none" /\ reply[c] = "none" /\ awaits[c] = NotTaken
        /\ pc[c] = "idle" => c \notin pending /\ c \notin discarded

(* A cancellation has taken the sender, and the response cannot be on its  *)
(* way to the caller.                                                      *)
CancelledTaken ==
    \A c \in Calls : Cancelled(c) =>
        /\ c \notin pending /\ awaits[c] = NotTaken
        /\ pc[c] # "ok" /\ reply[c] # "answer"

ChannelInv ==
    /\ ChannelTypeOK /\ PipesOK
    /\ PendingFresh /\ NoLostWaiter /\ MapExclusive /\ CancelledTaken

(* No response taken is told apart from one that waits for nothing.        *)
LEMMA AcksAreTaken ==
    ASSUME ChannelTypeOK
    PROVE  acks # NotTaken /\ acks \in SUBSET (0 .. MaxProgress)
BY ChannelAssumption DEF ChannelTypeOK, NotTaken

LEMMA ChannelInit == Init => ChannelInv
<1> SUFFICES ASSUME Init
             PROVE  ChannelInv
  OBVIOUS
<1>1. NotTaken \in SUBSET (0 .. MaxProgress)
  BY ChannelAssumption DEF NotTaken
<1>2. ChannelTypeOK
  <2>1. /\ pc \in [Calls -> CallerLabels]
        /\ cancelPc \in [Calls -> {"none", "writing", "done"}]
        /\ reply \in [Calls -> {"none", "answer", "dropped"}]
    BY DEF Init, CallerLabels
  <2>2. awaits \in [Calls -> SUBSET (0 .. MaxProgress)]
    BY <1>1 DEF Init
  <2>3. /\ emitted \in 0 .. MaxProgress /\ strays \in 0 .. MaxStray
        /\ acks \subseteq 1 .. MaxProgress
    BY ChannelAssumption DEF Init
  <2>4. QED
    BY <2>1, <2>2, <2>3 DEF Init, ChannelTypeOK
<1>3. PipesOK
  BY DEF Init, PipesOK
<1>4. PendingFresh /\ NoLostWaiter /\ MapExclusive /\ CancelledTaken
  BY DEF Init, PendingFresh, NoLostWaiter, MapExclusive, CancelledTaken, Cancelled
<1>5. QED
  BY <1>2, <1>3, <1>4 DEF ChannelInv

(* The steps of a caller touch no other call.                              *)
LEMMA CallKeepsInv ==
    ASSUME ChannelInv, NEW c \in Calls, CallStep(c)
    PROVE  ChannelInv'
<1> USE ChannelAssumption
        DEF ChannelInv, ChannelTypeOK, CallerLabels, PipesOK, PendingFresh, NoLostWaiter,
            MapExclusive, CancelledTaken, Cancelled, Goto, backendVars, readerVars, mapVars
<1>1. CASE Register(c)
  BY <1>1 DEF Register
<1>2. CASE Write(c)
  <2>1. Request(c) \in InputLines
    BY DEF Request, InputLines
  <2>2. stdin' \in Seq(InputLines)
    BY <1>2, <2>1 DEF Write, WriteLine
  <2>3. QED
    BY <1>2, <2>2 DEF Write
<1>3. CASE WriteError(c)
  BY <1>3 DEF WriteError
<1>4. CASE Receive(c)
  BY <1>4 DEF Receive
<1>5. CASE Expire(c)
  BY <1>5 DEF Expire
<1>6. CASE MarkExpired(c)
  BY <1>6 DEF MarkExpired
<1>7. CASE WriteExpired(c)
  <2>1. CancelLine(c) \in InputLines
    BY DEF CancelLine, InputLines
  <2>2. stdin' = Append(stdin, CancelLine(c)) \/ stdin' = stdin
    BY <1>7 DEF WriteExpired, WriteLine
  <2>3. stdin' \in Seq(InputLines)
    <3>1. CASE stdin' = Append(stdin, CancelLine(c))
      BY <3>1, <2>1
    <3>2. CASE stdin' = stdin
      BY <3>2
    <3>3. QED
      BY <2>2, <3>1, <3>2
  <2>4. QED
    BY <1>7, <2>3 DEF WriteExpired
<1>8. CASE Classify(c)
  BY <1>8 DEF Classify
<1>9. QED
  BY <1>1, <1>2, <1>3, <1>4, <1>5, <1>6, <1>7, <1>8 DEF CallStep

(* A cancellation takes a sender that is still in the map.                 *)
LEMMA CancelKeepsInv ==
    ASSUME ChannelInv, NEW c \in Calls, CancelStep(c)
    PROVE  ChannelInv'
<1> USE ChannelAssumption
        DEF ChannelInv, ChannelTypeOK, CallerLabels, PipesOK, PendingFresh, NoLostWaiter,
            MapExclusive, CancelledTaken, Cancelled, backendVars, readerVars, mapVars
<1>1. CASE ClientCancel(c)
  BY <1>1 DEF ClientCancel, TakeSender
<1>2. CASE WriteCancel(c)
  <2>1. CancelLine(c) \in InputLines
    BY DEF CancelLine, InputLines
  <2>2. stdin' \in Seq(InputLines)
    BY <1>2, <2>1 DEF WriteCancel, WriteLine
  <2>3. QED
    BY <1>2, <2>2 DEF WriteCancel
<1>3. CASE BackendCancel(c)
  BY <1>3 DEF BackendCancel, TakeSender
<1>4. QED
  BY <1>1, <1>2, <1>3 DEF CancelStep

(* The backend writes lines and leaves the map alone.                      *)
LEMMA BackendKeepsInv ==
    ASSUME ChannelInv, BackendStep
    PROVE  ChannelInv'
<1> USE ChannelAssumption
        DEF ChannelInv, ChannelTypeOK, PipesOK, PendingFresh, NoLostWaiter, MapExclusive,
            CancelledTaken, Cancelled, callerVars, readerVars, mapVars
<1>1. CASE BackendReads
  <2>1. Head(stdin) \in InputLines /\ stdin' \in Seq(InputLines)
    BY <1>1 DEF BackendReads
  <2>2. answering' \subseteq Calls
    BY <1>1, <2>1 DEF BackendReads, InputLines
  <2>3. QED
    BY <1>1, <2>1, <2>2 DEF BackendReads
<1>2. ASSUME NEW c \in Calls, BackendProgress(c)
      PROVE  ChannelInv'
  <2>1. Progress(c, emitted + 1) \in OutputLines
    BY <1>2 DEF BackendProgress, Progress, OutputLines
  <2>2. stdout' \in Seq(OutputLines)
    BY <1>2, <2>1 DEF BackendProgress
  <2>3. QED
    BY <1>2, <2>2 DEF BackendProgress
<1>3. ASSUME NEW c \in Calls, BackendAnswers(c)
      PROVE  ChannelInv'
  <2>1. Response(c) \in OutputLines
    BY DEF Response, OutputLines
  <2>2. stdout' \in Seq(OutputLines)
    BY <1>3, <2>1 DEF BackendAnswers
  <2>3. QED
    BY <1>3, <2>2 DEF BackendAnswers
<1>4. ASSUME NEW c \in Calls, BackendRepeats(c)
      PROVE  ChannelInv'
  <2>1. Response(c) \in OutputLines
    BY DEF Response, OutputLines
  <2>2. stdout' \in Seq(OutputLines) /\ strays' \in 0 .. MaxStray
    BY <1>4, <2>1 DEF BackendRepeats
  <2>3. QED
    BY <1>4, <2>2 DEF BackendRepeats
<1>5. CASE BackendExits
  <2>1. stdin' \in Seq(InputLines)
    BY <1>5 DEF BackendExits
  <2>2. QED
    BY <1>5, <2>1 DEF BackendExits
<1>6. QED
  BY <1>1, <1>2, <1>3, <1>4, <1>5 DEF BackendStep

(* The reader takes a response for a call that waits, absorbs it, or       *)
(* reports it; at the end of the file it wakes every caller.               *)
LEMMA ReaderKeepsInv ==
    ASSUME ChannelInv, ReaderStep
    PROVE  ChannelInv'
<1> USE ChannelAssumption
        DEF ChannelInv, ChannelTypeOK, PipesOK, PendingFresh, NoLostWaiter, MapExclusive,
            CancelledTaken, Cancelled, callerVars, backendVars, mapVars
<1>1. stdout # <<>> => Head(stdout) \in OutputLines /\ Tail(stdout) \in Seq(OutputLines)
  OBVIOUS
<1>2. CASE ReadResponse
  <2>1. stdout' \in Seq(OutputLines)
    BY <1>1, <1>2 DEF ReadResponse, NextLineIs
  <2>2. acks # NotTaken /\ acks \in SUBSET (0 .. MaxProgress)
    BY AcksAreTaken
  <2>3. PICK c \in Calls : c = Head(stdout).call
    BY <1>1, <1>2 DEF ReadResponse, NextLineIs, OutputLines
  <2>4. CASE c \in pending
    <3>1. pending' = pending \ {c} /\ awaits' = [awaits EXCEPT ![c] = acks] /\ acks' = {}
      BY <1>2, <2>3, <2>4 DEF ReadResponse, DeliverAfterAcks
    <3>2. ChannelTypeOK' /\ PipesOK'
      BY <1>2, <2>1, <2>2, <2>3, <2>4, <3>1 DEF ReadResponse
    <3>3. PendingFresh' /\ MapExclusive' /\ CancelledTaken'
      BY <1>2, <2>3, <2>4, <3>1 DEF ReadResponse
    <3>4. NoLostWaiter'
      BY <1>2, <2>2, <2>3, <2>4, <3>1 DEF ReadResponse
    <3>5. QED
      BY <3>2, <3>3, <3>4
  <2>5. CASE c \notin pending
    <3>1. UNCHANGED <<pending, awaits>> /\ discarded' \subseteq discarded
          /\ acks' \subseteq acks
      BY <1>2, <2>3, <2>5 DEF ReadResponse
    <3>2. QED
      BY <1>2, <2>1, <3>1 DEF ReadResponse
  <2>6. QED
    BY <2>4, <2>5
<1>3. CASE ReadProgress
  <2>1. stdout' \in Seq(OutputLines) /\ Head(stdout).number \in 1 .. MaxProgress
    BY <1>1, <1>3 DEF ReadProgress, NextLineIs, OutputLines
  <2>2. QED
    BY <1>3, <2>1 DEF ReadProgress
<1>4. CASE ReadEof
  BY <1>4 DEF ReadEof
<1>5. QED
  BY <1>2, <1>3, <1>4 DEF ReaderStep

(* A delivery task answers a call nothing else has happened to.            *)
LEMMA DeliverKeepsInv ==
    ASSUME ChannelInv, NEW c \in Calls, Deliver(c)
    PROVE  ChannelInv'
<1>1. NotTaken \in SUBSET (0 .. MaxProgress)
  BY ChannelAssumption DEF NotTaken
<1> USE DEF ChannelInv, ChannelTypeOK, PipesOK, PendingFresh, NoLostWaiter, MapExclusive,
            CancelledTaken, Cancelled, callerVars, mapVars, backendVars, readerVars
<1>2. awaits[c] # NotTaken /\ awaits' = [awaits EXCEPT ![c] = NotTaken]
      /\ reply' = [reply EXCEPT ![c] = "answer"]
      /\ UNCHANGED <<callerVars, mapVars, backendVars, readerVars>>
  BY DEF Deliver
<1>3. c \notin pending /\ pc[c] # "idle" /\ cancelPc[c] = "none"
  BY <1>2
<1>4. ChannelTypeOK' /\ PipesOK'
  BY <1>1, <1>2
<1>5. PendingFresh' /\ MapExclusive' /\ CancelledTaken'
  BY <1>2, <1>3
<1>6. NoLostWaiter'
  BY <1>2
<1>7. QED
  BY <1>4, <1>5, <1>6

LEMMA ChannelStep == ChannelInv /\ [Next]_vars => ChannelInv'
<1> SUFFICES ASSUME ChannelInv, [Next]_vars
             PROVE  ChannelInv'
  OBVIOUS
<1>1. CASE Consume
  BY <1>1 DEF Consume, ChannelInv, ChannelTypeOK, PipesOK, PendingFresh, NoLostWaiter,
              MapExclusive, CancelledTaken, Cancelled, callerVars, mapVars, backendVars
<1>2. CASE UNCHANGED vars
  BY <1>2 DEF vars, ChannelInv, ChannelTypeOK, PipesOK, PendingFresh, NoLostWaiter,
              MapExclusive, CancelledTaken, Cancelled
<1>3. QED
  BY <1>1, <1>2, CallKeepsInv, CancelKeepsInv, BackendKeepsInv, ReaderKeepsInv,
     DeliverKeepsInv DEF Next

LEMMA ChannelInvariant == Spec => []ChannelInv
<1>1. QED
  BY ChannelInit, ChannelStep, PTL DEF Spec

(* Types of the channel's state, for any bounds.                           *)
THEOREM ChannelWellTyped == Spec => []ChannelTypeOK
<1>1. ChannelInv => ChannelTypeOK
  BY DEF ChannelInv
<1>2. QED
  BY <1>1, ChannelInvariant, PTL

(* No caller of send_request is forgotten: its sender is in the map, or a  *)
(* delivery task has its response, or its receiver has been served.        *)
THEOREM CallersAreServed == Spec => []NoLostWaiter
<1>1. ChannelInv => NoLostWaiter
  BY DEF ChannelInv
<1>2. QED
  BY <1>1, ChannelInvariant, PTL

(* An id of PendingState is awaited or suppressed, and the map is empty    *)
(* once it is closed.                                                      *)
THEOREM AwaitedOrSuppressed == Spec => []MapExclusive
<1>1. ChannelInv => MapExclusive
  BY DEF ChannelInv
<1>2. QED
  BY <1>1, ChannelInvariant, PTL

(* cancel_pending_request and discard_pending_response exclude completion: *)
(* a call they have taken the sender of never returns an answer.           *)
THEOREM CancelledStaysCancelled == Spec => []CancelledNotCompleted
<1>1. ChannelInv => CancelledNotCompleted
  BY DEF ChannelInv, CancelledTaken, CancelledNotCompleted
<1>2. QED
  BY <1>1, ChannelInvariant, PTL

-----------------------------------------------------------------------------
(* Late answers.  As long as the backend repeats nothing, a request is in  *)
(* one place: a line of stdin, at work in the backend, or its response a   *)
(* line of stdout.                                                         *)

Sent(c) == \E i \in 1 .. Len(stdin) : stdin[i] = Request(c)
Answered(c) == \E i \in 1 .. Len(stdout) : stdout[i] = Response(c)

(* A request that is under way was written by its caller, is in one place  *)
(* only, and is awaited or suppressed.                                     *)
OnePlace ==
    \A c \in Calls :
        /\ \A i, j \in 1 .. Len(stdin) :
               stdin[i] = Request(c) /\ stdin[j] = Request(c) => i = j
        /\ \A i, j \in 1 .. Len(stdout) :
               stdout[i] = Response(c) /\ stdout[j] = Response(c) => i = j
        /\ Sent(c) => c \notin answering /\ ~Answered(c)
        /\ c \in answering => ~Answered(c)
        /\ pc[c] = "registered" /\ ~closed => c \in pending \cup discarded
        /\ Sent(c) \/ c \in answering \/ Answered(c) =>
               pc[c] \notin {"idle", "registered"} /\ c \in pending \cup discarded

(* What the end of the process leaves.                                     *)
EndOfProcess ==
    /\ ~running => stdin = <<>> /\ answering = {}
    /\ closed => ~running /\ stdout = <<>>

Events == OutputLines \cup [kind : {"unmatched"}, call : Calls] \cup [kind : {"exit"}]

NoUnmatched == \A i \in 1 .. Len(events), c \in Calls : events[i] # Unmatched(c)

AbsorbInv ==
    /\ EndOfProcess
    /\ events \in Seq(Events)
    /\ strays = 0 => OnePlace /\ NoUnmatched

(* The kinds of lines and events are told apart.                           *)
LEMMA KindsDiffer ==
    /\ \A c, d : CancelLine(c) # Request(d)
    /\ \A c, d, n : Progress(c, n) # Response(d) /\ Progress(c, n) # Unmatched(d)
    /\ \A c : ProcessExit # Unmatched(c)
    /\ \A c, n : ProcessExit # Progress(c, n)
    /\ \A c, d, m, n : Progress(c, m) = Progress(d, n) => c = d /\ m = n
    /\ \A c, d : Request(c) = Request(d) => c = d
    /\ \A c, d : Response(c) = Response(d) => c = d
<1>1. /\ \A c, d : CancelLine(c).kind # Request(d).kind
      /\ \A c, d, n : /\ Progress(c, n).kind # Response(d).kind
                      /\ Progress(c, n).kind # Unmatched(d).kind
      /\ \A c : ProcessExit.kind # Unmatched(c).kind
      /\ \A c, n : /\ ProcessExit.kind # Progress(c, n).kind
                   /\ Progress(c, n).call = c /\ Progress(c, n).number = n
      /\ \A c : Request(c).call = c /\ Response(c).call = c
  BY DEF CancelLine, Request, Progress, Response, Unmatched, ProcessExit
<1>2. QED
  BY <1>1

LEMMA AbsorbInit == Init => AbsorbInv
BY DEF Init, AbsorbInv, EndOfProcess, Events, OnePlace, NoUnmatched, Sent, Answered

(* A step that leaves the pipes and the events alone.                      *)
LEMMA StillAbsorbs ==
    ASSUME ChannelInv, AbsorbInv,
           UNCHANGED <<stdin, running, answering, strays, stdout, closed, events>>,
           \A c \in Calls : c \in pending \cup discarded =>
               c \in pending' \cup discarded' \/ (pc[c] = "registered" /\ pc'[c] = "broken"),
           \A c \in Calls : pc'[c] = "idle" => pc[c] = "idle",
           \A c \in Calls : pc'[c] = "registered" =>
               pc[c] = "registered" \/ (pc[c] = "idle" /\ c \in pending')
    PROVE  AbsorbInv'
BY DEF AbsorbInv, EndOfProcess, OnePlace, NoUnmatched, Sent, Answered

(* So does one that writes the notice of a cancellation.                   *)
LEMMA LinesOfCancellations ==
    ASSUME ChannelInv, AbsorbInv, NEW c \in Calls,
           (stdin' = Append(stdin, CancelLine(c)) /\ running) \/ stdin' = stdin,
           UNCHANGED <<pending, discarded, closed, running, answering, strays, stdout, events>>,
           \A d \in Calls : pc'[d] \in {"idle", "registered"} => pc'[d] = pc[d]
    PROVE  AbsorbInv'
<1>1. stdin \in Seq(InputLines)
  BY DEF ChannelInv, PipesOK
<1>2. EndOfProcess' /\ (events \in Seq(Events))'
  BY DEF AbsorbInv, EndOfProcess
<1>3. ASSUME strays = 0
      PROVE  OnePlace'
  <2>1. \A d \in Calls, i \in 1 .. Len(stdin') : stdin'[i] = Request(d) =>
            i \in 1 .. Len(stdin) /\ stdin[i] = Request(d)
    BY <1>1, KindsDiffer
  <2>2. \A d \in Calls : (Sent(d)' => Sent(d)) /\ (Answered(d)' <=> Answered(d))
    BY <2>1 DEF Sent, Answered
  <2>3. OnePlace
    BY <1>3 DEF AbsorbInv
  <2>4. QED
    BY <2>1, <2>2, <2>3 DEF OnePlace
<1>4. QED
  BY <1>2, <1>3 DEF AbsorbInv, NoUnmatched

LEMMA CallAbsorbs ==
    ASSUME ChannelInv, AbsorbInv, NEW c \in Calls, CallStep(c)
    PROVE  AbsorbInv'
<1> USE DEF Goto, backendVars, readerVars, mapVars
<1>0. pc \in [Calls -> CallerLabels]
  BY DEF ChannelInv, ChannelTypeOK
<1>1. CASE Register(c) \/ WriteError(c) \/ Receive(c) \/ Expire(c) \/ MarkExpired(c)
           \/ Classify(c)
  <2>1. UNCHANGED <<stdin, running, answering, strays, stdout, closed, events>>
    BY <1>1 DEF Register, WriteError, Receive, Expire, MarkExpired, Classify
  <2>2. \A d \in Calls : d \in pending \cup discarded =>
            d \in pending' \cup discarded' \/ (pc[d] = "registered" /\ pc'[d] = "broken")
    BY <1>0, <1>1 DEF Register, WriteError, Receive, Expire, MarkExpired, Classify
  <2>3. \A d \in Calls : pc'[d] = "idle" => pc[d] = "idle"
    BY <1>0, <1>1 DEF Register, WriteError, Receive, Expire, MarkExpired, Classify
  <2>4. \A d \in Calls : pc'[d] = "registered" =>
            pc[d] = "registered" \/ (pc[d] = "idle" /\ d \in pending')
    BY <1>0, <1>1 DEF Register, WriteError, Receive, Expire, MarkExpired, Classify
  <2>5. QED
    BY <2>1, <2>2, <2>3, <2>4, StillAbsorbs
<1>2. CASE Write(c)
  <2>1. stdin \in Seq(InputLines) /\ stdin' = Append(stdin, Request(c))
    BY <1>2 DEF ChannelInv, PipesOK, Write, WriteLine
  <2>2. /\ pc[c] = "registered" /\ pc' = [pc EXCEPT ![c] = "waiting"] /\ running
        /\ UNCHANGED <<pending, discarded, closed, running, answering, strays, stdout, events>>
    BY <1>2 DEF Write, CanWrite
  <2>3. EndOfProcess' /\ (events \in Seq(Events))'
    BY <1>0, <2>2 DEF AbsorbInv, EndOfProcess
  <2>4. ~closed
    BY <2>2 DEF AbsorbInv, EndOfProcess
  <2>5. ASSUME strays = 0
        PROVE  OnePlace'
    <3>1. OnePlace /\ c \in pending \cup discarded
      BY <2>2, <2>4, <2>5 DEF AbsorbInv, OnePlace
    <3>2. ~Sent(c) /\ c \notin answering /\ ~Answered(c)
      BY <2>2, <3>1 DEF OnePlace
    <3>3. \A d \in Calls : Sent(d)' <=> Sent(d) \/ d = c
      BY <2>1, KindsDiffer DEF Sent
    <3>4. \A d \in Calls : Answered(d)' <=> Answered(d)
      BY <2>2 DEF Answered
    <3>5. \A d \in Calls, i, j \in 1 .. Len(stdin') :
             stdin'[i] = Request(d) /\ stdin'[j] = Request(d) => i = j
      BY <2>1, <3>1, <3>2, KindsDiffer DEF OnePlace, Sent
    <3>6. QED
      BY <1>0, <2>2, <2>4, <3>1, <3>2, <3>3, <3>4, <3>5 DEF OnePlace
  <2>6. QED
    BY <2>2, <2>3, <2>5 DEF AbsorbInv, NoUnmatched
<1>3. CASE WriteExpired(c)
  <2>1. stdin \in Seq(InputLines)
        /\ ((stdin' = Append(stdin, CancelLine(c)) /\ running) \/ stdin' = stdin)
    BY <1>3 DEF ChannelInv, PipesOK, WriteExpired, WriteLine, CanWrite
  <2>2. /\ pc[c] = "cancelling" /\ pc' = [pc EXCEPT ![c] = "timedOut"]
        /\ UNCHANGED <<pending, discarded, closed, running, answering, strays, stdout, events>>
    BY <1>3 DEF WriteExpired
  <2>3. QED
    BY <1>0, <2>1, <2>2, LinesOfCancellations
<1>4. QED
  BY <1>1, <1>2, <1>3 DEF CallStep


LEMMA CancelAbsorbs ==
    ASSUME ChannelInv, AbsorbInv, NEW c \in Calls, CancelStep(c)
    PROVE  AbsorbInv'
<1>1. CASE ClientCancel(c) \/ BackendCancel(c)
  <2>1. /\ UNCHANGED <<pc, stdin, running, answering, strays, stdout, closed, events>>
        /\ pending \cup discarded \subseteq pending' \cup discarded'
    BY <1>1 DEF ClientCancel, BackendCancel, TakeSender, backendVars, readerVars
  <2>2. QED
    BY <2>1, StillAbsorbs
<1>2. CASE WriteCancel(c)
  <2>1. /\ (stdin' = Append(stdin, CancelLine(c)) /\ running) \/ stdin' = stdin
        /\ UNCHANGED <<pc, pending, discarded, closed, running, answering, strays, stdout,
                       events>>
    BY <1>2 DEF WriteCancel, WriteLine, CanWrite, mapVars, readerVars
  <2>2. QED
    BY <2>1, LinesOfCancellations
<1>3. QED
  BY <1>1, <1>2 DEF CancelStep

(* A request moves from the pipe into the backend and from there to stdout. *)
LEMMA BackendAbsorbs ==
    ASSUME ChannelInv, AbsorbInv, BackendStep
    PROVE  AbsorbInv'
<1> USE DEF callerVars, mapVars, readerVars
<1>0. stdin \in Seq(InputLines) /\ stdout \in Seq(OutputLines)
  BY DEF ChannelInv, PipesOK
<1>1. CASE BackendReads
  <2>1. /\ running /\ stdin # <<>> /\ stdin' = Tail(stdin)
        /\ UNCHANGED <<pc, pending, discarded, closed, running, strays, stdout, events>>
    BY <1>1 DEF BackendReads
  <2>2. EndOfProcess' /\ (events \in Seq(Events))'
    BY <2>1 DEF AbsorbInv, EndOfProcess
  <2>3. ASSUME strays = 0
        PROVE  OnePlace'
    <3>1. OnePlace
      BY <2>3 DEF AbsorbInv
    <3>2. \A i \in 1 .. Len(stdin') : stdin'[i] = stdin[i + 1] /\ i + 1 \in 1 .. Len(stdin)
      BY <1>0, <2>1
    <3>3. \A d \in Calls : (Sent(d)' => Sent(d)) /\ (Answered(d)' <=> Answered(d))
      BY <2>1, <3>2 DEF Sent, Answered
    <3>4. \A d \in Calls : d \in answering' =>
              d \in answering \/ (Sent(d) /\ ~Sent(d)')
      <4>1. SUFFICES ASSUME NEW d \in Calls, d \in answering', d \notin answering
                     PROVE  Sent(d) /\ ~Sent(d)'
        OBVIOUS
      <4>2. Head(stdin) \in InputLines /\ Head(stdin) = stdin[1] /\ 1 \in 1 .. Len(stdin)
        BY <1>0, <2>1
      <4>3. Head(stdin).kind = "request" /\ d = Head(stdin).call
        BY <1>1, <4>1 DEF BackendReads
      <4>4. stdin[1] = Request(d)
        BY <4>2, <4>3 DEF InputLines, Request
      <4>5. QED
        BY <3>1, <3>2, <4>2, <4>4 DEF OnePlace, Sent
    <3>5. \A d \in Calls, i, j \in 1 .. Len(stdin') :
             stdin'[i] = Request(d) /\ stdin'[j] = Request(d) => i = j
      <4>1. SUFFICES ASSUME NEW d \in Calls, NEW i \in 1 .. Len(stdin'),
                            NEW j \in 1 .. Len(stdin'),
                            stdin'[i] = Request(d), stdin'[j] = Request(d)
                     PROVE  i = j
        OBVIOUS
      <4>2. i + 1 = j + 1
        BY <3>1, <3>2, <4>1 DEF OnePlace
      <4>3. QED
        BY <4>2
    <3>6. QED
      BY <2>1, <3>1, <3>3, <3>4, <3>5 DEF OnePlace
  <2>4. QED
    BY <2>1, <2>2, <2>3 DEF AbsorbInv, NoUnmatched
<1>2. ASSUME NEW c \in Calls, BackendProgress(c)
      PROVE  AbsorbInv'
  <2>1. /\ running /\ stdout' = Append(stdout, Progress(c, emitted + 1))
        /\ UNCHANGED <<pc, pending, discarded, closed, stdin, running, answering, strays,
                       events>>
    BY <1>2 DEF BackendProgress
  <2>2. EndOfProcess' /\ (events \in Seq(Events))'
    BY <2>1 DEF AbsorbInv, EndOfProcess
  <2>3. ASSUME strays = 0
        PROVE  OnePlace'
    <3>1. OnePlace
      BY <2>3 DEF AbsorbInv
    <3>2. \A d \in Calls, i \in 1 .. Len(stdout') : stdout'[i] = Response(d) =>
              i \in 1 .. Len(stdout) /\ stdout[i] = Response(d)
      BY <1>0, <2>1, KindsDiffer
    <3>3. \A d \in Calls : (Sent(d)' <=> Sent(d)) /\ (Answered(d)' => Answered(d))
      BY <2>1, <3>2 DEF Sent, Answered
    <3>4. QED
      BY <2>1, <3>1, <3>2, <3>3 DEF OnePlace
  <2>4. QED
    BY <2>1, <2>2, <2>3 DEF AbsorbInv, NoUnmatched
<1>3. ASSUME NEW c \in Calls, BackendAnswers(c)
      PROVE  AbsorbInv'
  <2>1. /\ running /\ c \in answering /\ answering' = answering \ {c}
        /\ stdout' = Append(stdout, Response(c))
        /\ UNCHANGED <<pc, pending, discarded, closed, stdin, running, strays, events>>
    BY <1>3 DEF BackendAnswers
  <2>2. EndOfProcess' /\ (events \in Seq(Events))'
    BY <2>1 DEF AbsorbInv, EndOfProcess
  <2>3. ASSUME strays = 0
        PROVE  OnePlace'
    <3>1. OnePlace
      BY <2>3 DEF AbsorbInv
    <3>2. ~Answered(c) /\ ~Sent(c)
      BY <2>1, <3>1 DEF OnePlace
    <3>3. \A d \in Calls : (Sent(d)' <=> Sent(d)) /\ (Answered(d)' => Answered(d) \/ d = c)
      BY <1>0, <2>1, KindsDiffer DEF Sent, Answered
    <3>4. \A d \in Calls, i, j \in 1 .. Len(stdout') :
             stdout'[i] = Response(d) /\ stdout'[j] = Response(d) => i = j
      BY <1>0, <2>1, <3>1, <3>2, KindsDiffer DEF OnePlace, Answered
    <3>5. QED
      BY <2>1, <3>1, <3>2, <3>3, <3>4 DEF OnePlace
  <2>4. QED
    BY <2>1, <2>2, <2>3 DEF AbsorbInv, NoUnmatched
<1>4. ASSUME NEW c \in Calls, BackendRepeats(c)
      PROVE  AbsorbInv'
  <2>1. strays \in Nat /\ strays' = strays + 1
    BY <1>4, ChannelAssumption DEF BackendRepeats, ChannelInv, ChannelTypeOK
  <2>2. EndOfProcess' /\ (events \in Seq(Events))'
    BY <1>4 DEF BackendRepeats, AbsorbInv, EndOfProcess
  <2>3. QED
    BY <2>1, <2>2 DEF AbsorbInv
<1>5. CASE BackendExits
  <2>1. /\ stdin' = <<>> /\ answering' = {} /\ ~running'
        /\ UNCHANGED <<pc, pending, discarded, closed, strays, stdout, events>>
    BY <1>5 DEF BackendExits
  <2>2. \A d \in Calls : ~Sent(d)' /\ (Answered(d)' <=> Answered(d))
    BY <2>1 DEF Sent, Answered
  <2>3. QED
    BY <2>1, <2>2 DEF AbsorbInv, EndOfProcess, OnePlace, NoUnmatched
<1>6. QED
  BY <1>1, <1>2, <1>3, <1>4, <1>5 DEF BackendStep


(* The reader finds the id of a response in the map or among the           *)
(* tombstones; its line was the only place of the request.                 *)
LEMMA ReaderAbsorbs ==
    ASSUME ChannelInv, AbsorbInv, ReaderStep
    PROVE  AbsorbInv'
<1> USE DEF callerVars, mapVars, backendVars
<1>0. stdout \in Seq(OutputLines) /\ events \in Seq(Events)
  BY DEF ChannelInv, PipesOK, AbsorbInv
<1>1. stdout # <<>> =>
        /\ Head(stdout) \in OutputLines /\ Head(stdout) = stdout[1] /\ 1 \in 1 .. Len(stdout)
        /\ \A i \in 1 .. Len(Tail(stdout)) :
               Tail(stdout)[i] = stdout[i + 1] /\ i + 1 \in 1 .. Len(stdout)
  BY <1>0
<1>2. CASE ReadResponse
  <2>1. /\ stdout # <<>> /\ stdout' = Tail(stdout)
        /\ UNCHANGED <<pc, closed, stdin, running, answering, strays>>
    BY <1>2 DEF ReadResponse, NextLineIs
  <2>2. PICK c \in Calls : c = Head(stdout).call /\ stdout[1] = Response(c)
    BY <1>1, <1>2 DEF ReadResponse, NextLineIs, OutputLines, Response
  <2>3. Unmatched(c) \in Events
    BY DEF Unmatched, Events
  <2>4. events' \in Seq(Events)
    <3>1. events' = events \/ events' = Append(events, Unmatched(c))
      BY <1>2, <2>2 DEF ReadResponse
    <3>2. CASE events' = Append(events, Unmatched(c))
      BY <1>0, <2>3, <3>2
    <3>3. QED
      BY <1>0, <3>1, <3>2
  <2>5. EndOfProcess'
    BY <2>1 DEF AbsorbInv, EndOfProcess
  <2>6. ASSUME strays = 0
        PROVE  OnePlace' /\ NoUnmatched'
    <3>1. OnePlace /\ NoUnmatched
      BY <2>6 DEF AbsorbInv
    <3>2. Answered(c)
      BY <1>1, <2>1, <2>2 DEF Answered
    <3>3. ~Sent(c) /\ c \notin answering /\ pc[c] # "registered" /\ c \in pending \cup discarded
      BY <3>1, <3>2 DEF OnePlace
    <3>4. /\ events' = events
          /\ \A d \in Calls \ {c} : d \in pending \cup discarded => d \in pending' \cup discarded'
      BY <1>2, <2>2, <3>3 DEF ReadResponse
    <3>5. ~Answered(c)'
      <4>1. ASSUME NEW i \in 1 .. Len(stdout'), stdout'[i] = Response(c)
            PROVE  FALSE
        <5>1. stdout[i + 1] = Response(c) /\ i + 1 \in 1 .. Len(stdout)
          BY <1>1, <2>1, <4>1
        <5>2. i + 1 = 1
          BY <1>1, <2>1, <2>2, <3>1, <5>1 DEF OnePlace
        <5>3. QED
          BY <5>2
      <4>2. QED
        BY <4>1 DEF Answered
    <3>6. \A d \in Calls : (Sent(d)' <=> Sent(d)) /\ (Answered(d)' => Answered(d))
      BY <1>1, <2>1 DEF Sent, Answered
    <3>7. \A d \in Calls, i, j \in 1 .. Len(stdout') :
             stdout'[i] = Response(d) /\ stdout'[j] = Response(d) => i = j
      <4>1. SUFFICES ASSUME NEW d \in Calls, NEW i \in 1 .. Len(stdout'),
                            NEW j \in 1 .. Len(stdout'),
                            stdout'[i] = Response(d), stdout'[j] = Response(d)
                     PROVE  i = j
        OBVIOUS
      <4>2. i + 1 = j + 1
        BY <1>1, <2>1, <3>1, <4>1 DEF OnePlace
      <4>3. QED
        BY <4>2
    <3>8. NoUnmatched'
      BY <3>1, <3>4 DEF NoUnmatched
    <3>9. QED
      BY <2>1, <3>1, <3>3, <3>4, <3>5, <3>6, <3>7, <3>8 DEF OnePlace
  <2>7. QED
    BY <2>1, <2>4, <2>5, <2>6 DEF AbsorbInv
<1>3. CASE ReadProgress
  <2>1. /\ stdout # <<>> /\ stdout' = Tail(stdout) /\ Head(stdout).kind = "progress"
        /\ events' = Append(events, Head(stdout))
        /\ UNCHANGED <<pc, pending, discarded, closed, stdin, running, answering, strays>>
    BY <1>3 DEF ReadProgress, NextLineIs
  <2>2. Head(stdout) \in Events /\ \A d : Head(stdout) # Unmatched(d)
    BY <1>1, <2>1 DEF Events, Unmatched
  <2>3. EndOfProcess' /\ (events \in Seq(Events))'
    BY <1>0, <2>1, <2>2 DEF AbsorbInv, EndOfProcess
  <2>4. ASSUME strays = 0
        PROVE  OnePlace' /\ NoUnmatched'
    <3>1. OnePlace /\ NoUnmatched
      BY <2>4 DEF AbsorbInv
    <3>2. \A d \in Calls : (Sent(d)' <=> Sent(d)) /\ (Answered(d)' => Answered(d))
      BY <1>1, <2>1 DEF Sent, Answered
    <3>3. \A d \in Calls, i, j \in 1 .. Len(stdout') :
             stdout'[i] = Response(d) /\ stdout'[j] = Response(d) => i = j
      <4>1. SUFFICES ASSUME NEW d \in Calls, NEW i \in 1 .. Len(stdout'),
                            NEW j \in 1 .. Len(stdout'),
                            stdout'[i] = Response(d), stdout'[j] = Response(d)
                     PROVE  i = j
        OBVIOUS
      <4>2. i + 1 = j + 1
        BY <1>1, <2>1, <3>1, <4>1 DEF OnePlace
      <4>3. QED
        BY <4>2
    <3>4. NoUnmatched'
      BY <1>0, <2>1, <2>2, <3>1 DEF NoUnmatched
    <3>5. QED
      BY <2>1, <3>1, <3>2, <3>3, <3>4 DEF OnePlace
  <2>5. QED
    BY <2>1, <2>3, <2>4 DEF AbsorbInv
<1>4. CASE ReadEof
  <2>1. /\ ~running /\ stdout = <<>> /\ closed' /\ events' = Append(events, ProcessExit)
        /\ UNCHANGED <<pc, stdin, stdout, running, answering, strays>>
    BY <1>4 DEF ReadEof
  <2>2. ProcessExit \in Events /\ \A d : ProcessExit # Unmatched(d)
    BY KindsDiffer DEF Events, ProcessExit
  <2>3. stdin = <<>> /\ answering = {}
    BY <2>1 DEF AbsorbInv, EndOfProcess
  <2>4. \A d \in Calls : ~Sent(d)' /\ ~Answered(d)' /\ d \notin answering'
    BY <2>1, <2>3 DEF Sent, Answered
  <2>5. (events \in Seq(Events))' /\ (NoUnmatched => NoUnmatched')
    BY <1>0, <2>1, <2>2 DEF NoUnmatched
  <2>6. QED
    BY <2>1, <2>3, <2>4, <2>5 DEF AbsorbInv, EndOfProcess, OnePlace
<1>5. QED
  BY <1>2, <1>3, <1>4 DEF ReaderStep

LEMMA AbsorbStep == ChannelInv /\ AbsorbInv /\ [Next]_vars => AbsorbInv'
<1> SUFFICES ASSUME ChannelInv, AbsorbInv, [Next]_vars
             PROVE  AbsorbInv'
  OBVIOUS
<1>1. ASSUME NEW c \in Calls, Deliver(c)
      PROVE  AbsorbInv'
  BY <1>1, StillAbsorbs DEF Deliver, callerVars, mapVars, backendVars, readerVars
<1>2. CASE Consume
  <2>1. /\ events # <<>> /\ events' = Tail(events)
        /\ UNCHANGED <<pc, pending, discarded, closed, stdin, running, answering, strays, stdout>>
    BY <1>2 DEF Consume, callerVars, mapVars, backendVars
  <2>2. events \in Seq(Events)
    BY DEF AbsorbInv
  <2>3. events' \in Seq(Events) /\ (NoUnmatched => NoUnmatched')
    BY <2>1, <2>2 DEF NoUnmatched
  <2>4. QED
    BY <2>1, <2>3 DEF AbsorbInv, EndOfProcess, OnePlace, Sent, Answered
<1>3. CASE UNCHANGED vars
  BY <1>3, StillAbsorbs DEF vars
<1>4. QED
  BY <1>1, <1>2, <1>3, CallAbsorbs, CancelAbsorbs, BackendAbsorbs, ReaderAbsorbs DEF Next

(* However many requests were cancelled or timed out before, a backend     *)
(* that answers each request at most once never has its answer handed to   *)
(* every session as one nobody waits for.                                  *)
THEOREM LateAnswersAbsorbed == Spec => []LateAnswerAbsorbed
<1>1. AbsorbInv => LateAnswerAbsorbed
  BY DEF AbsorbInv, NoUnmatched, LateAnswerAbsorbed, ToSet
<1>2. Spec => []AbsorbInv
  BY AbsorbInit, AbsorbStep, ChannelInvariant, PTL DEF Spec
<1>3. QED
  BY <1>1, <1>2, PTL

-----------------------------------------------------------------------------
(* Progress and answers.  The backend sends the progress of a request      *)
(* before its answer, the reader collects the acknowledgements in between, *)
(* and the delivery task holds the answer until they have come in.         *)

ProgressNumbers == 1 .. MaxProgress

Taken(c) == awaits[c] # NotTaken \/ reply[c] = "answer"
Begun(c) == pc[c] \notin {"idle", "registered"}
Alone(c) == \A d \in Calls \ {c} : pc[d] = "idle"
SentOnce(c) ==
    \A i, j \in 1 .. Len(stdin) : stdin[i] = Request(c) /\ stdin[j] = Request(c) => i = j
ProgressFirst(c) ==
    \A i, j \in 1 .. Len(stdout), n \in ProgressNumbers :
        stdout[i] = Response(c) /\ stdout[j] = Progress(c, n) => j < i
Emits(c) == \E i \in 1 .. Len(stdout), n \in ProgressNumbers : stdout[i] = Progress(c, n)
Queued(c, n) == \E i \in 1 .. Len(events) : events[i] = Progress(c, n)

(* Where a request has come: it is read once, and answered after that; its *)
(* progress is neither behind its answer nor older than the request.       *)
InTurn(c) ==
    /\ Sent(c) \/ c \in answering \/ Answered(c) \/ Taken(c) \/ Emits(c) => Begun(c)
    /\ \A n \in ProgressNumbers : Queued(c, n) => Begun(c)
    /\ SentOnce(c) /\ ProgressFirst(c)
    /\ Sent(c) => c \notin answering
    /\ Answered(c) \/ Taken(c) => ~Sent(c) /\ c \notin answering
    /\ Taken(c) => ~Emits(c)

(* Who waits for the progress in the queue, when no other call takes the   *)
(* acknowledgements: the reader, then the delivery task, then nobody.      *)
Held(c) ==
    Alone(c) => \A n \in ProgressNumbers : Queued(c, n) =>
        /\ c \in pending => n \in acks
        /\ awaits[c] # NotTaken => n \in awaits[c]
        /\ reply[c] # "answer"

OrderInv == \A c \in Calls : InTurn(c) /\ Held(c)

LEMMA OrderInit == Init => OrderInv
BY DEF Init, OrderInv, InTurn, Held, Sent, Answered, Taken, Begun, Emits, Queued,
       SentOnce, ProgressFirst

(* A step that leaves the output of the backend and the events alone, and  *)
(* writes no request.                                                      *)
LEMMA StillInOrder ==
    ASSUME ChannelInv, OrderInv, UNCHANGED <<answering, stdout, acks, events>>,
           stdin' = stdin \/ \E c \in Calls : stdin' = Append(stdin, CancelLine(c)),
           \A c \in Calls : Begun(c) => Begun(c)',
           \A c \in Calls : pc'[c] = "idle" => pc[c] = "idle",
           \A c \in Calls : c \in pending' => c \in pending \/ ~Begun(c),
           \A c \in Calls : awaits'[c] = awaits[c] \/ awaits'[c] = NotTaken,
           \A c \in Calls : reply'[c] = "answer" => reply[c] = "answer"
    PROVE  OrderInv'
<1>1. stdin \in Seq(InputLines)
  BY DEF ChannelInv, PipesOK
<1>2. \A d \in Calls, i \in 1 .. Len(stdin') : stdin'[i] = Request(d) =>
          i \in 1 .. Len(stdin) /\ stdin[i] = Request(d)
  BY <1>1, KindsDiffer
<1>3. \A d \in Calls : (Sent(d)' => Sent(d)) /\ (SentOnce(d) => SentOnce(d)')
  BY <1>2 DEF Sent, SentOnce
<1>4. \A d \in Calls : /\ Answered(d)' <=> Answered(d)
                       /\ Emits(d)' <=> Emits(d)
                       /\ ProgressFirst(d)' <=> ProgressFirst(d)
  BY DEF Answered, Emits, ProgressFirst
<1>5. \A d \in Calls, n \in ProgressNumbers : Queued(d, n)' <=> Queued(d, n)
  BY DEF Queued
<1>6. \A d \in Calls : (Taken(d)' => Taken(d)) /\ (Alone(d)' => Alone(d))
  BY DEF Taken, Alone
<1>7. \A d \in Calls : InTurn(d)'
  BY <1>3, <1>4, <1>5, <1>6 DEF OrderInv, InTurn
<1>8. \A d \in Calls : Held(d)'
  BY <1>5, <1>6 DEF OrderInv, InTurn, Held
<1>9. QED
  BY <1>7, <1>8 DEF OrderInv

LEMMA CallInOrder ==
    ASSUME ChannelInv, OrderInv, NEW c \in Calls, CallStep(c)
    PROVE  OrderInv'
<1> USE DEF Goto, backendVars, readerVars, mapVars
<1>0. /\ pc \in [Calls -> CallerLabels]
      /\ stdin \in Seq(InputLines)
  BY DEF ChannelInv, ChannelTypeOK, PipesOK
<1>1. CASE \/ Register(c) \/ WriteError(c) \/ Receive(c) \/ Expire(c) \/ MarkExpired(c)
           \/ Classify(c) \/ WriteExpired(c)
  <2>1. /\ UNCHANGED <<answering, stdout, acks, events, awaits, reply>>
        /\ stdin' = stdin \/ stdin' = Append(stdin, CancelLine(c))
    BY <1>1 DEF Register, WriteError, Receive, Expire, MarkExpired, Classify, WriteExpired,
                WriteLine
  <2>2. \A d \in Calls : /\ Begun(d) => Begun(d)'
                         /\ pc'[d] = "idle" => pc[d] = "idle"
                         /\ d \in pending' => d \in pending \/ ~Begun(d)
    BY <1>0, <1>1 DEF Register, WriteError, Receive, Expire, MarkExpired, Classify,
                      WriteExpired, Begun
  <2>3. QED
    BY <2>1, <2>2, StillInOrder
<1>2. CASE Write(c)
  <2>1. /\ stdin' = Append(stdin, Request(c))
        /\ pc[c] = "registered" /\ pc' = [pc EXCEPT ![c] = "waiting"]
        /\ UNCHANGED <<pending, answering, stdout, acks, events, awaits, reply>>
    BY <1>2 DEF Write, WriteLine
  <2>2. ~Begun(c) /\ Begun(c)' /\ \A d \in Calls : Begun(d) => Begun(d)'
    BY <1>0, <2>1 DEF Begun
  <2>3. ~Sent(c) /\ c \notin answering /\ ~Answered(c) /\ ~Taken(c) /\ ~Emits(c)
    BY <2>2 DEF OrderInv, InTurn
  <2>4. \A d \in Calls : /\ Sent(d)' <=> Sent(d) \/ d = c
                         /\ SentOnce(d) => SentOnce(d)'
    BY <1>0, <2>1, <2>3, KindsDiffer DEF Sent, SentOnce
  <2>5. \A d \in Calls : /\ Answered(d)' <=> Answered(d)
                         /\ Emits(d)' <=> Emits(d)
                         /\ ProgressFirst(d)' <=> ProgressFirst(d)
                         /\ Taken(d)' <=> Taken(d)
    BY <2>1 DEF Answered, Emits, ProgressFirst, Taken
  <2>6. \A d \in Calls : /\ Alone(d)' => Alone(d)
                         /\ \A n \in ProgressNumbers : Queued(d, n)' <=> Queued(d, n)
    BY <1>0, <2>1 DEF Alone, Queued
  <2>7. \A d \in Calls : InTurn(d)'
    BY <2>1, <2>2, <2>3, <2>4, <2>5, <2>6 DEF OrderInv, InTurn
  <2>8. \A d \in Calls : Held(d)'
    BY <2>1, <2>6 DEF OrderInv, Held
  <2>9. QED
    BY <2>7, <2>8 DEF OrderInv
<1>3. QED
  BY <1>1, <1>2 DEF CallStep

LEMMA CancelInOrder ==
    ASSUME ChannelInv, OrderInv, NEW c \in Calls, CancelStep(c)
    PROVE  OrderInv'
<1>1. reply \in [Calls -> {"none", "answer", "dropped"}]
  BY DEF ChannelInv, ChannelTypeOK
<1>2. UNCHANGED <<pc, awaits, answering, stdout, acks, events>>
  BY DEF CancelStep, ClientCancel, WriteCancel, BackendCancel, backendVars, readerVars
<1>3. stdin' = stdin \/ stdin' = Append(stdin, CancelLine(c))
  BY DEF CancelStep, ClientCancel, WriteCancel, BackendCancel, WriteLine, backendVars
<1>4. pending' \subseteq pending /\ \A d \in Calls : reply'[d] = "answer" => reply[d] = "answer"
  BY <1>1 DEF CancelStep, ClientCancel, WriteCancel, BackendCancel, TakeSender, mapVars
<1>5. \A d \in Calls : Begun(d) => Begun(d)'
  BY <1>2 DEF Begun
<1>6. QED
  BY <1>2, <1>3, <1>4, <1>5, StillInOrder

(* What the backend writes, it writes behind everything else.              *)
LEMMA BackendWritesResponse ==
    ASSUME ChannelInv, NEW c \in Calls, stdout' = Append(stdout, Response(c))
    PROVE  \A d \in Calls : /\ Answered(d)' <=> Answered(d) \/ d = c
                            /\ Emits(d)' <=> Emits(d)
                            /\ ProgressFirst(d) => ProgressFirst(d)'
<1>1. stdout \in Seq(OutputLines)
  BY DEF ChannelInv, PipesOK
<1>2. /\ Len(stdout') = Len(stdout) + 1 /\ Len(stdout) \in Nat
      /\ stdout'[Len(stdout) + 1] = Response(c)
      /\ \A i \in 1 .. Len(stdout) : stdout'[i] = stdout[i] /\ i \in 1 .. Len(stdout')
      /\ \A i \in 1 .. Len(stdout') : i \in 1 .. Len(stdout) \/ i = Len(stdout) + 1
  BY <1>1
<1>3. QED
  BY <1>2, KindsDiffer DEF Answered, Emits, ProgressFirst

LEMMA BackendWritesProgress ==
    ASSUME ChannelInv, NEW c \in Calls, NEW m \in ProgressNumbers, ~Answered(c),
           stdout' = Append(stdout, Progress(c, m))
    PROVE  \A d \in Calls : /\ Answered(d)' <=> Answered(d)
                            /\ Emits(d)' <=> Emits(d) \/ d = c
                            /\ ProgressFirst(d) => ProgressFirst(d)'
<1>1. stdout \in Seq(OutputLines)
  BY DEF ChannelInv, PipesOK
<1>2. /\ Len(stdout') = Len(stdout) + 1 /\ Len(stdout) \in Nat
      /\ stdout'[Len(stdout) + 1] = Progress(c, m)
      /\ \A i \in 1 .. Len(stdout) : stdout'[i] = stdout[i] /\ i \in 1 .. Len(stdout')
      /\ \A i \in 1 .. Len(stdout') : i \in 1 .. Len(stdout) \/ i = Len(stdout) + 1
  BY <1>1
<1>3. \A d \in Calls : Answered(d)' <=> Answered(d)
  BY <1>2, KindsDiffer DEF Answered
<1>4. \A d \in Calls : Emits(d)' <=> Emits(d) \/ d = c
  BY <1>2, KindsDiffer DEF Emits
<1>5. ASSUME NEW d \in Calls, ProgressFirst(d)
      PROVE  ProgressFirst(d)'
  <2>1. SUFFICES ASSUME NEW i \in 1 .. Len(stdout'), NEW j \in 1 .. Len(stdout'),
                        NEW n \in ProgressNumbers,
                        stdout'[i] = Response(d), stdout'[j] = Progress(d, n)
                 PROVE  j < i
    BY DEF ProgressFirst
  <2>2. i \in 1 .. Len(stdout) /\ stdout[i] = Response(d)
    BY <1>2, <2>1, KindsDiffer
  <2>3. d # c
    BY <2>2 DEF Answered
  <2>4. j \in 1 .. Len(stdout) /\ stdout[j] = Progress(d, n)
    BY <1>2, <2>1, <2>3, KindsDiffer
  <2>5. QED
    BY <1>5, <2>2, <2>4 DEF ProgressFirst
<1>6. QED
  BY <1>3, <1>4, <1>5

LEMMA BackendInOrder ==
    ASSUME ChannelInv, OrderInv, BackendStep
    PROVE  OrderInv'
<1> USE DEF callerVars, mapVars, readerVars
<1>0. stdin \in Seq(InputLines) /\ emitted \in 0 .. MaxProgress
  BY DEF ChannelInv, ChannelTypeOK, PipesOK
<1>1. UNCHANGED <<pc, pending, awaits, reply, acks, events>>
  BY DEF BackendStep, BackendReads, BackendProgress, BackendAnswers, BackendRepeats, BackendExits
<1>2. \A d \in Calls : /\ Taken(d)' <=> Taken(d)
                       /\ Begun(d)' <=> Begun(d)
                       /\ Alone(d)' <=> Alone(d)
                       /\ \A n \in ProgressNumbers : Queued(d, n)' <=> Queued(d, n)
  BY <1>1 DEF Taken, Begun, Alone, Queued
<1>3. \A d \in Calls : Held(d)'
  BY <1>1, <1>2 DEF OrderInv, Held
<1>4. CASE BackendReads
  <2>1. stdin # <<>> /\ stdin' = Tail(stdin) /\ stdout' = stdout
    BY <1>4 DEF BackendReads
  <2>2. /\ \A i \in 1 .. Len(stdin') : stdin'[i] = stdin[i + 1] /\ i + 1 \in 1 .. Len(stdin)
        /\ \A i, j \in 1 .. Len(stdin') : i + 1 = j + 1 => i = j
        /\ \A i \in 1 .. Len(stdin') : i + 1 # 1
        /\ Head(stdin) \in InputLines /\ Head(stdin) = stdin[1] /\ 1 \in 1 .. Len(stdin)
    BY <1>0, <2>1
  <2>3. \A d \in Calls : (Sent(d)' => Sent(d)) /\ (SentOnce(d) => SentOnce(d)')
    <3>1. \A d \in Calls : Sent(d)' => Sent(d)
      BY <2>2 DEF Sent
    <3>2. ASSUME NEW d \in Calls, SentOnce(d), NEW i \in 1 .. Len(stdin'),
                 NEW j \in 1 .. Len(stdin'), stdin'[i] = Request(d), stdin'[j] = Request(d)
          PROVE  i = j
      <4>1. i + 1 = j + 1
        BY <2>2, <3>2 DEF SentOnce
      <4>2. QED
        BY <2>2, <4>1
    <3>3. QED
      BY <3>1, <3>2 DEF SentOnce
  <2>4. \A d \in Calls : d \in answering' => d \in answering \/ (Sent(d) /\ ~Sent(d)')
    <3>1. SUFFICES ASSUME NEW d \in Calls, d \in answering', d \notin answering
                   PROVE  Sent(d) /\ ~Sent(d)'
      OBVIOUS
    <3>2. Head(stdin).kind = "request" /\ d = Head(stdin).call
      BY <1>4, <3>1 DEF BackendReads
    <3>3. stdin[1] = Request(d)
      BY <2>2, <3>2 DEF InputLines, Request
    <3>4. SentOnce(d)
      BY DEF OrderInv, InTurn
    <3>5. QED
      BY <2>2, <3>3, <3>4 DEF SentOnce, Sent
  <2>5. \A d \in Calls : /\ Answered(d)' <=> Answered(d)
                         /\ Emits(d)' <=> Emits(d)
                         /\ ProgressFirst(d)' <=> ProgressFirst(d)
    BY <2>1 DEF Answered, Emits, ProgressFirst
  <2>6. QED
    BY <1>2, <1>3, <2>3, <2>4, <2>5 DEF OrderInv, InTurn
<1>5. ASSUME NEW c \in Calls, BackendProgress(c)
      PROVE  OrderInv'
  <2>1. c \in answering /\ emitted < MaxProgress /\ UNCHANGED <<stdin, answering>>
        /\ stdout' = Append(stdout, Progress(c, emitted + 1))
    BY <1>5 DEF BackendProgress
  <2>2. emitted + 1 \in ProgressNumbers
    BY <1>0, <2>1, ChannelAssumption DEF ProgressNumbers
  <2>3. ~Answered(c) /\ ~Taken(c) /\ Begun(c)
    BY <2>1 DEF OrderInv, InTurn
  <2>4. \A d \in Calls : /\ Answered(d)' <=> Answered(d)
                         /\ Emits(d)' <=> Emits(d) \/ d = c
                         /\ ProgressFirst(d) => ProgressFirst(d)'
    BY <2>1, <2>2, <2>3, BackendWritesProgress
  <2>5. \A d \in Calls : (Sent(d)' <=> Sent(d)) /\ (SentOnce(d)' <=> SentOnce(d))
    BY <2>1 DEF Sent, SentOnce
  <2>6. QED
    BY <1>2, <1>3, <2>1, <2>3, <2>4, <2>5 DEF OrderInv, InTurn
<1>6. ASSUME NEW c \in Calls, BackendAnswers(c) \/ BackendRepeats(c)
      PROVE  OrderInv'
  <2>1. /\ stdin' = stdin /\ answering' = answering \ {c}
        /\ stdout' = Append(stdout, Response(c))
    BY <1>6 DEF BackendAnswers, BackendRepeats
  <2>2. ~Sent(c) /\ Begun(c)
    BY <1>6 DEF OrderInv, InTurn, BackendAnswers, BackendRepeats, Sent, Begun, ToSet
  <2>3. \A d \in Calls : /\ Answered(d)' <=> Answered(d) \/ d = c
                         /\ Emits(d)' <=> Emits(d)
                         /\ ProgressFirst(d) => ProgressFirst(d)'
    BY <2>1, BackendWritesResponse
  <2>4. \A d \in Calls : (Sent(d)' <=> Sent(d)) /\ (SentOnce(d)' <=> SentOnce(d))
    BY <2>1 DEF Sent, SentOnce
  <2>5. QED
    BY <1>2, <1>3, <2>1, <2>2, <2>3, <2>4 DEF OrderInv, InTurn
<1>7. CASE BackendExits
  <2>1. stdin' = <<>> /\ answering' = {} /\ stdout' = stdout
    BY <1>7 DEF BackendExits
  <2>2. \A d \in Calls : ~Sent(d)' /\ SentOnce(d)'
    BY <2>1 DEF Sent, SentOnce
  <2>3. \A d \in Calls : /\ Answered(d)' <=> Answered(d)
                         /\ Emits(d)' <=> Emits(d)
                         /\ ProgressFirst(d)' <=> ProgressFirst(d)
    BY <2>1 DEF Answered, Emits, ProgressFirst
  <2>4. QED
    BY <1>2, <1>3, <2>1, <2>2, <2>3 DEF OrderInv, InTurn
<1>8. QED
  BY <1>4, <1>5, <1>6, <1>7 DEF BackendStep

LEMMA ReaderTakesLine ==
    ASSUME ChannelInv, stdout # <<>>, stdout' = Tail(stdout)
    PROVE  /\ Head(stdout) \in OutputLines /\ Head(stdout) = stdout[1] /\ 1 \in 1 .. Len(stdout)
           /\ \A d \in Calls : /\ Answered(d)' => Answered(d)
                               /\ Emits(d)' => Emits(d)
                               /\ ProgressFirst(d) => ProgressFirst(d)'
<1>1. stdout \in Seq(OutputLines)
  BY DEF ChannelInv, PipesOK
<1>2. /\ Head(stdout) \in OutputLines /\ Head(stdout) = stdout[1] /\ 1 \in 1 .. Len(stdout)
      /\ \A i \in 1 .. Len(stdout') : stdout'[i] = stdout[i + 1] /\ i + 1 \in 1 .. Len(stdout)
  BY <1>1
<1>3. \A d \in Calls : Answered(d)' => Answered(d)
  BY <1>2 DEF Answered
<1>4. \A d \in Calls : Emits(d)' => Emits(d)
  BY <1>2 DEF Emits
<1>5. ASSUME NEW d \in Calls, ProgressFirst(d)
      PROVE  ProgressFirst(d)'
  <2>1. SUFFICES ASSUME NEW i \in 1 .. Len(stdout'), NEW j \in 1 .. Len(stdout'),
                        NEW n \in ProgressNumbers,
                        stdout'[i] = Response(d), stdout'[j] = Progress(d, n)
                 PROVE  j < i
    BY DEF ProgressFirst
  <2>2. j + 1 < i + 1
    BY <1>2, <1>5, <2>1 DEF ProgressFirst
  <2>3. QED
    BY <2>2
<1>6. QED
  BY <1>2, <1>3, <1>4, <1>5

LEMMA ResponseInOrder ==
    ASSUME ChannelInv, AbsorbInv, OrderInv, ReadResponse
    PROVE  OrderInv'
<1> USE DEF callerVars, backendVars
<1>1. /\ stdout # <<>> /\ stdout' = Tail(stdout)
      /\ UNCHANGED <<pc, stdin, answering, reply>>
  BY DEF ReadResponse, NextLineIs
<1>2. PICK c \in Calls : c = Head(stdout).call /\ stdout[1] = Response(c)
  BY <1>1, ReaderTakesLine DEF ReadResponse, NextLineIs, OutputLines, Response
<1>3. \A d \in Calls : /\ Answered(d)' => Answered(d)
                       /\ Emits(d)' => Emits(d)
                       /\ ProgressFirst(d) => ProgressFirst(d)'
  BY <1>1, ReaderTakesLine
<1>4. Answered(c) /\ ~Emits(c) /\ Begun(c)
  <2>1. Answered(c) /\ 1 \in 1 .. Len(stdout)
    BY <1>1, <1>2, ReaderTakesLine DEF Answered
  <2>2. Begun(c) /\ ProgressFirst(c)
    BY <2>1 DEF OrderInv, InTurn
  <2>3. \A j \in 1 .. Len(stdout) : ~ (j < 1)
    OBVIOUS
  <2>4. QED
    BY <1>2, <2>1, <2>2, <2>3 DEF ProgressFirst, Emits
<1>5. \A d \in Calls : /\ (Sent(d)' <=> Sent(d)) /\ (SentOnce(d)' <=> SentOnce(d))
                       /\ (Begun(d)' <=> Begun(d)) /\ (Alone(d)' <=> Alone(d))
  BY <1>1 DEF Sent, SentOnce, Begun, Alone
<1>6. \A d \in Calls, n \in ProgressNumbers : Queued(d, n)' <=> Queued(d, n)
  <2>1. events' = events \/ events' = Append(events, Unmatched(c))
    BY <1>2 DEF ReadResponse
  <2>2. events \in Seq(Events)
    BY DEF AbsorbInv
  <2>3. CASE events' = Append(events, Unmatched(c))
    BY <2>2, <2>3, KindsDiffer DEF Queued
  <2>4. QED
    BY <2>1, <2>3 DEF Queued
<1>7. awaits \in [Calls -> SUBSET (0 .. MaxProgress)] /\ acks # NotTaken
  BY AcksAreTaken DEF ChannelInv, ChannelTypeOK
<1>8. \A d \in Calls : Taken(d)' => Taken(d) \/ d = c
  BY <1>1, <1>2, <1>7 DEF ReadResponse, DeliverAfterAcks, Taken
<1>9. \A d \in Calls : InTurn(d)'
  BY <1>1, <1>3, <1>4, <1>5, <1>6, <1>8 DEF OrderInv, InTurn
<1>10. \A d \in Calls \ {c} : Held(d)'
  BY <1>4, <1>5 DEF Held, Alone, Begun
<1>11. Held(c)'
  <2>1. c \notin pending' /\ (awaits'[c] = awaits[c] \/ (c \in pending /\ awaits'[c] = acks))
    BY <1>2, <1>7 DEF ReadResponse, DeliverAfterAcks
  <2>2. QED
    BY <1>1, <1>5, <1>6, <2>1 DEF OrderInv, Held
<1>12. QED
  BY <1>9, <1>10, <1>11 DEF OrderInv

LEMMA ReaderInOrder ==
    ASSUME ChannelInv, AbsorbInv, OrderInv, ReaderStep
    PROVE  OrderInv'
<1> USE DEF callerVars, mapVars, backendVars
<1>0. events \in Seq(Events)
  BY DEF AbsorbInv
<1>1. CASE ReadProgress
  <2>1. /\ stdout # <<>> /\ stdout' = Tail(stdout) /\ events' = Append(events, Head(stdout))
        /\ UNCHANGED <<pc, pending, stdin, answering, reply, awaits>>
    BY <1>1 DEF ReadProgress, NextLineIs
  <2>2. PICK c \in Calls, m \in ProgressNumbers :
            /\ stdout[1] = Progress(c, m) /\ Head(stdout) = Progress(c, m)
            /\ acks' = acks \cup {m}
    BY <1>1, <2>1, ReaderTakesLine
       DEF ReadProgress, NextLineIs, OutputLines, Progress, ProgressNumbers
  <2>3. \A d \in Calls : /\ Answered(d)' => Answered(d)
                         /\ Emits(d)' => Emits(d)
                         /\ ProgressFirst(d) => ProgressFirst(d)'
    BY <2>1, ReaderTakesLine
  <2>4. Emits(c)
    BY <2>1, <2>2, ReaderTakesLine DEF Emits
  <2>5. Begun(c) /\ ~Taken(c)
    BY <2>4 DEF OrderInv, InTurn
  <2>6. \A d \in Calls, n \in ProgressNumbers :
            Queued(d, n)' <=> Queued(d, n) \/ (d = c /\ n = m)
    BY <1>0, <2>1, <2>2, KindsDiffer DEF Queued
  <2>7. \A d \in Calls : /\ (Sent(d)' <=> Sent(d)) /\ (SentOnce(d)' <=> SentOnce(d))
                         /\ (Begun(d)' <=> Begun(d)) /\ (Alone(d)' <=> Alone(d))
                         /\ (Taken(d)' <=> Taken(d))
    BY <2>1 DEF Sent, SentOnce, Begun, Alone, Taken
  <2>8. \A d \in Calls : InTurn(d)'
    BY <2>1, <2>3, <2>5, <2>6, <2>7 DEF OrderInv, InTurn
  <2>9. \A d \in Calls : Held(d)'
    BY <2>1, <2>2, <2>5, <2>6, <2>7 DEF OrderInv, Held, Taken
  <2>10. QED
    BY <2>8, <2>9 DEF OrderInv
<1>2. CASE ReadEof
  <2>1. /\ pending' = {} /\ events' = Append(events, ProcessExit)
        /\ UNCHANGED <<pc, stdin, answering, stdout, acks, awaits>>
    BY <1>2 DEF ReadEof
  <2>2. \A d \in Calls : reply'[d] = "answer" => reply[d] = "answer"
    BY <1>2 DEF ReadEof
  <2>3. \A d \in Calls, n \in ProgressNumbers : Queued(d, n)' <=> Queued(d, n)
    BY <1>0, <2>1, KindsDiffer DEF Queued
  <2>4. \A d \in Calls : /\ (Sent(d)' <=> Sent(d)) /\ (SentOnce(d)' <=> SentOnce(d))
                         /\ (Begun(d)' <=> Begun(d)) /\ (Alone(d)' <=> Alone(d))
                         /\ (Taken(d)' => Taken(d))
    BY <2>1, <2>2 DEF Sent, SentOnce, Begun, Alone, Taken
  <2>5. \A d \in Calls : /\ Answered(d)' <=> Answered(d)
                         /\ Emits(d)' <=> Emits(d)
                         /\ ProgressFirst(d)' <=> ProgressFirst(d)
    BY <2>1 DEF Answered, Emits, ProgressFirst
  <2>6. \A d \in Calls : InTurn(d)'
    BY <2>1, <2>3, <2>4, <2>5 DEF OrderInv, InTurn
  <2>7. \A d \in Calls : Held(d)'
    BY <2>1, <2>2, <2>3, <2>4 DEF OrderInv, Held
  <2>8. QED
    BY <2>6, <2>7 DEF OrderInv
<1>3. QED
  BY <1>1, <1>2, ResponseInOrder DEF ReaderStep

(* A delivery waits until the queue holds none of the progress it awaits.  *)
LEMMA DeliverInOrder ==
    ASSUME ChannelInv, AbsorbInv, OrderInv, NEW c \in Calls, Deliver(c)
    PROVE  OrderInv'
<1>1. /\ awaits[c] # NotTaken /\ awaits[c] \cap Unacknowledged = {}
      /\ awaits' = [awaits EXCEPT ![c] = NotTaken] /\ reply' = [reply EXCEPT ![c] = "answer"]
      /\ UNCHANGED <<pc, pending, stdin, answering, stdout, acks, events>>
  BY DEF Deliver, callerVars, mapVars, backendVars, readerVars
<1>2. /\ awaits \in [Calls -> SUBSET (0 .. MaxProgress)]
      /\ reply \in [Calls -> {"none", "answer", "dropped"}]
      /\ events \in Seq(Events)
  BY DEF ChannelInv, ChannelTypeOK, AbsorbInv
<1>3. \A n \in ProgressNumbers : Queued(c, n) => n \in Unacknowledged
  <2>1. SUFFICES ASSUME NEW n \in ProgressNumbers, NEW i \in 1 .. Len(events),
                        events[i] = Progress(c, n)
                 PROVE  n \in Unacknowledged
    BY DEF Queued
  <2>2. events[i] \in ToSet(events) /\ events[i].kind = "progress" /\ events[i].number = n
    BY <1>2, <2>1 DEF ToSet, Progress
  <2>3. QED
    BY <2>2 DEF Unacknowledged
<1>4. \A d \in Calls : /\ (Sent(d)' <=> Sent(d)) /\ (SentOnce(d)' <=> SentOnce(d))
                       /\ (Begun(d)' <=> Begun(d)) /\ (Alone(d)' <=> Alone(d))
                       /\ (Taken(d)' => Taken(d))
                       /\ \A n \in ProgressNumbers : Queued(d, n)' <=> Queued(d, n)
  BY <1>1, <1>2 DEF Sent, SentOnce, Begun, Alone, Taken, Queued
<1>5. \A d \in Calls : /\ Answered(d)' <=> Answered(d)
                       /\ Emits(d)' <=> Emits(d)
                       /\ ProgressFirst(d)' <=> ProgressFirst(d)
  BY <1>1 DEF Answered, Emits, ProgressFirst
<1>6. \A d \in Calls : InTurn(d)'
  BY <1>1, <1>4, <1>5 DEF OrderInv, InTurn
<1>7. \A d \in Calls \ {c} : awaits'[d] = awaits[d] /\ reply'[d] = reply[d]
  BY <1>1, <1>2
<1>8. \A d \in Calls \ {c} : Held(d)'
  BY <1>1, <1>4, <1>7 DEF OrderInv, Held
<1>9. Held(c)'
  BY <1>1, <1>3, <1>4 DEF OrderInv, Held
<1>10. QED
  BY <1>6, <1>8, <1>9 DEF OrderInv

LEMMA OrderStep == ChannelInv /\ AbsorbInv /\ OrderInv /\ [Next]_vars => OrderInv'
<1> SUFFICES ASSUME ChannelInv, AbsorbInv, OrderInv, [Next]_vars
             PROVE  OrderInv'
  OBVIOUS
<1>1. CASE Consume
  <2>1. /\ events # <<>> /\ events' = Tail(events)
        /\ UNCHANGED <<pc, pending, stdin, answering, stdout, acks, awaits, reply>>
    BY <1>1 DEF Consume, callerVars, mapVars, backendVars
  <2>2. events \in Seq(Events)
    BY DEF AbsorbInv
  <2>3. \A d \in Calls, n \in ProgressNumbers : Queued(d, n)' => Queued(d, n)
    <3>1. \A i \in 1 .. Len(events') : events'[i] = events[i + 1] /\ i + 1 \in 1 .. Len(events)
      BY <2>1, <2>2
    <3>2. QED
      BY <3>1 DEF Queued
  <2>4. \A d \in Calls : /\ (Sent(d)' <=> Sent(d)) /\ (SentOnce(d)' <=> SentOnce(d))
                         /\ (Begun(d)' <=> Begun(d)) /\ (Alone(d)' <=> Alone(d))
                         /\ (Taken(d)' <=> Taken(d))
    BY <2>1 DEF Sent, SentOnce, Begun, Alone, Taken
  <2>5. \A d \in Calls : /\ Answered(d)' <=> Answered(d)
                         /\ Emits(d)' <=> Emits(d)
                         /\ ProgressFirst(d)' <=> ProgressFirst(d)
    BY <2>1 DEF Answered, Emits, ProgressFirst
  <2>6. \A d \in Calls : InTurn(d)'
    BY <2>1, <2>3, <2>4, <2>5 DEF OrderInv, InTurn
  <2>7. \A d \in Calls : Held(d)'
    BY <2>1, <2>3, <2>4 DEF OrderInv, Held
  <2>8. QED
    BY <2>6, <2>7 DEF OrderInv
<1>2. CASE UNCHANGED vars
  BY <1>2, StillInOrder DEF vars, Begun
<1>3. QED
  BY <1>1, <1>2, CallInOrder, CancelInOrder, BackendInOrder, ReaderInOrder, DeliverInOrder
     DEF Next

(* A caller whose request is alone at the backend has its answer only once *)
(* everything the request reported has been consumed, however many answers *)
(* the backend repeats and whatever was cancelled or timed out.            *)
THEOREM AnswersFollowProgress == Spec => []ProgressBeforeAnswer
<1>1. AbsorbInv /\ OrderInv => ProgressBeforeAnswer
  <2> SUFFICES ASSUME AbsorbInv, OrderInv, NEW c \in Calls, NEW n \in 1 .. MaxProgress,
                      Alone(c), reply[c] = "answer", Progress(c, n) \in ToSet(events)
               PROVE  FALSE
    BY DEF ProgressBeforeAnswer, Alone
  <2>1. Queued(c, n)
    BY DEF Queued, ToSet
  <2>2. QED
    BY <2>1 DEF OrderInv, Held, ProgressNumbers
<1>2. Spec => []AbsorbInv
  BY AbsorbInit, AbsorbStep, ChannelInvariant, PTL DEF Spec
<1>3. Spec => []OrderInv
  BY <1>2, OrderInit, OrderStep, ChannelInvariant, PTL DEF Spec
<1>4. QED
  BY <1>1, <1>2, <1>3, PTL

-----------------------------------------------------------------------------
(* The channel implements ChannelService.  A response that was taken is    *)
(* for a caller that has heard nothing yet, and a caller that still waits  *)
(* under a tombstone has lost its sender.                                  *)

ServedOnce ==
    \A c \in Calls :
        /\ awaits[c] # NotTaken => reply[c] = "none"
        /\ c \in discarded /\ pc[c] \in {"registered", "waiting"} => reply[c] = "dropped"

LEMMA ServedInit == Init => ServedOnce
BY DEF Init, ServedOnce

LEMMA ServedStep == ChannelInv /\ ServedOnce /\ [Next]_vars => ServedOnce'
<1> SUFFICES ASSUME ChannelInv, ServedOnce, [Next]_vars
             PROVE  ServedOnce'
  OBVIOUS
<1> USE DEF ServedOnce
<1>0. /\ pc \in [Calls -> CallerLabels]
      /\ reply \in [Calls -> {"none", "answer", "dropped"}]
      /\ awaits \in [Calls -> SUBSET (0 .. MaxProgress)]
      /\ stdout \in Seq(OutputLines)
  BY DEF ChannelInv, ChannelTypeOK, PipesOK
<1>1. \A c \in Calls : c \in pending \/ pc[c] = "idle" =>
          reply[c] = "none" /\ awaits[c] = NotTaken /\ (pc[c] = "idle" => c \notin discarded)
  BY DEF ChannelInv, PendingFresh
<1>2. ASSUME NEW c \in Calls, CallStep(c)
      PROVE  ServedOnce'
  <2>1. UNCHANGED <<reply, awaits>>
    BY <1>2 DEF CallStep, Register, Write, WriteError, Receive, Expire, MarkExpired,
                WriteExpired, Classify
  <2>2. \A d \in Calls : d \in discarded' /\ pc'[d] \in {"registered", "waiting"} =>
            d \in discarded /\ pc[d] \in {"registered", "waiting"}
    BY <1>0, <1>1, <1>2 DEF CallStep, Register, Write, WriteError, Receive, Expire, MarkExpired,
                WriteExpired, Classify, Goto, mapVars
  <2>3. QED
    BY <2>1, <2>2
<1>3. ASSUME NEW c \in Calls, CancelStep(c)
      PROVE  ServedOnce'
  <2>1. CASE WriteCancel(c)
    BY <2>1 DEF WriteCancel, mapVars
  <2>2. CASE ClientCancel(c) \/ BackendCancel(c)
    <3>1. /\ c \in pending /\ discarded' = discarded \cup {c}
          /\ reply' = [reply EXCEPT ![c] = "dropped"] /\ UNCHANGED <<pc, awaits>>
      BY <2>2 DEF ClientCancel, BackendCancel, TakeSender
    <3>2. QED
      BY <1>0, <1>1, <3>1
  <2>3. QED
    BY <1>3, <2>1, <2>2 DEF CancelStep
<1>4. ASSUME NEW c \in Calls, Deliver(c)
      PROVE  ServedOnce'
  <2>1. /\ awaits[c] # NotTaken /\ awaits' = [awaits EXCEPT ![c] = NotTaken]
        /\ reply' = [reply EXCEPT ![c] = "answer"] /\ UNCHANGED <<pc, discarded>>
    BY <1>4 DEF Deliver, callerVars, mapVars
  <2>2. QED
    BY <1>0, <2>1
<1>5. CASE BackendStep
  <2>1. UNCHANGED <<pc, discarded, reply, awaits>>
    BY <1>5 DEF BackendStep, BackendReads, BackendProgress, BackendAnswers, BackendRepeats,
                BackendExits, callerVars, mapVars
  <2>2. QED
    BY <2>1
<1>6. CASE ReadResponse
  <2>1. UNCHANGED <<pc, reply>> /\ discarded' \subseteq discarded
    BY <1>6 DEF ReadResponse, callerVars
  <2>2. awaits' = awaits \/ \E c \in pending : awaits' = [awaits EXCEPT ![c] = acks]
    BY <1>6 DEF ReadResponse, DeliverAfterAcks
  <2>3. pending \subseteq Calls
    BY DEF ChannelInv, ChannelTypeOK
  <2>4. QED
    BY <1>0, <1>1, <2>1, <2>2, <2>3
<1>7. CASE ReadEof
  <2>1. UNCHANGED <<pc, discarded, awaits>>
        /\ reply' = [c \in Calls |-> IF c \in pending THEN "dropped" ELSE reply[c]]
    BY <1>7 DEF ReadEof, callerVars
  <2>2. QED
    BY <1>1, <2>1
<1>8. CASE ReadProgress \/ Consume \/ UNCHANGED vars
  BY <1>8 DEF ReadProgress, Consume, vars, callerVars, mapVars
<1>9. QED
  BY <1>2, <1>3, <1>4, <1>5, <1>6, <1>7, <1>8 DEF Next, ReaderStep

ServiceInv == ChannelInv /\ EndOfProcess /\ OrderInv /\ ServedOnce

(* What a call looks like from outside depends on its own state only.      *)
LEMMA SameOutcome ==
    ASSUME \A c \in Calls : /\ pc'[c] = pc[c] /\ reply'[c] = reply[c]
                            /\ c \in pending' <=> c \in pending
    PROVE  Outcomes' = Outcomes
BY DEF Outcomes, Outcome

LEMMA OtherOutcomes ==
    ASSUME NEW c \in Calls, NEW next, Outcome(c)' = next,
           \A d \in Calls \ {c} : /\ pc'[d] = pc[d] /\ reply'[d] = reply[d]
                                  /\ d \in pending' <=> d \in pending
    PROVE  Outcomes' = [Outcomes EXCEPT ![c] = next]
<1>1. \A d \in Calls \ {c} : Outcome(d)' = Outcome(d)
  BY DEF Outcome
<1>2. QED
  BY <1>1 DEF Outcomes

ServiceSteps == <<Outcomes, Silenced, Process>>

LEMMA ServiceStarts == Init => Service!ServiceInit
<1> SUFFICES ASSUME Init
             PROVE  Service!ServiceInit
  OBVIOUS
<1>1. Outcomes = [c \in Calls |-> "unsent"]
  BY DEF Init, Outcomes, Outcome
<1>2. Silenced = {} /\ Process = "running"
  BY DEF Init, Silenced, Process
<1>3. QED
  BY <1>1, <1>2 DEF Service!ServiceInit

(* The steps of a caller.                                                  *)
LEMMA CallServes ==
    ASSUME ServiceInv, NEW c \in Calls, CallStep(c)
    PROVE  Service!ServiceNext \/ UNCHANGED ServiceSteps
<1> USE DEF Goto, backendVars, readerVars, mapVars
<1>0. /\ pc \in [Calls -> CallerLabels]
      /\ reply \in [Calls -> {"none", "answer", "dropped"}]
  BY DEF ServiceInv, ChannelInv, ChannelTypeOK
<1>1. /\ c \in pending \/ pc[c] = "idle" =>
             reply[c] = "none" /\ (pc[c] = "idle" => c \notin pending /\ c \notin discarded)
      /\ closed => ~running
      /\ pc[c] = "registered" => awaits[c] = NotTaken /\ reply[c] # "answer"
      /\ pc[c] \in {"registered", "waiting"} =>
             c \in pending \/ awaits[c] # NotTaken \/ reply[c] # "none"
  BY DEF ServiceInv, ChannelInv, PendingFresh, NoLostWaiter, EndOfProcess, OrderInv, InTurn,
         Taken, Begun
<1>2. CASE Register(c)
  <2>1. UNCHANGED <<reply, discarded, closed, running>> /\ pc[c] = "idle"
    BY <1>2 DEF Register
  <2>2. Outcomes[c] = "unsent"
    BY <2>1 DEF Outcomes, Outcome
  <2>3. CASE closed
    <3>1. pc' = [pc EXCEPT ![c] = "broken"] /\ pending' = pending
      BY <1>2, <2>3 DEF Register
    <3>2. Outcomes' = [Outcomes EXCEPT ![c] = "broken"]
      BY <1>0, <2>1, <3>1, OtherOutcomes DEF Outcome
    <3>3. Silenced' = Silenced /\ Process' = "closed" /\ Process = "closed"
      BY <1>0, <1>1, <2>1, <2>3, <3>1 DEF Silenced, Process
    <3>4. QED
      BY <2>2, <3>2, <3>3 DEF Service!ServiceNext, Service!Refuse, Service!Becomes
  <2>4. CASE ~closed
    <3>1. pc' = [pc EXCEPT ![c] = "registered"] /\ pending' = pending \cup {c}
      BY <1>2, <2>4 DEF Register
    <3>2. Outcomes' = [Outcomes EXCEPT ![c] = "open"]
      BY <1>0, <2>1, <3>1, OtherOutcomes DEF Outcome
    <3>3. Silenced' = Silenced /\ Process' = Process /\ Process # "closed"
      BY <1>0, <2>1, <2>4, <3>1 DEF Silenced, Process
    <3>4. QED
      BY <2>2, <3>2, <3>3 DEF Service!ServiceNext, Service!Open, Service!Becomes
  <2>5. QED
    BY <2>3, <2>4
<1>3. CASE Write(c)
  <2>1. /\ pc[c] = "registered" /\ pc' = [pc EXCEPT ![c] = "waiting"]
        /\ UNCHANGED <<pending, reply, discarded, closed, running>>
    BY <1>3 DEF Write
  <2>2. \A d \in Calls : Outcome(d)' = Outcome(d)
    BY <1>0, <2>1 DEF Outcome
  <2>3. Outcomes' = Outcomes /\ Silenced' = Silenced /\ Process' = Process
    BY <1>0, <2>1, <2>2 DEF Outcomes, Silenced, Process
  <2>4. QED
    BY <2>3 DEF ServiceSteps
<1>4. CASE WriteError(c)
  <2>1. /\ pc[c] = "registered" /\ pc' = [pc EXCEPT ![c] = "broken"] /\ ~running
        /\ pending' = pending \ {c} /\ UNCHANGED <<reply, discarded, closed, running>>
    BY <1>4 DEF WriteError, WriteFails
  <2>2. Outcomes' = [Outcomes EXCEPT ![c] = "broken"]
    BY <1>0, <2>1, OtherOutcomes DEF Outcome
  <2>3. Silenced' = Silenced /\ Process' = Process /\ Process # "running"
    BY <1>0, <2>1 DEF Silenced, Process
  <2>4. Outcomes[c] \in {"open", "broken"}
    BY <1>0, <1>1, <2>1 DEF Outcomes, Outcome
  <2>5. CASE Outcomes[c] = "open"
    BY <2>2, <2>3, <2>5 DEF Service!ServiceNext, Service!Break, Service!Becomes
  <2>6. CASE Outcomes[c] = "broken"
    BY <2>2, <2>3, <2>6 DEF ServiceSteps, Outcomes
  <2>7. QED
    BY <2>4, <2>5, <2>6
<1>5. CASE Receive(c)
  <2>1. /\ pc[c] = "waiting" /\ UNCHANGED <<pending, reply, discarded, closed, running>>
        /\ \/ reply[c] = "answer" /\ pc' = [pc EXCEPT ![c] = "ok"]
           \/ reply[c] = "dropped" /\ pc' = [pc EXCEPT ![c] = "broken"]
    BY <1>5 DEF Receive
  <2>2. \A d \in Calls : Outcome(d)' = Outcome(d)
    BY <1>0, <1>1, <2>1 DEF Outcome
  <2>3. Outcomes' = Outcomes /\ Silenced' = Silenced /\ Process' = Process
    BY <1>0, <2>1, <2>2 DEF Outcomes, Silenced, Process
  <2>4. QED
    BY <2>3 DEF ServiceSteps
<1>6. CASE Expire(c)
  <2>1. /\ pc[c] = "waiting" /\ reply[c] = "none" /\ pc' = [pc EXCEPT ![c] = "expired"]
        /\ c \in TimedCalls /\ UNCHANGED <<pending, reply, discarded, closed, running>>
    BY <1>6 DEF Expire
  <2>2. Outcomes' = [Outcomes EXCEPT ![c] = "timedOut"]
    BY <1>0, <2>1, OtherOutcomes DEF Outcome
  <2>3. Silenced' = Silenced \cup {c} /\ Process' = Process
    BY <1>0, <2>1 DEF Silenced, Process
  <2>4. Outcomes[c] \in {"open", "taken"}
    BY <2>1 DEF Outcomes, Outcome
  <2>5. QED
    BY <2>1, <2>2, <2>3, <2>4 DEF Service!ServiceNext, Service!Expire, Service!Becomes,
                                  Service!Silence
<1>7. CASE MarkExpired(c)
  <2>1. /\ pc[c] = "expired" /\ pc' = [pc EXCEPT ![c] = "cancelling"]
        /\ pending' = pending \ {c} /\ discarded' = discarded \cup {c}
        /\ UNCHANGED <<reply, closed, running>>
    BY <1>7 DEF MarkExpired
  <2>2. \A d \in Calls : Outcome(d)' = Outcome(d)
    BY <1>0, <2>1 DEF Outcome
  <2>3. Outcomes' = Outcomes /\ Silenced' = Silenced /\ Process' = Process
    BY <1>0, <2>1, <2>2 DEF Outcomes, Silenced, Process
  <2>4. QED
    BY <2>3 DEF ServiceSteps
<1>8. CASE WriteExpired(c)
  <2>1. /\ pc[c] = "cancelling" /\ pc' = [pc EXCEPT ![c] = "timedOut"]
        /\ UNCHANGED <<pending, reply, discarded, closed, running>>
    BY <1>8 DEF WriteExpired
  <2>2. \A d \in Calls : Outcome(d)' = Outcome(d)
    BY <1>0, <2>1 DEF Outcome
  <2>3. Outcomes' = Outcomes /\ Silenced' = Silenced /\ Process' = Process
    BY <1>0, <2>1, <2>2 DEF Outcomes, Silenced, Process
  <2>4. QED
    BY <2>3 DEF ServiceSteps
<1>9. CASE Classify(c)
  <2>1. /\ pc[c] = "broken"
        /\ pc' = [pc EXCEPT ![c] = IF c \in discarded THEN "abandoned" ELSE "failed"]
        /\ UNCHANGED <<pending, reply, discarded, closed, running>>
    BY <1>9 DEF Classify
  <2>2. c \in Silenced <=> c \in discarded
    BY <2>1 DEF Silenced
  <2>3. Outcomes' = [Outcomes EXCEPT ![c] = IF c \in Silenced THEN "abandoned" ELSE "failed"]
    BY <1>0, <2>1, <2>2, OtherOutcomes DEF Outcome
  <2>4. Silenced' = Silenced /\ Process' = Process /\ Outcomes[c] = "broken"
    BY <1>0, <2>1 DEF Silenced, Process, Outcomes, Outcome
  <2>5. QED
    BY <2>3, <2>4 DEF Service!ServiceNext, Service!Judge, Service!Becomes
<1>10. QED
  BY <1>2, <1>3, <1>4, <1>5, <1>6, <1>7, <1>8, <1>9 DEF CallStep

(* A cancellation takes the sender of a call that still waits; of one whose *)
(* timer has fired it takes what nobody waits for.                         *)
LEMMA CancelServes ==
    ASSUME ServiceInv, NEW c \in Calls, CancelStep(c)
    PROVE  Service!ServiceNext \/ UNCHANGED ServiceSteps
<1>0. /\ pc \in [Calls -> CallerLabels]
      /\ reply \in [Calls -> {"none", "answer", "dropped"}]
      /\ c \in pending => pc[c] \in {"registered", "waiting", "expired"}
  BY DEF ServiceInv, ChannelInv, ChannelTypeOK, PendingFresh
<1>1. CASE WriteCancel(c)
  <2>1. UNCHANGED <<pc, pending, reply, discarded, closed, running>>
    BY <1>1 DEF WriteCancel, mapVars
  <2>2. Outcomes' = Outcomes /\ Silenced' = Silenced /\ Process' = Process
    BY <2>1, SameOutcome DEF Silenced, Process
  <2>3. QED
    BY <2>2 DEF ServiceSteps
<1>2. CASE ClientCancel(c) \/ BackendCancel(c)
  <2>1. /\ c \in pending /\ pending' = pending \ {c} /\ discarded' = discarded \cup {c}
        /\ reply' = [reply EXCEPT ![c] = "dropped"] /\ UNCHANGED <<pc, closed, running>>
    BY <1>2 DEF ClientCancel, BackendCancel, TakeSender, backendVars
  <2>2. Process' = Process
    BY <2>1 DEF Process
  <2>3. CASE pc[c] = "expired"
    <3>1. \A d \in Calls : Outcome(d)' = Outcome(d)
      BY <1>0, <2>1, <2>3 DEF Outcome
    <3>2. Outcomes' = Outcomes /\ Silenced' = Silenced
      BY <2>1, <2>3, <3>1 DEF Outcomes, Silenced
    <3>3. QED
      BY <2>2, <3>2 DEF ServiceSteps
  <2>4. CASE pc[c] \in {"registered", "waiting"}
    <3>1. Outcomes' = [Outcomes EXCEPT ![c] = "broken"]
      BY <1>0, <2>1, <2>4, OtherOutcomes DEF Outcome
    <3>2. Outcomes[c] = "open" /\ Silenced' = Silenced \cup {c}
      BY <2>1, <2>4 DEF Outcomes, Outcome, Silenced
    <3>3. QED
      BY <2>2, <3>1, <3>2 DEF Service!ServiceNext, Service!Cancel, Service!Becomes,
                              Service!Silence
  <2>5. QED
    BY <1>0, <2>1, <2>3, <2>4
<1>3. QED
  BY <1>1, <1>2 DEF CancelStep

(* A delivery task has the only answer its call will get.                  *)
LEMMA DeliverServes ==
    ASSUME ServiceInv, NEW c \in Calls, Deliver(c)
    PROVE  Service!ServiceNext \/ UNCHANGED ServiceSteps
<1>0. /\ pc \in [Calls -> CallerLabels]
      /\ reply \in [Calls -> {"none", "answer", "dropped"}]
  BY DEF ServiceInv, ChannelInv, ChannelTypeOK
<1>1. /\ awaits[c] # NotTaken /\ reply' = [reply EXCEPT ![c] = "answer"]
      /\ UNCHANGED <<pc, pending, discarded, closed, running>>
  BY DEF Deliver, callerVars, mapVars, backendVars
<1>2. /\ c \notin pending /\ reply[c] = "none"
      /\ pc[c] \in {"registered", "waiting"} => c \notin discarded
  BY <1>1 DEF ServiceInv, ChannelInv, PendingFresh, ServedOnce
<1>3. Silenced' = Silenced /\ Process' = Process
  BY <1>1 DEF Silenced, Process
<1>4. CASE pc[c] \in {"registered", "waiting"}
  <2>1. Outcomes' = [Outcomes EXCEPT ![c] = "answered"]
    BY <1>0, <1>1, <1>2, <1>4, OtherOutcomes DEF Outcome
  <2>2. Outcomes[c] = "taken" /\ c \notin Silenced
    BY <1>2, <1>4 DEF Outcomes, Outcome, Silenced
  <2>3. QED
    BY <1>3, <2>1, <2>2 DEF Service!ServiceNext, Service!Answer, Service!Becomes
<1>5. CASE pc[c] \notin {"registered", "waiting"}
  <2>1. \A d \in Calls : Outcome(d)' = Outcome(d)
    BY <1>0, <1>1, <1>5 DEF Outcome
  <2>2. QED
    BY <1>3, <2>1 DEF Outcomes, ServiceSteps
<1>6. QED
  BY <1>4, <1>5

LEMMA BackendServes ==
    ASSUME ServiceInv, BackendStep
    PROVE  Service!ServiceNext \/ UNCHANGED ServiceSteps
<1>1. UNCHANGED <<pc, pending, reply, discarded, closed>>
  BY DEF BackendStep, BackendReads, BackendProgress, BackendAnswers, BackendRepeats,
         BackendExits, callerVars, mapVars
<1>2. Outcomes' = Outcomes /\ Silenced' = Silenced
  BY <1>1, SameOutcome DEF Silenced
<1>3. CASE BackendExits
  <2>1. Process = "running" /\ Process' = "exited"
    BY <1>1, <1>3 DEF BackendExits, Process, ServiceInv, EndOfProcess
  <2>2. QED
    BY <1>2, <2>1 DEF Service!ServiceNext, Service!Exit
<1>4. CASE ~BackendExits
  <2>1. running' = running
    BY <1>4 DEF BackendStep, BackendReads, BackendProgress, BackendAnswers, BackendRepeats
  <2>2. QED
    BY <1>1, <1>2, <2>1 DEF Process, ServiceSteps
<1>5. QED
  BY <1>3, <1>4

(* The reader completes a call that waits, discards the answer of one that *)
(* was given up, or changes nothing; at the end it closes the map.         *)
LEMMA ResponseServes ==
    ASSUME ServiceInv, ReadResponse
    PROVE  Service!ServiceNext \/ UNCHANGED ServiceSteps
<1>0. /\ pc \in [Calls -> CallerLabels]
      /\ stdout \in Seq(OutputLines)
      /\ pending \cap discarded = {}
  BY DEF ServiceInv, ChannelInv, ChannelTypeOK, PipesOK, MapExclusive
<1>1. UNCHANGED <<pc, reply, closed, running>>
  BY DEF ReadResponse, callerVars, backendVars
<1>2. PICK c \in Calls : c = Head(stdout).call
  <2>1. stdout # <<>> /\ Head(stdout) \in OutputLines
    BY <1>0 DEF ReadResponse, NextLineIs
  <2>2. QED
    BY <2>1 DEF OutputLines
<1>3. /\ c \in pending \/ pc[c] = "idle" =>
             /\ pc[c] \in {"idle", "registered", "waiting", "expired"} /\ reply[c] = "none"
             /\ pc[c] = "idle" => c \notin pending /\ c \notin discarded
      /\ c \in discarded /\ pc[c] \in {"registered", "waiting"} => reply[c] = "dropped"
  BY DEF ServiceInv, ChannelInv, PendingFresh, ServedOnce
<1>4. Process' = Process
  BY <1>1 DEF Process
<1>5. CASE c \in pending
  <2>1. pending' = pending \ {c} /\ discarded' = discarded
    BY <1>0, <1>2, <1>5 DEF ReadResponse
  <2>2. Silenced' = Silenced
    BY <1>1, <2>1 DEF Silenced
  <2>3. CASE pc[c] = "expired"
    <3>1. \A d \in Calls : Outcome(d)' = Outcome(d)
      BY <1>1, <2>1, <2>3 DEF Outcome
    <3>2. QED
      BY <1>4, <2>2, <3>1 DEF Outcomes, ServiceSteps
  <2>4. CASE pc[c] \in {"registered", "waiting"}
    <3>1. Outcomes' = [Outcomes EXCEPT ![c] = "taken"]
      BY <1>1, <1>3, <1>5, <2>1, <2>4, OtherOutcomes DEF Outcome
    <3>2. Outcomes[c] = "open" /\ c \notin Silenced
      BY <1>0, <1>5, <2>4 DEF Outcomes, Outcome, Silenced
    <3>3. QED
      BY <1>4, <2>2, <3>1, <3>2 DEF Service!ServiceNext, Service!Take, Service!Becomes
  <2>5. QED
    BY <1>3, <1>5, <2>3, <2>4
<1>6. CASE c \notin pending
  <2>1. pending' = pending
    BY <1>2, <1>6 DEF ReadResponse
  <2>2. Outcomes' = Outcomes
    BY <1>1, <2>1, SameOutcome
  <2>3. CASE c \in discarded /\ pc[c] # "expired"
    <3>1. discarded' = discarded \ {c}
      BY <1>2, <1>6, <2>3 DEF ReadResponse
    <3>2. Silenced' = Silenced \ {c} /\ c \in Silenced
      BY <1>1, <2>3, <3>1 DEF Silenced
    <3>3. Outcomes[c] \notin {"unsent", "open", "taken"}
      BY <1>0, <1>3, <1>6, <2>3 DEF Outcomes, Outcome, CallerLabels
    <3>4. QED
      BY <1>4, <2>2, <3>2, <3>3 DEF Service!ServiceNext, Service!Absorb
  <2>4. CASE c \notin discarded \/ pc[c] = "expired"
    <3>1. discarded' = discarded \/ (pc[c] = "expired" /\ discarded' = discarded \ {c})
      BY <1>2, <1>6, <2>4 DEF ReadResponse
    <3>2. Silenced' = Silenced
      BY <1>1, <3>1 DEF Silenced
    <3>3. QED
      BY <1>4, <2>2, <3>2 DEF ServiceSteps
  <2>5. QED
    BY <2>3, <2>4
<1>7. QED
  BY <1>5, <1>6

LEMMA EofServes ==
    ASSUME ServiceInv, ReadEof
    PROVE  Service!ServiceNext \/ UNCHANGED ServiceSteps
<1>1. /\ ~running /\ ~closed /\ closed' /\ pending' = {}
      /\ reply' = [c \in Calls |-> IF c \in pending THEN "dropped" ELSE reply[c]]
      /\ UNCHANGED <<pc, discarded, running>>
  BY DEF ReadEof, callerVars, backendVars
<1>2. \A c \in Calls : c \in pending => pc[c] \in {"registered", "waiting", "expired"}
  BY DEF ServiceInv, ChannelInv, PendingFresh
<1>3. \A c \in Calls : Outcome(c)' = IF Outcome(c) = "open" THEN "broken" ELSE Outcome(c)
  <2>1. ASSUME NEW c \in Calls
        PROVE  Outcome(c)' = IF Outcome(c) = "open" THEN "broken" ELSE Outcome(c)
    <3>1. pc[c] \in CallerLabels
      BY DEF ServiceInv, ChannelInv, ChannelTypeOK
    <3>2. QED
      BY <1>1, <1>2, <3>1 DEF Outcome, CallerLabels
  <2>2. QED
    BY <2>1
<1>4. Outcomes' = [c \in Calls |-> IF Outcomes[c] = "open" THEN "broken" ELSE Outcomes[c]]
  BY <1>3 DEF Outcomes
<1>5. Silenced' = Silenced /\ Process = "exited" /\ Process' = "closed"
  BY <1>1 DEF Silenced, Process
<1>6. QED
  BY <1>4, <1>5 DEF Service!ServiceNext, Service!Close

LEMMA ServiceStep == ServiceInv /\ [Next]_vars => [Service!ServiceNext]_ServiceSteps
<1> SUFFICES ASSUME ServiceInv, [Next]_vars
             PROVE  Service!ServiceNext \/ UNCHANGED ServiceSteps
  OBVIOUS
<1>1. CASE ReadProgress \/ Consume \/ UNCHANGED vars
  <2>1. UNCHANGED <<pc, pending, reply, discarded, closed, running>>
    BY <1>1 DEF ReadProgress, Consume, vars, callerVars, mapVars, backendVars
  <2>2. Outcomes' = Outcomes /\ Silenced' = Silenced /\ Process' = Process
    BY <2>1, SameOutcome DEF Silenced, Process
  <2>3. QED
    BY <2>2 DEF ServiceSteps
<1>2. QED
  BY <1>1, CallServes, CancelServes, DeliverServes, BackendServes, ResponseServes, EofServes
     DEF Next, ReaderStep

(* Whatever answers, timeouts, cancellations and the end of the process do *)
(* to each other, the channel is an implementation of ChannelService: the  *)
(* first of them decides how a request ends.                               *)
THEOREM ChannelKeepsPromise == Spec => ChannelServiceSpec
<1>1. Spec => []AbsorbInv
  BY AbsorbInit, AbsorbStep, ChannelInvariant, PTL DEF Spec
<1>2. Spec => []OrderInv
  BY <1>1, OrderInit, OrderStep, ChannelInvariant, PTL DEF Spec
<1>3. Spec => []ServedOnce
  BY ServedInit, ServedStep, ChannelInvariant, PTL DEF Spec
<1>4. AbsorbInv => EndOfProcess
  BY DEF AbsorbInv
<1>5. ChannelInv /\ EndOfProcess /\ OrderInv /\ ServedOnce => ServiceInv
  BY DEF ServiceInv
<1>6. Spec => []ServiceInv
  BY <1>1, <1>2, <1>3, <1>4, <1>5, ChannelInvariant, PTL
<1>7. Spec => Service!ServiceInit /\ [][Service!ServiceNext]_ServiceSteps
  BY <1>6, ServiceStarts, ServiceStep, PTL DEF Spec
<1>8. QED
  BY <1>7 DEF ChannelServiceSpec, Service!ServiceSpec, Service!vars, ServiceSteps
=============================================================================
