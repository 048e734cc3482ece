----------------------------- MODULE BackendChannel -----------------------------
(***************************************************************************)
(* One generation of the backend process and the channel to it, from       *)
(* src/src/backend_manager.rs: the callers of send_request and             *)
(* send_request_with_timeout, the pending map with its oneshot senders,    *)
(* the tombstones of discarded ids, the stdout reader task with the        *)
(* progress acknowledgements it holds back responses for, and the queue of *)
(* events the runtime or the broker consumes.                              *)
(*                                                                         *)
(* A call is its own backend id: next_request_id never repeats one within  *)
(* a generation.  Code between two awaits that touches shared state under  *)
(* one lock is one action.                                                 *)
(***************************************************************************)
EXTENDS Naturals, Sequences, FiniteSets, SequencesExt

CONSTANTS
    Calls,         \* the requests sent to this backend
    TimedCalls,    \* those sent with send_request_with_timeout
    PipeCapacity,  \* lines the backend's stdin pipe holds unread
    MaxProgress,   \* bound: progress notifications the backend emits
    MaxStray       \* bound: answers to ids the backend is no longer working on

ASSUME ChannelAssumption ==
    /\ TimedCalls \subseteq Calls
    /\ PipeCapacity \in Nat \ {0}
    /\ MaxProgress \in Nat
    /\ MaxStray \in Nat

VARIABLES
    pc,          \* where each caller is
    cancelPc,    \* the cancellation of each call, by the client or by the backend
    pending,     \* PendingState.pending
    discarded,   \* PendingState.discarded
    closed,      \* PendingState.closed
    reply,       \* what the call's oneshot receiver sees
    awaits,      \* the delivery tasks: progress a taken response still waits for
    stdin,       \* lines written and not read by the backend
    running,     \* the backend process is alive
    answering,   \* requests the backend has read and not answered
    emitted,     \* progress notifications emitted so far
    strays,      \* such answers so far
    stdout,      \* lines the reader task has not read
    acks,        \* progress_acks: progress the reader waits for
    events       \* BackendEvents not consumed yet

callerVars == <<pc, cancelPc>>
mapVars == <<pending, discarded, closed>>
backendVars == <<stdin, running, answering, emitted, strays>>
readerVars == <<stdout, acks, events>>
vars == <<pc, cancelPc, pending, discarded, closed, reply, awaits, stdin, running,
          answering, emitted, strays, stdout, acks, events>>

NotTaken == {0}   \* no response taken: a value no set of progress numbers has

Request(c) == [kind |-> "request", call |-> c]
CancelLine(c) == [kind |-> "cancel", call |-> c]
Response(c) == [kind |-> "response", call |-> c]
Progress(c, n) == [kind |-> "progress", call |-> c, number |-> n]
Unmatched(c) == [kind |-> "unmatched", call |-> c]
ProcessExit == [kind |-> "exit"]

Init ==
    /\ pc = [c \in Calls |-> "idle"]
    /\ cancelPc = [c \in Calls |-> "none"]
    /\ pending = {} /\ discarded = {} /\ closed = FALSE
    /\ reply = [c \in Calls |-> "none"]
    /\ awaits = [c \in Calls |-> NotTaken]
    /\ stdin = <<>> /\ running = TRUE /\ answering = {} /\ emitted = 0 /\ strays = 0
    /\ stdout = <<>> /\ acks = {} /\ events = <<>>

Goto(c, label) == pc' = [pc EXCEPT ![c] = label]

-----------------------------------------------------------------------------
(* write_message: blocks while the pipe is full, fails once the process is *)
(* gone.                                                                   *)

CanWrite == running /\ Len(stdin) < PipeCapacity
WriteLine(line) == stdin' = Append(stdin, line)
WriteFails == ~running

-----------------------------------------------------------------------------
(* The callers. *)

\* Slip: the map is not asked whether it is closed.
RegisterUnchecked(c) ==
    /\ pc[c] = "idle"
    /\ Goto(c, "registered") /\ pending' = pending \cup {c}
    /\ UNCHANGED <<cancelPc, discarded, closed, reply, awaits, backendVars, readerVars>>

\* The closed check and the insertion share one hold of the pending lock.
Register(c) ==
    /\ pc[c] = "idle"
    /\ IF closed
       THEN Goto(c, "broken") /\ UNCHANGED pending
       ELSE Goto(c, "registered") /\ pending' = pending \cup {c}
    /\ UNCHANGED <<cancelPc, discarded, closed, reply, awaits, backendVars, readerVars>>

Write(c) ==
    /\ pc[c] = "registered"
    /\ CanWrite
    /\ WriteLine(Request(c))
    /\ Goto(c, "waiting")
    /\ UNCHANGED <<cancelPc, mapVars, reply, awaits, running, answering, emitted, strays,
                   readerVars>>

\* Slip: the sender of a request that could not be written stays in the map.
WriteErrorKeepingSender(c) ==
    /\ pc[c] = "registered"
    /\ WriteFails
    /\ Goto(c, "broken")
    /\ UNCHANGED <<cancelPc, mapVars, reply, awaits, backendVars, readerVars>>

WriteError(c) ==
    /\ pc[c] = "registered"
    /\ WriteFails
    /\ Goto(c, "broken")
    /\ pending' = pending \ {c}
    /\ UNCHANGED <<cancelPc, discarded, closed, reply, awaits, backendVars, readerVars>>

Receive(c) ==
    /\ pc[c] = "waiting"
    /\ \/ reply[c] = "answer" /\ Goto(c, "ok")
       \/ reply[c] = "dropped" /\ Goto(c, "broken")
    /\ UNCHANGED <<cancelPc, mapVars, reply, awaits, backendVars, readerVars>>

\* The timer fires while the receiver is empty; the lock comes later.
Expire(c) ==
    /\ c \in TimedCalls
    /\ pc[c] = "waiting" /\ reply[c] = "none"
    /\ Goto(c, "expired")
    /\ UNCHANGED <<cancelPc, mapVars, reply, awaits, backendVars, readerVars>>

\* Slip: the sender leaves the map without a tombstone.
ForgetExpired(c) ==
    /\ pc[c] = "expired"
    /\ pending' = pending \ {c}
    /\ Goto(c, "cancelling")
    /\ UNCHANGED <<cancelPc, discarded, closed, reply, awaits, backendVars, readerVars>>

\* Slip: a call whose response was taken meanwhile is left to that response.
MarkExpiredIfPending(c) ==
    /\ pc[c] = "expired" /\ c \in pending
    /\ pending' = pending \ {c}
    /\ discarded' = discarded \cup {c}
    /\ Goto(c, "cancelling")
    /\ UNCHANGED <<cancelPc, closed, reply, awaits, backendVars, readerVars>>

MarkExpired(c) ==
    /\ pc[c] = "expired"
    /\ pending' = pending \ {c}
    /\ discarded' = discarded \cup {c}
    /\ Goto(c, "cancelling")
    /\ UNCHANGED <<cancelPc, closed, reply, awaits, backendVars, readerVars>>

\* The cancellation notice of a timed-out call; a failed write is only logged.
WriteExpired(c) ==
    /\ pc[c] = "cancelling"
    /\ \/ CanWrite /\ WriteLine(CancelLine(c))
       \/ WriteFails /\ UNCHANGED stdin
    /\ Goto(c, "timedOut")
    /\ UNCHANGED <<cancelPc, mapVars, reply, awaits, running, answering, emitted, strays,
                   readerVars>>

\* is_discarding_response: how the caller of a broken request tells a
\* cancelled call, which it abandons, from a failed one, which it reports.
Classify(c) ==
    /\ pc[c] = "broken"
    /\ Goto(c, IF c \in discarded THEN "abandoned" ELSE "failed")
    /\ UNCHANGED <<cancelPc, mapVars, reply, awaits, backendVars, readerVars>>

-----------------------------------------------------------------------------
(* Cancellation of a request that is in the pending map: by the client     *)
(* (cancel_pending_request, which also tells the backend) or by the        *)
(* backend itself (discard_pending_response).  RequestLifetime removes the *)
(* row first, so a call is cancelled at most once.                         *)

\* Slip: the sender is put aside with the tombstone and never dropped.
KeepSender(c) ==
    /\ pending' = pending \ {c}
    /\ discarded' = discarded \cup {c}
    /\ UNCHANGED reply

TakeSender(c) ==
    /\ pending' = pending \ {c}
    /\ discarded' = discarded \cup {c}
    /\ reply' = [reply EXCEPT ![c] = "dropped"]

ClientCancel(c) ==
    /\ cancelPc[c] = "none"
    /\ c \in pending
    /\ TakeSender(c)
    /\ cancelPc' = [cancelPc EXCEPT ![c] = "writing"]
    /\ UNCHANGED <<pc, closed, awaits, backendVars, readerVars>>

WriteCancel(c) ==
    /\ cancelPc[c] = "writing"
    /\ \/ CanWrite /\ WriteLine(CancelLine(c))
       \/ WriteFails /\ UNCHANGED stdin
    /\ cancelPc' = [cancelPc EXCEPT ![c] = "done"]
    /\ UNCHANGED <<pc, mapVars, reply, awaits, running, answering, emitted, strays, readerVars>>

BackendCancel(c) ==
    /\ cancelPc[c] = "none"
    /\ c \in pending
    /\ pc[c] = "waiting"
    /\ TakeSender(c)
    /\ cancelPc' = [cancelPc EXCEPT ![c] = "done"]
    /\ UNCHANGED <<pc, closed, awaits, backendVars, readerVars>>

-----------------------------------------------------------------------------
(* The backend process (external): it reads its stdin in order, may stop   *)
(* working on a cancelled request or answer it all the same, and may hang  *)
(* or exit at any moment.                                                  *)

BackendReads ==
    /\ running /\ stdin # <<>>
    /\ stdin' = Tail(stdin)
    /\ LET c == Head(stdin).call IN
         \/ Head(stdin).kind = "request" /\ answering' = answering \cup {c}
         \/ Head(stdin).kind = "cancel" /\ answering' \in {answering, answering \ {c}}
    /\ UNCHANGED <<callerVars, mapVars, reply, awaits, running, emitted, strays, readerVars>>

BackendProgress(c) ==
    /\ running /\ c \in answering /\ emitted < MaxProgress
    /\ emitted' = emitted + 1
    /\ stdout' = Append(stdout, Progress(c, emitted + 1))
    /\ UNCHANGED <<callerVars, mapVars, reply, awaits, stdin, running, answering, strays,
                   acks, events>>

BackendAnswers(c) ==
    /\ running /\ c \in answering
    /\ answering' = answering \ {c}
    /\ stdout' = Append(stdout, Response(c))
    /\ UNCHANGED <<callerVars, mapVars, reply, awaits, stdin, running, emitted, strays,
                   acks, events>>

BackendRepeats(c) ==
    /\ running /\ c \notin answering /\ strays < MaxStray
    /\ pc[c] \notin {"idle", "registered"} /\ Request(c) \notin ToSet(stdin)
    /\ strays' = strays + 1
    /\ stdout' = Append(stdout, Response(c))
    /\ UNCHANGED <<callerVars, mapVars, reply, awaits, stdin, running, answering, emitted,
                   acks, events>>

BackendExits ==
    /\ running
    /\ running' = FALSE
    /\ stdin' = <<>> /\ answering' = {}
    /\ UNCHANGED <<callerVars, mapVars, reply, awaits, emitted, strays, readerVars>>

-----------------------------------------------------------------------------
(* The stdout reader task.                                                 *)

NextLineIs(kind) == stdout # <<>> /\ Head(stdout).kind = kind

\* Slip: the reader forgets the acknowledgements of earlier progress.
DeliverAtOnce(c) == awaits' = [awaits EXCEPT ![c] = {}] /\ acks' = {}

\* A task of its own holds the response until the progress acknowledgements
\* the reader has collected - of whatever call - have come in (mem::take).
DeliverAfterAcks(c) == awaits' = [awaits EXCEPT ![c] = acks] /\ acks' = {}

ReadResponse ==
    /\ NextLineIs("response")
    /\ stdout' = Tail(stdout)
    /\ LET c == Head(stdout).call IN
         \/ /\ c \in pending
            /\ pending' = pending \ {c}
            /\ DeliverAfterAcks(c)
            /\ UNCHANGED <<discarded, events>>
         \/ /\ c \notin pending /\ c \in discarded
            /\ discarded' = discarded \ {c}
            /\ acks' = {}
            /\ UNCHANGED <<pending, awaits, events>>
         \/ /\ c \notin pending /\ c \notin discarded
            /\ events' = Append(events, Unmatched(c))
            /\ UNCHANGED <<pending, discarded, awaits, acks>>
    /\ UNCHANGED <<callerVars, closed, reply, backendVars>>

\* Slip: the acknowledgements are numbered from zero.
ReadProgressFromZero ==
    /\ NextLineIs("progress")
    /\ stdout' = Tail(stdout)
    /\ acks' = acks \cup {Head(stdout).number - 1}
    /\ events' = Append(events, Head(stdout))
    /\ UNCHANGED <<callerVars, mapVars, reply, awaits, backendVars>>

ReadProgress ==
    /\ NextLineIs("progress")
    /\ stdout' = Tail(stdout)
    /\ acks' = acks \cup {Head(stdout).number}
    /\ events' = Append(events, Head(stdout))
    /\ UNCHANGED <<callerVars, mapVars, reply, awaits, backendVars>>

\* Slip: the map is closed and the senders stay in it.
ReadEofKeepingSenders ==
    /\ ~running /\ stdout = <<>> /\ ~closed
    /\ closed' = TRUE
    /\ events' = Append(events, ProcessExit)
    /\ UNCHANGED <<callerVars, pending, discarded, reply, awaits, backendVars, stdout, acks>>

\* End of file: under one hold of the lock the map is closed and emptied, and
\* dropping the senders wakes every caller.
ReadEof ==
    /\ ~running /\ stdout = <<>> /\ ~closed
    /\ closed' = TRUE
    /\ pending' = {}
    /\ reply' = [c \in Calls |-> IF c \in pending THEN "dropped" ELSE reply[c]]
    /\ events' = Append(events, ProcessExit)
    /\ UNCHANGED <<callerVars, discarded, awaits, backendVars, stdout, acks>>

\* The progress numbers whose event is still in the queue.
Unacknowledged == {e.number : e \in {x \in ToSet(events) : x.kind = "progress"}}

\* A delivery task sends the response to the caller; the receiver of a call
\* that timed out meanwhile is gone and the response with it.
Deliver(c) ==
    /\ awaits[c] # NotTaken
    /\ awaits[c] \cap Unacknowledged = {}
    /\ awaits' = [awaits EXCEPT ![c] = NotTaken]
    /\ reply' = [reply EXCEPT ![c] = "answer"]
    /\ UNCHANGED <<callerVars, mapVars, backendVars, readerVars>>

\* The runtime or the broker takes one event; consuming (or dropping) a
\* progress notification drops its acknowledgement, which releases it.
Consume ==
    /\ events # <<>>
    /\ events' = Tail(events)
    /\ UNCHANGED <<callerVars, mapVars, reply, awaits, backendVars, stdout, acks>>

-----------------------------------------------------------------------------
CallStep(c) ==
    \/ Register(c) \/ Write(c) \/ WriteError(c) \/ Receive(c)
    \/ Expire(c) \/ MarkExpired(c) \/ WriteExpired(c) \/ Classify(c)

CancelStep(c) == ClientCancel(c) \/ WriteCancel(c) \/ BackendCancel(c)

BackendStep ==
    \/ BackendReads
    \/ \E c \in Calls : BackendProgress(c) \/ BackendAnswers(c) \/ BackendRepeats(c)
    \/ BackendExits

ReaderStep == ReadResponse \/ ReadProgress \/ ReadEof

Next ==
    \/ \E c \in Calls : CallStep(c) \/ CancelStep(c) \/ Deliver(c)
    \/ BackendStep
    \/ ReaderStep
    \/ Consume

\* The runtime schedules every task that is ready: callers once they have
\* begun, the reader, the delivery tasks and the consumer.  Nothing makes the
\* backend read, answer or exit, and nothing makes a client cancel.
Fairness ==
    /\ \A c \in Calls :
         /\ WF_vars(pc[c] # "idle" /\ CallStep(c))
         /\ WF_vars(WriteCancel(c))
         /\ WF_vars(Deliver(c))
    /\ WF_vars(ReaderStep)
    /\ WF_vars(Consume)

Spec == Init /\ [][Next]_vars
FairSpec == Spec /\ Fairness
-----------------------------------------------------------------------------
CallerLabels == {"idle", "registered", "waiting", "expired", "cancelling", "ok",
                 "broken", "timedOut", "abandoned", "failed"}
Final == {"ok", "timedOut", "abandoned", "failed"}

(* Types of the channel's state. *)
ChannelTypeOK ==
    /\ pc \in [Calls -> CallerLabels]
    /\ cancelPc \in [Calls -> {"none", "writing", "done"}]
    /\ pending \subseteq Calls /\ discarded \subseteq Calls /\ closed \in BOOLEAN
    /\ reply \in [Calls -> {"none", "answer", "dropped"}]
    /\ awaits \in [Calls -> SUBSET (0 .. MaxProgress)]
    /\ running \in BOOLEAN /\ answering \subseteq Calls
    /\ emitted \in 0 .. MaxProgress /\ strays \in 0 .. MaxStray
    /\ acks \subseteq 1 .. MaxProgress

Cancelled(c) == cancelPc[c] # "none"

(* No lost wake-up: a caller that waits for an answer is in the pending map, *)
(* or a delivery task has its response, or its receiver has been served.    *)
(* Response, exit, cancellation and timeout all take the sender away, each  *)
(* under its own hold of the lock.                                          *)
NoLostWaiter ==
    \A c \in Calls :
        pc[c] \in {"registered", "waiting"} =>
            c \in pending \/ awaits[c] # NotTaken \/ reply[c] # "none"

(* An id is awaited or suppressed, never both; otherwise a late answer of a *)
(* cancelled request would complete it.  And once the process has exited no *)
(* sender is left in its map, nor can one enter it.                         *)
MapExclusive ==
    /\ pending \cap discarded = {}
    /\ closed => pending = {}

(* Cancellation and completion exclude each other: once a cancellation has  *)
(* taken the sender, the caller never returns the backend's answer.         *)
CancelledNotCompleted ==
    \A c \in Calls : Cancelled(c) => pc[c] # "ok" /\ reply[c] # "answer"

(* A backend that answers each request at most once never has an answer     *)
(* reported as unmatched, whatever was cancelled or timed out before: late  *)
(* answers are absorbed by the tombstones.                                  *)
LateAnswerAbsorbed ==
    strays = 0 => \A c \in Calls : Unmatched(c) \notin ToSet(events)

(* The caller of a request that is alone at the backend has its answer only *)
(* after all the progress of that request has been consumed                 *)
(* (should_order_before_response).  Two requests at once can part an answer *)
(* from its progress: the reader gives the acknowledgements of both to the  *)
(* response it reads first.                                                 *)
ProgressBeforeAnswer ==
    \A c \in Calls, n \in 1 .. MaxProgress :
        (\A d \in Calls \ {c} : pc[d] = "idle") /\ reply[c] = "answer"
            => Progress(c, n) \notin ToSet(events)

(* Every request ends after the backend process exits, timeout or not       *)
(* (data.html, "Backend pending response waiters").                         *)
ExitReleasesCallers ==
    \A c \in Calls : (pc[c] # "idle" /\ ~running) ~> pc[c] \in Final

(* A request with a timeout ends even if the backend neither reads, answers *)
(* nor exits, as long as its stdin pipe does not fill up: the timer starts  *)
(* only after write_message has returned.                                   *)
TimeoutBoundsCall ==
    \A c \in TimedCalls :
        (pc[c] = "registered" /\ [](Len(stdin) < PipeCapacity)) ~> pc[c] \in Final

-----------------------------------------------------------------------------
(* The channel as its users see it.  A call gives up when its timer fires, *)
(* one step before the lock is taken for its tombstone; what happens to    *)
(* its sender in between is nobody's business any more.                    *)

Outcome(c) ==
    CASE pc[c] = "idle" -> "unsent"
      [] pc[c] \in {"registered", "waiting"} ->
            IF c \in pending THEN "open"
            ELSE IF reply[c] = "dropped" THEN "broken"
            ELSE IF reply[c] = "answer" THEN "answered" ELSE "taken"
      [] pc[c] = "ok" -> "answered"
      [] pc[c] \in {"expired", "cancelling"} -> "timedOut"
      [] OTHER -> pc[c]

Outcomes == [c \in Calls |-> Outcome(c)]
Silenced == discarded \cup {c \in Calls : pc[c] = "expired"}
Process == IF running THEN "running" ELSE IF closed THEN "closed" ELSE "exited"

Service == INSTANCE ChannelService
               WITH outcome <- Outcomes, silenced <- Silenced, process <- Process

(* The channel keeps what ChannelService promises: a request ends once, by *)
(* its answer, its deadline, a cancellation or the end of the process, and *)
(* whoever comes second - each holds the lock of PendingState for itself - *)
(* changes nothing; only what was given up is silenced.                    *)
ChannelServiceSpec == Service!ServiceSpec
=============================================================================
