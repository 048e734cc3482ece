------------------------------ MODULE BrokerCalls ------------------------------
(***************************************************************************)
(* Pass-through calls in the daemon, from src/src/broker_manager.rs: the   *)
(* task handle_request spawns for each call, the session loops that admit, *)
(* cancel, stop and restart, the fan-out task that consumes the backend's  *)
(* events, and the request rows (RequestLifetime) they all share.          *)
(*                                                                         *)
(* A step is what runs between two awaits that other tasks can get in      *)
(* between.  The channel to the backend is the one BackendChannel details: *)
(* here a call is registered, written when the pipe has room, and waits    *)
(* until it is answered, times out, is discarded or the process is gone.   *)
(* Installing a backend in the slot is one step; what spawning does is     *)
(* BackendSlot's business.                                                 *)
(***************************************************************************)
EXTENDS RequestLifetime, Sequences

CONSTANTS
    Calls,       \* pass-through requests of the clients
    SessionOf,   \* the session that sends the call
    IdOf,        \* its raw JSON-RPC id
    TokenOf,     \* its progress token, or None
    MaxGens,     \* bound: backend processes that come up
    Asks,        \* requests of the backends (what becomes of them: BrokerPeers)
    Scripts      \* bound: what clients and backends do in one behaviour, once each

Commands == {"stop", "restart", "force"}
Emits == Calls \X {"progress", "cancel"}
Gens == 1 .. MaxGens

\* Besides its calls, a client cancels, controls and leaves; a backend emits
\* notifications, exits, or does not read its stdin until it is drained again.
Inputs == ({"cancel"} \X Keys) \cup ({"control"} \X Commands) \cup ({"leave", "gone"} \X Sessions)
              \cup ({"emit"} \X Emits) \cup ({"exit"} \X Gens)
              \cup ({"ask"} \X Asks) \cup ({"jam", "drain"} \X Gens) \cup {<<"deadline">>}

\* What goes out to a client: responses, requests of the backend, and "notice"
\* for one or more notifications.
Messages == Calls \cup Asks \cup {"notice"}

ASSUME BrokerAssumption ==
    /\ SessionOf \in [Calls -> Sessions]
    /\ IdOf \in [Calls -> RawIds]
    /\ TokenOf \in [Calls -> Tokens \cup {None}]
    /\ MaxGens \in Nat \ {0}
    /\ None \notin Nat /\ None \notin Calls
    /\ \A script \in Scripts : script \subseteq Inputs

Key(c) == <<SessionOf[c], IdOf[c]>>

VARIABLES
    pc,          \* where the task of each call is
    gen,         \* the backend it cloned from the slot
    id,          \* its backend id
    result,      \* what send_request returned
    reply,       \* the response handed to the session
    lock,        \* pass_through_lock: its holder
    slot,        \* BackendSlot.backend
    spawned,     \* processes started so far
    alive,       \* processes that run
    discarded,   \* calls whose id is a tombstone in its backend
    working,     \* calls the backend has been sent and not answered
    events,      \* BackendEvents not yet consumed, from all processes
    fan,         \* where the fan-out task is
    conn,        \* the client's end of each session
    loop,        \* where each session loop is
    outbox,      \* session_rx
    todo,        \* inputs that have not come yet
    owner,       \* history: the call that admitted each row
    history      \* history: what happened to calls, for the properties

taskVars == <<pc, gen, id, result, reply, lock>>
backendVars == <<slot, spawned, alive, discarded, working>>
eventVars == <<events, fan>>
sessionVars == <<conn, loop, outbox>>
vars == <<lifetimeVars, taskVars, backendVars, eventVars, sessionVars, todo, owner, history>>

Ready == [at |-> "ready"]   \* in select!, or waiting for an event
Top == [at |-> "top"]       \* a session loop that is about to look at its rows

Init ==
    /\ LifetimeInit
    /\ pc = [c \in Calls |-> "unsent"] /\ gen = [c \in Calls |-> None]
    /\ id = [c \in Calls |-> None] /\ result = [c \in Calls |-> "none"]
    /\ reply = [c \in Calls |-> "none"] /\ lock = None
    /\ slot = 1 /\ spawned = 1 /\ alive = {1} /\ discarded = {} /\ working = {}
    /\ events = <<>> /\ fan = Ready
    /\ conn = [s \in Sessions |-> "open"] /\ loop = [s \in Sessions |-> Ready]
    /\ outbox = [s \in Sessions |-> {}] /\ todo \in Scripts
    /\ owner = [k \in Keys |-> None]
    /\ history = [cancelled |-> {}, revived |-> {}, stopped |-> {}, blamed |-> {},
                  notices |-> {}, controls |-> {}, crossed |-> {}, left |-> {}]

Comes(input) == input \in todo /\ todo' = todo \ {input}
Note(field, x) == history' = [history EXCEPT ![field] = @ \cup x]

\* MCP_TIMEOUT is set, in behaviours with "deadline" among their inputs.
Timed == <<"deadline">> \in todo

\* The pipe to a process is full from its "jam" (or from the start) to its
\* "drain"; a write to it ends once there is room, or the process is gone.
Jammed(g) == <<"drain", g>> \in todo /\ <<"jam", g>> \notin todo
Takes(g) == g \in alive => ~Jammed(g)

-----------------------------------------------------------------------------
(* A process that ends, by itself or killed: its pending senders are       *)
(* dropped, which wakes the calls that wait for it.                        *)

\* The sender of the call is in the map of the process; the line of one that
\* is "disowned" is still being written, and its sender is gone.
WaitsFor(c, g) == pc[c] \in {"writing", "waiting"} /\ gen[c] = g
HeldBy(c, g) == pc[c] \in {"writing", "disowned", "waiting"} /\ gen[c] = g

PcAfterEnd(g, next) == [c \in Calls |-> IF HeldBy(c, g) THEN "returned" ELSE next[c]]
ResultAfterEnd(g) == [c \in Calls |-> IF HeldBy(c, g) THEN "broken" ELSE result[c]]
Ended(g) == alive' = alive \ {g} /\ working' = {c \in working : gen[c] # g}

Live(g) == g # None /\ g \in alive

\* spawn_initialized has succeeded and the process goes into the slot.
Installed ==
    /\ spawned < MaxGens
    /\ spawned' = spawned + 1
    /\ slot' = spawned + 1

-----------------------------------------------------------------------------
(* The task of a call, from its spawn to its response. *)

Goto(c, label) == pc' = [pc EXCEPT ![c] = label]

\* The task ends: the guard of pass_through_lock is dropped.
Leave(c) == Goto(c, "done") /\ lock' = None

\* A message to a session whose loop has left is dropped.
Listens(s) == conn[s] \in {"open", "half"}
Posted(to, message) ==
    [s \in Sessions |-> IF s \in to /\ Listens(s)
                       THEN outbox[s] \cup {message} ELSE outbox[s]]

Send(c, verdict) ==
    /\ reply' = [reply EXCEPT ![c] = IF Listens(SessionOf[c]) THEN verdict ELSE "lost"]
    /\ outbox' = Posted({SessionOf[c]}, c)

\* Slip: the lock is not waited for.
AcquireAtOnce(c) ==
    /\ pc[c] = "queued"
    /\ IF HasRow(Key(c)) THEN Goto(c, "ensuring") /\ lock' = c
                         ELSE Goto(c, "done") /\ UNCHANGED lock
    /\ UNCHANGED <<lifetimeVars, gen, id, result, reply, backendVars, eventVars,
                   sessionVars, todo, owner, history>>

\* A call whose row went away while it was queued ends in silence.
Acquire(c) ==
    /\ pc[c] = "queued" /\ lock = None
    /\ IF HasRow(Key(c)) THEN Goto(c, "ensuring") /\ lock' = c
                         ELSE Goto(c, "done") /\ UNCHANGED lock
    /\ UNCHANGED <<lifetimeVars, gen, id, result, reply, backendVars, eventVars,
                   sessionVars, todo, owner, history>>

EnsureReuses(c) ==
    /\ pc[c] = "ensuring" /\ Live(slot)
    /\ Goto(c, "ensured")
    /\ UNCHANGED <<lifetimeVars, gen, id, result, reply, lock, backendVars, eventVars,
                   sessionVars, todo, owner, history>>

\* A respawn is followed by a refresh of the cache only if the slot still held
\* the process that died; an empty slot counts as a first spawn.
EnsureSpawns(c) ==
    /\ pc[c] = "ensuring" /\ ~Live(slot)
    /\ Installed
    /\ alive' = alive \cup {spawned + 1}
    /\ Goto(c, IF slot = None THEN "ensured" ELSE "refreshing")
    /\ UNCHANGED <<lifetimeVars, gen, id, result, reply, lock, discarded, working,
                   eventVars, sessionVars, todo, owner, history>>

\* What the refresh does to the cache is in DiscoveryCache; the clients hear of
\* one that succeeds, and a failure is only logged.
RefreshAfterSpawn(c) ==
    /\ pc[c] = "refreshing"
    /\ outbox' \in {outbox, Posted(Sessions, "notice")}
    /\ Goto(c, "ensured")
    /\ UNCHANGED <<lifetimeVars, gen, id, result, reply, lock, backendVars, eventVars, conn,
                   loop, todo, owner, history>>

\* Slip: the error goes out and the row stays.
EnsureFailsKeepingRow(c) ==
    /\ pc[c] = "ensuring" /\ ~Live(slot)
    /\ slot' \in {slot, None}
    /\ result' = [result EXCEPT ![c] = "noBackend"]
    /\ Goto(c, "removed")
    /\ UNCHANGED <<lifetimeVars, gen, id, reply, lock, spawned, alive, discarded,
                   working, eventVars, sessionVars, todo, owner, history>>

\* Three attempts, or the cooldown after them; a dead process leaves the slot.
EnsureFails(c) ==
    /\ pc[c] = "ensuring" /\ ~Live(slot)
    /\ slot' \in {slot, None}
    /\ result' = [result EXCEPT ![c] = "noBackend"]
    /\ Goto(c, "returned")
    /\ UNCHANGED <<lifetimeVars, gen, id, reply, lock, spawned, alive, discarded,
                   working, eventVars, sessionVars, todo, owner, history>>

\* Slip: the slot is taken to be full after ensure.
CloneUnchecked(c) ==
    /\ pc[c] = "ensured"
    /\ gen' = [gen EXCEPT ![c] = slot]
    /\ Goto(c, "cloned")
    /\ UNCHANGED <<lifetimeVars, id, result, reply, lock, backendVars, eventVars,
                   sessionVars, todo, owner, history>>

CloneSlot(c) ==
    /\ pc[c] = "ensured"
    /\ IF slot = None
       THEN /\ result' = [result EXCEPT ![c] = "noBackend"]
            /\ Goto(c, "returned")
            /\ UNCHANGED gen
       ELSE /\ gen' = [gen EXCEPT ![c] = slot]
            /\ Goto(c, "cloned")
            /\ UNCHANGED result
    /\ UNCHANGED <<lifetimeVars, id, reply, lock, backendVars, eventVars, sessionVars, todo,
                   owner, history>>

\* Slip: the number is not advanced.
SameId(g) == 1

\* Backend::next_request_id: a counter of each process, from one.
NextId(g) == 1 + Cardinality({c \in Calls : gen[c] = g /\ id[c] # None})

CheckRow(c) ==
    /\ pc[c] = "cloned"
    /\ \/ /\ ~HasRow(Key(c))
          /\ Leave(c)
          /\ UNCHANGED id
       \/ /\ HasRow(Key(c)) /\ NextId(gen[c]) \in BackendIds
          /\ id' = [id EXCEPT ![c] = NextId(gen[c])]
          /\ Goto(c, "checked")
          /\ UNCHANGED lock
    /\ UNCHANGED <<lifetimeVars, gen, result, reply, backendVars, eventVars,
                   sessionVars, todo, owner, history>>

BindRow(c) ==
    /\ pc[c] = "checked"
    /\ Bind(Key(c), id[c])
    /\ Goto(c, "bound")
    /\ UNCHANGED <<gen, id, result, reply, lock, backendVars, eventVars, sessionVars, todo,
                   owner, history>>

\* The sender goes into the map ...
Register(c) ==
    /\ pc[c] = "bound"
    /\ IF gen[c] \in alive
       THEN /\ Goto(c, "writing")
            /\ Note("revived", {c} \cap history.cancelled)
            /\ UNCHANGED result
       ELSE /\ Goto(c, "returned")
            /\ result' = [result EXCEPT ![c] = "broken"]
            /\ UNCHANGED history
    /\ UNCHANGED <<lifetimeVars, gen, id, reply, lock, backendVars, eventVars, sessionVars,
                   todo, owner>>

\* ... then the line into the pipe, before any timer runs; only after that does
\* the task see that its sender is gone.
Write(c) ==
    /\ pc[c] \in {"writing", "disowned"} /\ ~Jammed(gen[c])
    /\ Goto(c, IF pc[c] = "writing" THEN "waiting" ELSE "returned")
    /\ working' = working \cup {c}
    /\ UNCHANGED <<lifetimeVars, gen, id, result, reply, lock, slot, spawned, alive,
                   discarded, eventVars, sessionVars, todo, owner, history>>

\* The timer runs until the answer is in the caller's hands.
TimeOut(c) ==
    /\ Timed
    /\ pc[c] \in {"waiting", "delivering"}
    /\ discarded' = discarded \cup {c}
    /\ result' = [result EXCEPT ![c] = "timeout"]
    /\ Goto(c, "returned")
    /\ UNCHANGED <<lifetimeVars, gen, id, reply, lock, slot, spawned, alive, working,
                   eventVars, sessionVars, todo, owner, history>>

\* Slip: the row of a call that timed out is left to its late answer.
KeepTimedOutRow(c) ==
    /\ pc[c] = "returned"
    /\ result[c] = "timeout" => Takes(gen[c])
    /\ IF result[c] = "timeout" THEN UNCHANGED lifetimeVars ELSE Remove(Key(c))
    /\ Goto(c, "removed")
    /\ UNCHANGED <<gen, id, result, reply, lock, backendVars, eventVars, sessionVars, todo,
                   owner, history>>

\* A call that timed out has written its cancellation first.
RemoveRow(c) ==
    /\ pc[c] = "returned"
    /\ result[c] = "timeout" => Takes(gen[c])
    /\ Remove(Key(c))
    /\ Goto(c, "removed")
    /\ UNCHANGED <<gen, id, result, reply, lock, backendVars, eventVars, sessionVars, todo,
                   owner, history>>

\* Slip: the error path forgets the lock.
RespondKeepingLock(c) ==
    /\ pc[c] = "removed" /\ result[c] \in {"ok", "timeout", "noBackend"}
    /\ Send(c, result[c])
    /\ Goto(c, "done")
    /\ lock' = IF result[c] = "ok" THEN None ELSE lock
    /\ UNCHANGED <<lifetimeVars, gen, id, result, backendVars, eventVars, conn, loop,
                   todo, owner, history>>

Respond(c) ==
    /\ pc[c] = "removed" /\ result[c] \in {"ok", "timeout", "noBackend"}
    /\ Send(c, result[c])
    /\ Leave(c)
    /\ UNCHANGED <<lifetimeVars, gen, id, result, backendVars, eventVars, conn, loop,
                   todo, owner, history>>

\* is_discarding_response: the call was cancelled.
Abandon(c) ==
    /\ pc[c] = "removed" /\ result[c] = "broken" /\ c \in discarded
    /\ Leave(c)
    /\ UNCHANGED <<lifetimeVars, gen, id, result, reply, backendVars, eventVars,
                   sessionVars, todo, owner, history>>

\* Slip: only the log hears of a backend that failed.
GiveUp(c) ==
    /\ pc[c] = "removed" /\ result[c] = "broken" /\ c \notin discarded
    /\ Leave(c)
    /\ UNCHANGED <<lifetimeVars, gen, id, result, reply, backendVars, eventVars,
                   sessionVars, todo, owner, history>>

\* The check under the pending lock ...
DetectFailure(c) ==
    /\ pc[c] = "removed" /\ result[c] = "broken" /\ c \notin discarded
    /\ Goto(c, "failed")
    /\ UNCHANGED <<lifetimeVars, gen, id, result, reply, lock, backendVars, eventVars,
                   sessionVars, todo, owner, history>>

\* ... and then the slot is emptied, whatever process is in it by now.
EmptySlot(c) ==
    /\ pc[c] = "failed"
    /\ slot' = None
    /\ Ended(slot)
    /\ Note("blamed", IF Live(slot) THEN {slot} ELSE {})
    /\ pc' = PcAfterEnd(slot, [pc EXCEPT ![c] = "reporting"])
    /\ result' = ResultAfterEnd(slot)
    /\ UNCHANGED <<lifetimeVars, gen, id, reply, lock, spawned, discarded, eventVars,
                   sessionVars, todo, owner>>

Report(c) ==
    /\ pc[c] = "reporting"
    /\ Send(c, "failed")
    /\ Leave(c)
    /\ UNCHANGED <<lifetimeVars, gen, id, result, backendVars, eventVars, conn, loop,
                   todo, owner, history>>

-----------------------------------------------------------------------------
(* The backend processes (external) as the reader task reports them.       *)

\* The acknowledgements the reader of process g holds go to an answer, or with
\* one that nobody waits for.
AcksGo(g, to) ==
    [i \in DOMAIN events |->
        IF events[i].kind = "progress" /\ events[i].ack = "reader"
              /\ gen[events[i].call] = g
        THEN [events[i] EXCEPT !.ack = to] ELSE events[i]]

Answer(c) ==
    /\ c \in working /\ gen[c] \in alive
    /\ working' = working \ {c}
    /\ \/ /\ pc[c] = "waiting"
          /\ Goto(c, "delivering")
          /\ events' = AcksGo(gen[c], c)
          /\ UNCHANGED discarded
       \/ /\ pc[c] # "waiting"
          /\ discarded' = discarded \ {c}
          /\ events' = AcksGo(gen[c], None)
          /\ UNCHANGED pc
    /\ UNCHANGED <<lifetimeVars, gen, id, result, reply, lock, slot, spawned, alive, fan,
                   sessionVars, todo, owner, history>>

\* The answer is held until the progress it waits for has been consumed.
Deliver(c) ==
    /\ pc[c] = "delivering"
    /\ \A i \in DOMAIN events : events[i].kind = "progress" => events[i].ack # c
    /\ result' = [result EXCEPT ![c] = "ok"]
    /\ Goto(c, "returned")
    /\ UNCHANGED <<lifetimeVars, gen, id, reply, lock, backendVars, eventVars,
                   sessionVars, todo, owner, history>>

Emit(c, kind) ==
    /\ c \in working /\ gen[c] \in alive
    /\ kind = "progress" => TokenOf[c] # None
    /\ Comes(<<"emit", <<c, kind>>>>)
    /\ events' = Append(events, IF kind = "progress"
                                THEN [kind |-> kind, call |-> c, ack |-> "reader"]
                                ELSE [kind |-> kind, call |-> c])
    /\ UNCHANGED <<lifetimeVars, taskVars, backendVars, fan, sessionVars, owner, history>>

\* A process stops to read its stdin, until it goes on.
Jam(g) ==
    /\ g \in alive
    /\ Comes(<<"jam", g>>)
    /\ UNCHANGED <<lifetimeVars, taskVars, backendVars, eventVars, sessionVars, owner, history>>

Drain(g) ==
    /\ Jammed(g)
    /\ Comes(<<"drain", g>>)
    /\ UNCHANGED <<lifetimeVars, taskVars, backendVars, eventVars, sessionVars, owner, history>>

Exit(g) ==
    /\ g \in alive
    /\ Comes(<<"exit", g>>)
    /\ Ended(g)
    /\ pc' = PcAfterEnd(g, pc) /\ result' = ResultAfterEnd(g)
    /\ UNCHANGED <<lifetimeVars, gen, id, reply, lock, slot, spawned, discarded,
                   eventVars, sessionVars, owner, history>>

-----------------------------------------------------------------------------
(* Cancelling a call that may be pending in process g under id b: the      *)
(* tombstone and the end of the wait, or nothing if no sender is there.    *)

\* A task that is still writing goes on with that.
AfterDiscard(c) == IF pc[c] = "writing" THEN "disowned" ELSE "returned"

\* Slip: an answer that was taken and waits for its progress is cancelled too.
DiscardTaken(g, b) ==
    LET hit == {c \in Calls : gen[c] = g /\ id[c] = b
                               /\ pc[c] \in {"writing", "waiting", "delivering"}}
    IN  /\ discarded' = discarded \cup hit
        /\ pc' = [c \in Calls |-> IF c \in hit THEN AfterDiscard(c) ELSE pc[c]]
        /\ result' = [c \in Calls |-> IF c \in hit THEN "broken" ELSE result[c]]

Discard(g, b) ==
    LET hit == {c \in Calls : WaitsFor(c, g) /\ id[c] = b}
    IN  /\ discarded' = discarded \cup hit
        /\ pc' = [c \in Calls |-> IF c \in hit THEN AfterDiscard(c) ELSE pc[c]]
        /\ result' = [c \in Calls |-> IF c \in hit THEN "broken" ELSE result[c]]

-----------------------------------------------------------------------------
(* The fan-out task.                                                       *)

TakeProgress ==
    /\ fan = Ready /\ events # <<>> /\ Head(events).kind = "progress"
    /\ events' = Tail(events)
    /\ outbox' = Posted({SessionOfToken(TokenOf[Head(events).call])}, "notice")
    /\ UNCHANGED <<lifetimeVars, taskVars, backendVars, fan, conn, loop, todo,
                   owner, history>>

\* A cancellation by the backend is looked up for the process that is in the
\* slot now; without one it is dropped.
TakeCancel ==
    /\ fan = Ready /\ events # <<>> /\ Head(events).kind = "cancel"
    /\ events' = Tail(events)
    /\ fan' = IF slot = None THEN Ready
              ELSE [at |-> "translate", call |-> Head(events).call, gen |-> slot]
    /\ UNCHANGED <<lifetimeVars, taskVars, backendVars, sessionVars, todo, owner, history>>

\* The table part of translate_backend_cancel: the event names an id, not a
\* process.
TranslateCancel ==
    /\ fan.at = "translate"
    /\ LET b == id[fan.call] IN
         \/ /\ ~NamesRow(b)
            /\ fan' = Ready
            /\ UNCHANGED <<lifetimeVars, history>>
         \/ /\ RemoveByBackend(b)
            /\ fan' = [at |-> "discard", id |-> b, gen |-> fan.gen,
                       session |-> clientByBackend[b][1]]
            /\ history' = [history EXCEPT
                   !.cancelled = @ \cup {owner[clientByBackend[b]]},
                   !.notices = @ \cup {<<fan.call, owner[clientByBackend[b]]>>}]
    /\ UNCHANGED <<taskVars, backendVars, events, sessionVars, todo, owner>>

\* Slip: the client is not told.
DiscardUnheard ==
    /\ fan.at = "discard"
    /\ Discard(fan.gen, fan.id)
    /\ fan' = Ready
    /\ UNCHANGED <<lifetimeVars, gen, id, reply, lock, slot, spawned, alive, working,
                   events, sessionVars, todo, owner, history>>

DiscardCancelled ==
    /\ fan.at = "discard"
    /\ Discard(fan.gen, fan.id)
    /\ outbox' = Posted({fan.session}, "notice")
    /\ fan' = Ready
    /\ UNCHANGED <<lifetimeVars, gen, id, reply, lock, slot, spawned, alive, working,
                   events, conn, loop, todo, owner, history>>

-----------------------------------------------------------------------------
(* The session loops.  Each line the client sends is handled to its end    *)
(* before the next is read.                                                *)

Reading(s) == conn[s] = "open" /\ loop[s] = Ready
Continue(s, where) == loop' = [loop EXCEPT ![s] = where]

Request(c) ==
    /\ pc[c] = "unsent"
    /\ Reading(SessionOf[c])
    /\ \/ /\ Admit(Key(c), TokenOf[c])
          /\ Goto(c, "queued")
          /\ owner' = [owner EXCEPT ![Key(c)] = c]
          /\ UNCHANGED <<reply, outbox>>
       \/ /\ HasRow(Key(c))
          /\ Goto(c, "done")
          /\ Send(c, "duplicate")
          /\ UNCHANGED <<lifetimeVars, owner>>
    /\ UNCHANGED <<gen, id, result, lock, backendVars, eventVars, conn, loop, todo,
                   history>>

\* A cancellation line: the process in the slot is cloned first, and without a
\* live one the line is dropped, queued call or not.
CancelLine(k) ==
    /\ Reading(k[1])
    /\ Comes(<<"cancel", k>>)
    /\ loop' = IF Live(slot)
               THEN [loop EXCEPT ![k[1]] = [at |-> "cancelling", key |-> k, gen |-> slot]]
               ELSE loop
    /\ UNCHANGED <<lifetimeVars, taskVars, backendVars, eventVars, conn, outbox,
                   owner, history>>

\* The table part of cancel_client_request_for_owner.
CancelRow(s) ==
    /\ loop[s].at = "cancelling"
    /\ LET k == loop[s].key
           b == backendOf[k]
       IN  /\ Remove(k)
           /\ Continue(s, IF IsBound(k)
                          THEN [at |-> "discarding", key |-> k, id |-> b, gen |-> loop[s].gen]
                          ELSE IF HasRow(k) THEN Ready
                          ELSE [at |-> "unmatched", key |-> k, gen |-> loop[s].gen])
           /\ Note("cancelled", IF HasRow(k) THEN {owner[k]} ELSE {})
    /\ UNCHANGED <<taskVars, backendVars, eventVars, conn, outbox, todo, owner>>

Telling(g) == [at |-> "telling", gen |-> g]

\* cancel_pending_request, in the process cloned before ...
CancelPending(s) ==
    /\ loop[s].at = "discarding"
    /\ Discard(loop[s].gen, loop[s].id)
    /\ Continue(s, IF \E c \in Calls : WaitsFor(c, loop[s].gen) /\ id[c] = loop[s].id
                   THEN Telling(loop[s].gen)
                   ELSE [at |-> "unmatched", key |-> loop[s].key, gen |-> loop[s].gen])
    /\ UNCHANGED <<lifetimeVars, gen, id, reply, lock, slot, spawned, alive, working,
                   eventVars, conn, outbox, todo, owner, history>>

\* ... which is told.  The loop reads nothing before the line is written.
TellBackend(s) ==
    /\ loop[s].at = "telling" /\ Takes(loop[s].gen)
    /\ Continue(s, Ready)
    /\ UNCHANGED <<lifetimeVars, taskVars, backendVars, eventVars, conn, outbox, todo, owner,
                   history>>

\* Without a row or without a sender, the line is taken to be about the peer
\* request of that id, which is then cancelled in its backend.
CancelPeer(s) ==
    /\ loop[s].at = "unmatched"
    /\ \/ /\ TakePeer(loop[s].key) /\ Note("crossed", {loop[s].key})
          /\ Continue(s, Telling(loop[s].gen))
       \/ /\ peerToken[loop[s].key] = Absent /\ UNCHANGED <<lifetimeVars, history>>
          /\ Continue(s, Ready)
    /\ UNCHANGED <<taskVars, backendVars, eventVars, conn, outbox, todo, owner>>

\* A stop or a restart: the number of active calls is read first ...
ControlLine(s, command) ==
    /\ Reading(s)
    /\ Comes(<<"control", command>>)
    /\ Note("controls", {command})
    /\ Continue(s, [at |-> "gate", command |-> command, active |-> Cardinality(Rows)])
    /\ UNCHANGED <<lifetimeVars, taskVars, backendVars, eventVars, conn, outbox,
                   owner>>

\* ... and decides whether it is refused, as a restart is in the cooldown ...
ControlRefused(s) ==
    /\ loop[s].at = "gate"
    /\ \/ loop[s].active > 0 /\ loop[s].command # "force"
       \/ loop[s].command = "restart"
    /\ Continue(s, Ready)
    /\ UNCHANGED <<lifetimeVars, taskVars, backendVars, eventVars, conn, outbox, todo,
                   owner, history>>

\* Calls that are at the backend in the slot.
AtBackend == {c \in Calls : pc[c] \in {"bound", "writing", "waiting"} /\ gen[c] = slot}

\* ... or takes the backend out of the slot and kills it.
ControlTakes(s) ==
    /\ loop[s].at = "gate"
    /\ loop[s].active = 0 \/ loop[s].command = "force"
    /\ slot' = None
    /\ Ended(slot)
    /\ pc' = PcAfterEnd(slot, pc) /\ result' = ResultAfterEnd(slot)
    /\ Note("stopped", IF loop[s].command # "force" /\ Live(slot) THEN AtBackend ELSE {})
    /\ Continue(s, IF loop[s].command = "stop" THEN Ready ELSE [at |-> "spawning"])
    /\ UNCHANGED <<lifetimeVars, gen, id, reply, lock, spawned, discarded, eventVars,
                   conn, outbox, todo, owner>>

\* The new process is written over what is in the slot by now; that process is
\* not killed.  Or the spawn fails.
RestartSpawns(s) ==
    /\ loop[s].at = "spawning"
    /\ \/ /\ Installed
          /\ alive' = alive \cup {spawned + 1}
          /\ Continue(s, [at |-> "refreshing"])
       \/ /\ Continue(s, Ready)
          /\ UNCHANGED <<slot, spawned, alive>>
    /\ UNCHANGED <<lifetimeVars, taskVars, discarded, working, eventVars, conn, outbox,
                   todo, owner, history>>

RestartRefreshes(s) ==
    /\ loop[s].at = "refreshing"
    /\ outbox' \in {outbox, Posted(Sessions, "notice")}
    /\ Continue(s, Ready)
    /\ UNCHANGED <<lifetimeVars, taskVars, backendVars, eventVars, conn, todo, owner,
                   history>>

\* A message goes out to the client.
WriteOut(s, message) ==
    /\ message \in outbox[s] /\ loop[s] = Ready /\ Listens(s)
    /\ outbox' = [outbox EXCEPT ![s] = @ \ {message}]
    /\ Continue(s, IF conn[s] = "half" THEN Top ELSE Ready)
    /\ UNCHANGED <<lifetimeVars, taskVars, backendVars, eventVars, conn, todo, owner,
                   history>>

\* The client closes its end after its last line.
HalfClose(s) ==
    /\ Reading(s)
    /\ Comes(<<"leave", s>>)
    /\ conn' = [conn EXCEPT ![s] = "half"]
    /\ Continue(s, Top)
    /\ UNCHANGED <<lifetimeVars, taskVars, backendVars, eventVars, outbox, owner,
                   history>>

\* Calls whose row is gone and whose answer has not been handed over yet.
Answering == {"removed", "failed", "reporting"}

\* Slip: the rows are not looked at.
CheckOutboxOnly(s) ==
    /\ loop[s] = Top
    /\ IF outbox[s] = {}
       THEN /\ conn' = [conn EXCEPT ![s] = "closed"]
            /\ Note("left", {c \in Calls : SessionOf[c] = s /\ pc[c] \in Answering})
       ELSE UNCHANGED <<conn, history>>
    /\ Continue(s, Ready)
    /\ UNCHANGED <<lifetimeVars, taskVars, backendVars, eventVars, outbox, todo, owner>>

\* The loop of a half-closed session ends if none of its rows is left and
\* nothing waits to be written, and leaves the calls between their row and their
\* answer behind.  It looks at the end of the input and after each message; in
\* between it sleeps until a message comes.
CheckClosed(s) ==
    /\ loop[s] = Top
    /\ IF RowsOfSession(s) = {} /\ outbox[s] = {}
       THEN /\ conn' = [conn EXCEPT ![s] = "closed"]
            /\ Note("left", {c \in Calls : SessionOf[c] = s /\ pc[c] \in Answering})
       ELSE UNCHANGED <<conn, history>>
    /\ Continue(s, Ready)
    /\ UNCHANGED <<lifetimeVars, taskVars, backendVars, eventVars, outbox, todo, owner>>

\* The client is gone: a write to it fails and the loop ends at once.
Break(s) ==
    /\ Listens(s) /\ loop[s] = Ready /\ outbox[s] # {}
    /\ Comes(<<"gone", s>>)
    /\ conn' = [conn EXCEPT ![s] = "broken"]
    /\ outbox' = [outbox EXCEPT ![s] = {}]
    /\ Note("left", {c \in Calls : SessionOf[c] = s})
    /\ UNCHANGED <<lifetimeVars, taskVars, backendVars, eventVars, loop, owner>>

-----------------------------------------------------------------------------
TaskStep(c) ==
    \/ Acquire(c) \/ EnsureReuses(c) \/ EnsureSpawns(c) \/ EnsureFails(c)
    \/ RefreshAfterSpawn(c) \/ CloneSlot(c) \/ CheckRow(c) \/ BindRow(c) \/ Register(c)
    \/ Write(c) \/ Deliver(c) \/ TimeOut(c) \/ RemoveRow(c) \/ Respond(c) \/ Abandon(c) \/ DetectFailure(c)
    \/ EmptySlot(c) \/ Report(c)

FanStep == TakeProgress \/ TakeCancel \/ TranslateCancel \/ DiscardCancelled

\* What a session loop goes on to do by itself.
LoopStep(s) ==
    \/ CancelRow(s) \/ CancelPending(s) \/ CancelPeer(s) \/ TellBackend(s)
    \/ ControlRefused(s) \/ ControlTakes(s) \/ RestartSpawns(s) \/ RestartRefreshes(s)
    \/ CheckClosed(s)
    \/ \E message \in Messages : WriteOut(s, message)

ClientStep ==
    \/ \E c \in Calls : Request(c)
    \/ \E k \in Keys : CancelLine(k)
    \/ \E s \in Sessions, command \in Commands : ControlLine(s, command)
    \/ \E s \in Sessions : HalfClose(s) \/ Break(s)

BackendStep ==
    \/ \E c \in Calls : Answer(c)
    \/ \E e \in Emits : Emit(e[1], e[2])
    \/ \E g \in Gens : Exit(g) \/ Jam(g) \/ Drain(g)

Next ==
    \/ \E c \in Calls : TaskStep(c)
    \/ FanStep
    \/ \E s \in Sessions : LoopStep(s)
    \/ ClientStep
    \/ BackendStep

\* Every spawned task that is ready runs on, timers fire and a spawn comes to
\* an end one way or the other; clients and backends owe nothing.
Fairness ==
    /\ \A c \in Calls : WF_vars(TaskStep(c))
    /\ \A s \in Sessions : WF_vars(LoopStep(s))
    /\ WF_vars(FanStep)

Spec == Init /\ [][Next]_vars
FairSpec == Spec /\ Fairness
-----------------------------------------------------------------------------
\* Labels between taking pass_through_lock and dropping it.
Holding == {"ensuring", "ensured", "refreshing", "cloned", "checked", "bound", "writing",
            "disowned", "waiting", "delivering", "returned", "removed", "failed", "reporting"}
Verdicts == {"none", "ok", "timeout", "noBackend", "failed", "duplicate", "lost"}

(* Types of the task, backend and session state.                           *)
BrokerTypeOK ==
    /\ pc \in [Calls -> Holding \cup {"unsent", "queued", "done"}]
    /\ gen \in [Calls -> Gens \cup {None}]
    /\ id \in [Calls -> BackendIds \cup {None}]
    /\ \A c \in Calls : pc[c] \in {"cloned", "checked", "bound", "writing", "disowned", "waiting",
                               "delivering"} => gen[c] # None
    /\ result \in [Calls -> {"none", "ok", "broken", "timeout", "noBackend"}]
    /\ reply \in [Calls -> Verdicts]
    /\ lock \in Calls \cup {None}
    /\ slot \in Gens \cup {None} /\ spawned \in Gens /\ alive \subseteq Gens
    /\ discarded \subseteq Calls /\ working \subseteq Calls
    /\ conn \in [Sessions -> {"open", "half", "closed", "broken"}]
    /\ outbox \in [Sessions -> SUBSET Messages]
    /\ owner \in [Keys -> Calls \cup {None}]

(* At most one row names a backend id, and it is the row of the call that   *)
(* holds pass_through_lock, under the id that call drew: so a peer request *)
(* of the backend has one session to go to, and every way out of a call    *)
(* takes its row along before the lock is dropped.                         *)
OneBoundRow ==
    \A k \in Keys : IsBound(k) =>
        /\ lock # None /\ Key(lock) = k /\ backendOf[k] = id[lock]
        /\ pc[lock] \in {"bound", "writing", "disowned", "waiting", "delivering", "returned"}

\* What has become of a call: answered is one whose answer a session has taken,
\* which then writes it unless its client is gone.
Stage(c) ==
    CASE pc[c] = "unsent" -> "unsent"
      [] pc[c] # "unsent" /\ reply[c] \notin {"none", "lost"} -> "answered"
      [] pc[c] = "done" /\ reply[c] \in {"none", "lost"} -> "dropped"
      [] OTHER -> "pending"
Stages == [c \in Calls |-> Stage(c)]

\* Nobody has asked for a restart: only calls put a process into the slot.
Unrestarted == history.controls \subseteq {"stop"}

\* Calls that may end in silence.
Forfeited == IF Unrestarted THEN history.cancelled \cup history.left ELSE Calls

Service == INSTANCE CallService WITH stage <- Stages, served <- lock, forfeit <- Forfeited

(* The daemon serves its calls as CallService says: one at a time, and as   *)
(* long as nobody restarts the backend a call ends in silence, or with an  *)
(* answer nobody takes, only if its client or its backend cancelled it, if *)
(* its client is gone, or if the loop of its half-closed session has left  *)
(* between the removal of its row and its answer (743-793, 411-418; the    *)
(* handbook has the response first).  Raw ids are not used twice.  (With a *)
(* restart, a cancellation that knows the old process may hit the call that *)
(* has the same number in the new one.)                                    *)
CallServiceSpec == Service!ServiceSpec

\* What the channel to process g would say of a call.
OutcomeIn(c, g) ==
    CASE gen[c] # g -> "unsent"
      [] gen[c] = g /\ result[c] = "ok" -> "answered"
      [] gen[c] = g /\ result[c] = "timeout" -> "timedOut"
      [] gen[c] = g /\ result[c] = "broken" ->
            CASE pc[c] \in {"disowned", "returned", "removed"} -> "broken"
              [] pc[c] = "done" /\ reply[c] = "none" -> "abandoned"
              [] OTHER -> "failed"
      [] OTHER ->
            CASE pc[c] \in {"writing", "waiting"} -> "open"
              [] pc[c] = "delivering" -> "taken"
              [] OTHER -> "unsent"
OutcomesIn(g) == [c \in Calls |-> OutcomeIn(c, g)]
SilencedIn(g) == {c \in Calls : c \in discarded /\ gen[c] = g}
\* A process that has yet to be started has not ended.
ProcessOf(g) == IF g \in alive \/ g > spawned THEN "running" ELSE "closed"
AtChannel(g) == <<OutcomesIn(g), SilencedIn(g), ProcessOf(g)>>

\* Some behaviour has a deadline.
Deadlines == \E script \in Scripts : <<"deadline">> \in script

Channel(g) ==
    INSTANCE ChannelService WITH
        TimedCalls <- IF Deadlines THEN Calls ELSE {},
        outcome <- OutcomesIn(g), silenced <- SilencedIn(g), process <- ProcessOf(g)

(* What the broker takes the channel to each of its processes for is what  *)
(* BackendChannel has been shown to keep: whatever the calls, the sessions *)
(* and the controls do at one process or another, a request ends once,     *)
(* nobody takes an answer back but its own deadline, and an id is silenced *)
(* exactly when its call was given up.                                     *)
ChannelsUsedAsPromised ==
    /\ \A g \in Gens : Channel(g)!ServiceInit
    /\ [][\A g \in Gens : [Channel(g)!ServiceNext]_(AtChannel(g))]_vars

(* No row outlives its call: every row is owned by a task that has yet to   *)
(* remove it.  A row left over would block stop and restart for ever, and  *)
(* keep a half-closed session from ending.                                 *)
NoOrphanRow ==
    \A k \in Keys : HasRow(k) =>
        \E c \in Calls : Key(c) = k /\ pc[c] \notin {"unsent", "done"} \cup Answering

\* No process leaves its pipe full and runs on for ever.
PipesDrain == \A g \in Gens : []<>Takes(g)

\* No process keeps a call it has been sent and runs on for ever.
BackendsAnswer == \A c \in Calls : []<>(c \notin working)

\* What it takes to get rid of a process that hangs: MCP_TIMEOUT is unset by
\* default, and no timer runs before the line is written.
CallsReturn == PipesDrain /\ (Timed \/ BackendsAnswer)

(* Every admitted call comes to its end, whatever the other calls, the      *)
(* sessions and the controls do, if no process stops reading its pipe for   *)
(* good and either a request timeout is set or the processes answer: no     *)
(* task waits for ever with pass_through_lock in its hand.                  *)
AdmittedCallEnds == CallsReturn => \A c \in Calls : pc[c] = "queued" ~> pc[c] = "done"

(* A loop that sleeps after its client has closed its end has somebody to   *)
(* wake it: a call of the session that keeps its row or has yet to answer, *)
(* or the notice of a cancellation.  The row of a call that ends in        *)
(* silence has gone before, and whoever took it has sent a message.        *)
SleeperIsWoken ==
    Unrestarted => \A s \in Sessions :
        conn[s] = "half" /\ loop[s] = Ready /\ outbox[s] = {} =>
            \/ \E c \in Calls : SessionOf[c] = s /\
                  \/ HasRow(Key(c))
                  \/ pc[c] = "removed" /\ ~(result[c] = "broken" /\ c \in discarded)
                  \/ pc[c] \in {"failed", "reporting"}
            \/ fan.at = "discard" /\ fan.session = s

(* So a session whose client has closed its end goes away, under the same   *)
(* conditions and unless somebody has asked for a restart.  (After one a   *)
(* cancellation that knows the other process may end a call of this session *)
(* which has the same number, row, silence and all: nobody wakes the loop,  *)
(* and it stays.)  That it does not leave too early is CallServiceSpec's.  *)
HalfClosedSessionEnds ==
    CallsReturn =>
        \A s \in Sessions : conn[s] = "half" /\ Unrestarted
                               ~> conn[s] \in {"closed", "broken"} \/ ~Unrestarted

(* A call that fails takes a process that runs out of the slot only after a *)
(* cancellation or a restart has come in between: without them the process *)
(* it empties the slot of is the one it was sent to, which is gone.        *)
HealthyBackendKept ==
    history.cancelled = {} /\ Unrestarted => history.blamed = {}

(* The backend's cancellation of a call never ends another call of the same *)
(* process (of another process it may: the notice carries an id only).      *)
NoticeEndsItsCall ==
    \A pair \in history.notices : gen[pair[1]] = gen[pair[2]] => pair[1] = pair[2]

-----------------------------------------------------------------------------
(* What documents say and the code does not do. *)

(* A call cancelled before it was sent is neither sent nor answered         *)
(* (flow.html: a late response is discarded).                               *)
CancelledNotAnswered == \A c \in history.revived : reply[c] \in {"none", "lost"}

(* A stop or an unforced restart never hits a backend that works on a call *)
(* (README: nor may one session do that to another).                       *)
GateHolds == history.stopped = {}
=============================================================================
