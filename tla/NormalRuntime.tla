------------------------------ MODULE NormalRuntime ------------------------------
(***************************************************************************)
(* Normal mode, from src/src/runtime_manager.rs: one stdio client, one     *)
(* loop that reads its lines, consumes the backend's events and writes its *)
(* messages, a task for each pass-through call, one for each list_changed  *)
(* notification, and the idle reaper.                                      *)
(*                                                                         *)
(* A step is what runs between two awaits at which another task can get    *)
(* in.  Where a line goes is decided by EventPlane and WrapperTool, the    *)
(* rows are RequestLifetime's with the one client as the only session; the *)
(* channel and the slot appear as BackendChannel and BackendSlot describe  *)
(* them.  Pipes have room: a write to the backend or the client ends.      *)
(***************************************************************************)
EXTENDS RequestLifetime, EventPlane, WrapperTool

CONSTANTS
    Lines,     \* lines the client may send
    Says,      \* what is in each line
    Split,     \* lines that come in two pieces
    Emits,     \* messages a backend may emit besides its answers
    EmitSays,  \* what is in each
    Scripts,   \* bound: the inputs of one behaviour, each used at most once
    MaxGens    \* bound: backend processes that come up

Inputs == ({"line"} \X Lines) \cup ({"emit"} \X Emits)
              \cup {<<"eof">>, <<"signal">>, <<"gone">>, <<"reap">>, <<"die">>, <<"deadline">>}

ASSUME NormalAssumption ==
    /\ Cardinality(Sessions) = 1 /\ IsFiniteSet(Lines)
    /\ \A l \in Lines : Says[l].id \in RawIds /\ Says[l].token \in Tokens \cup {None}
    /\ \A e \in Emits : EmitSays[e].id \in RawIds /\ EmitSays[e].token \in Tokens \cup {None}
    /\ Split \subseteq Lines
    /\ \A script \in Scripts : script \subseteq Inputs
    /\ MaxGens \in Nat \ {0}
    /\ None \notin Nat \cup Lines

Gens == 1 .. MaxGens
Client == CHOOSE s \in Sessions : TRUE

IsToolLine(l) == IsWrapperToolRequest(Says[l].method, Says[l].tool)

Route == [l \in Lines |->
    IF IsToolLine(l) THEN "WrapperTool" ELSE RouteForClientRequest(Says[l].method)]

\* Pass-through requests; the line is the call.
Calls == {l \in Lines : Says[l].kind = "request" /\ Route[l] = "PassThrough"}

\* What a line asks of the wrapper itself.
Control == [l \in Lines |->
    CASE Route[l] = "WrapperControl" -> LegacyControlOf(Says[l].method)
      [] Route[l] = "WrapperTool" /\ ~Refused(Says[l].args) -> ActionOf(Says[l].args)
      [] OTHER -> "none"]
Forced(l) ==
    IF Route[l] = "WrapperTool" THEN Forces(Says[l].args) ELSE Says[l].args.force = "true"

Key(l) == <<Client, Says[l].id>>
TokenOf(l) == Says[l].token
Dropped == [l \in Lines |-> ShouldDropClientNotification(Says[l].method)]
ClientProgram == [l \in Lines |-> NotificationProgram("c2s", Says[l].method)]
Program == [e \in Emits |-> NotificationProgram("s2c", EmitSays[e].method)]
Invalidated == [e \in Emits |-> ListChangedDataKeys(EmitSays[e].method)]

VARIABLES
    todo,         \* inputs that have not come yet
    half,         \* the line whose first piece read_line holds
    stdinClosed,
    loop,         \* where the loop is
    outq,         \* out_rx: answers, and "notice" for whatever else goes to the client
    pc, gen, id, result, reply, lock,  \* the call tasks, as in the broker
    slot, spawned, alive, discarded, working,  \* the slot and the processes
    leaving,      \* processes that ended and whose ProcessExit is not sent yet
    events,       \* notif_rx
    acks,         \* progress_acks of each reader
    awaits,       \* the acknowledgements an answer waits for
    jobs,         \* list_changed notifications a spawned task refreshes the cache for
    reaper,       \* the idle reaper
    history       \* history: what happened to lines, for the properties

inVars == <<todo, half, stdinClosed>>
taskVars == <<pc, gen, id, result, reply, lock>>
procVars == <<slot, spawned, alive, leaving>>
backendVars == <<procVars, discarded, working>>
eventVars == <<events, acks, awaits>>
vars == <<lifetimeVars, inVars, loop, outq, taskVars, backendVars, eventVars, jobs, reaper,
          history>>

Select == [at |-> "select"]
Top == [at |-> "top"]
Sleep == [at |-> "sleep"]
Resume == IF stdinClosed THEN Top ELSE Select
Asleep == [at |-> "asleep"]

Init ==
    /\ LifetimeInit
    /\ todo \in Scripts /\ half = None /\ stdinClosed = FALSE
    /\ loop = Select /\ outq = {}
    /\ pc = [c \in Calls |-> "unsent"] /\ gen = [c \in Calls |-> None]
    /\ id = [c \in Calls |-> None] /\ result = [c \in Calls |-> "none"]
    /\ reply = [c \in Calls |-> "none"] /\ lock = None
    /\ slot = None /\ spawned = 0 /\ alive = {} /\ leaving = {}
    /\ discarded = {} /\ working = {}
    /\ events = <<>> /\ acks = [g \in Gens |-> {}] /\ awaits = [c \in Calls |-> {}]
    /\ jobs = {} /\ reaper = Asleep
    /\ history = [cut |-> {}, sent |-> {}, cancelled |-> {}, killed |-> {}, written |-> {},
                    restarted |-> {}]

Comes(input) == input \in todo /\ todo' = todo \ {input}

\* "reap" and "deadline" are not used up.  The idle reaper is there in behaviours
\* that are long enough for it, and so is a deadline where MCP_TIMEOUT is set.
Reaped == <<"reap">> \in todo
Timed == <<"deadline">> \in todo

Note(field, x) == history' = [history EXCEPT ![field] = @ \cup x]
Post(message) == outq' = outq \cup {message}

-----------------------------------------------------------------------------
(* Processes. *)

Live(g) == g # None /\ g \in alive
WaitsFor(c, g) == pc[c] = "waiting" /\ gen[c] = g

\* A process that ends wakes the calls that wait for it.
Ended(g) ==
    /\ alive' = alive \ {g}
    /\ leaving' = leaving \cup (alive \cap {g})
    /\ working' = {c \in working : gen[c] # g}
    /\ result' = [c \in Calls |-> IF WaitsFor(c, g) THEN "broken" ELSE result[c]]

PcAfterEnd(g, next) == [c \in Calls |-> IF WaitsFor(c, g) THEN "returned" ELSE next[c]]

\* BackendSlot: take() and kill() under the lock of the slot.
EmptiesSlot(next) == slot' = None /\ Ended(slot) /\ pc' = PcAfterEnd(slot, next)

Installed ==
    /\ spawned < MaxGens
    /\ spawned' = spawned + 1
    /\ slot' = spawned + 1
    /\ alive' = alive \cup {spawned + 1}

\* Calls that are at the process in the slot, or about to be sent to it.
AtProcess == {"cloned", "refreshing", "admitted", "bound", "waiting", "delivering"}
AtBackend == {c \in Calls : gen[c] = slot /\ pc[c] \in AtProcess}
Dispatched == {c \in Calls : pc[c] # "unsent"}

-----------------------------------------------------------------------------
(* The task of a call.                                                     *)

Goto(c, label) == pc' = [pc EXCEPT ![c] = label]

\* Slip: only calls that have a row count, as in the daemon.
ActiveRows == Cardinality(Rows)

\* ActiveCallGuard: counted from the dispatch to the end of the task.
Active == Cardinality({c \in Calls : pc[c] \notin {"unsent", "done"}})

\* Slip: the lock is not waited for.
AcquireAtOnce(c) ==
    /\ pc[c] = "queued"
    /\ lock' = c
    /\ Goto(c, "ensuring")
    /\ UNCHANGED <<lifetimeVars, inVars, loop, outq, gen, id, result, reply, backendVars,
                   eventVars, jobs, reaper, history>>

Acquire(c) ==
    /\ pc[c] = "queued" /\ lock = None
    /\ lock' = c
    /\ Goto(c, "ensuring")
    /\ UNCHANGED <<lifetimeVars, inVars, loop, outq, gen, id, result, reply, backendVars,
                   eventVars, jobs, reaper, history>>

EnsureReuses(c) ==
    /\ pc[c] = "ensuring" /\ Live(slot)
    /\ Goto(c, "ensured")
    /\ UNCHANGED <<lifetimeVars, inVars, loop, outq, gen, id, result, reply, lock,
                   backendVars, eventVars, jobs, reaper, history>>

\* A respawn is one whose slot still held the process that died.
EnsureSpawns(c) ==
    /\ pc[c] = "ensuring" /\ ~Live(slot)
    /\ Installed
    /\ Goto(c, IF slot = None THEN "ensured" ELSE "respawned")
    /\ UNCHANGED <<lifetimeVars, inVars, loop, outq, gen, id, result, reply, lock,
                   leaving, discarded, working, eventVars, jobs, reaper, history>>

EnsureFails(c) ==
    /\ pc[c] = "ensuring" /\ ~Live(slot)
    /\ slot' \in {slot, None}
    /\ result' = [result EXCEPT ![c] = "noBackend"]
    /\ Goto(c, "removed")
    /\ UNCHANGED <<lifetimeVars, inVars, loop, outq, gen, id, reply, lock, spawned, alive,
                   leaving, discarded, working, eventVars, jobs, reaper, history>>

\* Slip: the slot is taken to be full after ensure.
CloneUnchecked(c) ==
    /\ pc[c] \in {"ensured", "respawned"}
    /\ gen' = [gen EXCEPT ![c] = slot]
    /\ Goto(c, IF pc[c] = "ensured" THEN "cloned" ELSE "refreshing")
    /\ UNCHANGED <<lifetimeVars, inVars, loop, outq, id, result, reply, lock, backendVars,
                   eventVars, jobs, reaper, history>>

\* The clone is taken before the refresh and used after it.
CloneSlot(c) ==
    /\ pc[c] \in {"ensured", "respawned"}
    /\ IF slot = None
       THEN /\ result' = [result EXCEPT ![c] = "noBackend"]
            /\ Goto(c, "removed")
            /\ UNCHANGED gen
       ELSE /\ gen' = [gen EXCEPT ![c] = slot]
            /\ Goto(c, IF pc[c] = "ensured" THEN "cloned" ELSE "refreshing")
            /\ UNCHANGED result
    /\ UNCHANGED <<lifetimeVars, inVars, loop, outq, id, reply, lock, backendVars,
                   eventVars, jobs, reaper, history>>

\* The refresh after a respawn: its failure is only logged.
RefreshAfterSpawn(c) ==
    /\ pc[c] = "refreshing"
    /\ Goto(c, "cloned")
    /\ UNCHANGED <<lifetimeVars, inVars, loop, outq, gen, id, result, reply, lock,
                   backendVars, eventVars, jobs, reaper, history>>

NextId(g) == 1 + Cardinality({c \in Calls : gen[c] = g /\ id[c] # None})

\* insert_with_session takes the index twice.  An admission that finds a row of
\* the same id would not be bound; the call before has taken its row along.
AdmitRow(c) ==
    /\ pc[c] = "cloned" /\ NextId(gen[c]) \in BackendIds
    /\ Admit(Key(c), TokenOf(c))
    /\ id' = [id EXCEPT ![c] = NextId(gen[c])]
    /\ Goto(c, "admitted")
    /\ UNCHANGED <<inVars, loop, outq, gen, result, reply, lock, backendVars, eventVars,
                   jobs, reaper, history>>

BindRow(c) ==
    /\ pc[c] = "admitted"
    /\ Bind(Key(c), id[c])
    /\ Goto(c, "bound")
    /\ UNCHANGED <<inVars, loop, outq, gen, id, result, reply, lock, backendVars, eventVars,
                   jobs, reaper, history>>

Register(c) ==
    /\ pc[c] = "bound"
    /\ IF gen[c] \in alive
       THEN /\ Goto(c, "waiting")
            /\ working' = working \cup {c}
            /\ Note("sent", {c})
            /\ UNCHANGED result
       ELSE /\ Goto(c, "returned")
            /\ result' = [result EXCEPT ![c] = "broken"]
            /\ UNCHANGED <<working, history>>
    /\ UNCHANGED <<lifetimeVars, inVars, loop, outq, gen, id, reply, lock, procVars,
                   discarded, eventVars, jobs, reaper>>

Deliver(c) ==
    /\ pc[c] = "delivering"
    /\ \A i \in DOMAIN events : events[i].emit \notin awaits[c]
    /\ result' = [result EXCEPT ![c] = "ok"]
    /\ Goto(c, "returned")
    /\ UNCHANGED <<lifetimeVars, inVars, loop, outq, gen, id, reply, lock, backendVars,
                   eventVars, jobs, reaper, history>>

\* Slip: the deadline is taken for a failure.
TimeOutAsFailure(c) ==
    /\ Timed
    /\ pc[c] \in {"waiting", "delivering"}
    /\ discarded' = discarded \cup {c}
    /\ result' = [result EXCEPT ![c] = "broken"]
    /\ Goto(c, "returned")
    /\ UNCHANGED <<lifetimeVars, inVars, loop, outq, gen, id, reply, lock, procVars,
                   working, eventVars, jobs, reaper, history>>

TimeOut(c) ==
    /\ Timed
    /\ pc[c] \in {"waiting", "delivering"}
    /\ discarded' = discarded \cup {c}
    /\ result' = [result EXCEPT ![c] = "timeout"]
    /\ Goto(c, "returned")
    /\ UNCHANGED <<lifetimeVars, inVars, loop, outq, gen, id, reply, lock, procVars,
                   working, eventVars, jobs, reaper, history>>

RemoveRow(c) ==
    /\ pc[c] = "returned"
    /\ Remove(Key(c))
    /\ Goto(c, "removed")
    /\ UNCHANGED <<inVars, loop, outq, gen, id, result, reply, lock, backendVars, eventVars,
                   jobs, reaper, history>>

\* A failed call empties the slot, whatever process is in it by now.
EmptySlot(c) ==
    /\ pc[c] = "failed"
    /\ EmptiesSlot([pc EXCEPT ![c] = "reporting"])
    /\ UNCHANGED <<lifetimeVars, inVars, loop, outq, gen, id, reply, lock, spawned,
                   discarded, eventVars, jobs, reaper, history>>

DetectFailure(c) ==
    /\ pc[c] = "removed" /\ result[c] = "broken" /\ c \notin discarded
    /\ Goto(c, "failed")
    /\ UNCHANGED <<lifetimeVars, inVars, loop, outq, gen, id, result, reply, lock,
                   backendVars, eventVars, jobs, reaper, history>>

Respond(c) ==
    /\ \/ pc[c] = "removed" /\ result[c] \in {"ok", "timeout", "noBackend"}
       \/ pc[c] = "reporting"
    /\ reply' = [reply EXCEPT ![c] = result[c]]
    /\ Post(c)
    /\ Goto(c, "replied")
    /\ UNCHANGED <<lifetimeVars, inVars, loop, gen, id, result, lock, backendVars,
                   eventVars, jobs, reaper, history>>

\* Slip: a cancelled call forgets its guard.
FinishAnswered(c) ==
    /\ pc[c] = "replied"
    /\ Goto(c, "done")
    /\ lock' = None
    /\ UNCHANGED <<lifetimeVars, inVars, loop, outq, gen, id, result, reply, backendVars,
                   eventVars, jobs, reaper, history>>

\* The task ends, after its answer or, cancelled, without one: the guard and
\* then the lock are dropped.  Nothing wakes the loop for that.
Finish(c) ==
    /\ \/ pc[c] = "replied"
       \/ pc[c] = "removed" /\ result[c] = "broken" /\ c \in discarded
    /\ Goto(c, "done")
    /\ lock' = None
    /\ UNCHANGED <<lifetimeVars, inVars, loop, outq, gen, id, result, reply, backendVars,
                   eventVars, jobs, reaper, history>>

-----------------------------------------------------------------------------
(* The processes (external) as their readers report them.                  *)

Answer(c) ==
    /\ c \in working /\ gen[c] \in alive
    /\ working' = working \ {c}
    /\ acks' = [acks EXCEPT ![gen[c]] = {}]
    /\ \/ /\ pc[c] = "waiting"
          /\ Goto(c, "delivering")
          /\ awaits' = [awaits EXCEPT ![c] = acks[gen[c]]]
          /\ UNCHANGED discarded
       \/ /\ pc[c] # "waiting"
          /\ discarded' = discarded \ {c}
          /\ UNCHANGED <<pc, awaits>>
    /\ UNCHANGED <<lifetimeVars, inVars, loop, outq, gen, id, result, reply, lock, procVars,
                   events, jobs, reaper, history>>

\* Progress and cancellations are about a call the process works on.
Emit(e, g) ==
    /\ g \in alive
    /\ Comes(<<"emit", e>>)
    /\ EmitSays[e].about # None => EmitSays[e].about \in working /\ gen[EmitSays[e].about] = g
    /\ events' = Append(events, [emit |-> e, gen |-> g])
    /\ acks' = IF Program[e] = "ProgressRequest"
               THEN [acks EXCEPT ![g] = @ \cup {e}] ELSE acks
    /\ UNCHANGED <<lifetimeVars, half, stdinClosed, loop, outq, taskVars, backendVars,
                   awaits, jobs, reaper, history>>

Die(g) ==
    /\ g \in alive
    /\ Comes(<<"die">>)
    /\ Ended(g) /\ pc' = PcAfterEnd(g, pc)
    /\ UNCHANGED <<lifetimeVars, half, stdinClosed, loop, outq, gen, id, reply, lock, slot,
                   spawned, discarded, eventVars, jobs, reaper, history>>

SendExit(g) ==
    /\ g \in leaving
    /\ leaving' = leaving \ {g}
    /\ events' = Append(events, [emit |-> "exit", gen |-> g])
    /\ UNCHANGED <<lifetimeVars, inVars, loop, outq, taskVars, slot, spawned, alive,
                   discarded, working, acks, awaits, jobs, reaper, history>>

-----------------------------------------------------------------------------
(* The idle reaper: the number of active calls is read before the slot's   *)
(* lock is taken.                                                          *)

ReapDecide ==
    /\ reaper = Asleep /\ Active = 0
    /\ Reaped
    /\ reaper' = [at |-> "decided", before |-> Dispatched]
    /\ UNCHANGED <<lifetimeVars, inVars, loop, outq, taskVars, backendVars,
                   eventVars, jobs, history>>

ReapTake ==
    /\ reaper.at = "decided"
    /\ EmptiesSlot(pc)
    /\ Note("killed", reaper.before \cap AtBackend)
    /\ reaper' = Asleep
    /\ UNCHANGED <<lifetimeVars, inVars, loop, outq, gen, id, reply, lock, spawned,
                   discarded, eventVars, jobs>>

\* The task of a list_changed notification: what it refreshes is
\* DiscoveryCache's; the notification follows a refresh that succeeds.
JobEnds(e) ==
    /\ e \in jobs
    /\ jobs' = jobs \ {e}
    /\ \/ UNCHANGED outq
       \/ Live(slot) /\ Post("notice")
    /\ UNCHANGED <<lifetimeVars, inVars, loop, taskVars, backendVars, eventVars, reaper,
                   history>>

-----------------------------------------------------------------------------
(* The loop: the branches of its select!.  A branch other than the one that *)
(* reads drops the read_line that holds half a line, and the half with it.  *)

CutHalf(field, x) ==
    /\ half' = None
    /\ history' = [[history EXCEPT !.cut = @ \cup ({half} \ {None})] EXCEPT ![field] = @ \cup x]

ReadHalf(l) ==
    /\ loop = Select /\ ~stdinClosed /\ half = None
    /\ l \in Split
    /\ Comes(<<"line", l>>)
    /\ half' = l
    /\ UNCHANGED <<lifetimeVars, stdinClosed, loop, outq, taskVars, backendVars, eventVars,
                   jobs, reaper, history>>

\* A whole line, or the rest of one, has been read.
Reads(l) ==
    /\ loop = Select /\ ~stdinClosed
    /\ IF half = None THEN Comes(<<"line", l>>) ELSE half = l /\ UNCHANGED todo
    /\ half' = None
    /\ UNCHANGED stdinClosed

ReadCall(l) ==
    /\ l \in Calls /\ pc[l] = "unsent"
    /\ Reads(l)
    /\ Goto(l, "queued")
    /\ UNCHANGED <<lifetimeVars, loop, outq, gen, id, result, reply, lock, backendVars,
                   eventVars, jobs, reaper, history>>

\* The gate of a control, as the request reads it when it is dispatched.
Blocked(l) ==
    \/ Control[l] = "stop" /\ Active > 0
    \/ Control[l] = "restart" /\ Active > 0 /\ ~Forced(l)
    \/ Control[l] = "refresh" /\ ~Live(slot)

Acts(l) == Control[l] \in {"stop", "restart", "refresh"} /\ ~Blocked(l)

\* A request the loop answers itself: from the cache, a ping, a status, a tool
\* call with arguments that are refused, a control that is blocked.
ReadLocal(l) ==
    /\ Says[l].kind = "request" /\ l \notin Calls /\ ~Acts(l)
    /\ Reads(l)
    /\ Post(l)
    /\ UNCHANGED <<lifetimeVars, loop, taskVars, backendVars, eventVars, jobs, reaper,
                   history>>

Asking(l, g) == [at |-> "asking", line |-> l, gen |-> g]

ReadControl(l) ==
    /\ Says[l].kind = "request" /\ Acts(l)
    /\ Reads(l)
    /\ loop' = IF Control[l] = "refresh" THEN Asking(l, slot)
               ELSE [at |-> "taking", line |-> l,
                     before |-> IF Forced(l) THEN {} ELSE Dispatched]
    /\ UNCHANGED <<lifetimeVars, outq, taskVars, backendVars, eventVars, jobs, reaper,
                   history>>

\* A notification is for a live process or for nobody.
ReadNotification(l) ==
    /\ Says[l].kind = "notification"
    /\ Reads(l)
    /\ loop' = IF Dropped[l] \/ ~Live(slot) THEN Select
               ELSE [at |-> ClientProgram[l], line |-> l, gen |-> slot]
    /\ UNCHANGED <<lifetimeVars, outq, taskVars, backendVars, eventVars, jobs, reaper, history>>

\* A response of the client is for the peer request of its id, or dropped.
ReadResponse(l) ==
    /\ Says[l].kind = "response"
    /\ Reads(l)
    /\ \/ TakePeer(Key(l)) /\ loop' = [at |-> "answering", line |-> l]
       \/ peerToken[Key(l)] = Absent /\ UNCHANGED <<lifetimeVars, loop>>
    /\ UNCHANGED <<outq, taskVars, backendVars, eventVars, jobs, reaper, history>>

ReadEof ==
    /\ loop = Select /\ ~stdinClosed /\ half = None
    /\ Comes(<<"eof">>)
    /\ stdinClosed' = TRUE
    /\ loop' = Top
    /\ UNCHANGED <<lifetimeVars, half, outq, taskVars, backendVars, eventVars, jobs, reaper,
                   history>>

\* The rest of a handler.
Forwards(l, g) == Note("sent", IF Live(g) THEN {l} ELSE {})

AnswerPeer ==
    /\ loop.at = "answering"
    /\ Forwards(loop.line, slot)
    /\ loop' = Resume
    /\ UNCHANGED <<lifetimeVars, inVars, outq, taskVars, backendVars, eventVars, jobs, reaper>>

\* PassNotification, and methods nobody mounted.
PassNotification ==
    /\ loop.at \in {"PassNotification", "none"}
    /\ Forwards(loop.line, loop.gen)
    /\ loop' = Resume
    /\ UNCHANGED <<lifetimeVars, inVars, outq, taskVars, backendVars, eventVars, jobs, reaper>>

ClientProgress ==
    /\ loop.at = "ProgressRequest"
    /\ LET token == TokenOf(loop.line)
       IN  IF token # None /\ peerByToken[<<Client, token>>] # None
           THEN Forwards(loop.line, loop.gen) ELSE UNCHANGED history
    /\ loop' = Resume
    /\ UNCHANGED <<lifetimeVars, inVars, outq, taskVars, backendVars, eventVars, jobs, reaper>>

\* cancel_client_request: the row; a row that is not bound yet ends it here ...
CancelRow ==
    /\ loop.at = "CancelRequest"
    /\ LET k == Key(loop.line)
       IN  /\ Remove(k)
           /\ loop' = IF IsBound(k) THEN [at |-> "discarding", line |-> loop.line,
                                          gen |-> loop.gen, id |-> backendOf[k]]
                      ELSE IF HasRow(k) THEN Resume
                      ELSE [at |-> "peer cancel", line |-> loop.line, gen |-> loop.gen]
           /\ Note("cancelled", {c \in Calls : HasRow(k) /\ lock = c})
    /\ UNCHANGED <<inVars, outq, taskVars, backendVars, eventVars, jobs, reaper>>

Discard(g, b) ==
    LET hit == {c \in Calls : WaitsFor(c, g) /\ id[c] = b}
    IN  /\ discarded' = discarded \cup hit
        /\ pc' = [c \in Calls |-> IF c \in hit THEN "returned" ELSE pc[c]]
        /\ result' = [c \in Calls |-> IF c \in hit THEN "broken" ELSE result[c]]

\* ... then its sender in the process cloned before ...
CancelPending ==
    /\ loop.at = "discarding"
    /\ Discard(loop.gen, loop.id)
    /\ loop' = IF \E c \in Calls : WaitsFor(c, loop.gen) /\ id[c] = loop.id THEN Resume
               ELSE [at |-> "peer cancel", line |-> loop.line, gen |-> loop.gen]
    /\ UNCHANGED <<lifetimeVars, inVars, outq, gen, id, reply, lock, procVars, working,
                   eventVars, jobs, reaper, history>>

\* ... and without either, the peer request of that id.
CancelPeer ==
    /\ loop.at = "peer cancel"
    /\ \/ TakePeer(Key(loop.line)) /\ Forwards(loop.line, loop.gen)
       \/ peerToken[Key(loop.line)] = Absent /\ UNCHANGED <<lifetimeVars, history>>
    /\ loop' = Resume
    /\ UNCHANGED <<inVars, outq, taskVars, backendVars, eventVars, jobs, reaper>>

\* A stop, or the first half of a restart.
ControlTakes ==
    /\ loop.at = "taking"
    /\ EmptiesSlot(pc)
    /\ Note("killed", loop.before \cap AtBackend)
    /\ \/ /\ Control[loop.line] = "stop"
          /\ Post(loop.line) /\ loop' = Resume
       \/ /\ Control[loop.line] = "restart"
          /\ loop' = [at |-> "spawning", line |-> loop.line]
          /\ UNCHANGED outq
    /\ UNCHANGED <<lifetimeVars, inVars, gen, id, reply, lock, spawned, discarded,
                   eventVars, jobs, reaper>>

\* A restart in the cooldown is refused before it takes anything.
ControlRefused ==
    /\ loop.at = "taking" /\ Control[loop.line] = "restart" /\ ~Forced(loop.line)
    /\ Post(loop.line)
    /\ loop' = Resume
    /\ UNCHANGED <<lifetimeVars, inVars, taskVars, backendVars, eventVars, jobs, reaper,
                   history>>

RestartSpawns ==
    /\ loop.at = "spawning"
    /\ Installed
    /\ loop' = Asking(loop.line, spawned + 1)
    /\ Note("restarted", {loop.line})
    /\ UNCHANGED <<lifetimeVars, inVars, outq, taskVars, leaving, discarded, working,
                   eventVars, jobs, reaper>>

RestartFails ==
    /\ loop.at = "spawning"
    /\ Post(loop.line)
    /\ loop' = Resume
    /\ UNCHANGED <<lifetimeVars, inVars, taskVars, backendVars, eventVars, jobs, reaper,
                   history>>

\* The reader takes the answer of the refresh with the acknowledgements so far.
RefreshAnswered ==
    /\ loop.at = "asking" /\ loop.gen \in alive
    /\ loop' = [at |-> "refreshing", line |-> loop.line, held |-> acks[loop.gen]]
    /\ acks' = [acks EXCEPT ![loop.gen] = {}]
    /\ UNCHANGED <<lifetimeVars, inVars, outq, taskVars, backendVars, events, awaits, jobs,
                   reaper, history>>

\* Slip: nobody ends a refresh that is not answered by a process that runs.
RefreshEndsUnhurried ==
    /\ \/ loop.at = "asking" /\ loop.gen \notin alive
       \/ loop.at = "refreshing" /\ \A i \in DOMAIN events : events[i].emit \notin loop.held
    /\ Post(loop.line)
    /\ loop' = Resume
    /\ UNCHANGED <<lifetimeVars, inVars, taskVars, backendVars, eventVars, jobs, reaper,
                   history>>

\* The refresh ends: answered, once the progress before the answer has been
\* consumed - by this very loop, so not while it waits here - or failed, with
\* the process or at the deadline.
RefreshEnds ==
    /\ loop.at \in {"asking", "refreshing"}
    /\ Post(loop.line)
    /\ loop' = Resume
    /\ UNCHANGED <<lifetimeVars, inVars, taskVars, backendVars, eventVars, jobs, reaper,
                   history>>

\* An event of the backends.
TakeEvent(e) ==
    /\ loop = Select \/ loop = Sleep
    /\ events # <<>> /\ Head(events).emit = e
    /\ events' = Tail(events)

Shows(e) ==
    \/ EmitSays[e].kind = "response"
    \/ /\ EmitSays[e].kind = "notification"
       /\ Invalidated[e] = {}
       /\ Program[e] # "CancelRequest"
       /\ Program[e] = "ProgressRequest" =>
              clientByToken[TokenOf(EmitSays[e].about)] # None

\* Notifications and unmatched responses that go to the client as they are.
TakeShown(e) ==
    /\ TakeEvent(e) /\ Shows(e)
    /\ Post("notice") /\ loop' = Resume /\ CutHalf("cut", {})
    /\ UNCHANGED <<lifetimeVars, todo, stdinClosed, taskVars, backendVars, acks, awaits,
                   jobs, reaper>>

\* Progress nobody asked for, or no longer.
TakeUnmatched(e) ==
    /\ TakeEvent(e) /\ ~Shows(e) /\ Program[e] = "ProgressRequest"
    /\ loop' = Resume /\ CutHalf("cut", {})
    /\ UNCHANGED <<lifetimeVars, todo, stdinClosed, outq, taskVars, backendVars, acks,
                   awaits, jobs, reaper>>

TakeListChanged(e) ==
    /\ TakeEvent(e) /\ Invalidated[e] # {}
    /\ jobs' = jobs \cup {e} /\ loop' = Resume /\ CutHalf("cut", {})
    /\ UNCHANGED <<lifetimeVars, todo, stdinClosed, outq, taskVars, backendVars, acks,
                   awaits, reaper>>

TakePeerRequest(e) ==
    /\ TakeEvent(e) /\ EmitSays[e].kind = "request"
    /\ InsertPeer(<<Client, EmitSays[e].id>>, EmitSays[e].token)
    /\ Post("notice") /\ loop' = Resume /\ CutHalf("cut", {})
    /\ UNCHANGED <<todo, stdinClosed, taskVars, backendVars, acks, awaits, jobs, reaper>>

TakeExit ==
    /\ TakeEvent("exit")
    /\ ClearPeers
    /\ loop' = Resume /\ CutHalf("cut", {})
    /\ UNCHANGED <<todo, stdinClosed, outq, taskVars, backendVars, acks, awaits, jobs, reaper>>

\* A cancellation by the backend, looked up for the process in the slot now.
TakeCancel(e) ==
    /\ TakeEvent(e) /\ Program[e] = "CancelRequest"
    /\ loop' = IF slot = None THEN Resume
               ELSE [at |-> "translate", id |-> id[EmitSays[e].about], gen |-> slot]
    /\ CutHalf("cut", {})
    /\ UNCHANGED <<lifetimeVars, todo, stdinClosed, outq, taskVars, backendVars, acks,
                   awaits, jobs, reaper>>

TranslateCancel ==
    /\ loop.at = "translate"
    /\ \/ /\ ~NamesRow(loop.id)
          /\ loop' = Resume
          /\ UNCHANGED <<lifetimeVars, history>>
       \/ /\ RemoveByBackend(loop.id)
          /\ loop' = [at |-> "translated", id |-> loop.id, gen |-> loop.gen]
          /\ Note("cancelled", {c \in Calls : lock = c})
    /\ UNCHANGED <<inVars, outq, taskVars, backendVars, eventVars, jobs, reaper>>

DiscardCancelled ==
    /\ loop.at = "translated"
    /\ Discard(loop.gen, loop.id)
    /\ Post("notice") /\ loop' = Resume
    /\ UNCHANGED <<lifetimeVars, inVars, gen, id, reply, lock, procVars, working, eventVars,
                   jobs, reaper, history>>

\* A message goes out to the client.
WriteOut(message) ==
    /\ loop = Select \/ loop = Sleep
    /\ message \in outq
    /\ outq' = outq \ {message}
    /\ loop' = Resume /\ CutHalf("written", {message})
    /\ UNCHANGED <<lifetimeVars, todo, stdinClosed, taskVars, backendVars, eventVars, jobs,
                   reaper>>

-----------------------------------------------------------------------------
(* The end of the loop. *)

\* kill_all_pgids, and the program ends with all its tasks.
Exits(why) ==
    /\ loop' = [at |-> "exited", why |-> why]
    /\ alive' = {}
    /\ UNCHANGED <<lifetimeVars, half, stdinClosed, outq, taskVars, slot, spawned, leaving,
                   discarded, working, eventVars, jobs, reaper, history>>

\* A signal, or a write to a client that is gone.
Break ==
    /\ loop = Select \/ loop = Sleep
    /\ \/ Comes(<<"signal">>)
       \/ outq # {} /\ Comes(<<"gone">>)
    /\ Exits("broken")

\* Slip: the queue is looked at first, then the calls.
ChecksQueueFirst == <<outq = {}, Active = 0>>

\* After the end of stdin: first the calls, then the queue.
Checks == <<Active = 0, outq = {}>>

CheckFirst ==
    /\ loop = Top
    /\ loop' = IF Checks[1] THEN [at |-> "drain"] ELSE Sleep
    /\ UNCHANGED <<lifetimeVars, inVars, outq, taskVars, backendVars, eventVars, jobs, reaper,
                   history>>

CheckSecond ==
    /\ loop.at = "drain"
    /\ \/ Checks[2] /\ Exits("eof") /\ UNCHANGED todo
       \/ /\ ~Checks[2]
          /\ loop' = Sleep
          /\ UNCHANGED <<lifetimeVars, inVars, outq, taskVars, backendVars, eventVars, jobs,
                         reaper, history>>

-----------------------------------------------------------------------------
CallStep(c) ==
    \/ Acquire(c) \/ EnsureReuses(c) \/ EnsureSpawns(c) \/ EnsureFails(c) \/ CloneSlot(c)
    \/ RefreshAfterSpawn(c) \/ AdmitRow(c) \/ BindRow(c) \/ Register(c) \/ Deliver(c)
    \/ TimeOut(c) \/ RemoveRow(c) \/ DetectFailure(c) \/ EmptySlot(c) \/ Respond(c)
    \/ Finish(c)

ReadStep ==
    \/ \E l \in Lines : ReadHalf(l) \/ ReadCall(l) \/ ReadLocal(l) \/ ReadControl(l)
                            \/ ReadNotification(l) \/ ReadResponse(l)
    \/ ReadEof

HandlerStep ==
    \/ AnswerPeer \/ PassNotification \/ ClientProgress
    \/ CancelRow \/ CancelPending \/ CancelPeer
    \/ ControlTakes \/ ControlRefused \/ RestartSpawns \/ RestartFails
    \/ RefreshAnswered \/ RefreshEnds
    \/ TranslateCancel \/ DiscardCancelled
    \/ CheckFirst \/ CheckSecond

EventStep ==
    \/ \E e \in Emits : TakeShown(e) \/ TakeUnmatched(e) \/ TakeListChanged(e)
                            \/ TakePeerRequest(e) \/ TakeCancel(e)
    \/ TakeExit

WriteStep == \E message \in outq : WriteOut(message)
ReaperStep == ReapDecide \/ ReapTake
ProcessStep(g) == (\E e \in Emits : Emit(e, g)) \/ Die(g) \/ SendExit(g)

\* Nothing runs once the program has ended.
Running == loop.at # "exited"

Next ==
    /\ Running
    /\ \/ \E c \in Calls : CallStep(c) \/ Answer(c)
       \/ \E g \in Gens : ProcessStep(g)
       \/ \E e \in Emits : JobEnds(e)
       \/ ReaperStep \/ ReadStep \/ HandlerStep \/ EventStep \/ WriteStep \/ Break

Spec == Init /\ [][Next]_vars

\* Every task runs, and so does the loop, whose select! takes its ready branches
\* in a random order.  The client and the backends owe nothing.
Fairness ==
    /\ \A c \in Calls : WF_vars(Running /\ CallStep(c)) /\ SF_vars(Running /\ Acquire(c))
    /\ WF_vars(Running /\ \E e \in Emits : JobEnds(e))
    /\ WF_vars(Running /\ \E g \in Gens : SendExit(g))
    /\ WF_vars(Running /\ ReaperStep)
    /\ WF_vars(HandlerStep)
    /\ SF_vars(EventStep)
    /\ SF_vars(WriteStep)

FairSpec == Spec /\ Fairness

-----------------------------------------------------------------------------
(* Every variable has the type of what it models, and a call that goes on  *)
(* from the slot has a process in hand.                                    *)
NormalTypeOK ==
    /\ LifetimeTypeOK
    /\ todo \subseteq Inputs /\ half \in Split \cup {None} /\ stdinClosed \in BOOLEAN
    /\ outq \subseteq Lines \cup {"notice"}
    /\ pc \in [Calls -> AtProcess \cup {"unsent", "queued", "ensuring", "ensured",
                                        "respawned", "returned", "removed", "failed",
                                        "reporting", "replied", "done"}]
    /\ \A c \in Calls : pc[c] \in AtProcess => gen[c] # None
    /\ gen \in [Calls -> Gens \cup {None}] /\ id \in [Calls -> BackendIds \cup {None}]
    /\ result \in [Calls -> {"none", "ok", "timeout", "broken", "noBackend"}]
    /\ reply \in [Calls -> {"none", "ok", "timeout", "broken", "noBackend"}]
    /\ lock \in Calls \cup {None} /\ slot \in Gens \cup {None} /\ spawned \in 0 .. MaxGens
    /\ alive \cup leaving \subseteq Gens /\ discarded \cup working \subseteq Calls
    /\ jobs \subseteq Emits

(* Neither a stop, nor a restart that is not forced, nor the idle reaper   *)
(* takes the process away under a call that was dispatched before it read  *)
(* the number of active calls.  The broker counts rows and cannot say so.  *)
OldCallsSpared == history.killed = {}

(* When the program ends because stdin has, every call it read has had its *)
(* answer written, or has been cancelled: the loop looks at the calls      *)
(* before it looks at the queue their answers go to.                       *)
DrainedAtExit ==
    loop = [at |-> "exited", why |-> "eof"] =>
        \A c \in Calls :
            /\ pc[c] \in {"unsent", "done"}
            /\ reply[c] # "none" => c \in history.written

\* What has become of a call, as the client sees it.
Stage(c) ==
    CASE pc[c] = "unsent" -> "unsent"
      [] pc[c] # "unsent" /\ reply[c] # "none" -> "answered"
      [] pc[c] = "done" /\ reply[c] = "none" -> "dropped"
      [] OTHER -> "pending"
Stages == [c \in Calls |-> Stage(c)]

\* A cancellation that has the process of a restart in hand may take the row of
\* a call that is still at the one before, and discard the call that has drawn
\* the same number since.
Forfeited == IF history.restarted = {} THEN history.cancelled ELSE Calls

Service == INSTANCE CallService WITH stage <- Stages, served <- lock, forfeit <- Forfeited

(* Normal mode serves its calls as CallService says: one at a time, each    *)
(* answered unless a cancellation - of the client or of the backend - took *)
(* its row, whatever stops, deaths and refreshes come in between; any may  *)
(* end in silence once a restart has put a process under a running call.   *)
CallServiceSpec == Service!ServiceSpec

\* What the wrapper answers itself: the handshake, the cached lists, ping, its
\* controls, by method or by tool.
ReservedMethods ==
    {"initialize", "ping", "tools/list", "prompts/list", "resources/list",
     "resources/templates/list"} \cup {LegacyControls[x] : x \in DOMAIN LegacyControls}

Reserved(l) ==
    \/ /\ Says[l].kind = "request"
       /\ \/ Says[l].method \in ReservedMethods
          \/ Says[l].method = "tools/call" /\ Says[l].tool = WrapperTool
    \/ Says[l].kind = "notification" /\ Says[l].method = "notifications/initialized"

(* Nothing the wrapper answers itself reaches a backend, which has done    *)
(* its handshake and knows no wrapper tool.                                *)
BackendSeesOnlyItsOwn == \A l \in history.sent : ~Reserved(l)

(* Every line of the client is classified and handled                      *)
(* (docs/flow.html:8).                                                     *)
EveryLineClassified == history.cut = {}

(* The loop leaves every handler again, also a refresh whose answer waits  *)
(* for progress that only this loop could consume.                         *)
LoopComesBack ==
    loop.at \notin {"select", "sleep", "exited"} ~> loop.at \in {"select", "sleep", "exited"}

\* No process keeps a call it has been sent and runs on for ever.
BackendsAnswer == \A c \in Calls : []<>(c \notin working)

\* What it takes to get rid of a process that hangs: MCP_TIMEOUT is unset by
\* default.
CallsReturn == Timed \/ BackendsAnswer

(* Every call that is dispatched ends if a request timeout is set or the   *)
(* backends answer: the lock that serializes the calls comes free again.   *)
RequestEnds ==
    CallsReturn => \A c \in Calls : pc[c] = "queued" ~> (pc[c] = "done" \/ loop.at = "exited")

(* A client that closes stdin does not keep a backend, under the same      *)
(* condition: the program ends, or the reaper has emptied the slot for     *)
(* good.  Without a timeout a backend that never answers keeps its call    *)
(* active, which holds the loop and the reaper off for ever.               *)
GoneClientFreesBackend ==
    CallsReturn => ((stdinClosed /\ Reaped) ~> [](loop.at = "exited" \/ slot = None))
=============================================================================
