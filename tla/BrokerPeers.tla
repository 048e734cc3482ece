------------------------------ MODULE BrokerPeers ------------------------------
(***************************************************************************)
(* Requests of the backend to a client in the daemon, from                 *)
(* src/src/broker_manager.rs: the fan-out task hands each to the session   *)
(* of the one bound row, or refuses it; the client's answer goes back to   *)
(* the process in the slot, if the row of the request is still there.      *)
(* They share the loops, the fan-out task and the index with the calls of  *)
(* BrokerCalls, and have nothing in common with them but the ids.          *)
(***************************************************************************)
EXTENDS BrokerCalls

CONSTANTS
    AskId,     \* the JSON-RPC id of each request of a backend
    AskToken   \* its progress token, or None

ASSUME PeersAssumption ==
    /\ AskId \in [Asks -> RawIds]
    /\ AskToken \in [Asks -> Tokens \cup {None}]
    /\ None \notin Sessions

VARIABLES
    asker,     \* the process that made each request
    handed,    \* the session it was sent to
    answered,  \* requests the client has answered
    reported,  \* processes whose ProcessExit has been sent
    dropped    \* history: answers that found no row, with only one process ever

askVars == <<asker, handed, answered, reported, dropped>>
peersVars == <<vars, askVars>>

PeersInit ==
    /\ Init
    /\ asker = [a \in Asks |-> None] /\ handed = [a \in Asks |-> None]
    /\ answered = {} /\ reported = {} /\ dropped = {}

-----------------------------------------------------------------------------
\* A process asks, whether it works on a call or not (external).
Ask(a, g) ==
    /\ g \in alive
    /\ Comes(<<"ask", a>>)
    /\ asker' = [asker EXCEPT ![a] = g]
    /\ events' = Append(events, [kind |-> "ask", ask |-> a])
    /\ UNCHANGED <<lifetimeVars, taskVars, backendVars, fan, sessionVars, owner, history,
                   handed, answered, reported, dropped>>

TheOnly(sessions) ==
    IF Cardinality(sessions) = 1 THEN CHOOSE s \in sessions : TRUE ELSE None

UniqueBoundSession == TheOnly({k[1] : k \in {r \in Rows : IsBound(r)}})

Offer(a, s, step) == [at |-> "offer", ask |-> a, session |-> s, step |-> step]

\* The session is that of the row which is bound by now, whatever call the
\* process worked on when it asked.  Without one the error goes to whatever
\* process is in the slot.
TakeAsk(a) ==
    /\ fan = Ready /\ events # <<>> /\ Head(events).kind = "ask" /\ Head(events).ask = a
    /\ events' = Tail(events)
    /\ fan' = IF UniqueBoundSession # None THEN Offer(a, UniqueBoundSession, 1)
              ELSE IF slot # None THEN [at |-> "refusing", gen |-> slot] ELSE Ready
    /\ UNCHANGED <<lifetimeVars, taskVars, backendVars, sessionVars, todo, owner, history,
                   askVars>>

RefuseAsk ==
    /\ fan.at = "refusing" /\ Takes(fan.gen)
    /\ fan' = Ready
    /\ UNCHANGED <<lifetimeVars, taskVars, backendVars, events, sessionVars, todo, owner,
                   history, askVars>>

\* Slip: the request goes out first.
OfferSentFirst == <<"send", "insert">>

\* forward_peer_request: the row, then the message.
OfferSteps == <<"insert", "send">>

OfferGoesOn == fan' = IF fan.step = 1 THEN Offer(fan.ask, fan.session, 2) ELSE Ready

InsertAsk ==
    /\ fan.at = "offer" /\ OfferSteps[fan.step] = "insert"
    /\ InsertPeer(<<fan.session, AskId[fan.ask]>>, AskToken[fan.ask])
    /\ OfferGoesOn
    /\ UNCHANGED <<taskVars, backendVars, events, sessionVars, todo, owner, history, askVars>>

SendAsk ==
    /\ fan.at = "offer" /\ OfferSteps[fan.step] = "send"
    /\ outbox' = Posted({fan.session}, fan.ask)
    /\ handed' = [handed EXCEPT ![fan.ask] = fan.session]
    /\ OfferGoesOn
    /\ UNCHANGED <<lifetimeVars, taskVars, backendVars, events, conn, loop, todo, owner,
                   history, asker, answered, reported, dropped>>

\* The end of a process, however it came, is told once ...
SendExit(g) ==
    /\ g \in (1 .. spawned) \ alive /\ g \notin reported
    /\ reported' = reported \cup {g}
    /\ events' = Append(events, [kind |-> "exit", gen |-> g])
    /\ UNCHANGED <<lifetimeVars, taskVars, backendVars, fan, sessionVars, todo, owner,
                   history, asker, handed, answered, dropped>>

\* Slip: the rows are kept if another process is in the slot by now.
TakeExitOfLast ==
    /\ fan = Ready /\ events # <<>> /\ Head(events).kind = "exit"
    /\ events' = Tail(events)
    /\ IF Live(slot) THEN UNCHANGED lifetimeVars ELSE ClearPeers
    /\ UNCHANGED <<taskVars, backendVars, fan, sessionVars, todo, owner, history, askVars>>

\* ... and clears the rows of every process.
TakeExit ==
    /\ fan = Ready /\ events # <<>> /\ Head(events).kind = "exit"
    /\ events' = Tail(events)
    /\ ClearPeers
    /\ UNCHANGED <<taskVars, backendVars, fan, sessionVars, todo, owner, history, askVars>>

\* The client answers a request it has been sent, once.  Ids being the client's
\* word for it, the row taken is the last one of that id.
AloneWith(a) == \A b \in Asks \ {a} : AskId[b] = AskId[a] => asker[b] = None

ReadAnswer(a) ==
    /\ handed[a] # None /\ a \notin answered
    /\ Reading(handed[a]) /\ a \notin outbox[handed[a]]
    /\ answered' = answered \cup {a}
    /\ \/ /\ TakePeer(<<handed[a], AskId[a]>>)
          /\ Continue(handed[a], [at |-> "answering"])
          /\ UNCHANGED dropped
       \/ /\ peerToken[<<handed[a], AskId[a]>>] = Absent
          /\ dropped' = IF alive = {1} /\ spawned = 1 /\ AloneWith(a) /\ history.crossed = {}
                        THEN dropped \cup {a} ELSE dropped
          /\ UNCHANGED <<lifetimeVars, loop>>
    /\ UNCHANGED <<taskVars, backendVars, eventVars, conn, outbox, todo, owner, history,
                   asker, handed, reported>>

\* The answer is for the process in the slot by now, or for none.
ForwardAnswer(s) ==
    /\ loop[s].at = "answering"
    /\ Continue(s, IF Live(slot) THEN Telling(slot) ELSE Ready)
    /\ UNCHANGED <<lifetimeVars, taskVars, backendVars, eventVars, conn, outbox, todo, owner,
                   history, askVars>>

AskStep ==
    \/ \E a \in Asks, g \in Gens : Ask(a, g)
    \/ \E a \in Asks : TakeAsk(a) \/ ReadAnswer(a)
    \/ RefuseAsk \/ InsertAsk \/ SendAsk \/ TakeExit
    \/ \E g \in Gens : SendExit(g)
    \/ \E s \in Sessions : ForwardAnswer(s)

PeersNext == (Next /\ UNCHANGED askVars) \/ AskStep

PeersSpec == PeersInit /\ [][PeersNext]_peersVars
-----------------------------------------------------------------------------
\* Processes whose exit has been consumed.
Buried == {g \in reported : \A i \in DOMAIN events :
                                events[i].kind = "exit" => events[i].gen # g}

(* No row of a request of the backend outlives the exit of the process that *)
(* made it, although a successor may be at work by then and its requests   *)
(* may use the same ids: the queue has a request before the exit of its    *)
(* process, and the exit clears the rows.  A row that stayed would have the *)
(* client's answer, or its cancellation, sent to a process that never      *)
(* asked.                                                                  *)
PeerRowsEndWithProcess ==
    \A k \in Keys : peerToken[k] # Absent =>
        \E a \in Asks :
            /\ AskId[a] = k[2] /\ asker[a] \notin Buried
            /\ \/ handed[a] = k[1]
               \/ fan.at = "offer" /\ fan.ask = a /\ fan.session = k[1]

(* As long as there has been one process only, the client's answer to its  *)
(* request finds the row and goes back, unless a cancellation has taken    *)
(* the row: it is there before the request is sent.                        *)
AnswerFindsItsRow == dropped = {}

(* A client's cancellation of its own request never cancels a request of   *)
(* the backend (logic.html: notifications match a request in the same      *)
(* direction).                                                             *)
CancelsKeepDirection == history.crossed = {}
=============================================================================
