---------------------------- MODULE RequestLifetime ----------------------------
(***************************************************************************)
(* The request lifetime index of src/src/lifetime.rs: the tables that join *)
(* a client request to the id the backend knows it by, to the progress     *)
(* token it carries, and a backend ("peer") request to the session it was  *)
(* handed to.  Every public method of the Rust type takes the one mutex    *)
(* over Inner, edits the tables and releases it, so each is one action.    *)
(*                                                                         *)
(* A HashMap is a total function whose value is None (or Absent) at a key  *)
(* the map does not hold.                                                  *)
(***************************************************************************)
EXTENDS Naturals, FiniteSets

CONSTANTS
    Sessions,    \* daemon session ids (normal mode is the case of one session)
    RawIds,      \* JSON-RPC ids a client gives its requests, and a backend its own
    BackendIds,  \* ids Backend::next_request_id hands out
    Tokens,      \* progress tokens
    None,        \* "no entry", "no token", "not bound yet"
    Absent       \* "no such row"

\* ClientRequestKey, PeerRequestKey and PeerProgressKey.
Keys == Sessions \X RawIds
PeerTokens == Sessions \X Tokens

ASSUME SentinelAssumption ==
    /\ None \notin BackendIds \cup Tokens \cup Keys
    /\ Absent \notin BackendIds \cup Tokens
    /\ None # Absent

VARIABLES
    backendOf,        \* by_client: the row's backend_id; Absent if there is no row
    tokenOf,          \* by_client: the row's progress_token
    clientByBackend,  \* client_by_backend
    clientByToken,    \* client_by_progress_token
    peerToken,        \* peer_by_id: the row's progress_token; Absent if no row
    peerByToken       \* peer_by_progress_token

clientVars == <<backendOf, tokenOf, clientByBackend, clientByToken>>
peerVars == <<peerToken, peerByToken>>
lifetimeVars == <<backendOf, tokenOf, clientByBackend, clientByToken,
                  peerToken, peerByToken>>

LifetimeInit ==
    /\ backendOf = [k \in Keys |-> Absent]
    /\ tokenOf = [k \in Keys |-> None]
    /\ clientByBackend = [b \in BackendIds |-> None]
    /\ clientByToken = [t \in Tokens |-> None]
    /\ peerToken = [p \in Keys |-> Absent]
    /\ peerByToken = [st \in PeerTokens |-> None]

-----------------------------------------------------------------------------
(* Queries. *)

HasRow(k) == backendOf[k] # Absent
IsBound(k) == backendOf[k] \in BackendIds
Rows == {k \in Keys : HasRow(k)}
RowsOfSession(s) == {k \in Rows : k[1] = s}

\* The index knows the backend id b, whatever value b is.
NamesRow(b) == b \in BackendIds /\ clientByBackend[b] # None

\* session_for_backend_progress: the session a progress token belongs to.
SessionOfToken(t) ==
    IF clientByToken[t] # None /\ HasRow(clientByToken[t])
    THEN clientByToken[t][1] ELSE None

-----------------------------------------------------------------------------
(* Removing one row, as every path that ends a client request does: the    *)
(* backend index goes with the row, the token index only if it still       *)
(* points to this row, because a later request may have taken the token.   *)

\* Slips (never used by the specification; the README says what they are for):
\* the route is taken away whoever holds it, or is never taken away.
DropTokenIndexOfAnyOwner(k) ==
    clientByToken' = [t \in Tokens |-> IF t = tokenOf[k] THEN None ELSE clientByToken[t]]
KeepTokenIndex(k) == clientByToken' = clientByToken

DropTokenIndex(k) ==
    clientByToken' = [t \in Tokens |->
        IF t = tokenOf[k] /\ clientByToken[t] = k THEN None ELSE clientByToken[t]]

\* Slip: the id stays in the index when its row goes.
KeepBackendIndex(k) == clientByBackend' = clientByBackend

DropBackendIndex(k) ==
    clientByBackend' = [b \in BackendIds |->
        IF b = backendOf[k] THEN None ELSE clientByBackend[b]]

DropRow(k) ==
    /\ backendOf' = [backendOf EXCEPT ![k] = Absent]
    /\ tokenOf' = [tokenOf EXCEPT ![k] = None]
    /\ DropBackendIndex(k)
    /\ DropTokenIndex(k)

\* admit_with_session when the key is free; the caller sees TRUE.
Admit(k, token) ==
    /\ ~HasRow(k)
    /\ backendOf' = [backendOf EXCEPT ![k] = None]
    /\ tokenOf' = [tokenOf EXCEPT ![k] = token]
    /\ UNCHANGED <<clientByBackend, clientByToken, peerVars>>

\* bind_backend: a no-op when the row went away meanwhile; otherwise the old
\* backend id leaves the index, the new one enters it, and the row's token
\* starts (or restarts) to name this row.
Bind(k, b) ==
    \/ /\ ~HasRow(k)
       /\ UNCHANGED lifetimeVars
    \/ /\ HasRow(k)
       /\ backendOf' = [backendOf EXCEPT ![k] = b]
       /\ clientByBackend' = [x \in BackendIds |->
              IF x = b THEN k
              ELSE IF x = backendOf[k] THEN None ELSE clientByBackend[x]]
       /\ clientByToken' = [t \in Tokens |->
              IF t = tokenOf[k] THEN k ELSE clientByToken[t]]
       /\ UNCHANGED <<tokenOf, peerVars>>

\* remove_client_for_owner, timeout_client, and the table part of
\* cancel_client_request_for_owner.
Remove(k) ==
    \/ /\ ~HasRow(k)
       /\ UNCHANGED lifetimeVars
    \/ /\ HasRow(k)
       /\ DropRow(k)
       /\ UNCHANGED peerVars

\* The table part of translate_backend_cancel: found through the backend id.
RemoveByBackend(b) ==
    /\ NamesRow(b)
    /\ LET k == clientByBackend[b] IN
         /\ backendOf' = [backendOf EXCEPT ![k] = Absent]
         /\ tokenOf' = [tokenOf EXCEPT ![k] = None]
         /\ clientByBackend' = [clientByBackend EXCEPT ![b] = None]
         /\ DropTokenIndex(k)
    /\ UNCHANGED peerVars

\* Slip: the replaced row's token stays in the index.
InsertPeerKeepingOldToken(p, token) ==
    /\ peerToken' = [peerToken EXCEPT ![p] = token]
    /\ peerByToken' = [st \in PeerTokens |->
          IF st = <<p[1], token>> THEN p ELSE peerByToken[st]]
    /\ UNCHANGED clientVars

\* insert_peer_request: a row with the same key is replaced, and the token of
\* the replaced row leaves the index before the new token enters it.
InsertPeer(p, token) ==
    /\ peerToken' = [peerToken EXCEPT ![p] = token]
    /\ peerByToken' = [st \in PeerTokens |->
          IF st = <<p[1], token>> THEN p
          ELSE IF st = <<p[1], peerToken[p]>> THEN None ELSE peerByToken[st]]
    /\ UNCHANGED clientVars

\* take_peer_response_for_owner and client_cancel_peer_request_for_owner.
TakePeer(p) ==
    /\ peerToken[p] # Absent
    /\ peerToken' = [peerToken EXCEPT ![p] = Absent]
    /\ peerByToken' = [st \in PeerTokens |->
          IF st = <<p[1], peerToken[p]>> THEN None ELSE peerByToken[st]]
    /\ UNCHANGED clientVars

\* clear_peer_requests, on ProcessExit.
ClearPeers ==
    /\ peerToken' = [p \in Keys |-> Absent]
    /\ peerByToken' = [st \in PeerTokens |-> None]
    /\ UNCHANGED clientVars

-----------------------------------------------------------------------------
(* The index on its own, under every caller that takes backend ids from a  *)
(* counter: an id is new to the index when it is bound.                    *)

Fresh(b) == \A k \in Keys : backendOf[k] # b

LifetimeNext ==
    \/ \E k \in Keys, t \in Tokens \cup {None} : Admit(k, t)
    \/ \E k \in Keys, b \in BackendIds : Fresh(b) /\ Bind(k, b)
    \/ \E k \in Keys : Remove(k)
    \/ \E b \in BackendIds : RemoveByBackend(b)
    \/ \E p \in Keys, t \in Tokens \cup {None} : InsertPeer(p, t)
    \/ \E p \in Keys : TakePeer(p)
    \/ ClearPeers

LifetimeSpec == LifetimeInit /\ [][LifetimeNext]_lifetimeVars

-----------------------------------------------------------------------------
(* Every variable of the index has the type of the Rust map it models     *)
(* (struct Inner).                                                         *)
LifetimeTypeOK ==
    /\ backendOf \in [Keys -> BackendIds \cup {None, Absent}]
    /\ tokenOf \in [Keys -> Tokens \cup {None}]
    /\ clientByBackend \in [BackendIds -> Keys \cup {None}]
    /\ clientByToken \in [Tokens -> Keys \cup {None}]
    /\ peerToken \in [Keys -> Tokens \cup {None, Absent}]
    /\ peerByToken \in [PeerTokens -> Keys \cup {None}]

(* client_by_backend is exactly the inverse of the bound rows: a backend's *)
(* cancellation finds the live request it names and no other, whatever    *)
(* binds, rebinds, removals and cancellations came before it.              *)
BackendIndexExact ==
    \A k \in Keys, b \in BackendIds :
        (clientByBackend[b] = k) <=> (backendOf[k] = b)

(* A progress token never names a request that has ended, one that is not  *)
(* in the backend yet, or one that did not ask for that token: so          *)
(* session_for_backend_progress cannot route progress to a dead request.   *)
TokenIndexSound ==
    \A t \in Tokens :
        clientByToken[t] # None =>
            /\ IsBound(clientByToken[t])
            /\ tokenOf[clientByToken[t]] = t

(* The peer token index names only live peer requests, of the session in   *)
(* the key, that carry the token: client progress is relayed to the        *)
(* backend only for a request the same session is serving.                 *)
PeerIndexSound ==
    \A s \in Sessions, t \in Tokens :
        peerByToken[<<s, t>>] # None =>
            /\ peerByToken[<<s, t>>][1] = s
            /\ peerToken[peerByToken[<<s, t>>]] = t

(* The end of one request never takes away the progress route of another   *)
(* that is still running, not even when both named the same token: a route *)
(* leaves a live request only for a request bound later with that token.   *)
RouteOutlivesOthers ==
    [][\A t \in Tokens, k \in Keys :
          (clientByToken[t] = k /\ backendOf'[k] = backendOf[k])
             => \/ clientByToken'[t] = k
                \/ /\ clientByToken'[t] \in Keys
                   /\ backendOf'[clientByToken'[t]] # backendOf[clientByToken'[t]]
      ]_lifetimeVars
=============================================================================
