------------------------- MODULE RequestLifetimeProofs -------------------------
(***************************************************************************)
(* Proofs about the lifetime index for every set of sessions, ids and     *)
(* tokens.  One lemma per operation: the broker's proofs cite the same     *)
(* lemmas for the operations its handlers perform.                         *)
(***************************************************************************)
EXTENDS RequestLifetime, TLAPS

(* The three indexes agree with the rows they index, in well-typed tables. *)
LifetimeInv ==
    /\ LifetimeTypeOK
    /\ BackendIndexExact
    /\ TokenIndexSound
    /\ PeerIndexSound

(* Admitting a request (admit_with_session) keeps the index consistent.    *)
LEMMA AdmitKeepsInv ==
    ASSUME LifetimeInv, NEW k \in Keys, NEW t \in Tokens \cup {None}, Admit(k, t)
    PROVE  LifetimeInv'
<1> USE SentinelAssumption
<1>1. LifetimeTypeOK'
  BY DEF LifetimeInv, LifetimeTypeOK, Admit, peerVars
<1>2. BackendIndexExact'
  BY DEF LifetimeInv, LifetimeTypeOK, BackendIndexExact, Admit, HasRow
<1>3. TokenIndexSound'
  BY DEF LifetimeInv, LifetimeTypeOK, TokenIndexSound, IsBound, Admit, HasRow
<1>4. PeerIndexSound'
  BY DEF LifetimeInv, PeerIndexSound, Admit, peerVars
<1>5. QED
  BY <1>1, <1>2, <1>3, <1>4 DEF LifetimeInv

(* Binding a request to a backend id no row has (bind_backend) keeps the   *)
(* index consistent.                                                       *)
LEMMA BindKeepsInv ==
    ASSUME LifetimeInv, NEW k \in Keys, NEW b \in BackendIds, Fresh(b), Bind(k, b)
    PROVE  LifetimeInv'
<1> USE SentinelAssumption
<1>1. CASE ~HasRow(k)
  BY <1>1 DEF Bind, lifetimeVars, LifetimeInv, LifetimeTypeOK, BackendIndexExact,
              TokenIndexSound, PeerIndexSound, IsBound
<1>2. CASE HasRow(k)
  <2>1. LifetimeTypeOK'
    BY <1>2 DEF LifetimeInv, LifetimeTypeOK, Bind, peerVars
  <2>2. BackendIndexExact'
    <3> SUFFICES ASSUME NEW j \in Keys, NEW x \in BackendIds
                 PROVE  (clientByBackend'[x] = j) <=> (backendOf'[j] = x)
      BY DEF BackendIndexExact
    <3>1. CASE x = b
      BY <1>2, <3>1 DEF LifetimeInv, LifetimeTypeOK, BackendIndexExact, Bind, Fresh
    <3>2. CASE x # b /\ x = backendOf[k]
      <4>1. clientByBackend'[x] = None
        BY <1>2, <3>2 DEF Bind
      <4>2. backendOf'[j] # x
        BY <1>2, <3>2 DEF LifetimeInv, LifetimeTypeOK, BackendIndexExact, Bind
      <4>3. QED
        BY <4>1, <4>2 DEF Keys
    <3>3. CASE x # b /\ x # backendOf[k]
      BY <1>2, <3>3 DEF LifetimeInv, LifetimeTypeOK, BackendIndexExact, Bind
    <3>4. QED
      BY <3>1, <3>2, <3>3
  <2>3. TokenIndexSound'
    BY <1>2 DEF LifetimeInv, LifetimeTypeOK, TokenIndexSound, IsBound, Bind, HasRow
  <2>4. PeerIndexSound'
    BY <1>2 DEF LifetimeInv, PeerIndexSound, Bind, peerVars
  <2>5. QED
    BY <2>1, <2>2, <2>3, <2>4 DEF LifetimeInv
<1>3. QED
  BY <1>1, <1>2

(* Dropping a row with its two index entries keeps the index consistent:   *)
(* the common part of every path that ends a request.                      *)
LEMMA DropRowKeepsInv ==
    ASSUME LifetimeInv, NEW k \in Keys, HasRow(k), DropRow(k), UNCHANGED peerVars
    PROVE  LifetimeInv'
<1> USE SentinelAssumption
<1>1. LifetimeTypeOK'
  BY DEF LifetimeInv, LifetimeTypeOK, DropRow, DropTokenIndex, DropBackendIndex, peerVars
<1>2. BackendIndexExact'
  <2> SUFFICES ASSUME NEW j \in Keys, NEW x \in BackendIds
               PROVE  (clientByBackend'[x] = j) <=> (backendOf'[j] = x)
    BY DEF BackendIndexExact
  <2>1. CASE x = backendOf[k]
    <3>1. clientByBackend'[x] = None
      BY <2>1 DEF DropRow, DropBackendIndex
    <3>2. backendOf'[j] # x
      BY <2>1 DEF LifetimeInv, LifetimeTypeOK, BackendIndexExact, DropRow
    <3>3. QED
      BY <3>1, <3>2 DEF Keys
  <2>2. CASE x # backendOf[k]
    BY <2>2 DEF LifetimeInv, LifetimeTypeOK, BackendIndexExact, DropRow, DropBackendIndex
  <2>3. QED
    BY <2>1, <2>2
<1>3. TokenIndexSound'
  <2> SUFFICES ASSUME NEW t \in Tokens, clientByToken'[t] # None
               PROVE  backendOf'[clientByToken'[t]] \in BackendIds /\ tokenOf'[clientByToken'[t]] = t
    BY DEF TokenIndexSound, IsBound
  <2>1. clientByToken'[t] = clientByToken[t] /\ clientByToken[t] \in Keys
    BY DEF DropRow, DropTokenIndex, LifetimeInv, LifetimeTypeOK
  <2>2. clientByToken[t] # k
    BY <2>1 DEF DropRow, DropTokenIndex, LifetimeInv, LifetimeTypeOK, TokenIndexSound
  <2>3. QED
    BY <2>1, <2>2 DEF DropRow, LifetimeInv, LifetimeTypeOK, TokenIndexSound, IsBound
<1>4. PeerIndexSound'
  BY DEF LifetimeInv, PeerIndexSound, peerVars
<1>5. QED
  BY <1>1, <1>2, <1>3, <1>4 DEF LifetimeInv

(* Completion, timeout and client cancellation keep the index consistent.  *)
LEMMA RemoveKeepsInv ==
    ASSUME LifetimeInv, NEW k \in Keys, Remove(k)
    PROVE  LifetimeInv'
<1>1. CASE ~HasRow(k)
  BY <1>1 DEF Remove, lifetimeVars, LifetimeInv, LifetimeTypeOK, BackendIndexExact,
              TokenIndexSound, PeerIndexSound, IsBound
<1>2. CASE HasRow(k)
  BY <1>2, DropRowKeepsInv DEF Remove
<1>3. QED
  BY <1>1, <1>2

(* A backend's cancellation drops exactly the row a client's would: the    *)
(* entry it removes is the row's own backend id.                           *)
LEMMA RemoveByBackendKeepsInv ==
    ASSUME LifetimeInv, NEW b \in BackendIds, RemoveByBackend(b)
    PROVE  LifetimeInv'
<1> USE SentinelAssumption
<1> DEFINE k == clientByBackend[b]
<1>1. k \in Keys /\ backendOf[k] = b
  BY DEF RemoveByBackend, NamesRow, LifetimeInv, LifetimeTypeOK, BackendIndexExact
<1>2. HasRow(k)
  BY <1>1 DEF HasRow
<1>3. DropBackendIndex(k)
  BY <1>1 DEF DropBackendIndex, RemoveByBackend, NamesRow, LifetimeInv, LifetimeTypeOK
<1>4. DropRow(k) /\ UNCHANGED peerVars
  BY <1>3 DEF DropRow, RemoveByBackend, NamesRow
<1> HIDE DEF k
<1>5. QED
  BY <1>1, <1>2, <1>4, DropRowKeepsInv

(* A peer request, new or replacing one with the same id, keeps the index  *)
(* consistent.                                                             *)
LEMMA InsertPeerKeepsInv ==
    ASSUME LifetimeInv, NEW p \in Keys, NEW t \in Tokens \cup {None}, InsertPeer(p, t)
    PROVE  LifetimeInv'
<1> USE SentinelAssumption
<1>1. LifetimeTypeOK'
  BY DEF LifetimeInv, LifetimeTypeOK, InsertPeer, clientVars
<1>2. BackendIndexExact' /\ TokenIndexSound'
  BY DEF LifetimeInv, BackendIndexExact, TokenIndexSound, IsBound, InsertPeer, clientVars
<1>3. PeerIndexSound'
  <2> SUFFICES ASSUME NEW s \in Sessions, NEW u \in Tokens, peerByToken'[<<s, u>>] # None
               PROVE  /\ peerByToken'[<<s, u>>][1] = s
                      /\ peerToken'[peerByToken'[<<s, u>>]] = u
    BY DEF PeerIndexSound
  <2>0. <<s, u>> \in PeerTokens
    BY DEF PeerTokens
  <2>1. CASE <<s, u>> = <<p[1], t>>
    BY <2>0, <2>1 DEF InsertPeer, LifetimeInv, LifetimeTypeOK
  <2>2. CASE <<s, u>> # <<p[1], t>>
    <3>1. /\ <<s, u>> # <<p[1], peerToken[p]>>
          /\ peerByToken'[<<s, u>>] = peerByToken[<<s, u>>]
      BY <2>0, <2>2 DEF InsertPeer
    <3>2. peerByToken[<<s, u>>] # p
      BY <3>1 DEF LifetimeInv, PeerIndexSound
    <3>3. peerByToken[<<s, u>>] \in Keys
      BY <2>0, <3>1 DEF LifetimeInv, LifetimeTypeOK
    <3>4. QED
      BY <3>1, <3>2, <3>3 DEF InsertPeer, LifetimeInv, LifetimeTypeOK, PeerIndexSound
  <2>3. QED
    BY <2>1, <2>2
<1>4. QED
  BY <1>1, <1>2, <1>3 DEF LifetimeInv

(* The client's answer to a peer request, or its cancellation, keeps the   *)
(* index consistent.                                                       *)
LEMMA TakePeerKeepsInv ==
    ASSUME LifetimeInv, NEW p \in Keys, TakePeer(p)
    PROVE  LifetimeInv'
<1> USE SentinelAssumption
<1>1. LifetimeTypeOK'
  BY DEF LifetimeInv, LifetimeTypeOK, TakePeer, clientVars
<1>2. BackendIndexExact' /\ TokenIndexSound'
  BY DEF LifetimeInv, BackendIndexExact, TokenIndexSound, IsBound, TakePeer, clientVars
<1>3. PeerIndexSound'
  <2> SUFFICES ASSUME NEW s \in Sessions, NEW u \in Tokens, peerByToken'[<<s, u>>] # None
               PROVE  /\ peerByToken'[<<s, u>>][1] = s
                      /\ peerToken'[peerByToken'[<<s, u>>]] = u
    BY DEF PeerIndexSound
  <2>0. <<s, u>> \in PeerTokens
    BY DEF PeerTokens
  <2>1. /\ <<s, u>> # <<p[1], peerToken[p]>>
        /\ peerByToken'[<<s, u>>] = peerByToken[<<s, u>>]
    BY <2>0 DEF TakePeer
  <2>2. peerByToken[<<s, u>>] # p
    BY <2>1 DEF LifetimeInv, PeerIndexSound
  <2>3. peerByToken[<<s, u>>] \in Keys
    BY <2>0, <2>1 DEF LifetimeInv, LifetimeTypeOK
  <2>4. QED
    BY <2>1, <2>2, <2>3 DEF TakePeer, LifetimeInv, LifetimeTypeOK, PeerIndexSound
<1>4. QED
  BY <1>1, <1>2, <1>3 DEF LifetimeInv

(* Clearing the peer tables when a backend exits keeps the index           *)
(* consistent.                                                             *)
LEMMA ClearPeersKeepsInv ==
    ASSUME LifetimeInv, ClearPeers
    PROVE  LifetimeInv'
<1>1. LifetimeTypeOK' /\ PeerIndexSound'
  BY DEF LifetimeInv, LifetimeTypeOK, PeerIndexSound, PeerTokens, ClearPeers, clientVars
<1>2. BackendIndexExact' /\ TokenIndexSound'
  BY DEF LifetimeInv, BackendIndexExact, TokenIndexSound, IsBound, ClearPeers, clientVars
<1>3. QED
  BY <1>1, <1>2 DEF LifetimeInv

(* The empty index is consistent (RequestLifetime::new).                   *)
LEMMA InitInv == LifetimeInit => LifetimeInv
  BY SentinelAssumption DEF LifetimeInit, LifetimeInv, LifetimeTypeOK, BackendIndexExact,
     TokenIndexSound, PeerIndexSound, Keys, PeerTokens

(* Every operation keeps the three indexes consistent.                     *)
LEMMA NextKeepsInv == LifetimeInv /\ [LifetimeNext]_lifetimeVars => LifetimeInv'
<1> SUFFICES ASSUME LifetimeInv, [LifetimeNext]_lifetimeVars
             PROVE  LifetimeInv'
  OBVIOUS
<1>1. ASSUME NEW k \in Keys, NEW t \in Tokens \cup {None}, Admit(k, t)
      PROVE  LifetimeInv'
  BY <1>1, AdmitKeepsInv
<1>2. ASSUME NEW k \in Keys, NEW b \in BackendIds, Fresh(b), Bind(k, b)
      PROVE  LifetimeInv'
  BY <1>2, BindKeepsInv
<1>3. ASSUME NEW k \in Keys, Remove(k)
      PROVE  LifetimeInv'
  BY <1>3, RemoveKeepsInv
<1>4. ASSUME NEW b \in BackendIds, RemoveByBackend(b)
      PROVE  LifetimeInv'
  BY <1>4, RemoveByBackendKeepsInv
<1>5. ASSUME NEW p \in Keys, NEW t \in Tokens \cup {None}, InsertPeer(p, t)
      PROVE  LifetimeInv'
  BY <1>5, InsertPeerKeepsInv
<1>6. ASSUME NEW p \in Keys, TakePeer(p)
      PROVE  LifetimeInv'
  BY <1>6, TakePeerKeepsInv
<1>7. CASE ClearPeers
  BY <1>7, ClearPeersKeepsInv
<1>8. CASE UNCHANGED lifetimeVars
  BY <1>8 DEF lifetimeVars, LifetimeInv, LifetimeTypeOK, BackendIndexExact,
              TokenIndexSound, PeerIndexSound, IsBound
<1>9. QED
  BY <1>1, <1>2, <1>3, <1>4, <1>5, <1>6, <1>7, <1>8 DEF LifetimeNext

(* In every reachable state the tables are well typed, the backend index   *)
(* is the inverse of the bound rows, and both token indexes name only live *)
(* requests that asked for the token: LifetimeTypeOK, BackendIndexExact,   *)
(* TokenIndexSound and PeerIndexSound hold for all constants.              *)
THEOREM LifetimeIndexConsistent ==
    LifetimeSpec => [](LifetimeTypeOK /\ BackendIndexExact /\ TokenIndexSound /\ PeerIndexSound)
<1>1. LifetimeInv => LifetimeTypeOK /\ BackendIndexExact /\ TokenIndexSound /\ PeerIndexSound
  BY DEF LifetimeInv
<1>2. QED
  BY <1>1, InitInv, NextKeepsInv, PTL DEF LifetimeSpec

(* One step of the index takes the progress route from a live request only *)
(* to give it to a request that the same step binds.                       *)
LEMMA RouteStep ==
    ASSUME LifetimeInv, [LifetimeNext]_lifetimeVars,
           NEW u \in Tokens, NEW j \in Keys,
           clientByToken[u] = j, backendOf'[j] = backendOf[j]
    PROVE  \/ clientByToken'[u] = j
           \/ /\ clientByToken'[u] \in Keys
              /\ backendOf'[clientByToken'[u]] # backendOf[clientByToken'[u]]
<1> USE SentinelAssumption
<1>0. backendOf[j] \in BackendIds /\ tokenOf[j] = u
  BY DEF LifetimeInv, TokenIndexSound, IsBound
<1>1. ASSUME NEW k \in Keys, NEW t \in Tokens \cup {None}, Admit(k, t)
      PROVE  clientByToken'[u] = j
  BY <1>1 DEF Admit
<1>2. ASSUME NEW k \in Keys, NEW b \in BackendIds, Fresh(b), Bind(k, b)
      PROVE  \/ clientByToken'[u] = j
             \/ /\ clientByToken'[u] \in Keys
                /\ backendOf'[clientByToken'[u]] # backendOf[clientByToken'[u]]
  <2>1. CASE ~HasRow(k)
    BY <1>2, <2>1 DEF Bind, lifetimeVars
  <2>2. CASE HasRow(k) /\ u # tokenOf[k]
    BY <1>2, <2>2 DEF Bind
  <2>3. CASE HasRow(k) /\ u = tokenOf[k]
    BY <1>2, <2>3 DEF Bind, Fresh, LifetimeInv, LifetimeTypeOK
  <2>4. QED
    BY <2>1, <2>2, <2>3
<1>3. ASSUME NEW k \in Keys, HasRow(k), backendOf' = [backendOf EXCEPT ![k] = Absent],
             DropTokenIndex(k)
      PROVE  clientByToken'[u] = j
  <2>1. k # j
    BY <1>0, <1>3 DEF LifetimeInv, LifetimeTypeOK
  <2>2. QED
    BY <1>3, <2>1 DEF DropTokenIndex
<1>4. ASSUME NEW k \in Keys, Remove(k)
      PROVE  clientByToken'[u] = j
  <2>1. CASE ~HasRow(k)
    BY <1>4, <2>1 DEF Remove, lifetimeVars
  <2>2. CASE HasRow(k)
    BY <1>3, <1>4, <2>2 DEF Remove, DropRow
  <2>3. QED
    BY <2>1, <2>2
<1>5. ASSUME NEW b \in BackendIds, RemoveByBackend(b)
      PROVE  clientByToken'[u] = j
  <2>1. clientByBackend[b] \in Keys /\ HasRow(clientByBackend[b])
    BY <1>5 DEF RemoveByBackend, NamesRow, LifetimeInv, LifetimeTypeOK, BackendIndexExact, HasRow
  <2>2. QED
    BY <1>3, <1>5, <2>1 DEF RemoveByBackend, NamesRow
<1>6. CASE UNCHANGED clientVars
  BY <1>6 DEF clientVars
<1>7. QED
  BY <1>1, <1>2, <1>4, <1>5, <1>6
     DEF LifetimeNext, InsertPeer, TakePeer, ClearPeers, clientVars, lifetimeVars

(* The end of a request never takes the progress route of another live     *)
(* request: RouteOutlivesOthers for all constants.                         *)
THEOREM RoutesSurvive == LifetimeSpec => RouteOutlivesOthers
<1>1. LifetimeInv /\ [LifetimeNext]_lifetimeVars
        => [\A t \in Tokens, k \in Keys :
              (clientByToken[t] = k /\ backendOf'[k] = backendOf[k])
                => \/ clientByToken'[t] = k
                   \/ /\ clientByToken'[t] \in Keys
                      /\ backendOf'[clientByToken'[t]] # backendOf[clientByToken'[t]]
           ]_lifetimeVars
  BY RouteStep
<1>2. QED
  BY <1>1, InitInv, NextKeepsInv, PTL DEF LifetimeSpec, RouteOutlivesOthers
=============================================================================
