----------------------- MODULE SessionRegistryProofs ------------------------
(***************************************************************************)
(* The session map of gateway-web is correct for every set of sessions and *)
(* sockets.  RegistryInv is not inductive: a socket that has not connected *)
(* yet could be the newest one of some other session.                      *)
(***************************************************************************)
EXTENDS SessionRegistry, FiniteSetTheorems, TLAPS

NewestHasConnected ==
    \A s \in Sessions : newest[s] # NoSocket => link[newest[s]] # "new"

IInv == RegistryInv /\ NewestHasConnected

(* The number of entries of any map is a natural number.                   *)
LEMMA CountIsNat ==
    ASSUME NEW map
    PROVE  Cardinality(Registered(map)) \in Nat
  <1>1. Registered(map) \subseteq Sessions
    BY DEF Registered
  <1> QED BY <1>1, RegistryAssumption, FS_Subset, FS_CardinalityType

(* The empty map has no entry.                                             *)
LEMMA EmptyCount ==
    ASSUME NEW map, \A s \in Sessions : map[s] = NoSocket
    PROVE  Cardinality(Registered(map)) = 0
  <1>1. Registered(map) = {}
    BY DEF Registered
  <1> QED BY <1>1, FS_EmptySet

(* A new connection takes the entry of its session over.                   *)
LEMMA ConnectionKeepsInv ==
    ASSUME IInv, NEW k \in Sockets, NEW s \in Sessions, HandleConnection(k, s)
    PROVE  IInv'
  <1> USE RegistryAssumption DEF IInv, RegistryInv, HandleConnection, SetGauge
  <1>1. RegistryTypeOK'
    BY CountIsNat DEF RegistryTypeOK
  <1>2. /\ session'[k] = s /\ link'[k] = "open"
        /\ sessions'[s] = k /\ newest'[s] = k
        /\ \A l \in Sockets : l # k => session'[l] = session[l] /\ link'[l] = link[l]
        /\ \A t \in Sessions : t # s => sessions'[t] = sessions[t] /\ newest'[t] = newest[t]
    BY DEF RegistryTypeOK
  <1>3. \A t \in Sessions : sessions[t] # k /\ newest[t] # k
    BY DEF EntryIsLive, Live, NewestHasConnected
  <1>4. EntryIsLive'
    BY <1>2, <1>3 DEF RegistryTypeOK, EntryIsLive, Live
  <1>5. NewestIsRegistered'
    BY <1>2, <1>3 DEF RegistryTypeOK, NewestIsRegistered, Live
  <1>6. NewestHasConnected'
    BY <1>2, <1>3 DEF RegistryTypeOK, NewestHasConnected
  <1>7. GaugeCountsEntries'
    BY DEF GaugeCountsEntries
  <1> QED BY <1>1, <1>4, <1>5, <1>6, <1>7

(* A browser that leaves changes nothing on the server.                    *)
LEMMA LeavingKeepsInv ==
    ASSUME IInv, NEW k \in Sockets, BrowserLeaves(k)
    PROVE  IInv'
  <1> USE RegistryAssumption DEF IInv, RegistryInv, BrowserLeaves
  <1>1. RegistryTypeOK'
    BY DEF RegistryTypeOK
  <1>2. \A l \in Sockets : /\ Live(l)' <=> Live(l)
                           /\ link'[l] = "new" <=> link[l] = "new"
    BY DEF RegistryTypeOK, Live
  <1>3. EntryIsLive' /\ NewestIsRegistered' /\ NewestHasConnected'
    BY <1>2 DEF RegistryTypeOK, EntryIsLive, NewestIsRegistered, NewestHasConnected, Live
  <1>4. GaugeCountsEntries'
    BY DEF GaugeCountsEntries
  <1> QED BY <1>1, <1>3, <1>4

(* The disconnect of a socket removes the entry it still owns, no other.   *)
LEMMA DisconnectKeepsInv ==
    ASSUME IInv, NEW k \in Sockets, HandleDisconnect(k)
    PROVE  IInv'
  <1> USE RegistryAssumption
      DEF IInv, RegistryInv, HandleDisconnect, SetGauge, Unregister
  <1>1. RegistryTypeOK'
    BY CountIsNat DEF RegistryTypeOK
  <1>2. /\ link'[k] = "closed" /\ session' = session /\ newest' = newest
        /\ \A l \in Sockets : l # k => link'[l] = link[l]
        /\ \A s \in Sessions :
              IF s = session[k] /\ sessions[s] = k
              THEN sessions'[s] = NoSocket
              ELSE sessions'[s] = sessions[s]
    BY DEF RegistryTypeOK
  <1>3. \A s \in Sessions : sessions[s] = k => s = session[k]
    BY DEF EntryIsLive
  <1>4. EntryIsLive'
    BY <1>2, <1>3 DEF RegistryTypeOK, EntryIsLive, Live
  <1>5. NewestIsRegistered'
    BY <1>2 DEF RegistryTypeOK, NewestIsRegistered, Live
  <1>6. NewestHasConnected'
    BY <1>2 DEF RegistryTypeOK, NewestHasConnected
  <1>7. GaugeCountsEntries'
    BY DEF GaugeCountsEntries
  <1> QED BY <1>1, <1>4, <1>5, <1>6, <1>7

(* A restart empties the map when every socket is gone.                    *)
LEMMA RestartKeepsInv ==
    ASSUME IInv, RegistryRestart
    PROVE  IInv'
  <1> USE RegistryAssumption DEF IInv, RegistryInv, RegistryRestart
  <1>1. RegistryTypeOK'
    BY DEF RegistryTypeOK
  <1>2. \A k \in Sockets : link'[k] = IF link[k] = "new" THEN "new" ELSE "closed"
    OBVIOUS
  <1>3. EntryIsLive' /\ NewestIsRegistered' /\ NewestHasConnected'
    BY <1>2 DEF RegistryTypeOK, EntryIsLive, NewestIsRegistered, NewestHasConnected, Live
  <1>4. GaugeCountsEntries'
    BY EmptyCount DEF GaugeCountsEntries
  <1> QED BY <1>1, <1>3, <1>4

LEMMA RegistryInitInv == RegistryInit => IInv
  BY RegistryAssumption, EmptyCount
  DEF RegistryInit, IInv, RegistryInv, RegistryTypeOK, EntryIsLive,
      NewestIsRegistered, NewestHasConnected, GaugeCountsEntries

(* The modules that extend SessionRegistry take steps of it, or leave it.  *)
LEMMA RegistryStep == IInv /\ [RegistryNext]_registryVars => IInv'
  <1> SUFFICES ASSUME IInv, [RegistryNext]_registryVars PROVE IInv'
    OBVIOUS
  <1>1. CASE RegistryNext
    BY <1>1, ConnectionKeepsInv, LeavingKeepsInv, DisconnectKeepsInv, RestartKeepsInv
    DEF RegistryNext
  <1>2. CASE UNCHANGED registryVars
    BY <1>2 DEF registryVars, IInv, RegistryInv, RegistryTypeOK, EntryIsLive,
                NewestIsRegistered, NewestHasConnected, GaugeCountsEntries, Live
  <1> QED BY <1>1, <1>2

(* Whatever sockets connect, leave and are found gone, in any order and    *)
(* across restarts, the map holds live sockets of the right session, the   *)
(* newest connection is never unregistered by an older one, and the gauge  *)
(* is the size of the map.                                                 *)
THEOREM RegistryIsCorrect == RegistrySpec => []RegistryInv
  <1>1. IInv => RegistryInv
    BY DEF IInv
  <1> QED BY <1>1, RegistryInitInv, RegistryStep, PTL DEF RegistrySpec

(* A callback finds the newest socket of its session until that socket     *)
(* itself is disconnected (handleDisconnect passes the client on purpose). *)
THEOREM NewestStaysRegistered == RegistrySpec => []NewestIsRegistered
  <1>1. RegistryInv => NewestIsRegistered
    BY DEF RegistryInv
  <1> QED BY <1>1, RegistryIsCorrect, PTL

(* sendAssistantMessage emits to a socket of that session which has not    *)
(* been disconnected.                                                      *)
THEOREM EntriesAreLive == RegistrySpec => []EntryIsLive
  <1>1. RegistryInv => EntryIsLive
    BY DEF RegistryInv
  <1> QED BY <1>1, RegistryIsCorrect, PTL

(* websocket_active_sessions is set from the map and never drifts from it. *)
THEOREM GaugeIsExact == RegistrySpec => []GaugeCountsEntries
  <1>1. RegistryInv => GaugeCountsEntries
    BY DEF RegistryInv
  <1> QED BY <1>1, RegistryIsCorrect, PTL
=============================================================================
