--------------------------- MODULE SessionRegistry --------------------------
(***************************************************************************)
(* The in-memory map of gateway-web from browser sessions to sockets, and  *)
(* the connection handlers that maintain it.  Every tab of one browser     *)
(* carries the same session id; socket.io notices some time after the fact *)
(* that a browser has gone, so that a reconnect can overtake the           *)
(* disconnect of the socket it replaces.                                   *)
(***************************************************************************)
EXTENDS Integers, FiniteSets

CONSTANTS Sessions,   \* browser sessions, one per cookie
          Sockets,    \* the WebSocket connections ever made
          NoSession, NoSocket

ASSUME RegistryAssumption ==
    NoSession \notin Sessions /\ NoSocket \notin Sockets /\ IsFiniteSet(Sessions)

VARIABLES session,    \* session[k]: client.data.sessionId of socket k
          link,       \* link[k]: how far the connection of k has come
          sessions,   \* the Map: sessions[s] is the socket of session s
          newest,     \* the socket that connected last under session s
          gauge       \* websocket_active_sessions

registryVars == <<session, link, sessions, newest, gauge>>

RegistryTypeOK ==
    /\ session \in [Sockets -> Sessions \cup {NoSession}]
    /\ link \in [Sockets -> {"new", "open", "closing", "closed"}]
    /\ sessions \in [Sessions -> Sockets \cup {NoSocket}]
    /\ newest \in [Sessions -> Sockets \cup {NoSocket}]
    /\ gauge \in Nat

RegistryInit ==
    /\ session = [k \in Sockets |-> NoSession]
    /\ link = [k \in Sockets |-> "new"]
    /\ sessions = [s \in Sessions |-> NoSocket]
    /\ newest = [s \in Sessions |-> NoSocket]
    /\ gauge = 0

Registered(map) == {s \in Sessions : map[s] # NoSocket}

(* count(), as metricsService.setActiveSessions gets it.                   *)
SetGauge == gauge' = Cardinality(Registered(sessions'))

(* resolveSessionId takes the id of the page, else of the cookie.          *)
HandleConnection(k, s) ==
    /\ link[k] = "new"
    /\ link' = [link EXCEPT ![k] = "open"]
    /\ session' = [session EXCEPT ![k] = s]
    /\ sessions' = [sessions EXCEPT ![s] = k]
    /\ newest' = [newest EXCEPT ![s] = k]
    /\ SetGauge

(* The tab is closed or the network is gone; the server does not know yet. *)
BrowserLeaves(k) ==
    /\ link[k] = "open"
    /\ link' = [link EXCEPT ![k] = "closing"]
    /\ UNCHANGED <<session, sessions, newest, gauge>>

(* Mutants of Unregister: the entry stays; the entry goes whoever owns it. *)
UnregisterNothing(s, k) == sessions' = sessions

UnregisterAny(s, k) == sessions' = [sessions EXCEPT ![s] = NoSocket]

(* unregister leaves the entry alone if another socket has replaced k.     *)
Unregister(s, k) ==
    sessions' = [sessions EXCEPT ![s] = IF @ = k THEN NoSocket ELSE @]

HandleDisconnect(k) ==
    /\ link[k] = "closing"
    /\ link' = [link EXCEPT ![k] = "closed"]
    /\ Unregister(session[k], k)
    /\ SetGauge
    /\ UNCHANGED <<session, newest>>

(* The gateway process dies: sockets and map are gone, cookies remain.     *)
RegistryRestart ==
    /\ link' = [k \in Sockets |-> IF link[k] = "new" THEN "new" ELSE "closed"]
    /\ sessions' = [s \in Sessions |-> NoSocket]
    /\ gauge' = 0
    /\ UNCHANGED <<session, newest>>

RegistryNext ==
    \/ \E k \in Sockets, s \in Sessions : HandleConnection(k, s)
    \/ \E k \in Sockets : BrowserLeaves(k) \/ HandleDisconnect(k)
    \/ RegistryRestart

RegistrySpec == RegistryInit /\ [][RegistryNext]_registryVars

-----------------------------------------------------------------------------
Live(k) == link[k] \in {"open", "closing"}

(* A registered socket has not been disconnected, and it belongs to the    *)
(* session it is registered for.                                           *)
EntryIsLive ==
    \A s \in Sessions :
        sessions[s] # NoSocket => Live(sessions[s]) /\ session[sessions[s]] = s

(* As long as the last socket of a session to connect is not disconnected, *)
(* it is the one callbacks reach: the late disconnect of an older socket   *)
(* does not unregister it.                                                 *)
NewestIsRegistered ==
    \A s \in Sessions :
        newest[s] # NoSocket /\ Live(newest[s]) => sessions[s] = newest[s]

(* websocket_active_sessions is the size of the map in every state.        *)
GaugeCountsEntries == gauge = Cardinality(Registered(sessions))

RegistryInv == RegistryTypeOK /\ EntryIsLive /\ NewestIsRegistered /\ GaugeCountsEntries
=============================================================================
