------------------------------ MODULE Presence ------------------------------
(***************************************************************************)
(* The WebSocket registry (broadcast.ts), the server's heartbeat           *)
(* (marcopolo.ts) and the life of a socket (ws.ts, operations/auth.ts).    *)
(*                                                                         *)
(* Every callback of the one Node process runs to its end before the next, *)
(* so a callback is an action; only the handshake, which awaits the        *)
(* database after it has registered its socket, takes two.  Client and     *)
(* network are external: a marco may be answered late or never, a peer may *)
(* go silent without closing, an accepted message may arrive after the     *)
(* server called close().  The watching counts that are broadcast as       *)
(* viewers come and go and after each heartbeat are read off the registry  *)
(* and kept by no one here.                                                *)
(*                                                                         *)
(* RemovesOpenOnly, LastInRoom, TimeoutIgnored and UnansweredNotOpen are   *)
(* handlers with a slip in them, each put in the place of the definition   *)
(* it precedes to see a property fail.                                     *)
(***************************************************************************)
EXTENDS Naturals, FiniteSets

CONSTANTS
    Socket,   \* connection slots; one is used again once its socket is closed
    Room,
    RoomOf    \* the :id a socket's URL names

ASSUME RoomOfOK == RoomOf \in [Socket -> Room]

VARIABLES
    state,        \* readyState; "errored" between the error and close events
    authTimer,    \* sockets whose authTimeout is pending
    authed,       \* sockets whose handler has authenticated = true
    syncing,      \* sockets whose handshake awaits the database
    roomSockets,  \* the Map: its domain is the rooms with an entry
    interval,     \* globalMarcoInterval # null
    window,       \* collectTimeout # null
    responders,   \* poloResponders
    asked,        \* external: peers with a marco still to answer
    silent        \* external: peers that will not send anything again

presenceVars == <<state, authTimer, authed, syncing, roomSockets, interval, window,
                  responders, asked, silent>>

States == {"closed", "open", "closing", "errored"}

PresenceTypeOK ==
    /\ state \in [Socket -> States]
    /\ authTimer \subseteq Socket
    /\ authed \subseteq Socket
    /\ syncing \subseteq Socket
    /\ DOMAIN roomSockets \subseteq Room
    /\ \A r \in DOMAIN roomSockets : roomSockets[r] \subseteq Socket
    /\ interval \in BOOLEAN
    /\ window \in BOOLEAN
    /\ responders \subseteq Socket
    /\ asked \subseteq Socket
    /\ silent \subseteq Socket

PresenceInit ==
    /\ state = [s \in Socket |-> "closed"]
    /\ authTimer = {}
    /\ authed = {}
    /\ syncing = {}
    /\ roomSockets = [r \in {} |-> {}]
    /\ interval = FALSE
    /\ window = FALSE
    /\ responders = {}
    /\ asked = {}
    /\ silent = {}

-----------------------------------------------------------------------------
(* broadcast.ts *)

Sockets(r) == IF r \in DOMAIN roomSockets THEN roomSockets[r] ELSE {}

Registered == UNION {roomSockets[r] : r \in DOMAIN roomSockets}

\* addSocket
AddSocket(s) ==
    /\ roomSockets' = [r \in DOMAIN roomSockets \cup {RoomOf[s]} |->
                          IF r = RoomOf[s] THEN Sockets(r) \cup {s} ELSE roomSockets[r]]
    /\ interval' = TRUE

RemovesOpenOnly(s) ==
    [r \in DOMAIN roomSockets |->
        IF r = RoomOf[s] /\ state[s] = "open" THEN roomSockets[r] \ {s} ELSE roomSockets[r]]

\* The Map once s has left: an emptied Set goes with it.
Without(s) ==
    [r \in {q \in DOMAIN roomSockets : q = RoomOf[s] => roomSockets[q] \ {s} # {}} |->
        IF r = RoomOf[s] THEN roomSockets[r] \ {s} ELSE roomSockets[r]]

LastInRoom(s) == RoomOf[s] \notin DOMAIN Without(s)

\* getTotalSocketCount() = 0 once s has left.
LastOfAll(s) == \A r \in DOMAIN Without(s) : Without(s)[r] = {}

\* removeSocket and stopMarcoIfEmpty
RemoveSocket(s) ==
    /\ roomSockets' = Without(s)
    /\ IF LastOfAll(s) /\ interval
       THEN interval' = FALSE /\ window' = FALSE /\ responders' = {}
       ELSE UNCHANGED <<interval, window, responders>>

-----------------------------------------------------------------------------
(* ws.ts and operations/auth.ts *)

\* socket.close(): nothing happens unless the socket is open.
Close(S) ==
    state' = [s \in Socket |-> IF s \in S /\ state[s] = "open" THEN "closing" ELSE state[s]]

\* A new socket object: nothing that was left behind by the slot's last user
\* concerns it.
Connect(s) ==
    /\ state[s] = "closed"
    /\ s \notin syncing
    /\ state' = [state EXCEPT ![s] = "open"]
    /\ authTimer' = authTimer \cup {s}
    /\ authed' = authed \ {s}
    /\ responders' = responders \ {s}
    /\ asked' = asked \ {s}
    /\ silent' = silent \ {s}
    /\ UNCHANGED <<syncing, roomSockets, interval, window>>

TimeoutIgnored(s) == UNCHANGED state

AuthDeadline(s) == IF s \in authed THEN UNCHANGED state ELSE Close({s})

\* authTimeout fires, 10 s after the socket opened.
AuthTimeout(s) ==
    /\ s \in authTimer
    /\ authTimer' = authTimer \ {s}
    /\ AuthDeadline(s)
    /\ UNCHANGED <<authed, syncing, roomSockets, interval, window, responders,
                   asked, silent>>

\* A message handler runs while the socket is open, and after close() was
\* called as long as the peer's frames still arrive.
Receives(s) == state[s] \in {"open", "closing"} /\ s \notin silent

\* auth with a token that does not verify or names another room, or a message
\* of no known type before auth.
AuthRefused(s) ==
    /\ Receives(s)
    /\ s \notin authed
    /\ Close({s})
    /\ UNCHANGED <<authTimer, authed, syncing, roomSockets, interval, window,
                   responders, asked, silent>>

\* auth with a valid token, up to the first await.
Auth(s) ==
    /\ Receives(s)
    /\ s \notin authed
    /\ authTimer' = authTimer \ {s}
    /\ authed' = authed \cup {s}
    /\ syncing' = syncing \cup {s}
    /\ AddSocket(s)
    /\ UNCHANGED <<state, window, responders, asked, silent>>

\* The database has answered: sync, or force_reload when the handshake found a
\* room to migrate.
Sync(s) ==
    /\ s \in syncing
    /\ syncing' = syncing \ {s}
    /\ UNCHANGED <<state, authTimer, authed, roomSockets, interval, window,
                   responders, asked, silent>>

\* The room is gone (1008) or a query threw (4401).
SyncFailed(s) ==
    /\ s \in syncing
    /\ syncing' = syncing \ {s}
    /\ Close({s})
    /\ UNCHANGED <<authTimer, authed, roomSockets, interval, window, responders,
                   asked, silent>>

\* A write of a viewer whose token no longer verifies: session_expired, 4401.
SessionExpired(s) ==
    /\ Receives(s)
    /\ s \in authed
    /\ Close({s})
    /\ UNCHANGED <<authTimer, authed, syncing, roomSockets, interval, window,
                   responders, asked, silent>>

\* The handlers of the close and error events do the same.
Leave(s) ==
    /\ authTimer' = authTimer \ {s}
    /\ IF s \in authed
       THEN RemoveSocket(s)
       ELSE UNCHANGED <<roomSockets, interval, window, responders>>
    /\ UNCHANGED <<authed, syncing, asked, silent>>

\* The peer went away, or the connection it was told to close is down.
PeerCloses(s) ==
    /\ state[s] = "open"
    /\ state' = [state EXCEPT ![s] = "closed"]
    /\ Leave(s)

Closed(s) ==
    /\ state[s] \in {"closing", "errored"}
    /\ state' = [state EXCEPT ![s] = "closed"]
    /\ Leave(s)

Errored(s) ==
    /\ state[s] \in {"open", "closing"}
    /\ state' = [state EXCEPT ![s] = "errored"]
    /\ Leave(s)

\* External: the peer loses power or its network without a FIN.
GoSilent(s) ==
    /\ state[s] = "open"
    /\ silent' = silent \cup {s}
    /\ UNCHANGED <<state, authTimer, authed, syncing, roomSockets, interval, window,
                   responders, asked>>

-----------------------------------------------------------------------------
(* marcopolo.ts *)

\* triggerMarcoCycle, every 15 s.  A window lasts 5 s and both timers run in
\* one event loop, so the window of the last cycle has closed by now.
Marco ==
    /\ interval
    /\ ~window
    /\ Registered # {}
    /\ window' = TRUE
    /\ responders' = {}
    /\ asked' = asked \cup {s \in Registered : state[s] = "open"}
    /\ UNCHANGED <<state, authTimer, authed, syncing, roomSockets, interval, silent>>

\* The peer's polo arrives, in time or not.
Polo(s) ==
    /\ s \in asked
    /\ Receives(s)
    /\ asked' = asked \ {s}
    /\ responders' = IF s \in authed THEN responders \cup {s} ELSE responders
    /\ UNCHANGED <<state, authTimer, authed, syncing, roomSockets, interval, window,
                   silent>>

UnansweredNotOpen ==
    {s \in Registered : s \notin responders /\ state[s] # "open"}

Unanswered == {s \in Registered : s \notin responders /\ state[s] = "open"}

\* The window closes: who did not answer is dropped.
Collect ==
    /\ window
    /\ window' = FALSE
    /\ Close(Unanswered)
    /\ responders' = {}
    /\ UNCHANGED <<authTimer, authed, syncing, roomSockets, interval, asked, silent>>

-----------------------------------------------------------------------------
SocketStep(s) ==
    \/ Connect(s) \/ AuthTimeout(s) \/ AuthRefused(s) \/ Auth(s)
    \/ Sync(s) \/ SyncFailed(s) \/ SessionExpired(s)
    \/ PeerCloses(s) \/ Closed(s) \/ Errored(s) \/ GoSilent(s)
    \/ Polo(s)

PresenceNext == (\E s \in Socket : SocketStep(s)) \/ Marco \/ Collect

PresenceSpec == PresenceInit /\ [][PresenceNext]_presenceVars

\* Timers fire, and a socket that is being closed does close: ws destroys it
\* when the peer has not confirmed after 30 s.  Nothing is assumed of the peer.
Fairness ==
    /\ WF_presenceVars(Marco)
    /\ WF_presenceVars(Collect)
    /\ \A s \in Socket : WF_presenceVars(AuthTimeout(s)) /\ WF_presenceVars(Closed(s))

FairPresenceSpec == PresenceSpec /\ Fairness

-----------------------------------------------------------------------------
\* The heartbeat runs exactly while somebody is registered, in whatever room:
\* neither the last of a room's viewers stops it for the others, nor does an
\* emptied server keep a timer or an open window behind.
HeartbeatIffSockets ==
    /\ interval <=> Registered # {}
    /\ window => interval

\* The Map keeps no entry for a room without viewers, which is what lets the
\* metrics count live rooms by its size.
NoEmptyRooms == \A r \in DOMAIN roomSockets : roomSockets[r] # {}

\* Exactly the authenticated sockets that have not gone are registered, each in
\* its own room: also when a valid token arrives after the deadline closed the
\* socket, when an error precedes the close, and while a handshake is waiting.
RegisteredIffAuthenticated ==
    \A s \in Socket, r \in Room :
        s \in Sockets(r) <=>
            r = RoomOf[s] /\ s \in authed /\ state[s] \in {"open", "closing"}

\* Both: the registry is what its users take it for.
RegistryExact == NoEmptyRooms /\ RegisteredIffAuthenticated

\* A peer that has gone silent without closing is dropped in the end.
SilentAreDropped ==
    \A s \in Socket : (s \in silent /\ s \in Registered) ~> s \notin Registered

\* A socket that opens does not stay open without authenticating.
AuthenticatesOrCloses ==
    \A s \in Socket : state[s] = "open" ~> (s \in authed \/ state[s] # "open")

=============================================================================
