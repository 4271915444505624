------------------------------- MODULE Session -------------------------------
(***************************************************************************)
(* One browser tab and the rooms it visits: the page the router shows, the *)
(* room store's socket with its timers (reconnect backoff, heartbeat probe,*)
(* wake-up listeners), the tokens in localStorage, the lock dialog that    *)
(* awaits two requests, and the server's handshake, which registers a      *)
(* socket first and reads the room afterwards.                             *)
(*                                                                         *)
(* Queues are first in, first out, as one WebSocket is.  What a queue      *)
(* carries is abstracted to the fields the session looks at.  The map      *)
(* itself is module RoomGraph's and ClientSync's.                          *)
(***************************************************************************)
EXTENDS Naturals, Sequences

CONSTANTS
  Rooms,      \* the rooms the tab visits
  Sockets,    \* identities of WebSocket objects, reused once closed
  NoRoom,     \* the empty roomId
  NoSocket,   \* ws = null
  NoToken,    \* no token under the room's key
  MaxQueue,   \* bound: messages on their way to a socket
  MaxFaults,  \* bound: losses, failures, expiries, slow answers
  MaxEdits    \* bound: what other people do to the rooms

ASSUME SessionAssumption ==
  /\ NoRoom \notin Rooms
  /\ NoSocket \notin Sockets
  /\ MaxQueue \in Nat /\ MaxFaults \in Nat /\ MaxEdits \in Nat

VARIABLES
  client,  \* the tab: page, store fields and timers
  token,   \* localStorage: the token kept under each room's key
  dialog,  \* the lock dialog's submit(), suspended at an await
  sock,    \* both ends of every socket, and what is on its way
  room,    \* the rooms table: does it exist, is it locked
  raced,   \* someone else's lock change overlapped this tab's handshake
  faults,  \* faults so far
  edits    \* edits by others so far

vars == <<client, token, dialog, sock, room, raced, faults, edits>>

\* The frames that end a session; disconnectReason keeps which one it was.
Reasons == {"password_rotated", "room_deleted", "room_not_found", "session_expired"}
Msg(kind) == [kind |-> kind]
CloseMsg(code) == [kind |-> "close", code |-> code]

FreeSocket == [room |-> NoRoom, client |-> "free", server |-> "none", session |-> "current",
               snap |-> FALSE, down |-> <<>>, up |-> <<>>]
Idle == [step |-> "idle", of |-> NoRoom, target |-> FALSE, with |-> NoToken]

\* A tab that was just opened on the landing page.
Fresh == [page |-> "home", at |-> NoRoom, shown |-> "none", room |-> NoRoom,
          status |-> "disconnected", synced |-> FALSE, locked |-> FALSE, ws |-> NoSocket,
          reason |-> "none", retry |-> FALSE, beat |-> FALSE, polo |-> FALSE, wake |-> FALSE]

Init ==
  /\ client = Fresh
  /\ token = [r \in Rooms |-> NoToken]
  /\ dialog = Idle
  /\ sock = [s \in Sockets |-> FreeSocket]
  /\ room = [r \in Rooms |-> [exists |-> TRUE, locked |-> FALSE]]
  /\ raced = FALSE
  /\ faults = 0
  /\ edits = 0

-----------------------------------------------------------------------------
(* The store's functions, as functions of the tab c, sockets k, tokens t.  *)

\* getToken: read from localStorage every time, never cached.
TokenOf(c, t) == IF c.room = NoRoom THEN NoToken ELSE t[c.room]

\* socket.close() by the client.
Shut(k, s) ==
  IF s = NoSocket THEN k ELSE [k EXCEPT ![s] = [FreeSocket EXCEPT !.client = "closing"]]

SetTab(c, k, t) == client' = c /\ sock' = k /\ token' = t

\* The fatal messages: forget the token, close the socket, tell why.  The
\* heartbeat interval is left running: without a socket its probe does nothing.
LogOut(c, k, t, why) ==
  SetTab([c EXCEPT !.reason = why, !.status = "auth_failed", !.ws = NoSocket],
         Shut(k, c.ws),
         IF c.room = NoRoom THEN t ELSE [t EXCEPT ![c.room] = NoToken])

\* new WebSocket: which identity it takes does not matter.
Free(k) == {s \in Sockets : k[s].client = "free"}

\* Mutant: the old socket's sync still counts after connect().
ConnectStillSynced(c, k, t) ==
  IF c.room = NoRoom \/ (c.ws # NoSocket /\ k[c.ws].client = "open")
  THEN SetTab(c, k, t)
  ELSE IF TokenOf(c, t) = NoToken
  THEN LogOut(c, k, t, "session_expired")
  ELSE /\ Free(k) # {}
       /\ LET s == CHOOSE s \in Free(k) : TRUE
          IN SetTab([c EXCEPT !.wake = TRUE, !.status = "connecting", !.ws = s],
                    [k EXCEPT ![s] = [FreeSocket EXCEPT !.room = c.room, !.client = "connecting"]],
                    t)

\* connect(): only an OPEN socket makes it return early.
Connect(c, k, t) ==
  IF c.room = NoRoom \/ (c.ws # NoSocket /\ k[c.ws].client = "open")
  THEN SetTab(c, k, t)
  ELSE IF TokenOf(c, t) = NoToken
  THEN LogOut(c, k, t, "session_expired")
  ELSE /\ Free(k) # {}
       /\ LET s == CHOOSE s \in Free(k) : TRUE
          IN SetTab([c EXCEPT !.wake = TRUE, !.status = "connecting", !.synced = FALSE, !.ws = s],
                    [k EXCEPT ![s] = [FreeSocket EXCEPT !.room = c.room, !.client = "connecting"]],
                    t)

\* stopHeartbeat
Still(c) == [c EXCEPT !.beat = FALSE, !.polo = FALSE]

\* reconnect(): drops the socket and the pending attempt, connects at once.
Reconnect(c, k, t) ==
  Connect([Still(c) EXCEPT !.retry = FALSE, !.ws = NoSocket], Shut(k, c.ws), t)

\* disconnect(): everything but disconnectReason goes back to its start.
Disconnected(c) ==
  [Fresh EXCEPT !.page = c.page, !.at = c.at, !.shown = c.shown, !.reason = c.reason]

Admin(c, t) == TokenOf(c, t) # NoToken /\ TokenOf(c, t).admin

\* Vue's watches and the router run as microtasks: no other event of the tab
\* comes between a status that became auth_failed and LeaveForAuth.
Settled == client.page = "room" => client.status # "auth_failed"

-----------------------------------------------------------------------------
(* Pages.                                                                  *)

\* RoomAuthView, mounted with a reason in its query: "not found" at once for two
\* of the reasons; otherwise the server is asked.
AuthPage(c, r, why) ==
  [c EXCEPT !.page = "auth", !.at = r,
            !.shown = IF why \in {"room_deleted", "room_not_found"} \/ ~room[r].exists
                      THEN "not_found" ELSE "form"]

\* POST /auth and POST /auth/admin mint a token of the present password version.
UserToken(r)  == [of |-> r, admin |-> FALSE, age |-> "current"]
AdminToken(r) == [of |-> r, admin |-> TRUE, age |-> "current"]

\* RoomView: mounted, or its id changed.  Whatever was open is disconnected
\* first; without a token the router goes to the room's auth page.
VisitRoom(r) ==
  /\ Settled /\ (client.page # "room" \/ client.at # r)
  /\ LET c == [Disconnected(client) EXCEPT !.page = "room", !.at = r]
         k == Shut(sock, client.ws)
     IN IF token[r] = NoToken
        THEN SetTab(AuthPage(c, r, "none"), k, token)
        ELSE Connect([c EXCEPT !.room = r, !.shown = "none"], k, token)
  /\ UNCHANGED <<dialog, room, raced, faults, edits>>

\* The landing page, or exitRoom: RoomView unmounts.
GoHome ==
  /\ Settled /\ client.page # "home"
  /\ SetTab([Disconnected(client) EXCEPT !.page = "home", !.at = NoRoom, !.shown = "none"],
            Shut(sock, client.ws), token)
  /\ UNCHANGED <<dialog, room, raced, faults, edits>>

\* Mutant: leaves only when there is a reason to show.
LeaveWithReason ==
  /\ client.page = "room" /\ client.status = "auth_failed" /\ client.reason # "none"
  /\ SetTab([Disconnected(client) EXCEPT !.page = "auth", !.shown = "form"],
            Shut(sock, client.ws), [token EXCEPT ![client.at] = NoToken])
  /\ UNCHANGED <<dialog, room, raced, faults, edits>>

\* RoomView's watch on wsStatus: forget the token of the room shown and go to
\* its auth page with the store's reason; RoomView unmounts.
LeaveForAuth ==
  /\ client.page = "room" /\ client.status = "auth_failed"
  /\ SetTab(AuthPage(Disconnected(client), client.at, client.reason),
            Shut(sock, client.ws), [token EXCEPT ![client.at] = NoToken])
  /\ UNCHANGED <<dialog, room, raced, faults, edits>>

\* RoomAuthView.authenticate, then the router opens the room.
Authenticate ==
  /\ client.page = "auth" /\ client.shown = "form"
  /\ room[client.at].exists
  /\ LET r == client.at
         t == [token EXCEPT ![r] = UserToken(r)]
     IN Connect([Disconnected(client) EXCEPT !.page = "room", !.shown = "none", !.room = r],
                sock, t)
  /\ UNCHANGED <<dialog, room, raced, faults, edits>>

-----------------------------------------------------------------------------
(* Events of the client's socket.                                          *)

\* The open event: the token goes out first.  A socket the store has left
\* behind is not used.
Opened(s) ==
  /\ Settled /\ sock[s].client = "connecting"
  /\ LET k == [sock EXCEPT ![s].client = "open", ![s].server = "pending"]
         t == TokenOf(client, token)
     IN IF client.ws # s THEN SetTab(client, k, token)
        ELSE IF t = NoToken THEN LogOut(client, k, token, "session_expired")
        ELSE SetTab(client, [k EXCEPT ![s].up = <<[kind |-> "auth", token |-> t]>>], token)
  /\ UNCHANGED <<dialog, room, raced, faults, edits>>

\* The close event.  One of a socket the store has left behind changes nothing.
OnClose(c, s, code) ==
  IF c.ws # s THEN c
  ELSE IF code = "unauthorized"
  THEN [Still(c) EXCEPT !.ws = NoSocket, !.status = "auth_failed"]
  ELSE [Still(c) EXCEPT !.ws = NoSocket, !.status = "disconnected", !.retry = TRUE]

\* What a frame that is not fatal does to the tab: auth_ok starts the heartbeat.
Frame(c, m) ==
  CASE m.kind = "auth_ok" -> [c EXCEPT !.status = "connected", !.beat = TRUE]
    [] m.kind = "sync"    -> [c EXCEPT !.synced = TRUE, !.locked = m.locked]
    [] m.kind = "lock"    -> [c EXCEPT !.locked = m.locked]
    [] OTHER              -> c

\* A frame or the close event reaches the client.  Any frame clears the probe's
\* response window.
Receive(s) ==
  /\ Settled
  /\ sock[s].client \in {"open", "lost"} /\ sock[s].down # <<>>
  /\ LET m == Head(sock[s].down)
         k == [sock EXCEPT ![s].down = Tail(@)]
         c == [client EXCEPT !.polo = FALSE]
     IN IF m.kind = "close"
        THEN SetTab(OnClose(client, s, m.code), [k EXCEPT ![s] = FreeSocket], token)
        ELSE IF client.ws # s THEN SetTab(client, k, token)
        ELSE IF m.kind \in Reasons THEN LogOut(c, k, token, m.kind)
        ELSE SetTab(Frame(c, m), k, token)
  /\ UNCHANGED <<dialog, room, raced, faults, edits>>

\* The close event of a socket the client itself closed.
Closed(s) ==
  /\ Settled /\ sock[s].client = "closing"
  /\ SetTab(OnClose(client, s, "other"), [sock EXCEPT ![s] = FreeSocket], token)
  /\ UNCHANGED <<dialog, room, raced, faults, edits>>

\* send() of an edit.  Without a token the session ends at once; in a locked
\* room only an administrator's edits leave the tab.
SendEdit ==
  /\ Settled /\ client.page = "room"
  /\ IF TokenOf(client, token) = NoToken
     THEN LogOut(client, sock, token, "session_expired")
     ELSE /\ ~client.locked \/ Admin(client, token)
          /\ client.ws # NoSocket /\ sock[client.ws].client = "open"
          /\ sock[client.ws].up = <<>> /\ client.status = "connected"
          /\ SetTab(client, [sock EXCEPT ![client.ws].up = <<Msg("edit")>>], token)
  /\ UNCHANGED <<dialog, room, raced, faults, edits>>

-----------------------------------------------------------------------------
(* Timers of the client.                                                   *)

\* The reconnect timeout of scheduleReconnect.
RetryFires ==
  /\ Settled /\ client.retry
  /\ Connect([client EXCEPT !.retry = FALSE], sock, token)
  /\ UNCHANGED <<dialog, room, raced, faults, edits>>

\* Mutant: a probe without a response window.
ProbeUnarmed(c, k) ==
  IF c.ws # NoSocket /\ k[c.ws].client = "open" /\ ~c.polo
  THEN SetTab(c, [k EXCEPT ![c.ws].up = Append(@, Msg("marco"))], token)
  ELSE SetTab(c, k, token)

\* The heartbeat interval: one probe outstanding at a time.
Probe(c, k) ==
  IF c.ws # NoSocket /\ k[c.ws].client = "open" /\ ~c.polo
  THEN SetTab([c EXCEPT !.polo = TRUE], [k EXCEPT ![c.ws].up = Append(@, Msg("marco"))], token)
  ELSE SetTab(c, k, token)

BeatFires ==
  /\ Settled /\ client.beat
  /\ client.ws # NoSocket => Len(sock[client.ws].up) < 2
  /\ Probe(client, sock)
  /\ UNCHANGED <<dialog, room, raced, faults, edits>>

\* handleConnectionLost, when nothing came back within POLO_TIMEOUT_MS: ws is
\* dropped before the socket is closed, so that its close event is stale.
ConnectionLost(c) == [Still(c) EXCEPT !.ws = NoSocket, !.status = "disconnected", !.retry = TRUE]

Dead(s) == s # NoSocket /\ sock[s].server = "gone" /\ sock[s].down = <<>>
PoloExpires ==
  /\ Settled /\ client.polo
  /\ LET late == client.ws # NoSocket /\ ~Dead(client.ws)
     IN /\ late => faults < MaxFaults
        /\ faults' = IF late THEN faults + 1 ELSE faults
  /\ SetTab(ConnectionLost(client), Shut(sock, client.ws), token)
  /\ UNCHANGED <<dialog, room, raced, edits>>

\* Mutant: wakes up without looking for an attempt under way.
WakeEager ==
  /\ Settled /\ client.wake /\ client.status # "auth_failed"
  /\ IF client.ws # NoSocket /\ sock[client.ws].client = "open"
     THEN Len(sock[client.ws].up) < 2 /\ Probe(client, sock)
     ELSE Connect([client EXCEPT !.retry = FALSE], sock, token)
  /\ UNCHANGED <<dialog, room, raced, faults, edits>>

\* wakeCheck: the tab is visible again or the network is back.
Wake ==
  /\ Settled /\ client.wake /\ client.status # "auth_failed"
  /\ client.ws # NoSocket => sock[client.ws].client # "connecting"
  /\ IF client.ws # NoSocket /\ sock[client.ws].client = "open"
     THEN Len(sock[client.ws].up) < 2 /\ Probe(client, sock)
     ELSE Connect([client EXCEPT !.retry = FALSE], sock, token)
  /\ UNCHANGED <<dialog, room, raced, faults, edits>>

-----------------------------------------------------------------------------
(* The lock dialog: submit() awaits the admin token, then the lock.        *)

SubmitLock ==
  /\ dialog = Idle /\ client.page = "room" /\ client.synced
  /\ dialog' = [Idle EXCEPT !.step = "auth", !.of = client.room, !.target = ~client.locked]
  /\ UNCHANGED <<client, token, sock, room, raced, faults, edits>>

\* adminAuthenticate: the request named the room of the time; setCredentials
\* runs after the await and stores the answer under the room of now.
AdminAnswer ==
  /\ Settled /\ dialog.step = "auth" /\ room[dialog.of].exists
  /\ LET t == AdminToken(dialog.of)
     IN /\ token' = IF client.room = NoRoom THEN token ELSE [token EXCEPT ![client.room] = t]
        /\ dialog' = [dialog EXCEPT !.step = "lock", !.of = client.room, !.with = t]
  /\ UNCHANGED <<client, sock, room, raced, faults, edits>>

\* What every live socket of a room is sent.
Broadcast(k, r, m) ==
  [s \in Sockets |->
     IF k[s].room = r /\ k[s].server \in {"greeting", "reading", "live"}
     THEN [k[s] EXCEPT !.down = Append(@, m)] ELSE k[s]]
Space(r) == \A s \in Sockets : sock[s].room = r => Len(sock[s].down) < MaxQueue

\* PATCH /lock: an admin token of this room and of the present version.
Accepted == /\ dialog.of # NoRoom /\ dialog.with = AdminToken(dialog.of)
            /\ room[dialog.of].exists
PatchLock ==
  /\ dialog.step = "lock" /\ Accepted /\ Space(dialog.of)
  /\ room' = [room EXCEPT ![dialog.of].locked = dialog.target]
  /\ sock' = Broadcast(sock, dialog.of, [kind |-> "lock", locked |-> dialog.target])
  /\ dialog' = [dialog EXCEPT !.step = "done"]
  /\ UNCHANGED <<client, token, raced, faults, edits>>

\* The answer reaches submit(): locked is set if it was granted, and the store
\* reconnects either way so that the new token is the socket's.
LockAnswer ==
  /\ Settled
  /\ dialog.step = "done" \/ (dialog.step = "lock" /\ ~Accepted)
  /\ Reconnect(IF dialog.step = "done" THEN [client EXCEPT !.locked = dialog.target] ELSE client,
               sock, token)
  /\ dialog' = Idle
  /\ UNCHANGED <<room, raced, faults, edits>>

\* A request that is refused before the token is stored, or a lost one.
DialogFails ==
  /\ Settled /\ dialog.step \in {"auth", "lock"}
  /\ dialog' = Idle
  /\ UNCHANGED <<client, token, sock, room, raced, faults, edits>>

-----------------------------------------------------------------------------
(* The server's end of a socket.                                           *)

Hangup(k, s, code) ==
  [k EXCEPT ![s].server = "gone", ![s].session = "current", ![s].snap = FALSE, ![s].up = <<>>, ![s].down = Append(@, CloseMsg(code))]

Reached(s) == sock[s].client = "open" /\ sock[s].up # <<>> /\ sock[s].server \notin {"none", "gone"}

\* handleAuth until its first await: the token's signature, age and room, not
\* its password version; the socket is registered before the room is read.
ServerAuth(s) ==
  /\ Reached(s) /\ Head(sock[s].up).kind = "auth"
  /\ LET t == Head(sock[s].up).token
     IN sock' = IF t.age = "expired" \/ t.of # sock[s].room
                THEN Hangup(sock, s, "unauthorized")
                ELSE [sock EXCEPT ![s].server = "greeting", ![s].session = t.age,
                                  ![s].up = Tail(@), ![s].down = Append(@, Msg("auth_ok"))]
  /\ UNCHANGED <<client, token, dialog, room, raced, faults, edits>>

\* SELECT * FROM rooms; a room that is gone is told and closed with 1008.
ReadRoom(s) ==
  /\ sock[s].server = "greeting"
  /\ sock' = IF room[sock[s].room].exists
             THEN [sock EXCEPT ![s].server = "reading", ![s].snap = room[sock[s].room].locked]
             ELSE Hangup([sock EXCEPT ![s].down = Append(@, Msg("room_not_found"))], s, "other")
  /\ raced' = IF client.ws = s THEN FALSE ELSE raced
  /\ UNCHANGED <<client, token, dialog, room, faults, edits>>

\* The sync carries what ReadRoom saw.
SendSync(s) ==
  /\ sock[s].server = "reading"
  /\ sock' = [sock EXCEPT ![s].server = "live",
                          ![s].snap = FALSE,
                          ![s].down = Append(@, [kind |-> "sync", locked |-> sock[s].snap])]
  /\ UNCHANGED <<client, token, dialog, room, raced, faults, edits>>

\* Any other message: a probe is answered, an edit with an expired session
\* token ends the session, other edits are RoomGraph's.
ServerReply(s) ==
  /\ Reached(s) /\ Len(sock[s].down) < MaxQueue
  /\ LET m == Head(sock[s].up)
         k == [sock EXCEPT ![s].up = Tail(@)]
     IN /\ m.kind # "auth"
        /\ sock' = CASE m.kind = "marco" -> [k EXCEPT ![s].down = Append(@, Msg("polo"))]
                     [] m.kind = "edit" /\ sock[s].session = "expired"
                          -> Hangup([k EXCEPT ![s].down = Append(@, Msg("session_expired"))],
                                    s, "unauthorized")
                     [] OTHER -> k
  /\ UNCHANGED <<client, token, dialog, room, raced, faults, edits>>

-----------------------------------------------------------------------------
(* Faults and other people.                                                *)

Fault == faults < MaxFaults /\ faults' = faults + 1

\* handleAuth's catch: a database error while the room is read closes the
\* socket as if its token were invalid.
HandshakeFails(s) ==
  /\ Fault /\ sock[s].server \in {"greeting", "reading"} 
  /\ sock' = Hangup(sock, s, "unauthorized")
  /\ UNCHANGED <<client, token, dialog, room, raced, edits>>

\* Ten seconds without an auth message.
AuthTimeout(s) ==
  /\ Fault /\ sock[s].server = "pending" /\ sock[s].client = "open"
  /\ sock' = Hangup(sock, s, "unauthorized")
  /\ UNCHANGED <<client, token, dialog, room, raced, edits>>

\* The connection breaks: refused, reset, or the server restarts (what was on
\* its way is lost); or the peer is gone without a word.
Breaks(s) ==
  /\ Fault /\ sock[s].client \in {"connecting", "open"} /\ sock[s].server # "gone"
  /\ \/ sock' = Hangup([sock EXCEPT ![s].down = <<>>, ![s].client = "lost"], s, "other")
     \/ /\ sock[s].client = "open"
        /\ sock' = [sock EXCEPT ![s] = [FreeSocket EXCEPT !.room = sock[s].room, !.client = "open",
                                                       !.server = "gone"]]
  /\ UNCHANGED <<client, token, dialog, room, raced, edits>>

\* Seven days pass for a room's tokens, or another tab forgets the token.
Aged(t, r, age) == IF t # NoToken /\ t.of = r /\ t.age = "current" THEN [t EXCEPT !.age = age] ELSE t
TokenExpires(r) ==
  /\ Fault /\ token[r] # NoToken
  /\ \/ /\ token' = [q \in Rooms |-> Aged(token[q], r, "expired")]
        /\ sock' = [s \in Sockets |-> IF sock[s].room = r /\ sock[s].server # "gone"
                                       THEN [sock[s] EXCEPT !.session = "expired"] ELSE sock[s]]
        /\ dialog' = [dialog EXCEPT !.with = Aged(@, r, "expired")]
     \/ token' = [token EXCEPT ![r] = NoToken] /\ UNCHANGED <<sock, dialog>>
  /\ UNCHANGED <<client, room, raced, edits>>

Edit(r) == edits < MaxEdits /\ edits' = edits + 1 /\ room[r].exists /\ Space(r)

\* Another administrator locks or unlocks the room.
OthersLock(r) ==
  /\ Edit(r)
  /\ room' = [room EXCEPT ![r].locked = ~@]
  /\ sock' = Broadcast(sock, r, [kind |-> "lock", locked |-> ~room[r].locked])
  /\ raced' = (raced \/ \E s \in Sockets : client.ws = s /\ sock[s].room = r /\ sock[s].server = "reading")
  /\ UNCHANGED <<client, token, dialog, faults>>

\* PATCH /password: every token of the room is of an old version from now on.
Rotate(r) ==
  /\ Edit(r)
  /\ token' = [q \in Rooms |-> Aged(token[q], r, "rotated")]
  /\ sock' = Broadcast(sock, r, Msg("password_rotated"))
  /\ dialog' = [dialog EXCEPT !.with = Aged(@, r, "rotated")]
  /\ UNCHANGED <<client, room, raced, faults>>

\* DELETE /rooms/:id
Delete(r) ==
  /\ Edit(r)
  /\ room' = [room EXCEPT ![r].exists = FALSE]
  /\ sock' = Broadcast(sock, r, Msg("room_deleted"))
  /\ UNCHANGED <<client, token, dialog, raced, faults>>

Next ==
  \/ \E r \in Rooms : VisitRoom(r) \/ TokenExpires(r) \/ OthersLock(r) \/ Rotate(r) \/ Delete(r)
  \/ GoHome \/ LeaveForAuth \/ Authenticate \/ SendEdit
  \/ RetryFires \/ BeatFires \/ PoloExpires \/ Wake
  \/ SubmitLock \/ AdminAnswer \/ PatchLock \/ LockAnswer \/ DialogFails
  \/ \E s \in Sockets :
       \/ Opened(s) \/ Receive(s) \/ Closed(s)
       \/ ServerAuth(s) \/ ReadRoom(s) \/ SendSync(s) \/ ServerReply(s)
       \/ HandshakeFails(s) \/ AuthTimeout(s) \/ Breaks(s)

Spec == Init /\ [][Next]_vars

\* Timers fire, frames arrive in the end or the connection breaks, the server's
\* awaits return, and the router follows the watch.  Nobody is obliged to wake
\* the tab, to submit a dialog, or to log in.
Fairness ==
  /\ WF_vars(RetryFires) /\ WF_vars(BeatFires) /\ WF_vars(PoloExpires) /\ WF_vars(LeaveForAuth)
  /\ \A s \in Sockets : /\ WF_vars(Opened(s)) /\ WF_vars(Receive(s)) /\ WF_vars(Closed(s))
                          /\ WF_vars(ServerAuth(s)) /\ WF_vars(ReadRoom(s))
                          /\ WF_vars(SendSync(s)) /\ WF_vars(ServerReply(s))
FairSpec == Spec /\ Fairness

-----------------------------------------------------------------------------
(* The store never leaves a room view without something that will move it, *)
(* a pending retry, a socket with an event to come, or a running heartbeat,*)
(* and leaves no socket behind to receive the same broadcasts twice: every *)
(* one that is still opening or open is the current one.                   *)
Supervised ==
  /\ client.page = "room" =>
       CASE client.status = "disconnected" -> client.retry
         [] client.status = "connecting" -> client.ws # NoSocket
         [] client.status = "connected" -> client.ws # NoSocket /\ client.beat
         [] OTHER -> TRUE
  /\ \A s \in Sockets : sock[s].client \in {"connecting", "open"} => client.ws = s

(* Nothing is on its way to a tab whose dialog is closed.                  *)
Quiet == /\ dialog = Idle /\ client.status = "connected" /\ client.synced
         /\ sock[client.ws].server = "live" /\ sock[client.ws].down = <<>>

(* "Synced" is about the socket in use: a tab that is connected and synced *)
(* was sent that sync on this very socket, and shows, once quiet, the lock *)
(* as the database has it, unless someone else changed it between the      *)
(* handshake's read and its sync.                                          *)
SyncedIsInSync ==
  /\ client.status = "connected" /\ client.synced /\ client.ws # NoSocket =>
       sock[client.ws].server \in {"live", "gone"}
  /\ Quiet /\ ~raced => client.locked = room[client.room].locked

(* A half-open socket is noticed once the session is connected: the probe  *)
(* goes unanswered and the tab lets go of the socket.                      *)
HalfOpen == client.status = "connected" /\ Dead(client.ws)
HalfOpenNoticed == HalfOpen ~> ~HalfOpen

(* The one place nothing watches: the peer vanished between the open event *)
(* and auth_ok, when no heartbeat runs yet.                                *)
StuckInHandshake ==
  client.status = "connecting" /\ Dead(client.ws)

(* A tab in a room view gets back in sync, or leaves the room, whatever    *)
(* breaks on the way, except in that place.                                *)
BackInSync ==
  (client.page = "room") ~>
    (client.page # "room" \/ (client.status = "connected" /\ client.synced) \/ StuckInHandshake)
=============================================================================
