---------------------------- MODULE SessionProofs ----------------------------
(***************************************************************************)
(* Proofs about module Session: the tab is never left without something    *)
(* that moves it, and what it shows as synced is what the database holds.  *)
(***************************************************************************)
EXTENDS Session, SequenceTheorems, TLAPS

-----------------------------------------------------------------------------
(* Types.                                                                  *)

Token == [of : Rooms, admin : BOOLEAN, age : {"current", "expired", "rotated"}]
TokenOrNone == Token \cup {NoToken}
RoomOrNone == Rooms \cup {NoRoom}

\* What the server sends, and what the client sends.
Down == [kind : {"auth_ok", "polo"} \cup Reasons] \cup [kind : {"sync", "lock"}, locked : BOOLEAN]
          \cup [kind : {"close"}, code : {"unauthorized", "other"}]
Up == [kind : {"auth"}, token : Token] \cup [kind : {"marco", "edit"}]

Socket == [room : RoomOrNone,
           client : {"free", "connecting", "open", "lost", "closing"},
           server : {"none", "pending", "greeting", "reading", "live", "gone"},
           session : {"current", "expired", "rotated"},
           snap : BOOLEAN, down : Seq(Down), up : Seq(Up)]

Tab == [page : {"home", "auth", "room"}, at : RoomOrNone, shown : {"none", "not_found", "form"},
        room : RoomOrNone, status : {"disconnected", "connecting", "connected", "auth_failed"},
        synced : BOOLEAN, locked : BOOLEAN, ws : Sockets \cup {NoSocket},
        reason : Reasons \cup {"none"}, retry : BOOLEAN, beat : BOOLEAN, polo : BOOLEAN,
        wake : BOOLEAN]

\* The admin password was asked for in a room view; by the time the lock is set
\* the tab may show no room.
Dialog == {d \in [step : {"idle", "auth", "lock", "done"}, of : RoomOrNone, target : BOOLEAN,
                  with : TokenOrNone] :
             d.step = "auth" => d.of \in Rooms}

Row == [exists : BOOLEAN, locked : BOOLEAN]

SessionTypeOK ==
  /\ client \in Tab
  /\ token \in [Rooms -> TokenOrNone]
  /\ dialog \in Dialog
  /\ sock \in [Sockets -> Socket]
  /\ room \in [Rooms -> Row]
  /\ raced \in BOOLEAN

-----------------------------------------------------------------------------
(* The invariant.                                                          *)

\* Outside a room view the store is as disconnect() leaves it; inside one,
\* whatever the status says, something will move the tab.
TabOK(c) ==
  /\ c.page # "home" => c.at \in Rooms
  /\ c.page = "room" => c.room \in Rooms
  /\ c.page # "room" => /\ c.room = NoRoom /\ c.ws = NoSocket /\ c.status = "disconnected"
                        /\ ~c.retry /\ ~c.polo /\ ~c.wake
  /\ c.retry => c.ws = NoSocket
  /\ c.page = "room" /\ c.status = "disconnected" => c.retry
  /\ c.page = "room" /\ c.status = "connecting" => c.ws # NoSocket
  /\ c.page = "room" /\ c.status = "connected" => c.ws # NoSocket /\ c.beat

\* No socket is opening or open behind the tab's back.
OneSocket(c, k) == \A s \in Sockets : k[s].client \in {"connecting", "open"} => c.ws = s

\* One socket: the server knows nothing of it before it opens, the token is the
\* first thing it carries up, and a sync comes down it only once it is live.
SocketOK(q) ==
  /\ q.client = "connecting" => q.server = "none" /\ q.down = <<>>
  /\ q.client \in {"connecting", "open"} \/ q.server # "none" => q.room \in Rooms
  /\ \A i \in 1..Len(q.down) : q.down[i].kind = "sync" => q.server \in {"live", "gone"}
  /\ \A i \in 1..Len(q.up) : q.up[i].kind = "auth" => i = 1 /\ q.server = "pending"

\* A queue q of frames leaves a tab that shows b now with v: the last lock or
\* sync on it says v, and without one b is v already.
Tells(q, b, v) ==
  /\ (\A i \in 1..Len(q) : q[i].kind \notin {"sync", "lock"}) => b = v
  /\ \A i \in 1..Len(q) :
       /\ q[i].kind \in {"sync", "lock"}
       /\ \A j \in 1..Len(q) : j > i => q[j].kind \notin {"sync", "lock"}
       => q[i].locked = v

\* The socket in use is of the room shown; what the server read, and what is on
\* its way to the tab, is the lock as the database has it.
InSync(c, q, d, ra, rm) ==
  /\ q.room = c.room
  /\ c.synced => q.server \in {"live", "gone"}
  /\ d.step # "done" /\ ~ra =>
       /\ q.server = "reading" => q.snap = rm[c.room].locked
       /\ q.server = "live" => Tells(q.down, c.locked, rm[c.room].locked)

SessionIInv ==
  /\ SessionTypeOK
  /\ TabOK(client)
  /\ OneSocket(client, sock)
  /\ \A s \in Sockets : SocketOK(sock[s])
  /\ client.ws # NoSocket => InSync(client, sock[client.ws], dialog, raced, room)

-----------------------------------------------------------------------------
(* Queues and sockets.                                                     *)

LEMMA DownKinds ==
    ASSUME NEW m \in Down
    PROVE  /\ m.kind \in {"auth_ok", "polo", "sync", "lock", "close"} \cup Reasons
           /\ m.kind \in {"sync", "lock"} => m.locked \in BOOLEAN
           /\ m.kind = "close" => m.code \in {"unauthorized", "other"}
BY DEF Down, Reasons

LEMMA UpKinds ==
    ASSUME NEW m \in Up
    PROVE  /\ m.kind \in {"auth", "marco", "edit"}
           /\ m.kind = "auth" => m.token \in Token
BY DEF Up

\* The frames of the model are frames.
LEMMA Frames ==
    /\ \A kind \in {"auth_ok", "polo"} \cup Reasons : Msg(kind) \in Down /\ Msg(kind).kind = kind
    /\ \A b \in BOOLEAN : \A kind \in {"sync", "lock"} : [kind |-> kind, locked |-> b] \in Down
    /\ \A code \in {"unauthorized", "other"} :
          CloseMsg(code) \in Down /\ CloseMsg(code).kind = "close"
    /\ \A kind \in {"marco", "edit"} : Msg(kind) \in Up /\ Msg(kind).kind = kind
    /\ \A t \in Token : [kind |-> "auth", token |-> t] \in Up
BY DEF Msg, CloseMsg, Down, Up, Reasons

LEMMA FreeSocketOK ==
    /\ FreeSocket \in Socket /\ SocketOK(FreeSocket)
    /\ FreeSocket.client = "free" /\ FreeSocket.server = "none"
    /\ FreeSocket.down = <<>> /\ FreeSocket.up = <<>>
BY DEF FreeSocket, Socket, SocketOK, RoomOrNone

\* Another frame leaves what a queue tells, ...
LEMMA TellsAppend ==
    ASSUME NEW q \in Seq(Down), NEW m \in Down, m.kind \notin {"sync", "lock"},
           NEW b \in BOOLEAN, NEW v \in BOOLEAN, Tells(q, b, v)
    PROVE  Tells(Append(q, m), b, v)
BY AppendProperties DEF Tells

\* ... a lock or a sync at its end decides it, ...
LEMMA TellsLock ==
    ASSUME NEW q \in Seq(Down), NEW m \in Down, m.kind \in {"sync", "lock"},
           NEW b \in BOOLEAN
    PROVE  Tells(Append(q, m), b, m.locked)
BY AppendProperties DEF Tells

\* ... and receiving its first frame moves it into what the tab shows.
LEMMA TellsTail ==
    ASSUME NEW q \in Seq(Down), q # <<>>, NEW b \in BOOLEAN, NEW v \in BOOLEAN, Tells(q, b, v)
    PROVE  /\ Head(q).kind \in {"sync", "lock"} => Tells(Tail(q), Head(q).locked, v)
           /\ Head(q).kind \notin {"sync", "lock"} => Tells(Tail(q), b, v)
<1>1. /\ Head(q) = q[1] /\ Tail(q) \in Seq(Down) /\ Len(Tail(q)) = Len(q) - 1 /\ Len(q) \in Nat
      /\ Len(q) > 0
      /\ \A i \in 1..Len(Tail(q)) : Tail(q)[i] = q[i + 1]
  OBVIOUS
<1>2. \A i \in 1..Len(q) : i # 1 => \E j \in 1..Len(Tail(q)) : i = j + 1
  BY <1>1
<1>3. ASSUME NEW i \in 1..Len(Tail(q)), Tail(q)[i].kind \in {"sync", "lock"},
             \A j \in 1..Len(Tail(q)) : j > i => Tail(q)[j].kind \notin {"sync", "lock"}
      PROVE  Tail(q)[i].locked = v
  <2>1. i + 1 \in 1..Len(q) /\ q[i + 1] = Tail(q)[i]
    BY <1>1
  <2>2. ASSUME NEW j \in 1..Len(q), j > i + 1 PROVE q[j].kind \notin {"sync", "lock"}
    <3>1. PICK h \in 1..Len(Tail(q)) : j = h + 1
      BY <1>2, <2>2
    <3>2. h > i /\ q[j] = Tail(q)[h]
      BY <3>1, <2>2, <1>1
    <3> QED BY <3>2, <1>3
  <2> QED BY <2>1, <2>2, <1>3 DEF Tells
<1>4. ASSUME \A i \in 1..Len(Tail(q)) : Tail(q)[i].kind \notin {"sync", "lock"}
      PROVE  /\ Head(q).kind \in {"sync", "lock"} => Head(q).locked = v
             /\ Head(q).kind \notin {"sync", "lock"} => b = v
  <2>1. \A i \in 1..Len(q) : i # 1 => q[i].kind \notin {"sync", "lock"}
    BY <1>1, <1>2, <1>4
  <2> QED BY <2>1, <1>1 DEF Tells
<1> QED
  BY <1>3, <1>4 DEF Tells

\* The server sends a frame on a socket it knows.
LEMMA SentDown ==
    ASSUME NEW q \in Socket, SocketOK(q), q.server # "none", NEW m \in Down, m.kind # "sync",
           NEW p, p = [q EXCEPT !.down = Append(@, m)]
    PROVE  p \in Socket /\ SocketOK(p)
<1>1. q.down \in Seq(Down) /\ Append(q.down, m) \in Seq(Down)
  BY AppendProperties DEF Socket
<1>2. p \in Socket /\ p.down = Append(q.down, m)
      /\ p.room = q.room /\ p.server = q.server /\ p.client = q.client /\ p.up = q.up
  BY <1>1 DEF Socket
<1>3. \A i \in 1..Len(p.down) : p.down[i].kind = "sync" => p.server \in {"live", "gone"}
  BY <1>1, <1>2, AppendProperties DEF SocketOK
<1> QED
  BY <1>2, <1>3 DEF SocketOK

\* The server closes a socket.
LEMMA HungUp ==
    ASSUME NEW q \in Socket, SocketOK(q), q.server # "none",
           NEW code \in {"unauthorized", "other"}, NEW p,
           p = [q EXCEPT !.server = "gone", !.session = "current", !.snap = FALSE, !.up = <<>>,
                         !.down = Append(@, CloseMsg(code))]
    PROVE  p \in Socket /\ SocketOK(p) /\ p.server = "gone" /\ p.room = q.room
           /\ p.client = q.client
<1>1. q.down \in Seq(Down) /\ Append(q.down, CloseMsg(code)) \in Seq(Down) /\ <<>> \in Seq(Up)
  BY AppendProperties, Frames DEF Socket
<1>2. p \in Socket /\ p.server = "gone" /\ p.room = q.room /\ p.client = q.client /\ p.up = <<>>
  BY <1>1 DEF Socket
<1>3. q.client # "connecting"
  BY DEF SocketOK
<1> QED
  BY <1>2, <1>3 DEF SocketOK

-----------------------------------------------------------------------------
(* The store's functions.                                                  *)

\* Everything the invariant says of tab, sockets and tokens but not of the room.
Ready(c, k, t) ==
  /\ c \in Tab /\ TabOK(c)
  /\ k \in [Sockets -> Socket] /\ OneSocket(c, k) /\ \A s \in Sockets : SocketOK(k[s])
  /\ t \in [Rooms -> TokenOrNone]

\* A socket the server has not heard of yet, for a tab that has forgotten the
\* sync of the one before.
New(c, q) == q.room = c.room /\ q.server = "none" /\ ~c.synced
Afresh(c, k) == c.ws # NoSocket => New(c, k[c.ws])

\* close() on the socket in use leaves no socket opening or open.
LEMMA ShutOK ==
    ASSUME NEW c \in Tab, NEW k \in [Sockets -> Socket], OneSocket(c, k),
           \A s \in Sockets : SocketOK(k[s]), NEW h, h = Shut(k, c.ws)
    PROVE  /\ h \in [Sockets -> Socket] /\ \A s \in Sockets : SocketOK(h[s])
           /\ \A s \in Sockets : h[s].client \notin {"connecting", "open"}
<1> USE SessionAssumption
<1>1. CASE c.ws = NoSocket
  BY <1>1 DEF Shut, OneSocket
<1>2. CASE c.ws # NoSocket
  <2> DEFINE e == [FreeSocket EXCEPT !.client = "closing"]
  <2>1. c.ws \in Sockets
    BY <1>2 DEF Tab
  <2>2. e \in Socket /\ SocketOK(e) /\ e.client = "closing"
    <3>1. PICK p : p = e
      OBVIOUS
    <3>2. p \in Socket /\ p.client = "closing" /\ p.server = "none" /\ p.down = <<>> /\ p.up = <<>>
      BY <3>1, FreeSocketOK DEF Socket
    <3>3. SocketOK(p)
      BY <3>2 DEF SocketOK
    <3> QED BY <3>1, <3>2, <3>3
  <2>3. h = [k EXCEPT ![c.ws] = e]
    BY <1>2 DEF Shut
  <2> HIDE DEF e
  <2>4. h \in [Sockets -> Socket] /\ h[c.ws] = e /\ \A s \in Sockets : s # c.ws => h[s] = k[s]
    BY <2>1, <2>2, <2>3
  <2> QED BY <2>4, <2>2 DEF OneSocket
<1> QED BY <1>1, <1>2

LEMMA NewSocket ==
    ASSUME NEW r \in Rooms, NEW q,
           q = [FreeSocket EXCEPT !.room = r, !.client = "connecting"]
    PROVE  q \in Socket /\ SocketOK(q) /\ q.room = r /\ q.server = "none"
           /\ q.client = "connecting"
<1>1. q \in Socket /\ q.client = "connecting" /\ q.server = "none" /\ q.room = r
      /\ q.down = <<>> /\ q.up = <<>>
  BY FreeSocketOK DEF Socket, RoomOrNone
<1>2. SocketOK(q)
  BY <1>1 DEF SocketOK
<1> QED BY <1>1, <1>2

LEMMA LogOutOK ==
    ASSUME NEW c \in Tab, NEW k \in [Sockets -> Socket], NEW t \in [Rooms -> TokenOrNone],
           TabOK(c), c.page = "room", OneSocket(c, k), \A s \in Sockets : SocketOK(k[s]),
           NEW why \in Reasons, LogOut(c, k, t, why)
    PROVE  Ready(client', sock', token') /\ client'.ws = NoSocket
<1> USE SessionAssumption
<1>1. client' \in Tab /\ client'.ws = NoSocket /\ client'.status = "auth_failed"
      /\ client'.page = c.page /\ client'.at = c.at /\ client'.room = c.room
  BY DEF LogOut, SetTab, Tab
<1>2. TabOK(client')
  BY <1>1 DEF TabOK
<1>3. sock' = Shut(k, c.ws)
  BY DEF LogOut, SetTab
<1>4. PICK h : h = Shut(k, c.ws)
  OBVIOUS
<1>5. /\ sock' \in [Sockets -> Socket] /\ \A s \in Sockets : SocketOK(sock'[s])
      /\ OneSocket(client', sock')
  BY <1>3, <1>4, ShutOK DEF OneSocket
<1>6. token' \in [Rooms -> TokenOrNone]
  BY DEF LogOut, SetTab, TokenOrNone
<1> QED
  BY <1>1, <1>2, <1>5, <1>6 DEF Ready

\* connect() in a room view whose sockets are all closing: a new socket, or the
\* end of the session.
LEMMA ConnectOK ==
    ASSUME NEW c \in Tab, NEW k \in [Sockets -> Socket], NEW t \in [Rooms -> TokenOrNone],
           c.page = "room", c.at \in Rooms, c.room \in Rooms, ~c.retry,
           \A s \in Sockets : SocketOK(k[s]) /\ k[s].client \notin {"connecting", "open"},
           Connect(c, k, t)
    PROVE  Ready(client', sock', token') /\ Afresh(client', sock')
<1> USE SessionAssumption
<1>1. c.room # NoRoom /\ ~(c.ws # NoSocket /\ k[c.ws].client = "open")
  BY DEF Tab
<1>2. CASE TokenOf(c, t) = NoToken
  <2>1. LogOut(c, k, t, "session_expired")
    BY <1>1, <1>2 DEF Connect
  <2>2. client' \in Tab /\ client'.ws = NoSocket /\ client'.status = "auth_failed"
        /\ client'.page = "room" /\ client'.at = c.at /\ client'.room = c.room
    BY <2>1 DEF LogOut, SetTab, Tab, Reasons
  <2>3. TabOK(client')
    BY <2>2 DEF TabOK
  <2>4. /\ sock' \in [Sockets -> Socket]
        /\ \A s \in Sockets : SocketOK(sock'[s]) /\ sock'[s].client \notin {"connecting", "open"}
    <3>1. PICK h : h = Shut(k, c.ws)
      OBVIOUS
    <3>2. OneSocket(c, k)
      BY DEF OneSocket
    <3> QED BY <2>1, <3>1, <3>2, ShutOK DEF LogOut, SetTab
  <2>5. token' \in [Rooms -> TokenOrNone]
    BY <2>1 DEF LogOut, SetTab, TokenOrNone
  <2> QED BY <2>2, <2>3, <2>4, <2>5 DEF Ready, Afresh, OneSocket
<1>3. CASE TokenOf(c, t) # NoToken
  <2> DEFINE e == [FreeSocket EXCEPT !.room = c.room, !.client = "connecting"]
  <2>1. PICK s \in Sockets :
             SetTab([c EXCEPT !.wake = TRUE, !.status = "connecting", !.synced = FALSE, !.ws = s],
                    [k EXCEPT ![s] = e], t)
    BY <1>1, <1>3 DEF Connect, Free
  <2>2. client' \in Tab /\ client'.ws = s /\ client'.status = "connecting" /\ ~client'.synced
        /\ client'.page = "room" /\ client'.at = c.at /\ client'.room = c.room /\ ~client'.retry
    BY <2>1 DEF SetTab, Tab
  <2>3. TabOK(client')
    BY <2>2 DEF TabOK
  <2>4. PICK q : q = e
    OBVIOUS
  <2>5. sock' \in [Sockets -> Socket] /\ sock'[s] = q /\ \A x \in Sockets : x # s => sock'[x] = k[x]
    <3>1. sock' = [k EXCEPT ![s] = q]
      BY <2>1, <2>4 DEF SetTab
    <3>2. q \in Socket
      BY <2>4, NewSocket
    <3> QED BY <3>1, <3>2
  <2>6. SocketOK(q) /\ q.room = c.room /\ q.server = "none"
    BY <2>4, NewSocket
  <2>7. token' \in [Rooms -> TokenOrNone]
    BY <2>1 DEF SetTab
  <2> QED BY <2>2, <2>3, <2>5, <2>6, <2>7 DEF Ready, Afresh, New, OneSocket
<1> QED BY <1>2, <1>3

\* reconnect(), in whatever view.
LEMMA ReconnectOK ==
    ASSUME NEW c \in Tab, NEW k \in [Sockets -> Socket], NEW t \in [Rooms -> TokenOrNone],
           c.page # "home" => c.at \in Rooms, c.page = "room" => c.room \in Rooms,
           c.page # "room" => c.room = NoRoom /\ c.status = "disconnected" /\ ~c.wake,
           OneSocket(c, k), \A s \in Sockets : SocketOK(k[s]), Reconnect(c, k, t)
    PROVE  Ready(client', sock', token') /\ Afresh(client', sock')
<1>1. PICK h : h = Shut(k, c.ws)
  OBVIOUS
<1>2. /\ h \in [Sockets -> Socket] /\ \A s \in Sockets : SocketOK(h[s])
      /\ \A s \in Sockets : h[s].client \notin {"connecting", "open"}
  BY <1>1, ShutOK
<1>3. PICK d : d = [Still(c) EXCEPT !.retry = FALSE, !.ws = NoSocket]
  OBVIOUS
<1>4. d \in Tab /\ ~d.retry /\ ~d.polo /\ d.ws = NoSocket /\ d.page = c.page /\ d.at = c.at
      /\ d.room = c.room /\ d.status = c.status /\ d.wake = c.wake
  BY <1>3 DEF Still, Tab
<1>5. Connect(d, h, t)
  BY <1>1, <1>3 DEF Reconnect
<1>6. CASE c.page = "room"
  BY <1>2, <1>4, <1>5, <1>6, ConnectOK
<1>7. CASE c.page # "room"
  <2>1. client' = d /\ sock' = h /\ token' = t
    BY <1>4, <1>5, <1>7 DEF Connect, SetTab
  <2>2. TabOK(d)
    BY <1>4, <1>7 DEF TabOK
  <2> QED BY <2>1, <2>2, <1>2, <1>4 DEF Ready, Afresh, OneSocket
<1> QED BY <1>6, <1>7

\* disconnect()
LEMMA DisconnectedOK ==
    ASSUME NEW c \in Tab, NEW d, d = Disconnected(c)
    PROVE  /\ d \in Tab /\ d.page = c.page /\ d.at = c.at /\ d.shown = c.shown
           /\ d.room = NoRoom /\ d.ws = NoSocket /\ d.status = "disconnected"
           /\ ~d.retry /\ ~d.polo /\ ~d.wake
BY DEF Disconnected, Fresh, Tab, RoomOrNone

-----------------------------------------------------------------------------
(* The tab's steps.                                                        *)

LEMMA InvReady == ASSUME SessionIInv PROVE Ready(client, sock, token)
BY DEF SessionIInv, SessionTypeOK, Ready

\* A step that leaves the tab without a socket, or with one the server has not
\* heard of, owes nothing to the room.
LEMMA TabStep ==
    ASSUME SessionIInv, Ready(client', sock', token'), Afresh(client', sock'),
           dialog' \in Dialog, UNCHANGED <<room, raced>>
    PROVE  SessionIInv'
<1>1. SessionTypeOK'
  BY DEF SessionIInv, SessionTypeOK, Ready
<1>2. client'.ws # NoSocket => InSync(client', sock'[client'.ws], dialog', raced', room')
  BY DEF Afresh, New, InSync
<1> QED
  BY <1>1, <1>2 DEF SessionIInv, Ready

LEMMA VisitRoomIInv ==
    ASSUME SessionIInv, NEW r \in Rooms, VisitRoom(r)
    PROVE  SessionIInv'
<1> USE SessionAssumption
<1>0. Ready(client, sock, token)
  BY InvReady
<1>1. PICK h : h = Shut(sock, client.ws)
  OBVIOUS
<1>2. /\ h \in [Sockets -> Socket] /\ \A s \in Sockets : SocketOK(h[s])
      /\ \A s \in Sockets : h[s].client \notin {"connecting", "open"}
  <2>1. PICK cl, so : cl = client /\ so = sock
    OBVIOUS
  <2> QED BY <1>0, <1>1, <2>1, ShutOK DEF Ready
<1>3. PICK e : e = Disconnected(client)
  OBVIOUS
<1>4. /\ e \in Tab /\ e.room = NoRoom /\ e.ws = NoSocket /\ e.status = "disconnected"
      /\ ~e.retry /\ ~e.polo /\ ~e.wake
  <2>1. PICK cl \in Tab : cl = client
    BY <1>0 DEF Ready
  <2> QED BY <1>3, <2>1, DisconnectedOK
<1>5. PICK d : d = [e EXCEPT !.page = "room", !.at = r]
  OBVIOUS
<1>6. /\ d \in Tab /\ d.page = "room" /\ d.at = r /\ d.room = NoRoom /\ d.ws = NoSocket
      /\ d.status = "disconnected" /\ ~d.retry /\ ~d.polo /\ ~d.wake
  BY <1>4, <1>5, ZenonT(60) DEF Tab, RoomOrNone
<1>7. Ready(client', sock', token') /\ Afresh(client', sock')
  <2>1. CASE token[r] = NoToken
    <3>1. SetTab(AuthPage(d, r, "none"), h, token)
      BY <2>1, <1>1, <1>3, <1>5 DEF VisitRoom
    <3>2. /\ client' \in Tab /\ client'.page = "auth" /\ client'.at = r /\ client'.ws = NoSocket
          /\ client'.room = NoRoom /\ client'.status = "disconnected"
          /\ ~client'.retry /\ ~client'.polo /\ ~client'.wake
      <4>1. PICK shown \in {"not_found", "form"} :
                client' = [d EXCEPT !.page = "auth", !.at = r, !.shown = shown]
        BY <3>1 DEF SetTab, AuthPage
      <4>2. client' \in Tab
        BY <4>1, <1>6, ZenonT(60) DEF Tab, RoomOrNone
      <4> QED BY <4>1, <4>2, <1>6, ZenonT(60) DEF Tab
    <3>3. TabOK(client')
      BY <3>2 DEF TabOK
    <3> QED BY <1>0, <1>2, <3>1, <3>2, <3>3 DEF SetTab, Ready, Afresh, OneSocket
  <2>2. CASE token[r] # NoToken
    <3>1. PICK c : c = [d EXCEPT !.room = r, !.shown = "none"]
      OBVIOUS
    <3>2. c \in Tab /\ c.page = "room" /\ c.at = r /\ c.room = r /\ ~c.retry
      BY <3>1, <1>6, ZenonT(60) DEF Tab, RoomOrNone
    <3>3. Connect(c, h, token)
      BY <2>2, <3>1, <1>1, <1>3, <1>5 DEF VisitRoom
    <3>4. PICK t \in [Rooms -> TokenOrNone] : t = token
      BY <1>0 DEF Ready
    <3> QED BY <1>2, <3>2, <3>3, <3>4, ConnectOK
  <2> QED BY <2>1, <2>2
<1>8. dialog' \in Dialog /\ UNCHANGED <<room, raced>>
  BY DEF VisitRoom, SessionIInv, SessionTypeOK
<1> QED BY <1>7, <1>8, TabStep

\* The tab is disconnected and on another page.
LEMMA LeftRoom ==
    ASSUME SessionIInv, NEW p \in {"home", "auth"}, NEW at \in RoomOrNone,
           p = "auth" => at \in Rooms, NEW shown \in {"none", "not_found", "form"},
           client' = [Disconnected(client) EXCEPT !.page = p, !.at = at, !.shown = shown],
           sock' = Shut(sock, client.ws), token' \in [Rooms -> TokenOrNone],
           UNCHANGED <<dialog, room, raced>>
    PROVE  SessionIInv'
<1>0. Ready(client, sock, token)
  BY InvReady
<1>1. PICK cl \in Tab, so \in [Sockets -> Socket] : cl = client /\ so = sock
  BY <1>0 DEF Ready
<1>2. PICK e, h : e = Disconnected(cl) /\ h = Shut(so, cl.ws)
  OBVIOUS
<1>3. /\ h \in [Sockets -> Socket] /\ \A s \in Sockets : SocketOK(h[s])
      /\ \A s \in Sockets : h[s].client \notin {"connecting", "open"}
  BY <1>0, <1>1, <1>2, ShutOK DEF Ready
<1>4. /\ e \in Tab /\ e.room = NoRoom /\ e.ws = NoSocket /\ e.status = "disconnected"
      /\ ~e.retry /\ ~e.polo /\ ~e.wake
  BY <1>2, DisconnectedOK
<1>5. client' = [e EXCEPT !.page = p, !.at = at, !.shown = shown] /\ sock' = h
  BY <1>1, <1>2
<1>6. /\ client' \in Tab /\ client'.page = p /\ client'.at = at /\ client'.ws = NoSocket
      /\ client'.room = NoRoom /\ client'.status = "disconnected"
      /\ ~client'.retry /\ ~client'.polo /\ ~client'.wake
  <2>1. client' \in Tab
    BY <1>4, <1>5, ZenonT(60) DEF Tab
  <2> QED BY <1>4, <1>5, <2>1, ZenonT(60) DEF Tab
<1>7. TabOK(client')
  BY <1>6 DEF TabOK
<1>8. Ready(client', sock', token') /\ Afresh(client', sock')
  BY <1>3, <1>5, <1>6, <1>7 DEF Ready, Afresh, OneSocket
<1>9. dialog' \in Dialog
  BY DEF SessionIInv, SessionTypeOK
<1> QED BY <1>8, <1>9, TabStep

LEMMA GoHomeIInv ==
    ASSUME SessionIInv, GoHome
    PROVE  SessionIInv'
<1>1. /\ client' = [Disconnected(client) EXCEPT !.page = "home", !.at = NoRoom, !.shown = "none"]
      /\ sock' = Shut(sock, client.ws) /\ token' \in [Rooms -> TokenOrNone]
      /\ UNCHANGED <<dialog, room, raced>>
  BY DEF GoHome, SetTab, SessionIInv, SessionTypeOK
<1> QED BY <1>1, LeftRoom DEF RoomOrNone

LEMMA LeaveForAuthIInv ==
    ASSUME SessionIInv, LeaveForAuth
    PROVE  SessionIInv'
<1>1. client \in Tab /\ client.at \in Rooms /\ client.page = "room"
  BY DEF LeaveForAuth, SessionIInv, SessionTypeOK, TabOK
<1>2. PICK shown \in {"none", "not_found", "form"} :
           client' = [Disconnected(client) EXCEPT !.page = "auth", !.at = client.at, !.shown = shown]
  BY DEF LeaveForAuth, SetTab, AuthPage
<1>3. /\ sock' = Shut(sock, client.ws) /\ token' \in [Rooms -> TokenOrNone]
      /\ UNCHANGED <<dialog, room, raced>>
  BY <1>1 DEF LeaveForAuth, SetTab, SessionIInv, SessionTypeOK, TokenOrNone
<1>4. PICK at \in Rooms : at = client.at
  BY <1>1
<1>5. client' = [Disconnected(client) EXCEPT !.page = "auth", !.at = at, !.shown = shown]
  BY <1>2, <1>4
<1> QED BY <1>3, <1>4, <1>5, LeftRoom DEF RoomOrNone

LEMMA AuthenticateIInv ==
    ASSUME SessionIInv, Authenticate
    PROVE  SessionIInv'
<1>0. Ready(client, sock, token)
  BY InvReady
<1>1. PICK cl \in Tab, so \in [Sockets -> Socket] : cl = client /\ so = sock
  BY <1>0 DEF Ready
<1>2. PICK r \in Rooms : r = client.at
  BY <1>0 DEF Authenticate, Ready, TabOK
<1>3. \A s \in Sockets : SocketOK(so[s]) /\ so[s].client \notin {"connecting", "open"}
  BY <1>0, <1>1, SessionAssumption DEF Authenticate, Ready, TabOK, OneSocket
<1>4. PICK e : e = Disconnected(cl)
  OBVIOUS
<1>5. /\ e \in Tab /\ e.at = r /\ e.room = NoRoom /\ e.ws = NoSocket /\ e.status = "disconnected"
      /\ ~e.retry /\ ~e.polo /\ ~e.wake
  BY <1>1, <1>2, <1>4, DisconnectedOK
<1>6. PICK d : d = [e EXCEPT !.page = "room", !.shown = "none", !.room = r]
  OBVIOUS
<1>7. d \in Tab /\ d.page = "room" /\ d.at = r /\ d.room = r /\ ~d.retry
  <2>1. d \in Tab
    BY <1>5, <1>6, ZenonT(60) DEF Tab, RoomOrNone
  <2> QED BY <1>5, <1>6, <2>1, ZenonT(60) DEF Tab
<1>8. PICK t : t = [token EXCEPT ![r] = UserToken(r)]
  OBVIOUS
<1>9. t \in [Rooms -> TokenOrNone]
  BY <1>0, <1>8 DEF Ready, UserToken, TokenOrNone, Token
<1>10. Connect(d, so, t)
  BY <1>1, <1>2, <1>4, <1>6, <1>8 DEF Authenticate
<1>11. Ready(client', sock', token') /\ Afresh(client', sock')
  BY <1>3, <1>7, <1>9, <1>10, ConnectOK
<1>12. dialog' \in Dialog /\ UNCHANGED <<room, raced>>
  BY DEF Authenticate, SessionIInv, SessionTypeOK
<1> QED BY <1>11, <1>12, TabStep

\* The session ends in the room view.
LEMMA LoggedOut ==
    ASSUME SessionIInv, client.page = "room", NEW k \in [Sockets -> Socket],
           OneSocket(client, k), \A s \in Sockets : SocketOK(k[s]), NEW why \in Reasons,
           NEW c \in Tab, TabOK(c), c.page = "room", c.ws = client.ws,
           LogOut(c, k, token, why), UNCHANGED <<dialog, room, raced>>
    PROVE  SessionIInv'
<1>1. PICK t \in [Rooms -> TokenOrNone] : t = token
  BY DEF SessionIInv, SessionTypeOK
<1>2. OneSocket(c, k)
  BY DEF OneSocket
<1>3. Ready(client', sock', token') /\ client'.ws = NoSocket
  BY <1>1, <1>2, LogOutOK
<1>4. dialog' \in Dialog
  BY DEF SessionIInv, SessionTypeOK
<1> QED BY <1>3, <1>4, TabStep DEF Afresh

LEMMA RetryFiresIInv ==
    ASSUME SessionIInv, RetryFires
    PROVE  SessionIInv'
<1>0. Ready(client, sock, token)
  BY InvReady
<1>1. PICK so \in [Sockets -> Socket], t \in [Rooms -> TokenOrNone] : so = sock /\ t = token
  BY <1>0 DEF Ready
<1>2. /\ client \in Tab /\ client.page = "room" /\ client.at \in Rooms /\ client.room \in Rooms
      /\ client.ws = NoSocket
  BY <1>0 DEF RetryFires, Ready, TabOK, Tab
<1>3. \A s \in Sockets : SocketOK(so[s]) /\ so[s].client \notin {"connecting", "open"}
  BY <1>0, <1>1, <1>2, SessionAssumption DEF Ready, OneSocket
<1>4. PICK d : d = [client EXCEPT !.retry = FALSE]
  OBVIOUS
<1>5. d \in Tab /\ d.page = "room" /\ d.at \in Rooms /\ d.room \in Rooms /\ ~d.retry
  BY <1>2, <1>4 DEF Tab
<1>6. Connect(d, so, t)
  BY <1>1, <1>4 DEF RetryFires
<1>7. Ready(client', sock', token') /\ Afresh(client', sock')
  BY <1>3, <1>5, <1>6, ConnectOK
<1>8. dialog' \in Dialog /\ UNCHANGED <<room, raced>>
  BY DEF RetryFires, SessionIInv, SessionTypeOK
<1> QED BY <1>7, <1>8, TabStep

LEMMA PoloExpiresIInv ==
    ASSUME SessionIInv, PoloExpires
    PROVE  SessionIInv'
<1>0. Ready(client, sock, token)
  BY InvReady
<1>1. PICK cl \in Tab, so \in [Sockets -> Socket] : cl = client /\ so = sock
  BY <1>0 DEF Ready
<1>2. PICK h : h = Shut(so, cl.ws)
  OBVIOUS
<1>3. /\ h \in [Sockets -> Socket] /\ \A s \in Sockets : SocketOK(h[s])
      /\ \A s \in Sockets : h[s].client \notin {"connecting", "open"}
  BY <1>0, <1>1, <1>2, ShutOK DEF Ready
<1>4. client.page = "room"
  BY <1>0 DEF PoloExpires, Ready, TabOK
<1>5. /\ client' \in Tab /\ client'.page = "room" /\ client'.at = client.at
      /\ client'.room = client.room /\ client'.ws = NoSocket /\ client'.retry
      /\ client'.status = "disconnected"
  <2>1. client' = [[cl EXCEPT !.beat = FALSE, !.polo = FALSE]
                     EXCEPT !.ws = NoSocket, !.status = "disconnected", !.retry = TRUE]
    BY <1>1 DEF PoloExpires, SetTab, ConnectionLost, Still
  <2>2. client' \in Tab
    BY <2>1, ZenonT(60) DEF Tab
  <2> QED BY <1>1, <1>4, <2>1, <2>2, ZenonT(60) DEF Tab
<1>6. TabOK(client')
  BY <1>0, <1>4, <1>5 DEF TabOK, Ready
<1>7. Ready(client', sock', token') /\ Afresh(client', sock')
  BY <1>0, <1>1, <1>2, <1>3, <1>5, <1>6 DEF Ready, Afresh, OneSocket, PoloExpires, SetTab
<1>8. dialog' \in Dialog /\ UNCHANGED <<room, raced>>
  BY DEF PoloExpires, SessionIInv, SessionTypeOK
<1> QED BY <1>7, <1>8, TabStep

LEMMA LockAnswerIInv ==
    ASSUME SessionIInv, LockAnswer
    PROVE  SessionIInv'
<1>0. Ready(client, sock, token)
  BY InvReady
<1>1. PICK so \in [Sockets -> Socket], t \in [Rooms -> TokenOrNone] : so = sock /\ t = token
  BY <1>0 DEF Ready
<1>2. PICK c : c = IF dialog.step = "done" THEN [client EXCEPT !.locked = dialog.target] ELSE client
  OBVIOUS
<1>3. dialog.target \in BOOLEAN
  BY DEF SessionIInv, SessionTypeOK, Dialog
<1>4. /\ c \in Tab /\ c.page = client.page /\ c.at = client.at /\ c.room = client.room
      /\ c.status = client.status /\ c.wake = client.wake /\ c.ws = client.ws
  BY <1>0, <1>2, <1>3 DEF Ready, Tab
<1>5. /\ c.page # "home" => c.at \in Rooms
      /\ c.page = "room" => c.room \in Rooms
      /\ c.page # "room" => c.room = NoRoom /\ c.status = "disconnected" /\ ~c.wake
      /\ OneSocket(c, so) /\ \A s \in Sockets : SocketOK(so[s])
  BY <1>0, <1>1, <1>4 DEF Ready, TabOK, OneSocket
<1>6. Reconnect(c, so, t)
  BY <1>1, <1>2 DEF LockAnswer
<1>7. Ready(client', sock', token') /\ Afresh(client', sock')
  BY <1>4, <1>5, <1>6, ReconnectOK
<1>8. dialog' \in Dialog /\ UNCHANGED <<room, raced>>
  BY DEF LockAnswer, Dialog, Idle, RoomOrNone, TokenOrNone
<1> QED BY <1>7, <1>8, TabStep

\* One socket changes, the tab and its room do not.
LEMMA SocketStep ==
    ASSUME SessionIInv, NEW s \in Sockets, NEW p \in Socket, SocketOK(p),
           sock' = [sock EXCEPT ![s] = p],
           p.client \in {"connecting", "open"} => sock[s].client \in {"connecting", "open"},
           UNCHANGED <<client, token, dialog, room>>, raced' \in BOOLEAN,
           client.ws # s => raced' = raced,
           client.ws = s => InSync(client, p, dialog, raced', room)
    PROVE  SessionIInv'
<1>1. /\ sock' \in [Sockets -> Socket] /\ sock'[s] = p
      /\ \A x \in Sockets : x # s => sock'[x] = sock[x]
  BY DEF SessionIInv, SessionTypeOK
<1>2. SessionTypeOK' /\ TabOK(client')
  BY <1>1 DEF SessionIInv, SessionTypeOK
<1>3. OneSocket(client', sock') /\ \A x \in Sockets : SocketOK(sock'[x])
  BY <1>1 DEF SessionIInv, OneSocket
<1>4. client'.ws # NoSocket => InSync(client', sock'[client'.ws], dialog', raced', room')
  <2>1. client.ws \in Sockets \cup {NoSocket}
    BY DEF SessionIInv, SessionTypeOK, Tab
  <2>2. CASE client.ws = s
    BY <2>2, <1>1
  <2>3. CASE client.ws # s /\ client.ws # NoSocket
    BY <2>1, <2>3, <1>1 DEF SessionIInv
  <2> QED BY <2>2, <2>3
<1> QED BY <1>2, <1>3, <1>4 DEF SessionIInv

\* The tab sends a probe or an edit.
LEMMA UpStep ==
    ASSUME SessionIInv, client.ws # NoSocket, NEW m \in Up, m.kind # "auth",
           sock' = [sock EXCEPT ![client.ws].up = Append(@, m)],
           client' = [client EXCEPT !.polo = TRUE] \/ client' = client,
           UNCHANGED <<token, dialog, room, raced>>
    PROVE  SessionIInv'
<1>1. PICK s \in Sockets : s = client.ws
  BY DEF SessionIInv, SessionTypeOK, Tab
<1>2. PICK p : p = [sock[s] EXCEPT !.up = Append(@, m)]
  OBVIOUS
<1>3. sock[s] \in Socket /\ SocketOK(sock[s]) /\ sock \in [Sockets -> Socket]
  BY DEF SessionIInv, SessionTypeOK
<1>4. sock[s].up \in Seq(Up) /\ Append(sock[s].up, m) \in Seq(Up)
  BY <1>3, AppendProperties DEF Socket
<1>5. /\ p \in Socket /\ p.up = Append(sock[s].up, m) /\ p.room = sock[s].room
      /\ p.client = sock[s].client /\ p.server = sock[s].server /\ p.down = sock[s].down
      /\ p.snap = sock[s].snap
  BY <1>2, <1>3, <1>4 DEF Socket
<1>6. SocketOK(p)
  <2>1. \A i \in 1..Len(p.up) : p.up[i].kind = "auth" => i = 1 /\ p.server = "pending"
    BY <1>3, <1>4, <1>5, AppendProperties DEF SocketOK
  <2> QED BY <2>1, <1>3, <1>5 DEF SocketOK
<1>7. /\ sock' \in [Sockets -> Socket] /\ sock'[s] = p
      /\ \A x \in Sockets : x # s => sock'[x] = sock[x]
  BY <1>1, <1>2, <1>3, <1>5
<1>8. /\ client' \in Tab /\ client'.ws = client.ws /\ client'.page = client.page
      /\ client'.at = client.at /\ client'.room = client.room /\ client'.status = client.status
      /\ client'.retry = client.retry /\ client'.wake = client.wake /\ client'.beat = client.beat
      /\ client'.synced = client.synced /\ client'.locked = client.locked
  BY DEF SessionIInv, SessionTypeOK, Tab
<1>9. client.page = "room" /\ TabOK(client)
  BY DEF SessionIInv, TabOK
<1>10. TabOK(client')
  BY <1>8, <1>9 DEF TabOK
<1>11. SessionTypeOK'
  BY <1>7, <1>8 DEF SessionIInv, SessionTypeOK
<1>12. OneSocket(client', sock') /\ \A x \in Sockets : SocketOK(sock'[x])
  BY <1>5, <1>6, <1>7, <1>8 DEF SessionIInv, OneSocket
<1>13. InSync(client', sock'[client'.ws], dialog', raced', room')
  BY <1>1, <1>5, <1>7, <1>8 DEF SessionIInv, InSync
<1> QED BY <1>10, <1>11, <1>12, <1>13 DEF SessionIInv

LEMMA ProbeIInv ==
    ASSUME SessionIInv, Probe(client, sock), UNCHANGED <<dialog, room, raced>>
    PROVE  SessionIInv'
<1>1. CASE client.ws # NoSocket /\ sock[client.ws].client = "open" /\ ~client.polo
  BY <1>1, Frames, UpStep DEF Probe, SetTab
<1>2. CASE ~(client.ws # NoSocket /\ sock[client.ws].client = "open" /\ ~client.polo)
  <2>1. UNCHANGED <<client, sock, token>>
    BY <1>2 DEF Probe, SetTab
  <2> QED BY <2>1 DEF SessionIInv, SessionTypeOK
<1> QED BY <1>1, <1>2

LEMMA BeatFiresIInv ==
    ASSUME SessionIInv, BeatFires
    PROVE  SessionIInv'
BY ProbeIInv DEF BeatFires

LEMMA WakeIInv ==
    ASSUME SessionIInv, Wake
    PROVE  SessionIInv'
<1>1. CASE client.ws # NoSocket /\ sock[client.ws].client = "open"
  BY <1>1, ProbeIInv DEF Wake
<1>2. CASE ~(client.ws # NoSocket /\ sock[client.ws].client = "open")
  <2>0. Ready(client, sock, token)
    BY InvReady
  <2>1. PICK so \in [Sockets -> Socket], t \in [Rooms -> TokenOrNone] : so = sock /\ t = token
    BY <2>0 DEF Ready
  <2>2. client \in Tab /\ client.page = "room" /\ client.at \in Rooms /\ client.room \in Rooms
    BY <2>0 DEF Wake, Ready, TabOK
  <2>3. \A s \in Sockets : SocketOK(so[s]) /\ so[s].client \notin {"connecting", "open"}
    BY <2>0, <2>1, <1>2, SessionAssumption DEF Ready, OneSocket, Wake
  <2>4. PICK d : d = [client EXCEPT !.retry = FALSE]
    OBVIOUS
  <2>5. d \in Tab /\ d.page = "room" /\ d.at \in Rooms /\ d.room \in Rooms /\ ~d.retry
    BY <2>2, <2>4 DEF Tab
  <2>6. Connect(d, so, t)
    BY <1>2, <2>1, <2>4 DEF Wake
  <2>7. Ready(client', sock', token') /\ Afresh(client', sock')
    BY <2>3, <2>5, <2>6, ConnectOK
  <2>8. dialog' \in Dialog /\ UNCHANGED <<room, raced>>
    BY DEF Wake, SessionIInv, SessionTypeOK
  <2> QED BY <2>7, <2>8, TabStep
<1> QED BY <1>1, <1>2

LEMMA SendEditIInv ==
    ASSUME SessionIInv, SendEdit
    PROVE  SessionIInv'
<1>1. CASE TokenOf(client, token) = NoToken
  <2>1. PICK so \in [Sockets -> Socket] : so = sock
    BY DEF SessionIInv, SessionTypeOK
  <2>2. PICK c \in Tab : c = client
    BY DEF SessionIInv, SessionTypeOK
  <2>3. LogOut(c, so, token, "session_expired") /\ "session_expired" \in Reasons
    BY <1>1, <2>1, <2>2 DEF SendEdit, Reasons
  <2> QED BY <2>1, <2>2, <2>3, LoggedOut DEF SendEdit, SessionIInv
<1>2. CASE TokenOf(client, token) # NoToken
  <2>1. client.ws # NoSocket /\ sock[client.ws].up = <<>>
    BY <1>2 DEF SendEdit
  <2>2. /\ sock' = [sock EXCEPT ![client.ws].up = <<Msg("edit")>>]
        /\ UNCHANGED <<client, token, dialog, room, raced>>
    BY <1>2 DEF SendEdit, SetTab
  <2>3. Append(sock[client.ws].up, Msg("edit")) = <<Msg("edit")>>
    BY <2>1
  <2>4. sock' = [sock EXCEPT ![client.ws].up = Append(@, Msg("edit"))]
    BY <2>2, <2>3
  <2> QED BY <2>1, <2>2, <2>4, Frames, UpStep
<1> QED BY <1>1, <1>2

LEMMA OpenedIInv ==
    ASSUME SessionIInv, NEW s \in Sockets, Opened(s)
    PROVE  SessionIInv'
<1> USE SessionAssumption
<1>0. /\ sock[s] \in Socket /\ SocketOK(sock[s]) /\ sock \in [Sockets -> Socket]
      /\ sock[s].client = "connecting" /\ client.ws = s /\ client \in Tab
      /\ token \in [Rooms -> TokenOrNone] /\ TabOK(client)
  BY DEF Opened, SessionIInv, SessionTypeOK, OneSocket
<1>1. PICK q : q = [sock[s] EXCEPT !.client = "open", !.server = "pending"]
  OBVIOUS
<1>2. /\ q \in Socket /\ q.client = "open" /\ q.server = "pending" /\ q.room = sock[s].room
      /\ q.down = sock[s].down /\ q.up = sock[s].up
  BY <1>0, <1>1 DEF Socket
<1>3. SocketOK(q)
  BY <1>0, <1>2 DEF SocketOK
<1>4. PICK k : k = [sock EXCEPT ![s] = q]
  OBVIOUS
<1>5. k = [sock EXCEPT ![s].client = "open", ![s].server = "pending"]
  BY <1>0, <1>1, <1>4
<1>6. k \in [Sockets -> Socket] /\ k[s] = q /\ \A x \in Sockets : x # s => k[x] = sock[x]
  BY <1>0, <1>2, <1>4
<1>7. client.ws # NoSocket /\ client.page = "room" /\ client.room \in Rooms
  BY <1>0 DEF TabOK
<1>8. PICK t : t = token[client.room]
  OBVIOUS
<1>9. TokenOf(client, token) = t /\ t \in TokenOrNone
  BY <1>0, <1>7, <1>8 DEF TokenOf
<1>10. CASE t = NoToken
  <2>1. PICK c \in Tab : c = client
    BY <1>0
  <2>2. LogOut(c, k, token, "session_expired") /\ "session_expired" \in Reasons
    BY <1>0, <1>5, <1>9, <1>10, <2>1 DEF Opened, Reasons
  <2>3. OneSocket(client, k) /\ \A x \in Sockets : SocketOK(k[x])
    BY <1>0, <1>3, <1>6 DEF SessionIInv, OneSocket
  <2>4. UNCHANGED <<dialog, room, raced>>
    BY DEF Opened
  <2> QED BY <1>0, <1>6, <1>7, <2>1, <2>2, <2>3, <2>4, LoggedOut
<1>11. CASE t # NoToken
  <2>1. PICK m : m = [kind |-> "auth", token |-> t]
    OBVIOUS
  <2>2. t \in Token
    BY <1>9, <1>11 DEF TokenOrNone
  <2>3. m \in Up /\ m.kind = "auth"
    BY <2>1, <2>2, Frames
  <2>4. PICK p : p = [q EXCEPT !.up = <<m>>]
    OBVIOUS
  <2>5. <<m>> \in Seq(Up) /\ Len(<<m>>) = 1
    BY <2>3
  <2>6. /\ p \in Socket /\ p.client = "open" /\ p.server = "pending" /\ p.room = sock[s].room
        /\ p.down = sock[s].down /\ p.up = <<m>>
    BY <1>2, <2>4, <2>5 DEF Socket
  <2>7. SocketOK(p)
    BY <1>3, <1>2, <2>5, <2>6 DEF SocketOK
  <2>8. /\ UNCHANGED <<client, token, dialog, room, raced>>
        /\ sock' = [k EXCEPT ![s].up = <<m>>]
    BY <1>0, <1>5, <1>9, <1>11, <2>1 DEF Opened, SetTab
  <2>9. sock' = [sock EXCEPT ![s] = p]
    BY <1>0, <1>4, <1>6, <2>4, <2>8
  <2>10. InSync(client, p, dialog, raced', room)
    <3>1. InSync(client, sock[s], dialog, raced, room) /\ sock[s].server = "none"
      BY <1>0, <1>7 DEF SessionIInv, SocketOK
    <3> QED BY <2>6, <3>1 DEF InSync
  <2>11. raced' \in BOOLEAN
    BY <2>8 DEF SessionIInv, SessionTypeOK
  <2> QED BY <1>0, <2>6, <2>7, <2>8, <2>9, <2>10, <2>11, SocketStep
<1> QED BY <1>10, <1>11

\* A close event: a retry is due, or the session has ended.
LEMMA CloseEvent ==
    ASSUME SessionIInv, NEW s \in Sockets, NEW code,
           client' = OnClose(client, s, code), sock' = [sock EXCEPT ![s] = FreeSocket],
           UNCHANGED <<token, dialog, room, raced>>
    PROVE  SessionIInv'
<1> USE SessionAssumption
<1>0. Ready(client, sock, token)
  BY InvReady
<1>1. /\ sock' \in [Sockets -> Socket] /\ \A x \in Sockets : x # s => sock'[x] = sock[x]
      /\ sock'[s] = FreeSocket
  BY <1>0, FreeSocketOK DEF Ready
<1>2. CASE client.ws = s
  <2>1. client.page = "room"
    BY <1>0, <1>2 DEF Ready, TabOK
  <2>2. /\ client' \in Tab /\ client'.page = "room" /\ client'.at = client.at
        /\ client'.room = client.room /\ client'.ws = NoSocket
        /\ \/ client'.status = "auth_failed"
           \/ client'.status = "disconnected" /\ client'.retry
    BY <1>0, <1>2, <2>1 DEF Ready, OnClose, Still, Tab
  <2>3. TabOK(client')
    BY <1>0, <2>1, <2>2 DEF TabOK, Ready
  <2>4. OneSocket(client', sock') /\ \A x \in Sockets : SocketOK(sock'[x])
    BY <1>0, <1>1, <1>2, FreeSocketOK DEF Ready, OneSocket
  <2>5. Ready(client', sock', token') /\ Afresh(client', sock')
    BY <1>0, <1>1, <2>2, <2>3, <2>4 DEF Ready, Afresh
  <2>6. dialog' \in Dialog
    BY DEF SessionIInv, SessionTypeOK
  <2> QED BY <2>5, <2>6, TabStep
<1>3. CASE client.ws # s
  <2>1. UNCHANGED <<client, token, dialog, room, raced>> /\ raced' \in BOOLEAN
    BY <1>3 DEF OnClose, SessionIInv, SessionTypeOK
  <2> QED BY <1>3, <2>1, FreeSocketOK, SocketStep
<1> QED BY <1>2, <1>3

LEMMA ClosedIInv ==
    ASSUME SessionIInv, NEW s \in Sockets, Closed(s)
    PROVE  SessionIInv'
BY CloseEvent DEF Closed, SetTab

LEMMA ReceiveIInv ==
    ASSUME SessionIInv, NEW s \in Sockets, Receive(s)
    PROVE  SessionIInv'
<1> USE SessionAssumption
<1>0. Ready(client, sock, token)
  BY InvReady
<1>1. /\ sock[s] \in Socket /\ SocketOK(sock[s]) /\ sock \in [Sockets -> Socket]
      /\ sock[s].down \in Seq(Down) /\ sock[s].down # <<>>
  BY <1>0 DEF Receive, Ready, Socket
<1>2. PICK m, q, k : /\ m = Head(sock[s].down)
                     /\ q = [sock[s] EXCEPT !.down = Tail(@)]
                     /\ k = [sock EXCEPT ![s] = q]
  OBVIOUS
<1>3. /\ Head(sock[s].down) = sock[s].down[1] /\ Tail(sock[s].down) \in Seq(Down)
      /\ Len(sock[s].down) \in Nat /\ Len(sock[s].down) > 0 /\ m \in Down
      /\ Len(Tail(sock[s].down)) = Len(sock[s].down) - 1
      /\ \A i \in 1..Len(Tail(sock[s].down)) :
            i + 1 \in 1..Len(sock[s].down) /\ Tail(sock[s].down)[i] = sock[s].down[i + 1]
  BY <1>1, <1>2
<1>4. /\ q \in Socket /\ q.down = Tail(sock[s].down) /\ q.room = sock[s].room
      /\ q.client = sock[s].client /\ q.server = sock[s].server /\ q.up = sock[s].up
      /\ q.snap = sock[s].snap
  BY <1>1, <1>2, <1>3 DEF Socket
<1>5. SocketOK(q)
  <2>1. \A i \in 1..Len(q.down) : q.down[i].kind = "sync" => q.server \in {"live", "gone"}
    BY <1>1, <1>3, <1>4 DEF SocketOK
  <2>2. q.client # "connecting"
    BY <1>4 DEF Receive
  <2> QED BY <1>1, <1>4, <2>1, <2>2 DEF SocketOK
<1>6. k \in [Sockets -> Socket] /\ k[s] = q /\ \A x \in Sockets : x # s => k[x] = sock[x]
  BY <1>1, <1>2, <1>4
<1>7. k = [sock EXCEPT ![s].down = Tail(@)]
  BY <1>1, <1>2
<1>8. PICK c : c = [client EXCEPT !.polo = FALSE]
  OBVIOUS
<1>9. /\ c \in Tab /\ c.page = client.page /\ c.at = client.at /\ c.room = client.room
      /\ c.status = client.status /\ c.retry = client.retry /\ c.wake = client.wake
      /\ c.ws = client.ws /\ c.beat = client.beat /\ ~c.polo /\ c.synced = client.synced
      /\ c.locked = client.locked
  BY <1>0, <1>8 DEF Ready, Tab
<1>10. TabOK(c)
  BY <1>0, <1>9 DEF Ready, TabOK
<1>u. UNCHANGED <<dialog, room, raced>> /\ raced' \in BOOLEAN /\ dialog' \in Dialog
  BY DEF Receive, SessionIInv, SessionTypeOK
<1>11. CASE m.kind = "close"
  <2>1. client' = OnClose(client, s, m.code) /\ token' = token
        /\ sock' = [k EXCEPT ![s] = FreeSocket]
    BY <1>2, <1>7, <1>11 DEF Receive, SetTab
  <2>2. sock' = [sock EXCEPT ![s] = FreeSocket]
    BY <1>1, <1>2, <2>1
  <2> QED BY <1>u, <2>1, <2>2, CloseEvent
<1>12. CASE m.kind # "close" /\ client.ws # s
  <2>1. client' = client /\ token' = token /\ sock' = k
    BY <1>2, <1>7, <1>12 DEF Receive, SetTab
  <2> QED BY <1>2, <1>4, <1>5, <1>12, <1>u, <2>1, SocketStep
<1>13. CASE client.ws = s /\ m.kind \in Reasons
  <2>1. m.kind # "close"
    BY <1>13 DEF Reasons
  <2>2. LogOut(c, k, token, m.kind)
    BY <1>2, <1>7, <1>8, <1>13, <2>1 DEF Receive
  <2>3. OneSocket(client, k) /\ \A x \in Sockets : SocketOK(k[x])
    BY <1>0, <1>4, <1>5, <1>6 DEF Ready, OneSocket
  <2>4. client.page = "room"
    BY <1>0, <1>13 DEF Ready, TabOK
  <2> QED BY <1>6, <1>9, <1>10, <1>13, <1>u, <2>2, <2>3, <2>4, LoggedOut
<1>14. CASE client.ws = s /\ m.kind # "close" /\ m.kind \notin Reasons
  <2>1. client' = Frame(c, m) /\ token' = token /\ sock' = k
    BY <1>2, <1>7, <1>8, <1>14 DEF Receive, SetTab
  <2>2. m.kind \in {"auth_ok", "polo", "sync", "lock"}
        /\ (m.kind \in {"sync", "lock"} => m.locked \in BOOLEAN)
    BY <1>3, <1>14, DownKinds
  <2>3. client.page = "room" /\ client.ws # NoSocket
    BY <1>0, <1>14 DEF Ready, TabOK
  <2>4. /\ client' \in Tab /\ client'.page = "room" /\ client'.at = client.at
        /\ client'.room = client.room /\ client'.retry = client.retry /\ client'.ws = s
    <3>1. CASE m.kind = "auth_ok"
      BY <1>9, <1>14, <2>1, <2>3, <3>1 DEF Frame, Tab
    <3>2. CASE m.kind = "sync"
      BY <1>9, <1>14, <2>1, <2>2, <2>3, <3>2 DEF Frame, Tab
    <3>3. CASE m.kind = "lock"
      BY <1>9, <1>14, <2>1, <2>2, <2>3, <3>3 DEF Frame, Tab
    <3>4. CASE m.kind = "polo"
      BY <1>9, <1>14, <2>1, <2>3, <3>4 DEF Frame, Tab
    <3> QED BY <2>2, <3>1, <3>2, <3>3, <3>4
  <2>5. \/ client'.status = "connected" /\ client'.beat
        \/ client'.status = client.status /\ client'.beat = client.beat
    BY <1>9, <2>1, <2>2 DEF Frame, Tab
  <2>6. TabOK(client')
    BY <1>0, <2>3, <2>4, <2>5 DEF Ready, TabOK
  <2>7. OneSocket(client', sock') /\ \A x \in Sockets : SocketOK(sock'[x])
    BY <1>0, <1>4, <1>5, <1>6, <1>14, <2>1, <2>4 DEF Ready, OneSocket
  <2>8. InSync(client', q, dialog, raced, room)
    <3>0. InSync(client, sock[s], dialog, raced, room)
      BY <1>14, <2>3 DEF SessionIInv
    <3>1. q.room = client'.room
      BY <1>4, <2>4, <3>0 DEF InSync
    <3>2. client'.synced => q.server \in {"live", "gone"}
      <4>1. CASE m.kind = "sync"
        BY <1>1, <1>2, <1>3, <1>4, <4>1 DEF SocketOK
      <4>2. CASE m.kind # "sync"
        <5>1. client'.synced = client.synced
          BY <1>9, <2>1, <2>2, <4>2 DEF Frame, Tab
        <5> QED BY <5>1, <3>0, <1>4 DEF InSync
      <4> QED BY <4>1, <4>2
    <3>3. ASSUME dialog.step # "done", ~raced, q.server = "live"
          PROVE  Tells(q.down, client'.locked, room[client'.room].locked)
      <4>1. Tells(sock[s].down, client.locked, room[client.room].locked)
        BY <1>4, <3>0, <3>3 DEF InSync
      <4>2. client.locked \in BOOLEAN /\ room[client.room].locked \in BOOLEAN
        BY <1>0, <2>3 DEF Ready, Tab, TabOK, SessionIInv, SessionTypeOK, Row
      <4>3. PICK d \in Seq(Down), b \in BOOLEAN, v \in BOOLEAN :
                   d = sock[s].down /\ b = client.locked /\ v = room[client.room].locked
        BY <1>1, <4>2
      <4>4. /\ m.kind \in {"sync", "lock"} => Tells(Tail(d), m.locked, v)
            /\ m.kind \notin {"sync", "lock"} => Tells(Tail(d), b, v)
        BY <1>1, <1>2, <4>1, <4>3, TellsTail
      <4>5. /\ m.kind \in {"sync", "lock"} => client'.locked = m.locked
            /\ m.kind \notin {"sync", "lock"} => client'.locked = client.locked
        BY <1>9, <2>1, <2>2 DEF Frame, Tab
      <4> QED BY <1>4, <2>4, <4>3, <4>4, <4>5
    <3>4. ASSUME dialog.step # "done", ~raced, q.server = "reading"
          PROVE  q.snap = room[client'.room].locked
      BY <1>4, <2>4, <3>0, <3>4 DEF InSync
    <3> QED BY <3>1, <3>2, <3>3, <3>4 DEF InSync
  <2>9. SessionTypeOK'
    BY <1>u, <1>6, <2>1, <2>4 DEF SessionIInv, SessionTypeOK
  <2> QED BY <1>u, <1>6, <2>1, <2>4, <2>6, <2>7, <2>8, <2>9 DEF SessionIInv
<1> QED BY <1>11, <1>12, <1>13, <1>14

-----------------------------------------------------------------------------
(* The lock dialog.                                                        *)

LEMMA SubmitLockIInv ==
    ASSUME SessionIInv, SubmitLock
    PROVE  SessionIInv'
<1>1. dialog' \in Dialog /\ dialog'.step = "auth" /\ dialog.step = "idle"
  BY DEF SubmitLock, SessionIInv, SessionTypeOK, Dialog, Idle, Tab, TabOK, TokenOrNone
<1>2. SessionTypeOK'
  BY <1>1 DEF SubmitLock, SessionIInv, SessionTypeOK
<1>3. client'.ws # NoSocket => InSync(client', sock'[client'.ws], dialog', raced', room')
  BY <1>1 DEF SubmitLock, SessionIInv, InSync
<1> QED BY <1>2, <1>3 DEF SubmitLock, SessionIInv

\* The other steps of the dialog before the lock is set: what it waits for is
\* not "done", before or after.
LEMMA DialogStep ==
    ASSUME SessionIInv, dialog.step # "done", dialog' \in Dialog,
           token' \in [Rooms -> TokenOrNone], UNCHANGED <<client, sock, room, raced>>
    PROVE  SessionIInv'
<1>1. SessionTypeOK'
  BY DEF SessionIInv, SessionTypeOK
<1>2. client'.ws # NoSocket => InSync(client', sock'[client'.ws], dialog', raced', room')
  BY DEF SessionIInv, InSync
<1> QED BY <1>1, <1>2 DEF SessionIInv

LEMMA AdminAnswerIInv ==
    ASSUME SessionIInv, AdminAnswer
    PROVE  SessionIInv'
<1>1. /\ client \in Tab /\ dialog \in Dialog /\ dialog.step = "auth"
      /\ token \in [Rooms -> TokenOrNone] /\ dialog.of \in Rooms
  BY DEF AdminAnswer, SessionIInv, SessionTypeOK, Dialog
<1>2. AdminToken(dialog.of) \in TokenOrNone
  BY <1>1 DEF AdminToken, TokenOrNone, Token
<1>3. PICK t \in TokenOrNone : t = AdminToken(dialog.of)
  BY <1>2
<1>4. token' \in [Rooms -> TokenOrNone]
  BY <1>1, <1>3 DEF AdminAnswer, Tab, RoomOrNone
<1>5. dialog' \in Dialog
  BY <1>1, <1>3 DEF AdminAnswer, Dialog, Tab
<1> QED BY <1>1, <1>4, <1>5, DialogStep DEF AdminAnswer

LEMMA DialogFailsIInv ==
    ASSUME SessionIInv, DialogFails
    PROVE  SessionIInv'
<1>1. dialog' \in Dialog /\ dialog.step # "done" /\ token' \in [Rooms -> TokenOrNone]
  BY DEF DialogFails, Dialog, Idle, RoomOrNone, TokenOrNone, SessionIInv, SessionTypeOK
<1> QED BY <1>1, DialogStep DEF DialogFails

-----------------------------------------------------------------------------
(* What every socket of a room is sent.                                    *)

LEMMA BroadcastOK ==
    ASSUME NEW k \in [Sockets -> Socket], \A s \in Sockets : SocketOK(k[s]),
           NEW r \in Rooms, NEW m \in Down, m.kind # "sync", NEW h, h = Broadcast(k, r, m)
    PROVE  /\ h \in [Sockets -> Socket]
           /\ \A s \in Sockets :
                /\ SocketOK(h[s])
                /\ h[s].client = k[s].client /\ h[s].server = k[s].server
                /\ h[s].room = k[s].room /\ h[s].snap = k[s].snap
                /\ k[s].room = r /\ k[s].server = "live" => h[s].down = Append(k[s].down, m)
                /\ k[s].room # r => h[s].down = k[s].down
<1>1. ASSUME NEW s \in Sockets
      PROVE  /\ h[s] \in Socket /\ SocketOK(h[s])
             /\ h[s].client = k[s].client /\ h[s].server = k[s].server
             /\ h[s].room = k[s].room /\ h[s].snap = k[s].snap
             /\ k[s].room = r /\ k[s].server = "live" => h[s].down = Append(k[s].down, m)
             /\ k[s].room # r => h[s].down = k[s].down
  <2>1. PICK q \in Socket : q = k[s]
    OBVIOUS
  <2>2. CASE q.room = r /\ q.server \in {"greeting", "reading", "live"}
    <3>1. PICK p : p = [q EXCEPT !.down = Append(@, m)]
      OBVIOUS
    <3>2. h[s] = p
      BY <2>1, <2>2, <3>1 DEF Broadcast
    <3>3. p \in Socket /\ SocketOK(p)
      BY <2>1, <2>2, <3>1, SentDown
    <3>4. /\ p.client = q.client /\ p.server = q.server /\ p.room = q.room /\ p.snap = q.snap
          /\ p.down = Append(q.down, m)
      BY <3>1 DEF Socket
    <3> QED BY <2>1, <2>2, <3>2, <3>3, <3>4
  <2>3. CASE ~(q.room = r /\ q.server \in {"greeting", "reading", "live"})
    BY <2>1, <2>3 DEF Broadcast
  <2> QED BY <2>2, <2>3
<1>2. h = [s \in Sockets |-> h[s]]
  BY DEF Broadcast
<1>3. h \in [Sockets -> Socket]
  BY <1>1, <1>2
<1> QED BY <1>1, <1>3

\* A broadcast that goes with a change of its room: types and sockets, ...
LEMMA Announced ==
    ASSUME SessionIInv, NEW r \in Rooms, NEW m \in Down, m.kind # "sync",
           sock' = Broadcast(sock, r, m), room' \in [Rooms -> Row],
           token' \in [Rooms -> TokenOrNone], dialog' \in Dialog, raced' \in BOOLEAN,
           client' = client,
           client.ws # NoSocket => InSync(client, sock'[client.ws], dialog', raced', room')
    PROVE  SessionIInv'
<1>1. PICK so, h : so \in [Sockets -> Socket] /\ so = sock /\ h = Broadcast(so, r, m)
  BY DEF SessionIInv, SessionTypeOK
<1>2. \A s \in Sockets : SocketOK(so[s])
  BY <1>1 DEF SessionIInv
<1>3. /\ h \in [Sockets -> Socket] /\ sock' = h
      /\ \A s \in Sockets : SocketOK(h[s]) /\ h[s].client = so[s].client
  BY <1>1, <1>2, BroadcastOK
<1>4. SessionTypeOK' /\ TabOK(client')
  BY <1>3 DEF SessionIInv, SessionTypeOK
<1>5. OneSocket(client', sock')
  BY <1>1, <1>3 DEF SessionIInv, OneSocket
<1> QED BY <1>3, <1>4, <1>5 DEF SessionIInv

\* ... and what it leaves the socket in use with.
LEMMA InUse ==
    ASSUME SessionIInv, client.ws # NoSocket, NEW r \in Rooms, NEW m \in Down, m.kind # "sync",
           sock' = Broadcast(sock, r, m)
    PROVE  LET q == sock[client.ws]
               p == sock'[client.ws]
           IN /\ q \in Socket /\ p \in Socket /\ InSync(client, q, dialog, raced, room)
              /\ client.room \in Rooms /\ client.locked \in BOOLEAN
              /\ p.room = q.room /\ p.server = q.server /\ p.snap = q.snap
              /\ q.room = r /\ q.server = "live" => p.down = Append(q.down, m)
              /\ q.room # r => p.down = q.down
<1>1. PICK so, h : so \in [Sockets -> Socket] /\ so = sock /\ h = Broadcast(so, r, m)
  BY DEF SessionIInv, SessionTypeOK
<1>2. client.ws \in Sockets /\ \A s \in Sockets : SocketOK(so[s])
  BY <1>1 DEF SessionIInv, SessionTypeOK, Tab
<1>3. /\ h \in [Sockets -> Socket] /\ sock' = h
      /\ \A s \in Sockets :
           /\ h[s].server = so[s].server /\ h[s].room = so[s].room /\ h[s].snap = so[s].snap
           /\ so[s].room = r /\ so[s].server = "live" => h[s].down = Append(so[s].down, m)
           /\ so[s].room # r => h[s].down = so[s].down
  BY <1>1, <1>2, BroadcastOK
<1>4. client.room \in Rooms /\ client.locked \in BOOLEAN
  BY DEF SessionIInv, SessionTypeOK, Tab, TabOK
<1> QED BY <1>1, <1>2, <1>3, <1>4 DEF SessionIInv

LEMMA PatchLockIInv ==
    ASSUME SessionIInv, PatchLock
    PROVE  SessionIInv'
<1>1. PICK r \in Rooms, b \in BOOLEAN : r = dialog.of /\ b = dialog.target
  BY DEF PatchLock, Accepted, SessionIInv, SessionTypeOK, Dialog, RoomOrNone
<1>2. PICK m \in Down : m = [kind |-> "lock", locked |-> b] /\ m.kind = "lock"
  BY <1>1, Frames
<1>3. sock' = Broadcast(sock, r, m) /\ client' = client /\ raced' = raced
  BY <1>1, <1>2 DEF PatchLock
<1>4. room' \in [Rooms -> Row]
  BY <1>1 DEF PatchLock, SessionIInv, SessionTypeOK, Row
<1>5. dialog' \in Dialog /\ dialog'.step = "done"
  BY DEF PatchLock, SessionIInv, SessionTypeOK, Dialog
<1>6. token' \in [Rooms -> TokenOrNone] /\ raced' \in BOOLEAN
  BY DEF PatchLock, SessionIInv, SessionTypeOK
<1>7. client.ws # NoSocket => InSync(client, sock'[client.ws], dialog', raced', room')
  BY <1>2, <1>3, <1>5, InUse DEF InSync
<1> QED BY <1>2, <1>3, <1>4, <1>5, <1>6, <1>7, Announced

LEMMA OthersLockIInv ==
    ASSUME SessionIInv, NEW r \in Rooms, OthersLock(r)
    PROVE  SessionIInv'
<1>1. PICK b \in BOOLEAN : b = ~room[r].locked
  OBVIOUS
<1>2. PICK m \in Down : m = [kind |-> "lock", locked |-> b] /\ m.kind = "lock" /\ m.locked = b
  BY Frames
<1>3. sock' = Broadcast(sock, r, m) /\ client' = client /\ UNCHANGED <<token, dialog>>
  BY <1>1, <1>2 DEF OthersLock
<1>4. /\ room' \in [Rooms -> Row] /\ room'[r].locked = b
      /\ \A x \in Rooms : x # r => room'[x] = room[x]
  BY <1>1 DEF OthersLock, SessionIInv, SessionTypeOK, Row
<1>5. /\ raced' \in BOOLEAN /\ (raced => raced')
      /\ \A s \in Sockets :
            client.ws = s /\ sock[s].room = r /\ sock[s].server = "reading" => raced'
  BY DEF OthersLock, SessionIInv, SessionTypeOK
<1>6. dialog' \in Dialog /\ token' \in [Rooms -> TokenOrNone]
  BY <1>3 DEF SessionIInv, SessionTypeOK
<1>7. ASSUME client.ws # NoSocket PROVE InSync(client, sock'[client.ws], dialog', raced', room')
  <2>1. PICK s \in Sockets : s = client.ws
    BY <1>7 DEF SessionIInv, SessionTypeOK, Tab
  <2>2. PICK q \in Socket, p \in Socket :
               /\ q = sock[s] /\ p = sock'[s] /\ InSync(client, q, dialog, raced, room)
               /\ client.room \in Rooms /\ client.locked \in BOOLEAN
               /\ p.room = q.room /\ p.server = q.server /\ p.snap = q.snap
               /\ q.room = r /\ q.server = "live" => p.down = Append(q.down, m)
               /\ q.room # r => p.down = q.down
    BY <1>2, <1>3, <1>7, <2>1, InUse
  <2>3. q.room = client.room
    BY <2>2 DEF InSync
  <2>4. CASE q.room = r
    <3>1. q.server = "reading" => raced'
      BY <1>5, <2>1, <2>2, <2>4
    <3>2. q.server = "live" => Tells(p.down, client.locked, room'[client.room].locked)
      <4>1. PICK d \in Seq(Down), c \in BOOLEAN : d = q.down /\ c = client.locked
        BY <2>2 DEF Socket
      <4>2. Tells(Append(d, m), c, b)
        BY <1>2, TellsLock
      <4> QED BY <1>4, <2>2, <2>3, <2>4, <4>1, <4>2
    <3> QED BY <2>1, <2>2, <3>1, <3>2 DEF InSync
  <2>5. CASE q.room # r
    <3>1. room'[client.room] = room[client.room]
      BY <1>4, <2>2, <2>3, <2>5
    <3> QED BY <1>3, <1>5, <2>1, <2>2, <2>5, <3>1 DEF InSync
  <2> QED BY <2>4, <2>5
<1> QED BY <1>2, <1>3, <1>4, <1>5, <1>6, <1>7, Announced

\* A broadcast that is no lock, in a room whose lock does not change.
LEMMA Told ==
    ASSUME SessionIInv, NEW r \in Rooms, NEW m \in Down, m.kind \notin {"sync", "lock"},
           sock' = Broadcast(sock, r, m), room' \in [Rooms -> Row],
           \A x \in Rooms : room'[x].locked = room[x].locked,
           token' \in [Rooms -> TokenOrNone], dialog' \in Dialog, dialog'.step = dialog.step,
           UNCHANGED <<client, raced>>
    PROVE  SessionIInv'
<1>1. ASSUME client.ws # NoSocket PROVE InSync(client, sock'[client.ws], dialog', raced', room')
  <2>1. PICK s \in Sockets : s = client.ws
    BY <1>1 DEF SessionIInv, SessionTypeOK, Tab
  <2>2. PICK q \in Socket, p \in Socket :
               /\ q = sock[s] /\ p = sock'[s] /\ InSync(client, q, dialog, raced, room)
               /\ client.room \in Rooms /\ client.locked \in BOOLEAN
               /\ p.room = q.room /\ p.server = q.server /\ p.snap = q.snap
               /\ q.room = r /\ q.server = "live" => p.down = Append(q.down, m)
               /\ q.room # r => p.down = q.down
    BY <1>1, <2>1, InUse
  <2>3. ASSUME dialog.step # "done", ~raced, q.server = "live"
        PROVE  Tells(p.down, client.locked, room'[client.room].locked)
    <3>1. Tells(q.down, client.locked, room[client.room].locked)
      BY <2>2, <2>3 DEF InSync
    <3>2. PICK d \in Seq(Down), c \in BOOLEAN, v \in BOOLEAN :
                 d = q.down /\ c = client.locked /\ v = room[client.room].locked
      BY <2>2 DEF Socket, SessionIInv, SessionTypeOK, Row
    <3>3. Tells(Append(d, m), c, v)
      BY <3>1, <3>2, TellsAppend
    <3> QED BY <2>2, <2>3, <3>1, <3>2, <3>3
  <2>4. room'[client.room].locked = room[client.room].locked
    BY <2>2
  <2> QED BY <2>1, <2>2, <2>3, <2>4 DEF InSync
<1>2. raced' \in BOOLEAN
  BY DEF SessionIInv, SessionTypeOK
<1> QED BY <1>1, <1>2, Announced

LEMMA AgedOK ==
    ASSUME NEW t \in TokenOrNone, NEW r, NEW age \in {"expired", "rotated"}
    PROVE  Aged(t, r, age) \in TokenOrNone
BY DEF Aged, TokenOrNone, Token

LEMMA RotateIInv ==
    ASSUME SessionIInv, NEW r \in Rooms, Rotate(r)
    PROVE  SessionIInv'
<1>1. PICK m \in Down : m = Msg("password_rotated") /\ m.kind = "password_rotated"
  BY Frames DEF Reasons
<1>2. sock' = Broadcast(sock, r, m) /\ UNCHANGED <<client, room, raced>>
  BY <1>1 DEF Rotate
<1>3. room' \in [Rooms -> Row] /\ \A x \in Rooms : room'[x].locked = room[x].locked
  BY <1>2 DEF SessionIInv, SessionTypeOK
<1>4. token' \in [Rooms -> TokenOrNone]
  BY AgedOK DEF Rotate, SessionIInv, SessionTypeOK
<1>5. dialog' \in Dialog /\ dialog'.step = dialog.step
  <2>1. PICK d \in Dialog : d = dialog
    BY DEF SessionIInv, SessionTypeOK
  <2>2. PICK t \in TokenOrNone : t = Aged(d.with, r, "rotated")
    BY AgedOK DEF Dialog
  <2> QED BY <2>1, <2>2 DEF Rotate, Dialog
<1> QED BY <1>1, <1>2, <1>3, <1>4, <1>5, Told

LEMMA DeleteIInv ==
    ASSUME SessionIInv, NEW r \in Rooms, Delete(r)
    PROVE  SessionIInv'
<1>1. PICK m \in Down : m = Msg("room_deleted") /\ m.kind = "room_deleted"
  BY Frames DEF Reasons
<1>2. sock' = Broadcast(sock, r, m) /\ UNCHANGED <<client, token, dialog, raced>>
  BY <1>1 DEF Delete
<1>3. room' \in [Rooms -> Row] /\ \A x \in Rooms : room'[x].locked = room[x].locked
  BY DEF Delete, SessionIInv, SessionTypeOK, Row
<1>4. token' \in [Rooms -> TokenOrNone] /\ dialog' \in Dialog
  BY <1>2 DEF SessionIInv, SessionTypeOK
<1> QED BY <1>1, <1>2, <1>3, <1>4, Told

LEMMA TokenExpiresIInv ==
    ASSUME SessionIInv, NEW r \in Rooms, TokenExpires(r)
    PROVE  SessionIInv'
<1>0. /\ sock \in [Sockets -> Socket] /\ \A s \in Sockets : SocketOK(sock[s])
      /\ client \in Tab
  BY DEF SessionIInv, SessionTypeOK
<1>1. token' \in [Rooms -> TokenOrNone]
  BY AgedOK DEF TokenExpires, SessionIInv, SessionTypeOK, TokenOrNone
<1>2. dialog' \in Dialog /\ dialog'.step = dialog.step
  <2>1. PICK d \in Dialog : d = dialog
    BY DEF SessionIInv, SessionTypeOK
  <2>2. PICK t \in TokenOrNone : t = Aged(d.with, r, "expired")
    BY AgedOK DEF Dialog
  <2> QED BY <2>1, <2>2 DEF TokenExpires, Dialog
<1>3. /\ sock' = [s \in Sockets |-> sock'[s]]
      /\ \A s \in Sockets : sock'[s] \in {sock[s], [sock[s] EXCEPT !.session = "expired"]}
  BY <1>0 DEF TokenExpires
<1>4. \A s \in Sockets :
         /\ sock'[s] \in Socket /\ SocketOK(sock'[s]) /\ sock'[s].client = sock[s].client
         /\ sock'[s].room = sock[s].room /\ sock'[s].server = sock[s].server
         /\ sock'[s].down = sock[s].down /\ sock'[s].snap = sock[s].snap
  <2> SUFFICES ASSUME NEW s \in Sockets
               PROVE  /\ sock'[s] \in Socket /\ SocketOK(sock'[s])
                      /\ sock'[s].client = sock[s].client
                      /\ sock'[s].room = sock[s].room /\ sock'[s].server = sock[s].server
                      /\ sock'[s].down = sock[s].down /\ sock'[s].snap = sock[s].snap
    OBVIOUS
  <2>1. PICK q \in Socket : q = sock[s]
    BY <1>0
  <2>2. PICK p : p = [q EXCEPT !.session = "expired"]
    OBVIOUS
  <2>3. /\ p \in Socket /\ p.client = q.client /\ p.room = q.room /\ p.server = q.server
        /\ p.down = q.down /\ p.up = q.up /\ p.snap = q.snap
    BY <2>2 DEF Socket
  <2>4. SocketOK(p)
    BY <1>0, <2>1, <2>3 DEF SocketOK
  <2> QED BY <1>0, <1>3, <2>1, <2>2, <2>3, <2>4
<1>5. UNCHANGED <<client, room, raced>>
  BY DEF TokenExpires
<1>6. SessionTypeOK' /\ TabOK(client') /\ OneSocket(client', sock')
      /\ \A s \in Sockets : SocketOK(sock'[s])
  BY <1>1, <1>2, <1>3, <1>4, <1>5 DEF SessionIInv, SessionTypeOK, OneSocket
<1>7. ASSUME client'.ws # NoSocket
      PROVE  InSync(client', sock'[client'.ws], dialog', raced', room')
  <2>1. PICK s \in Sockets : s = client.ws
    BY <1>0, <1>5, <1>7 DEF Tab
  <2>2. InSync(client, sock[s], dialog, raced, room)
    BY <1>5, <1>7, <2>1 DEF SessionIInv
  <2> QED BY <1>2, <1>4, <1>5, <2>1, <2>2 DEF InSync
<1> QED BY <1>6, <1>7 DEF SessionIInv

-----------------------------------------------------------------------------
(* The server's end.                                                       *)

\* The first message up a socket, and what is left after it.
LEMMA FirstUp ==
    ASSUME NEW q \in Socket, SocketOK(q), q.up # <<>>
    PROVE  /\ Head(q.up) \in Up /\ Tail(q.up) \in Seq(Up)
           /\ Head(q.up).kind = "auth" => q.server = "pending"
           /\ \A i \in 1..Len(Tail(q.up)) : Tail(q.up)[i].kind # "auth"
<1>1. q.up \in Seq(Up) /\ Len(q.up) \in Nat /\ Len(q.up) > 0
  BY DEF Socket
<1>2. /\ Head(q.up) = q.up[1] /\ Head(q.up) \in Up /\ Tail(q.up) \in Seq(Up)
      /\ \A i \in 1..Len(Tail(q.up)) : i + 1 \in 1..Len(q.up) /\ Tail(q.up)[i] = q.up[i + 1]
  BY <1>1
<1>3. \A i \in 1..Len(Tail(q.up)) : i \in Nat /\ i > 0
  BY <1>2
<1> QED BY <1>1, <1>2, <1>3 DEF SocketOK

\* close() on the server's side.
LEMMA HangupIInv ==
    ASSUME SessionIInv, NEW s \in Sockets, NEW q \in Socket, SocketOK(q), q.server # "none",
           q.client = sock[s].client, q.room = sock[s].room,
           NEW k, k = [sock EXCEPT ![s] = q], NEW code \in {"unauthorized", "other"},
           sock' = Hangup(k, s, code), UNCHANGED <<client, token, dialog, room>>,
           raced' \in BOOLEAN, client.ws # s => raced' = raced
    PROVE  SessionIInv'
<1>0. sock \in [Sockets -> Socket]
  BY DEF SessionIInv, SessionTypeOK
<1>1. PICK p : p = [q EXCEPT !.server = "gone", !.session = "current", !.snap = FALSE, !.up = <<>>,
                             !.down = Append(@, CloseMsg(code))]
  OBVIOUS
<1>2. p \in Socket /\ SocketOK(p) /\ p.server = "gone" /\ p.room = q.room /\ p.client = q.client
  BY <1>1, HungUp
<1>3. sock' = [sock EXCEPT ![s] = p]
  BY <1>0, <1>1 DEF Hangup
<1>4. client.ws = s => InSync(client, p, dialog, raced', room)
  BY <1>2, SessionAssumption DEF SessionIInv, InSync
<1> QED BY <1>2, <1>3, <1>4, SocketStep

LEMMA HandshakeFailsIInv ==
    ASSUME SessionIInv, NEW s \in Sockets, HandshakeFails(s)
    PROVE  SessionIInv'
<1>1. PICK q \in Socket : q = sock[s] /\ SocketOK(q) /\ q.server # "none"
  BY DEF HandshakeFails, SessionIInv, SessionTypeOK
<1>2. sock = [sock EXCEPT ![s] = q]
  BY <1>1 DEF SessionIInv, SessionTypeOK
<1>3. PICK k : k = [sock EXCEPT ![s] = q]
  OBVIOUS
<1>4. /\ sock' = Hangup(k, s, "unauthorized") /\ UNCHANGED <<client, token, dialog, room, raced>>
      /\ raced' \in BOOLEAN
  BY <1>2, <1>3 DEF HandshakeFails, SessionIInv, SessionTypeOK
<1> QED BY <1>1, <1>3, <1>4, HangupIInv

LEMMA AuthTimeoutIInv ==
    ASSUME SessionIInv, NEW s \in Sockets, AuthTimeout(s)
    PROVE  SessionIInv'
<1>1. PICK q \in Socket : q = sock[s] /\ SocketOK(q) /\ q.server # "none"
  BY DEF AuthTimeout, SessionIInv, SessionTypeOK
<1>2. sock = [sock EXCEPT ![s] = q]
  BY <1>1 DEF SessionIInv, SessionTypeOK
<1>3. PICK k : k = [sock EXCEPT ![s] = q]
  OBVIOUS
<1>4. /\ sock' = Hangup(k, s, "unauthorized") /\ UNCHANGED <<client, token, dialog, room, raced>>
      /\ raced' \in BOOLEAN
  BY <1>2, <1>3 DEF AuthTimeout, SessionIInv, SessionTypeOK
<1> QED BY <1>1, <1>3, <1>4, HangupIInv

LEMMA ServerAuthIInv ==
    ASSUME SessionIInv, NEW s \in Sockets, ServerAuth(s)
    PROVE  SessionIInv'
<1>1. PICK q \in Socket : q = sock[s] /\ SocketOK(q)
  BY DEF SessionIInv, SessionTypeOK
<1>2. /\ q.server = "pending" /\ Head(q.up).token \in Token /\ Tail(q.up) \in Seq(Up)
      /\ \A i \in 1..Len(Tail(q.up)) : Tail(q.up)[i].kind # "auth"
  BY <1>1, FirstUp, UpKinds DEF ServerAuth, Reached
<1>3. PICK t \in Token : t = Head(sock[s].up).token
  BY <1>1, <1>2
<1>4. sock = [sock EXCEPT ![s] = q] /\ sock \in [Sockets -> Socket]
  BY <1>1 DEF SessionIInv, SessionTypeOK
<1>5. UNCHANGED <<client, token, dialog, room, raced>> /\ raced' \in BOOLEAN
  BY DEF ServerAuth, SessionIInv, SessionTypeOK
<1>6. CASE t.age = "expired" \/ t.of # sock[s].room
  <2>1. PICK k : k = [sock EXCEPT ![s] = q]
    OBVIOUS
  <2>2. sock' = Hangup(k, s, "unauthorized")
    BY <1>3, <1>4, <1>6, <2>1 DEF ServerAuth
  <2> QED BY <1>1, <1>2, <1>5, <2>1, <2>2, HangupIInv
<1>7. CASE ~(t.age = "expired" \/ t.of # sock[s].room)
  <2>1. PICK a \in Down : a = Msg("auth_ok") /\ a.kind = "auth_ok"
    BY Frames
  <2>2. PICK p : p = [q EXCEPT !.server = "greeting", !.session = t.age, !.up = Tail(@),
                               !.down = Append(@, a)]
    OBVIOUS
  <2>3. sock' = [sock EXCEPT ![s] = p]
    BY <1>1, <1>3, <1>4, <1>7, <2>1, <2>2 DEF ServerAuth
  <2>4. q.down \in Seq(Down) /\ Append(q.down, a) \in Seq(Down) /\ t.age \in {"current", "expired", "rotated"}
    BY <2>1, AppendProperties DEF Socket, Token
  <2>5. /\ p \in Socket /\ p.room = q.room /\ p.client = q.client /\ p.server = "greeting"
        /\ p.up = Tail(q.up) /\ p.down = Append(q.down, a)
    BY <1>2, <2>2, <2>4 DEF Socket
  <2>6. SocketOK(p)
    <3>1. \A i \in 1..Len(p.down) : p.down[i].kind # "sync"
      BY <1>1, <1>2, <2>1, <2>4, <2>5, AppendProperties DEF SocketOK
    <3> QED BY <1>1, <1>2, <2>5, <3>1 DEF SocketOK
  <2>7. client.ws = s => InSync(client, p, dialog, raced', room)
    BY <1>1, <1>2, <2>5, SessionAssumption DEF SessionIInv, InSync
  <2> QED BY <1>1, <1>5, <2>3, <2>5, <2>6, <2>7, SocketStep
<1> QED BY <1>6, <1>7

LEMMA ReadRoomIInv ==
    ASSUME SessionIInv, NEW s \in Sockets, ReadRoom(s)
    PROVE  SessionIInv'
<1>1. PICK q \in Socket : q = sock[s] /\ SocketOK(q) /\ q.server = "greeting"
  BY DEF ReadRoom, SessionIInv, SessionTypeOK
<1>2. q.room \in Rooms /\ room[q.room].locked \in BOOLEAN /\ sock \in [Sockets -> Socket]
  BY <1>1 DEF SocketOK, SessionIInv, SessionTypeOK, Row
<1>3. /\ UNCHANGED <<client, token, dialog, room>> /\ raced' \in BOOLEAN
      /\ client.ws # s => raced' = raced
  BY DEF ReadRoom, SessionIInv, SessionTypeOK
<1>4. CASE room[q.room].exists
  <2>1. PICK p : p = [q EXCEPT !.server = "reading", !.snap = room[q.room].locked]
    OBVIOUS
  <2>2. sock' = [sock EXCEPT ![s] = p]
    BY <1>1, <1>2, <1>4, <2>1 DEF ReadRoom
  <2>3. /\ p \in Socket /\ p.room = q.room /\ p.client = q.client /\ p.server = "reading"
        /\ p.up = q.up /\ p.down = q.down /\ p.snap = room[q.room].locked
    BY <1>2, <2>1 DEF Socket
  <2>4. SocketOK(p)
    BY <1>1, <2>3 DEF SocketOK
  <2>5. client.ws = s => InSync(client, p, dialog, raced', room)
    BY <1>1, <2>3, SessionAssumption DEF SessionIInv, InSync
  <2> QED BY <1>1, <1>3, <2>2, <2>3, <2>4, <2>5, SocketStep
<1>5. CASE ~room[q.room].exists
  <2>1. PICK m \in Down : m = Msg("room_not_found") /\ m.kind = "room_not_found"
    BY Frames DEF Reasons
  <2>2. PICK p : p = [q EXCEPT !.down = Append(@, m)]
    OBVIOUS
  <2>3. p \in Socket /\ SocketOK(p)
    BY <1>1, <2>1, <2>2, SentDown
  <2>4. p.server = "greeting" /\ p.client = q.client /\ p.room = q.room
    BY <1>1, <2>2 DEF Socket
  <2>5. PICK k : k = [sock EXCEPT ![s] = p]
    OBVIOUS
  <2>6. k = [sock EXCEPT ![s].down = Append(@, m)]
    BY <1>1, <1>2, <2>2, <2>5
  <2>7. sock' = Hangup(k, s, "other")
    BY <1>1, <1>5, <2>1, <2>6 DEF ReadRoom
  <2> QED BY <1>1, <1>3, <2>3, <2>4, <2>5, <2>7, HangupIInv
<1> QED BY <1>4, <1>5

LEMMA SendSyncIInv ==
    ASSUME SessionIInv, NEW s \in Sockets, SendSync(s)
    PROVE  SessionIInv'
<1>1. PICK q \in Socket : q = sock[s] /\ SocketOK(q) /\ q.server = "reading"
  BY DEF SendSync, SessionIInv, SessionTypeOK
<1>2. PICK b \in BOOLEAN : b = q.snap
  BY DEF Socket
<1>3. PICK m \in Down : m = [kind |-> "sync", locked |-> b] /\ m.kind = "sync" /\ m.locked = b
  BY Frames
<1>4. PICK p : p = [q EXCEPT !.server = "live", !.snap = FALSE, !.down = Append(@, m)]
  OBVIOUS
<1>5. sock' = [sock EXCEPT ![s] = p]
  BY <1>1, <1>2, <1>3, <1>4 DEF SendSync, SessionIInv, SessionTypeOK
<1>6. q.down \in Seq(Down) /\ Append(q.down, m) \in Seq(Down)
  BY AppendProperties DEF Socket
<1>7. /\ p \in Socket /\ p.room = q.room /\ p.client = q.client /\ p.server = "live"
      /\ p.up = q.up /\ p.down = Append(q.down, m)
  BY <1>4, <1>6 DEF Socket
<1>8. SocketOK(p)
  BY <1>1, <1>7 DEF SocketOK
<1>9. UNCHANGED <<client, token, dialog, room, raced>> /\ raced' \in BOOLEAN
  BY DEF SendSync, SessionIInv, SessionTypeOK
<1>10. ASSUME client.ws = s PROVE InSync(client, p, dialog, raced', room)
  <2>1. InSync(client, q, dialog, raced, room)
    BY <1>1, <1>10, SessionAssumption DEF SessionIInv
  <2>2. ASSUME dialog.step # "done", ~raced
        PROVE  Tells(p.down, client.locked, room[client.room].locked)
    <3>1. b = room[client.room].locked
      BY <1>1, <1>2, <2>1, <2>2 DEF InSync
    <3>2. PICK d \in Seq(Down), c \in BOOLEAN : d = q.down /\ c = client.locked
      BY <1>6 DEF SessionIInv, SessionTypeOK, Tab
    <3>3. Tells(Append(d, m), c, m.locked)
      BY <1>3, <3>2, TellsLock
    <3> QED BY <1>3, <1>7, <3>1, <3>2, <3>3
  <2> QED BY <1>7, <1>9, <2>1, <2>2 DEF InSync
<1> QED BY <1>1, <1>5, <1>7, <1>8, <1>9, <1>10, SocketStep

LEMMA ServerReplyIInv ==
    ASSUME SessionIInv, NEW s \in Sockets, ServerReply(s)
    PROVE  SessionIInv'
<1>1. PICK q \in Socket : q = sock[s] /\ SocketOK(q) /\ q.server # "none" /\ q.up # <<>>
  BY DEF ServerReply, Reached, SessionIInv, SessionTypeOK
<1>2. /\ Tail(q.up) \in Seq(Up) /\ sock \in [Sockets -> Socket]
      /\ \A i \in 1..Len(Tail(q.up)) : Tail(q.up)[i].kind # "auth"
  BY <1>1, FirstUp DEF SessionIInv, SessionTypeOK
<1>3. PICK p : p = [q EXCEPT !.up = Tail(@)]
  OBVIOUS
<1>4. /\ p \in Socket /\ p.room = q.room /\ p.client = q.client /\ p.server = q.server
      /\ p.up = Tail(q.up) /\ p.down = q.down /\ p.snap = q.snap
  BY <1>2, <1>3 DEF Socket
<1>5. SocketOK(p)
  BY <1>1, <1>2, <1>4 DEF SocketOK
<1>6. PICK k : k = [sock EXCEPT ![s] = p]
  OBVIOUS
<1>7. k = [sock EXCEPT ![s].up = Tail(@)]
  BY <1>1, <1>2, <1>3, <1>6
<1>8. UNCHANGED <<client, token, dialog, room, raced>> /\ raced' \in BOOLEAN
  BY DEF ServerReply, SessionIInv, SessionTypeOK
<1>s. client.ws = s => InSync(client, q, dialog, raced, room)
  BY <1>1, SessionAssumption DEF SessionIInv
<1>9. CASE sock' = [k EXCEPT ![s].down = Append(@, Msg("polo"))]
  <2>1. PICK m \in Down : m = Msg("polo") /\ m.kind = "polo"
    BY Frames
  <2>2. PICK h : h = [p EXCEPT !.down = Append(@, m)]
    OBVIOUS
  <2>3. h \in Socket /\ SocketOK(h)
    BY <1>1, <1>4, <1>5, <2>1, <2>2, SentDown
  <2>4. /\ h.room = q.room /\ h.client = q.client /\ h.server = q.server /\ h.snap = q.snap
        /\ h.down = Append(q.down, m)
    BY <1>4, <2>2 DEF Socket
  <2>5. sock' = [sock EXCEPT ![s] = h]
    BY <1>2, <1>4, <1>6, <1>9, <2>1, <2>2
  <2>6. ASSUME client.ws = s PROVE InSync(client, h, dialog, raced', room)
    <3>1. ASSUME dialog.step # "done", ~raced, q.server = "live"
          PROVE  Tells(h.down, client.locked, room[client.room].locked)
      <4>1. client.room \in Rooms
        BY <2>6, SessionAssumption DEF SessionIInv, SessionTypeOK, TabOK
      <4>2. PICK d \in Seq(Down), c \in BOOLEAN, v \in BOOLEAN :
                   d = q.down /\ c = client.locked /\ v = room[client.room].locked
        BY <4>1 DEF Socket, SessionIInv, SessionTypeOK, Tab, Row
      <4>3. Tells(Append(d, m), c, v)
        BY <1>s, <2>1, <2>6, <3>1, <4>2, TellsAppend DEF InSync
      <4> QED BY <2>4, <4>2, <4>3
    <3> QED BY <1>8, <1>s, <2>4, <2>6, <3>1 DEF InSync
  <2> QED BY <1>1, <1>8, <2>3, <2>4, <2>5, <2>6, SocketStep
<1>10. CASE sock' = Hangup([k EXCEPT ![s].down = Append(@, Msg("session_expired"))], s, "unauthorized")
  <2>1. PICK m \in Down : m = Msg("session_expired") /\ m.kind = "session_expired"
    BY Frames DEF Reasons
  <2>2. PICK h : h = [p EXCEPT !.down = Append(@, m)]
    OBVIOUS
  <2>3. h \in Socket /\ SocketOK(h)
    BY <1>1, <1>4, <1>5, <2>1, <2>2, SentDown
  <2>4. h.server # "none" /\ h.client = q.client /\ h.room = q.room
    BY <1>1, <1>4, <2>2 DEF Socket
  <2>5. PICK j : j = [sock EXCEPT ![s] = h]
    OBVIOUS
  <2>6. j = [k EXCEPT ![s].down = Append(@, m)]
    BY <1>2, <1>4, <1>6, <2>2, <2>5
  <2>7. sock' = Hangup(j, s, "unauthorized")
    BY <1>10, <2>1, <2>6
  <2> QED BY <1>1, <1>8, <2>3, <2>4, <2>5, <2>7, HangupIInv
<1>11. CASE sock' = k
  <2>1. client.ws = s => InSync(client, p, dialog, raced', room)
    BY <1>4, <1>8, <1>s DEF InSync
  <2> QED BY <1>1, <1>4, <1>5, <1>6, <1>8, <1>11, <2>1, SocketStep
<1>12. \/ sock' = [k EXCEPT ![s].down = Append(@, Msg("polo"))]
       \/ sock' = Hangup([k EXCEPT ![s].down = Append(@, Msg("session_expired"))], s, "unauthorized")
       \/ sock' = k
  BY <1>7 DEF ServerReply
<1> QED BY <1>9, <1>10, <1>11, <1>12

LEMMA BreaksIInv ==
    ASSUME SessionIInv, NEW s \in Sockets, Breaks(s)
    PROVE  SessionIInv'
<1>1. PICK q \in Socket : q = sock[s] /\ SocketOK(q) /\ q.client \in {"connecting", "open"}
  BY DEF Breaks, SessionIInv, SessionTypeOK
<1>2. q.room \in Rooms /\ sock \in [Sockets -> Socket]
  BY <1>1 DEF SocketOK, SessionIInv, SessionTypeOK
<1>3. UNCHANGED <<client, token, dialog, room, raced>> /\ raced' \in BOOLEAN
  BY DEF Breaks, SessionIInv, SessionTypeOK
<1>s. client.ws = s => InSync(client, q, dialog, raced, room)
  BY <1>1, SessionAssumption DEF SessionIInv
<1>4. CASE sock' = Hangup([sock EXCEPT ![s].down = <<>>, ![s].client = "lost"], s, "other")
  <2>1. PICK m \in Down : m = CloseMsg("other") /\ m.kind = "close"
    BY Frames
  <2>j. PICK j, k : j = [q EXCEPT !.down = <<>>, !.client = "lost"] /\ k = [sock EXCEPT ![s] = j]
    OBVIOUS
  <2>k. k = [sock EXCEPT ![s].down = <<>>, ![s].client = "lost"]
    BY <1>1, <1>2, <2>j
  <2>l. /\ j \in Socket /\ j.client = "lost" /\ j.down = <<>> /\ j.room = q.room
        /\ k \in [Sockets -> Socket] /\ k[s] = j /\ \A x \in Sockets : x # s => k[x] = sock[x]
    <3>1. <<>> \in Seq(Down)
      OBVIOUS
    <3>2. j \in Socket /\ j.client = "lost" /\ j.down = <<>> /\ j.room = q.room
      BY <2>j, <3>1 DEF Socket
    <3> QED BY <1>2, <2>j, <3>2
  <2>2. PICK p : p = [j EXCEPT !.server = "gone", !.session = "current", !.snap = FALSE,
                               !.up = <<>>, !.down = Append(<<>>, m)]
    OBVIOUS
  <2>3. /\ <<>> \in Seq(Up) /\ Append(<<>>, m) \in Seq(Down) /\ Append(<<>>, m) = <<m>>
        /\ Len(<<m>>) = 1 /\ <<m>>[1] = m
    BY <2>1
  <2>4. /\ p \in Socket /\ p.client = "lost" /\ p.server = "gone" /\ p.room = q.room
        /\ p.up = <<>> /\ p.down = <<m>>
    BY <2>2, <2>3, <2>l DEF Socket
  <2>5. SocketOK(p)
    BY <1>2, <2>4 DEF SocketOK
  <2>6. sock' = [sock EXCEPT ![s] = p]
    <3>1. sock' = Hangup(k, s, "other")
      BY <1>4, <2>k
    <3>2. sock' = [k EXCEPT ![s] = p]
      BY <2>1, <2>2, <2>l, <3>1 DEF Hangup
    <3>3. [k EXCEPT ![s] = p] = [sock EXCEPT ![s] = p]
      BY <1>2, <2>j
    <3> QED BY <3>2, <3>3
  <2>7. client.ws = s => InSync(client, p, dialog, raced', room)
    BY <1>s, <2>4 DEF InSync
  <2> QED BY <1>1, <1>3, <2>4, <2>5, <2>6, <2>7, SocketStep
<1>5. CASE /\ sock[s].client = "open"
           /\ sock' = [sock EXCEPT ![s] = [FreeSocket EXCEPT !.room = sock[s].room,
                                                             !.client = "open", !.server = "gone"]]
  <2>1. PICK p : p = [FreeSocket EXCEPT !.room = q.room, !.client = "open", !.server = "gone"]
    OBVIOUS
  <2>2. /\ p \in Socket /\ p.client = "open" /\ p.server = "gone" /\ p.room = q.room
        /\ p.up = <<>> /\ p.down = <<>>
    BY <2>1, FreeSocketOK DEF Socket
  <2>3. SocketOK(p)
    BY <1>2, <2>2 DEF SocketOK
  <2>4. sock' = [sock EXCEPT ![s] = p]
    BY <1>1, <1>5, <2>1
  <2>5. client.ws = s => InSync(client, p, dialog, raced', room)
    BY <1>s, <2>2 DEF InSync
  <2> QED BY <1>1, <1>3, <2>2, <2>3, <2>4, <2>5, SocketStep
<1> QED BY <1>4, <1>5 DEF Breaks

-----------------------------------------------------------------------------
(* The theorems.                                                           *)

LEMMA InitIInv == Init => SessionIInv
<1> SUFFICES ASSUME Init PROVE SessionIInv
  OBVIOUS
<1> USE DEF Init
<1>1. SessionTypeOK
  BY FreeSocketOK DEF SessionTypeOK, Fresh, Tab, Idle, Dialog, Row, RoomOrNone, TokenOrNone
<1>2. TabOK(client) /\ client.ws = NoSocket
  BY DEF Fresh, TabOK
<1>3. OneSocket(client, sock) /\ \A s \in Sockets : SocketOK(sock[s])
  BY FreeSocketOK DEF OneSocket
<1> QED BY <1>1, <1>2, <1>3 DEF SessionIInv

LEMMA NextIInv == SessionIInv /\ [Next]_vars => SessionIInv'
<1> SUFFICES ASSUME SessionIInv, [Next]_vars PROVE SessionIInv'
  OBVIOUS
<1>1. ASSUME NEW r \in Rooms,
             VisitRoom(r) \/ TokenExpires(r) \/ OthersLock(r) \/ Rotate(r) \/ Delete(r)
      PROVE  SessionIInv'
  BY <1>1, VisitRoomIInv, TokenExpiresIInv, OthersLockIInv, RotateIInv, DeleteIInv
<1>2. ASSUME GoHome \/ LeaveForAuth \/ Authenticate \/ SendEdit
      PROVE  SessionIInv'
  BY <1>2, GoHomeIInv, LeaveForAuthIInv, AuthenticateIInv, SendEditIInv
<1>3. ASSUME RetryFires \/ BeatFires \/ PoloExpires \/ Wake
      PROVE  SessionIInv'
  BY <1>3, RetryFiresIInv, BeatFiresIInv, PoloExpiresIInv, WakeIInv
<1>4. ASSUME SubmitLock \/ AdminAnswer \/ PatchLock \/ LockAnswer \/ DialogFails
      PROVE  SessionIInv'
  BY <1>4, SubmitLockIInv, AdminAnswerIInv, PatchLockIInv, LockAnswerIInv, DialogFailsIInv
<1>5. ASSUME NEW s \in Sockets, Opened(s) \/ Receive(s) \/ Closed(s)
      PROVE  SessionIInv'
  BY <1>5, OpenedIInv, ReceiveIInv, ClosedIInv
<1>6. ASSUME NEW s \in Sockets,
             ServerAuth(s) \/ ReadRoom(s) \/ SendSync(s) \/ ServerReply(s)
               \/ HandshakeFails(s) \/ AuthTimeout(s) \/ Breaks(s)
      PROVE  SessionIInv'
  BY <1>6, ServerAuthIInv, ReadRoomIInv, SendSyncIInv, ServerReplyIInv, HandshakeFailsIInv,
     AuthTimeoutIInv, BreaksIInv
<1>7. ASSUME UNCHANGED vars PROVE SessionIInv'
  BY <1>7 DEF vars, SessionIInv, SessionTypeOK
<1> QED
  BY <1>1, <1>2, <1>3, <1>4, <1>5, <1>6, <1>7 DEF Next

\* Holds in every state, for any number of rooms and sockets and any bounds.
THEOREM AlwaysSessionIInv == Spec => []SessionIInv
BY InitIInv, NextIInv, PTL DEF Spec

LEMMA SessionIInvSupervised == SessionIInv => Supervised
<1> SUFFICES ASSUME SessionIInv PROVE Supervised
  OBVIOUS
<1>1. client \in Tab /\ TabOK(client) /\ OneSocket(client, sock)
  BY DEF SessionIInv, SessionTypeOK
<1>2. client.status \in {"disconnected", "connecting", "connected", "auth_failed"}
  BY <1>1 DEF Tab
<1> QED BY <1>1, <1>2 DEF Supervised, TabOK, OneSocket

LEMMA SessionIInvInSync == SessionIInv => SyncedIsInSync
<1> SUFFICES ASSUME SessionIInv PROVE SyncedIsInSync
  OBVIOUS
<1>1. ASSUME client.status = "connected" PROVE client.ws # NoSocket
  BY <1>1 DEF SessionIInv, TabOK
<1>2. ASSUME client.ws # NoSocket, client.synced PROVE sock[client.ws].server \in {"live", "gone"}
  BY <1>2 DEF SessionIInv, InSync
<1>3. ASSUME Quiet, ~raced PROVE client.locked = room[client.room].locked
  <2>1. /\ InSync(client, sock[client.ws], dialog, raced, room)
        /\ dialog.step = "idle" /\ sock[client.ws].server = "live" /\ sock[client.ws].down = <<>>
    BY <1>1, <1>3 DEF Quiet, Idle, SessionIInv
  <2>2. Tells(<<>>, client.locked, room[client.room].locked)
    BY <1>3, <2>1 DEF InSync
  <2> QED BY <2>2 DEF Tells
<1> QED BY <1>2, <1>3 DEF SyncedIsInSync

\* The store never leaves a room view without a retry, a socket or a running
\* heartbeat that will move it, and no socket is open behind its back.
THEOREM AlwaysSupervised == Spec => []Supervised
BY AlwaysSessionIInv, SessionIInvSupervised, PTL

\* A tab that is connected and synced was synced on the socket in use, and shows
\* the lock the database has, whatever broke, expired or was edited on the way.
THEOREM SyncedStaysInSync == Spec => []SyncedIsInSync
BY AlwaysSessionIInv, SessionIInvInSync, PTL
=============================================================================
