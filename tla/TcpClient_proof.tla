--------------------------- MODULE TcpClient_proof ---------------------------
(* TcpClient.tla for any number of connections and descriptors, any pipeline,  *)
(* any rate, with and without TLS, and whatever server and network do.         *)
EXTENDS TcpClient, Thread_proof

-----------------------------------------------------------------------------
(* Arithmetic the provers take as a single fact.                              *)

LEMMA ModRange == ASSUME NEW a \in Int, NEW b \in Nat, b > 0 PROVE a % b \in 0..(b - 1)
  OBVIOUS

-----------------------------------------------------------------------------
(* Worlds: the sockets, the event table, and which connection has which.       *)

Entry == FileEvents(Procs, Conns \cup {NoConn})
Socket == [st : {"closed", "syn", "open", "fin", "rst"},
           rx : Seq({"part", "head", "resp", "close", "bad"}),
           owed : Nat]
Worlds == [fd : [Conns -> Fds \cup {NoFd}], events : [Fds -> Entry],
           sockets : [Fds -> Socket], errors : Errors]

\* DescriptorMatches and SocketsWatched, of a world.
Watched(w, f) ==
  IF w.sockets[f].st = "closed" THEN w.events[f].mask = {} ELSE R \in w.events[f].mask

Sound(w) ==
  /\ w \in Worlds
  /\ \A f \in Fds : w.events[f].mask # {} =>
       /\ w.events[f].clientData \in Conns
       /\ w.fd[w.events[f].clientData] = f
  /\ \A f \in Fds : Watched(w, f)

LEMMA CreateType ==
  ASSUME NEW ev \in [Fds -> Entry], NEW f \in Fds, NEW m \in Masks,
         NEW p \in Procs, NEW c \in Conns
  PROVE  /\ aeCreateFileEvent(ev, f, m, p, c) \in [Fds -> Entry]
         /\ aeCreateFileEvent(ev, f, m, p, c)[f].mask = ev[f].mask \cup m
         /\ aeCreateFileEvent(ev, f, m, p, c)[f].clientData = c
         /\ \A g \in Fds \ {f} : aeCreateFileEvent(ev, f, m, p, c)[g] = ev[g]
  BY DEF aeCreateFileEvent, Entry, FileEvents, Masks

LEMMA DeleteType ==
  ASSUME NEW ev \in [Fds -> Entry], NEW f \in Fds, NEW m \in Masks
  PROVE  /\ aeDeleteFileEvent(ev, f, m) \in [Fds -> Entry]
         /\ aeDeleteFileEvent(ev, f, m)[f].mask = ev[f].mask \ m
         /\ aeDeleteFileEvent(ev, f, m)[f].clientData = ev[f].clientData
         /\ \A g \in Fds \ {f} : aeDeleteFileEvent(ev, f, m)[g] = ev[g]
  BY DEF aeDeleteFileEvent, Entry, FileEvents, Masks

\* A connection that has no event left gets a socket of its own, or none.
LEMMA ConnectSound ==
  ASSUME NEW w, Sound(w), NEW c \in Conns,
         \A f \in Fds : w.events[f].mask # {} => w.events[f].clientData # c,
         NEW v \in tcp_connect_socket(c, w)
  PROVE  Sound(v) /\ v.fd \in {w.fd} \cup {[w.fd EXCEPT ![c] = f] : f \in Fds}
<1>1. ASSUME v = Counted(w, "connect")
      PROVE  Sound(v) /\ v.fd = w.fd
  BY <1>1 DEF Counted, Sound, Watched, Worlds, Errors
<1>2. ASSUME NEW f \in FreeFds(w),
             v = [fd |-> [w.fd EXCEPT ![c] = f],
                  sockets |-> [w.sockets EXCEPT ![f] = Fresh],
                  events |-> aeCreateFileEvent(w.events, f, {R, W}, "socket_connected", c),
                  errors |-> w.errors]
      PROVE Sound(v) /\ v.fd \in {[w.fd EXCEPT ![c] = g] : g \in Fds}
  <2>1. /\ f \in Fds /\ w.sockets[f].st = "closed"
        /\ w.fd \in [Conns -> Fds \cup {NoFd}] /\ w.events \in [Fds -> Entry]
        /\ w.sockets \in [Fds -> Socket] /\ w.errors \in Errors
    BY <1>2 DEF FreeFds, Sound, Worlds
  <2>a. PICK ev : ev = aeCreateFileEvent(w.events, f, {R, W}, "socket_connected", c)
    OBVIOUS
  <2>2. /\ v.fd = [w.fd EXCEPT ![c] = f] /\ v.events = ev
        /\ v.sockets = [w.sockets EXCEPT ![f] = Fresh] /\ v.errors = w.errors
    BY <1>2, <2>a
  <2>3. /\ ev \in [Fds -> Entry]
        /\ ev[f].mask = w.events[f].mask \cup {R, W} /\ ev[f].clientData = c
        /\ \A g \in Fds \ {f} : ev[g] = w.events[g]
    <3>1. {R, W} \in Masks /\ "socket_connected" \in Procs
      BY DEF Masks, Procs
    <3>2. w.events \in [Fds -> Entry]
      BY <2>1
    <3>3. ev \in [Fds -> Entry]
      BY <2>a, <2>1, <3>1, <3>2, CreateType
    <3>4. ev[f].mask = w.events[f].mask \cup {R, W}
      BY <2>a, <2>1, <3>1, <3>2, CreateType
    <3>5. ev[f].clientData = c
      BY <2>a, <2>1, <3>1, <3>2, CreateType
    <3>6. \A g \in Fds \ {f} : ev[g] = w.events[g]
      BY <2>a, <2>1, <3>1, <3>2, CreateType
    <3> QED BY <3>3, <3>4, <3>5, <3>6
  <2>4. Fresh \in Socket /\ Fresh.st = "syn"
    BY DEF Fresh, Socket
  <2>5. v \in Worlds
    BY <1>2, <2>a, <2>1, <2>3, <2>4 DEF Worlds
  <2>6. \A g \in Fds : v.events[g].mask # {} =>
          v.events[g].clientData \in Conns /\ v.fd[v.events[g].clientData] = g
    BY <2>1, <2>2, <2>3 DEF Sound
  <2>7. \A g \in Fds : Watched(v, g)
    <3> SUFFICES ASSUME NEW g \in Fds
                 PROVE  Watched(v, g)
      OBVIOUS
    <3>1. CASE g = f
      BY <2>1, <2>2, <2>3, <2>4, <3>1 DEF Watched
    <3>2. CASE g # f
      BY <2>1, <2>2, <2>3, <3>2 DEF Sound, Watched
    <3> QED BY <3>1, <3>2
  <2>8. Sound(v)
    BY <2>5, <2>6, <2>7 DEF Sound
  <2> QED BY <2>1, <2>2, <2>8
<1>3. \/ v = Counted(w, "connect")
      \/ \E f \in FreeFds(w) :
           v = [fd |-> [w.fd EXCEPT ![c] = f],
                sockets |-> [w.sockets EXCEPT ![f] = Fresh],
                events |-> aeCreateFileEvent(w.events, f, {R, W}, "socket_connected", c),
                errors |-> w.errors]
  BY DEF tcp_connect_socket
<1> QED BY <1>1, <1>2, <1>3

\* Closing leaves the connection without an event.
LEMMA CloseSound ==
  ASSUME NEW w, Sound(w), NEW c \in Conns, w.fd[c] \in Fds
  PROVE  /\ Sound(CloseSocket(c, w))
         /\ CloseSocket(c, w).fd = w.fd
         /\ \A f \in Fds : CloseSocket(c, w).events[f].mask # {} =>
              CloseSocket(c, w).events[f].clientData # c
<1> DEFINE v == CloseSocket(c, w)
<1>1. /\ w.fd \in [Conns -> Fds \cup {NoFd}] /\ w.events \in [Fds -> Entry]
      /\ w.sockets \in [Fds -> Socket] /\ w.errors \in Errors
  BY DEF Sound, Worlds
<1>2. PICK f \in Fds : f = w.fd[c]
  OBVIOUS
<1>3. PICK ev : ev = aeDeleteFileEvent(w.events, f, {R, W})
  OBVIOUS
<1>4. /\ ev \in [Fds -> Entry] /\ ev[f].mask = {}
      /\ \A g \in Fds \ {f} : ev[g] = w.events[g]
  <2>1. {R, W} \in Masks /\ w.events[f].mask \in Masks
    BY <1>1 DEF Masks, Entry, FileEvents
  <2> QED BY <1>1, <1>3, <2>1, DeleteType DEF Masks
<1>5. Closed \in Socket /\ Closed.st = "closed"
  BY DEF Closed, Socket
<1>6. v \in Worlds
  BY <1>1, <1>2, <1>3, <1>4, <1>5 DEF Worlds, CloseSocket
<1>7. /\ v.fd = w.fd /\ v.events = ev
      /\ v.sockets = [w.sockets EXCEPT ![f] = Closed]
  BY <1>2, <1>3 DEF CloseSocket
<1> HIDE DEF v
<1>8. \A g \in Fds : v.events[g].mask # {} => g # f /\ v.events[g] = w.events[g]
  BY <1>4, <1>7
<1>9. \A g \in Fds : Watched(v, g)
  <2> SUFFICES ASSUME NEW g \in Fds
               PROVE  Watched(v, g)
    OBVIOUS
  <2>1. CASE g = f
    BY <1>1, <1>4, <1>5, <1>7, <2>1 DEF Watched
  <2>2. CASE g # f
    BY <1>1, <1>4, <1>7, <2>2 DEF Sound, Watched
  <2> QED BY <2>1, <2>2
<1>10. \A g \in Fds : v.events[g].mask # {} =>
         /\ v.events[g].clientData \in Conns
         /\ v.fd[v.events[g].clientData] = g
         /\ v.events[g].clientData # c
  BY <1>2, <1>7, <1>8 DEF Sound
<1>11. Sound(v)
  BY <1>6, <1>9, <1>10 DEF Sound
<1> QED BY <1>7, <1>10, <1>11 DEF v

LEMMA ReconnectSound ==
  ASSUME NEW w, Sound(w), NEW c \in Conns, w.fd[c] \in Fds,
         NEW v \in tcp_reconnect_socket(c, w)
  PROVE  Sound(v) /\ v.fd \in {[w.fd EXCEPT ![c] = f] : f \in Fds}
<1> DEFINE u == CloseSocket(c, w)
<1>1. /\ Sound(u) /\ u.fd = w.fd
      /\ \A f \in Fds : u.events[f].mask # {} => u.events[f].clientData # c
  BY CloseSound
<1>2. v \in tcp_connect_socket(c, u)
  BY DEF tcp_reconnect_socket
<1> HIDE DEF u
<1>3. Sound(v) /\ v.fd \in {u.fd} \cup {[u.fd EXCEPT ![c] = f] : f \in Fds}
  BY <1>1, <1>2, ConnectSound
<1>4. w.fd \in [Conns -> Fds \cup {NoFd}]
  BY DEF Sound, Worlds
<1>5. w.fd = [w.fd EXCEPT ![c] = w.fd[c]]
  BY <1>4
<1> QED BY <1>1, <1>3, <1>5

LEMMA CountSound ==
  ASSUME NEW w, Sound(w), NEW e \in {"connect", "read", "write", "timeout"}
  PROVE  /\ Sound(Counted(w, e))
         /\ Counted(w, e).fd = w.fd /\ Counted(w, e).events = w.events
  BY DEF Counted, Sound, Watched, Worlds, Errors

\* A socket changes, but is neither opened nor closed.
LEMMA SocketSound ==
  ASSUME NEW w, Sound(w), NEW f \in Fds, NEW s \in Socket,
         s.st # "closed" <=> w.sockets[f].st # "closed"
  PROVE  Sound([fd |-> w.fd, events |-> w.events,
                sockets |-> [w.sockets EXCEPT ![f] = s], errors |-> w.errors])
  BY DEF Sound, Watched, Worlds

\* An open socket is listened to by the connection that owns it.
LEMMA ListenSound ==
  ASSUME NEW w, Sound(w), NEW f \in Fds, w.sockets[f].st # "closed",
         NEW m \in Masks, NEW p \in Procs, NEW c \in Conns, w.fd[c] = f
  PROVE  Sound([fd |-> w.fd, events |-> aeCreateFileEvent(w.events, f, m, p, c),
                sockets |-> w.sockets, errors |-> w.errors])
<1>1. w.events \in [Fds -> Entry] /\ R \in w.events[f].mask
  BY DEF Sound, Watched, Worlds
<1>2. PICK ev : ev = aeCreateFileEvent(w.events, f, m, p, c)
  OBVIOUS
<1>3. ev \in [Fds -> Entry]
  BY <1>1, <1>2, CreateType
<1>4. ev[f].mask = w.events[f].mask \cup m
  BY <1>1, <1>2, CreateType
<1>5. ev[f].clientData = c
  BY <1>1, <1>2, CreateType
<1>6. \A g \in Fds \ {f} : ev[g] = w.events[g]
  BY <1>1, <1>2, CreateType
<1>7. ASSUME NEW g \in Fds
      PROVE  /\ ev[g].mask # {} => ev[g].clientData \in Conns /\ w.fd[ev[g].clientData] = g
             /\ IF w.sockets[g].st = "closed" THEN ev[g].mask = {} ELSE R \in ev[g].mask
  <2>1. CASE g = f
    BY <1>1, <1>4, <1>5, <2>1
  <2>2. CASE g # f
    BY <1>6, <2>2 DEF Sound, Watched
  <2> QED BY <2>1, <2>2
<1> QED BY <1>2, <1>3, <1>7 DEF Sound, Watched, Worlds

\* Writing stops; the socket is still listened to.
LEMMA StopSound ==
  ASSUME NEW w, Sound(w), NEW f \in Fds
  PROVE  Sound([fd |-> w.fd, events |-> aeDeleteFileEvent(w.events, f, {W}),
                sockets |-> w.sockets, errors |-> w.errors])
<1>1. w.events \in [Fds -> Entry] /\ {W} \in Masks
  BY DEF Sound, Worlds, Masks
<1>2. PICK ev : ev = aeDeleteFileEvent(w.events, f, {W})
  OBVIOUS
<1>3. ev \in [Fds -> Entry]
  BY <1>1, <1>2, DeleteType
<1>4. ev[f].mask = w.events[f].mask \ {W}
  BY <1>1, <1>2, DeleteType
<1>5. ev[f].clientData = w.events[f].clientData
  BY <1>1, <1>2, DeleteType
<1>6. \A g \in Fds \ {f} : ev[g] = w.events[g]
  BY <1>1, <1>2, DeleteType
<1>7. ASSUME NEW g \in Fds
      PROVE  /\ ev[g].mask # {} => ev[g].clientData \in Conns /\ w.fd[ev[g].clientData] = g
             /\ IF w.sockets[g].st = "closed" THEN ev[g].mask = {} ELSE R \in ev[g].mask
  <2>1. CASE g = f
    BY <1>4, <1>5, <2>1 DEF Sound, Watched, R, W
  <2>2. CASE g # f
    BY <1>6, <2>2 DEF Sound, Watched
  <2> QED BY <2>1, <2>2
<1> QED BY <1>2, <1>3, <1>7 DEF Sound, Watched, Worlds

LEMMA AwaitSound ==
  ASSUME NEW w, Sound(w), w.fd = fd, NEW c \in Conns
  PROVE  Sound(AwaitWritable(c, w)) /\ AwaitWritable(c, w).fd = w.fd
<1>1. CASE ~(fd[c] \in Fds /\ w.sockets[fd[c]].st # "closed")
  BY <1>1 DEF AwaitWritable
<1>2. CASE fd[c] \in Fds /\ w.sockets[fd[c]].st # "closed"
  <2>1. AwaitWritable(c, w) =
          [fd |-> w.fd,
           events |-> aeCreateFileEvent(w.events, fd[c], {W}, "socket_writeable", c),
           sockets |-> w.sockets, errors |-> w.errors]
    BY <1>2 DEF AwaitWritable, Sound, Worlds
  <2>2. {W} \in Masks /\ "socket_writeable" \in Procs
    BY DEF Masks, Procs
  <2> QED BY <1>2, <2>1, <2>2, ListenSound
<1> QED BY <1>1, <1>2

-----------------------------------------------------------------------------
(* The state of the thread.                                                    *)

LEMMA WorldIs ==
  World.fd = fd /\ World.events = events /\ World.sockets = sockets /\ World.errors = errors
  BY DEF World

\* A handler runs for a connection that owns the descriptor.
LEMMA ClientOwns ==
  ASSUME Sound(World), NEW f \in Fds, events[f].mask # {}
  PROVE  Client(f) \in Conns /\ fd[Client(f)] = f
  BY DEF Sound, World, Client

LEMMA BecomesSound ==
  ASSUME NEW v, Sound(v), Becomes(v)
  PROVE  Sound(World)' /\ fd' = v.fd
<1>1. v \in Worlds
  BY DEF Sound
<1>2. v = [fd |-> v.fd, events |-> v.events, sockets |-> v.sockets, errors |-> v.errors]
  BY <1>1 DEF Worlds
<1>3. World' = v
  BY <1>2 DEF Becomes, World
<1> QED BY <1>3 DEF Becomes

LEMMA TakenSound ==
  ASSUME Sound(World), NEW f \in Fds, sockets[f].rx # <<>>
  PROVE  Sound(Taken(f)) /\ Taken(f).fd = fd
<1>1. sockets \in [Fds -> Socket]
  BY DEF Sound, World, Worlds
<1>2. PICK s : s = [sockets[f] EXCEPT !.rx = Tail(@)]
  OBVIOUS
<1>3. sockets[f].rx \in Seq({"part", "head", "resp", "close", "bad"})
  BY <1>1 DEF Socket
<1>4. Tail(sockets[f].rx) \in Seq({"part", "head", "resp", "close", "bad"})
  BY <1>3
<1>5. s \in Socket /\ s.st = sockets[f].st
  BY <1>1, <1>2, <1>4 DEF Socket
<1>6. Taken(f) = [fd |-> fd, events |-> events,
                  sockets |-> [sockets EXCEPT ![f] = s], errors |-> errors]
  <2>1. Taken(f) = [fd |-> fd, events |-> events,
                    sockets |-> [sockets EXCEPT ![f].rx = Tail(sockets[f].rx)],
                    errors |-> errors]
    <3>1. PICK v : v = World
      OBVIOUS
    <3>2. v = [fd |-> fd, events |-> events, sockets |-> sockets, errors |-> errors]
      BY <3>1 DEF World
    <3>3. Taken(f) = [v EXCEPT !.sockets = [v.sockets EXCEPT ![f].rx = Tail(@)]]
      BY <3>1, <3>2 DEF Taken
    <3> QED BY <3>2, <3>3
  <2>2. [sockets EXCEPT ![f].rx = Tail(sockets[f].rx)] = [sockets EXCEPT ![f] = s]
    BY <1>1, <1>2
  <2> QED BY <2>1, <2>2
<1> QED BY <1>5, <1>6, WorldIs, SocketSound

LEMMA AnsweredSound ==
  ASSUME NEW w, Sound(w), w.fd = fd, NEW c \in Conns
  PROVE  Sound(Answered(c, w)) /\ Answered(c, w).fd = fd
  BY AwaitSound DEF Answered

\* A connection that is still to open has no socket and no request yet.
Unopened ==
  \A c \in Conns : connect_timer[c] # NoTimer =>
    fd[c] = NoFd /\ complete[c] = 0 /\ ~has_pending[c]

LEMMA UnopenedKept ==
  ASSUME Unopened, fd \in [Conns -> Fds \cup {NoFd}], NEW c \in Conns, fd[c] \in Fds,
         UNCHANGED connect_timer,
         fd' \in {fd} \cup {[fd EXCEPT ![c] = g] : g \in Fds},
         \A d \in Conns \ {c} : complete'[d] = complete[d] /\ has_pending'[d] = has_pending[d]
  PROVE  Unopened'
<1>1. connect_timer[c] = NoTimer
  BY ConstantsAssumption DEF Unopened, NoFd
<1>2. \A d \in Conns \ {c} : fd'[d] = fd[d]
  OBVIOUS
<1> QED BY <1>1, <1>2 DEF Unopened

\* What a handler of descriptor f touches is its own connection.
Touches(f) ==
  \A d \in Conns \ {Client(f)} :
    complete'[d] = complete[d] /\ has_pending'[d] = has_pending[d]

LEMMA HandlerKeeps ==
  ASSUME Sound(World), Unopened, NEW f \in Fds, events[f].mask # {},
         UNCHANGED connect_timer, Touches(f),
         NEW v, Sound(v), Becomes(v),
         v.fd \in {fd} \cup {[fd EXCEPT ![Client(f)] = g] : g \in Fds}
  PROVE  Sound(World)' /\ Unopened'
<1>1. Client(f) \in Conns /\ fd[Client(f)] = f
  BY ClientOwns
<1>2. Sound(World)' /\ fd' = v.fd
  BY BecomesSound
<1>3. fd \in [Conns -> Fds \cup {NoFd}]
  BY DEF Sound, World, Worlds
<1>4. Unopened'
  BY <1>1, <1>2, <1>3, UnopenedKept DEF Touches
<1> QED BY <1>2, <1>4

LEMMA Fired ==
  ASSUME NEW f \in Fds, NEW proc, Fires(f, proc) \/ Reads(f) PROVE events[f].mask # {}
  BY DEF Fires, Reads

LEMMA StartsTouches ==
  ASSUME NEW f \in Fds, has_pending \in [Conns -> BOOLEAN], Client(f) \in Conns,
         Starts(Client(f)), UNCHANGED statVars
  PROVE  Touches(f)
  BY DEF Starts, Touches, batchVars, markVars, statVars

LEMMA ResponseTouches ==
  ASSUME NEW f \in Fds, has_pending \in [Conns -> BOOLEAN],
         complete \in [Conns -> Nat], Client(f) \in Conns,
         response_complete(Client(f))
  PROVE  Touches(f)
  BY DEF response_complete, stats_request_completed, Touches, statVars

\* The operations that leave sockets, descriptors and events alone.
LEMMA QuietKeeps ==
  ASSUME Sound(World), Unopened,
         UNCHANGED <<fd, events, sockets, connect_timer, complete, has_pending>>,
         errors' \in Errors
  PROVE  Sound(World)' /\ Unopened'
  BY DEF Sound, Watched, World, Worlds, Unopened

-----------------------------------------------------------------------------
(* Each operation keeps the sockets sound. What the proof needs of the other   *)
(* variables is only their types.                                              *)

Typed ==
  /\ connect_timer \in [Conns -> Nat \cup {NoTimer}]
  /\ complete \in [Conns -> Nat] /\ has_pending \in [Conns -> BOOLEAN]
  /\ written \in [Conns -> 0..(Length - 1)]

Kept == Sound(World) /\ Unopened

LEMMA DelayKeeps ==
  ASSUME Kept, NEW c \in Conns, NEW i, delay_request(c, i) PROVE Kept'
<1>1. CASE UNCHANGED ioVars
  BY <1>1 DEF Kept, delay_request, Sound, World, Unopened, ioVars, statVars,
         batchVars, markVars
<1>2. CASE Becomes(AwaitWritable(c, World))
  <2>1. Sound(World)' /\ fd' = fd
    BY <1>2, AwaitSound, BecomesSound, WorldIs DEF Kept
  <2>2. Unopened'
    BY <2>1 DEF Kept, Unopened, delay_request, statVars, batchVars, markVars
  <2> QED BY <2>1, <2>2 DEF Kept
<1> QED BY <1>1, <1>2 DEF delay_request

LEMMA OpenKeeps ==
  ASSUME Typed, Kept, NEW c \in Conns, delayed_initial_connect(c)
  PROVE  Kept'
<1>1. fd[c] = NoFd /\ fd \in [Conns -> Fds \cup {NoFd}]
  BY DEF Kept, Unopened, delayed_initial_connect, Opens, Sound, World, Worlds
<1>2. \A f \in Fds : World.events[f].mask # {} => World.events[f].clientData # c
  BY <1>1, ConstantsAssumption DEF Kept, Sound, World, NoFd
<1>3. PICK v \in tcp_connect_socket(c, World) : Becomes(v)
  BY DEF delayed_initial_connect
<1>4. Sound(v) /\ v.fd \in {fd} \cup {[fd EXCEPT ![c] = f] : f \in Fds}
  BY <1>2, <1>3, ConnectSound, WorldIs DEF Kept
<1>5. Sound(World)' /\ fd' = v.fd
  BY <1>3, <1>4, BecomesSound
<1>6. \A d \in Conns \ {c} : fd'[d] = fd[d]
  BY <1>1, <1>4, <1>5
<1>7. connect_timer'[c] = NoTimer
      /\ \A d \in Conns \ {c} : connect_timer'[d] = connect_timer[d]
  BY DEF Typed, delayed_initial_connect, Opens
<1>8. Unopened'
  BY <1>6, <1>7 DEF Kept, Unopened, delayed_initial_connect, Opens, statVars,
         batchVars, markVars
<1> QED BY <1>5, <1>8 DEF Kept

LEMMA ConnectedKeeps ==
  ASSUME Kept, NEW f \in Fds, socket_connected(f) PROVE Kept'
<1>1. events[f].mask # {}
  BY DEF socket_connected, Fires
<1>2. Client(f) \in Conns /\ fd[Client(f)] = f
  BY <1>1, ClientOwns DEF Kept
<1>3. UNCHANGED connect_timer /\ Touches(f)
  BY DEF socket_connected, Touches, statVars, batchVars, markVars, timerVars
<1>4. ASSUME events' = aeCreateFileEvent(
                 aeCreateFileEvent(events, f, {R}, "socket_readable", Client(f)),
                 f, {W}, "socket_writeable", Client(f)),
             UNCHANGED <<fd, sockets, errors>>
      PROVE Kept'
  <2>1. sockets[f].st # "closed"
    BY <1>1 DEF Kept, Sound, Watched, World, socket_connected, Fires, Writable, R, W, Readable
  <2>2. PICK u : u = [fd |-> fd,
          events |-> aeCreateFileEvent(events, f, {R}, "socket_readable", Client(f)),
          sockets |-> sockets, errors |-> errors]
    OBVIOUS
  <2>3. PICK v : v = [fd |-> u.fd,
          events |-> aeCreateFileEvent(u.events, f, {W}, "socket_writeable", Client(f)),
          sockets |-> u.sockets, errors |-> u.errors]
    OBVIOUS
  <2>4. {R} \in Masks /\ {W} \in Masks
        /\ "socket_readable" \in Procs /\ "socket_writeable" \in Procs
    BY DEF Masks, Procs
  <2>5. Sound(u)
    BY <1>2, <2>1, <2>2, <2>4, ListenSound, WorldIs DEF Kept
  <2>6. Sound(v)
    BY <1>2, <2>1, <2>2, <2>3, <2>4, <2>5, ListenSound
  <2>7. Becomes(v) /\ v.fd = fd
    BY <1>4, <2>2, <2>3 DEF Becomes
  <2> QED BY <1>1, <1>3, <2>6, <2>7, HandlerKeeps DEF Kept
<1>5. ASSUME NEW v \in tcp_reconnect_socket(Client(f), Counted(World, "connect")),
             Becomes(v)
      PROVE Kept'
  <2>1. Sound(Counted(World, "connect")) /\ Counted(World, "connect").fd = fd
    BY CountSound, WorldIs DEF Kept
  <2>2. Sound(v) /\ v.fd \in {[fd EXCEPT ![Client(f)] = g] : g \in Fds} \cup {fd}
    BY <1>2, <1>5, <2>1, ReconnectSound
  <2> QED BY <1>1, <1>3, <1>5, <2>2, HandlerKeeps DEF Kept
<1> QED BY <1>4, <1>5 DEF socket_connected

LEMMA WriteDelayedKeeps ==
  ASSUME Kept, NEW f \in Fds, WriteDelayed(f) PROVE Kept'
<1>1. events[f].mask # {}
  BY DEF WriteDelayed, Fires
<1>2. Client(f) \in Conns /\ fd[Client(f)] = f
  BY <1>1, ClientOwns DEF Kept
<1>3. UNCHANGED connect_timer /\ Touches(f)
  BY DEF WriteDelayed, Touches, statVars, batchVars, markVars
<1>4. PICK v : v = [fd |-> fd, events |-> aeDeleteFileEvent(events, f, {W}),
                    sockets |-> sockets, errors |-> errors]
  OBVIOUS
<1>5. Sound(v)
  BY <1>4, StopSound, WorldIs DEF Kept
<1>6. Becomes(v) /\ v.fd = fd
  BY <1>2, <1>4 DEF WriteDelayed, Becomes, StopWriting
<1> QED BY <1>1, <1>3, <1>5, <1>6, HandlerKeeps DEF Kept

LEMMA SentNat == ASSUME NEW a \in Nat PROVE Sent(a) \in Nat
<1>1. Pipeline \in Nat /\ Length \in Nat \ {0}
  BY ConstantsAssumption
<1>2. a * Pipeline \in Nat
  BY <1>1, ProductNat
<1> QED BY <1>1, <1>2, DivNat DEF Sent

\* The server is owed the requests that are whole now and were not before.
LEMMA SentGrows ==
  ASSUME NEW a \in Nat, NEW b \in Nat, a <= b
  PROVE  Sent(b) - Sent(a) \in Nat
<1>1. Pipeline \in Nat /\ Length \in Nat \ {0}
  BY ConstantsAssumption
<1>2. a * Pipeline <= b * Pipeline /\ a * Pipeline \in Nat /\ b * Pipeline \in Nat
  BY <1>1
<1>3. ASSUME NEW x \in Nat, NEW y \in Nat, x <= y PROVE (y \div Length) - (x \div Length) \in Nat
  BY <1>1, <1>3
<1> QED BY <1>2, <1>3 DEF Sent

LEMMA WriteKeeps ==
  ASSUME Typed, Kept, NEW f \in Fds, NEW n \in 0..Length, WriteRequest(f, n)
  PROVE  Kept'
<1> DEFINE c == Client(f)
           total == written[c] + n
<1>1. events[f].mask # {}
  BY DEF WriteRequest, Fires
<1>2. c \in Conns /\ fd[c] = f
  BY <1>1, ClientOwns DEF Kept
<1>3. UNCHANGED connect_timer /\ Touches(f)
  BY <1>2, StartsTouches DEF Typed, WriteRequest, timerVars
<1>4. sockets \in [Fds -> Socket] /\ fd \in [Conns -> Fds \cup {NoFd}]
  BY DEF Kept, Sound, World, Worlds
<1>5. PICK s : s = [sockets[f] EXCEPT !.owed =
            IF sockets[f].st = "open" THEN @ + Sent(total) - Sent(written[c]) ELSE @]
  OBVIOUS
<1>6. s \in Socket /\ s.st = sockets[f].st
  <2>1. written[c] \in Nat /\ total \in Nat /\ written[c] <= total
    BY <1>2, ConstantsAssumption DEF Typed
  <2>2. Sent(total) - Sent(written[c]) \in Nat
    BY <2>1, SentGrows
  <2>3. Sent(total) \in Int /\ Sent(written[c]) \in Int
    BY <2>1, SentNat
  <2>4. sockets[f].owed + Sent(total) - Sent(written[c]) \in Nat
    BY <1>4, <2>2, <2>3 DEF Socket
  <2> QED BY <1>4, <1>5, <2>4 DEF Socket
<1>7. sockets' = [sockets EXCEPT ![f] = s]
  BY <1>4, <1>5 DEF WriteRequest
<1>8. PICK u : u = [fd |-> fd, events |-> events,
                    sockets |-> [sockets EXCEPT ![f] = s], errors |-> errors]
  OBVIOUS
<1>9. Sound(u)
  BY <1>6, <1>8, SocketSound, WorldIs DEF Kept
<1>10. CASE UNCHANGED events
  <2>1. Becomes(u) /\ u.fd = fd
    BY <1>7, <1>8, <1>10 DEF WriteRequest, Becomes
  <2> QED BY <1>1, <1>3, <1>9, <2>1, HandlerKeeps DEF Kept
<1>11. CASE events' = StopWriting(c)
  <2>1. PICK v : v = [fd |-> u.fd, events |-> aeDeleteFileEvent(u.events, f, {W}),
                      sockets |-> u.sockets, errors |-> u.errors]
    OBVIOUS
  <2>2. Sound(v)
    BY <1>9, <2>1, StopSound
  <2>3. Becomes(v) /\ v.fd = fd
    BY <1>2, <1>7, <1>8, <1>11, <2>1 DEF WriteRequest, Becomes, StopWriting
  <2> QED BY <1>1, <1>3, <2>2, <2>3, HandlerKeeps DEF Kept
<1> QED BY <1>10, <1>11 DEF WriteRequest

LEMMA WriteErrorKeeps ==
  ASSUME Typed, Kept, NEW f \in Fds, WriteError(f) PROVE Kept'
<1>1. events[f].mask # {}
  BY DEF WriteError, Fires
<1>2. Client(f) \in Conns /\ fd[Client(f)] = f
  BY <1>1, ClientOwns DEF Kept
<1>3. UNCHANGED connect_timer /\ Touches(f)
  BY <1>2, StartsTouches DEF Typed, WriteError, timerVars
<1>4. PICK v \in tcp_reconnect_socket(Client(f), Counted(World, "write")) : Becomes(v)
  BY DEF WriteError
<1>5. Sound(Counted(World, "write")) /\ Counted(World, "write").fd = fd
  BY CountSound, WorldIs DEF Kept
<1>6. Sound(v) /\ v.fd \in {[fd EXCEPT ![Client(f)] = g] : g \in Fds} \cup {fd}
  BY <1>2, <1>4, <1>5, ReconnectSound
<1> QED BY <1>1, <1>3, <1>4, <1>6, HandlerKeeps DEF Kept

\* Reading takes the first thing, asks for the next batch if a response ended
\* this one, and may reconnect once or twice.
LEMMA ReadKeeps ==
  ASSUME Typed, Kept, NEW f \in Fds, ReadStep(f) PROVE Kept'
<1> DEFINE c == Client(f)
<1>1. events[f].mask # {}
  BY DEF ReadStep, ReadSome, ReadResponse, ReadClose, ReadLastByte, ReadError, Reads
<1>2. c \in Conns /\ fd[c] = f
  BY <1>1, ClientOwns DEF Kept
<1>3. UNCHANGED connect_timer
  BY DEF ReadStep, ReadSome, ReadResponse, ReadClose, ReadLastByte, ReadError,
         ReadFrame, timerVars
<1>4. Touches(f)
  <2>1. CASE NoResponse
    BY <2>1 DEF NoResponse, Touches, statVars, batchVars, markVars
  <2>2. CASE response_complete(c)
    BY <1>2, <2>2, ResponseTouches DEF Typed
  <2> QED BY <2>1, <2>2
          DEF ReadStep, ReadSome, ReadResponse, ReadClose, ReadLastByte, ReadError
<1>5. ASSUME NEW w, Sound(w), w.fd = fd, Becomes(w) PROVE Kept'
  BY <1>1, <1>3, <1>4, <1>5, HandlerKeeps DEF Kept
<1>6. ASSUME NEW w, Sound(w), w.fd = fd,
             NEW v \in tcp_reconnect_socket(c, w), Becomes(v)
      PROVE  Kept'
  <2>1. Sound(v) /\ v.fd \in {[fd EXCEPT ![c] = g] : g \in Fds} \cup {fd}
    BY <1>2, <1>6, ReconnectSound
  <2> QED BY <1>1, <1>3, <1>4, <1>6, <2>1, HandlerKeeps DEF Kept
<1>7. ASSUME sockets[f].rx # <<>>
      PROVE  /\ Sound(Taken(f)) /\ Taken(f).fd = fd
             /\ Sound(Answered(c, Taken(f))) /\ Answered(c, Taken(f)).fd = fd
  BY <1>2, <1>7, TakenSound, AnsweredSound DEF Kept
<1>8. Sound(Answered(c, World)) /\ Answered(c, World).fd = fd
  BY <1>2, AnsweredSound, WorldIs DEF Kept
<1>9. CASE ReadSome(f)
  BY <1>5, <1>7, <1>9 DEF ReadSome, Holds
<1>10. CASE ReadResponse(f)
  BY <1>5, <1>7, <1>10 DEF ReadResponse, Holds
<1>11. CASE ReadClose(f)
  <2>1. PICK w : w = Answered(c, Taken(f))
    OBVIOUS
  <2>2. Sound(w) /\ w.fd = fd
    BY <1>7, <1>11, <2>1 DEF ReadClose, Holds
  <2>3. CASE \E v \in tcp_reconnect_socket(c, w) : Becomes(v)
    BY <1>6, <2>2, <2>3
  <2>4. ASSUME NEW v \in tcp_reconnect_socket(c, w),
               NEW u \in tcp_reconnect_socket(c, Counted(v, "read")), Becomes(u)
        PROVE  Kept'
    <3>1. Sound(v) /\ v.fd \in {[fd EXCEPT ![c] = g] : g \in Fds} \cup {fd}
      BY <1>2, <2>2, ReconnectSound
    <3>2. fd \in [Conns -> Fds \cup {NoFd}]
      BY DEF Kept, Sound, World, Worlds
    <3>3. Sound(Counted(v, "read")) /\ Counted(v, "read").fd = v.fd /\ v.fd[c] \in Fds
      BY <1>2, <3>1, <3>2, CountSound
    <3>4. Sound(u) /\ u.fd \in {[v.fd EXCEPT ![c] = g] : g \in Fds}
      BY <1>2, <3>3, ReconnectSound
    <3>5. u.fd \in {[fd EXCEPT ![c] = g] : g \in Fds} \cup {fd}
      BY <3>1, <3>2, <3>4
    <3> QED BY <1>1, <1>3, <1>4, <2>4, <3>4, <3>5, HandlerKeeps DEF Kept
  <2> QED BY <1>11, <2>1, <2>3, <2>4 DEF ReadClose
<1>12. CASE ReadLastByte(f)
  BY <1>6, <1>8, <1>12 DEF ReadLastByte
<1>13. CASE ReadError(f)
  <2>1. Sound(Counted(World, "read")) /\ Counted(World, "read").fd = fd
    BY CountSound, WorldIs DEF Kept
  <2>2. PICK v \in tcp_reconnect_socket(c, Counted(World, "read")) : Becomes(v)
    BY <1>13 DEF ReadError
  <2> QED BY <1>6, <2>1, <2>2
<1> QED BY <1>9, <1>10, <1>11, <1>12, <1>13 DEF ReadStep

LEMMA CheckKeeps ==
  ASSUME Kept, LoopTyped, check_timeouts PROVE Kept'
<1>1. errors \in Errors
  BY DEF Kept, Sound, World, Worlds
<1>2. errors' \in Errors
  BY <1>1, ChecksTimeoutsType DEF check_timeouts
<1>3. UNCHANGED <<fd, events, sockets, connect_timer, complete, has_pending>>
  BY DEF check_timeouts, connVars, statVars, batchVars
<1> QED BY <1>2, <1>3, QuietKeeps DEF Kept

\* Everything the server and the network do happens to one socket, which they
\* neither open nor close.
LEMMA ServerKeeps ==
  ASSUME Kept, NEW f \in Fds, Accept(f) \/ Reply(f) \/ Misbehave(f) PROVE Kept'
<1>1. sockets \in [Fds -> Socket] /\ errors \in Errors
  BY DEF Kept, Sound, World, Worlds
<1>2. UNCHANGED <<fd, events, errors, connect_timer, complete, has_pending>>
  BY DEF Accept, Reply, Misbehave, Fault, EnvFrame, timerVars, connVars, statVars,
         batchVars, markVars
<1>3. ASSUME NEW s \in Socket, sockets' = [sockets EXCEPT ![f] = s],
             s.st # "closed", sockets[f].st # "closed"
      PROVE  Kept'
  <2>1. PICK v : v = [fd |-> fd, events |-> events,
                      sockets |-> [sockets EXCEPT ![f] = s], errors |-> errors]
    OBVIOUS
  <2>2. Sound(v)
    BY <1>3, <2>1, SocketSound, WorldIs DEF Kept
  <2>3. Becomes(v) /\ v.fd = fd
    BY <1>2, <1>3, <2>1 DEF Becomes
  <2>4. Sound(World)'
    BY <2>2, <2>3, BecomesSound
  <2> QED BY <1>2, <2>4 DEF Kept, Unopened
<1>4. CASE Accept(f)
  <2>1. [sockets[f] EXCEPT !.st = "open"] \in Socket
    BY <1>1 DEF Socket
  <2>2. sockets' = [sockets EXCEPT ![f] = [sockets[f] EXCEPT !.st = "open"]]
    BY <1>1, <1>4 DEF Accept
  <2> QED BY <1>3, <1>4, <2>1, <2>2 DEF Accept, Socket
<1>5. CASE Reply(f)
  <2>1. PICK r \in Replies :
          sockets' = [sockets EXCEPT ![f] =
            [st   |-> r.st,
             rx   |-> @.rx \o r.rx,
             owed |-> IF r.st = "open" THEN @.owed - 1 ELSE 0]]
    BY <1>5 DEF Reply
  <2>2. /\ r.st \in {"open", "fin"}
        /\ r.rx \in Seq({"part", "head", "resp", "close", "bad"})
    <3>1. CASE r = [st |-> "open", rx |-> <<"resp">>]
      BY <3>1
    <3>2. CASE r = [st |-> "open", rx |-> <<"part", "resp">>]
      BY <3>2
    <3>3. CASE r = [st |-> "fin", rx |-> <<"close">>]
      BY <3>3
    <3>4. CASE r = [st |-> "fin", rx |-> <<"head", "part">>]
      BY <3>4
    <3> QED BY <2>1, <3>1, <3>2, <3>3, <3>4 DEF Replies
  <2>3. sockets[f].rx \in Seq({"part", "head", "resp", "close", "bad"})
        /\ sockets[f].owed \in Nat /\ sockets[f].owed > 0 /\ sockets[f].st = "open"
    BY <1>1, <1>5 DEF Socket, Reply
  <2>4. PICK s : s = [st   |-> r.st,
                      rx   |-> sockets[f].rx \o r.rx,
                      owed |-> IF r.st = "open" THEN sockets[f].owed - 1 ELSE 0]
    OBVIOUS
  <2>5. s.rx \in Seq({"part", "head", "resp", "close", "bad"}) /\ s.owed \in Nat
    BY <2>2, <2>3, <2>4
  <2>6. s \in Socket /\ s.st # "closed"
    BY <2>2, <2>4, <2>5 DEF Socket
  <2>7. sockets' = [sockets EXCEPT ![f] = s]
    BY <2>1, <2>4
  <2> QED BY <1>3, <2>3, <2>6, <2>7
<1>6. CASE Misbehave(f)
  <2>1. ASSUME NEW kind, NEW s \in Socket, Fault(f, kind, s),
               s.st # "closed", sockets[f].st # "closed"
        PROVE  Kept'
    BY <1>3, <2>1 DEF Fault
  <2>2. PICK t \in Socket : t = sockets[f]
    BY <1>1
  <2>3. /\ t.rx \in Seq({"part", "head", "resp", "close", "bad"})
        /\ t.owed \in Nat
    BY DEF Socket
  <2>4. \A x \in {"part", "bad", "close"} :
          Append(t.rx, x) \in Seq({"part", "head", "resp", "close", "bad"})
    BY <2>3
  <2>5. CASE t.st \in {"syn", "open"} /\ \E kind : Fault(f, kind, [t EXCEPT !.st = "rst"])
    <3>1. [t EXCEPT !.st = "rst"] \in Socket /\ [t EXCEPT !.st = "rst"].st = "rst"
      BY DEF Socket
    <3> QED BY <2>1, <2>2, <2>5, <3>1
  <2>6. CASE t.st = "open" /\ Fault(f, "cut",
               [st |-> "fin", rx |-> Append(t.rx, "part"), owed |-> 0])
    <3>1. [st |-> "fin", rx |-> Append(t.rx, "part"), owed |-> 0] \in Socket
      BY <2>4 DEF Socket
    <3> QED BY <2>1, <2>2, <2>6, <3>1
  <2>7. CASE /\ t.st = "open" /\ t.owed > 0
             /\ Fault(f, "bad", [st |-> "open", rx |-> Append(t.rx, "bad"),
                                 owed |-> t.owed - 1])
    <3>1. t.owed - 1 \in Nat
      BY <2>3, <2>7
    <3>2. [st |-> "open", rx |-> Append(t.rx, "bad"), owed |-> t.owed - 1] \in Socket
      BY <2>4, <3>1 DEF Socket
    <3> QED BY <2>1, <2>2, <2>7, <3>2
  <2>t. CASE /\ t.st = "open"
             /\ Fault(f, "trailing",
                      [st |-> "fin", rx |-> t.rx \o <<"close", "part">>, owed |-> 0])
    <3>1. t.rx \o <<"close", "part">> \in Seq({"part", "head", "resp", "close", "bad"})
      BY <2>3
    <3>2. [st |-> "fin", rx |-> t.rx \o <<"close", "part">>, owed |-> 0] \in Socket
      BY <3>1 DEF Socket
    <3> QED BY <2>1, <2>2, <2>t, <3>2
  <2>8. CASE t.st = "open" /\ Fault(f, "fin", [st |-> "fin", rx |-> t.rx, owed |-> 0])
    <3>1. [st |-> "fin", rx |-> t.rx, owed |-> 0] \in Socket
      BY <2>3 DEF Socket
    <3> QED BY <2>1, <2>2, <2>8, <3>1
  <2>9. CASE /\ t.st \in {"open", "fin"}
             /\ \E rx \in {t.rx, <<>>} :
                  Fault(f, "reset", [st |-> "rst", rx |-> rx, owed |-> 0])
    <3>1. PICK rx \in {t.rx, <<>>} :
            Fault(f, "reset", [st |-> "rst", rx |-> rx, owed |-> 0])
      BY <2>9
    <3>2. rx \in Seq({"part", "head", "resp", "close", "bad"})
      <4>1. <<>> \in Seq({"part", "head", "resp", "close", "bad"})
        OBVIOUS
      <4> QED BY <2>3, <4>1
    <3>3. [st |-> "rst", rx |-> rx, owed |-> 0] \in Socket
      BY <3>2 DEF Socket
    <3> QED BY <2>1, <2>2, <2>9, <3>1, <3>3
  <2>10. CASE /\ t.st = "open"
              /\ Fault(f, "unsolicited",
                       [st |-> "fin", rx |-> Append(t.rx, "close"), owed |-> 0])
    <3>1. [st |-> "fin", rx |-> Append(t.rx, "close"), owed |-> 0] \in Socket
      BY <2>4 DEF Socket
    <3> QED BY <2>1, <2>2, <2>10, <3>1
  <2> QED
    BY <1>6, <2>2, <2>5, <2>6, <2>7, <2>8, <2>9, <2>10, <2>t DEF Misbehave
<1> QED BY <1>4, <1>5, <1>6

LEMMA KeptNext ==
  ASSUME Typed, LoopTyped, Kept, [Next]_vars PROVE Kept'
<1>1. CASE check_timeouts
  BY <1>1, CheckKeeps
<1>2. ASSUME NEW c \in Conns, TimersOf(c) PROVE Kept'
  BY <1>2, DelayKeeps, OpenKeeps DEF TimersOf
<1>3. ASSUME NEW f \in Fds, socket_connected(f) \/ WriteStep(f) \/ ReadStep(f) PROVE Kept'
  BY <1>3, ConnectedKeeps, WriteDelayedKeeps, WriteKeeps, WriteErrorKeeps, ReadKeeps
     DEF WriteStep
<1>4. CASE ServerStep
  BY <1>4, ServerKeeps DEF ServerStep
<1>5. CASE LeaveLoop \/ handler \/ Tick \/ Terminated \/ UNCHANGED vars
  BY <1>5 DEF LeaveLoop, Leaves, handler, Interrupts, Tick, Ticks, Terminated, vars,
         timerVars, ioVars, connVars, statVars, batchVars, markVars, Kept, Sound,
         World, Worlds, Unopened
<1> QED BY <1>1, <1>2, <1>3, <1>4, <1>5 DEF Next

-----------------------------------------------------------------------------
(* Types. TypeOK in groups, one for each group of variables the actions name.  *)

BatchTyped == MarkTyped /\ SendTyped /\ pending \in [Conns -> 0..(Wrap - 1)]
ConnTyped ==
  /\ faults \in Nat
  /\ delay_timers \in [Conns -> Seq(Nat)]
  /\ written \in [Conns -> 0..(Length - 1)]
  /\ parser \in [Conns -> {"start", "mid", "until_eof", "dead"}]

LEMMA TypeParts ==
  TypeOK <=> /\ World \in Worlds /\ LoopTyped /\ OpenTyped /\ PaceTyped
             /\ BatchTyped /\ StatTyped /\ ConnTyped
  BY ThreadTypeParts DEF TypeOK, World, Worlds, Entry, Socket, Errors, BatchTyped,
       ConnTyped

LEMMA TypePartsNext ==
  ASSUME (World \in Worlds)', LoopTyped', OpenTyped', PaceTyped', BatchTyped',
         StatTyped', ConnTyped'
  PROVE  TypeOK'
  BY DEF ThreadTypeOK, MarkTyped, SendTyped, LoopTyped, OpenTyped, PaceTyped,
         StatTyped, TypeOK, World, Worlds, Entry, Socket, Errors, BatchTyped,
         ConnTyped

LEMMA StartsType ==
  ASSUME LoopTyped, OpenTyped, PaceTyped, BatchTyped, StatTyped, NEW c \in Conns,
         Starts(c)
  PROVE  PaceTyped' /\ BatchTyped'
<1>1. CASE UNCHANGED <<paceVars, batchVars>>
  BY <1>1 DEF PaceTyped, BatchTyped, MarkTyped, SendTyped, paceVars, batchVars,
         markVars
<1>2. CASE ~UNCHANGED <<paceVars, batchVars>>
  <2>1. /\ Paced(c, usec_to_next_send(c)) /\ start' = [start EXCEPT ![c] = now]
        /\ Mark(c) /\ Expect(c) /\ has_pending' = [has_pending EXCEPT ![c] = TRUE]
    BY <1>2 DEF Starts
  <2>2. now \in Nat /\ Pipeline \in 0..(Wrap - 1)
    BY ConstantsAssumption DEF LoopTyped
  <2>4. MarkTyped'
    BY <2>1, MarkType DEF BatchTyped
  <2>3. BatchTyped'
    BY <2>1, <2>2, <2>4 DEF BatchTyped, SendTyped, Expect
  <2> QED BY <2>1, <2>3, PacedType
<1> QED BY <1>1, <1>2

LEMMA ResponseType ==
  ASSUME LoopTyped, OpenTyped, BatchTyped, StatTyped, NEW c \in Conns,
         response_complete(c)
  PROVE  BatchTyped' /\ StatTyped' /\ stop_loop' \in BOOLEAN
<1>1. pending[c] - 1 \in Int /\ Wrap \in Nat /\ Wrap > 0
  BY ConstantsAssumption DEF BatchTyped
<1>2. Left(c) \in 0..(Wrap - 1)
  BY <1>1, ModRange DEF Left
<1>3. PICK more \in BOOLEAN :
        has_pending' = [has_pending EXCEPT ![c] = more] /\ stats_request_completed(c, more)
  BY DEF response_complete, BatchTyped, SendTyped
<1>4. BatchTyped'
  BY <1>2, <1>3 DEF response_complete, BatchTyped, MarkTyped, SendTyped, markVars
<1>5. StatTyped' /\ stop_loop' \in BOOLEAN
  BY <1>3, StatsType DEF BatchTyped
<1> QED BY <1>4, <1>5

Groups ==
  LoopTyped /\ OpenTyped /\ PaceTyped /\ BatchTyped /\ StatTyped /\ ConnTyped

LEMMA TimerType ==
  ASSUME Groups, NEW c \in Conns, TimersOf(c) PROVE Groups'
<1>1. CASE delayed_initial_connect(c)
  BY <1>1 DEF delayed_initial_connect, Opens, Groups, LoopTyped, OpenTyped,
         PaceTyped, BatchTyped, MarkTyped, SendTyped, StatTyped, ConnTyped,
         loopVars, paceVars, batchVars, markVars, statVars
<1>2. ASSUME NEW i, delay_request(c, i) PROVE Groups'
  <2>1. PaceTyped' /\ usec_to_next_send(c).wait \in Nat
    BY <1>2, PacedType, WaitType DEF delay_request, Groups
  <2>2. delay_timers' \in [Conns -> Seq(Nat)]
    <3>1. Delay(usec_to_next_send(c).wait) \in Nat
      BY <2>1, DelayType DEF Groups
    <3>2. /\ delay_timers \in [Conns -> Seq(Nat)] /\ delay_timers[c] \in Seq(Nat)
          /\ i \in DOMAIN delay_timers[c]
      BY <1>2 DEF delay_request, Groups, ConnTyped
    <3>3. CASE delay_timers' = [delay_timers EXCEPT ![c][i] = Delay(usec_to_next_send(c).wait)]
      <4>1. [delay_timers[c] EXCEPT ![i] = Delay(usec_to_next_send(c).wait)] \in Seq(Nat)
        BY <3>1, <3>2
      <4>2. delay_timers' = [delay_timers EXCEPT ![c] =
                [delay_timers[c] EXCEPT ![i] = Delay(usec_to_next_send(c).wait)]]
        BY <3>2, <3>3
      <4> QED BY <3>2, <4>1, <4>2
    <3>4. CASE delay_timers' = [delay_timers EXCEPT ![c] = RemoveAt(@, i)]
      BY <3>2, <3>4, RemoveAtType
    <3> QED BY <1>2, <3>3, <3>4 DEF delay_request
  <2>3. UNCHANGED <<now, loopVars, connect_timer, check_timer, thread_start,
                    batchVars, statVars, written, parser, faults>>
    BY <1>2 DEF delay_request
  <2> QED BY <2>1, <2>2, <2>3 DEF Groups, LoopTyped, OpenTyped, BatchTyped,
         MarkTyped, SendTyped, StatTyped, ConnTyped, loopVars, batchVars, markVars,
         statVars
<1> QED BY <1>1, <1>2 DEF TimersOf

LEMMA ConnectedType ==
  ASSUME Groups, NEW f \in Fds, Client(f) \in Conns, socket_connected(f) PROVE Groups'
<1>1. 0 \in 0..(Length - 1)
  BY ConstantsAssumption
<1>2. ConnTyped'
  BY <1>1 DEF socket_connected, Afresh, Groups, ConnTyped, timerVars
<1> QED BY <1>2 DEF socket_connected, Groups, LoopTyped, OpenTyped, PaceTyped,
       BatchTyped, MarkTyped, SendTyped, StatTyped, loopVars, timerVars, paceVars,
       batchVars, markVars, statVars

LEMMA WriteType ==
  ASSUME Groups, NEW f \in Fds, Client(f) \in Conns, WriteStep(f) PROVE Groups'
<1> DEFINE c == Client(f)
<1>1. CASE WriteDelayed(f)
  <2>1. PaceTyped' /\ usec_to_next_send(c).wait \in Nat
    BY <1>1, PacedType, WaitType DEF WriteDelayed, Groups
  <2>2. Delay(usec_to_next_send(c).wait) \in Nat
    BY <2>1, DelayType DEF Groups
  <2>3. delay_timers' \in [Conns -> Seq(Nat)]
    BY <1>1, <2>2 DEF WriteDelayed, Groups, ConnTyped
  <2>4. UNCHANGED <<now, loopVars, connect_timer, check_timer, thread_start,
                    batchVars, statVars, written, parser, faults>>
    BY <1>1 DEF WriteDelayed
  <2> QED BY <2>1, <2>3, <2>4 DEF Groups, LoopTyped, OpenTyped, BatchTyped,
         MarkTyped, SendTyped, StatTyped, ConnTyped, loopVars, batchVars, markVars,
         statVars
<1>2. CASE WriteError(f)
  <2>1. PaceTyped' /\ BatchTyped'
    BY <1>2, StartsType DEF WriteError, Groups
  <2> QED BY <1>2, <2>1 DEF WriteError, Groups, LoopTyped, OpenTyped, StatTyped,
              ConnTyped, loopVars, timerVars, statVars
<1>3. ASSUME NEW n \in 0..Length, WriteRequest(f, n) PROVE Groups'
  <2>1. PaceTyped' /\ BatchTyped'
    BY <1>3, StartsType DEF WriteRequest, Groups
  <2>2. /\ written[c] + n \in Nat /\ 0 \in 0..(Length - 1)
        /\ written[c] + n < Length => written[c] + n \in 0..(Length - 1)
    BY ConstantsAssumption DEF Groups, ConnTyped
  <2>3. written' \in [Conns -> 0..(Length - 1)]
    BY <1>3, <2>2 DEF WriteRequest, Groups, ConnTyped
  <2> QED BY <1>3, <2>1, <2>3 DEF WriteRequest, Groups, LoopTyped, OpenTyped,
              StatTyped, ConnTyped, loopVars, timerVars, statVars
<1> QED BY <1>1, <1>2, <1>3 DEF WriteStep

LEMMA ReadType ==
  ASSUME Groups, NEW f \in Fds, Client(f) \in Conns, ReadStep(f) PROVE Groups'
<1>1. /\ UNCHANGED <<now, running, stop, timerVars, thread_start, paceVars,
                     written, faults>>
      /\ NoResponse \/ response_complete(Client(f))
  BY DEF ReadStep, ReadSome, ReadResponse, ReadClose, ReadLastByte, ReadError,
         ReadFrame
<1>2. BatchTyped' /\ StatTyped' /\ stop_loop' \in BOOLEAN
  <2>1. CASE NoResponse
    BY <2>1 DEF NoResponse, Groups, LoopTyped, BatchTyped, MarkTyped, SendTyped,
           StatTyped, batchVars, markVars, statVars
  <2>2. CASE response_complete(Client(f))
    BY <2>2, ResponseType DEF Groups
  <2> QED BY <1>1, <2>1, <2>2
<1>3. parser' \in [Conns -> {"start", "mid", "until_eof", "dead"}]
  BY DEF ReadStep, ReadSome, ReadResponse, ReadClose, ReadLastByte, ReadError,
         Groups, ConnTyped
<1> QED BY <1>1, <1>2, <1>3 DEF Groups, LoopTyped, OpenTyped, PaceTyped, ConnTyped,
           timerVars, paceVars

LEMMA GroupsNext ==
  ASSUME Groups, Kept, [Next]_vars PROVE Groups'
<1>1. CASE check_timeouts
  <2>1. errors \in Errors
    BY DEF Kept, Sound, World, Worlds
  <2>2. check_timer' \in Nat /\ stop_loop' \in BOOLEAN
    BY <1>1, <2>1, ChecksTimeoutsType DEF check_timeouts, Groups
  <2> QED BY <1>1, <2>2 DEF check_timeouts, Groups, LoopTyped, OpenTyped, PaceTyped,
              BatchTyped, MarkTyped, SendTyped, StatTyped, ConnTyped, connVars,
              paceVars, batchVars, markVars, statVars
<1>2. ASSUME NEW c \in Conns, TimersOf(c) PROVE Groups'
  BY <1>2, TimerType
<1>3. ASSUME NEW f \in Fds, socket_connected(f) \/ WriteStep(f) \/ ReadStep(f)
      PROVE Groups'
  <2>1. events[f].mask # {}
    BY <1>3 DEF socket_connected, WriteStep, WriteDelayed, WriteError, WriteRequest,
           ReadStep, ReadSome, ReadResponse, ReadClose, ReadLastByte, ReadError,
           Fires, Reads
  <2>2. Client(f) \in Conns
    BY <2>1, ClientOwns DEF Kept
  <2> QED BY <1>3, <2>2, ConnectedType, WriteType, ReadType
<1>4. CASE LeaveLoop \/ handler \/ Terminated \/ UNCHANGED vars
  BY <1>4 DEF LeaveLoop, Leaves, handler, Interrupts, Terminated, vars, loopVars,
         timerVars, connVars, paceVars, batchVars, markVars, statVars, Groups,
         LoopTyped, OpenTyped, PaceTyped, BatchTyped, MarkTyped, SendTyped,
         StatTyped, ConnTyped
<1>5. CASE Tick
  BY <1>5 DEF Tick, Ticks, loopVars, timerVars, connVars, paceVars, batchVars,
         markVars, statVars, Groups, LoopTyped, OpenTyped, PaceTyped, BatchTyped,
         MarkTyped, SendTyped, StatTyped, ConnTyped
<1>6. CASE ServerStep
  <2>1. UNCHANGED <<now, loopVars, timerVars, connVars>> /\ faults' \in {faults, faults + 1}
    BY <1>6 DEF ServerStep, Accept, Reply, Misbehave, Fault, EnvFrame
  <2> QED BY <2>1 DEF loopVars, timerVars, connVars, paceVars, batchVars, markVars,
         statVars, Groups, LoopTyped, OpenTyped, PaceTyped, BatchTyped, MarkTyped,
         SendTyped, StatTyped, ConnTyped
<1> QED BY <1>1, <1>2, <1>3, <1>4, <1>5, <1>6 DEF Next

-----------------------------------------------------------------------------
(* The inductive invariant, and what follows from it.                          *)

Inv == TypeOK /\ Kept

LEMMA InvInit == Init => Inv
<1> SUFFICES ASSUME Init PROVE Inv
  OBVIOUS
<1>1. Groups
  <2>1. ThreadInit
    BY DEF Init
  <2>2. 0 \in 0..(Wrap - 1) /\ 0 \in 0..(Length - 1)
    BY ConstantsAssumption
  <2> QED BY <2>1, <2>2, ThreadInitTyped DEF Init, Groups, BatchTyped, ConnTyped
<1>2. World \in Worlds
  <2>1. Closed \in Socket
    BY DEF Closed, Socket
  <2>2. [mask |-> {}, rfileProc |-> "none", wfileProc |-> "none", clientData |-> NoConn] \in Entry
    BY DEF Entry, FileEvents, Masks, Procs
  <2> QED BY <2>1, <2>2 DEF Init, ThreadInit, World, Worlds, Errors
<1>3. Sound(World)
  BY <1>2 DEF Sound, Watched, World, Init, Closed
<1>4. Unopened
  BY DEF Init, ThreadInit, Unopened
<1> QED BY <1>1, <1>2, <1>3, <1>4, TypeParts DEF Inv, Kept, Groups

LEMMA InvNext == Inv /\ [Next]_vars => Inv'
<1> SUFFICES ASSUME Inv, [Next]_vars PROVE Inv'
  OBVIOUS
<1>1. Groups /\ Kept
  BY TypeParts DEF Inv, Groups
<1>2. Typed
  BY <1>1 DEF Groups, Typed, OpenTyped, BatchTyped, MarkTyped, SendTyped, StatTyped,
         ConnTyped
<1>3. Kept' /\ Groups'
  BY <1>1, <1>2, KeptNext, GroupsNext DEF Groups
<1>4. (World \in Worlds)'
  BY <1>3 DEF Kept, Sound
<1>5. TypeOK'
  BY <1>3, <1>4, TypePartsNext DEF Groups
<1> QED BY <1>3, <1>5 DEF Inv

LEMMA Invariant == Spec => []Inv
  BY InvInit, InvNext, PTL DEF Spec

\* Every variable keeps its type: the descriptors, the table, the counters.
THEOREM TypeCorrect == Spec => []TypeOK
<1>1. Inv => TypeOK
  BY DEF Inv
<1> QED BY <1>1, Invariant, PTL

\* A handler always runs for the connection that owns the descriptor, the
\* assertion of socket_writeable.
THEOREM DescriptorsMatch == Spec => []DescriptorMatches
<1>1. Inv => DescriptorMatches
  BY ClientOwns DEF Inv, Kept, DescriptorMatches
<1> QED BY <1>1, Invariant, PTL

\* No open socket is left without an event, no event on a closed one.
THEOREM SocketsAreWatched == Spec => []SocketsWatched
<1>1. Inv => SocketsWatched
  BY DEF Inv, Kept, Sound, Watched, World, SocketsWatched
<1> QED BY <1>1, Invariant, PTL

-----------------------------------------------------------------------------
(* The thread implements Schedule.tla.                                         *)

LEMMA StartsOnSchedule ==
  ASSUME Groups, NEW c \in Conns, Starts(c), UNCHANGED <<now, thread_start, statVars>>
  PROVE  Schedule!StartBatch(c) \/ UNCHANGED Schedule!vars
<1>1. CASE UNCHANGED batchVars
  BY <1>1 DEF batchVars, markVars, statVars, Schedule!vars
<1>2. CASE ~UNCHANGED batchVars
  <2>1. /\ usec_to_next_send(c).wait = 0 /\ Mark(c)
        /\ has_pending' = [has_pending EXCEPT ![c] = TRUE]
    BY <1>2 DEF Starts
  <2>2. CASE has_pending[c]
    BY <2>1, <2>2 DEF Mark, Groups, BatchTyped, SendTyped, markVars, statVars,
           Schedule!vars
  <2>3. CASE ~has_pending[c]
    <3>1. Schedule!Owed(c, complete[c]) <= now + Early
      BY <2>1, SendNow DEF Groups
    <3> QED BY <2>1, <2>3, <3>1 DEF Mark, statVars, Schedule!StartBatch
  <2> QED BY <2>2, <2>3
<1> QED BY <1>1, <1>2

LEMMA ResponseOnSchedule ==
  ASSUME Groups, NEW c \in Conns, response_complete(c), UNCHANGED <<now, thread_start>>
  PROVE  Schedule!Response(c)
<1>1. PICK more \in {has_pending[c], FALSE} :
        has_pending' = [has_pending EXCEPT ![c] = more] /\ stats_request_completed(c, more)
  BY DEF response_complete, Groups, BatchTyped, SendTyped
<1> QED BY <1>1, CompletedOnSchedule DEF response_complete, Groups

LEMMA ScheduleNext == Inv /\ [Next]_vars => [Schedule!Next]_(Schedule!vars)
<1> SUFFICES ASSUME Inv, [Next]_vars PROVE [Schedule!Next]_(Schedule!vars)
  OBVIOUS
<1>1. Groups /\ Kept
  BY TypeParts DEF Inv, Groups
<1>2. CASE UNCHANGED Schedule!vars
  BY <1>2
<1>3. ASSUME NEW c \in Conns, delayed_initial_connect(c) PROVE Schedule!Open(c)
  BY <1>1, <1>3 DEF delayed_initial_connect, Opens, Kept, Unopened, batchVars,
         markVars, statVars, Schedule!Open
<1>4. CASE Tick
  BY <1>1, <1>4 DEF Tick, Ticks, Groups, LoopTyped, connVars, batchVars, markVars,
         statVars, Schedule!Next, Schedule!Elapse
<1>5. ASSUME NEW f \in Fds, socket_connected(f) \/ WriteStep(f) \/ ReadStep(f)
      PROVE  [Schedule!Next]_(Schedule!vars)
  <2>1. events[f].mask # {}
    BY <1>5 DEF socket_connected, WriteStep, WriteDelayed, WriteError, WriteRequest,
           ReadStep, ReadSome, ReadResponse, ReadClose, ReadLastByte, ReadError,
           Fires, Reads
  <2>2. Client(f) \in Conns
    BY <1>1, <2>1, ClientOwns DEF Kept
  <2>3. CASE UNCHANGED <<now, thread_start, batchVars, statVars>>
    BY <2>3 DEF batchVars, markVars, statVars, Schedule!vars
  <2>4. CASE Starts(Client(f)) /\ UNCHANGED <<now, thread_start, statVars>>
    BY <1>1, <2>2, <2>4, StartsOnSchedule DEF Schedule!Next
  <2>5. CASE response_complete(Client(f)) /\ UNCHANGED <<now, thread_start>>
    BY <1>1, <2>2, <2>5, ResponseOnSchedule DEF Schedule!Next
  <2> QED BY <1>5, <2>3, <2>4, <2>5 DEF socket_connected, WriteStep, WriteDelayed,
         WriteError, WriteRequest, ReadStep, ReadSome, ReadResponse, ReadClose,
         ReadLastByte, ReadError, NoResponse, ReadFrame
<1>6. CASE check_timeouts \/ LeaveLoop \/ handler \/ Terminated \/ UNCHANGED vars
  BY <1>6 DEF check_timeouts, LeaveLoop, handler, Terminated, vars, connVars,
       batchVars, markVars, statVars, Schedule!vars
<1>7. CASE ServerStep
  BY <1>7 DEF ServerStep, Accept, Reply, Misbehave, Fault, EnvFrame, connVars,
       batchVars, markVars, statVars, Schedule!vars
<1>8. ASSUME NEW c \in Conns, NEW i, delay_request(c, i) PROVE UNCHANGED Schedule!vars
  BY <1>8 DEF delay_request, batchVars, markVars, statVars, Schedule!vars
<1>9. ASSUME NEW c \in Conns, TimersOf(c) PROVE [Schedule!Next]_(Schedule!vars)
  BY <1>3, <1>8, <1>9 DEF TimersOf, Schedule!Next
<1> QED BY <1>4, <1>5, <1>6, <1>7, <1>9 DEF Next

\* Whatever happens to the connections, no batch is sent ahead of schedule and
\* every latency is measured from when the batch was owed.
THEOREM KeepsSchedule == Spec => ImplementsSchedule
  <1>1. Init => Schedule!Init
  BY ScheduleInit DEF Init
<1> QED BY <1>1, ScheduleNext, Invariant, PTL DEF Spec, ImplementsSchedule,
       Schedule!Spec

\* Whatever happens to the connections, a response recorded now has no latency
\* below -Early.
THEOREM LatencyIsBounded == Spec => []LatencyBounded
  BY KeepsSchedule, OnSchedule, ProvedBounded, PTL

\* While a batch is measured, however often it is sent again, the corrected
\* latency is no shorter than the time since it was first sent.
THEOREM NeverGifts == Spec => []CorrectionNeverGifts
  BY KeepsSchedule, OnSchedule, ProvedGifts, PTL

LEMMA RecordedNext ==
  Inv /\ Proved!Inv /\ LatencyNonNegative /\ [Next]_vars => LatencyNonNegative'
<1> SUFFICES ASSUME Inv, Proved!Inv, LatencyNonNegative, [Next]_vars
             PROVE  LatencyNonNegative'
  OBVIOUS
<1>1. Groups /\ Kept
  BY TypeParts DEF Inv, Groups
<1>2. CASE UNCHANGED histogram
  BY <1>2 DEF LatencyNonNegative
<1>3. ASSUME NEW f \in Fds, ReadStep(f), ~UNCHANGED histogram PROVE LatencyNonNegative'
  <2>1. events[f].mask # {}
    BY <1>3 DEF ReadStep, ReadSome, ReadResponse, ReadClose, ReadLastByte,
           ReadError, Reads
  <2>2. PICK c \in Conns : c = Client(f)
    BY <1>1, <2>1, ClientOwns DEF Kept
  <2>3. response_complete(c)
    BY <1>3, <2>2 DEF ReadStep, ReadSome, ReadResponse, ReadClose, ReadLastByte,
                      ReadError, NoResponse, statVars
  <2>4. PICK more : stats_request_completed(c, more)
    BY <2>3 DEF response_complete
  <2> QED BY <1>1, <2>4, ConstantsAssumption, RecordedLatency DEF Groups, BatchTyped
<1>4. UNCHANGED histogram \/ \E f \in Fds : ReadStep(f)
  BY DEF Next, vars, check_timeouts, TimersOf, delayed_initial_connect, Opens,
         delay_request, socket_connected, WriteStep, WriteDelayed, WriteRequest,
         WriteError, LeaveLoop, handler, Tick, ServerStep, Accept, Reply, Misbehave,
         Fault, EnvFrame, Terminated, connVars, statVars
<1> QED BY <1>2, <1>3, <1>4

\* No response is recorded with a negative latency, which would abort the run.
THEOREM LatencyRecordable == Spec => []LatencyNonNegative
<1>1. Init => LatencyNonNegative
  BY DEF Init, ThreadInit, LatencyNonNegative
<1> QED BY <1>1, RecordedNext, Invariant, KeepsSchedule, OnSchedule, PTL DEF Spec
===============================================================================
