---------------------------- MODULE TcpOrder_proof ----------------------------
(* Who may use a socket of TcpClient.tla, also after connects that failed, and *)
(* what holds as long as the network spoils only connections that wait for     *)
(* something: each connection sleeps on one timer, expects exactly the         *)
(* responses that are on their way, and keeps to its rate.                     *)
EXTENDS TcpClient_proof

-----------------------------------------------------------------------------
(* The inductive invariant.                                                    *)

\* The network spoils no connection that waits for nothing. Over TLS it may refuse
\* one: ssl_connect sees that, sock_connect does not.
Quiet == Env \cap {"unsolicited", "idle_reset"} = {} /\ (TLS \/ "refuse" \notin Env)

\* What a connection has: its events, its socket, and its part of the thread.
Ev(c) == events[fd[c]]
So(c) == sockets[fd[c]]
Own(c) == [timers |-> delay_timers[c], written |-> written[c], parser |-> parser[c],
           pending |-> pending[c], has |-> has_pending[c]]

Things == {"part", "head", "resp", "close", "bad"}
Count(s, S) == Cardinality({i \in DOMAIN s : s[i] \in S})
Endings == Things \ {"part"}

\* A new socket, of which nothing was used yet.
Connecting(e, s, o) ==
  /\ e.rfileProc = "socket_connected" /\ e.wfileProc = "socket_connected"
  /\ W \in e.mask
  /\ s.st \in {"syn", "open"} \/ (s.st = "rst" /\ TLS)
  /\ s.rx = <<>> /\ s.owed = 0
  /\ o.timers = <<>>

\* Between batches, or before the first byte of one: nothing is on the wire.
Idle(e, s, o) ==
  /\ e.rfileProc = "socket_readable"
  /\ s.st = "open" /\ s.rx = <<>> /\ s.owed = 0
  /\ o.written = 0 /\ o.parser = "start"
  /\ \/ W \in e.mask /\ e.wfileProc = "socket_writeable" /\ o.timers = <<>>
     \/ W \notin e.mask /\ Len(o.timers) = 1

\* What has been sent of the batch.
SentOf(e, o) == IF W \in e.mask THEN Sent(o.written) ELSE Pipeline

\* As many responses are expected as requests were sent or are still to be
\* sent. A socket that has ended has lost one of them, or does not end with one
\* that keeps the connection.
Expects(e, s, o) ==
  /\ o.pending > 0
  /\ s.st = "open" => o.pending = s.owed + Count(s.rx, Endings) + Pipeline - SentOf(e, o)
  /\ s.st # "open" => o.pending > Count(s.rx, {"resp"})

\* What there is to read. An open socket ends with the end of a response, one
\* that keeps the connection, and an ended socket with what the handler takes
\* for the end.
EndsWith(s, o) ==
  /\ s.st = "open" => \A i \in DOMAIN s.rx : s.rx[i] \in {"part", "resp", "bad"}
  /\ s.st = "open" => s.rx = <<>> \/ s.rx[Len(s.rx)] \in Endings
  /\ s.st = "fin" /\ "fin" \notin Env =>
       \/ s.rx = <<>> /\ o.parser \in {"mid", "until_eof"}
       \/ s.rx # <<>> /\ s.rx[Len(s.rx)] \in {"part", "close"}

Busy(e, s, o) ==
  /\ e.rfileProc = "socket_readable"
  /\ s.st \in {"open", "fin", "rst"}
  /\ o.has /\ o.timers = <<>>
  /\ \/ W \in e.mask /\ e.wfileProc = "socket_writeable" /\ o.written > 0
     \/ W \notin e.mask /\ o.written = 0
  /\ o.parser # "dead" /\ (o.parser = "until_eof" => s.st # "open")
  /\ Expects(e, s, o) /\ EndsWith(s, o)

\* A connection without a socket, whose connect is still to come or has failed,
\* does not sleep.
Stage(c) ==
  IF Connected(c)
    THEN \/ Connecting(Ev(c), So(c), Own(c))
         \/ Idle(Ev(c), So(c), Own(c))
         \/ Busy(Ev(c), So(c), Own(c))
    ELSE delay_timers[c] = <<>>

\* How far a connection may be ahead of its schedule.
Ahead(c, n) == n > Pipeline => Schedule!Owed(c, n - Pipeline) <= now

RateKept(c) ==
  /\ Ahead(c, complete[c])
  /\ Connected(c) /\ Busy(Ev(c), So(c), Own(c)) => Ahead(c, complete[c] + pending[c])

Settled(c) == Stage(c) /\ RateKept(c)

Ordered == \A c \in Conns : Settled(c)

-----------------------------------------------------------------------------
(* Counting.                                                                   *)

LEMMA SameSize ==
  ASSUME NEW A, NEW B, IsFiniteSet(A), IsFiniteSet(B),
         NEW f \in [A -> B], \A x, y \in A : f[x] = f[y] => x = y,
         NEW g \in [B -> A], \A x, y \in B : g[x] = g[y] => x = y
  PROVE  Cardinality(A) = Cardinality(B)
<1>1. Cardinality(A) \in Nat /\ Cardinality(B) \in Nat
  BY FS_CardinalityType
<1>2. ~(Cardinality(B) < Cardinality(A))
  BY FS_PigeonHole
<1>3. ~(Cardinality(A) < Cardinality(B))
  BY FS_PigeonHole
<1> QED BY <1>1, <1>2, <1>3

LEMMA CountType ==
  ASSUME NEW T, NEW s \in Seq(T), NEW S
  PROVE  /\ IsFiniteSet({i \in DOMAIN s : s[i] \in S}) /\ Count(s, S) \in Nat
<1>1. Len(s) \in Nat /\ DOMAIN s = 1..Len(s)
  OBVIOUS
<1>2. IsFiniteSet(1..Len(s))
  BY <1>1, FS_Interval
<1>3. {i \in DOMAIN s : s[i] \in S} \in SUBSET (1..Len(s))
  BY <1>1
<1>4. IsFiniteSet({i \in DOMAIN s : s[i] \in S})
  BY <1>2, <1>3, FS_Subset
<1> QED BY <1>4, FS_CardinalityType DEF Count

LEMMA CountEmpty == ASSUME NEW S PROVE Count(<<>>, S) = 0
<1>1. {i \in DOMAIN <<>> : <<>>[i] \in S} = {}
  OBVIOUS
<1> QED BY <1>1, FS_EmptySet DEF Count

LEMMA CountLess ==
  ASSUME NEW T, NEW s \in Seq(T), NEW A, NEW B, A \subseteq B
  PROVE  Count(s, A) <= Count(s, B)
<1>1. IsFiniteSet({i \in DOMAIN s : s[i] \in B})
  BY CountType
<1>2. {i \in DOMAIN s : s[i] \in A} \in SUBSET {i \in DOMAIN s : s[i] \in B}
  OBVIOUS
<1> QED BY <1>1, <1>2, FS_Subset DEF Count

LEMMA CountAppend ==
  ASSUME NEW T, NEW s \in Seq(T), NEW x \in T, NEW S
  PROVE  Count(Append(s, x), S) = IF x \in S THEN Count(s, S) + 1 ELSE Count(s, S)
<1>1. PICK n \in Nat : n = Len(s)
  OBVIOUS
<1>2. PICK A : A = {i \in DOMAIN s : s[i] \in S}
  OBVIOUS
<1>3. IsFiniteSet(A) /\ n + 1 \notin A /\ Count(s, S) = Cardinality(A)
  <2>1. IsFiniteSet({i \in DOMAIN s : s[i] \in S})
    BY CountType
  <2>2. n + 1 \notin DOMAIN s
    BY <1>1
  <2> QED BY <1>2, <2>1, <2>2 DEF Count
<1>4. PICK t : t = Append(s, x)
  OBVIOUS
<1>5. /\ DOMAIN t = 1..(n + 1) /\ t[n + 1] = x
      /\ \A i \in 1..n : t[i] = s[i]
  BY <1>1, <1>4
<1>6. {i \in DOMAIN t : t[i] \in S} = IF x \in S THEN A \cup {n + 1} ELSE A
  BY <1>1, <1>2, <1>5
<1>7. Cardinality(A \cup {n + 1}) = Cardinality(A) + 1
  BY <1>3, FS_AddElement
<1> QED BY <1>3, <1>4, <1>6, <1>7 DEF Count

LEMMA TailIs ==
  ASSUME NEW T, NEW s \in Seq(T), s # <<>>
  PROVE  /\ Len(s) \in Nat /\ Len(s) >= 1 /\ DOMAIN s = 1..Len(s) /\ Head(s) = s[1]
         /\ Tail(s) \in Seq(T) /\ DOMAIN Tail(s) = 1..(Len(s) - 1)
         /\ Len(Tail(s)) = Len(s) - 1
         /\ \A i \in 1..(Len(s) - 1) : Tail(s)[i] = s[i + 1]
  OBVIOUS

LEMMA CountTail ==
  ASSUME NEW T, NEW s \in Seq(T), s # <<>>, NEW S
  PROVE  Count(s, S) = IF Head(s) \in S THEN Count(Tail(s), S) + 1 ELSE Count(Tail(s), S)
<1>1. PICK n \in Nat : n = Len(s) /\ n >= 1 /\ DOMAIN s = 1..n /\ Head(s) = s[1]
  BY TailIs
<1>2. PICK t : t = Tail(s)
  OBVIOUS
<1>3. t \in Seq(T) /\ DOMAIN t = 1..(n - 1) /\ \A i \in 1..(n - 1) : t[i] = s[i + 1]
  BY <1>1, <1>2, TailIs
<1>4. PICK A, B, C : /\ A = {i \in DOMAIN s : s[i] \in S}
                     /\ B = {i \in DOMAIN t : t[i] \in S}
                     /\ C = A \ {1}
  OBVIOUS
<1>5. IsFiniteSet(A) /\ IsFiniteSet(B) /\ Count(s, S) = Cardinality(A)
      /\ Count(t, S) = Cardinality(B) /\ Cardinality(B) \in Nat
  BY <1>3, <1>4, CountType DEF Count
<1>6. IsFiniteSet(C) /\ Cardinality(C) = IF 1 \in A THEN Cardinality(A) - 1 ELSE Cardinality(A)
  BY <1>4, <1>5, FS_RemoveElement
<1>7. Cardinality(C) = Cardinality(B)
  <2>1. PICK down, up : down = [i \in C |-> i - 1] /\ up = [i \in B |-> i + 1]
    OBVIOUS
  <2>2. \A i \in C : i \in 2..n /\ i - 1 \in B
    BY <1>1, <1>3, <1>4
  <2>3. \A i \in B : i \in 1..(n - 1) /\ i + 1 \in C
    BY <1>1, <1>3, <1>4
  <2>4. down \in [C -> B] /\ \A x, y \in C : down[x] = down[y] => x = y
    BY <2>1, <2>2
  <2>5. up \in [B -> C] /\ \A x, y \in B : up[x] = up[y] => x = y
    BY <2>1, <2>3
  <2> QED BY <1>5, <1>6, <2>4, <2>5, SameSize
<1>8. 1 \in A <=> Head(s) \in S
  BY <1>1, <1>4
<1>9. Cardinality(A) \in Nat
  BY <1>5, FS_CardinalityType
<1> QED BY <1>2, <1>5, <1>6, <1>7, <1>8, <1>9

\* What ends with a thing holds it.
LEMMA CountLast ==
  ASSUME NEW T, NEW s \in Seq(T), s # <<>>, NEW S, s[Len(s)] \in S
  PROVE  Count(s, S) > 0
<1>1. Len(s) \in DOMAIN s
  OBVIOUS
<1>2. PICK A : A = {i \in DOMAIN s : s[i] \in S}
  OBVIOUS
<1>3. Count(s, S) # 0
  <2>1. A # {} /\ IsFiniteSet(A)
    BY <1>1, <1>2, CountType
  <2>2. Cardinality(A) # 0
    BY <2>1, FS_EmptySet
  <2> QED BY <1>2, <2>2 DEF Count
<1>4. Count(s, S) \in Nat
  BY CountType
<1> QED BY <1>3, <1>4

\* A request is whole when its last unit is written.
LEMMA SentBounds ==
  /\ Sent(0) = 0 /\ Sent(Length) = Pipeline
  /\ \A a \in 0..(Length - 1) : Sent(a) \in Nat /\ Sent(a) < Pipeline
<1>1. Pipeline \in Nat /\ Pipeline > 0 /\ Length \in Nat /\ Length > 0
  BY ConstantsAssumption
<1>2. Sent(0) = 0
  <2>1. 0 * Pipeline = 0
    BY <1>1
  <2>2. 0 \div Length = 0
    BY <1>1
  <2> QED BY <2>1, <2>2 DEF Sent
<1>3. Sent(Length) = Pipeline
  <2>1. PICK x \in Nat : x = Length * Pipeline
    BY <1>1, ProductNat
  <2>2. x \div Length = Pipeline
    BY <1>1, <2>1
  <2> QED BY <2>1, <2>2 DEF Sent
<1>4. ASSUME NEW a \in 0..(Length - 1) PROVE Sent(a) \in Nat /\ Sent(a) < Pipeline
  <2>1. a \in Nat /\ a < Length
    BY <1>1
  <2>2. PICK q \in Nat : q = Sent(a)
    BY <2>1, SentNat
  <2>3. q * Length <= a * Pipeline
    <3>1. a * Pipeline \in Nat
      BY <1>1, <2>1, ProductNat
    <3>2. PICK r \in 0..(Length - 1) : a * Pipeline = q * Length + r
      BY <1>1, <2>2, <3>1, DivMod DEF Sent
    <3>3. q * Length \in Nat
      BY <1>1, ProductNat
    <3> QED BY <1>1, <3>1, <3>2, <3>3
  <2>4. a * Pipeline < Length * Pipeline
    BY <1>1, <2>1
  <2>5. ~(Pipeline <= q)
    <3>1. Pipeline <= q => Pipeline * Length <= q * Length
      BY <1>1
    <3> QED BY <1>1, <2>1, <2>3, <2>4, <3>1
  <2> QED BY <1>1, <2>2, <2>5
<1> QED BY <1>2, <1>3, <1>4

-----------------------------------------------------------------------------
(* New sockets.                                                                *)

\* Connected, of a world: the descriptor is open, and the connection's own.
Has(w, c) ==
  w.fd[c] \in Fds /\ w.sockets[w.fd[c]].st # "closed" /\ w.events[w.fd[c]].clientData = c

\* The descriptor a connection has is its own, or nobody's.
Mine(c, w) ==
  w.fd[c] \in Fds /\ (Has(w, c) \/ w.sockets[w.fd[c]].st = "closed")

\* What a step does for a connection gives no other a socket, takes none away,
\* and does not touch one.
Aside(c, w, v) ==
  \A d \in Conns \ {c} :
    /\ Has(v, d) <=> Has(w, d)
    /\ Has(w, d) => /\ v.fd[d] = w.fd[d]
                      /\ v.sockets[w.fd[d]] = w.sockets[w.fd[d]]
                      /\ v.events[w.fd[d]] = w.events[w.fd[d]]

LEMMA ConnectedIs ==
  \A c : /\ Connected(c) <=> Has(World, c)
         /\ Connected(c)' <=> Has(World', c)
  BY DEF Connected, Has, World, Client

LEMMA AsideTwice ==
  ASSUME NEW c, NEW u, NEW v, NEW w, Aside(c, u, v), Aside(c, v, w)
  PROVE  Aside(c, u, w)
  BY DEF Aside

LEMMA AsideSame ==
  ASSUME NEW c, NEW w, NEW v, v.fd = w.fd, v.sockets = w.sockets, v.events = w.events
  PROVE  Aside(c, w, v)
  BY DEF Aside, Has

\* One descriptor changes, that of the connection.
LEMMA LocalAside ==
  ASSUME NEW c \in Conns, NEW w, NEW v, Mine(c, w), Mine(c, v), v.fd = w.fd,
         \A g \in Fds \ {w.fd[c]} : v.sockets[g] = w.sockets[g] /\ v.events[g] = w.events[g]
  PROVE  Aside(c, w, v)
  BY DEF Aside, Has, Mine

\* The connection has a socket of which nothing was used yet.
NewAt(c, v) ==
  /\ v.fd[c] \in Fds /\ v.sockets[v.fd[c]] = Fresh
  /\ W \in v.events[v.fd[c]].mask
  /\ v.events[v.fd[c]].rfileProc = "socket_connected"
  /\ v.events[v.fd[c]].wfileProc = "socket_connected"
  /\ v.events[v.fd[c]].clientData = c

\* Or none at all, because the connect failed.
NewOrNone(c, v) == NewAt(c, v) \/ ~Has(v, c)

LEMMA NewHas ==
  ASSUME NEW c, NEW v, NewAt(c, v) PROVE Has(v, c)
  BY DEF NewAt, Has, Fresh

LEMMA ConnectNew ==
  ASSUME NEW w, Sound(w), NEW c \in Conns,
         \A f \in Fds : w.events[f].mask # {} => w.events[f].clientData # c,
         NEW v \in tcp_connect_socket(c, w)
  PROVE  /\ Aside(c, w, v)
         /\ NewAt(c, v) \/ (~Has(v, c) /\ v.fd = w.fd /\ v.sockets = w.sockets)
<1>1. CASE v = Counted(w, "connect")
  <2>1. v.fd = w.fd /\ v.sockets = w.sockets /\ v.events = w.events
    BY <1>1 DEF Counted, Sound, Worlds
  <2>2. ~Has(w, c)
    BY DEF Has, Sound, Watched
  <2>3. ~Has(v, c)
    BY <2>1, <2>2 DEF Has
  <2> QED BY <2>1, <2>3, AsideSame
<1>2. ASSUME NEW f \in FreeFds(w),
             v = [fd |-> [w.fd EXCEPT ![c] = f],
                  sockets |-> [w.sockets EXCEPT ![f] = Fresh],
                  events |-> aeCreateFileEvent(w.events, f, {R, W}, "socket_connected", c),
                  errors |-> w.errors]
      PROVE  Aside(c, w, v) /\ NewAt(c, v)
  <2>1. /\ f \in Fds /\ w.sockets[f].st = "closed" /\ w.fd \in [Conns -> Fds \cup {NoFd}]
        /\ w.events \in [Fds -> Entry] /\ w.sockets \in [Fds -> Socket]
    BY <1>2 DEF FreeFds, Sound, Worlds
  <2>2. PICK ev : ev = aeCreateFileEvent(w.events, f, {R, W}, "socket_connected", c)
    OBVIOUS
  <2>3. /\ v.fd = [w.fd EXCEPT ![c] = f] /\ v.events = ev
        /\ v.sockets = [w.sockets EXCEPT ![f] = Fresh]
    BY <1>2, <2>2
  <2>4. /\ ev[f].rfileProc = "socket_connected" /\ ev[f].wfileProc = "socket_connected"
        /\ ev[f].clientData = c /\ W \in ev[f].mask
        /\ \A g \in Fds \ {f} : ev[g] = w.events[g]
    BY <2>1, <2>2 DEF aeCreateFileEvent
  <2>5. ASSUME NEW d \in Conns \ {c}
        PROVE  /\ Has(v, d) <=> Has(w, d)
               /\ Has(w, d) => /\ v.fd[d] = w.fd[d]
                                 /\ v.sockets[w.fd[d]] = w.sockets[w.fd[d]]
                                 /\ v.events[w.fd[d]] = w.events[w.fd[d]]
    <3>1. v.fd[d] = w.fd[d] /\ v.events[f].clientData # d
      BY <2>1, <2>3, <2>4
    <3>2. CASE w.fd[d] = f
      BY <2>1, <3>1, <3>2 DEF Has
    <3>3. ASSUME w.fd[d] \in Fds \ {f}
          PROVE  /\ v.sockets[w.fd[d]] = w.sockets[w.fd[d]]
                 /\ v.events[w.fd[d]] = w.events[w.fd[d]]
      BY <2>1, <2>3, <2>4, <3>3
    <3> QED BY <3>1, <3>2, <3>3 DEF Has
  <2>6. Aside(c, w, v)
    BY <2>5 DEF Aside
  <2> QED BY <2>1, <2>3, <2>4, <2>6 DEF NewAt
<1> QED BY <1>1, <1>2 DEF tcp_connect_socket

LEMMA CloseAside ==
  ASSUME NEW w, Sound(w), NEW c \in Conns, Mine(c, w)
  PROVE  /\ Aside(c, w, CloseSocket(c, w)) /\ CloseSocket(c, w).fd = w.fd
         /\ CloseSocket(c, w).sockets[w.fd[c]].st = "closed"
<1>1. PICK f \in Fds : f = w.fd[c]
  BY DEF Mine
<1>2. PICK v : v = CloseSocket(c, w)
  OBVIOUS
<1>3. /\ v.fd = w.fd /\ v.sockets = [w.sockets EXCEPT ![f] = Closed]
      /\ v.events = aeDeleteFileEvent(w.events, f, {R, W})
  BY <1>1, <1>2 DEF CloseSocket
<1>4. /\ \A g \in Fds \ {f} : v.sockets[g] = w.sockets[g] /\ v.events[g] = w.events[g]
      /\ v.sockets[f].st = "closed"
  BY <1>3 DEF aeDeleteFileEvent, Sound, Worlds, Closed
<1>5. Mine(c, v)
  BY <1>1, <1>3, <1>4 DEF Mine
<1> QED BY <1>1, <1>2, <1>3, <1>4, <1>5, LocalAside

\* A reconnect touches no other connection, whether or not it succeeds, and
\* whether or not the last one did.
LEMMA ReconnectNew ==
  ASSUME NEW w, Sound(w), NEW c \in Conns, Mine(c, w), NEW v \in tcp_reconnect_socket(c, w)
  PROVE  Aside(c, w, v) /\ NewOrNone(c, v) /\ Mine(c, v) /\ Sound(v)
<1>1. PICK u : u = CloseSocket(c, w)
  OBVIOUS
<1>2. /\ Sound(u)
      /\ \A f \in Fds : u.events[f].mask # {} => u.events[f].clientData # c
  BY <1>1, CloseSound DEF Mine
<1>3. Aside(c, w, u) /\ u.fd = w.fd /\ u.sockets[w.fd[c]].st = "closed"
  BY <1>1, CloseAside
<1>4. v \in tcp_connect_socket(c, u)
  BY <1>1 DEF tcp_reconnect_socket
<1>5. /\ Aside(c, u, v)
      /\ NewAt(c, v) \/ (~Has(v, c) /\ v.fd = u.fd /\ v.sockets = u.sockets)
  BY <1>2, <1>4, ConnectNew
<1>6. Mine(c, v)
  BY <1>3, <1>5, NewHas DEF Mine, NewAt
<1>7. Sound(v)
  BY ReconnectSound DEF Mine
<1> QED BY <1>3, <1>5, <1>6, <1>7, AsideTwice DEF NewOrNone

-----------------------------------------------------------------------------
(* What an operation does to the sockets: either it keeps every descriptor and *)
(* touches one, or it gives its connection a new socket, or none.              *)

Stays(c) ==
  /\ fd' = fd
  /\ \A g \in Fds \ {fd[c]} : sockets'[g] = sockets[g] /\ events'[g] = events[g]
  /\ sockets'[fd[c]].st # "closed" /\ events'[fd[c]].clientData = c

Renews(c) == Aside(c, World, World') /\ NewOrNone(c, World')

LEMMA BecomesIs ==
  ASSUME NEW v, Sound(v), Becomes(v) PROVE World' = v
<1>1. v = [fd |-> v.fd, events |-> v.events, sockets |-> v.sockets, errors |-> v.errors]
  BY DEF Sound, Worlds
<1> QED BY <1>1 DEF Becomes, World

LEMMA WorldNext ==
  /\ World'.fd = fd' /\ World'.events = events'
  /\ World'.sockets = sockets' /\ World'.errors = errors'
  BY DEF World

LEMMA StaysAside ==
  ASSUME NEW c \in Conns, Connected(c), Stays(c)
  PROVE  Aside(c, World, World') /\ Connected(c)' /\ fd'[c] = fd[c]
<1>1. Has(World, c) /\ fd[c] \in Fds
  BY ConnectedIs DEF Connected
<1>2. Has(World', c) /\ fd' = fd
  BY <1>1, WorldNext DEF Stays, Has
<1>3. /\ World'.fd = World.fd
      /\ \A g \in Fds \ {World.fd[c]} :
           World'.sockets[g] = World.sockets[g] /\ World'.events[g] = World.events[g]
  BY WorldIs, WorldNext DEF Stays
<1>4. Mine(c, World) /\ Mine(c, World')
  BY <1>1, <1>2 DEF Mine, Has
<1>5. Aside(c, World, World')
  BY <1>3, <1>4, LocalAside
<1> QED BY <1>2, <1>5, ConnectedIs

\* A world on the way to a reconnect: nobody else has lost anything yet.
Ready(c, w) == Sound(w) /\ Mine(c, w) /\ Aside(c, World, w)

LEMMA WorldReady ==
  ASSUME Kept, NEW c \in Conns, Connected(c)
  PROVE  Ready(c, World) /\ Has(World, c)
<1>1. Has(World, c)
  BY ConnectedIs
<1> QED BY <1>1, AsideSame DEF Kept, Ready, Mine, Has

LEMMA CountedReady ==
  ASSUME NEW c \in Conns, NEW w, Ready(c, w), NEW e \in {"connect", "read", "write", "timeout"}
  PROVE  Ready(c, Counted(w, e))
<1>1. PICK v : v = Counted(w, e)
  OBVIOUS
<1>2. Sound(v)
  BY <1>1, CountSound DEF Ready
<1>3. v.fd = w.fd /\ v.sockets = w.sockets /\ v.events = w.events
  BY <1>1 DEF Counted, Ready, Sound, Worlds
<1>4. Mine(c, v)
  BY <1>3 DEF Ready, Mine, Has
<1>5. Aside(c, World, v)
  BY <1>3, AsideSame, AsideTwice DEF Ready
<1> QED BY <1>1, <1>2, <1>4, <1>5 DEF Ready

LEMMA ReconnectReady ==
  ASSUME NEW c \in Conns, NEW w, Ready(c, w), NEW v \in tcp_reconnect_socket(c, w)
  PROVE  Ready(c, v) /\ NewOrNone(c, v)
<1>1. Aside(c, w, v) /\ NewOrNone(c, v) /\ Mine(c, v) /\ Sound(v)
  BY ReconnectNew DEF Ready
<1>2. Aside(c, World, v)
  BY <1>1, AsideTwice DEF Ready
<1> QED BY <1>1, <1>2 DEF Ready

\* The read, and the request for the next batch, leave the others alone.
LEMMA TakenReady ==
  ASSUME Kept, NEW c \in Conns, NEW f \in Fds, fd[c] = f, Connected(c), sockets[f].rx # <<>>
  PROVE  Ready(c, Taken(f)) /\ Has(Taken(f), c) /\ Taken(f).fd = fd
<1>1. Sound(Taken(f)) /\ Taken(f).fd = fd
  BY TakenSound DEF Kept
<1>2. sockets \in [Fds -> Socket]
  BY DEF Kept, Sound, World, Worlds
<1>3. PICK v : v = Taken(f)
  OBVIOUS
<1>4. /\ v.events = events /\ v.sockets[f].st = sockets[f].st
      /\ \A g \in Fds \ {f} : v.sockets[g] = sockets[g]
  BY <1>2, <1>3 DEF Taken, World, Socket
<1>5. Has(World, c) /\ Mine(c, World)
  BY ConnectedIs DEF Mine, Has
<1>6. Has(v, c) /\ Mine(c, v)
  BY <1>1, <1>3, <1>4, <1>5, WorldIs DEF Has, Mine
<1>7. /\ v.fd = World.fd
      /\ \A g \in Fds \ {World.fd[c]} :
           v.sockets[g] = World.sockets[g] /\ v.events[g] = World.events[g]
  BY <1>1, <1>3, <1>4, WorldIs
<1>8. Aside(c, World, v)
  BY <1>5, <1>6, <1>7, LocalAside
<1> QED BY <1>1, <1>3, <1>6, <1>8 DEF Ready

LEMMA AwaitReady ==
  ASSUME NEW c \in Conns, NEW w, Ready(c, w), Has(w, c), w.fd = fd
  PROVE  /\ Ready(c, AwaitWritable(c, w)) /\ Has(AwaitWritable(c, w), c)
         /\ AwaitWritable(c, w).fd = fd
         /\ AwaitWritable(c, w).events =
              aeCreateFileEvent(w.events, fd[c], {W}, "socket_writeable", c)
         /\ AwaitWritable(c, w).sockets = w.sockets
<1>1. PICK f \in Fds : f = fd[c] /\ w.sockets[f].st # "closed"
  BY DEF Has
<1>2. PICK v : v = AwaitWritable(c, w)
  OBVIOUS
<1>3. PICK ev : ev = aeCreateFileEvent(w.events, f, {W}, "socket_writeable", c)
  OBVIOUS
<1>4. Sound(v) /\ v.fd = fd /\ Sound(w)
  BY <1>2, AwaitSound DEF Ready
<1>5. v = [w EXCEPT !.events = ev]
  BY <1>1, <1>2, <1>3 DEF AwaitWritable, Ready, Sound, Worlds
<1>6. /\ v.sockets = w.sockets /\ v.events = ev /\ ev[f].clientData = c
      /\ \A g \in Fds \ {f} : ev[g] = w.events[g]
  BY <1>3, <1>4, <1>5 DEF aeCreateFileEvent, Sound, Worlds
<1>7. Has(v, c) /\ Mine(c, v) /\ Mine(c, w)
  BY <1>1, <1>4, <1>6 DEF Has, Mine
<1>8. Aside(c, w, v)
  <2>1. v.fd = w.fd
    BY <1>4
  <2>2. \A g \in Fds \ {w.fd[c]} : v.sockets[g] = w.sockets[g] /\ v.events[g] = w.events[g]
    BY <1>1, <1>6
  <2> QED BY <1>7, <2>1, <2>2, LocalAside
<1>9. Aside(c, World, v)
  BY <1>8, AsideTwice DEF Ready
<1> QED BY <1>1, <1>2, <1>3, <1>4, <1>6, <1>7, <1>9 DEF Ready

LEMMA AnsweredReady ==
  ASSUME NEW c \in Conns, NEW w, Ready(c, w), Has(w, c), w.fd = fd
  PROVE  Ready(c, Answered(c, w))
<1>1. Ready(c, AwaitWritable(c, w))
  BY AwaitReady
<1> QED BY <1>1 DEF Answered

LEMMA HasStays ==
  ASSUME NEW c \in Conns, NEW f \in Fds, fd[c] = f, NEW v, Has(v, c), v.fd = fd, Becomes(v),
         \A g \in Fds \ {f} : v.sockets[g] = sockets[g] /\ v.events[g] = events[g]
  PROVE  Stays(c)
<1>1. fd' = fd /\ sockets' = v.sockets /\ events' = v.events
  BY DEF Becomes
<1> QED BY <1>1 DEF Has, Stays

-----------------------------------------------------------------------------
(* Which it is for each operation.                                             *)

LEMMA OpenRenews ==
  ASSUME Kept, NEW c \in Conns, delayed_initial_connect(c)
  PROVE  Renews(c)
<1>1. fd[c] = NoFd
  BY DEF Kept, Unopened, delayed_initial_connect, Opens
<1>2. \A f \in Fds : World.events[f].mask # {} => World.events[f].clientData # c
  BY <1>1, ConstantsAssumption DEF Kept, Sound, World, NoFd
<1>3. PICK v \in tcp_connect_socket(c, World) : Becomes(v)
  BY DEF delayed_initial_connect
<1>4. Sound(World)
  BY DEF Kept
<1>5. Aside(c, World, v) /\ NewOrNone(c, v)
  BY <1>2, <1>3, <1>4, ConnectNew DEF NewOrNone
<1>6. Sound(v)
  BY <1>2, <1>3, <1>4, ConnectSound
<1>7. World' = v
  BY <1>3, <1>6, BecomesIs
<1> QED BY <1>5, <1>7 DEF Renews

LEMMA DelayStays ==
  ASSUME Kept, NEW c \in Conns, Connected(c), NEW i, delay_request(c, i)
  PROVE  UNCHANGED <<fd, events, sockets>> \/ Stays(c)
<1>1. CASE UNCHANGED ioVars
  BY <1>1 DEF ioVars
<1>2. CASE Becomes(AwaitWritable(c, World))
  <2>1. PICK f \in Fds : f = fd[c]
    BY DEF Connected
  <2>2. PICK v : v = AwaitWritable(c, World)
    OBVIOUS
  <2>3. Has(v, c) /\ v.fd = fd /\ v.sockets = sockets
        /\ v.events = aeCreateFileEvent(events, f, {W}, "socket_writeable", c)
    BY <2>1, <2>2, WorldReady, AwaitReady, WorldIs
  <2>4. \A g \in Fds \ {f} : v.sockets[g] = sockets[g] /\ v.events[g] = events[g]
    BY <2>3 DEF aeCreateFileEvent, Kept, Sound, World, Worlds
  <2> QED BY <1>2, <2>1, <2>2, <2>3, <2>4, HasStays
<1> QED BY <1>1, <1>2 DEF delay_request

\* A handler runs for a connection whose descriptor is its own.
LEMMA ClientIs ==
  ASSUME Kept, NEW f \in Fds, events[f].mask # {}
  PROVE  /\ Client(f) \in Conns /\ fd[Client(f)] = f /\ Connected(Client(f))
<1>1. Client(f) \in Conns /\ fd[Client(f)] = f
  BY ClientOwns DEF Kept
<1>2. sockets[f].st # "closed"
  BY DEF Kept, Sound, Watched, World
<1> QED BY <1>1, <1>2 DEF Connected

LEMMA OneReconnect ==
  ASSUME NEW c \in Conns, NEW w, Ready(c, w), NEW v \in tcp_reconnect_socket(c, w), Becomes(v)
  PROVE  Renews(c)
<1>1. Ready(c, v) /\ NewOrNone(c, v)
  BY ReconnectReady
<1>2. World' = v
  BY <1>1, BecomesIs DEF Ready
<1> QED BY <1>1, <1>2 DEF Ready, Renews

LEMMA CountedRenews ==
  ASSUME Kept, NEW c \in Conns, Connected(c), NEW e \in {"connect", "read", "write"},
         \E w \in tcp_reconnect_socket(c, Counted(World, e)) : Becomes(w)
  PROVE  Renews(c)
<1>1. Ready(c, Counted(World, e))
  BY WorldReady, CountedReady
<1> QED BY <1>1, OneReconnect

LEMMA ConnectedEffect ==
  ASSUME Kept, NEW f \in Fds, socket_connected(f)
  PROVE  Stays(Client(f)) \/ Renews(Client(f))
<1>1. events[f].mask # {}
  BY DEF socket_connected, Fires
<1>2. PICK c \in Conns : c = Client(f) /\ fd[c] = f /\ Connected(c)
  BY <1>1, ClientIs
<1>3. CASE UNCHANGED <<fd, sockets, errors>>
           /\ events' = aeCreateFileEvent(
                aeCreateFileEvent(events, f, {R}, "socket_readable", c),
                f, {W}, "socket_writeable", c)
  <2>1. events \in [Fds -> Entry]
    BY DEF Kept, Sound, World, Worlds
  <2>2. /\ \A g \in Fds \ {f} : events'[g] = events[g]
        /\ events'[f].clientData = c
    BY <1>3, <2>1 DEF aeCreateFileEvent
  <2> QED BY <1>2, <1>3, <2>2 DEF Stays, Connected
<1>4. CASE \E w \in tcp_reconnect_socket(c, Counted(World, "connect")) : Becomes(w)
  BY <1>2, <1>4, CountedRenews
<1> QED BY <1>2, <1>3, <1>4 DEF socket_connected

LEMMA StopWritingIs ==
  ASSUME Kept, NEW f \in Fds, NEW c \in Conns, fd[c] = f
  PROVE  /\ StopWriting(c)[f].mask = events[f].mask \ {W}
         /\ StopWriting(c)[f].rfileProc = events[f].rfileProc
         /\ StopWriting(c)[f].wfileProc = events[f].wfileProc
         /\ StopWriting(c)[f].clientData = events[f].clientData
         /\ \A g \in Fds \ {f} : StopWriting(c)[g] = events[g]
<1>1. events \in [Fds -> Entry]
  BY DEF Kept, Sound, World, Worlds
<1> QED BY <1>1 DEF StopWriting, aeDeleteFileEvent, Entry, FileEvents

LEMMA WriteDelayedStays ==
  ASSUME Kept, NEW f \in Fds, WriteDelayed(f) PROVE Stays(Client(f))
<1>1. events[f].mask # {}
  BY DEF WriteDelayed, Fires
<1>2. PICK c \in Conns : c = Client(f) /\ fd[c] = f /\ sockets[f].st # "closed"
  BY <1>1, ClientIs DEF Connected
<1>3. UNCHANGED <<fd, sockets>> /\ events' = StopWriting(c)
  BY <1>2 DEF WriteDelayed
<1>4. \A g \in Fds \ {f} : StopWriting(c)[g] = events[g]
  BY <1>2, StopWritingIs
<1>5. StopWriting(c)[f].clientData = events[f].clientData
  BY <1>2, StopWritingIs
<1> QED BY <1>2, <1>3, <1>4, <1>5 DEF Stays, Client

LEMMA WriteStays ==
  ASSUME Kept, NEW f \in Fds, NEW n, WriteRequest(f, n) PROVE Stays(Client(f))
<1>1. events[f].mask # {}
  BY DEF WriteRequest, Fires
<1>2. PICK c \in Conns : c = Client(f) /\ fd[c] = f /\ sockets[f].st # "closed"
  BY <1>1, ClientIs DEF Connected
<1>3. sockets \in [Fds -> Socket]
  BY DEF Kept, Sound, World, Worlds
<1>4. PICK k : sockets' = [sockets EXCEPT ![f].owed = k]
  BY <1>2 DEF WriteRequest
<1>5. fd' = fd /\ sockets'[f].st = sockets[f].st
      /\ \A g \in Fds \ {f} : sockets'[g] = sockets[g]
  BY <1>3, <1>4 DEF WriteRequest, Socket
<1>6. UNCHANGED events \/ events' = StopWriting(c)
  BY <1>2 DEF WriteRequest
<1>7. StopWriting(c)[f].clientData = events[f].clientData
      /\ \A g \in Fds \ {f} : StopWriting(c)[g] = events[g]
  <2>1. StopWriting(c)[f].clientData = events[f].clientData
    BY <1>2, StopWritingIs
  <2>2. \A g \in Fds \ {f} : StopWriting(c)[g] = events[g]
    BY <1>2, StopWritingIs
  <2> QED BY <2>1, <2>2
<1> QED BY <1>2, <1>5, <1>6, <1>7 DEF Stays, Client

LEMMA WriteErrorRenews ==
  ASSUME Kept, NEW f \in Fds, WriteError(f) PROVE Renews(Client(f))
<1>1. events[f].mask # {}
  BY DEF WriteError, Fires
<1>2. PICK c \in Conns : c = Client(f) /\ Connected(c)
  BY <1>1, ClientIs
<1>3. \E w \in tcp_reconnect_socket(c, Counted(World, "write")) : Becomes(w)
  BY <1>2 DEF WriteError
<1> QED BY <1>2, <1>3, CountedRenews

LEMMA ReadsMask == ASSUME NEW f \in Fds, Reads(f) PROVE events[f].mask # {}
  BY DEF Reads

\* What a read leaves when it does not reconnect.
LEMMA TakenIs ==
  ASSUME Kept, NEW f \in Fds
  PROVE  /\ Taken(f).fd = fd /\ Taken(f).events = events
         /\ Taken(f).sockets[f].st = sockets[f].st
         /\ Taken(f).sockets[f].owed = sockets[f].owed
         /\ Taken(f).sockets[f].rx = Tail(sockets[f].rx)
         /\ \A g \in Fds \ {f} : Taken(f).sockets[g] = sockets[g]
<1>1. sockets \in [Fds -> Socket]
  BY DEF Kept, Sound, World, Worlds
<1> QED BY <1>1 DEF Taken, World, Socket

LEMMA ReadStays ==
  ASSUME Kept, NEW f \in Fds, ReadSome(f) \/ ReadResponse(f)
  PROVE  Stays(Client(f))
<1>1. events[f].mask # {} /\ sockets[f].rx # <<>>
  BY ReadsMask DEF ReadSome, ReadResponse, Holds
<1>2. PICK c \in Conns : c = Client(f) /\ fd[c] = f /\ Connected(c)
  BY <1>1, ClientIs
<1>3. PICK w : w = Taken(f)
  OBVIOUS
<1>4. Ready(c, w) /\ Has(w, c) /\ w.fd = fd
  BY <1>1, <1>2, <1>3, TakenReady
<1>5. \A g \in Fds \ {f} : w.sockets[g] = sockets[g]
  BY <1>3, TakenIs
<1>6. w.events = events
  BY <1>3, TakenIs
<1>7. CASE Becomes(w)
  BY <1>2, <1>4, <1>5, <1>6, <1>7, HasStays
<1>8. CASE Becomes(AwaitWritable(c, w))
  <2>1. PICK v : v = AwaitWritable(c, w)
    OBVIOUS
  <2>2. Has(v, c) /\ v.fd = fd
    BY <1>4, <2>1, AwaitReady
  <2>3. v.events = aeCreateFileEvent(w.events, fd[c], {W}, "socket_writeable", c)
    BY <1>4, <2>1, AwaitReady
  <2>4. v.sockets = w.sockets
    BY <1>4, <2>1, AwaitReady
  <2>5. events \in [Fds -> Entry]
    BY DEF Kept, Sound, World, Worlds
  <2>6. \A g \in Fds \ {f} : v.events[g] = events[g]
    BY <1>2, <1>6, <2>3, <2>5 DEF aeCreateFileEvent
  <2> QED BY <1>2, <1>5, <1>8, <2>1, <2>2, <2>4, <2>6, HasStays
<1> QED BY <1>2, <1>3, <1>7, <1>8 DEF ReadSome, ReadResponse, Answered

LEMMA ReadRenews ==
  ASSUME Kept, NEW f \in Fds,
         ReadClose(f) \/ ReadLastByte(f) \/ ReadError(f)
  PROVE  Renews(Client(f))
<1>1. events[f].mask # {}
  BY ReadsMask DEF ReadClose, ReadLastByte, ReadError
<1>2. PICK c \in Conns : c = Client(f) /\ fd[c] = f /\ Connected(c)
  BY <1>1, ClientIs
<1>3. CASE ReadError(f)
  BY <1>2, <1>3, CountedRenews DEF ReadError
<1>4. CASE ReadLastByte(f)
  <2>1. Ready(c, Answered(c, World))
    BY <1>2, WorldReady, AnsweredReady, WorldIs
  <2> QED BY <1>2, <1>4, <2>1, OneReconnect DEF ReadLastByte
<1>5. CASE ReadClose(f)
  <2>1. PICK w : w = Answered(c, Taken(f))
    OBVIOUS
  <2>2. sockets[f].rx # <<>>
    BY <1>5 DEF ReadClose, Holds
  <2>3. Ready(c, Taken(f)) /\ Has(Taken(f), c) /\ Taken(f).fd = fd
    BY <1>2, <2>2, TakenReady
  <2>4. Ready(c, w)
    BY <2>1, <2>3, AnsweredReady
  <2>5. CASE \E v \in tcp_reconnect_socket(c, w) : Becomes(v)
    BY <1>2, <2>4, <2>5, OneReconnect
  <2>6. ASSUME NEW v \in tcp_reconnect_socket(c, w),
               \E u \in tcp_reconnect_socket(c, Counted(v, "read")) : Becomes(u)
        PROVE  Renews(Client(f))
    <3>1. Ready(c, Counted(v, "read"))
      BY <2>4, ReconnectReady, CountedReady
    <3> QED BY <1>2, <2>6, <3>1, OneReconnect
  <2> QED BY <1>2, <1>5, <2>1, <2>5, <2>6 DEF ReadClose
<1> QED BY <1>3, <1>4, <1>5

\* The server opens no socket and closes none.
LEMMA ServerStays ==
  ASSUME Kept, NEW f \in Fds, Accept(f) \/ Reply(f) \/ Misbehave(f)
  PROVE  /\ Client(f) \in Conns /\ fd[Client(f)] = f /\ Connected(Client(f))
         /\ Stays(Client(f))
         /\ UNCHANGED <<now, events, connVars, delay_timers>>
<1>1. sockets[f].st # "closed"
  BY DEF Accept, Reply, Misbehave
<1>2. events[f].mask # {}
  BY <1>1 DEF Kept, Sound, Watched, World
<1>3. PICK c \in Conns : c = Client(f) /\ fd[c] = f /\ Connected(c)
  BY <1>2, ClientIs
<1>4. UNCHANGED <<now, loopVars, timerVars, fd, events, errors, connVars>>
  BY DEF Accept, Reply, Misbehave, Fault, EnvFrame
<1>5. sockets \in [Fds -> Socket]
  BY DEF Kept, Sound, World, Worlds
<1>6. PICK s : sockets' = [sockets EXCEPT ![f] = s] /\ s.st # "closed"
  <2>1. CASE Accept(f)
    <3>1. sockets' = [sockets EXCEPT ![f] = [sockets[f] EXCEPT !.st = "open"]]
      BY <1>5, <2>1 DEF Accept
    <3>2. [sockets[f] EXCEPT !.st = "open"].st = "open"
      BY <1>5 DEF Socket
    <3> QED BY <3>1, <3>2
  <2>2. CASE Reply(f)
    <3>1. PICK r \in Replies : sockets' = [sockets EXCEPT ![f] =
              [st |-> r.st, rx |-> sockets[f].rx \o r.rx,
               owed |-> IF r.st = "open" THEN sockets[f].owed - 1 ELSE 0]]
      BY <2>2 DEF Reply
    <3>2. PICK s : s = [st |-> r.st, rx |-> sockets[f].rx \o r.rx,
                       owed |-> IF r.st = "open" THEN sockets[f].owed - 1 ELSE 0]
      OBVIOUS
    <3>3. r.st # "closed"
      BY DEF Replies
    <3>4. s.st # "closed"
      BY <3>2, <3>3
    <3> QED BY <3>1, <3>2, <3>4
  <2>3. CASE Misbehave(f)
    <3>1. [sockets[f] EXCEPT !.st = "rst"].st = "rst"
      BY <1>5 DEF Socket
    <3> QED BY <2>3, <3>1 DEF Misbehave, Fault
  <2> QED BY <2>1, <2>2, <2>3
<1>7. sockets'[f].st # "closed" /\ \A g \in Fds \ {f} : sockets'[g] = sockets[g]
  BY <1>5, <1>6
<1> QED BY <1>3, <1>4, <1>7 DEF Stays, Client, timerVars

-----------------------------------------------------------------------------
(* Who takes over a socket.                                                    *)

\* The steps of the handlers: the descriptor is known, and the connection its own.
Handles(f) == socket_connected(f) \/ WriteStep(f) \/ ReadStep(f)

LEMMA HandlesMask ==
  ASSUME NEW f \in Fds, Handles(f) PROVE events[f].mask # {}
  BY DEF Handles, socket_connected, WriteStep, WriteDelayed, WriteError, WriteRequest,
         ReadStep, ReadSome, ReadResponse, ReadClose, ReadLastByte, ReadError, Fires,
         Reads

\* A step for one connection leaves every open socket to whom it belongs.
Keeps == \A f \in Fds : R \in events[f].mask /\ R \in events'[f].mask =>
           Client(f)' = Client(f)

LEMMA AsideKeeps ==
  ASSUME Kept, Kept', NEW c \in Conns, Aside(c, World, World') PROVE Keeps
<1> SUFFICES ASSUME NEW f \in Fds, R \in events[f].mask, R \in events'[f].mask
             PROVE  Client(f)' = Client(f)
  BY DEF Keeps
<1>1. PICK d \in Conns : /\ d = Client(f) /\ World.fd[d] = f /\ Has(World, d)
                         /\ World.events[f].clientData = d
  <2>1. Client(f) \in Conns /\ fd[Client(f)] = f /\ Connected(Client(f))
    BY ClientIs
  <2> QED BY <2>1, ConnectedIs, WorldIs DEF Client
<1>2. PICK e \in Conns : /\ e = Client(f)' /\ World'.fd[e] = f /\ Has(World', e)
                         /\ World'.events[f].clientData = e
  <2>1. /\ World'.events[f].mask # {} /\ World'.events[f].clientData = Client(f)'
    BY WorldNext DEF Client
  <2>2. Sound(World')
    BY DEF Kept
  <2>3. /\ Client(f)' \in Conns /\ World'.fd[Client(f)'] = f
        /\ World'.sockets[f].st # "closed"
    BY <2>1, <2>2 DEF Sound, Watched
  <2> QED BY <2>1, <2>3 DEF Has
<1>3. CASE d # c
  <2>1. World'.events[f] = World.events[f]
    BY <1>1, <1>3 DEF Aside
  <2> QED BY <1>1, <1>2, <2>1
<1>4. CASE d = c /\ e # c
  <2>1. Has(World, e) /\ World'.fd[e] = World.fd[e]
    BY <1>2, <1>4 DEF Aside
  <2>2. World.events[f].clientData = e
    BY <1>2, <2>1 DEF Has
  <2> QED BY <1>1, <1>2, <2>2
<1> QED BY <1>1, <1>2, <1>3, <1>4

LEMMA StepAside ==
  ASSUME Kept, [Next]_vars
  PROVE  \/ UNCHANGED <<fd, events, sockets>>
         \/ \E c \in Conns : Aside(c, World, World')
         \/ \E c \in Conns : /\ delay_timers[c] # <<>> /\ ~Connected(c)
                             /\ Becomes(AwaitWritable(c, World))
<1>1. ASSUME NEW c \in Conns, Connected(c), Stays(c) \/ Renews(c)
      PROVE  Aside(c, World, World')
  BY <1>1, StaysAside DEF Renews
<1>2. ASSUME NEW c \in Conns, NEW i, delay_request(c, i), ~Connected(c)
      PROVE  \/ UNCHANGED <<fd, events, sockets>>
             \/ delay_timers[c] # <<>> /\ Becomes(AwaitWritable(c, World))
  BY <1>2 DEF delay_request, ioVars
<1>3. ASSUME NEW f \in Fds, Handles(f)
      PROVE  \E c \in Conns : Aside(c, World, World')
  <2>1. Client(f) \in Conns /\ Connected(Client(f))
    BY <1>3, HandlesMask, ClientIs
  <2>2. Stays(Client(f)) \/ Renews(Client(f))
    BY <1>3, ConnectedEffect, WriteDelayedStays, WriteStays, WriteErrorRenews,
       ReadStays, ReadRenews DEF Handles, WriteStep, ReadStep
  <2> QED BY <1>1, <2>1, <2>2
<1>4. ASSUME NEW f \in Fds, Accept(f) \/ Reply(f) \/ Misbehave(f)
      PROVE  \E c \in Conns : Aside(c, World, World')
  BY <1>1, <1>4, ServerStays
<1>5. CASE check_timeouts \/ LeaveLoop \/ handler \/ Tick \/ Terminated \/ UNCHANGED vars
  BY <1>5 DEF check_timeouts, LeaveLoop, handler, Tick, Terminated, vars, ioVars
<1>6. ASSUME NEW c \in Conns, delayed_initial_connect(c)
      PROVE  Aside(c, World, World')
  BY <1>6, OpenRenews DEF Renews
<1>7. ASSUME NEW c \in Conns, NEW i, delay_request(c, i), Connected(c)
      PROVE  UNCHANGED <<fd, events, sockets>> \/ Aside(c, World, World')
  BY <1>1, <1>7, DelayStays
<1> QED BY <1>2, <1>3, <1>4, <1>5, <1>6, <1>7 DEF Next, Handles, TimersOf, ServerStep

LEMMA StepKeeps ==
  ASSUME Kept, Kept', [Next]_vars
  PROVE  \A f \in Fds : R \in events[f].mask /\ R \in events'[f].mask =>
           \/ Client(f)' = Client(f)
           \/ \E c \in Conns : c = Client(f)' /\ delay_timers[c] # <<>> /\ ~Connected(c)
<1>1. CASE UNCHANGED <<fd, events, sockets>>
  BY <1>1 DEF Client
<1>2. CASE \E c \in Conns : Aside(c, World, World')
  BY <1>2, AsideKeeps DEF Keeps
<1>3. ASSUME NEW c \in Conns, delay_timers[c] # <<>>, ~Connected(c),
             Becomes(AwaitWritable(c, World)), NEW f \in Fds
      PROVE  Client(f)' = Client(f) \/ Client(f)' = c
  <2>1. events \in [Fds -> Entry]
    BY DEF Kept, Sound, World, Worlds
  <2>2. CASE AwaitWritable(c, World) = World
    BY <1>3, <2>2, WorldIs DEF Becomes, Client
  <2>3. CASE /\ fd[c] \in Fds
             /\ AwaitWritable(c, World) = [World EXCEPT !.events =
                  aeCreateFileEvent(@, fd[c], {W}, "socket_writeable", c)]
    <3>1. events' = aeCreateFileEvent(events, fd[c], {W}, "socket_writeable", c)
      BY <1>3, <2>3 DEF Becomes, World
    <3>2. \A g \in Fds \ {fd[c]} : events'[g] = events[g]
      BY <2>1, <3>1 DEF aeCreateFileEvent
    <3>3. events'[fd[c]].clientData = c
      BY <2>1, <2>3, <3>1 DEF aeCreateFileEvent
    <3> QED BY <3>2, <3>3 DEF Client
  <2> QED BY <2>2, <2>3 DEF AwaitWritable
<1> QED BY <1>1, <1>2, <1>3, StepAside

\* Nobody takes over an open socket, whatever is closed and opened again, however
\* many connects fail, and whatever the server and the network do, but a connection
\* that lost its socket in its sleep and could not get another one.
THEOREM SocketIsOwn == Spec => SocketsKept
<1>1. Inv /\ Inv' /\ [Next]_vars =>
        [\A f \in Fds : R \in events[f].mask /\ R \in events'[f].mask =>
           \/ Client(f)' = Client(f)
           \/ \E c \in Conns : c = Client(f)' /\ delay_timers[c] # <<>> /\ ~Connected(c)]_vars
  BY StepKeeps DEF Inv
<1> QED BY <1>1, Invariant, PTL DEF Spec, SocketsKept

-----------------------------------------------------------------------------
(* What a step leaves to the other connections, and what each stage allows.    *)

\* The part of the thread that belongs to a connection.
Owner == [timers : Seq(Nat), written : 0..(Length - 1),
          parser : {"start", "mid", "until_eof", "dead"},
          pending : 0..(Wrap - 1), has : BOOLEAN]

LEMMA OwnType == ASSUME Groups, NEW c \in Conns PROVE Own(c) \in Owner
  BY DEF Groups, BatchTyped, SendTyped, ConnTyped, Own, Owner

LEMMA OwnTypeNext == ASSUME Groups', NEW c \in Conns PROVE Own(c)' \in Owner
  BY DEF Groups, BatchTyped, SendTyped, ConnTyped, Own, Owner

LEMMA OwnIs ==
  ASSUME NEW c
  PROVE  /\ Own(c).timers = delay_timers[c] /\ Own(c).written = written[c]
         /\ Own(c).parser = parser[c] /\ Own(c).pending = pending[c]
         /\ Own(c).has = has_pending[c]
         /\ Own(c)'.timers = delay_timers'[c] /\ Own(c)'.written = written'[c]
         /\ Own(c)'.parser = parser'[c] /\ Own(c)'.pending = pending'[c]
         /\ Own(c)'.has = has_pending'[c]
  BY DEF Own

\* What a step for one connection does not touch of the others.
Untouched(c) ==
  \A d \in Conns \ {c} :
    Own(d)' = Own(d) /\ complete'[d] = complete[d] /\ thread_start'[d] = thread_start[d]

LEMMA SameSettled ==
  ASSUME NEW d, Settled(d), Connected(d)' <=> Connected(d),
         Connected(d) => /\ fd'[d] = fd[d] /\ sockets'[fd[d]] = sockets[fd[d]]
                         /\ events'[fd[d]] = events[fd[d]],
         Own(d)' = Own(d), complete'[d] = complete[d], pending'[d] = pending[d],
         delay_timers'[d] = delay_timers[d], thread_start'[d] = thread_start[d], now' = now
  PROVE  Settled(d)'
<1>1. \A n : Ahead(d, n) => Ahead(d, n)'
  BY DEF Ahead, Schedule!Owed
<1>2. Connected(d) => Ev(d)' = Ev(d) /\ So(d)' = So(d)
  BY DEF Ev, So
<1>3. Stage(d)'
  BY <1>2 DEF Settled, Stage
<1>4. Ahead(d, complete[d])'
  BY <1>1 DEF Settled, RateKept, Ahead, Schedule!Owed
<1>5. Connected(d)' /\ Busy(Ev(d)', So(d)', Own(d)') => Ahead(d, complete[d] + pending[d])'
  BY <1>2 DEF Settled, RateKept, Ahead, Schedule!Owed
<1> QED BY <1>3, <1>4, <1>5 DEF Settled, RateKept

LEMMA OneSettled ==
  ASSUME Ordered, NEW c \in Conns, Aside(c, World, World'), Untouched(c), now' = now,
         Settled(c)'
  PROVE  Ordered'
<1>1. ASSUME NEW d \in Conns \ {c} PROVE Settled(d)'
  <2>1. /\ Connected(d)' <=> Connected(d)
        /\ Connected(d) => /\ fd'[d] = fd[d] /\ sockets'[fd[d]] = sockets[fd[d]]
                           /\ events'[fd[d]] = events[fd[d]]
    BY ConnectedIs, WorldIs, WorldNext DEF Aside
  <2>2. Own(d)' = Own(d) /\ complete'[d] = complete[d] /\ thread_start'[d] = thread_start[d]
    BY DEF Untouched
  <2>3. pending'[d] = pending[d] /\ delay_timers'[d] = delay_timers[d]
    BY <2>2, OwnIs
  <2> QED BY <2>1, <2>2, <2>3, SameSettled DEF Ordered
<1> QED BY <1>1 DEF Ordered

\* A new socket, or none.
LEMMA RenewedSettled ==
  ASSUME NEW c \in Conns, Renews(c), delay_timers'[c] = <<>>, Ahead(c, complete[c])'
  PROVE  Settled(c)'
<1>1. CASE ~Connected(c)'
  BY <1>1 DEF Settled, Stage, RateKept
<1>2. CASE NewAt(c, World') /\ Connected(c)'
  <2>1. PICK f : f = fd'[c]
    OBVIOUS
  <2>2. /\ f \in Fds /\ sockets'[f] = Fresh /\ W \in events'[f].mask
        /\ events'[f].rfileProc = "socket_connected"
        /\ events'[f].wfileProc = "socket_connected"
    BY <1>2, <2>1, WorldNext DEF NewAt
  <2>3. Ev(c)' = events'[f] /\ So(c)' = sockets'[f]
    BY <2>1 DEF Ev, So
  <2>4. Connecting(Ev(c)', So(c)', Own(c)')
    BY <2>2, <2>3, OwnIs DEF Connecting, Fresh
  <2>5. ~Busy(Ev(c)', So(c)', Own(c)')
    BY <2>2, <2>3 DEF Busy
  <2>6. Stage(c)'
    BY <1>2, <2>4 DEF Stage
  <2> QED BY <2>5, <2>6 DEF Settled, RateKept
<1>3. NewAt(c, World') => Connected(c)'
  BY NewHas, ConnectedIs
<1>4. ~Has(World', c) => ~Connected(c)'
  BY ConnectedIs
<1> QED BY <1>1, <1>2, <1>3, <1>4 DEF Renews, NewOrNone

LEMMA AheadLess ==
  ASSUME NEW c \in Conns, thread_start[c] \in Nat, now \in Nat, NEW m \in Nat, NEW n \in Nat, n <= m, Ahead(c, m)
  PROVE  Ahead(c, n)
<1>1. Pipeline \in Nat /\ Period \in Nat
  BY ConstantsAssumption, ThreadAssumption
<1> SUFFICES ASSUME n > Pipeline PROVE thread_start[c] + (n - Pipeline) * Period <= now
  BY DEF Ahead, Schedule!Owed
<1>2. thread_start[c] + (m - Pipeline) * Period <= now
  BY <1>1 DEF Ahead, Schedule!Owed
<1>3. PICK a \in Nat : a = n - Pipeline
  BY <1>1
<1>4. PICK b \in Nat : b = m - Pipeline
  BY <1>1
<1>5. a * Period <= b * Period /\ a * Period \in Nat /\ b * Period \in Nat
  BY <1>1, <1>3, <1>4
<1> QED BY <1>2, <1>3, <1>4, <1>5

\* What the handler that runs says of the stage.
LEMMA StageConnected ==
  ASSUME NEW c \in Conns, NEW f \in Fds, fd[c] = f, Connected(c), Settled(c),
         Fires(f, "socket_connected")
  PROVE  Connecting(events[f], sockets[f], Own(c))
<1>1. \/ events[f].rfileProc = "socket_connected"
      \/ W \in events[f].mask /\ events[f].wfileProc = "socket_connected"
  BY DEF Fires
<1> QED BY <1>1 DEF Settled, Stage, Ev, So, Idle, Busy

LEMMA StageWrites ==
  ASSUME NEW c \in Conns, NEW f \in Fds, fd[c] = f, Connected(c), Settled(c),
         Fires(f, "socket_writeable")
  PROVE  /\ W \in events[f].mask
         /\ \/ Idle(events[f], sockets[f], Own(c)) /\ written[c] = 0
            \/ Busy(events[f], sockets[f], Own(c)) /\ written[c] > 0
<1>1. \/ events[f].rfileProc = "socket_writeable"
      \/ W \in events[f].mask /\ events[f].wfileProc = "socket_writeable"
  BY DEF Fires
<1> QED BY <1>1, OwnIs DEF Settled, Stage, Ev, So, Connecting, Idle, Busy

LEMMA StageReads ==
  ASSUME NEW c \in Conns, NEW f \in Fds, fd[c] = f, Connected(c), Settled(c), Reads(f),
         sockets[f].rx # <<>> \/ sockets[f].st \in {"fin", "rst"}
  PROVE  Busy(events[f], sockets[f], Own(c))
  BY DEF Settled, Stage, Ev, So, Connecting, Idle, Reads

LEMMA BusyHas ==
  ASSUME Groups, NEW c \in Conns, NEW e, NEW s, Busy(e, s, Own(c))
  PROVE  /\ has_pending[c] /\ delay_timers[c] = <<>>
         /\ pending[c] \in Nat /\ pending[c] > 0 /\ Left(c) = pending[c] - 1
<1>1. has_pending[c] /\ delay_timers[c] = <<>> /\ pending[c] > 0
  BY OwnIs DEF Busy, Expects
<1>2. pending[c] \in 0..(Wrap - 1) /\ Wrap \in Nat
  BY ConstantsAssumption DEF Groups, BatchTyped
<1>3. PICK p \in 0..(Wrap - 1) : p = pending[c]
  BY <1>2
<1>4. (p - 1) % Wrap = p - 1
  BY <1>1, <1>2, <1>3
<1> QED BY <1>1, <1>2, <1>3, <1>4 DEF Left

-----------------------------------------------------------------------------
(* A busy connection, as what it reads and what the server sends change it.    *)

LEMMA TailLast ==
  ASSUME NEW T, NEW s \in Seq(T), s # <<>>, Tail(s) # <<>>
  PROVE  Tail(s)[Len(Tail(s))] = s[Len(s)]
<1>1. PICK n \in Nat : /\ n = Len(s) /\ n >= 1 /\ Len(Tail(s)) = n - 1
                       /\ \A i \in 1..(n - 1) : Tail(s)[i] = s[i + 1]
  BY TailIs
<1>2. n - 1 # 0
  BY <1>1
<1>3. n - 1 \in 1..(n - 1) /\ (n - 1) + 1 = n
  BY <1>1, <1>2
<1> QED BY <1>1, <1>3

LEMMA TailWithin ==
  ASSUME NEW T, NEW s \in Seq(T), s # <<>>, NEW S, \A i \in DOMAIN s : s[i] \in S
  PROVE  \A i \in DOMAIN Tail(s) : Tail(s)[i] \in S
<1>1. PICK n \in Nat : /\ n = Len(s) /\ n >= 1 /\ DOMAIN s = 1..n
                       /\ DOMAIN Tail(s) = 1..(n - 1)
                       /\ \A i \in 1..(n - 1) : Tail(s)[i] = s[i + 1]
  BY TailIs
<1>2. \A i \in 1..(n - 1) : i + 1 \in 1..n
  BY <1>1
<1> QED BY <1>1, <1>2

LEMMA SentOfBounds ==
  ASSUME NEW e, NEW o \in Owner
  PROVE  /\ SentOf(e, o) \in Nat /\ SentOf(e, o) <= Pipeline
         /\ W \in e.mask => SentOf(e, o) < Pipeline
<1>1. Pipeline \in Nat
  BY ConstantsAssumption
<1>2. o.written \in 0..(Length - 1)
  BY DEF Owner
<1>3. Sent(o.written) \in Nat /\ Sent(o.written) < Pipeline
  BY <1>2, SentBounds
<1> QED BY <1>1, <1>3 DEF SentOf

\* What there is on the wire, and of what the handler expects.
LEMMA Expected ==
  ASSUME NEW e, NEW s \in Socket, NEW o \in Owner, Busy(e, s, o)
  PROVE  /\ s.rx \in Seq(Things) /\ s.owed \in Nat /\ o.pending \in Nat /\ o.pending > 0
         /\ Count(s.rx, Endings) \in Nat /\ Count(s.rx, {"resp"}) \in Nat
         /\ Count(s.rx, {"resp"}) <= Count(s.rx, Endings)
         /\ s.st = "open" \/ s.st \in {"fin", "rst"}
         /\ s.st # "open" \/ s.owed > 0 => o.pending > Count(s.rx, {"resp"})
<1>1. s.rx \in Seq(Things) /\ s.owed \in Nat
  BY DEF Socket, Things
<1>2. Count(s.rx, Endings) \in Nat /\ Count(s.rx, {"resp"}) \in Nat
  BY <1>1, CountType
<1>3. {"resp"} \subseteq Endings
  BY DEF Endings, Things
<1>4. Count(s.rx, {"resp"}) <= Count(s.rx, Endings)
  BY <1>1, <1>3, CountLess
<1>5. o.pending \in Nat /\ o.pending > 0
  BY ConstantsAssumption DEF Owner, Busy, Expects
<1>6. ASSUME s.st = "open", s.owed > 0 PROVE o.pending > Count(s.rx, {"resp"})
  <2>1. o.pending = s.owed + Count(s.rx, Endings) + Pipeline - SentOf(e, o)
    BY <1>6 DEF Busy, Expects
  <2>2. SentOf(e, o) \in Nat /\ SentOf(e, o) <= Pipeline /\ Pipeline \in Nat
    BY SentOfBounds, ConstantsAssumption
  <2> QED BY <1>1, <1>2, <1>4, <1>6, <2>1, <2>2
<1> QED BY <1>1, <1>2, <1>4, <1>5, <1>6 DEF Busy, Expects

\* What is read ends no response that the handler counts.
LEMMA TakeSome ==
  ASSUME NEW e, NEW s \in Socket, NEW t \in Socket, NEW o \in Owner, NEW p \in Owner,
         Busy(e, s, o), s.rx # <<>>, s.st = "open" => Head(s.rx) = "part",
         t.st = s.st, t.owed = s.owed, t.rx = Tail(s.rx),
         p.timers = o.timers, p.written = o.written, p.has = o.has,
         p.pending = o.pending, p.parser \in {"mid", "until_eof"},
         p.parser = "until_eof" => s.st # "open"
  PROVE  Busy(e, t, p)
<1>1. s.rx \in Seq(Things)
  BY Expected
<1>2. SentOf(e, p) = SentOf(e, o)
  BY DEF SentOf
<1>3. s.st = "open" => Count(t.rx, Endings) = Count(s.rx, Endings)
  <2>1. Count(s.rx, Endings) = IF Head(s.rx) \in Endings THEN Count(t.rx, Endings) + 1
                                                          ELSE Count(t.rx, Endings)
    BY <1>1, CountTail
  <2> QED BY <2>1 DEF Endings
<1>4. Count(t.rx, {"resp"}) <= Count(s.rx, {"resp"})
  <2>1. Count(s.rx, {"resp"}) =
          IF Head(s.rx) \in {"resp"} THEN Count(t.rx, {"resp"}) + 1
                                     ELSE Count(t.rx, {"resp"})
    BY <1>1, CountTail
  <2>2. t.rx \in Seq(Things)
    BY DEF Socket, Things
  <2>3. Count(t.rx, {"resp"}) \in Nat
    BY <2>2, CountType
  <2> QED BY <2>1, <2>3
<1>5. Expects(e, t, p)
  <2>1. s.st # "open" => o.pending > Count(t.rx, {"resp"})
    <3>1. Count(t.rx, {"resp"}) \in Nat
      <4>1. t.rx \in Seq(Things)
        BY DEF Socket, Things
      <4> QED BY <4>1, CountType
    <3>2. o.pending \in Nat /\ Count(s.rx, {"resp"}) \in Nat
      BY Expected
    <3> QED BY <1>4, <3>1, <3>2 DEF Busy, Expects
  <2> QED BY <1>2, <1>3, <2>1 DEF Busy, Expects
<1>6. EndsWith(t, p)
  <2>1. t.rx # <<>> => t.rx[Len(t.rx)] = s.rx[Len(s.rx)]
    BY <1>1, TailLast
  <2>2. s.st = "open" => \A i \in DOMAIN t.rx : t.rx[i] \in {"part", "resp", "bad"}
    BY <1>1, TailWithin DEF Busy, EndsWith
  <2> QED BY <2>1, <2>2 DEF Busy, EndsWith
<1> QED BY <1>5, <1>6 DEF Busy

\* A response that keeps the connection, and more are expected.
LEMMA TakeResponse ==
  ASSUME NEW e, NEW s \in Socket, NEW t \in Socket, NEW o \in Owner, NEW p \in Owner,
         Busy(e, s, o), s.rx # <<>>, Head(s.rx) = "resp",
         t.st = s.st, t.owed = s.owed, t.rx = Tail(s.rx),
         p.timers = o.timers, p.written = o.written, p.has,
         p.pending = o.pending - 1, p.pending # 0, p.parser = "start"
  PROVE  Busy(e, t, p)
<1>1. s.rx \in Seq(Things) /\ t.rx \in Seq(Things)
  BY DEF Socket, Things
<1>2. SentOf(e, p) = SentOf(e, o) /\ SentOf(e, o) \in Nat
  BY SentOfBounds DEF SentOf
<1>3. Count(s.rx, Endings) = Count(t.rx, Endings) + 1
  <2>1. Count(s.rx, Endings) = IF Head(s.rx) \in Endings THEN Count(t.rx, Endings) + 1
                                                          ELSE Count(t.rx, Endings)
    BY <1>1, CountTail
  <2> QED BY <2>1 DEF Endings, Things
<1>4. Count(s.rx, {"resp"}) = Count(t.rx, {"resp"}) + 1
  <2>1. Count(s.rx, {"resp"}) =
          IF Head(s.rx) \in {"resp"} THEN Count(t.rx, {"resp"}) + 1
                                     ELSE Count(t.rx, {"resp"})
    BY <1>1, CountTail
  <2> QED BY <2>1
<1>5. Count(t.rx, Endings) \in Nat /\ Count(t.rx, {"resp"}) \in Nat
  BY <1>1, CountType
<1>6. o.pending \in Nat /\ p.pending \in Nat /\ s.owed \in Nat /\ Pipeline \in Nat
  BY Expected, ConstantsAssumption DEF Owner
<1>7. Expects(e, t, p)
  <2>1. s.st = "open" => o.pending = s.owed + Count(s.rx, Endings) + Pipeline - SentOf(e, o)
    BY DEF Busy, Expects
  <2>2. s.st # "open" => o.pending > Count(s.rx, {"resp"})
    BY DEF Busy, Expects
  <2>3. ASSUME s.st = "open"
        PROVE  p.pending = s.owed + Count(t.rx, Endings) + Pipeline - SentOf(e, o)
    <3>1. PICK a \in Nat, b \in Nat, k \in Nat :
            a = s.owed /\ b = Count(t.rx, Endings) /\ k = SentOf(e, o)
      BY <1>2, <1>5, <1>6
    <3>2. o.pending = a + (b + 1) + Pipeline - k
      BY <1>3, <2>1, <2>3, <3>1
    <3>3. p.pending = a + b + Pipeline - k
      BY <1>6, <3>2
    <3> QED BY <3>1, <3>3
  <2>4. s.st # "open" => p.pending > Count(t.rx, {"resp"})
    BY <1>4, <1>5, <1>6, <2>2
  <2> QED BY <1>2, <1>6, <2>3, <2>4 DEF Expects
<1>8. EndsWith(t, p)
  <2>1. t.rx # <<>> => t.rx[Len(t.rx)] = s.rx[Len(s.rx)]
    BY <1>1, TailLast
  <2>2. s.st = "open" => \A i \in DOMAIN t.rx : t.rx[i] \in {"part", "resp", "bad"}
    BY <1>1, TailWithin DEF Busy, EndsWith
  <2>3. t.rx = <<>> => s.rx[Len(s.rx)] = "resp"
    <3>1. /\ Len(s.rx) \in Nat /\ Len(s.rx) >= 1 /\ Head(s.rx) = s.rx[1]
          /\ Len(t.rx) = Len(s.rx) - 1
      BY <1>1, TailIs
    <3>2. Len(<<>>) = 0
      OBVIOUS
    <3>3. ASSUME t.rx = <<>> PROVE s.rx[Len(s.rx)] = "resp"
      <4>1. Len(t.rx) = 0
        BY <3>2, <3>3
      <4>2. Len(s.rx) = 1
        BY <3>1, <4>1
      <4> QED BY <3>1, <4>2
    <3> QED BY <3>3
  <2> QED BY <2>1, <2>2, <2>3 DEF Busy, EndsWith
<1> QED BY <1>7, <1>8 DEF Busy

\* The last response expected is the last thing on the wire.
LEMMA TakeLast ==
  ASSUME NEW e, NEW s \in Socket, NEW o \in Owner,
         Busy(e, s, o), s.rx # <<>>, Head(s.rx) = "resp", o.pending = 1
  PROVE  /\ s.st = "open" /\ s.owed = 0 /\ Tail(s.rx) = <<>>
         /\ W \notin e.mask /\ o.written = 0
<1>1. s.rx \in Seq(Things) /\ Tail(s.rx) \in Seq(Things)
  BY TailIs DEF Socket, Things
<1>2. PICK t : t = Tail(s.rx)
  OBVIOUS
<1>3. Count(s.rx, Endings) = Count(t, Endings) + 1
  <2>1. Count(s.rx, Endings) = IF Head(s.rx) \in Endings THEN Count(t, Endings) + 1
                                                          ELSE Count(t, Endings)
    BY <1>1, <1>2, CountTail
  <2> QED BY <2>1 DEF Endings, Things
<1>4. Count(s.rx, {"resp"}) = Count(t, {"resp"}) + 1
  <2>1. Count(s.rx, {"resp"}) =
          IF Head(s.rx) \in {"resp"} THEN Count(t, {"resp"}) + 1 ELSE Count(t, {"resp"})
    BY <1>1, <1>2, CountTail
  <2> QED BY <2>1
<1>5. Count(t, Endings) \in Nat /\ Count(t, {"resp"}) \in Nat
  BY <1>1, <1>2, CountType
<1>6. s.st = "open"
  BY <1>4, <1>5 DEF Busy, Expects
<1>7. /\ SentOf(e, o) \in Nat /\ SentOf(e, o) <= Pipeline /\ Pipeline \in Nat
      /\ W \in e.mask => SentOf(e, o) < Pipeline
  BY SentOfBounds, ConstantsAssumption
<1>8. 1 = s.owed + Count(s.rx, Endings) + Pipeline - SentOf(e, o) /\ s.owed \in Nat
  BY <1>6 DEF Busy, Expects, Socket
<1>9. s.owed = 0 /\ Count(t, Endings) = 0 /\ W \notin e.mask
  BY <1>3, <1>5, <1>7, <1>8
<1>10. t = <<>>
  <2>1. t # <<>> => t[Len(t)] \in Endings
    BY <1>1, <1>2, <1>6, TailLast DEF Busy, EndsWith
  <2>2. t # <<>> => Count(t, Endings) > 0
    BY <1>1, <1>2, <2>1, CountLast
  <2> QED BY <1>9, <2>2
<1> QED BY <1>2, <1>6, <1>9, <1>10 DEF Busy

LEMMA AppendWithin ==
  ASSUME NEW T, NEW s \in Seq(T), NEW x \in T, NEW S, x \in S, \A i \in DOMAIN s : s[i] \in S
  PROVE  \A i \in DOMAIN Append(s, x) : Append(s, x)[i] \in S
<1>1. PICK n \in Nat : n = Len(s) /\ DOMAIN s = 1..n
  OBVIOUS
<1>2. /\ DOMAIN Append(s, x) = 1..(n + 1) /\ Append(s, x)[n + 1] = x
      /\ \A i \in 1..n : Append(s, x)[i] = s[i]
  BY <1>1
<1>3. \A i \in 1..(n + 1) : i \in 1..n \/ i = n + 1
  BY <1>1
<1> QED BY <1>1, <1>2, <1>3

\* The server ends a response it owes: it is on its way, and not owed any more.
\* What it sent before, r, ends none.
LEMMA SendEnding ==
  ASSUME NEW e, NEW s \in Socket, NEW t, NEW o \in Owner, NEW x \in {"resp", "bad"},
         NEW r \in Seq(Things), Count(r, Endings) = Count(s.rx, Endings),
         \A i \in DOMAIN r : r[i] \in {"part", "resp", "bad"},
         Busy(e, s, o), s.st = "open",
         t.st = "open", t.owed = s.owed - 1, t.rx = Append(r, x)
  PROVE  Busy(e, t, o)
<1>1. x \in Things /\ x \in Endings /\ x \in {"part", "resp", "bad"}
  BY DEF Things, Endings
<1>2. Count(t.rx, Endings) = Count(s.rx, Endings) + 1
  <2>1. Count(Append(r, x), Endings) = IF x \in Endings THEN Count(r, Endings) + 1
                                                         ELSE Count(r, Endings)
    BY <1>1, CountAppend
  <2> QED BY <1>1, <2>1
<1>3. Count(s.rx, Endings) \in Nat /\ s.owed \in Nat /\ SentOf(e, o) \in Nat /\ Pipeline \in Nat
  BY Expected, SentOfBounds, ConstantsAssumption
<1>4. Expects(e, t, o)
  <2>1. o.pending = s.owed + Count(s.rx, Endings) + Pipeline - SentOf(e, o)
    BY DEF Busy, Expects
  <2>2. PICK a \in Nat, b \in Nat, k \in Nat :
          a = s.owed /\ b = Count(s.rx, Endings) /\ k = SentOf(e, o)
    BY <1>3
  <2>3. o.pending = (a - 1) + (b + 1) + Pipeline - k
    <3>1. o.pending = a + b + Pipeline - k
      BY <2>1, <2>2
    <3>2. a + b + Pipeline - k = (a - 1) + (b + 1) + Pipeline - k
      BY <1>3
    <3> QED BY <3>1, <3>2
  <2>4. t.owed = a - 1 /\ Count(t.rx, Endings) = b + 1
    BY <1>2, <2>2
  <2>5. o.pending = t.owed + Count(t.rx, Endings) + Pipeline - SentOf(e, o)
    BY <2>2, <2>3, <2>4
  <2> QED BY <2>5 DEF Busy, Expects
<1>5. EndsWith(t, o)
  <2>1. \A i \in DOMAIN t.rx : t.rx[i] \in {"part", "resp", "bad"}
    BY <1>1, AppendWithin
  <2>2. t.rx[Len(t.rx)] = x
    <3>1. /\ Len(Append(r, x)) = Len(r) + 1 /\ Append(r, x)[Len(r) + 1] = x
      OBVIOUS
    <3> QED BY <3>1
  <2> QED BY <1>1, <2>1, <2>2 DEF EndsWith
<1> QED BY <1>4, <1>5 DEF Busy

\* The connection ends, and what was still to come is lost.
LEMMA SendEnd ==
  ASSUME NEW e, NEW s \in Socket, NEW t, NEW o \in Owner,
         Busy(e, s, o), s.st # "open" \/ s.owed > 0,
         t.st \in {"fin", "rst"}, Count(t.rx, {"resp"}) \in Nat,
         Count(t.rx, {"resp"}) <= Count(s.rx, {"resp"}),
         t.st = "fin" => "fin" \in Env \/ (t.rx # <<>> /\ t.rx[Len(t.rx)] \in {"part", "close"})
  PROVE  Busy(e, t, o)
<1>1. o.pending \in Nat /\ Count(s.rx, {"resp"}) \in Nat /\ o.pending > Count(s.rx, {"resp"})
  BY Expected
<1>2. o.pending > Count(t.rx, {"resp"})
  BY <1>1
<1>3. Expects(e, t, o)
  BY <1>2 DEF Busy, Expects
<1>4. EndsWith(t, o)
  BY DEF EndsWith
<1> QED BY <1>3, <1>4 DEF Busy

-----------------------------------------------------------------------------
(* The timers and the connect.                                                 *)

\* What the proofs of the steps start from.
Good == Groups /\ Kept /\ Ordered

LEMMA StageNext ==
  ASSUME NEW c \in Conns, NEW f \in Fds, fd'[c] = f, Connected(c)',
         \/ Connecting(events'[f], sockets'[f], Own(c)')
         \/ Idle(events'[f], sockets'[f], Own(c)')
         \/ Busy(events'[f], sockets'[f], Own(c)'),
         Ahead(c, complete[c])',
         Busy(events'[f], sockets'[f], Own(c)') => Ahead(c, complete[c] + pending[c])'
  PROVE  Settled(c)'
<1>1. Ev(c)' = events'[f] /\ So(c)' = sockets'[f]
  BY DEF Ev, So
<1> QED BY <1>1 DEF Settled, Stage, RateKept

LEMMA SameAhead ==
  ASSUME NEW c, complete'[c] = complete[c], thread_start'[c] = thread_start[c],
         now' = now, Settled(c)
  PROVE  Ahead(c, complete[c])'
  BY DEF Settled, RateKept, Ahead, Schedule!Owed

LEMMA OpenOrdered ==
  ASSUME Good, NEW c \in Conns, delayed_initial_connect(c) PROVE Ordered'
<1>1. Renews(c)
  BY OpenRenews DEF Good
<1>2. /\ UNCHANGED <<now, delay_timers, batchVars, statVars, written, parser>>
      /\ thread_start' = [thread_start EXCEPT ![c] = now]
      /\ connect_timer[c] # NoTimer
  BY DEF delayed_initial_connect, Opens
<1>3. ~Connected(c) /\ complete[c] = 0
  BY <1>2, ConstantsAssumption DEF Good, Kept, Unopened, Connected, NoFd
<1>4. delay_timers'[c] = <<>>
  BY <1>2, <1>3 DEF Good, Ordered, Settled, Stage
<1>5. Ahead(c, complete[c])'
  <2>1. complete'[c] = 0
    BY <1>2, <1>3 DEF statVars
  <2> QED BY <2>1, ConstantsAssumption DEF Ahead
<1>6. Settled(c)'
  BY <1>1, <1>4, <1>5, RenewedSettled
<1>7. Untouched(c)
  <2>1. thread_start \in [Conns -> Nat]
    BY DEF Good, Groups, OpenTyped
  <2> QED BY <1>2, <2>1 DEF Untouched, Own, batchVars, statVars
<1> QED BY <1>1, <1>2, <1>6, <1>7, OneSettled DEF Renews, Good

LEMMA DelayOrdered ==
  ASSUME Good, NEW c \in Conns, NEW i, delay_request(c, i) PROVE Ordered'
<1>1. i \in DOMAIN delay_timers[c] /\ delay_timers \in [Conns -> Seq(Nat)]
  BY DEF delay_request, Good, Groups, ConnTyped
<1>2. delay_timers[c] # <<>>
  BY <1>1
<1>3. Connected(c) /\ Idle(Ev(c), So(c), Own(c)) /\ Len(delay_timers[c]) = 1
      /\ written[c] = 0
  BY <1>2, OwnIs DEF Good, Ordered, Settled, Stage, Connecting, Idle, Busy
<1>4. PICK f \in Fds : f = fd[c]
  BY <1>3 DEF Connected
<1>5. Idle(events[f], sockets[f], Own(c)) /\ W \notin events[f].mask
  BY <1>2, <1>3, <1>4, OwnIs DEF Ev, So, Idle
<1>6. UNCHANGED <<now, thread_start, batchVars, statVars, written, parser>>
  BY DEF delay_request
<1>7. Ahead(c, complete[c])'
  BY <1>6, SameAhead DEF Good, Ordered, statVars
<1>8. PICK z : z = usec_to_next_send(c)
  OBVIOUS
<1>9. CASE delay_timers' = [delay_timers EXCEPT ![c][i] = Delay(z.wait)] /\ UNCHANGED ioVars
  <2>1. /\ Len(delay_timers'[c]) = 1
        /\ \A d \in Conns \ {c} : delay_timers'[d] = delay_timers[d]
    BY <1>1, <1>3, <1>9
  <2>2. Idle(events'[f], sockets'[f], Own(c)')
    BY <1>5, <1>6, <1>9, <2>1, OwnIs DEF Idle, ioVars
  <2>3. ~Busy(events'[f], sockets'[f], Own(c)')
    <3>1. delay_timers'[c] # <<>>
      BY <2>1
    <3> QED BY <3>1, OwnIs DEF Busy
  <2>4. fd'[c] = f /\ Connected(c)'
    BY <1>3, <1>4, <1>9 DEF ioVars, Connected, Client
  <2>5. Settled(c)'
    BY <1>7, <2>2, <2>3, <2>4, StageNext
  <2>6. Untouched(c)
    BY <1>6, <2>1 DEF Untouched, Own, batchVars, statVars
  <2>7. Aside(c, World, World')
    BY <1>9, WorldIs, WorldNext, AsideSame DEF ioVars
  <2> QED BY <1>6, <2>5, <2>6, <2>7, OneSettled DEF Good
<1>10. CASE /\ delay_timers' = [delay_timers EXCEPT ![c] = RemoveAt(@, i)]
            /\ Becomes(AwaitWritable(c, World))
  <2>1. /\ delay_timers'[c] = <<>>
        /\ \A d \in Conns \ {c} : delay_timers'[d] = delay_timers[d]
    <3>1. PICK ts \in Seq(Nat) : ts = delay_timers[c] /\ Len(ts) = 1
      BY <1>1, <1>3
    <3>2. i = 1
      BY <1>1, <3>1
    <3>3. RemoveAt(ts, 1) = <<>>
      BY <3>1 DEF RemoveAt
    <3> QED BY <1>1, <1>10, <3>1, <3>2, <3>3
  <2>2. PICK v : v = AwaitWritable(c, World)
    OBVIOUS
  <2>3. Ready(c, World) /\ Has(World, c)
    BY <1>3, WorldReady DEF Good
  <2>4. Ready(c, v) /\ Has(v, c) /\ v.fd = fd /\ v.sockets = sockets
        /\ v.events = aeCreateFileEvent(events, f, {W}, "socket_writeable", c)
    BY <1>4, <2>2, <2>3, AwaitReady, WorldIs
  <2>5. World' = v
    BY <1>10, <2>2, <2>4, BecomesIs DEF Ready
  <2>6. fd' = fd /\ sockets' = sockets /\ events' = v.events /\ Connected(c)'
    BY <2>4, <2>5, WorldNext, ConnectedIs
  <2>7. /\ events'[f].rfileProc = events[f].rfileProc /\ W \in events'[f].mask
        /\ events'[f].wfileProc = "socket_writeable"
    BY <2>4, <2>6 DEF aeCreateFileEvent, R, W, Good, Kept, Sound, World, Worlds, Entry, FileEvents
  <2>8. Idle(events'[f], sockets'[f], Own(c)')
    BY <1>5, <1>6, <2>1, <2>6, <2>7, OwnIs DEF Idle
  <2>9. ~Busy(events'[f], sockets'[f], Own(c)')
    <3>1. written'[c] = 0
      BY <1>3, <1>6
    <3> QED BY <2>7, <3>1, OwnIs DEF Busy
  <2>10. Settled(c)'
    BY <1>4, <1>7, <2>6, <2>8, <2>9, StageNext
  <2>11. Untouched(c)
    BY <1>6, <2>1 DEF Untouched, Own, batchVars, statVars
  <2> QED BY <1>6, <2>4, <2>5, <2>10, <2>11, OneSettled DEF Good, Ready
<1> QED BY <1>8, <1>9, <1>10 DEF delay_request

LEMMA ConnectedOrdered ==
  ASSUME Good, NEW f \in Fds, socket_connected(f) PROVE Ordered'
<1>1. events[f].mask # {} /\ Fires(f, "socket_connected")
  BY DEF socket_connected, Fires
<1>2. PICK c \in Conns : c = Client(f) /\ fd[c] = f /\ Connected(c)
  BY <1>1, ClientIs DEF Good
<1>3. Connecting(events[f], sockets[f], Own(c))
  BY <1>1, <1>2, StageConnected DEF Good, Ordered
<1>r. ASSUME sockets[f].st # "open" PROVE Ordered'
  <2>1. TLS
    BY <1>1, <1>3, <1>r DEF Connecting, Fires, Readable, Writable
  <2>2. /\ \E w \in tcp_reconnect_socket(c, Counted(World, "connect")) : Becomes(w)
        /\ UNCHANGED <<parser, written>>
        /\ UNCHANGED <<now, loopVars, timerVars, thread_start, paceVars, batchVars,
                       statVars, faults>>
    BY <1>2, <1>r, <2>1 DEF socket_connected
  <2>3. Renews(c)
    BY <1>2, <2>2, CountedRenews DEF Good
  <2>4. delay_timers'[c] = <<>>
    BY <1>3, <2>2, OwnIs DEF Connecting, timerVars
  <2>5. Ahead(c, complete[c])'
    BY <2>2, SameAhead DEF Good, Ordered, statVars
  <2>6. Settled(c)'
    BY <2>3, <2>4, <2>5, RenewedSettled
  <2>7. Untouched(c)
    BY <2>2 DEF Untouched, Own, batchVars, statVars, timerVars
  <2> QED BY <2>2, <2>3, <2>6, <2>7, OneSettled DEF Good, Renews
<1>4. SUFFICES ASSUME sockets[f].st = "open" PROVE Ordered'
  BY <1>r
<1>5. /\ parser' = [parser EXCEPT ![c] = "start"]
      /\ written' = [written EXCEPT ![c] = 0]
      /\ events' = aeCreateFileEvent(
                     aeCreateFileEvent(events, f, {R}, "socket_readable", c),
                     f, {W}, "socket_writeable", c)
      /\ UNCHANGED <<fd, sockets, errors>>
      /\ UNCHANGED <<now, loopVars, timerVars, thread_start, paceVars, batchVars,
                     statVars, faults>>
  BY <1>2, <1>4 DEF socket_connected, Afresh
<1>6. /\ events'[f].rfileProc = "socket_readable" /\ W \in events'[f].mask
      /\ events'[f].wfileProc = "socket_writeable"
  BY <1>5 DEF aeCreateFileEvent, R, W, Good, Kept, Sound, World, Worlds, Entry, FileEvents
<1>7. parser'[c] = "start" /\ written'[c] = 0 /\ delay_timers'[c] = <<>>
      /\ sockets' = sockets /\ fd'[c] = f
  BY <1>2, <1>3, <1>5, OwnIs DEF Connecting, Good, Groups, ConnTyped, timerVars
<1>8. Idle(events'[f], sockets'[f], Own(c)')
  BY <1>3, <1>4, <1>6, <1>7, OwnIs DEF Connecting, Idle
<1>9. ~Busy(events'[f], sockets'[f], Own(c)')
  BY <1>6, <1>7, OwnIs DEF Busy
<1>10. Ahead(c, complete[c])'
  BY <1>5, SameAhead DEF Good, Ordered, statVars
<1>a. Connected(c)' /\ Aside(c, World, World')
  <2>1. Stays(c)
    <3>1. events'[f].clientData = c /\ \A g \in Fds \ {f} : events'[g] = events[g]
      BY <1>5 DEF aeCreateFileEvent, Good, Kept, Sound, World, Worlds
    <3> QED BY <1>2, <1>4, <1>5, <3>1 DEF Stays
  <2> QED BY <1>2, <2>1, StaysAside
<1>11. Settled(c)'
  BY <1>7, <1>8, <1>9, <1>10, <1>a, StageNext
<1>12. Untouched(c)
  BY <1>5 DEF Untouched, Own, batchVars, statVars, timerVars, Good, Groups, ConnTyped
<1> QED BY <1>5, <1>11, <1>12, <1>a, OneSettled DEF Good

-----------------------------------------------------------------------------
(* The writes.                                                                 *)

LEMMA WriteDelayedOrdered ==
  ASSUME Good, NEW f \in Fds, WriteDelayed(f) PROVE Ordered'
<1>1. events[f].mask # {} /\ Fires(f, "socket_writeable")
  BY DEF WriteDelayed, Fires
<1>2. PICK c \in Conns : c = Client(f) /\ fd[c] = f /\ Connected(c)
  BY <1>1, ClientIs DEF Good
<1>3. PICK z : z = Delay(usec_to_next_send(c).wait)
  OBVIOUS
<1>4. /\ written[c] = 0 /\ events' = StopWriting(c)
      /\ delay_timers' = [delay_timers EXCEPT ![c] = Append(@, z)]
      /\ UNCHANGED <<now, fd, sockets, thread_start, batchVars, statVars, written,
                     parser>>
  BY <1>2, <1>3 DEF WriteDelayed
<1>5. W \in events[f].mask /\ Idle(events[f], sockets[f], Own(c))
  BY <1>1, <1>2, <1>4, StageWrites DEF Good, Ordered
<1>6. StopWriting(c)[f].mask = events[f].mask \ {W}
  BY <1>2, StopWritingIs DEF Good
<1>7. StopWriting(c)[f].rfileProc = events[f].rfileProc
  BY <1>2, StopWritingIs DEF Good
<1>8. /\ delay_timers[c] = <<>> /\ delay_timers'[c] = <<z>>
      /\ \A d \in Conns \ {c} : delay_timers'[d] = delay_timers[d]
  <2>1. delay_timers[c] = <<>> /\ delay_timers \in [Conns -> Seq(Nat)]
    BY <1>5, OwnIs DEF Idle, Good, Groups, ConnTyped
  <2>2. Append(<<>>, z) = <<z>>
    OBVIOUS
  <2> QED BY <1>4, <2>1, <2>2
<1>9. Len(delay_timers'[c]) = 1 /\ delay_timers'[c] # <<>>
  BY <1>8
<1>10. Idle(events'[f], sockets'[f], Own(c)')
  BY <1>4, <1>5, <1>6, <1>7, <1>9, OwnIs DEF Idle
<1>11. ~Busy(events'[f], sockets'[f], Own(c)')
  BY <1>9, OwnIs DEF Busy
<1>12. Ahead(c, complete[c])'
  BY <1>4, SameAhead DEF Good, Ordered, statVars
<1>13. Connected(c)' /\ Aside(c, World, World')
  BY <1>2, WriteDelayedStays, StaysAside DEF Good
<1>14. Settled(c)'
  BY <1>2, <1>4, <1>10, <1>11, <1>12, <1>13, StageNext
<1>15. Untouched(c)
  BY <1>4, <1>8 DEF Untouched, Own, batchVars, statVars
<1> QED BY <1>4, <1>13, <1>14, <1>15, OneSettled DEF Good

LEMMA WriteErrorOrdered ==
  ASSUME Good, NEW f \in Fds, WriteError(f) PROVE Ordered'
<1>1. events[f].mask # {} /\ Fires(f, "socket_writeable")
  BY DEF WriteError, Fires
<1>2. PICK c \in Conns : c = Client(f) /\ fd[c] = f /\ Connected(c)
  BY <1>1, ClientIs DEF Good
<1>3. Busy(events[f], sockets[f], Own(c)) /\ written[c] > 0
  <2>1. sockets[f].st = "rst"
    BY DEF WriteError
  <2> QED BY <1>1, <1>2, <2>1, StageWrites DEF Idle, Good, Ordered
<1>4. /\ UNCHANGED <<now, timerVars, thread_start, statVars, written, parser>>
      /\ UNCHANGED batchVars
  BY <1>2, <1>3 DEF WriteError, Starts
<1>5. Renews(c)
  BY <1>2, WriteErrorRenews DEF Good
<1>6. delay_timers'[c] = <<>>
  BY <1>3, <1>4, OwnIs DEF Busy, timerVars
<1>7. Ahead(c, complete[c])'
  BY <1>4, SameAhead DEF Good, Ordered, statVars
<1>8. Settled(c)'
  BY <1>5, <1>6, <1>7, RenewedSettled
<1>9. Untouched(c)
  BY <1>4 DEF Untouched, Own, batchVars, statVars, timerVars
<1> QED BY <1>4, <1>5, <1>8, <1>9, OneSettled DEF Good, Renews

\* What a write does to the socket and to what is left of the batch.
WrittenTo(f, c, total) ==
  /\ sockets'[f].st = sockets[f].st /\ sockets'[f].rx = sockets[f].rx
  /\ sockets'[f].owed = IF sockets[f].st = "open"
                          THEN sockets[f].owed + Sent(total) - Sent(written[c])
                          ELSE sockets[f].owed
  /\ events'[f].rfileProc = events[f].rfileProc
  /\ events'[f].wfileProc = events[f].wfileProc
  /\ \/ total < Length /\ written'[c] = total /\ events'[f].mask = events[f].mask
     \/ total = Length /\ written'[c] = 0 /\ W \notin events'[f].mask
  /\ fd' = fd /\ now' = now
  /\ UNCHANGED <<thread_start, complete, delay_timers, parser>>

LEMMA WriteRequestIs ==
  ASSUME Good, NEW f \in Fds, NEW c \in Conns, c = Client(f), fd[c] = f,
         NEW n \in 0..Length, WriteRequest(f, n)
  PROVE  WrittenTo(f, c, written[c] + n)
<1>1. sockets \in [Fds -> Socket] /\ written \in [Conns -> 0..(Length - 1)]
  BY DEF Good, Kept, Sound, World, Worlds, Groups, ConnTyped
<1>2. PICK total : total = written[c] + n
  OBVIOUS
<1>3. sockets' = [sockets EXCEPT ![f].owed =
                   IF sockets[f].st = "open" THEN @ + Sent(total) - Sent(written[c]) ELSE @]
  BY <1>2 DEF WriteRequest
<1>4. PICK k : k = IF sockets[f].st = "open"
                     THEN sockets[f].owed + Sent(total) - Sent(written[c])
                     ELSE sockets[f].owed
  OBVIOUS
<1>5. sockets'[f].st = sockets[f].st /\ sockets'[f].rx = sockets[f].rx /\ sockets'[f].owed = k
  BY <1>1, <1>3, <1>4 DEF Socket
<1>6. StopWriting(c)[f].mask = events[f].mask \ {W}
  BY StopWritingIs DEF Good
<1>7. StopWriting(c)[f].rfileProc = events[f].rfileProc
  BY StopWritingIs DEF Good
<1>8. StopWriting(c)[f].wfileProc = events[f].wfileProc
  BY StopWritingIs DEF Good
<1>9. /\ \/ total < Length /\ written'[c] = total /\ events' = events
         \/ total = Length /\ written'[c] = 0 /\ events' = StopWriting(c)
      /\ fd' = fd /\ now' = now
      /\ UNCHANGED <<thread_start, complete, delay_timers, parser>>
  BY <1>1, <1>2 DEF WriteRequest, timerVars, statVars
<1>10. /\ events'[f].rfileProc = events[f].rfileProc
       /\ events'[f].wfileProc = events[f].wfileProc
       /\ \/ total < Length /\ written'[c] = total /\ events'[f].mask = events[f].mask
          \/ total = Length /\ written'[c] = 0 /\ W \notin events'[f].mask
  BY <1>6, <1>7, <1>8, <1>9
<1> QED BY <1>2, <1>4, <1>5, <1>9, <1>10 DEF WrittenTo

\* The rest of a batch.
LEMMA WritesOn ==
  ASSUME Good, Groups', NEW f \in Fds, NEW c \in Conns, fd[c] = f, NEW n \in 0..Length,
         W \in events[f].mask, sockets[f].st \in {"open", "fin"},
         Busy(events[f], sockets[f], Own(c)), written[c] > 0,
         WrittenTo(f, c, written[c] + n), UNCHANGED batchVars
  PROVE  Busy(events'[f], sockets'[f], Own(c)')
<1>1. PICK e, s, o, g, t, p : /\ e = events[f] /\ s = sockets[f] /\ o = Own(c)
                              /\ g = events'[f] /\ t = sockets'[f] /\ p = Own(c)'
  OBVIOUS
<1>2. o \in Owner /\ p \in Owner /\ s \in Socket
  BY <1>1, OwnType, OwnTypeNext DEF Good, Kept, Sound, World, Worlds
<1>3. /\ o.written > 0 /\ o.written = written[c] /\ p.written = written'[c]
      /\ p.pending = o.pending /\ p.has = o.has /\ p.timers = o.timers
      /\ p.parser = o.parser
  BY <1>1, OwnIs DEF WrittenTo, batchVars
<1>4. /\ t.st = s.st /\ t.rx = s.rx
      /\ t.owed = IF s.st = "open" THEN s.owed + Sent(o.written + n) - Sent(o.written)
                                   ELSE s.owed
      /\ g.rfileProc = e.rfileProc /\ g.wfileProc = e.wfileProc
      /\ \/ o.written + n < Length /\ p.written = o.written + n /\ g.mask = e.mask
         \/ o.written + n = Length /\ p.written = 0 /\ W \notin g.mask
  BY <1>1, <1>3 DEF WrittenTo
<1>5. o.written \in Nat /\ Pipeline \in Nat
  BY <1>2, ConstantsAssumption DEF Owner
<1>6. SentOf(e, o) = Sent(o.written) /\ SentOf(g, p) = Sent(o.written + n)
  BY <1>1, <1>4, SentBounds DEF SentOf
<1>7. Expects(g, t, p)
  <2>1. o.pending > 0 /\ (s.st # "open" => o.pending > Count(s.rx, {"resp"}))
    BY <1>1 DEF Busy, Expects
  <2>2. ASSUME s.st = "open"
        PROVE  p.pending = t.owed + Count(t.rx, Endings) + Pipeline - SentOf(g, p)
    <3>1. o.pending = s.owed + Count(s.rx, Endings) + Pipeline - SentOf(e, o)
      BY <1>1, <2>2 DEF Busy, Expects
    <3>2. o.written + n \in Nat
      BY <1>5
    <3>3. PICK a \in Nat, b \in Nat, j \in Nat, k \in Nat :
            /\ a = s.owed /\ b = Count(s.rx, Endings)
            /\ j = Sent(o.written) /\ k = Sent(o.written + n)
      BY <1>1, <1>2, <1>5, <3>2, Expected, SentNat
    <3>4. o.pending = a + b + Pipeline - j
      BY <1>6, <3>1, <3>3
    <3>5. t.owed = a + k - j /\ Count(t.rx, Endings) = b /\ SentOf(g, p) = k
      BY <1>4, <1>6, <2>2, <3>3
    <3>6. a + b + Pipeline - j = (a + k - j) + b + Pipeline - k
      BY <1>5
    <3> QED BY <1>3, <3>4, <3>5, <3>6
  <2> QED BY <1>3, <1>4, <2>1, <2>2 DEF Expects
<1>8. EndsWith(t, p)
  BY <1>1, <1>3, <1>4 DEF Busy, EndsWith
<1>9. \/ W \in g.mask /\ g.wfileProc = "socket_writeable" /\ p.written > 0
      \/ W \notin g.mask /\ p.written = 0
  BY <1>1, <1>3, <1>4, <1>5 DEF Busy
<1>10. Busy(g, t, p)
  BY <1>1, <1>3, <1>4, <1>7, <1>8, <1>9 DEF Busy
<1> QED BY <1>1, <1>10

\* The first bytes of a batch.
LEMMA WritesFirst ==
  ASSUME Good, Groups', NEW f \in Fds, NEW c \in Conns, fd[c] = f, NEW n \in 1..Length,
         W \in events[f].mask, Idle(events[f], sockets[f], Own(c)),
         WrittenTo(f, c, n), written[c] = 0, pending'[c] = Pipeline, has_pending'[c]
  PROVE  Busy(events'[f], sockets'[f], Own(c)')
<1>1. PICK e, s, o, g, t, p : /\ e = events[f] /\ s = sockets[f] /\ o = Own(c)
                              /\ g = events'[f] /\ t = sockets'[f] /\ p = Own(c)'
  OBVIOUS
<1>2. /\ o.written = 0 /\ p.written = written'[c] /\ p.pending = Pipeline /\ p.has
      /\ p.timers = o.timers /\ p.parser = o.parser
  BY <1>1, OwnIs DEF WrittenTo
<1>3. /\ s.st = "open" /\ s.rx = <<>> /\ s.owed = 0 /\ o.timers = <<>>
      /\ o.parser = "start" /\ e.rfileProc = "socket_readable"
      /\ e.wfileProc = "socket_writeable"
  BY <1>1 DEF Idle
<1>4. /\ t.st = "open" /\ t.rx = <<>> /\ t.owed = 0 + Sent(n) - Sent(0)
      /\ g.rfileProc = e.rfileProc /\ g.wfileProc = e.wfileProc
      /\ \/ n < Length /\ p.written = n /\ g.mask = e.mask
         \/ n = Length /\ p.written = 0 /\ W \notin g.mask
  BY <1>1, <1>2, <1>3 DEF WrittenTo
<1>5. Sent(n) \in Nat /\ Sent(0) = 0 /\ Sent(Length) = Pipeline
      /\ Pipeline \in Nat /\ Pipeline > 0
  BY SentNat, SentBounds, ConstantsAssumption
<1>6. SentOf(g, p) = Sent(n)
  BY <1>1, <1>4, <1>5 DEF SentOf
<1>7. Count(t.rx, Endings) = 0
  BY <1>4, CountEmpty
<1>8. Pipeline = t.owed + Count(t.rx, Endings) + Pipeline - SentOf(g, p)
  BY <1>4, <1>5, <1>6, <1>7
<1>9. Expects(g, t, p)
  BY <1>2, <1>4, <1>5, <1>8 DEF Expects
<1>10. EndsWith(t, p)
  BY <1>4 DEF EndsWith
<1> QED BY <1>1, <1>2, <1>3, <1>4, <1>9, <1>10 DEF Busy

LEMMA WriteOrdered ==
  ASSUME Good, Groups', NEW f \in Fds, NEW n \in 0..Length, WriteRequest(f, n)
  PROVE  Ordered'
<1>1. events[f].mask # {} /\ Fires(f, "socket_writeable") /\ sockets[f].st \in {"open", "fin"}
  BY DEF WriteRequest, Fires
<1>2. PICK c \in Conns : c = Client(f) /\ fd[c] = f /\ Connected(c)
  BY <1>1, ClientIs DEF Good
<1>3. WrittenTo(f, c, written[c] + n)
  BY <1>2, WriteRequestIs
<1>4. /\ W \in events[f].mask
      /\ \/ Idle(events[f], sockets[f], Own(c)) /\ written[c] = 0
         \/ Busy(events[f], sockets[f], Own(c)) /\ written[c] > 0
  BY <1>1, <1>2, StageWrites DEF Good, Ordered
<1>5. /\ now \in Nat /\ complete[c] \in Nat /\ pending[c] \in Nat /\ Pipeline \in Nat
      /\ thread_start[c] \in Nat /\ written[c] \in Nat /\ Length \in Nat /\ Length > 0
      /\ has_pending \in [Conns -> BOOLEAN] /\ pending \in [Conns -> 0..(Wrap - 1)]
  <2>1. /\ now \in Nat /\ complete[c] \in Nat /\ thread_start[c] \in Nat
        /\ has_pending \in [Conns -> BOOLEAN]
    BY DEF Good, Groups, LoopTyped, OpenTyped, StatTyped, BatchTyped, SendTyped
  <2>2. pending \in [Conns -> 0..(Wrap - 1)] /\ Wrap \in Nat
    BY ConstantsAssumption DEF Good, Groups, BatchTyped
  <2>3. Pipeline \in Nat /\ Length \in Nat /\ Length > 0
    BY ConstantsAssumption
  <2>4. written[c] \in Nat
    BY <2>3 DEF Good, Groups, ConnTyped
  <2>5. pending[c] \in Nat
    BY <2>2
  <2> QED BY <2>1, <2>2, <2>3, <2>4, <2>5
<1>6. Ahead(c, complete[c])'
  BY <1>3, SameAhead DEF Good, Ordered, WrittenTo
<1>s. Connected(c)' /\ fd'[c] = f /\ Aside(c, World, World')
  BY <1>2, WriteStays, StaysAside DEF Good
<1>7. ASSUME written[c] > 0 PROVE Settled(c)' /\ UNCHANGED batchVars
  <2>1. UNCHANGED batchVars /\ Busy(events[f], sockets[f], Own(c))
    BY <1>2, <1>4, <1>5, <1>7 DEF WriteRequest, Starts
  <2>2. Busy(events'[f], sockets'[f], Own(c)')
    BY <1>1, <1>2, <1>3, <1>4, <1>7, <2>1, WritesOn
  <2>3. Ev(c) = events[f] /\ So(c) = sockets[f]
    BY <1>2 DEF Ev, So
  <2>4. Ahead(c, complete[c] + pending[c])
    BY <1>2, <2>1, <2>3 DEF Good, Ordered, Settled, RateKept
  <2>5. Ahead(c, complete[c] + pending[c])'
    BY <1>3, <2>1, <2>4 DEF WrittenTo, batchVars, Ahead, Schedule!Owed
  <2> QED BY <1>6, <1>s, <2>1, <2>2, <2>5, StageNext
<1>8. ASSUME written[c] = 0
      PROVE  /\ Settled(c)'
             /\ pending' = [pending EXCEPT ![c] = Pipeline]
             /\ has_pending' = [has_pending EXCEPT ![c] = TRUE]
  <2>1. /\ usec_to_next_send(c).wait = 0
        /\ pending' = [pending EXCEPT ![c] = Pipeline]
        /\ has_pending' = [has_pending EXCEPT ![c] = TRUE]
    BY <1>2, <1>5, <1>8 DEF WriteRequest, Starts, Expect
  <2>2. Idle(events[f], sockets[f], Own(c)) /\ written[c] + n = n
    BY <1>4, <1>5, <1>8
  <2>3. WrittenTo(f, c, n)
    BY <1>3, <2>2
  <2>4. pending'[c] = Pipeline /\ has_pending'[c]
    BY <1>5, <2>1
  <2>5. CASE n = 0
    <3>1. /\ Sent(0) = 0 /\ sockets[f].st = "open" /\ sockets[f].owed = 0
      BY <2>2, SentBounds DEF Idle
    <3>2. /\ sockets'[f].st = "open" /\ sockets'[f].rx = <<>> /\ sockets'[f].owed = 0
          /\ events'[f].rfileProc = events[f].rfileProc
          /\ events'[f].wfileProc = events[f].wfileProc
          /\ written'[c] = 0 /\ W \in events'[f].mask
          /\ delay_timers'[c] = delay_timers[c] /\ parser'[c] = parser[c]
      BY <1>4, <1>5, <1>8, <2>2, <2>3, <2>5, <3>1 DEF WrittenTo, Idle
    <3>3. Idle(events'[f], sockets'[f], Own(c)')
      BY <1>4, <2>2, <3>2, OwnIs DEF Idle
    <3>4. ~Busy(events'[f], sockets'[f], Own(c)')
      BY <3>2, OwnIs DEF Busy
    <3> QED BY <1>6, <2>1, <1>s, <3>3, <3>4, StageNext
  <2>6. CASE n # 0
    <3>1. n \in 1..Length
      BY <1>5, <2>6
    <3>2. Busy(events'[f], sockets'[f], Own(c)')
      BY <1>2, <1>4, <1>8, <2>2, <2>3, <2>4, <3>1, WritesFirst
    <3>3. Schedule!Owed(c, complete[c]) <= now
      <4>1. Schedule!Owed(c, complete[c]) <= now + Early
        BY <2>1, SendNow DEF Good, Groups
      <4>2. Early = 0
        BY ConstantsAssumption
      <4> QED BY <1>5, <4>1, <4>2
    <3>4. (complete[c] + Pipeline) - Pipeline = complete[c]
      BY <1>5
    <3>5. Ahead(c, complete[c] + pending[c])'
      <4>1. complete'[c] = complete[c] /\ thread_start'[c] = thread_start[c] /\ now' = now
        BY <2>3 DEF WrittenTo
      <4>2. (complete'[c] + pending'[c]) - Pipeline = complete[c]
        BY <2>4, <3>4, <4>1
      <4>3. thread_start'[c] + complete[c] * Period <= now'
        BY <3>3, <4>1 DEF Schedule!Owed
      <4> QED BY <4>2, <4>3 DEF Ahead, Schedule!Owed
    <3> QED BY <1>6, <2>1, <1>s, <3>2, <3>5, StageNext
  <2> QED BY <2>1, <2>5, <2>6
<1>9. Settled(c)'
  BY <1>5, <1>7, <1>8
<1>10. written' = [written EXCEPT ![c] = written'[c]]
  BY <1>2 DEF WriteRequest, Good, Groups, ConnTyped
<1>11. \A d \in Conns \ {c} : pending'[d] = pending[d] /\ has_pending'[d] = has_pending[d]
  BY <1>5, <1>7, <1>8 DEF batchVars
<1>12. Untouched(c)
  <2>1. UNCHANGED <<delay_timers, thread_start, complete, parser>>
    BY <1>3 DEF WrittenTo
  <2>2. \A d \in Conns \ {c} : written'[d] = written[d]
    BY <1>10 DEF Good, Groups, ConnTyped
  <2> QED BY <1>11, <2>1, <2>2 DEF Untouched, Own
<1> QED BY <1>3, <1>9, <1>12, <1>s, OneSettled DEF Good, WrittenTo

-----------------------------------------------------------------------------
(* The reads.                                                                  *)

LEMMA ResponseIs ==
  ASSUME Groups, NEW c \in Conns, response_complete(c)
  PROVE  /\ pending'[c] = Left(c)
         /\ has_pending'[c] <=> has_pending[c] /\ Left(c) # 0
         /\ complete'[c] \in {complete[c], complete[c] + 1}
         /\ \A d \in Conns \ {c} : /\ pending'[d] = pending[d]
                                   /\ has_pending'[d] = has_pending[d]
                                   /\ complete'[d] = complete[d]
<1>1. /\ pending \in [Conns -> 0..(Wrap - 1)] /\ has_pending \in [Conns -> BOOLEAN]
      /\ complete \in [Conns -> Nat]
  BY DEF Groups, BatchTyped, SendTyped, StatTyped
<1>2. PICK more : more = (has_pending[c] /\ Left(c) # 0)
  OBVIOUS
<1>3. /\ pending' = [pending EXCEPT ![c] = Left(c)]
      /\ has_pending' = [has_pending EXCEPT ![c] = more]
      /\ stats_request_completed(c, more)
  BY <1>2 DEF response_complete
<1>4. complete' = complete \/ complete' = [complete EXCEPT ![c] = @ + 1]
  BY <1>3 DEF stats_request_completed, statVars
<1>5. has_pending'[c] = more
  BY <1>1, <1>3
<1>6. has_pending'[c] <=> has_pending[c] /\ Left(c) # 0
  BY <1>2, <1>5
<1>7. pending'[c] = Left(c) /\ complete'[c] \in {complete[c], complete[c] + 1}
  BY <1>1, <1>3, <1>4
<1>8. \A d \in Conns \ {c} : /\ pending'[d] = pending[d]
                             /\ has_pending'[d] = has_pending[d]
                             /\ complete'[d] = complete[d]
  BY <1>1, <1>3, <1>4
<1> QED BY <1>6, <1>7, <1>8

\* Responses that were expected keep the connection within its rate.
LEMMA AheadNext ==
  ASSUME Good, NEW c \in Conns, NEW f \in Fds, fd[c] = f, Connected(c),
         Busy(events[f], sockets[f], Own(c)), now' = now, thread_start'[c] = thread_start[c],
         NEW n \in Nat, n <= complete[c] + pending[c]
  PROVE  Ahead(c, n)'
<1>1. /\ thread_start[c] \in Nat /\ now \in Nat /\ complete[c] \in Nat /\ pending[c] \in Nat
  BY BusyHas DEF Good, Groups, LoopTyped, OpenTyped, StatTyped
<1>2. Ev(c) = events[f] /\ So(c) = sockets[f]
  BY DEF Ev, So
<1>3. Ahead(c, complete[c] + pending[c])
  BY <1>2 DEF Good, Ordered, Settled, RateKept
<1>4. PICK m \in Nat : m = complete[c] + pending[c]
  BY <1>1
<1>5. Ahead(c, n)
  BY <1>1, <1>3, <1>4, AheadLess
<1> QED BY <1>5 DEF Ahead, Schedule!Owed

LEMMA ReadUntouched ==
  ASSUME Groups, NEW c \in Conns, ReadFrame, NoResponse \/ response_complete(c),
         \A d \in Conns \ {c} : parser'[d] = parser[d]
  PROVE  Untouched(c)
<1>1. \A d \in Conns \ {c} : /\ pending'[d] = pending[d]
                             /\ has_pending'[d] = has_pending[d]
                             /\ complete'[d] = complete[d]
  <2>1. CASE NoResponse
    BY <2>1 DEF NoResponse, batchVars, statVars
  <2>2. CASE response_complete(c)
    BY <2>2, ResponseIs
  <2> QED BY <2>1, <2>2
<1>2. UNCHANGED <<thread_start, delay_timers, written>>
  BY DEF ReadFrame, timerVars
<1> QED BY <1>1, <1>2 DEF Untouched, Own

\* A read that gives the connection a new socket.
LEMMA ReadRenewOrdered ==
  ASSUME Good, Groups', NEW f \in Fds,
         ReadClose(f) \/ ReadLastByte(f) \/ ReadError(f)
  PROVE  Ordered'
<1>1. Reads(f) /\ (sockets[f].rx # <<>> \/ sockets[f].st \in {"fin", "rst"})
  BY DEF ReadClose, ReadLastByte, ReadError, Holds
<1>2. PICK c \in Conns : c = Client(f) /\ fd[c] = f /\ Connected(c)
  BY <1>1, ReadsMask, ClientIs DEF Good
<1>3. Busy(events[f], sockets[f], Own(c))
  BY <1>1, <1>2, StageReads DEF Good, Ordered
<1>4. /\ pending[c] \in Nat /\ pending[c] > 0 /\ complete[c] \in Nat
      /\ delay_timers[c] = <<>>
  BY <1>3, BusyHas DEF Good, Groups, StatTyped
<1>5. ReadFrame /\ (NoResponse \/ response_complete(c))
  BY <1>2 DEF ReadClose, ReadLastByte, ReadError
<1>6. \A d \in Conns \ {c} : parser'[d] = parser[d]
  BY <1>2 DEF ReadClose, ReadLastByte, ReadError, Good, Groups, ConnTyped
<1>7. UNCHANGED <<now, thread_start, delay_timers>>
  BY <1>5 DEF ReadFrame, timerVars
<1>8. complete'[c] \in {complete[c], complete[c] + 1}
  <2>1. CASE NoResponse
    BY <2>1 DEF NoResponse, statVars
  <2>2. CASE response_complete(c)
    BY <2>2, ResponseIs DEF Good
  <2> QED BY <1>5, <2>1, <2>2
<1>9. PICK n \in Nat : n = complete'[c] /\ n <= complete[c] + pending[c]
  BY <1>4, <1>8
<1>10. Ahead(c, n)'
  BY <1>2, <1>3, <1>7, <1>9, AheadNext
<1>11. Ahead(c, complete[c])'
  BY <1>9, <1>10 DEF Ahead, Schedule!Owed
<1>12. Renews(c)
  BY <1>2, ReadRenews DEF Good
<1>13. Settled(c)'
  BY <1>4, <1>7, <1>11, <1>12, RenewedSettled
<1>14. Untouched(c)
  BY <1>5, <1>6, ReadUntouched DEF Good
<1> QED BY <1>7, <1>12, <1>13, <1>14, OneSettled DEF Good, Renews

LEMMA ReadSomeOrdered ==
  ASSUME Good, Groups', Kept', NEW f \in Fds, ReadSome(f) PROVE Ordered'
<1>1. Reads(f) /\ sockets[f].rx # <<>>
  BY DEF ReadSome, Holds
<1>2. PICK c \in Conns : c = Client(f) /\ fd[c] = f /\ Connected(c)
  BY <1>1, ReadsMask, ClientIs DEF Good
<1>3. Busy(events[f], sockets[f], Own(c))
  BY <1>1, <1>2, StageReads DEF Good, Ordered
<1>4. PICK e, s, o, t, p : /\ e = events[f] /\ s = sockets[f] /\ o = Own(c)
                           /\ t = sockets'[f] /\ p = Own(c)'
  OBVIOUS
<1>5. s \in Socket /\ t \in Socket /\ o \in Owner /\ p \in Owner
  BY <1>4, OwnType, OwnTypeNext DEF Good, Kept, Sound, World, Worlds
<1>6. PICK v : v = Taken(f)
  OBVIOUS
<1>7. fd' = v.fd /\ events' = v.events /\ sockets' = v.sockets
  BY <1>6 DEF ReadSome, Becomes
<1>8. fd' = fd /\ events' = events
  BY <1>6, <1>7, TakenIs DEF Good
<1>9. t.st = s.st
  BY <1>4, <1>6, <1>7, TakenIs DEF Good
<1>10. t.owed = s.owed
  BY <1>4, <1>6, <1>7, TakenIs DEF Good
<1>11. t.rx = Tail(s.rx)
  BY <1>4, <1>6, <1>7, TakenIs DEF Good
<1>12. /\ UNCHANGED <<now, thread_start, delay_timers, written, pending, has_pending,
                      complete>>
       /\ NoResponse /\ ReadFrame
  BY DEF ReadSome, NoResponse, ReadFrame, timerVars, batchVars, statVars
<1>13. /\ p.timers = o.timers /\ p.written = o.written /\ p.has = o.has
       /\ p.pending = o.pending
  BY <1>4, <1>12, OwnIs
<1>14. parser \in [Conns -> {"start", "mid", "until_eof", "dead"}]
  BY DEF Good, Groups, ConnTyped
<1>15. s.st = "open" => \A i \in DOMAIN s.rx : s.rx[i] \in {"part", "resp", "bad"}
  BY <1>3, <1>4 DEF Busy, EndsWith
<1>16. s.st = "open" => Head(s.rx) \in {"part", "resp", "bad"}
  <2>1. s.rx \in Seq(Things) /\ s.rx # <<>>
    BY <1>1, <1>4, <1>5 DEF Socket, Things
  <2>2. 1 \in DOMAIN s.rx /\ Head(s.rx) = s.rx[1]
    <3>1. /\ Len(s.rx) \in Nat /\ Len(s.rx) >= 1 /\ DOMAIN s.rx = 1..Len(s.rx)
          /\ Head(s.rx) = s.rx[1]
      BY <2>1, TailIs
    <3> QED BY <3>1
  <2> QED BY <1>15, <2>2
<1>17. /\ p.parser \in {"mid", "until_eof"} /\ (p.parser = "until_eof" => s.st # "open")
       /\ s.st = "open" => Head(s.rx) = "part"
       /\ \A d \in Conns \ {c} : parser'[d] = parser[d]
  <2>1. o.parser = "until_eof" => s.st # "open"
    BY <1>3, <1>4 DEF Busy
  <2>2. p.parser = parser'[c] /\ o.parser = parser[c]
    BY <1>4, OwnIs
  <2>3. CASE Head(s.rx) = "part" /\ parser' = [parser EXCEPT ![c] = "mid"]
    BY <1>14, <2>2, <2>3
  <2>4. CASE Head(s.rx) = "head" /\ parser' = [parser EXCEPT ![c] = "until_eof"]
    BY <1>14, <1>16, <2>2, <2>4
  <2>5. CASE parser[c] = "until_eof" /\ parser' = parser
    BY <2>1, <2>2, <2>5
  <2> QED BY <1>2, <1>4, <2>3, <2>4, <2>5 DEF ReadSome, Holds
<1>18. Busy(e, t, p)
  BY <1>1, <1>3, <1>4, <1>5, <1>9, <1>10, <1>11, <1>13, <1>17, TakeSome
<1>19. Busy(events'[f], sockets'[f], Own(c)')
  BY <1>4, <1>8, <1>18
<1>20. Ahead(c, complete[c])'
  BY <1>12, SameAhead DEF Good, Ordered
<1>21. Ahead(c, complete[c] + pending[c])'
  <2>1. Ev(c) = events[f] /\ So(c) = sockets[f]
    BY <1>2 DEF Ev, So
  <2>2. Ahead(c, complete[c] + pending[c])
    BY <1>2, <1>3, <2>1 DEF Good, Ordered, Settled, RateKept
  <2> QED BY <1>12, <2>2 DEF Ahead, Schedule!Owed
<1>22. Connected(c)' /\ fd'[c] = f /\ Aside(c, World, World')
  BY <1>2, ReadStays, StaysAside DEF Good
<1>23. Settled(c)'
  BY <1>19, <1>20, <1>21, <1>22, StageNext
<1>24. Untouched(c)
  BY <1>12, <1>17, ReadUntouched DEF Good
<1> QED BY <1>12, <1>22, <1>23, <1>24, OneSettled DEF Good

LEMMA ReadResponseOrdered ==
  ASSUME Good, Groups', Kept', NEW f \in Fds, ReadResponse(f) PROVE Ordered'
<1>1. Reads(f) /\ sockets[f].rx # <<>> /\ Head(sockets[f].rx) = "resp"
  BY DEF ReadResponse, Holds
<1>2. PICK c \in Conns : c = Client(f) /\ fd[c] = f /\ Connected(c)
  BY <1>1, ReadsMask, ClientIs DEF Good
<1>3. Busy(events[f], sockets[f], Own(c))
  BY <1>1, <1>2, StageReads DEF Good, Ordered
<1>4. PICK e, s, o, t, p : /\ e = events[f] /\ s = sockets[f] /\ o = Own(c)
                           /\ t = sockets'[f] /\ p = Own(c)'
  OBVIOUS
<1>5. s \in Socket /\ t \in Socket /\ o \in Owner /\ p \in Owner
  BY <1>4, OwnType, OwnTypeNext DEF Good, Kept, Sound, World, Worlds
<1>6. /\ has_pending[c] /\ pending[c] \in Nat /\ pending[c] > 0
      /\ Left(c) = pending[c] - 1 /\ delay_timers[c] = <<>> /\ complete[c] \in Nat
  BY <1>3, BusyHas DEF Good, Groups, StatTyped
<1>7. /\ response_complete(c) /\ Becomes(Answered(c, Taken(f)))
      /\ parser' = [parser EXCEPT ![c] = "start"] /\ ReadFrame
  BY <1>2 DEF ReadResponse
<1>8. /\ pending'[c] = pending[c] - 1
      /\ has_pending'[c] <=> Left(c) # 0
      /\ complete'[c] \in {complete[c], complete[c] + 1}
  BY <1>6, <1>7, ResponseIs DEF Good
<1>9. UNCHANGED <<now, thread_start, delay_timers, written>>
  BY <1>7 DEF ReadFrame, timerVars
<1>10. parser'[c] = "start" /\ \A d \in Conns \ {c} : parser'[d] = parser[d]
  BY <1>7 DEF Good, Groups, ConnTyped
<1>11. PICK v : v = Taken(f)
  OBVIOUS
<1>12. v.fd = fd /\ v.events = events
  BY <1>11, TakenIs DEF Good
<1>13. v.sockets[f].st = s.st
  BY <1>4, <1>11, TakenIs DEF Good
<1>14. v.sockets[f].owed = s.owed
  BY <1>4, <1>11, TakenIs DEF Good
<1>15. v.sockets[f].rx = Tail(s.rx)
  BY <1>4, <1>11, TakenIs DEF Good
<1>16. Ready(c, v) /\ Has(v, c)
  BY <1>1, <1>2, <1>11, TakenReady DEF Good
<1>17. PICK n \in Nat, m \in Nat : n = complete'[c] /\ m = complete'[c] + pending'[c]
  BY <1>6, <1>8
<1>18. n <= complete[c] + pending[c] /\ m <= complete[c] + pending[c]
  BY <1>6, <1>8, <1>17
<1>19. Ahead(c, n)' /\ Ahead(c, m)'
  BY <1>2, <1>3, <1>9, <1>18, AheadNext
<1>20. Ahead(c, complete[c])' /\ Ahead(c, complete[c] + pending[c])'
  BY <1>17, <1>19 DEF Ahead, Schedule!Owed
<1>s. Connected(c)' /\ fd'[c] = f /\ Aside(c, World, World')
  BY <1>2, ReadStays, StaysAside DEF Good
<1>21. ASSUME Left(c) # 0 PROVE Settled(c)'
  <2>1. fd' = v.fd /\ events' = v.events /\ sockets' = v.sockets
    BY <1>7, <1>11, <1>21 DEF Answered, Becomes
  <2>2. /\ t.st = s.st /\ t.owed = s.owed /\ t.rx = Tail(s.rx)
    BY <1>4, <1>13, <1>14, <1>15, <2>1
  <2>3. /\ p.timers = o.timers /\ p.written = o.written /\ p.has
        /\ p.pending = o.pending - 1 /\ p.pending # 0 /\ p.parser = "start"
    BY <1>4, <1>6, <1>8, <1>9, <1>10, <1>21, OwnIs
  <2>4. Busy(e, t, p)
    BY <1>1, <1>3, <1>4, <1>5, <2>2, <2>3, TakeResponse
  <2>5. Busy(events'[f], sockets'[f], Own(c)')
    BY <1>2, <1>4, <1>12, <2>1, <2>4
  <2>6. Settled(c)'
    BY <1>20, <1>s, <2>5, StageNext
  <2> QED BY <2>6
<1>22. ASSUME Left(c) = 0 PROVE Settled(c)'
  <2>1. pending[c] = 1 /\ o.pending = 1
    BY <1>4, <1>6, <1>22, OwnIs
  <2>2. /\ s.st = "open" /\ s.owed = 0 /\ Tail(s.rx) = <<>>
        /\ W \notin e.mask /\ o.written = 0
    BY <1>1, <1>3, <1>4, <1>5, <2>1, TakeLast
  <2>3. PICK u : u = AwaitWritable(c, v)
    OBVIOUS
  <2>4. fd' = u.fd /\ events' = u.events /\ sockets' = u.sockets
    BY <1>7, <1>11, <1>22, <2>3 DEF Answered, Becomes
  <2>5. u.events = aeCreateFileEvent(events, f, {W}, "socket_writeable", c)
    BY <1>2, <1>12, <1>16, <2>3, AwaitReady
  <2>6. u.sockets = v.sockets
    BY <1>12, <1>16, <2>3, AwaitReady
  <2>8. /\ events'[f].rfileProc = events[f].rfileProc /\ W \in events'[f].mask
        /\ events'[f].wfileProc = "socket_writeable"
    BY <2>4, <2>5 DEF aeCreateFileEvent, R, W, Good, Kept, Sound, World, Worlds, Entry, FileEvents
  <2>9. /\ sockets'[f].st = "open" /\ sockets'[f].owed = 0 /\ sockets'[f].rx = <<>>
        /\ written'[c] = 0 /\ delay_timers'[c] = <<>>
    BY <1>4, <1>6, <1>9, <1>13, <1>14, <1>15, <2>2, <2>4, <2>6, OwnIs
  <2>10. Idle(events'[f], sockets'[f], Own(c)')
    BY <1>3, <1>10, <2>8, <2>9, OwnIs DEF Idle, Busy
  <2>11. ~Busy(events'[f], sockets'[f], Own(c)')
    BY <2>8, <2>9, OwnIs DEF Busy
  <2>12. Settled(c)'
    BY <1>20, <1>s, <2>10, <2>11, StageNext
  <2> QED BY <2>12
<1>23. Settled(c)'
  BY <1>21, <1>22
<1>24. Untouched(c)
  BY <1>7, <1>10, ReadUntouched DEF Good
<1> QED BY <1>9, <1>23, <1>24, <1>s, OneSettled DEF Good

-----------------------------------------------------------------------------
(* The server and the network.                                                 *)

LEMMA CountShorter ==
  ASSUME NEW s \in Seq(Things), NEW x \in Things \ {"resp"}
  PROVE  Count(Append(s, x), {"resp"}) = Count(s, {"resp"})
<1>1. Count(Append(s, x), {"resp"}) = IF x \in {"resp"} THEN Count(s, {"resp"}) + 1
                                                        ELSE Count(s, {"resp"})
  BY CountAppend
<1> QED BY <1>1

\* What a busy socket becomes when the server sends, or the network ends it.
Sends(s, t) ==
  \/ \E x \in {"resp", "bad"} :
       t = [st |-> "open", rx |-> Append(s.rx, x), owed |-> s.owed - 1]
  \/ t = [st |-> "open", rx |-> Append(Append(s.rx, "part"), "resp"), owed |-> s.owed - 1]
  \/ \E x \in {"close", "part"} : t = [st |-> "fin", rx |-> Append(s.rx, x), owed |-> 0]
  \/ \E x \in {"head", "close"} :
       t = [st |-> "fin", rx |-> Append(Append(s.rx, x), "part"), owed |-> 0]
  \/ "fin" \in Env /\ t = [st |-> "fin", rx |-> s.rx, owed |-> 0]

LEMMA ReplySends ==
  ASSUME NEW f \in Fds, sockets \in [Fds -> Socket], Reply(f)
  PROVE  Sends(sockets[f], sockets'[f]) /\ sockets[f].st = "open" /\ sockets[f].owed > 0
<1>1. PICK s : s = sockets[f] /\ s.rx \in Seq(Things)
  BY DEF Socket, Things
<1>2. PICK r \in Replies : sockets'[f] = [st |-> r.st, rx |-> s.rx \o r.rx,
              owed |-> IF r.st = "open" THEN s.owed - 1 ELSE 0]
  BY <1>1 DEF Reply
<1>3. {"resp", "part", "close", "head"} \subseteq Things
  BY DEF Things
<1>4. /\ s.rx \o <<"resp">> = Append(s.rx, "resp")
      /\ s.rx \o <<"close">> = Append(s.rx, "close")
      /\ s.rx \o <<"part", "resp">> = Append(Append(s.rx, "part"), "resp")
      /\ s.rx \o <<"head", "part">> = Append(Append(s.rx, "head"), "part")
  <2>1. \A a, b \in Things : s.rx \o <<a>> = Append(s.rx, a)
                             /\ s.rx \o <<a, b>> = Append(Append(s.rx, a), b)
    BY <1>1
  <2> QED BY <1>3, <2>1
<1>5. CASE r = [st |-> "open", rx |-> <<"resp">>]
  BY <1>1, <1>2, <1>4, <1>5 DEF Sends, Reply
<1>6. CASE r = [st |-> "open", rx |-> <<"part", "resp">>]
  BY <1>1, <1>2, <1>4, <1>6 DEF Sends, Reply
<1>7. CASE r = [st |-> "fin", rx |-> <<"close">>]
  BY <1>1, <1>2, <1>4, <1>7 DEF Sends, Reply
<1>8. CASE r = [st |-> "fin", rx |-> <<"head", "part">>]
  BY <1>1, <1>2, <1>4, <1>8 DEF Sends, Reply
<1> QED BY <1>5, <1>6, <1>7, <1>8 DEF Replies

\* A part of a response changes nothing that is counted.
LEMMA SendPart ==
  ASSUME NEW s \in Seq(Things)
  PROVE  /\ Append(s, "part") \in Seq(Things) /\ Append(s, "head") \in Seq(Things)
         /\ Append(s, "close") \in Seq(Things)
         /\ Count(Append(s, "part"), Endings) = Count(s, Endings)
         /\ Count(Append(s, "part"), {"resp"}) = Count(s, {"resp"})
         /\ Count(Append(s, "head"), {"resp"}) = Count(s, {"resp"})
         /\ Count(Append(s, "close"), {"resp"}) = Count(s, {"resp"})
<1>1. /\ {"part", "head", "close"} \subseteq Things \ {"resp"}
      /\ "part" \in Things /\ "part" \notin Endings
  BY DEF Things, Endings
<1>2. Count(Append(s, "part"), {"resp"}) = Count(s, {"resp"})
  BY <1>1, CountShorter
<1>3. Count(Append(s, "head"), {"resp"}) = Count(s, {"resp"})
  BY <1>1, CountShorter
<1>4. Count(Append(s, "close"), {"resp"}) = Count(s, {"resp"})
  BY <1>1, CountShorter
<1>5. Count(Append(s, "part"), Endings) =
        IF "part" \in Endings THEN Count(s, Endings) + 1 ELSE Count(s, Endings)
  BY <1>1, CountAppend
<1> QED BY <1>1, <1>2, <1>3, <1>4, <1>5

\* A busy connection stays busy with what it is sent.
LEMMA SendsBusy ==
  ASSUME NEW e, NEW s \in Socket, NEW t, NEW o \in Owner, Busy(e, s, o),
         s.st = "open", s.owed > 0, Sends(s, t)
  PROVE  Busy(e, t, o)
<1>1. s.rx \in Seq(Things) /\ Count(s.rx, {"resp"}) \in Nat
  BY Expected
<1>2. \A i \in DOMAIN s.rx : s.rx[i] \in {"part", "resp", "bad"}
  BY DEF Busy, EndsWith
<1>3. ASSUME NEW x \in {"resp", "bad"},
             t = [st |-> "open", rx |-> Append(s.rx, x), owed |-> s.owed - 1]
      PROVE  Busy(e, t, o)
  BY <1>1, <1>2, <1>3, SendEnding
<1>4. CASE t = [st |-> "open", rx |-> Append(Append(s.rx, "part"), "resp"),
                owed |-> s.owed - 1]
  <2>1. PICK r : r = Append(s.rx, "part")
    OBVIOUS
  <2>2. r \in Seq(Things) /\ Count(r, Endings) = Count(s.rx, Endings)
    BY <1>1, <2>1, SendPart
  <2>3. \A i \in DOMAIN r : r[i] \in {"part", "resp", "bad"}
    <3>1. "part" \in Things /\ "part" \in {"part", "resp", "bad"}
      BY DEF Things
    <3> QED BY <1>1, <1>2, <2>1, <3>1, AppendWithin
  <2>4. "resp" \in {"resp", "bad"} /\ t.st = "open" /\ t.owed = s.owed - 1
        /\ t.rx = Append(r, "resp")
    BY <1>4, <2>1
  <2> QED BY <2>2, <2>3, <2>4, SendEnding
<1>5. ASSUME t.st = "fin", t.owed = 0, Count(t.rx, {"resp"}) = Count(s.rx, {"resp"}),
             "fin" \in Env \/ (t.rx # <<>> /\ t.rx[Len(t.rx)] \in {"part", "close"})
      PROVE  Busy(e, t, o)
  BY <1>1, <1>5, SendEnd
<1>6. ASSUME NEW r \in Seq(Things), NEW x \in {"part", "close"}
      PROVE  Append(r, x) # <<>> /\ Append(r, x)[Len(Append(r, x))] = x
  <2>1. x \in Things
    BY DEF Things
  <2>2. Len(Append(r, x)) = Len(r) + 1 /\ Append(r, x)[Len(r) + 1] = x
    BY <2>1
  <2>3. Append(r, x) # <<>>
    BY <2>1
  <2> QED BY <2>2, <2>3
<1>7. ASSUME NEW x \in {"close", "part"},
             t = [st |-> "fin", rx |-> Append(s.rx, x), owed |-> 0]
      PROVE  Busy(e, t, o)
  <2>1. Count(Append(s.rx, x), {"resp"}) = Count(s.rx, {"resp"})
    BY <1>1, <1>7, SendPart
  <2> QED BY <1>1, <1>5, <1>6, <1>7, <2>1
<1>8. ASSUME NEW x \in {"head", "close"},
             t = [st |-> "fin", rx |-> Append(Append(s.rx, x), "part"), owed |-> 0]
      PROVE  Busy(e, t, o)
  <2>1. PICK r : r = Append(s.rx, x)
    OBVIOUS
  <2>2. r \in Seq(Things) /\ Count(r, {"resp"}) = Count(s.rx, {"resp"})
    BY <1>1, <1>8, <2>1, SendPart
  <2>3. Count(Append(r, "part"), {"resp"}) = Count(r, {"resp"})
    BY <2>2, SendPart
  <2>4. t.rx # <<>> /\ t.rx[Len(t.rx)] = "part"
    BY <1>6, <1>8, <2>1, <2>2
  <2> QED BY <1>5, <1>8, <2>1, <2>2, <2>3, <2>4
<1>9. CASE "fin" \in Env /\ t = [st |-> "fin", rx |-> s.rx, owed |-> 0]
  BY <1>5, <1>9
<1> QED BY <1>3, <1>4, <1>7, <1>8, <1>9 DEF Sends

LEMMA ServerOrdered ==
  ASSUME Quiet, Good, Groups', NEW f \in Fds, Accept(f) \/ Reply(f) \/ Misbehave(f)
  PROVE  Ordered'
<1>1. PICK c \in Conns : /\ c = Client(f) /\ fd[c] = f /\ Connected(c) /\ Stays(c)
                         /\ UNCHANGED <<now, events, connVars, delay_timers>>
  BY ServerStays DEF Good
<1>2. PICK e, s, o, t : e = events[f] /\ s = sockets[f] /\ o = Own(c) /\ t = sockets'[f]
  OBVIOUS
<1>3. s \in Socket /\ o \in Owner /\ sockets \in [Fds -> Socket]
  BY <1>2, OwnType DEF Good, Kept, Sound, World, Worlds
<1>4. /\ UNCHANGED <<thread_start, complete, pending, has_pending, written, parser>>
      /\ fd'[c] = f
  BY <1>1 DEF connVars, batchVars, statVars, Stays
<1>5. Own(c)' = o /\ \A d \in Conns : Own(d)' = Own(d)
  BY <1>1, <1>2, <1>4 DEF Own
<1>6. Connecting(e, s, o) \/ Idle(e, s, o) \/ Busy(e, s, o)
  <2>1. Ev(c) = e /\ So(c) = s
    BY <1>1, <1>2 DEF Ev, So
  <2> QED BY <1>1, <1>2, <2>1 DEF Good, Ordered, Settled, Stage
<1>7. \/ Connecting(e, t, o)
      \/ Idle(e, t, o)
      \/ Busy(e, s, o) /\ Busy(e, t, o)
  <2>1. CASE Accept(f)
    <3>1. s.st = "syn" /\ Connecting(e, s, o)
      BY <1>2, <1>6, <2>1 DEF Accept, Idle, Busy
    <3>2. t.st = "open" /\ t.rx = s.rx /\ t.owed = s.owed
      BY <1>2, <1>3, <2>1 DEF Accept, Socket
    <3> QED BY <3>1, <3>2 DEF Connecting
  <2>2. ASSUME s.st = "open", s.owed > 0, Sends(s, t)
        PROVE  Busy(e, s, o) /\ Busy(e, t, o)
    <3>1. Busy(e, s, o)
      BY <1>6, <2>2 DEF Connecting, Idle
    <3> QED BY <1>3, <2>2, <3>1, SendsBusy
  <2>3. CASE Reply(f)
    BY <1>2, <1>3, <2>2, <2>3, ReplySends
  <2>4. CASE Misbehave(f)
    <3>1. "unsolicited" \notin Env /\ "idle_reset" \notin Env /\ (TLS \/ "refuse" \notin Env)
      BY DEF Quiet
    <3>2. CASE /\ s.st = "open" /\ s.owed > 0
               /\ \/ Fault(f, "cut", [st |-> "fin", rx |-> Append(s.rx, "part"), owed |-> 0])
                  \/ Fault(f, "bad", [st |-> "open", rx |-> Append(s.rx, "bad"), owed |-> s.owed - 1])
                  \/ Fault(f, "trailing",
                           [st |-> "fin", rx |-> s.rx \o <<"close", "part">>, owed |-> 0])
                  \/ Fault(f, "fin", [st |-> "fin", rx |-> s.rx, owed |-> 0])
      <4>1. s.rx \o <<"close", "part">> = Append(Append(s.rx, "close"), "part")
        BY <1>3 DEF Socket
      <4>2. Sends(s, t)
        BY <1>2, <1>3, <3>2, <4>1 DEF Fault, Sends
      <4> QED BY <2>2, <3>2, <4>2
    <3>3. ASSUME s.st = "fin" \/ (s.st = "open" /\ s.owed > 0),
                 NEW rx \in {s.rx, <<>>},
                 Fault(f, "reset", [st |-> "rst", rx |-> rx, owed |-> 0])
          PROVE  Busy(e, s, o) /\ Busy(e, t, o)
      <4>1. Busy(e, s, o)
        BY <1>6, <3>3 DEF Connecting, Idle
      <4>2. t.st = "rst" /\ t.rx = rx
        BY <1>2, <1>3, <3>3 DEF Fault
      <4>3. Count(s.rx, {"resp"}) \in Nat
        BY <1>3, <4>1, Expected
      <4>4. Count(<<>>, {"resp"}) = 0
        BY CountEmpty
      <4>5. Count(t.rx, {"resp"}) \in Nat /\ Count(t.rx, {"resp"}) <= Count(s.rx, {"resp"})
        BY <4>2, <4>3, <4>4
      <4>6. Busy(e, t, o)
        BY <1>3, <3>3, <4>1, <4>2, <4>5, SendEnd
      <4> QED BY <4>1, <4>6
    <3>4. \/ s.st = "syn" /\ Fault(f, "refuse", [s EXCEPT !.st = "rst"])
          \/ /\ s.st = "open" /\ s.owed > 0
             /\ \/ Fault(f, "cut", [st |-> "fin", rx |-> Append(s.rx, "part"), owed |-> 0])
                \/ Fault(f, "bad", [st |-> "open", rx |-> Append(s.rx, "bad"), owed |-> s.owed - 1])
                \/ Fault(f, "trailing",
                         [st |-> "fin", rx |-> s.rx \o <<"close", "part">>, owed |-> 0])
                \/ Fault(f, "fin", [st |-> "fin", rx |-> s.rx, owed |-> 0])
          \/ /\ s.st = "fin" \/ (s.st = "open" /\ s.owed > 0)
             /\ \E rx \in {s.rx, <<>>} :
                  Fault(f, "reset", [st |-> "rst", rx |-> rx, owed |-> 0])
      BY <1>2, <2>4, <3>1 DEF Misbehave, Fault
    <3>5. ASSUME s.st = "syn", Fault(f, "refuse", [s EXCEPT !.st = "rst"])
          PROVE  Connecting(e, t, o)
      <4>1. TLS /\ Connecting(e, s, o)
        BY <1>6, <3>1, <3>5 DEF Fault, Idle, Busy
      <4>2. t = [s EXCEPT !.st = "rst"]
        BY <1>2, <1>3, <3>5 DEF Fault
      <4>3. t.st = "rst" /\ t.rx = s.rx /\ t.owed = s.owed
        BY <1>3, <4>2 DEF Socket
      <4> QED BY <4>1, <4>3 DEF Connecting
    <3> QED BY <3>2, <3>3, <3>4, <3>5
  <2> QED BY <2>1, <2>3, <2>4
<1>8. Ahead(c, complete[c])'
  BY <1>1, <1>4, SameAhead DEF Good, Ordered
<1>9. Busy(e, t, o) => Ahead(c, complete[c] + pending[c])'
  <2>1. Busy(e, t, o) => Busy(e, s, o)
    BY <1>7 DEF Connecting, Idle, Busy
  <2>2. Ev(c) = e /\ So(c) = s
    BY <1>1, <1>2 DEF Ev, So
  <2>3. Busy(e, s, o) => Ahead(c, complete[c] + pending[c])
    BY <1>1, <1>2, <2>2 DEF Good, Ordered, Settled, RateKept
  <2> QED BY <1>1, <1>4, <2>1, <2>3 DEF Ahead, Schedule!Owed
<1>10. events'[f] = e
  BY <1>1, <1>2
<1>11. Connected(c)' /\ Aside(c, World, World')
  BY <1>1, StaysAside
<1>12. Settled(c)'
  BY <1>2, <1>4, <1>5, <1>7, <1>8, <1>9, <1>10, <1>11, StageNext
<1>13. Untouched(c)
  BY <1>4, <1>5 DEF Untouched
<1> QED BY <1>1, <1>11, <1>12, <1>13, OneSettled DEF Good

-----------------------------------------------------------------------------
(* The invariant is inductive, and what follows from it.                       *)

LEMMA QuietSettled ==
  ASSUME Good, UNCHANGED <<fd, events, sockets, delay_timers, connVars>>,
         now' \in {now, now + 1}
  PROVE  Ordered'
<1>1. UNCHANGED <<thread_start, complete, pending, has_pending, written, parser>>
  BY DEF connVars, batchVars, statVars
<1>2. ASSUME NEW c \in Conns PROVE Settled(c)'
  <2>1. /\ Own(c)' = Own(c) /\ Ev(c)' = Ev(c) /\ So(c)' = So(c) /\ Settled(c)
        /\ Connected(c)' <=> Connected(c)
    BY <1>1 DEF Own, Ev, So, Good, Ordered, Connected, Client
  <2>2. /\ thread_start[c] \in Nat /\ now \in Nat /\ complete[c] \in Nat
        /\ pending[c] \in Nat /\ Pipeline \in Nat /\ Period \in Nat
    <3>1. pending[c] \in 0..(Wrap - 1) /\ Wrap \in Nat /\ Pipeline \in Nat /\ Period \in Nat
      BY ConstantsAssumption, ThreadAssumption DEF Good, Groups, BatchTyped
    <3> QED BY <3>1 DEF Good, Groups, LoopTyped, OpenTyped, StatTyped
  <2>3. ASSUME NEW n \in Nat, Ahead(c, n) PROVE Ahead(c, n)'
    <3>1. SUFFICES ASSUME n > Pipeline
                   PROVE  thread_start[c] + (n - Pipeline) * Period <= now'
      BY <1>1 DEF Ahead, Schedule!Owed
    <3>2. thread_start[c] + (n - Pipeline) * Period <= now
      BY <2>3, <3>1 DEF Ahead, Schedule!Owed
    <3>3. PICK k \in Nat : k = n - Pipeline
      BY <2>2, <3>1
    <3>4. k * Period \in Nat
      BY <2>2, ProductNat
    <3> QED BY <2>2, <3>2, <3>3, <3>4
  <2>4. PICK n \in Nat, m \in Nat : n = complete[c] /\ m = complete[c] + pending[c]
    BY <2>2
  <2>5. Ahead(c, n) /\ (Connected(c) /\ Busy(Ev(c), So(c), Own(c)) => Ahead(c, m))
    BY <2>1, <2>4 DEF Settled, RateKept
  <2>6. Ahead(c, complete[c])'
    <3>1. Ahead(c, n)'
      BY <2>3, <2>5
    <3> QED BY <1>1, <2>4, <3>1 DEF Ahead, Schedule!Owed
  <2>7. Connected(c)' /\ Busy(Ev(c)', So(c)', Own(c)') => Ahead(c, complete[c] + pending[c])'
    <3> SUFFICES ASSUME Connected(c)', Busy(Ev(c)', So(c)', Own(c)')
                 PROVE  Ahead(c, complete[c] + pending[c])'
      OBVIOUS
    <3>1. Ahead(c, m)'
      BY <2>1, <2>3, <2>5
    <3> QED BY <1>1, <2>4, <3>1 DEF Ahead, Schedule!Owed
  <2>8. Stage(c)'
    BY <2>1 DEF Settled, Stage
  <2> QED BY <2>6, <2>7, <2>8 DEF Settled, RateKept
<1> QED BY <1>2 DEF Ordered

LEMMA OrderedNext ==
  ASSUME Quiet, Good, Groups', Kept', [Next]_vars PROVE Ordered'
<1>1. ASSUME NEW c \in Conns, TimersOf(c) PROVE Ordered'
  BY <1>1, OpenOrdered, DelayOrdered DEF TimersOf
<1>2. ASSUME NEW f \in Fds, Handles(f) PROVE Ordered'
  BY <1>2, ConnectedOrdered, WriteDelayedOrdered, WriteErrorOrdered, WriteOrdered,
     ReadSomeOrdered, ReadResponseOrdered, ReadRenewOrdered
     DEF Handles, WriteStep, ReadStep
<1>3. CASE ServerStep
  <2>1. PICK f \in Fds : Accept(f) \/ Reply(f) \/ Misbehave(f)
    BY <1>3 DEF ServerStep
  <2> QED BY <2>1, ServerOrdered
<1>4. CASE check_timeouts \/ LeaveLoop \/ handler \/ Tick \/ Terminated \/ UNCHANGED vars
  BY <1>4, QuietSettled DEF check_timeouts, LeaveLoop, handler, Tick, Ticks, Terminated,
     vars, ioVars, timerVars
<1> QED BY <1>1, <1>2, <1>3, <1>4 DEF Next, Handles

LEMMA OrderedAlways == ASSUME Quiet PROVE Spec => []Ordered
<1>1. Init => Ordered
  <2>1. Init => \A c \in Conns : ~Connected(c) /\ delay_timers[c] = <<>> /\ complete[c] = 0
    BY ConstantsAssumption DEF Init, ThreadInit, Connected, NoFd
  <2> QED BY <2>1, ConstantsAssumption DEF Ordered, Settled, Stage, RateKept, Ahead
<1>2. Inv => Groups /\ Kept
  BY TypeParts DEF Inv, Groups
<1>3. (Inv => Groups /\ Kept)'
  BY <1>2, PTL
<1>4. Inv /\ Ordered /\ Inv' /\ [Next]_vars => Ordered'
  BY <1>2, <1>3, OrderedNext DEF Good
<1> QED BY <1>1, <1>4, Invariant, PTL DEF Spec

\* A connection sleeps on one timer, and only with a socket, nothing on the wire and
\* no event that would write: it never sends what it has sent already.
THEOREM SleepsOnce == ASSUME Quiet PROVE Spec => []OneSleep
<1>1. ASSUME Ordered, NEW c \in Conns, delay_timers[c] # <<>>
      PROVE  /\ Len(delay_timers[c]) = 1 /\ Connected(c)
             /\ W \notin events[fd[c]].mask /\ Outstanding(c) = 0
  <2>1. Connected(c) /\ Idle(Ev(c), So(c), Own(c))
    BY <1>1, OwnIs DEF Ordered, Settled, Stage, Connecting, Busy
  <2>2. Len(delay_timers[c]) = 1 /\ W \notin events[fd[c]].mask
    BY <1>1, <2>1, OwnIs DEF Idle, Ev
  <2>3. sockets[fd[c]].rx = <<>> /\ sockets[fd[c]].owed = 0
    BY <2>1 DEF Idle, So
  <2>4. {i \in DOMAIN <<>> : Ends(<<>>[i])} = {}
    OBVIOUS
  <2>5. Outstanding(c) = 0
    BY <2>3, <2>4, FS_EmptySet DEF Outstanding
  <2> QED BY <2>1, <2>2, <2>5
<1>2. Ordered => OneSleep
  BY <1>1 DEF OneSleep
<1> QED BY <1>2, OrderedAlways, PTL

\* Nobody at all takes over an open socket, then: who sleeps has one.
THEOREM NobodyIsDisplaced == ASSUME Quiet PROVE Spec => [][Keeps]_vars
<1>1. Inv /\ Inv' /\ OneSleep /\ [Next]_vars => [Keeps]_vars
  BY StepKeeps DEF Inv, OneSleep, Keeps
<1> QED BY <1>1, Invariant, SleepsOnce, PTL DEF Spec

\* The rate asked for is exceeded by no more than the batch in flight, also while
\* a connection catches up, and whatever was lost on the way.
THEOREM RateIsKept == ASSUME Quiet PROVE Spec => []RateCeiling
<1>1. Ordered => RateCeiling
  BY DEF Ordered, Settled, RateKept, Ahead, RateCeiling
<1> QED BY <1>1, OrderedAlways, PTL

LEMMA OutstandingIs ==
  ASSUME Good, NEW c \in Conns, Connected(c)
  PROVE  /\ Outstanding(c) = So(c).owed + Count(So(c).rx, Endings)
         /\ So(c) \in Socket
<1>1. sockets \in [Fds -> Socket] /\ fd[c] \in Fds
  BY DEF Connected, Good, Kept, Sound, World, Worlds
<1>2. PICK s \in Socket : s = sockets[fd[c]]
  BY <1>1
<1>3. s.rx \in Seq(Things)
  BY DEF Socket, Things
<1>4. {i \in DOMAIN s.rx : Ends(s.rx[i])} = {i \in DOMAIN s.rx : s.rx[i] \in Endings}
  BY <1>3 DEF Ends, Endings
<1> QED BY <1>2, <1>4 DEF Outstanding, So, Count

\* A connection that has sent its batch expects as many responses as are on
\* their way, and one that has sent nothing has nothing on its way.
LEMMA WireMatches ==
  ASSUME Good PROVE PendingMatchesWire
<1> SUFFICES ASSUME NEW c \in Conns, Connected(c), sockets[fd[c]].st = "open",
                    W \notin events[fd[c]].mask
             PROVE  Outstanding(c) = IF has_pending[c] /\ delay_timers[c] = <<>>
                                       THEN pending[c] ELSE 0
  BY DEF PendingMatchesWire
<1>1. So(c).st = "open" /\ W \notin Ev(c).mask
  BY DEF So, Ev
<1>2. Idle(Ev(c), So(c), Own(c)) \/ Busy(Ev(c), So(c), Own(c))
  BY <1>1 DEF Good, Ordered, Settled, Stage, Connecting
<1>3. Outstanding(c) = So(c).owed + Count(So(c).rx, Endings) /\ So(c) \in Socket
  BY OutstandingIs
<1>4. CASE Idle(Ev(c), So(c), Own(c))
  <2>1. So(c).owed = 0 /\ So(c).rx = <<>> /\ Len(delay_timers[c]) = 1
    BY <1>1, <1>4, OwnIs DEF Idle
  <2>2. delay_timers[c] # <<>>
    <3>1. PICK l : l = delay_timers[c]
      OBVIOUS
    <3>2. Len(l) = 1 => l # <<>>
      OBVIOUS
    <3> QED BY <2>1, <3>1, <3>2, Zenon
  <2>3. Count(<<>>, Endings) = 0
    BY CountEmpty
  <2> QED BY <1>3, <2>1, <2>2, <2>3
<1>5. CASE Busy(Ev(c), So(c), Own(c))
  <2>1. /\ pending[c] = So(c).owed + Count(So(c).rx, Endings) + Pipeline - SentOf(Ev(c), Own(c))
        /\ has_pending[c] /\ delay_timers[c] = <<>>
    BY <1>1, <1>5, OwnIs DEF Busy, Expects
  <2>2. SentOf(Ev(c), Own(c)) = Pipeline /\ Pipeline \in Nat
    BY <1>1, ConstantsAssumption DEF SentOf
  <2>3. So(c).owed \in Nat /\ Count(So(c).rx, Endings) \in Nat
    <3>1. Own(c) \in Owner
      BY OwnType DEF Good
    <3> QED BY <1>3, <1>5, <3>1, Expected
  <2> QED BY <1>3, <2>1, <2>2, <2>3
<1> QED BY <1>2, <1>4, <1>5

LEMMA GoodAlways == ASSUME Quiet PROVE Spec => []Good
<1>1. Inv /\ Ordered => Good
  BY TypeParts DEF Inv, Groups, Good
<1> QED BY <1>1, Invariant, OrderedAlways, PTL

\* A connection that waits for responses expects as many as are on their way:
\* more, and it would wait forever; fewer, and it would send while the server
\* still works on the last batch.
THEOREM PendingIsOnTheWire == ASSUME Quiet PROVE Spec => []PendingMatchesWire
  BY WireMatches, GoodAlways, PTL

LEMMA AllWake ==
  ASSUME Good, TLS \/ "fin" \notin Env PROVE NoLostWakeup
<1> SUFFICES ASSUME NEW c \in Conns, Connected(c) PROVE Wakes(c)
  BY DEF NoLostWakeup
<1>1. Connecting(Ev(c), So(c), Own(c)) \/ Idle(Ev(c), So(c), Own(c))
        \/ Busy(Ev(c), So(c), Own(c))
  BY DEF Good, Ordered, Settled, Stage
<1>2. CASE Connecting(Ev(c), So(c), Own(c))
  BY <1>2 DEF Connecting, Wakes, Ev
<1>3. CASE Idle(Ev(c), So(c), Own(c))
  <2>1. W \in events[fd[c]].mask \/ Len(delay_timers[c]) = 1
    BY <1>3, OwnIs DEF Idle, Ev
  <2>2. Len(delay_timers[c]) = 1 => delay_timers[c] # <<>>
    OBVIOUS
  <2> QED BY <2>1, <2>2 DEF Wakes
<1>4. CASE Busy(Ev(c), So(c), Own(c)) /\ W \notin events[fd[c]].mask
  <2>1. CASE So(c).st = "open"
    <3>1. PendingMatchesWire
      BY WireMatches
    <3>2. has_pending[c] /\ delay_timers[c] = <<>> /\ pending[c] > 0
      BY <1>4, BusyHas DEF Good
    <3>3. Outstanding(c) = pending[c]
      BY <1>4, <2>1, <3>1, <3>2 DEF PendingMatchesWire, So
    <3> QED BY <3>2, <3>3 DEF Wakes
  <2>2. CASE So(c).st = "rst"
    BY <2>2 DEF Wakes, So
  <2>3. CASE So(c).st = "fin"
    <3>1. TLS \/ sockets[fd[c]].rx # <<>> \/ parser[c] \in {"mid", "until_eof"}
      BY <1>4, <2>3, OwnIs DEF Busy, EndsWith, So
    <3> QED BY <2>3, <3>1 DEF Wakes, So
  <2> QED BY <1>4, <2>1, <2>2, <2>3 DEF Busy
<1> QED BY <1>1, <1>2, <1>3, <1>4 DEF Wakes

\* There is always something that makes a connection go on: an event that will
\* write, a timer, a response, or an end of the connection that the next read
\* acts on. Over TCP this needs that no server ends the connection instead of an
\* answer, which nothing acts on.
THEOREM NobodyIsForgotten ==
  ASSUME Quiet, TLS \/ "fin" \notin Env PROVE Spec => []NoLostWakeup
  BY AllWake, GoodAlways, PTL
===============================================================================
