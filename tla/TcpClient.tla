------------------------------ MODULE TcpClient ------------------------------
(* One worker thread of wrk over TCP or TLS (wrk.c, tcp.h, net.c, ssl.c): its  *)
(* connections, the pacing of their requests, the measurement of their         *)
(* latencies, reconnection, the timeout check and the end of the run.          *)
(*                                                                             *)
(* A handler is one action. The event loop runs a handler when the kernel      *)
(* reports its descriptor ready, or when its timer is due; here every handler  *)
(* that is ready may run next, which allows each order the loop can choose     *)
(* (EventLoop.tla has the loop itself) and any delay of a handler. What does   *)
(* not depend on the transport is in Thread.tla. Descriptors are shared with   *)
(* other threads, so a new socket gets any closed one rather than the lowest.  *)
EXTENDS Thread

CONSTANTS
  Fds,          \* descriptors a socket can get
  Pipeline,     \* cfg.pipeline: requests in one batch
  Length,       \* c->length, in the units one write may stop at
  Wrap,         \* 2^64, the range of the unsigned counter c->pending
  TLS,          \* the https functions of ssl.c instead of net.c
  SyncFail,     \* connect() or aeCreateFileEvent may fail on the spot
  Env,          \* what the server, network and user may do beyond answering
  MaxFaults,    \* bound: refusals, resets, cuts and the like
  MaxResponses  \* bound: responses a connection is sent

Faults == {"cut", "bad", "trailing", "unsolicited", "fin", "reset", "idle_reset", "refuse"}

ASSUME ConstantsAssumption ==
  /\ 0 \notin Fds
  /\ Early = 0
  /\ {Pipeline, Length} \subseteq Nat \ {0}
  /\ {MaxFaults, MaxResponses} \subseteq Nat
  /\ Wrap \in Nat /\ Wrap > Pipeline
  /\ {TLS, SyncFail} \subseteq BOOLEAN
  /\ Env \subseteq Faults \cup {"part", "close", "until_eof", "sigint"}

NoFd == 0        \* c->fd of a connection that was never opened (zcalloc)
NoConn == 0      \* client data of a descriptor never registered

Procs == {"none", "socket_connected", "socket_readable", "socket_writeable"}

VARIABLES
  events,           \* loop->events
  sockets,          \* the kernel's sockets: state, bytes to read, requests owed
  delay_timers,     \* due times of the delay_request timers
  fd,               \* c->fd
  pending, written,
  parser,           \* c->parser.state, as far as the client tells states apart
  faults            \* how many faults the environment has made

timerVars == <<connect_timer, delay_timers, check_timer>>
ioVars    == <<fd, events, sockets, errors>>
batchVars == <<start, markVars, has_pending, pending>>
connVars  == <<thread_start, paceVars, batchVars, statVars, written, parser>>
vars == <<now, loopVars, timerVars, ioVars, connVars, faults>>

Closed == [st |-> "closed", rx |-> <<>>, owed |-> 0]
Fresh  == [st |-> "syn", rx |-> <<>>, owed |-> 0]

Init ==
  /\ ThreadInit
  /\ events = [f \in Fds |-> [mask |-> {}, rfileProc |-> "none",
                              wfileProc |-> "none", clientData |-> NoConn]]
  /\ sockets = [f \in Fds |-> Closed]
  /\ delay_timers = [c \in Conns |-> <<>>]
  /\ fd = [c \in Conns |-> NoFd]
  /\ pending = [c \in Conns |-> 0]
  /\ written = [c \in Conns |-> 0]
  /\ parser = [c \in Conns |-> "dead"]
  /\ faults = 0

-----------------------------------------------------------------------------
(* Sockets. A world is what connecting and reconnecting change; an operator on *)
(* worlds returns the worlds it can end in, so that a handler that reconnects  *)
(* twice is the composition of two reconnects.                                 *)

World == [fd |-> fd, events |-> events, sockets |-> sockets, errors |-> errors]

Becomes(w) ==
  fd' = w.fd /\ events' = w.events /\ sockets' = w.sockets /\ errors' = w.errors

Counted(w, e) == [w EXCEPT !.errors[e] = @ + 1]

FreeFds(w) == {f \in Fds : w.sockets[f].st = "closed"}

\* A failure counts a connect error and leaves c->fd as it was, the number of a
\* closed socket; no caller looks at the result and nothing tries again.
tcp_connect_socket(c, w) ==
  {[fd |-> [w.fd EXCEPT ![c] = f],
    sockets |-> [w.sockets EXCEPT ![f] = Fresh],
    events |-> aeCreateFileEvent(w.events, f, {R, W}, "socket_connected", c),
    errors |-> w.errors] : f \in FreeFds(w)}
  \cup (IF SyncFail \/ FreeFds(w) = {} THEN {Counted(w, "connect")} ELSE {})

\* A fault for the checks: the events are left behind.
CloseOnly(c, w) == [w EXCEPT !.sockets[w.fd[c]] = Closed]

\* The events go before the descriptor is closed, a closed one has none.
CloseSocket(c, w) ==
  [fd |-> w.fd,
   sockets |-> [w.sockets EXCEPT ![w.fd[c]] = Closed],
   events |-> aeDeleteFileEvent(w.events, w.fd[c], {R, W}),
   errors |-> w.errors]

tcp_reconnect_socket(c, w) == tcp_connect_socket(c, CloseSocket(c, w))

\* The writable event a timer or a finished batch asks for. epoll refuses a
\* descriptor that is closed, and the table then stays as it was.
AwaitWritable(c, w) ==
  IF fd[c] \in Fds /\ w.sockets[fd[c]].st # "closed"
    THEN [w EXCEPT !.events =
            aeCreateFileEvent(@, fd[c], {W}, "socket_writeable", c)]
    ELSE w

\* A fault for the checks: the event stays.
KeepsWriting(c) == events

StopWriting(c) == aeDeleteFileEvent(events, fd[c], {W})

\* What epoll reports: nothing before the connection is made or refused; end of
\* file and errors make both directions ready.
Readable(f) == sockets[f].rx # <<>> \/ sockets[f].st \in {"fin", "rst"}
Writable(f) == sockets[f].st \in {"open", "fin", "rst"}

Fires(f, proc) ==
  /\ running
  /\ \/ R \in events[f].mask /\ Readable(f) /\ events[f].rfileProc = proc
     \/ W \in events[f].mask /\ Writable(f) /\ events[f].wfileProc = proc

Client(f) == events[f].clientData

-----------------------------------------------------------------------------
(* The timers of a connection.                                                 *)

\* The timer wakes the connection, or waits again if it is still too early: the
\* loop's milliseconds can end before the wait does.
delay_request(c, i) ==
  LET r == usec_to_next_send(c) IN
  /\ i \in DOMAIN delay_timers[c]
  /\ Due(delay_timers[c][i])
  /\ Paced(c, r)
  /\ \/ /\ r.wait > 0
        /\ delay_timers' = [delay_timers EXCEPT ![c][i] = Delay(r.wait)]
        /\ UNCHANGED ioVars
     \/ /\ r.wait = 0
        /\ delay_timers' = [delay_timers EXCEPT ![c] = RemoveAt(@, i)]
        /\ Becomes(AwaitWritable(c, World))
  /\ UNCHANGED <<now, loopVars, connect_timer, check_timer, thread_start,
                 batchVars, statVars, written, parser, faults>>

delayed_initial_connect(c) ==
  /\ Opens(c)
  /\ \E w \in tcp_connect_socket(c, World) : Becomes(w)
  /\ UNCHANGED <<now, loopVars, delay_timers, check_timer, paceVars, batchVars,
                 statVars, written, parser, faults>>

-----------------------------------------------------------------------------
(* socket_connected. sock_connect says OK whatever became of the connection;   *)
(* ssl_connect needs the peer. (Its RETRY leaves everything as it is.)         *)

\* A fault for the checks: a request cut short is taken up where it ended.
ParserAfresh(c) ==
  /\ parser' = [parser EXCEPT ![c] = "start"]
  /\ UNCHANGED written

Afresh(c) ==
  /\ parser' = [parser EXCEPT ![c] = "start"]
  /\ written' = [written EXCEPT ![c] = 0]

socket_connected(f) ==
  LET c == Client(f) IN
  /\ Fires(f, "socket_connected")
  /\ \/ /\ ~TLS \/ sockets[f].st = "open"
        /\ Afresh(c)
        /\ events' = aeCreateFileEvent(
                       aeCreateFileEvent(events, f, {R}, "socket_readable", c),
                       f, {W}, "socket_writeable", c)
        /\ UNCHANGED <<fd, sockets, errors>>
     \/ /\ TLS /\ sockets[f].st # "open"
        /\ \E w \in tcp_reconnect_socket(c, Counted(World, "connect")) : Becomes(w)
        /\ UNCHANGED <<parser, written>>
  /\ UNCHANGED <<now, loopVars, timerVars, thread_start, paceVars, batchVars,
                 statVars, faults>>

-----------------------------------------------------------------------------
(* socket_writeable. Only a request of which nothing is written yet is paced.  *)

WriteDelayed(f) ==
  LET c == Client(f)
      r == usec_to_next_send(c)
  IN
  /\ Fires(f, "socket_writeable")
  /\ written[c] = 0
  /\ r.wait > 0
  /\ Paced(c, r)
  /\ events' = StopWriting(c)
  /\ delay_timers' = [delay_timers EXCEPT ![c] = Append(@, Delay(r.wait))]
  /\ UNCHANGED <<now, loopVars, connect_timer, check_timer, fd, sockets, errors,
                 thread_start, batchVars, statVars, written, parser, faults>>

\* A fault for the checks: a resend expects what the first send did.
ExpectOnce(c) ==
  pending' = [pending EXCEPT ![c] = IF has_pending[c] THEN @ ELSE Pipeline]

Expect(c) == pending' = [pending EXCEPT ![c] = Pipeline]

\* The bookkeeping before the write.
Starts(c) ==
  \/ written[c] > 0 /\ UNCHANGED <<paceVars, batchVars>>
  \/ LET r == usec_to_next_send(c) IN
     /\ written[c] = 0
     /\ r.wait = 0
     /\ Paced(c, r)
     /\ start' = [start EXCEPT ![c] = now]
     /\ Mark(c)
     /\ Expect(c)
     /\ has_pending' = [has_pending EXCEPT ![c] = TRUE]

\* Requests of the batch that are whole once n units are written.
Sent(n) == (n * Pipeline) \div Length

\* n = 0 is RETRY: nothing is written, and the write is tried again later.
WriteRequest(f, n) ==
  LET c == Client(f)
      total == written[c] + n
  IN
  /\ Fires(f, "socket_writeable")
  /\ sockets[f].st \in {"open", "fin"}
  /\ total <= Length
  /\ Starts(c)
  /\ sockets' = [sockets EXCEPT ![f].owed =
                   IF sockets[f].st = "open" THEN @ + Sent(total) - Sent(written[c]) ELSE @]
  /\ \/ /\ total < Length
        /\ written' = [written EXCEPT ![c] = total]
        /\ UNCHANGED events
     \/ /\ total = Length
        /\ written' = [written EXCEPT ![c] = 0]
        /\ events' = StopWriting(c)
  /\ UNCHANGED <<now, loopVars, timerVars, fd, errors, thread_start, statVars,
                 parser, faults>>

WriteError(f) ==
  LET c == Client(f) IN
  /\ Fires(f, "socket_writeable")
  /\ sockets[f].st = "rst"
  /\ Starts(c)
  /\ \E w \in tcp_reconnect_socket(c, Counted(World, "write")) : Becomes(w)
  /\ UNCHANGED <<now, loopVars, timerVars, thread_start, statVars, written,
                 parser, faults>>

-----------------------------------------------------------------------------
(* socket_readable. One step hands the parser the bytes up to the end of the   *)
(* first thing in them that matters: part of a response ("part"), the headers  *)
(* of one that only the end of the connection ends ("head"), the last bytes of *)
(* a response that keeps the connection ("resp") or closes it ("close"), or    *)
(* bytes that do not parse ("bad").                                            *)

\* A fault for the checks: a response counted twice.
LeftOfTwo(c) == pending[c] - 2

\* The counter of responses still expected is unsigned.
Left(c) == (pending[c] - 1) % Wrap

\* response_complete, up to the question whether the connection is kept.
response_complete(c) ==
  LET more == has_pending[c] /\ Left(c) # 0 IN
  /\ pending' = [pending EXCEPT ![c] = Left(c)]
  /\ has_pending' = [has_pending EXCEPT ![c] = more]
  /\ stats_request_completed(c, more)
  /\ UNCHANGED <<start, markVars>>

\* A fault for the checks: nothing asks for the next batch.
AnsweredOnly(c, w) == w

\* Its effect on the socket: the end of a batch asks for the next one.
Answered(c, w) == IF Left(c) = 0 THEN AwaitWritable(c, w) ELSE w

\* The read takes the first thing from the socket.
Taken(f) == [World EXCEPT !.sockets[f].rx = Tail(@)]

Reads(f) ==
  /\ running
  /\ R \in events[f].mask
  /\ events[f].rfileProc = "socket_readable"

Holds(f, things) == sockets[f].rx # <<>> /\ Head(sockets[f].rx) \in things

\* What no read changes.
ReadFrame == UNCHANGED <<now, running, stop, timerVars, thread_start, paceVars,
                         written, faults>>
NoResponse == UNCHANGED <<stop_loop, batchVars, statVars>>

\* Bytes that end no response. Once the body runs to the end of the connection,
\* everything is body.
ReadSome(f) ==
  LET c == Client(f) IN
  /\ Reads(f)
  /\ \/ /\ Holds(f, {"part"}) /\ parser[c] \in {"start", "mid"}
        /\ parser' = [parser EXCEPT ![c] = "mid"]
     \/ /\ Holds(f, {"head"}) /\ parser[c] \in {"start", "mid"}
        /\ parser' = [parser EXCEPT ![c] = "until_eof"]
     \/ /\ sockets[f].rx # <<>> /\ parser[c] = "until_eof"
        /\ UNCHANGED parser
  /\ Becomes(Taken(f))
  /\ NoResponse /\ ReadFrame

\* A response that keeps the connection: the parser starts afresh.
ReadResponse(f) ==
  LET c == Client(f) IN
  /\ Reads(f)
  /\ Holds(f, {"resp"})
  /\ parser[c] \in {"start", "mid"}
  /\ response_complete(c)
  /\ Becomes(Answered(c, Taken(f)))
  /\ parser' = [parser EXCEPT ![c] = "start"]
  /\ ReadFrame

\* A response that closes the connection: the reconnect happens inside the
\* parser's callback. Bytes behind it in the same read meet a dead parser, so
\* the new socket is given up at once for another one.
ReadClose(f) ==
  LET c == Client(f)
      w == Answered(c, Taken(f))
  IN
  /\ Reads(f)
  /\ Holds(f, {"close"})
  /\ parser[c] \in {"start", "mid"}
  /\ response_complete(c)
  /\ \/ \E v \in tcp_reconnect_socket(c, w) : Becomes(v)
     \/ /\ Len(sockets[f].rx) > 1
        /\ \E v \in tcp_reconnect_socket(c, w) :
             \E u \in tcp_reconnect_socket(c, Counted(v, "read")) : Becomes(u)
  /\ parser' = [parser EXCEPT ![c] = "dead"]
  /\ ReadFrame

\* End of file where it ends a response. (TLS reads it as an error.)
ReadLastByte(f) ==
  LET c == Client(f) IN
  /\ Reads(f)
  /\ ~TLS /\ sockets[f].st = "fin" /\ sockets[f].rx = <<>>
  /\ parser[c] = "until_eof"
  /\ response_complete(c)
  /\ \E v \in tcp_reconnect_socket(c, Answered(c, World)) : Becomes(v)
  /\ UNCHANGED parser
  /\ ReadFrame

\* An error of the read or of the parser. End of file between responses is not
\* one over TCP: the parser takes it, and the loop runs the handler again and
\* again with no effect, so no step stands for it.
ReadError(f) ==
  LET c == Client(f) IN
  /\ Reads(f)
  /\ \/ /\ sockets[f].st = "rst" /\ sockets[f].rx = <<>>
        /\ UNCHANGED parser
     \/ /\ sockets[f].st = "fin" /\ sockets[f].rx = <<>> /\ TLS
        /\ UNCHANGED parser
     \/ /\ sockets[f].st = "fin" /\ sockets[f].rx = <<>> /\ ~TLS
        /\ parser[c] = "mid"
        /\ parser' = [parser EXCEPT ![c] = "dead"]
     \/ /\ Holds(f, {"bad"}) \/ (sockets[f].rx # <<>> /\ parser[c] = "dead")
        /\ parser[c] # "until_eof"
        /\ parser' = [parser EXCEPT ![c] = "dead"]
  /\ \E w \in tcp_reconnect_socket(c, Counted(World, "read")) : Becomes(w)
  /\ NoResponse /\ ReadFrame

-----------------------------------------------------------------------------
(* The end of the run, and the clock.                                          *)

check_timeouts ==
  /\ ChecksTimeouts
  /\ UNCHANGED <<now, running, stop, connect_timer, delay_timers, fd, events,
                 sockets, connVars, faults>>

handler ==
  /\ "sigint" \in Env
  /\ Interrupts
  /\ UNCHANGED <<now, running, stop_loop, timerVars, ioVars, connVars, faults>>

LeaveLoop ==
  /\ Leaves
  /\ UNCHANGED <<now, stop_loop, stop, timerVars, ioVars, connVars, faults>>

Tick ==
  /\ Ticks
  /\ UNCHANGED <<loopVars, timerVars, ioVars, connVars, faults>>

-----------------------------------------------------------------------------
(* The server and the network, which the client only sees through its sockets. *)

EnvFrame == UNCHANGED <<now, loopVars, timerVars, fd, events, errors, connVars>>

Accept(f) ==
  /\ sockets[f].st = "syn"
  /\ sockets' = [sockets EXCEPT ![f].st = "open"]
  /\ UNCHANGED faults /\ EnvFrame

\* What the server sends for one request it owes: whether more can follow, and
\* the bytes.
Replies ==
  {[st |-> "open", rx |-> <<"resp">>]}
  \cup (IF "part" \in Env
          THEN {[st |-> "open", rx |-> <<"part", "resp">>]} ELSE {})
  \cup (IF "close" \in Env
          THEN {[st |-> "fin", rx |-> <<"close">>]} ELSE {})
  \cup (IF "until_eof" \in Env
          THEN {[st |-> "fin", rx |-> <<"head", "part">>]} ELSE {})

Reply(f) ==
  /\ sockets[f].st = "open" /\ sockets[f].owed > 0
  /\ \E c \in Conns : fd[c] = f /\ complete[c] + Len(sockets[f].rx) < MaxResponses
  /\ \E r \in Replies :
       sockets' = [sockets EXCEPT ![f] =
         [st   |-> r.st,
          rx   |-> @.rx \o r.rx,
          owed |-> IF r.st = "open" THEN @.owed - 1 ELSE 0]]
  /\ UNCHANGED faults /\ EnvFrame

Fault(f, kind, s) ==
  /\ kind \in Env
  /\ faults < MaxFaults
  /\ faults' = faults + 1
  /\ sockets' = [sockets EXCEPT ![f] = s]
  /\ EnvFrame

Misbehave(f) ==
  LET s == sockets[f] IN
  \/ /\ s.st = "syn"
     /\ Fault(f, "refuse", [s EXCEPT !.st = "rst"])
  \/ /\ s.st = "open" /\ s.owed > 0
     /\ \/ \* the connection ends inside a response
           Fault(f, "cut", [st |-> "fin", rx |-> Append(s.rx, "part"), owed |-> 0])
        \/ Fault(f, "bad", [st |-> "open", rx |-> Append(s.rx, "bad"), owed |-> s.owed - 1])
        \/ \* bytes behind a response that closes the connection
           Fault(f, "trailing", [st |-> "fin", rx |-> s.rx \o <<"close", "part">>, owed |-> 0])
        \/ \* the server is gone without an answer
           Fault(f, "fin", [st |-> "fin", rx |-> s.rx, owed |-> 0])
  \/ /\ s.st = "fin" \/ (s.st = "open" /\ s.owed > 0)
     /\ \E rx \in {s.rx, <<>>} :
          Fault(f, "reset", [st |-> "rst", rx |-> rx, owed |-> 0])
  \/ /\ s.st = "open" /\ s.owed = 0
     /\ \/ \* an answer to nothing, such as 408 Request Timeout
           Fault(f, "unsolicited", [st |-> "fin", rx |-> Append(s.rx, "close"), owed |-> 0])
        \/ Fault(f, "idle_reset", [s EXCEPT !.st = "rst"])

-----------------------------------------------------------------------------
TimersOf(c) ==
  delayed_initial_connect(c) \/ \E i \in DOMAIN delay_timers[c] : delay_request(c, i)

WriteStep(f) ==
  WriteDelayed(f) \/ WriteError(f) \/ \E n \in 0..Length : WriteRequest(f, n)

ReadStep(f) ==
  ReadSome(f) \/ ReadResponse(f) \/ ReadClose(f) \/ ReadLastByte(f) \/ ReadError(f)

ServerStep == \E f \in Fds : Accept(f) \/ Reply(f) \/ Misbehave(f)

\* After the loop is left the thread is done.
Terminated == ~running /\ UNCHANGED vars

Next ==
  \/ check_timeouts
  \/ \E c \in Conns : TimersOf(c)
  \/ \E f \in Fds : socket_connected(f) \/ WriteStep(f) \/ ReadStep(f)
  \/ LeaveLoop
  \/ handler
  \/ Tick
  \/ ServerStep
  \/ Terminated

Spec == Init /\ [][Next]_vars

\* The loop runs every handler that stays ready, the clock goes on, and the
\* server takes connections and answers what it owes.
Fairness ==
  /\ \A f \in Fds :
       /\ WF_vars(socket_connected(f)) /\ WF_vars(WriteStep(f)) /\ WF_vars(ReadStep(f))
       /\ WF_vars(Accept(f)) /\ WF_vars(Reply(f))
  /\ \A c \in Conns : WF_vars(TimersOf(c))
  /\ WF_vars(check_timeouts) /\ WF_vars(LeaveLoop) /\ WF_vars(Tick)

FairSpec == Spec /\ Fairness

-----------------------------------------------------------------------------
(* Properties.                                                                 *)

TypeOK ==
  /\ ThreadTypeOK
  /\ faults \in Nat
  /\ events \in [Fds -> FileEvents(Procs, Conns \cup {NoConn})]
  /\ sockets \in [Fds -> [st : {"closed", "syn", "open", "fin", "rst"},
                          rx : Seq({"part", "head", "resp", "close", "bad"}),
                          owed : Nat]]
  /\ delay_timers \in [Conns -> Seq(Nat)]
  /\ fd \in [Conns -> Fds \cup {NoFd}]
  /\ pending \in [Conns -> 0..(Wrap - 1)]
  /\ written \in [Conns -> 0..(Length - 1)]
  /\ parser \in [Conns -> {"start", "mid", "until_eof", "dead"}]

\* The assertion fd == c->fd of socket_writeable holds, and every other handler
\* too finds its connection on the descriptor it runs for.
DescriptorMatches ==
  \A f \in Fds : events[f].mask # {} => Client(f) \in Conns /\ fd[Client(f)] = f

\* Every open socket is listened to, and a closed one has no event left: no
\* socket is leaked, and a reused descriptor number inherits nothing.
SocketsWatched ==
  \A f \in Fds :
    IF sockets[f].st = "closed" THEN events[f].mask = {} ELSE R \in events[f].mask

\* c->fd is an open socket, and the connection's own. It is not before the first
\* connect, nor after one that failed: c->fd then keeps the number of a closed
\* socket, which the next socket() of another connection may return.
Connected(c) ==
  fd[c] \in Fds /\ sockets[fd[c]].st # "closed" /\ Client(fd[c]) = c

\* Nobody takes over a socket that is open, although c->fd is used after connects
\* that failed: only the timer of a connection that lost its socket in its sleep
\* and could not get another one does (delay_request looks at c->fd alone).
SocketsKept ==
  [][\A f \in Fds : R \in events[f].mask /\ R \in events'[f].mask =>
       \/ Client(f)' = Client(f)
       \/ \E c \in Conns : c = Client(f)' /\ delay_timers[c] # <<>> /\ ~Connected(c)]_vars

Ends(x) == x # "part"
\* Responses the connection is still to get for what it has sent.
Outstanding(c) ==
  LET s == sockets[fd[c]] IN s.owed + Cardinality({i \in DOMAIN s.rx : Ends(s.rx[i])})

\* A connection that waits for responses expects as many as are on their way:
\* more, and it would wait forever; fewer, and it would send while the server
\* still works on the last batch.
PendingMatchesWire ==
  \A c \in Conns :
    Connected(c) /\ sockets[fd[c]].st = "open" /\ W \notin events[fd[c]].mask =>
      Outstanding(c) = IF has_pending[c] /\ delay_timers[c] = <<>>
                         THEN pending[c] ELSE 0

\* There is always something that will make the connection go on: it may
\* write, a timer will wake it, a response is due, or its socket has ended in
\* a way that the next read acts on.
Wakes(c) ==
  \/ delay_timers[c] # <<>>
  \/ W \in events[fd[c]].mask
  \/ Outstanding(c) > 0
  \/ sockets[fd[c]].st \in {"syn", "rst"}
  \/ sockets[fd[c]].st = "fin" /\ (TLS \/ parser[c] \in {"mid", "until_eof"}
                                   \/ sockets[fd[c]].rx # <<>>)
NoLostWakeup == \A c \in Conns : Connected(c) => Wakes(c)

\* A connection sleeps on one timer, and sleeps only when it has a socket, with
\* nothing on the wire and no event that would write: else it would send twice, or
\* wake up on the socket of another.
OneSleep ==
  \A c \in Conns : delay_timers[c] # <<>> =>
    /\ Len(delay_timers[c]) = 1 /\ Connected(c)
    /\ W \notin events[fd[c]].mask /\ Outstanding(c) = 0

\* The rate asked for is never exceeded by more than the batch in flight, also
\* while a connection catches up.
RateCeiling ==
  \A c \in Conns : complete[c] > Pipeline =>
    Schedule!Owed(c, complete[c] - Pipeline) <= now

\* A batch that is measured ends, whatever was lost on the way, as long as the
\* server answers the requests that reach it.
BatchEnds ==
  \A c \in Conns :
    has_pending[c] ~> (~has_pending[c] \/ stop \/ complete[c] >= MaxResponses)
=============================================================================
