--------------------------------- MODULE Quic ---------------------------------
(* One worker thread of wrk over QUIC (quic.c, wrk.c). Every request has a QUIC *)
(* connection and a UDP socket of its own: when the connection ends, the        *)
(* callback waits for the next request to be due and opens another.             *)
(*                                                                             *)
(* picoquic is external: what it may call and return is read off the cases the *)
(* client handles. Each handler is one action, the callbacks made inside it    *)
(* included. What does not depend on the transport is in Thread.tla.           *)
EXTENDS Thread

CONSTANTS
  Fds,          \* descriptors a socket can get
  Delays,       \* milliseconds picoquic may ask to be left alone
  SyncFail,     \* socket(), bind() or aeCreateFileEvent may fail
  Env,          \* what else happens: connections that end early or fail, an
                \* interrupt, other threads that use fd_to_cnx
  MaxFaults,    \* bound: how often any of it does
  MaxResponses  \* bound: responses a connection is sent

ASSUME QuicAssumption ==
  /\ Early >= Msec - 2
  /\ Delays \subseteq Nat \ {0}
  /\ SyncFail \in BOOLEAN
  /\ Env \subseteq {"stream_reset", "close", "idle_timeout", "write_error",
                    "other_thread", "sigint"}
  /\ {MaxFaults, MaxResponses} \subseteq Nat

NoConn == 0

Procs == {"none", "quic_socket_connected", "quic_readable", "quic_writeable"}

\* The stages of a picoquic connection, and whether its request is sent.
Stages ==
  {"none", "handshake", "ready", "sent", "abandoned", "closing", "disconnected"}

VARIABLES
  events,        \* loop->events
  open,          \* the sockets that are not closed
  cnx,           \* fd_to_cnx[fd].cnx: its stage, or none
  owner,         \* fd_to_cnx[fd].c
  ae,            \* fd_to_cnx[fd].ae: no timer, the last write_request timer of
                 \* this descriptor, one that has run, or another thread's
  write_timers,  \* due times of the write_request timers of a descriptor
  recon_timers,  \* due times of the delay_recon timers of a connection
  faults         \* how often each kind of Env has happened

sockVars == <<events, open, cnx, owner, ae, write_timers, recon_timers, errors>>
batchVars == <<start, markVars, has_pending>>
vars == <<now, loopVars, connect_timer, check_timer, sockVars, thread_start,
          paceVars, batchVars, statVars, faults>>

Init ==
  /\ ThreadInit
  /\ events = [f \in Fds |-> [mask |-> {}, rfileProc |-> "none",
                              wfileProc |-> "none", clientData |-> NoConn]]
  /\ open = {}
  /\ cnx = [f \in Fds |-> "none"]
  /\ owner = [f \in Fds |-> NoConn]
  /\ ae = [f \in Fds |-> "none"]
  /\ write_timers = [f \in Fds |-> <<>>]
  /\ recon_timers = [c \in Conns |-> <<>>]
  /\ faults = [kind \in Env |-> 0]

-----------------------------------------------------------------------------
(* A world is what the socket operations change; an operator on worlds returns *)
(* the worlds it can end in.                                                   *)

World ==
  [events |-> events, open |-> open, cnx |-> cnx, owner |-> owner, ae |-> ae,
   write_timers |-> write_timers, recon_timers |-> recon_timers, errors |-> errors]

Becomes(w) ==
  /\ events' = w.events /\ open' = w.open /\ cnx' = w.cnx /\ owner' = w.owner
  /\ ae' = w.ae /\ errors' = w.errors
  /\ write_timers' = w.write_timers /\ recon_timers' = w.recon_timers

\* A failure is counted, no caller looks at the result, and nothing tries again.
quic_connect_socket(c, w) ==
  LET failed == [w EXCEPT !.errors.connect = @ + 1] IN
  {[w EXCEPT !.open = @ \cup {f},
             !.owner[f] = c,
             !.events = aeCreateFileEvent(@, f, {R, W}, "quic_socket_connected", c)]
     : f \in Fds \ w.open}
  \cup (IF w.open = Fds THEN {failed} ELSE {})
  \cup (IF SyncFail
          THEN {failed} \cup {[failed EXCEPT !.owner[f] = c] : f \in Fds \ w.open}
          ELSE {})

\* epoll refuses a descriptor that is closed.
AwaitWritable(f, c, w) ==
  IF f \in w.open
    THEN [w EXCEPT !.events = aeCreateFileEvent(@, f, {W}, "quic_writeable", c)]
    ELSE w

\* Timer i of a descriptor goes; fd_to_cnx may still hold its id.
WithoutTimer(f, i, w) ==
  LET last == w.ae[f] = "own" /\ i = Len(w.write_timers[f]) IN
  [w EXCEPT !.write_timers[f] = RemoveAt(@, i),
            !.ae[f] = IF last THEN "run" ELSE @]

\* A fault for the checks: the timer is left to run.
LeaveTimer(f, w) == {w}

\* Timer i that opens connection c anew goes.
WithoutRecon(c, i, w) == [w EXCEPT !.recon_timers[c] = RemoveAt(@, i)]

\* Every loop counts its timers from 0: an id another thread left behind names
\* some timer of this one, or none.
WithoutSome(w) ==
  (UNION {{WithoutTimer(f, i, w) : i \in DOMAIN w.write_timers[f]} : f \in Fds})
  \cup (UNION {{WithoutRecon(c, i, w) : i \in DOMAIN w.recon_timers[c]} : c \in Conns})

\* aeDeleteTimeEvent(fd_to_cnx[fd].ae).
DeleteTimer(f, w) ==
  CASE w.ae[f] = "own"     -> {WithoutTimer(f, Len(w.write_timers[f]), w)}
    [] w.ae[f] = "another" -> {w} \cup WithoutSome(w)
    [] OTHER               -> {w}

\* After a packet is read, a writer that sleeps is woken.
WakeWriter(f, w) ==
  IF w.ae[f] = "none" THEN {w}
  ELSE {AwaitWritable(f, events[f].clientData, [v EXCEPT !.ae[f] = "none"])
          : v \in DeleteTimer(f, w)}

\* A fault for the checks: the wait is for the last whole millisecond.
ReconnectSooner(usec) == DueMsec(now, usec \div Msec, Msec)

ReconnectAt(usec) == Delay(usec)

\* A fault for the checks: the connection waits, and connects at once too.
RestartAnyway(c, r, w) ==
  IF r.wait > 0
    THEN quic_connect_socket(c,
           [w EXCEPT !.recon_timers[c] = Append(@, ReconnectAt(r.wait))])
    ELSE quic_connect_socket(c, w)

\* The label restart of quic_callback. The old socket stays open.
restart(c, r, w) ==
  IF r.wait > 0
    THEN {[w EXCEPT !.recon_timers[c] = Append(@, ReconnectAt(r.wait))]}
    ELSE quic_connect_socket(c, w)

Fires(f, proc) ==
  /\ running
  /\ \/ R \in events[f].mask /\ events[f].rfileProc = proc
     \/ W \in events[f].mask /\ events[f].wfileProc = proc

Client(f) == events[f].clientData

\* What no handler of a socket changes.
SocketFrame ==
  UNCHANGED <<now, running, stop, connect_timer, check_timer, thread_start>>
NoSend == UNCHANGED <<start, markVars>>

-----------------------------------------------------------------------------
(* Timers.                                                                     *)

delayed_initial_connect(c) ==
  /\ Opens(c)
  /\ \E w \in quic_connect_socket(c, World) : Becomes(w)
  /\ UNCHANGED <<now, loopVars, check_timer, paceVars, batchVars, statVars, faults>>

\* Unlike delay_request of TCP, it does not look again whether it is time.
delay_recon(c, i) ==
  /\ i \in DOMAIN recon_timers[c]
  /\ Due(recon_timers[c][i])
  /\ \E w \in quic_connect_socket(c, WithoutRecon(c, i, World)) : Becomes(w)
  /\ SocketFrame
  /\ UNCHANGED <<stop_loop, paceVars, batchVars, statVars, faults>>

\* fd_to_cnx[fd].ae is left as it is.
write_request(f, i) ==
  /\ i \in DOMAIN write_timers[f]
  /\ Due(write_timers[f][i])
  /\ Becomes(AwaitWritable(f, owner[f], WithoutTimer(f, i, World)))
  /\ SocketFrame
  /\ UNCHANGED <<stop_loop, paceVars, batchVars, statVars, faults>>

-----------------------------------------------------------------------------
(* A UDP socket is ready to be written at once: the connection starts.         *)

quic_socket_connected(f) ==
  LET c == Client(f) IN
  /\ Fires(f, "quic_socket_connected")
  /\ cnx' = [cnx EXCEPT ![f] = "handshake"]
  /\ events' = aeCreateFileEvent(
                 aeCreateFileEvent(events, f, {R}, "quic_readable", c),
                 f, {W}, "quic_writeable", c)
  /\ UNCHANGED <<open, owner, ae, write_timers, recon_timers, errors>>
  /\ SocketFrame
  /\ UNCHANGED <<stop_loop, paceVars, batchVars, statVars, faults>>

-----------------------------------------------------------------------------
(* quic_readable. picoquic takes the packet and may call back.                 *)

\* A packet without a word for the client, which may complete the handshake.
ReadPacket(f) ==
  /\ Fires(f, "quic_readable")
  /\ \E stage \in {cnx[f]} \cup {s \in {"ready"} : cnx[f] = "handshake"} :
       \E w \in WakeWriter(f, [World EXCEPT !.cnx[f] = stage]) : Becomes(w)
  /\ SocketFrame
  /\ UNCHANGED <<stop_loop, paceVars, batchVars, statVars, faults>>

\* stream_fin: the response is complete, and the client closes the connection.
ReadFin(f) ==
  LET c == Client(f) IN
  /\ Fires(f, "quic_readable")
  /\ cnx[f] = "sent"
  /\ complete[c] < MaxResponses
  /\ has_pending' = [has_pending EXCEPT ![c] = FALSE]
  /\ stats_request_completed(c, FALSE)
  /\ \E w \in WakeWriter(f, [World EXCEPT !.cnx[f] = "closing"]) : Becomes(w)
  /\ SocketFrame
  /\ NoSend
  /\ UNCHANGED <<paceVars, faults>>

Fault(kind) ==
  /\ kind \in Env
  /\ SumFunction(faults) < MaxFaults
  /\ faults' = [faults EXCEPT ![kind] = @ + 1]

\* stop_sending and stream_reset leave the connection alive, stateless_reset,
\* close and application_close end it; each restarts. The client leaves its
\* callback registered (the lines that would remove it are comments): that
\* picoquic calls it no second time for a connection that has ended is assumed.
ReadEnd(f) ==
  LET c == Client(f)
      r == usec_to_next_send(c)
  IN
  /\ Fires(f, "quic_readable")
  /\ Paced(c, r)
  /\ \E stage \in {"abandoned", "disconnected"} :
       /\ \/ /\ stage = "abandoned" /\ cnx[f] \in {"ready", "sent"}
             /\ Fault("stream_reset")
          \/ /\ stage = "disconnected" /\ cnx[f] \in Stages \ {"none", "disconnected"}
             /\ Fault("close")
       /\ \E v \in restart(c, r, [World EXCEPT !.cnx[f] = stage]) :
            \E w \in WakeWriter(f, v) : Becomes(w)
  /\ SocketFrame
  /\ UNCHANGED <<stop_loop, batchVars, statVars>>

-----------------------------------------------------------------------------
(* quic_writeable. picoquic prepares a packet, may call back, and says whether *)
(* there is one to send, how long it wants to be left alone, or that the       *)
(* connection is over. A packet without the request changes nothing here.      *)

\* What the callback prepare_to_send keeps of a request.
Prepares(c) ==
  /\ start' = [start EXCEPT ![c] = now]
  /\ Mark(c)
  /\ has_pending' = [has_pending EXCEPT ![c] = TRUE]

\* The request fits into one packet.
WriteRequest(f) ==
  /\ Fires(f, "quic_writeable")
  /\ cnx[f] = "ready"
  /\ cnx' = [cnx EXCEPT ![f] = "sent"]
  /\ Prepares(Client(f))
  /\ UNCHANGED <<events, open, owner, ae, write_timers, recon_timers, errors>>
  /\ SocketFrame
  /\ UNCHANGED <<stop_loop, paceVars, statVars, faults>>

\* A fault for the checks: the writer stops, and no timer will wake it.
SleepForGood(f, delay, w) ==
  [w EXCEPT !.events = aeDeleteFileEvent(@, f, {W}), !.ae[f] = "own"]

\* Nothing to send: the writer sleeps.
Sleep(f, delay, w) ==
  [w EXCEPT !.events = aeDeleteFileEvent(@, f, {W}),
            !.write_timers[f] = Append(@, DueMsec(now, delay, Msec)),
            !.ae[f] = "own"]

WriteNothing(f) ==
  /\ Fires(f, "quic_writeable")
  /\ cnx[f] \in Stages \ {"none", "disconnected"}
  /\ \E delay \in Delays : Becomes(Sleep(f, delay, World))
  /\ SocketFrame
  /\ UNCHANGED <<stop_loop, paceVars, batchVars, statVars, faults>>

\* The last of a connection that closes, or one that is idle for too long, as an
\* abandoned one will be: the callback close restarts, and there is nothing to
\* send.
WriteEnd(f) ==
  LET c == Client(f)
      r == usec_to_next_send(c)
  IN
  /\ Fires(f, "quic_writeable")
  /\ \/ cnx[f] \in {"closing", "abandoned"} /\ UNCHANGED faults
     \/ cnx[f] \in {"handshake", "ready", "sent"} /\ Fault("idle_timeout")
  /\ Paced(c, r)
  /\ \E w \in restart(c, r, [World EXCEPT !.cnx[f] = "disconnected"]) :
       \/ Becomes(w)
       \/ \E delay \in Delays : Becomes(Sleep(f, delay, w))
  /\ SocketFrame
  /\ UNCHANGED <<stop_loop, batchVars, statVars>>

\* A fault for the checks: the events are left behind.
CloseOnly(f, w) == [w EXCEPT !.open = @ \ {f}, !.cnx[f] = "none"]

\* The socket is closed and the connection deleted. fd_to_cnx keeps the rest.
CloseSocket(f, w) ==
  [w EXCEPT !.open = @ \ {f},
            !.events = aeDeleteFileEvent(@, f, {R, W}),
            !.cnx[f] = "none"]

\* picoquic says that the connection is over.
WriteClosed(f) ==
  /\ Fires(f, "quic_writeable")
  /\ cnx[f] = "disconnected"
  /\ Becomes(CloseSocket(f, World))
  /\ SocketFrame
  /\ UNCHANGED <<stop_loop, paceVars, batchVars, statVars, faults>>

\* Any other error does the same to a connection that is not over, such as the
\* one of prepare_to_send when there is no buffer for the request. It is not
\* counted and nothing restarts, unless picoquic calls close when it deletes
\* the connection; by then its number is free again.
WriteError(f) ==
  LET c == Client(f)
      r == usec_to_next_send(c)
      w == CloseSocket(f, World)
  IN
  /\ Fires(f, "quic_writeable")
  /\ cnx[f] \in Stages \ {"none", "disconnected"}
  /\ \/ cnx[f] = "ready" /\ Prepares(c)
     \/ UNCHANGED batchVars
  /\ \/ Fault("write_error") /\ Becomes(w) /\ UNCHANGED paceVars
     \/ Fault("close") /\ Paced(c, r) /\ \E v \in restart(c, r, w) : Becomes(v)
  /\ SocketFrame
  /\ UNCHANGED <<stop_loop, statVars>>

-----------------------------------------------------------------------------
(* The end of the run, the clock, and the other threads.                       *)

check_timeouts ==
  /\ ChecksTimeouts
  /\ UNCHANGED <<now, running, stop, connect_timer, events, open, cnx, owner, ae,
                 write_timers, recon_timers, thread_start, paceVars, batchVars,
                 statVars, faults>>

handler ==
  /\ "sigint" \in Env
  /\ Interrupts
  /\ UNCHANGED <<now, running, stop_loop, connect_timer, check_timer, sockVars,
                 thread_start, paceVars, batchVars, statVars, faults>>

LeaveLoop ==
  /\ Leaves
  /\ UNCHANGED <<now, stop_loop, stop, connect_timer, check_timer, sockVars,
                 thread_start, paceVars, batchVars, statVars, faults>>

Tick ==
  /\ Ticks
  /\ UNCHANGED <<loopVars, connect_timer, check_timer, sockVars, thread_start,
                 paceVars, batchVars, statVars, faults>>

\* A descriptor this thread has closed serves another one, and is closed again.
OtherThread(f) ==
  /\ f \notin open
  /\ ae[f] # "another"
  /\ Fault("other_thread")
  /\ ae' = [ae EXCEPT ![f] = "another"]
  /\ UNCHANGED <<now, loopVars, connect_timer, check_timer, events, open, cnx, owner,
                 write_timers, recon_timers, errors, thread_start, paceVars,
                 batchVars, statVars>>

-----------------------------------------------------------------------------
TimersOf(c) ==
  delayed_initial_connect(c) \/ \E i \in DOMAIN recon_timers[c] : delay_recon(c, i)

quic_readable(f) == ReadPacket(f) \/ ReadFin(f) \/ ReadEnd(f)

quic_writeable(f) ==
  \/ WriteRequest(f) \/ WriteNothing(f) \/ WriteEnd(f)
  \/ WriteClosed(f) \/ WriteError(f)

\* After the loop is left the thread is done.
Terminated == ~running /\ UNCHANGED vars

Next ==
  \/ check_timeouts
  \/ \E c \in Conns : TimersOf(c)
  \/ \E f \in Fds :
       \/ quic_socket_connected(f) \/ quic_readable(f) \/ quic_writeable(f)
       \/ \E i \in DOMAIN write_timers[f] : write_request(f, i)
       \/ OtherThread(f)
  \/ handler
  \/ LeaveLoop
  \/ Tick
  \/ Terminated

Spec == Init /\ [][Next]_vars

-----------------------------------------------------------------------------
(* Properties.                                                                 *)

TypeOK ==
  /\ ThreadTypeOK
  /\ faults \in [Env -> Nat]
  /\ events \in [Fds -> FileEvents(Procs, Conns \cup {NoConn})]
  /\ open \subseteq Fds
  /\ cnx \in [Fds -> Stages]
  /\ owner \in [Fds -> Conns \cup {NoConn}]
  /\ ae \in [Fds -> {"none", "own", "run", "another"}]
  /\ write_timers \in [Fds -> Seq(Nat)]
  /\ recon_timers \in [Conns -> Seq(Nat)]
  /\ \A f \in Fds : ae[f] = "own" => write_timers[f] # <<>>

\* Every open socket is listened to, and nothing listens to a closed one, also
\* when the number is used again.
SocketsWatched == \A f \in Fds : f \in open <=> R \in events[f].mask

\* No stream was reset under a connection that lives on, and no other thread
\* has used an entry of fd_to_cnx: what the next three properties need.
Orderly ==
  \A kind \in Env \cap {"stream_reset", "other_thread"} : faults[kind] = 0

\* The writer of a connection, and only of a connection that exists, is either
\* waiting for its socket or asleep on one timer, which fd_to_cnx names so that
\* the next packet can wake it.
WritesOrSleeps == Orderly =>
  \A f \in Fds :
    \/ W \in events[f].mask /\ write_timers[f] = <<>>
       /\ (events[f].wfileProc = "quic_writeable" => cnx[f] # "none")
    \/ W \notin events[f].mask /\ IF cnx[f] = "none" THEN write_timers[f] = <<>>
         ELSE Len(write_timers[f]) = 1 /\ ae[f] = "own"

\* The sockets on which a connection has a request to make or under way.
Flows(c) == {f \in open : Client(f) = c /\ cnx[f] # "disconnected"}

FlowsOf(c) == Cardinality(Flows(c)) + Len(recon_timers[c])
Opened == {c \in Conns : connect_timer[c] = NoTimer}

\* Connections that were deleted without a word.
Dropped == IF "write_error" \in Env THEN faults["write_error"] ELSE 0

\* A connection that is open has one socket, or one timer that will open it, and
\* never sends on two. Each that has neither, and never comes back, is the work
\* of one connect that failed or of one connection that was dropped, and each of
\* these ends one: nothing else loses a connection, and nothing tries again.
OneFlow == Orderly =>
  /\ \A c \in Opened : FlowsOf(c) <= 1
  /\ Cardinality({c \in Opened : FlowsOf(c) = 0}) = errors.connect + Dropped

\* The connections keep the promise of Schedule.tla, early by no more than what
\* the wait of delay_recon is rounded to. A stream that is reset restarts its
\* connection twice and breaks it.
OrderlyImplementsSchedule ==
  Schedule!Init /\ [][Orderly' => Schedule!Next]_(Schedule!vars)
===============================================================================
