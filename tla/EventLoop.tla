------------------------------ MODULE EventLoop ------------------------------
(* The event loop of one thread (ae.c over ae_epoll.c): file events and their  *)
(* registrations with epoll, time events, the sleep between them, and the      *)
(* order in which one round of the loop runs callbacks. The clock is the       *)
(* system's, in milliseconds; Sec of them make a second, because the loop      *)
(* keeps seconds and milliseconds apart. The callbacks are those of wrk.c,     *)
(* reduced to the calls they make to the loop: which of them they make is left *)
(* open.                                                                       *)
EXTENDS Ae, Sequences, SequencesExt, FiniteSets

CONSTANTS
  N,         \* clients of the loop: connections, numbered from 1
  Fds,       \* descriptors
  Sec,       \* milliseconds in a second (1000)
  Stagger,   \* milliseconds between the initial connects of two connections
  Check,     \* the interval of the periodic timers
  Skews,     \* by how much the system clock may be set back, once
  StopAt,    \* from then on the periodic timer stops the loop; bound: from then
             \* on the clock moves only while the loop sleeps, two seconds at most
  MaxTimers  \* bound: no delay timer is created with a larger id

ASSUME ConstantsAssumption ==
  /\ 0 \notin Fds /\ IsFiniteSet(Fds)
  /\ {N, Sec, Check} \subseteq Nat \ {0}
  /\ {Stagger, StopAt, MaxTimers} \cup Skews \subseteq Nat
  /\ \A s \in Skews : s <= Sec

Conns == 1..N
None == 0
Procs == {"none", "connected", "readable", "writeable"}

VARIABLES
  now,       \* gettimeofday, in milliseconds
  skewed,    \* the clock has been set back
  pc,        \* where aeMain is: "top", "asleep", "dispatch", "timers", "done"
  stop,      \* eventLoop->stop
  lastTime,  \* eventLoop->lastTime, in seconds
  timers,    \* the list at timeEventHead, newest first
  nextId,    \* timeEventNextId
  te, maxId, \* processTimeEvents: position in the list, last id of the pass
  waiting,   \* history: timers that were due when the pass began and did not
             \* run since; no guard reads it
  events,    \* eventLoop->events
  epoll,     \* the kernel's interest list: {} for what is not on it
  open,      \* descriptors that are open sockets
  fd,        \* the socket of each connection
  sleep,     \* the sleep in epoll_wait: when it began, when it ends
  fired,     \* eventLoop->fired, what is left of it
  rfired,    \* the readable callback of its head has run
  stale      \* descriptors closed since epoll_wait returned

clockVars == <<now, skewed>>
timerVars == <<timers, nextId>>
fileVars  == <<events, epoll, open, fd, stale>>
passVars  == <<te, maxId, waiting>>
loopVars  == <<pc, passVars, sleep, fired, rfired, lastTime>>
vars == <<clockVars, timerVars, fileVars, loopVars, stop>>

Seconds(t) == t \div Sec
Millis(t)  == t % Sec

\* A fault for the checks: no carry into the seconds.
NoCarry(id, kind, c, msec) ==
  [id |-> id, kind |-> kind, conn |-> c,
   sec |-> Seconds(now) + Seconds(msec), ms |-> Millis(now) + Millis(msec)]

\* A time event due msec from now; when_sec and when_ms are kept apart, for a
\* clock that was set back zeroes only the first.
TimeEvent(id, kind, c, msec) ==
  [id |-> id, kind |-> kind, conn |-> c,
   sec |-> Seconds(now + msec), ms |-> Millis(now + msec)]

When(t) == t.sec * Sec + t.ms

\* thread_main: the timers of the connections, then two more.
Init ==
  /\ now \in 2 * Sec .. 3 * Sec - 1
  /\ skewed = FALSE
  /\ pc = "top" /\ stop = FALSE /\ lastTime = Seconds(now)
  /\ timers = <<TimeEvent(N + 1, "check", None, Check),
                TimeEvent(N, "calibrate", None, Check)>> \o
              [i \in Conns |-> TimeEvent(N - i, "connect", N + 1 - i, (N - i) * Stagger)]
  /\ nextId = N + 2
  /\ te = 1 /\ maxId = -1 /\ waiting = {}
  /\ events = [f \in Fds |-> [mask |-> {}, rfileProc |-> "none",
                              wfileProc |-> "none", clientData |-> None]]
  /\ epoll = [f \in Fds |-> {}]
  /\ open = {}
  /\ fd = [c \in Conns |-> None]
  /\ sleep = [from |-> 0, until |-> 0]
  /\ fired = <<>> /\ rfired = FALSE /\ stale = {}

-----------------------------------------------------------------------------
(* File events. A table is the loop's events together with the kernel's list.  *)

Table == [events |-> events, epoll |-> epoll, open |-> open, fd |-> fd, stale |-> stale]

BecomesTable(t) ==
  /\ events' = t.events /\ epoll' = t.epoll /\ open' = t.open
  /\ fd' = t.fd /\ stale' = t.stale

\* epoll_ctl(ADD) needs a descriptor that is open and not listed,
\* epoll_ctl(MOD) one that is listed; which is used depends on the mask. When
\* the call fails aeCreateFileEvent changes nothing.
AddEvent(t, f, mask, proc, c) ==
  LET listed == t.epoll[f] # {}
      add == t.events[f].mask = {}
  IN IF f \in t.open /\ (add <=> ~listed)
       THEN [t EXCEPT !.events = aeCreateFileEvent(@, f, mask, proc, c),
                      !.epoll[f] = t.events[f].mask \cup mask]
       ELSE t

\* epoll_ctl(MOD) with what is left, epoll_ctl(DEL) with nothing left; its
\* failures are ignored.
DelEvent(t, f, mask) ==
  LET left == t.events[f].mask \ mask IN
  IF t.events[f].mask = {} THEN t
  ELSE [t EXCEPT !.events = aeDeleteFileEvent(@, f, mask),
                 !.epoll[f] = IF @ = {} THEN {} ELSE left]

\* close drops the descriptor from the interest list
CloseFd(t, f) ==
  [t EXCEPT !.open = @ \ {f}, !.epoll[f] = {}, !.stale = @ \cup {f}]

\* A connect that fails at once closes the socket again, and the connection keeps
\* the number it had.
Connects(t, c) ==
  {t} \cup
  {AddEvent([t EXCEPT !.open = @ \cup {f}, !.fd[c] = f], f, {R, W}, "connected", c) :
     f \in Fds \ t.open}

\* A fault for the checks: the events are not deleted before the close.
ReconnectsBare(t, c) == Connects(CloseFd(t, t.fd[c]), c)

Reconnects(t, c) == Connects(CloseFd(DelEvent(t, t.fd[c], {R, W}), t.fd[c]), c)

-----------------------------------------------------------------------------
(* Time events.                                                                *)

\* The first timer with the id goes.
aeDeleteTimeEvent(list, id) ==
  LET first == CHOOSE i \in DOMAIN list :
                 list[i].id = id /\ \A j \in 1..(i - 1) : list[j].id # id
  IN IF \E i \in DOMAIN list : list[i].id = id THEN RemoveAt(list, first) ELSE list

\* A callback creates one timer or none. aeCreateTimeEvent puts it at the head.
aeCreateTimeEvent(kind, c, msec) ==
  /\ nextId < MaxTimers
  /\ timers' = <<TimeEvent(nextId, kind, c, msec)>> \o timers
  /\ nextId' = nextId + 1

-----------------------------------------------------------------------------
(* aeProcessEvents: sleep, file events, time events.                           *)

Nearest == CHOOSE t \in ToSet(timers) : \A u \in ToSet(timers) : When(t) <= When(u)

\* A fault for the checks: milliseconds without a borrow.
NoBorrow(when_sec, when_ms) ==
  LET sec == when_sec - Seconds(now)
      ms  == when_ms - Millis(now)
  IN (IF sec < 0 THEN 0 ELSE sec) * Sec + (IF ms < 0 THEN 0 ELSE ms)

\* The time to sleep, from the seconds and milliseconds of the nearest timer
\* with a borrow between them. What is negative is set to 0 one by one.
PollTimeout(when_sec, when_ms) ==
  LET borrow == when_ms < Millis(now)
      sec == when_sec - Seconds(now) - (IF borrow THEN 1 ELSE 0)
      ms  == when_ms - Millis(now) + (IF borrow THEN Sec ELSE 0)
  IN (IF sec < 0 THEN 0 ELSE sec) * Sec + ms

\* The list is never empty: one timer always asks to run again.
StartPoll ==
  /\ pc = "top" /\ ~stop
  /\ pc' = "asleep"
  /\ sleep' = [from |-> now, until |-> now + PollTimeout(Nearest.sec, Nearest.ms)]
  /\ stale' = {}
  /\ UNCHANGED <<clockVars, timerVars, events, epoll, open, fd, passVars, fired,
                 rfired, lastTime, stop>>

\* epoll_wait returns with what is ready, or with nothing when its time is up.
\* Errors and hang-ups are reported unasked, as writable.
Ready(f) == {m \in Masks \ {{}} : m \subseteq (epoll[f] \cup {W})}
Listed == {f \in Fds : epoll[f] # {}}

EndPoll ==
  /\ pc = "asleep"
  /\ \/ /\ now >= sleep.until
        /\ fired' = <<>>
     \/ \E S \in SUBSET Listed \ {{}} : \E order \in SetToSeqs(S) :
          \E masks \in [S -> Masks] :
            /\ \A f \in S : masks[f] \in Ready(f)
            /\ fired' = [i \in DOMAIN order |-> [fd |-> order[i], mask |-> masks[order[i]]]]
  /\ pc' = "dispatch" /\ rfired' = FALSE
  /\ UNCHANGED <<clockVars, timerVars, fileVars, passVars, sleep, lastTime, stop>>

\* The calls a file callback makes to the loop. A response may complete a batch, end
\* the run, and end the connection; then what follows it in the same read is an
\* error, which reconnects once more.
FileCallback(proc, f, c) ==
  \/ /\ proc = "connected"
     /\ BecomesTable(AddEvent(AddEvent(Table, f, {R}, "readable", c),
                              f, {W}, "writeable", c))
     /\ UNCHANGED <<timerVars, stop>>
  \/ /\ proc = "readable"
     /\ \/ UNCHANGED fileVars
        \/ BecomesTable(AddEvent(Table, fd[c], {W}, "writeable", c))
        \/ \E t \in Reconnects(Table, c) :
             BecomesTable(t) \/ \E u \in Reconnects(t, c) : BecomesTable(u)
     /\ stop' \in {stop, stop \/ now >= StopAt}
     /\ UNCHANGED timerVars
  \/ /\ proc = "writeable"
     /\ BecomesTable(DelEvent(Table, fd[c], {W}))
     /\ \/ aeCreateTimeEvent("delay", c, 1)
        \/ UNCHANGED timerVars
     /\ UNCHANGED stop
  \/ /\ proc \in {"connected", "writeable"}
     /\ \E t \in Reconnects(Table, c) : BecomesTable(t)
     /\ UNCHANGED <<timerVars, stop>>
  \/ UNCHANGED <<fileVars, timerVars, stop>>

\* The readable half of one fired event, then the writable half, each only if
\* the table still asks for it, and not the same callback twice.
DispatchReadable ==
  LET e == Head(fired) IN
  /\ pc = "dispatch" /\ fired # <<>> /\ ~rfired
  /\ R \in events[e.fd].mask \cap e.mask
  /\ FileCallback(events[e.fd].rfileProc, e.fd, events[e.fd].clientData)
  /\ rfired' = TRUE
  /\ UNCHANGED <<clockVars, pc, passVars, sleep, fired, lastTime>>

\* A fault for the checks: the same callback runs twice for one event.
WantsWritableAnyway(e) == W \in events[e.fd].mask \cap e.mask

WantsWritable(e) ==
  /\ W \in events[e.fd].mask \cap e.mask
  /\ ~rfired \/ events[e.fd].wfileProc # events[e.fd].rfileProc

DispatchWritable ==
  LET e == Head(fired) IN
  /\ pc = "dispatch" /\ fired # <<>>
  /\ rfired \/ R \notin events[e.fd].mask \cap e.mask
  /\ \/ /\ WantsWritable(e)
        /\ FileCallback(events[e.fd].wfileProc, e.fd, events[e.fd].clientData)
     \/ /\ ~WantsWritable(e)
        /\ UNCHANGED <<fileVars, timerVars, stop>>
  /\ fired' = Tail(fired) /\ rfired' = FALSE
  /\ UNCHANGED <<clockVars, pc, passVars, sleep, lastTime>>

IsDue(t) == Seconds(now) > t.sec \/ (Seconds(now) = t.sec /\ Millis(now) >= t.ms)

\* processTimeEvents begins: when the clock went back every timer is made due.
\* Timers created from here on have larger ids than the pass takes.
StartTimers ==
  /\ pc = "dispatch" /\ fired = <<>>
  /\ pc' = "timers"
  /\ timers' = IF Seconds(now) < lastTime
                 THEN [i \in DOMAIN timers |-> [timers[i] EXCEPT !.sec = 0]]
                 ELSE timers
  /\ lastTime' = Seconds(now)
  /\ te' = 1 /\ maxId' = nextId - 1
  /\ waiting' = {timers'[i].id : i \in {j \in DOMAIN timers : IsDue(timers'[j])}}
  /\ UNCHANGED <<clockVars, nextId, fileVars, sleep, fired, rfired, stop>>

\* A fault for the checks: the newest timer of the pass is left out.
PassesOlder(t) == t.id < maxId /\ IsDue(t)

Passes(t) == t.id <= maxId /\ IsDue(t)

SkipTimer ==
  /\ pc = "timers" /\ te <= Len(timers)
  /\ ~Passes(timers[te])
  /\ te' = te + 1
  /\ UNCHANGED <<clockVars, timerVars, fileVars, pc, maxId, waiting, sleep, fired, rfired,
                 lastTime, stop>>

\* A fault for the checks: it stays due, so that the pass never ends.
RearmAsItWas(t, msec) == UNCHANGED timerVars

\* A timer runs. It asks to run again, or is deleted by its id; then the pass
\* starts over from the head, for the list may have changed.
Rearm(t, msec) ==
  /\ timers' = [timers EXCEPT ![te] = TimeEvent(t.id, t.kind, t.conn, msec)]
  /\ UNCHANGED nextId

NoMore(t) == timers' = aeDeleteTimeEvent(timers, t.id) /\ UNCHANGED nextId

\* The timer that ends the loop, and goes on until it does.
check_timeouts(t) ==
  /\ Rearm(t, Check)
  /\ stop' = (stop \/ now >= StopAt)
  /\ UNCHANGED fileVars

RunTimer ==
  LET t == timers[te] IN
  /\ pc = "timers" /\ te <= Len(timers)
  /\ Passes(t)
  /\ \/ /\ t.kind = "connect"
        /\ \E tab \in Connects(Table, t.conn) : BecomesTable(tab)
        /\ NoMore(t) /\ UNCHANGED stop
     \/ /\ t.kind = "delay"
        /\ \/ Rearm(t, 1) /\ UNCHANGED fileVars
           \/ /\ NoMore(t)
              /\ BecomesTable(AddEvent(Table, fd[t.conn], {W}, "writeable", t.conn))
        /\ UNCHANGED stop
     \/ /\ t.kind = "calibrate"
        /\ timers' = <<TimeEvent(nextId, "sample", None, Check)>> \o
                       aeDeleteTimeEvent(timers, t.id)
        /\ nextId' = nextId + 1
        /\ UNCHANGED <<fileVars, stop>>
     \/ /\ t.kind \in {"calibrate", "sample"}
        /\ Rearm(t, Check) /\ UNCHANGED <<fileVars, stop>>
     \/ t.kind = "check" /\ check_timeouts(t)
  /\ te' = 1 /\ waiting' = waiting \ {t.id}
  /\ UNCHANGED <<clockVars, pc, maxId, sleep, fired, rfired, lastTime>>

EndTimers ==
  /\ pc = "timers" /\ te > Len(timers)
  /\ pc' = "top"
  /\ UNCHANGED <<clockVars, timerVars, fileVars, passVars, sleep, fired, rfired,
                 lastTime, stop>>

Leave ==
  /\ pc = "top" /\ stop
  /\ pc' = "done"
  /\ UNCHANGED <<clockVars, timerVars, fileVars, passVars, sleep, fired, rfired,
                 lastTime, stop>>

-----------------------------------------------------------------------------
(* The clock.                                                                  *)

Tick ==
  /\ \/ now < StopAt /\ pc # "done"
     \/ pc = "asleep" /\ now < sleep.until /\ now < StopAt + 2 * Sec
  /\ now' = now + 1
  /\ UNCHANGED <<skewed, timerVars, fileVars, loopVars, stop>>

\* The system clock is set back; the sleep goes on by a clock that is not.
SetBack ==
  /\ ~skewed /\ skewed' = TRUE
  /\ \E s \in Skews :
       /\ now' = now - s
       /\ sleep' = [from |-> sleep.from - s, until |-> sleep.until - s]
  /\ UNCHANGED <<timerVars, fileVars, pc, passVars, fired, rfired, lastTime, stop>>

Terminated == pc = "done" /\ UNCHANGED vars

LoopStep ==
  \/ StartPoll \/ EndPoll
  \/ DispatchReadable \/ DispatchWritable
  \/ StartTimers \/ SkipTimer \/ RunTimer \/ EndTimers
  \/ Leave

Next == LoopStep \/ Tick \/ SetBack \/ Terminated

Spec == Init /\ [][Next]_vars

\* The thread is scheduled, and time goes on: the bound on the clock disables
\* Tick again and again, which the clock itself never is.
FairSpec == Spec /\ WF_vars(LoopStep) /\ SF_vars(Tick)

-----------------------------------------------------------------------------
TypeOK ==
  /\ now \in Nat /\ {skewed, stop, rfired} \subseteq BOOLEAN
  /\ pc \in {"top", "asleep", "dispatch", "timers", "done"}
  /\ \A i \in DOMAIN timers :
       /\ timers[i].id \in 0..(nextId - 1)
       /\ timers[i].sec \in Nat /\ timers[i].ms \in 0..(Sec - 1)
       /\ timers[i].kind \in {"connect", "calibrate", "check", "sample", "delay"}
  /\ events \in [Fds -> FileEvents(Procs, Conns \cup {None})]
  /\ fd \in [Conns -> Fds \cup {None}]
  /\ epoll \in [Fds -> Masks]

\* What the kernel watches is what the table says, and only open sockets are in
\* the table: no add or modify the loop issues fails, and no event is lost
\* because one did.
EpollMatchesTable ==
  \A f \in Fds :
    /\ epoll[f] = events[f].mask
    /\ events[f].mask # {} => f \in open

\* No callback runs for an event that epoll reported of an earlier socket with
\* the same descriptor number, though callbacks of the same round close and
\* open sockets.
NoStaleDispatch ==
  pc = "dispatch" /\ fired # <<>> /\ Head(fired).fd \in stale =>
    LET e == Head(fired) IN
    /\ rfired \/ R \notin events[e.fd].mask \cap e.mask
    /\ ~WantsWritable(e)

\* A sleep that begins with no timer overdue ends exactly when the next one is
\* due, across every borrow between seconds and milliseconds.
SleepIsExact ==
  pc = "asleep" /\ ~skewed /\ sleep.from <= When(Nearest) =>
    sleep.until = When(Nearest)

\* No sleep delays a timer: the comment at aeSearchNearestTimer wants the time
\* the loop can sleep "without to delay any event".
SleepDelaysNoTimer ==
  pc = "asleep" /\ ~skewed => sleep.until <= When(Nearest) \/ sleep.until = sleep.from

\* One pass runs every timer that was due when it began, though callbacks add
\* timers at the head of the list, delete others and restart the walk.
DueTimersRun == pc = "top" /\ ~skewed => waiting = {}

\* The loop ends once the run is over.
LoopEnds == <>(pc = "done")
===============================================================================
