# wrk-quic in TLA+

wrk-quic is an HTTP load generator: a fork of wrk2 (constant request rate, latencies corrected for
coordinated omission) with a second transport, QUIC over picoquic. This directory models the parts of
it whose correctness depends on the order of events, checks the models with TLC and proves what
matters most with TLAPS. Paths below are relative to the repository.

## The system

| Part | State | Operations | Interacts with |
| --- | --- | --- | --- |
| Event loop `src/ae.c`, `src/ae_epoll.c` | table of file events, list of time events, epoll's interest list, `stop` | create and delete file and time events, one round: sleep, dispatch, timers | runs every callback below; one loop per thread |
| Pacing `src/wrk.h`, `src/wrk.c` | per connection: `thread_start`, `complete`, `caught_up`, `catch_up_start_time`, `complete_at_catch_up_start` | `usec_to_next_send`, `delay_request` | decides when `sock_writeable` may start a batch |
| Measurement `src/wrk.c` | `actual_latency_start`, `complete_at_last_batch_start`, `has_pending`, `pending`, two histograms | start of a batch, `response_complete`, `stats_request_completed` | the schedule, the histograms |
| TCP/TLS client `src/wrk.c`, `src/tcp.h`, `src/net.c`, `src/ssl.c` | `fd`, `written`, parser, sockets | `delayed_initial_connect`, `socket_connected`, `socket_writeable`, `socket_readable`, reconnect | table of the loop, kernel, server, parser callbacks |
| Response parser `src/http_parser.c` | state of one message | `http_parser_execute` and its callbacks, `http_should_keep_alive` | calls `response_complete` inside a read, which may reconnect |
| QUIC client `src/quic.c` | `fd_to_cnx`, picoquic's connections, timers that wake a writer or reconnect | `quic_callback`, readable, writeable, reconnect | the loop, picoquic, pacing and measurement |
| Timers of a thread `src/wrk.c` | `errors`, `interval`, `start`, `requests` | `calibrate`, `sample_rate`, `check_timeouts` | stop the loop; the shared statistics under a mutex |
| Histogram `src/hdr_histogram.c` | counts per bucket | record, add, reset, percentiles, iterators | measurement, report |
| Run `src/wrk.c` | `cfg`, threads, `stop` | `parse_args`, `main`, `handler` | starts and joins the threads, sums their counters |
| Script `src/script.c`, report `src/stats.c`, `src/units.c` | Lua states, buffers, ring of samples | requests and responses of a script, summary | the client, the report |

Threads share nothing but the descriptor numbers of the process, the flag `stop`, the statistics ring
(mutex) and, with QUIC, the array `fd_to_cnx`. Within a thread everything is a callback of its loop.

What is hard here: a callback may close its own descriptor and open another with the same number while
events for the old one wait to be dispatched; a response may reconnect from inside the parser; a
connection may sleep on a timer while its socket dies; a batch may be sent several times and be
measured once; the schedule is absolute, so a mistake in what a response counts for changes every
latency after it; time is kept in microseconds by the client, in milliseconds by the loop, and the two
round differently; a response is cut into reads anywhere and reaches the script through buffers that
outlive the connection; threads record and end at any time, and a report looks plausible also when a
sample is lost or a percentile is one sample off.

What makes the parts correct: the loop never runs a callback for a socket that is gone, oversleeps no
timer and starves none; the client starts no batch ahead of its schedule, measures each batch from when
it was owed, expects exactly the responses that are on their way, never waits for something that cannot
come, leaks and shares no descriptor, and stops; the parser takes exactly what is a response, the script gets
each one whole; what the threads record is what the report says, to the precision of the histogram.

## Modules

| Module | Models | Extends / uses |
| --- | --- | --- |
| `Ae.tla` | the file-event table as operators; the two conversions of time | |
| `EventLoop.tla` | one loop over epoll, callbacks reduced to the calls they make to it | `Ae` |
| `Schedule.tla` | abstract: what any transport promises about starts and latencies | |
| `Thread.tla` | what a worker thread has whatever the transport: clock, timers, pacing, measurement, timeout check, end of the run | `Ae`; instance of `Schedule` |
| `TcpClient.tla` | one thread's connections over TCP or TLS, each handler one action | `Thread`; implements `Schedule` |
| `Quic.tla` | one thread's connections over QUIC, each handler one action or one per outcome | `Thread`; implements `Schedule` |
| `HttpParser.tla` | `http_parser_execute` on responses, as operators on a parser and a byte | |
| `Response.tla` | one connection's parser fed by reads, its callbacks, the buffers, what the script is given | `HttpParser` |
| `Hdr.tla` | the histogram: geometry, index arithmetic, recording, iterators, percentiles, as operators | |
| `Stats.tla` | the statistics of the report and of the rates, as operators | `Hdr` |
| `Run.tla` | the program: main, its threads, calibration, the shared statistics, the report | `Stats` |
| `MCEventLoop`, `MCTcpClient`, `MCQuic`, `MCResponse`, `MCRun` | instances for TLC | |
| `Schedule_proof.tla` | proofs about `Schedule` | |
| `Thread_proof.tla` | lemmas about the operations of `Thread`, for both transports, and about the table they use | instance of `Schedule_proof` |
| `EventLoop_proof.tla` | proofs about `EventLoop` | |
| `TcpClient_proof.tla` | proofs about `TcpClient` in every environment | `Thread_proof` |
| `TcpOrder_proof.tla` | proofs about who uses a socket of `TcpClient`, and those that need a quiet environment | `TcpClient_proof` |
| `Quic_proof.tla` | proofs about `Quic` | `Thread_proof` |
| `Response_proof.tla` | proofs about `HttpParser` and `Response` | |
| `Run_proof.tla` | proofs about `Run`, the geometry and the iterators of `Hdr`, and the numbers of the report | |

`EventLoop` and the clients split the system at the loop's interface. `EventLoop` has the order in which
a round runs callbacks, descriptors that epoll reported before they were closed, the timer list and the
sleep, and leaves open what the callbacks do beyond calling the loop. `TcpClient` and `Quic` have the callbacks in
full and let any handler that is ready run next, which includes every order the loop can choose; that
no handler runs for an event of an earlier socket is what `EventLoop!NoStaleDispatch` adds. `Response`
and `Run` meet the clients at two interfaces. `TcpClient` has the parser as four places (`start`, `mid`,
`until_eof`, `dead`) and pieces of responses; `Response!StateTellsWhere` says that the real parser is at
the one of these places that the bytes sent so far call for, however they were read. `TcpClient` and
`Quic` say which latencies are recorded; `Run` takes them from there, through calibration and the sums, to
the numbers of the report.

### Schedule and Thread

`Schedule` says what the corrected latency means: request `n` of a connection is owed at
`thread_start + n * Period`, a batch starts no earlier (or by no more than `Early`), and every response
of the batch is measured from when its first request was owed. `Early` is 0 for TCP, which looks again
whether it is time when a timer fires, and just under a millisecond for QUIC, which does not.

`Thread` has the operators that read and write the schedule: `usec_to_next_send` with its two regimes
(on pace, and catching up at twice the rate from where the connection fell behind), `Mark` (the first
send of a batch), `stats_request_completed`, `check_timeouts`, the interrupt and the end of the loop.
Timers are due at whole milliseconds (`Ae!DueMsec`), waits are rounded to them (`Ae!MsecToWait`), and
the client's clock has `Msec` ticks in each.

### TcpClient

Variables have the names of the fields in `connection`, `thread` and `aeEventLoop`. `sockets` is the
kernel: for each descriptor its state (`closed`, `syn`, `open`, `fin` after the peer's end of file,
`rst` after a reset or a refusal), the bytes to read and the number of requests the server has received
in full and not answered. Bytes come in pieces that matter to the parser: `part` of a response, the
`head` of one whose body runs to the end of the connection, the end of one that keeps (`resp`) or
closes (`close`) the connection, and `bad` ones. `parser` is `start`, `mid`, `until_eof` or `dead`.

Each handler is one action or, where its outcomes differ, one action per outcome: `sock_writeable` is
`WriteDelayed`, `WriteRequest` (any number of units up to the rest, 0 for EAGAIN) and `WriteError`;
`socket_readable` is `ReadSome`, `ReadResponse`, `ReadClose`, `ReadLastByte` and `ReadError`, one per
piece, which splits a read that brings several pieces at their boundaries; the one case in which the
pieces of one read interact (bytes behind a closing response) is inside `ReadClose`.
`response_complete` and `stats_request_completed` are operators those actions call. Reconnection works
on a `World` (descriptors, table, sockets, errors) so that a handler that reconnects twice composes two
reconnects. A connect that fails at once (`SyncFail`) leaves `c->fd` with the number of a closed socket, as
the code does (`src/tcp.h:47`); the delay timers and the second reconnect of a read then act on that number,
which may by then be the socket of another connection. Other threads are in this only as numbers
that are not to be had: that one of them gets the number between two closes of it is not modelled. `check_timeouts`, `handler` (SIGINT), `LeaveLoop` and `Tick` are the rest of the thread.

Left out: the debugging fields, byte and status counters, the second (uncorrected) histogram; script
buffers are in `Response`, `calibrate` and `sample_rate` in `Run`. The histogram keeps its count and the least value
recorded. Refusals and resets, cut, unparseable and unasked-for responses and ends of file are the
environment's actions, chosen by `Env`.

`1/throughput` is an integer `Period`, so `complete / throughput` is exact; in the code it is a double
whose error stays below a microsecond for any count a run can reach. Twice that throughput while
catching up is `n * Period \div 2`.

### Quic

A connection of QUIC carries one request and has a UDP socket of its own. `cnx[fd]` is the stage of
picoquic's connection, from the handshake over `ready` and `sent` to `closing` (the response is complete
and the client has closed it) and `disconnected`; `abandoned` is a connection whose stream was reset.
picoquic is external: `quic_readable` and `quic_writeable` take what it may call back as a choice, with
the callback inside the action. `ReadPacket`, `ReadFin` and `ReadEnd` are the reads, and after each a
writer that sleeps is woken (`WakeWriter`). `WriteRequest`, `WriteNothing`, `WriteEnd` and `WriteClosed`
are the writes: `prepare_to_send`, nothing to send (`Sleep` asks a timer for the event), the end of the
connection, and the first write after it, which closes the socket. `WriteError` is any other error of
`picoquic_prepare_packet`, such as the -1 of `prepare_to_send` without a buffer (`src/quic.c:252`): it
closes the socket and deletes the connection all the same (`src/quic.c:534`), counts nothing and restarts
nothing. Whether picoquic calls `close` while it deletes a connection is its choice; then the client restarts,
with the number of the old socket free again. `restart` is the label of
`quic_callback`: it waits with `delay_recon` or connects at once. A packet that carries nothing for the
client, and the loop of `quic_readable` over several packets, are steps of their own. `fd_to_cnx[fd].ae`
is `own` when it names the writer's timer, `run` when that one has run, and `another` when another thread
has left an id in the entry, which may then be the id of any timer of this thread.

One thing is assumed of picoquic that the client does not see to itself: it calls back no more for a
connection that has ended. The client never takes its callback away (`src/quic.c:128`, `170`), and would restart
a second time.

### EventLoop

`pc` is where `aeMain` is. The clock is the system clock in milliseconds, split into seconds and
milliseconds as the code does, with `Sec` milliseconds in a second; `SetBack` moves it back once.
`fired` is what epoll returned, in any order, with the extra writable bit of errors and hang-ups.
`FileCallback` is what the callbacks of `wrk.c` and `tcp.h` do to the loop: connect, ask for or drop an
event, create a delay timer, stop, or reconnect, which a readable callback may do twice. A connect may fail at
once and leave the connection with the number of a closed socket. The timer list is in the order of the code (newest
first) and a pass walks it as `processTimeEvents` does, one action per list entry.

### HttpParser and Response

A byte is a string: one character, or a piece of a word the parser spells out (`content-`, `length`), cut
so that a read can end inside every word; case and the letters within a piece are left out. `s` is
`struct http_parser` together with the local variables of one call: the marks (with the bytes since, which
are what a callback would be given), the bytes of the inner loop over a name or a value, and the list of
callbacks made. Each state of the machine is an operator on `s` and a byte, named for the state;
`REEXECUTE` hands the byte to the operator of another state, and `COUNT_HEADER_SIZE` is applied where the
code applies it. `http_parser_execute` folds them over the bytes of one read, `Enter` sets the marks of
a name, value or status that goes on, `Leave` delivers what is marked at the end. Runs of body bytes, which
the code skips, are read one by one, with the same length and mark. `ULLONG_MAX` is a constant; only that
it bounds a length and stands for none matters. The build is the strict one (`HTTP_PARSER_STRICT`).

`Response` has the connection around it: `Read` and `EndOfFile` are `sock_read` and `socket_readable`,
`header_field`, `header_value`, `response_body` and `response_complete` the callbacks, in the order the
parser makes them. A buffer is its bytes and its cursor; `script_response` reads names and values by the
NUL bytes between them, so that what lies behind the cursor from earlier matters. `Lose` and
`socket_connected` are the loss of a connection and the next one. What a server sends is a constant
(`Streams`), with what a reader of HTTP takes each to say: that is the reference the code is compared with.
Only scripts that want responses are modelled, for the others no callback but the last is set.

What the model shows of the code without its being a property: a first response without any header is
never given to the script (`src/wrk.c:596` looks whether the buffer exists); header bytes are counted once
too often for each read that ends inside a name or value, and twice for values that end in a bare LF, so
that the limit of 80 KB depends on how the bytes were read; a limit that is passed at the very end of a read
returns the whole length, so that the client sees the error with the next read only; a 304 with a
Content-Length is waited for. The properties are stated so that they allow for these.

### Hdr, Stats and Run

`Hdr` computes what `hdr_init` computes from `lowest_trackable_value`, `highest_trackable_value` and
`significant_figures`, with the 64 bits of its counting of leading zeros, and has the functions of `hdr_histogram.c` under their names. A histogram is a function
from the indices with a count, and the total. An iterator is the set of slots it stops at, in the order
of their values; `Recorded` and `Visited` are the two kinds of iteration, with `has_next`. Floating-point is exact here:
the mean and the deviation are compared after multiplication by the counts, percentiles are fractions. The
percentile table has its percentages in parts that are fine enough for every tick that `n` samples can
tell apart (`Unit(n)`, `All(n)`), so that the steps are exact, also those of a long table just below 100 percent.
In the code they are doubles, in which these steps are exact too as long as the count is below some 2^43; the
rounding of `100.0 * count / total` is left out. A value out of the range of the histogram is not recorded; one far
out of it ends the program in the assertion of `counts_index` before that (`src/hdr_histogram.c:54`; the build
does not define `NDEBUG`), which is why `EquivalentRanges` and `LatencyNonNegative` matter. The size of a slot's range
is an int in the code (`1 << ...`), which it fits into below 31 buckets; the histograms of wrk have 27.

`Run` has `main` from the first thread on. `main.at` is the call it makes next and the thread this is
about: `script_init`, `pthread_create` (which may fail and exit), `sigaction`, `pthread_join`, the sums
(`AddUp`), `done`. The callbacks of a thread are actions; `sample_rate` is split into the lock, the read and
the write of the shared statistics and the unlock, so that threads can come between them. Callbacks of the
round in which the loop is stopped still run (`stop_loop`). A thread answers requests with latencies from
`Latencies`; those of a batch but its last are not recorded unless `record_all_responses`.

Left out: sums of errors and bytes, which are like the sum of requests; `-B`, which `TcpClient` has
(`RecordAll`); affinity; `thread->mean` and `thread->interval`, but for the test of the mean. A rate is taken
in whole requests per second; time between samples is positive: were the clock set back, `sample_rate` would
convert an infinity (`src/wrk.c:480`). A run that ends before its threads are calibrated has no
rates, and the report prints what the division by zero gives.

## Runs

| Run | Instance | Shows |
| --- | --- | --- |
| `event_loop` | 2 connections, 2 descriptors, connects that fail at once, seconds of 2 ms, clock set back by 1 ms | `EpollMatchesTable`, `NoStaleDispatch`, `SleepIsExact`, `DueTimersRun`, `LoopEnds` |
| `oversleep` | 1 connection | violation of `SleepDelaysNoTimer` |
| `pacing` | 1 connection, batches of 2, period 2, 2 ticks per ms, closes and a reset | `ImplementsSchedule`, `RateCeiling`, `OneSleep`, `LatencyNonNegative`, `CorrectionNeverGifts`, `LoopEnds` |
| `faults` | 1 connection, batches of 2 in two writes, no pacing, answers of four kinds, two faults of four kinds, an interrupt, clock at rest | `PendingMatchesWire`, `NoLostWakeup`, `BatchEnds`, `LoopEnds` |
| `sockets` | 2 TLS connections, 2 descriptors, connects that fail at once, one fault | `DescriptorMatches`, `SocketsWatched`, `SocketsKept` |
| `timeouts` | 1 paced connection, well-behaved server | violation of `TimeoutsAreRequests` |
| `end_of_file` | 1 connection, a server that closes | violation of `NoLostWakeup` |
| `quic` | 1 paced connection, 2 descriptors, 3 ticks per ms, connects that fail, one fault of any kind (errors of a write among them) | `SocketsWatched`; `OneFlow`, `WritesOrSleeps`, `OrderlyImplementsSchedule` without resets of streams and other threads |
| `quic_early` | 1 paced connection, well-behaved server | violation of `LatencyNonNegative` |
| `response` | 192 streams of one or two responses, or with a wrong byte, in reads of one or two bytes or of all the rest; two connections | `ScriptSeesResponses`, `RefusesOnlyBad`, `StateTellsWhere`, `NoAssertFails` |
| `stale_headers` | the same | violation of `ScriptSeesOnlyResponses` |
| `run` | 2 threads, 3 requests with 2 latencies, 2 rates, an end, an interrupt and a stop of the script at any time, a thread that cannot be created; values to 100 with one significant figure | `RatesAccumulate`, `SamplesTally`, `StandsStill`, `ReportAddsUp`, `LatencyInReport`, `DeviationInReport`, `SpectrumRises`, `EquivalentRanges`, `RunEnds` |

Bounds. Two descriptors for two connections that may fail to connect: the number a connection lost can be its
own again, nobody's, or that of the other one, whose old number it may get in turn. Two units per request and two
requests per batch are the least for which a fault can fall inside a request and inside a batch. One
fault (two in `faults`) can fall at every point of a connection's life; what follows it is again a
connection's life. Five responses and a period of two ticks with milliseconds of two ticks let a
connection be early by less than a millisecond, fall behind, catch up at twice its rate and be on pace
again before the end of the run at tick 23; time goes on for a tick so that the loop can see the end.
`Wrap`, 2^64 in the code, is 16: no run comes near it except by the decrement below zero it is there
for. `MaxTime`, `MaxFaults`, `MaxResponses` and `MaxTimers` are bounds in guards of the clock and of the
environment (`MaxTimers`: of the callback that creates timers). In `faults` the clock stands still, so that a
batch can end only by being answered and not because the run is over; in `pacing` it passes the end of
the run. In `quic` a millisecond has three ticks, the least for which a timer of `delay_recon` can be
early (by at most `Msec - 2` ticks, 998 microseconds in the code), and the run is long enough for a second
request that is early and for the recovery of one that was lost; two descriptors are the socket of the
old connection, which stays open until its writer runs, and that of the new one. The descriptors of
`Quic` are interchangeable, so TLC treats them as symmetric; its properties are safety properties.
`Orderly` of `Quic` says that no stream has been reset under a connection that lives on and no other thread
has used an entry of `fd_to_cnx`: what is checked with it holds until the first of these. What is lost to them, a
second restart for one request or a timer deleted by the wrong id, is described here and covered by no
property.

In `response` the streams combine what decides where a response ends and whether another may follow:
version, the tokens of `Connection`, framing (none, a length of zero or more, chunks with a parameter
and a trailer, the end of the connection), headers with an empty or a folded value, and lines that
end with a bare LF. `ULLONG_MAX` is 255, so that lengths of three decimal and two hexadecimal digits
overflow it; `HTTP_MAX_HEADER_SIZE` is 100, more than any good response has. Reads of one, two or all
the bytes left put a boundary before and after every byte. `RECVBUF` is 60: two short responses fit into one
read, and two long ones need another turn of the loop of `socket_readable`, which is the next `Read`.

In `run` a histogram for values to 100 with one significant figure has three buckets: 32 slots of one
value, 16 of two and 16 of four. The latencies lie in slots of one value (0, 20) and of four (70), the
rates in slots of one (none answered), of two (33) and of four (66, 100). Three requests are the
fewest with a median and an outlier, and two threads the fewest that can lose a rate. `MaxRequests` and
`MaxRates` are bounds in guards.

Fairness. `TcpClient` assumes weak fairness of each handler that stays ready, which the loop gives: it
dispatches every event epoll reports and every due timer in each round, and epoll reports a level for
as long as it holds; of the clock; and of the server taking connections and answering requests it has,
which is an assumption about the environment that the claim "every batch ends" needs. Faults and the
interrupt are not fair. `EventLoop` assumes weak fairness of the thread and strong fairness of the
clock, which only the bound on it disables again and again. `Run` assumes that the system runs `main` and
each thread: the timer of `check_timeouts`, which `EventLoop` shows to come back, the return from the loop
and every step of the critical section. Taking the mutex needs no more than weak fairness here because
the samples are bounded; in the code they are 10 ms apart.

Each property has a faulty variant of one operator in the module ("A fault for the checks") that
breaks it: a missing carry, a forgotten delete, a counter off by one, a batch marked twice and so on.
They are never used by a specification.

## Disagreements with the text of the repository

* `oversleep`: a timer that falls due between the timer pass and the poll makes the loop sleep up to
  999 ms, for `aeProcessEvents` borrows 1000 ms from a negative number of seconds and then clamps only the
  seconds (`src/ae.c:349`). The comment at `src/ae.c:214` wants a sleep that delays no event. File
  events end the sleep early, so that a busy thread hardly notices.
* `timeouts`: `check_timeouts` counts connections that only wait for their next request to be due;
  `SCRIPTING:110` calls the number request timeouts.
* `quic_early`: `delay_recon` (`src/quic.c:10`) does not look again whether its request is due, and its
  timer may be up to 998 microseconds early. When handshake, request and response all fit into what it is
  early, the latency is negative, of which `stats_request_completed` says that it "wil never ever ever
  happen" (`src/wrk.c:549`).
* `end_of_file`: a plain connection that the server closes between responses is never reopened
  (`src/net.c:20`, `src/http_parser.c:657`), although `-c` names the connections to keep open. The loop
  spins on it. Over TLS the end of file is an error and reconnects.
* `stale_headers`: when a connection is lost inside a response, the names, values and body that had arrived
  stay in the buffers (`src/wrk.c:635` resets the parser only), and the next response the script gets
  begins with them; `SCRIPTING:77` says that it gets the response's.

Seen while modelling and not checked by a run: `SCRIPTING:46` puts `setup` before any thread starts, but
the threads are started one after another and `script_init` for the next runs while the first ones
send (`src/wrk.c:213-240`, in `Run` as it is). `SCRIPTING:99` says `latency(i)` gives a value and a count,
and it gives the value only (`src/script.c:383`). The option `-p` falls through to the affinity
(`src/wrk.c:768`), which is then set of the wrong object (`src/wrk.c:245`). An interrupt before all threads have
been created is ignored (`src/wrk.c:191`). `hdr_max` returns the lowest value of the greatest's slot, and
`stats_within_stdev` counts the whole slot that reaches beyond the range, or, when all samples share one
slot that is wider than a microsecond, none (`src/stats.c:99`). The writer of QUIC sleeps for milliseconds
where picoquic asks for microseconds (`src/quic.c:545`).

## Proofs

| Theorem | Module | Says, for every value of the constants |
| --- | --- | --- |
| `LatencySafe` | `Schedule_proof` | `Spec => []LatencyBounded`: no latency below `-Early` |
| `CorrectionSafe` | `Schedule_proof` | `Spec => []CorrectionNeverGifts` |
| `LoopTypeCorrect` | `EventLoop_proof` | `Spec => []TypeOK` |
| `KernelMatchesTable` | `EventLoop_proof` | `Spec => []EpollMatchesTable` |
| `NoStaleEvent` | `EventLoop_proof` | `Spec => []NoStaleDispatch` |
| `SleepsExactly` | `EventLoop_proof` | `Spec => []SleepIsExact` |
| `EveryDueTimerRuns` | `EventLoop_proof` | `Spec => []DueTimersRun` |
| `TypeCorrect` | `TcpClient_proof` | `Spec => []TypeOK` |
| `DescriptorsMatch` | `TcpClient_proof` | `Spec => []DescriptorMatches` |
| `SocketsAreWatched` | `TcpClient_proof` | `Spec => []SocketsWatched` |
| `KeepsSchedule` | `TcpClient_proof` | `Spec => ImplementsSchedule`, the refinement |
| `LatencyIsBounded`, `NeverGifts`, `LatencyRecordable` | `TcpClient_proof` | `LatencyBounded`, which follows from the refinement and has no run, `CorrectionNeverGifts` and `LatencyNonNegative` of the client |
| `SocketIsOwn` | `TcpOrder_proof` | `Spec => SocketsKept`, an action property, in every environment |
| `NobodyIsDisplaced` | `TcpOrder_proof` | `Spec => [][Keeps]_vars`, with `Quiet`: no open socket changes hands at all |
| `SleepsOnce` | `TcpOrder_proof` | `Spec => []OneSleep`, with `Quiet` |
| `RateIsKept` | `TcpOrder_proof` | `Spec => []RateCeiling`, with `Quiet` |
| `PendingIsOnTheWire` | `TcpOrder_proof` | `Spec => []PendingMatchesWire`, with `Quiet` |
| `NobodyIsForgotten` | `TcpOrder_proof` | `Spec => []NoLostWakeup`, with `Quiet` and, over TCP, no `fin` |
| `QuicTypeCorrect` | `Quic_proof` | `Spec => []TypeOK` |
| `QuicSocketsAreWatched` | `Quic_proof` | `Spec => []SocketsWatched` |
| `QuicWritesOrSleeps`, `QuicHasOneFlow` | `Quic_proof` | `WritesOrSleeps` and `OneFlow`, which hold while `Orderly` |
| `QuicKeepsSchedule` | `Quic_proof` | `Spec => OrderlyImplementsSchedule`, the refinement while `Orderly` |
| `QuicLatencySafe` | `Quic_proof` | `LatencyBounded` and `CorrectionNeverGifts` while `Orderly` |
| `RunTypeCorrect` | `Run_proof` | `Spec => []TypeOK`, which has the exclusion of the mutex |
| `RecordsAreAtomic` | `Run_proof` | `Spec => RatesAccumulate`, an action property |
| `SamplesAreKept` | `Run_proof` | `Spec => []SamplesTally`: `EveryRequestOnce` and `ExtremesAreRates` |
| `MainReadsAtRest` | `Run_proof` | `Spec => StandsStill`, an action property |
| `EverySlotIsRight` | `Run_proof` | `Spec => []EquivalentRanges`, with `Fits` |
| `ReportIsRight` | `Run_proof` | `Spec => []ReportAddsUp`, with `Fits` and `RatesFit` |
| `PercentilesAreRight` | `Run_proof` | `Spec => []LatencyInReport`, with `Fits` |
| `SpectrumIsRight` | `Run_proof` | `Spec => []SpectrumRises`, with `Fits`, for any number of samples |
| `DeviationIsRight` | `Run_proof` | `Spec => []DeviationInReport`, with `Fits` and `RatesFit` |
| `ResponseTypeCorrect` | `Response_proof` | `Spec => []TypeOK`, of the parser and the buffers |
| `AssertsHold` | `Response_proof` | `Spec => []NoAssertFails` |

Assumptions are those named in the modules: `ThreadAssumption` and the assumptions on the constants of
`EventLoop`, `TcpClient`, `Quic`, `HttpParser`, `Response`, `Hdr` and `Run`; `ScheduleAssumption`, the hypothesis of the theorems
about `Schedule`, follows from the first (natural numbers, at least one connection and one request in a
batch, a clock that starts no earlier than the timeout, no earliness over TCP). TLC evaluates them in
every run. Hypotheses beyond these are in the statement of a theorem, and are named below.

`Schedule`. The two properties are not inductive. `Schedule_proof!Inv` adds the types, that a batch was
not started ahead of the responses seen (`complete_at_last_batch_start <= complete`), and the bound on
when it was owed in terms of `now`; opening a connection keeps it because a schedule that has not begun
counts from zero.

`EventLoop`. `Inv` has, besides types: `Sound` of the *tables* (file events, epoll's list, sockets), which
says that the kernel watches what the table says and that only an open socket of the connection that
listens to it is in the table; `Proper` of the list of timers (ids below the next one, all different, one
timer to open each connection at most, the one of `check_timeouts` always there, so that the loop always has a
nearest timer); `Current`, what makes `NoStaleDispatch` inductive: among the events still to be dispatched
only the one being served can be of a socket that was closed in this round (a second reconnect, or one after a
connect that failed, closes only sockets that were opened in the round), its readable half has run, and
its descriptor is off the table or belongs to a new socket with one callback for both halves, which the
loop does not call twice; and the sockets of the others are open; `SleepIsExact`, by the arithmetic of seconds and milliseconds for any length
of a second; and `Passing`: every timer that a pass owes is still ahead of it in the list and its id is not beyond
`maxId`. A pass begins anew after each timer it runs, and goes on behind an entry only when that entry is not due
or is newer than the pass.

`TcpClient`. `Inv` is `TypeOK` and `Kept`, which is `Sound(World)` and `Unopened`. `Sound` is, of a
*world* (descriptors, table, sockets, errors), its types and the two descriptor properties
`DescriptorMatches` and `SocketsWatched`: each needs the other, for a connect may take a number only if no
event is left on it, and an event is dropped only with its socket. `tcp_connect_socket`, `CloseSocket`
and `tcp_reconnect_socket` have one lemma each that they keep a world sound, so that the handlers which
reconnect, even twice, follow by composition. `Unopened` says that a connection whose first timer has not
run has no descriptor, no batch under way and has counted nothing, so that `Open` of the schedule happens
first. Every action has a lemma that it keeps `Kept`; the types are proved by groups of variables
(`Thread_proof`: `LoopTyped`, `PaceTyped`, ...).

The refinement maps the six variables of `Schedule` to those of the same name. The step that matters is
the start of a batch: `usec_to_next_send` returns 0 only when the request is owed, on pace or catching up
(`SendNow`), and a batch that was interrupted is sent again without a new mark. That the histogram never
holds a negative value combines the refinement with the abstract invariant, taken through the instance
(`OnSchedule`, `RecordedLatency`).

Who uses a socket is the first part of `TcpOrder_proof`. After a connect that failed, `c->fd` keeps the number of a
closed socket, which another connection may get. `Has` says that a connection has its socket: it is open, and its
events name the connection. Each connection has its own or one that is closed (`Mine`) when a handler runs for
it, for a handler runs only where the table names it; so what the handlers do, reconnecting twice included, leaves the
sockets of the others alone (`Aside`). The timer is the exception, since `delay_request` asks for the writable
event of whatever `c->fd` is: a connection that lost its socket in its sleep, by a reset or by an answer nobody asked
for, and could not get another one, takes over the socket of whoever has the number now. `SocketsKept` says that
nothing else does, and `SocketIsOwn` proves it in every environment; `NobodyIsDisplaced` that without such
losses nobody does at all. No text of the repository promises more.

What a connection may expect from its socket depends on the environment. `Quiet`: no response comes that nobody
asked for and no connection is reset between batches, since then it reconnects with its timer still pending and sleeps on
two, and over TCP no connection is refused, which `sock_connect` does not see, so that the connection may
sleep on a socket that is dead already. Connects that fail at once, any number of descriptors, resets, closes, ends
of file and cut or unparseable responses inside a batch, and over TLS refusals, are all allowed. For
`NoLostWakeup` over TCP, `fin` (an end of the connection instead of an answer) is excluded too, which is what the
run `end_of_file` shows to be necessary. The runs `pacing` and `faults` satisfy the hypotheses of the theorems for
what they check. The inductive invariant adds `Ordered`: a connection without a socket has no timer, and
a connection with a socket is in one of three stages: `Connecting`, with nothing used and no timer;
`Idle`, with nothing on the wire, and either its writable event or exactly one timer; `Busy`, where the
requests sent, the responses owed by the server, those in the socket and `pending` add up (`Expects`), and where
a socket that has ended ends with something that makes the next read reconnect (`EndsWith`). `RateKept` bounds
`complete`, and `complete + pending` while `Busy`, by the schedule. The proof has one lemma per action and stage;
those about lists of pieces count them with `Cardinality`.

`Quic`. `QuicInv` is `Types`, `Sound(World)`, and `Regular` while `Orderly`. `Sound` holds whatever happens:
an open socket is listened to by the connection that owns it, nothing listens to another one, and an id of this
thread in `fd_to_cnx` names a timer. `Regular` is about order. Each descriptor is `Neat`: closed with
nothing left on it, `Fresh` (connecting), or `Live`, and then waiting for its event or asleep on the one timer
that its entry names. Each connection is on one `Course`: nothing under way (before it opens, or for good), one timer
of `delay_recon`, or one socket; and its request is not early by more than `Early`. And the connections that
have nothing for good (`Lost`) are as many as connects have failed and connections were dropped by an error of a
write (`Ended`), which takes that each step ends at most one. That a stream is reset under a live connection, or another thread uses an entry, ends `Orderly` for
good and with it what `Regular` says; `QuicTypeCorrect` and `QuicSocketsAreWatched` do not depend on it.
The refinement is proved step by step from `Regular`, and the abstract invariant of `Schedule_proof` gives
the latencies.

`Run`. `Inv` has that the mutex is held by the thread between lock and unlock (`Exclusive`); that what a
thread has read of the statistics is what is there when it writes (`Current`), which is the consequence
`RatesAccumulate` states; that requests are in `complete`, `sampled` and `requests` consistently at every place
of `sample_rate` (`Tallied`); that main has waited for the threads before the one it joins (`Waited`); and that
the extremes are rates and bound all of them.

The geometry of the histogram is proved for every value, not only those a run has. `Fits` says that the
unit is one, that values stay below 2^62, and that there are at most 31 buckets; `wrk.c` calls `hdr_init` with a unit of one and a day in
microseconds (`src/wrk.c:13`, `197`, `267`, `363`). Powers of two are taken from the library's theorem that a set has as many subsets
(`PowerDoubles`, `PowSum`, `PowRises`). From them follow that the loop of `hdr_init` ends with buckets that
cover the greatest value (`BucketsFit`), that every value lies in one pair of bucket and slot (`PlaceOf`),
which is the one `get_bucket_index` and `get_sub_bucket_index` compute (`BucketIs`), and that the index rises
with the pair without gaps (`IndexRises`, `IndexRange`). A slot after the first bucket begins at no less than
half the number of slots times its width, hence the precision (`SlotIsClose`).

The numbers of the report are sums over slots, bags and threads, which the model takes with the folds of the
community modules. That a fold has the value one expects is an induction over the set; it is done without the
library's induction theorems, by the least subset for which it would fail (`LeastSubset`), and the sum itself is a
size: `Sigma(g, X)` is the number of pairs below the graph of `g` on `X` (`Pairs`), so that sums over
disjoint sets add up because the sets of pairs do (`SigmaUnion`). `SumExists` and `SumIs` show that the recursive function
inside a fold is defined and that it is `Sigma`, whatever element each step of the fold chooses.
`HistogramOf(b)` is the histogram that holds a bag `b`: every recording adds one sample to the bag
(`RecordOne`), adding two histograms slot by slot holds both bags (`AddHistograms`), and the iterator, which stops when it has
seen the total, meets every slot with a count (`RecordedIsCounted`). The inductive invariant is `Inv` with
`LatenciesKept` (each thread's histograms hold its samples), `RatesKept` (the shared one holds the rates) and
`ReportSoFar` (what main has added is that of the threads it has passed). `RatesFit` says that no rate the constants
allow is beyond the greatest value of the histogram: such a rate is not recorded, and is lost to the report. In the code
that value is a day in microseconds, and in the run `run` the greatest rate is 3 requests in 30 ms, 100
a second, which the histogram just takes.

From there on the report is arithmetic on one bag. The count up to a slot is the number of samples up to its
highest value (`CountTo`), and it rises from one counted slot to the next (`CountsRise`); so the first slot whose count reaches
a rank holds the sample of that rank (`ReachedSlot`), from which follow `latency(i)`, the percentiles with
their rounding, and, for the ranks 1 and n, the extremes. For the spectrum, the ticks of any number of samples stay below 100 percent (`TicksFit`: a step is at most a fifth of
the distance left) and rise by at most one percent (`TicksRise`); the last of them is so near to 100 percent that
only the greatest sample is above it (`TicksHigh`, by `Nears`, which bounds the distance from both sides from 94
percent on, and `TicksEnd`), so that the table has an end (`EndIs`); and each row is of the first slot to reach its
tick (`RowOfTick`).
For the deviation, `UpperIs` and `LowerIs` bound the two integers the code compares with, whatever mean and deviation
are; `SeenAre` is what the loop has passed when it stops.

`Response`. The parser's invariant `ParserInv` says which mark a state may have set (`MarksOf`) and what the states of
a body know of its length (`Length_`): in `s_body_identity` and `s_chunk_data` there is some and it is not
`ULLONG_MAX`, which stands for none, a chunk size begins with `nread` at zero, only a chunked message gets
there. That is what makes each assert of `http_parser_execute` true, and it needs the others: a mark that
outlives its state would be seen by the assert at the end of a read, a length of `ULLONG_MAX` by those of the
body. One lemma per state says that a byte handled there keeps it, with `REEXECUTE` by composition, then
`Enter` and `Leave` around them. `IInv` adds the types of the connection and its buffers. What a whole read
or a list of callbacks does follows from the least turn that would break the invariant (`TurnsInv`,
`CallbacksType`), by the library's well-founded order on the naturals, whose theorems that take no operator
suffice; `LoopExists` and `DeliveryExists` show that the recursive functions are defined.

Only model-checked, and why:

* All liveness (`BatchEnds`, `LoopEnds`, `RunEnds`): fairness and `ENABLED` are out of the prover's reach.
* `ScriptSeesResponses`, `RefusesOnlyBad`, `StateTellsWhere`: they compare the code with what a reader of HTTP
  takes the streams of the instance to say; for other streams there is nothing to compare with.
* The properties of the runs that end in a violation are false in the environments of these runs.

## Not modelled, and what is left

What is left to prove:

* Smaller assumptions for `TcpOrder_proof`: what of `OneSleep` and `RateCeiling` survives a reset of an
   idle connection (any number of timers, none of which starts a batch early, is proved by `KeepsSchedule`).

Not modelled: the parser's requests and URLs, which wrk uses on its own request and on its argument before
anything runs; the calls into LuaJIT, with the values copied between Lua states (`src/script.c`, `src/wrk.lua`);
option parsing and units (`src/units.c`), which are sequential and whose results are constants here; printing;
handshakes and records of TLS, which are OpenSSL's; what picoquic does; `hdr_record_corrected_value` and the
iterators wrk does not use; statistics without a histogram, of which wrk has none. Outside the project:
allocation (`zmalloc.c`), string building (`aprintf.c`), random numbers (`tinymt64.c`), LuaJIT, and the
event back ends for other systems.
