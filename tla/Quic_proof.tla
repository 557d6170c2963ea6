------------------------------ MODULE Quic_proof ------------------------------
(* Quic.tla for any number of connections and descriptors, any rate, and       *)
(* whatever picoquic, the network and the other threads do.                    *)
EXTENDS Quic, Thread_proof

-----------------------------------------------------------------------------
(* Worlds: sockets, event table, fd_to_cnx, and the timers of both kinds.      *)

Entry == FileEvents(Procs, Conns \cup {NoConn})
Ids == {"none", "own", "run", "another"}
Worlds ==
  [events : [Fds -> Entry], open : SUBSET Fds, cnx : [Fds -> Stages],
   owner : [Fds -> Conns \cup {NoConn}], ae : [Fds -> Ids],
   write_timers : [Fds -> Seq(Nat)], recon_timers : [Conns -> Seq(Nat)],
   errors : Errors]

\* An open socket is listened to by the connection that owns it, nothing
\* listens to another one, and an id of this thread names a timer.
SoundAt(w, f) ==
  /\ f \in w.open <=> R \in w.events[f].mask
  /\ W \in w.events[f].mask => f \in w.open
  /\ f \in w.open =>
       w.events[f].clientData \in Conns /\ w.owner[f] = w.events[f].clientData
  /\ w.ae[f] = "own" => w.write_timers[f] # <<>>

Sound(w) == w \in Worlds /\ \A f \in Fds : SoundAt(w, f)

\* How a descriptor is found while no stream was reset and no other thread came
\* by: closed, connecting, or used, and then waiting to write or asleep on the
\* one timer that fd_to_cnx names.
Fresh(w, f) ==
  /\ w.events[f].rfileProc = "quic_socket_connected"
  /\ w.events[f].wfileProc = "quic_socket_connected"
  /\ w.cnx[f] = "none"
  /\ W \in w.events[f].mask /\ w.write_timers[f] = <<>>

Live(w, f) ==
  /\ w.events[f].rfileProc = "quic_readable"
  /\ w.events[f].wfileProc = "quic_writeable"
  /\ w.cnx[f] \notin {"none", "abandoned"}
  /\ \/ W \in w.events[f].mask /\ w.write_timers[f] = <<>>
     \/ W \notin w.events[f].mask /\ Len(w.write_timers[f]) = 1 /\ w.ae[f] = "own"

NeatAt(w, f) ==
  /\ w.ae[f] # "another"
  /\ \/ f \notin w.open /\ w.cnx[f] = "none" /\ w.write_timers[f] = <<>>
     \/ f \in w.open /\ (Fresh(w, f) \/ Live(w, f))

Neat(w) == \A f \in Fds : NeatAt(w, f)

\* All but one descriptor stay as they are.
Elsewhere(f, w, v) ==
  \A g \in Fds \ {f} :
    /\ g \in v.open <=> g \in w.open
    /\ v.events[g] = w.events[g] /\ v.cnx[g] = w.cnx[g] /\ v.owner[g] = w.owner[g]
    /\ v.ae[g] = w.ae[g] /\ v.write_timers[g] = w.write_timers[g]

LEMMA LocalSound ==
  ASSUME NEW w, Sound(w), NEW v, v \in Worlds, NEW f \in Fds, Elsewhere(f, w, v),
         SoundAt(v, f)
  PROVE  Sound(v)
  BY DEF Sound, SoundAt, Elsewhere

LEMMA LocalNeat ==
  ASSUME NEW w, Neat(w), NEW v, NEW f \in Fds, Elsewhere(f, w, v), NeatAt(v, f)
  PROVE  Neat(v)
  BY DEF Neat, NeatAt, Fresh, Live, Elsewhere

\* What one descriptor of the table becomes. Predicates keep the lemmas below
\* within what the provers can instantiate.
Created(ev, f, c, proc, new) ==
  /\ new \in [Fds -> Entry]
  /\ W \in new[f].mask
  /\ new[f].wfileProc = proc
  /\ new[f].clientData = c
  /\ \A g \in Fds \ {f} : new[g] = ev[g]

ListensWith(f, proc, new) == R \in new[f].mask /\ new[f].rfileProc = proc

ListensAs(ev, f, new) ==
  /\ R \in new[f].mask <=> R \in ev[f].mask
  /\ new[f].rfileProc = ev[f].rfileProc

LEMMA CreateBoth ==
  ASSUME NEW ev \in [Fds -> Entry], NEW f \in Fds, NEW c \in Conns, NEW new,
         new = aeCreateFileEvent(ev, f, {R, W}, "quic_socket_connected", c)
  PROVE  /\ Created(ev, f, c, "quic_socket_connected", new)
         /\ ListensWith(f, "quic_socket_connected", new)
<1>1. "quic_socket_connected" \in Procs /\ {R, W} \in Masks
  BY DEF Procs, Masks
<1>2. PICK old : old = ev[f]
  OBVIOUS
<1>3. PICK e : e = [mask |-> old.mask \cup {R, W}, rfileProc |-> "quic_socket_connected",
              wfileProc |-> "quic_socket_connected", clientData |-> c]
  OBVIOUS
<1>4. new = [ev EXCEPT ![f] = e]
  BY <1>2, <1>3 DEF aeCreateFileEvent
<1>5. e \in Entry
  BY <1>1, <1>2, <1>3 DEF Entry, FileEvents, Masks
<1> QED BY <1>2, <1>3, <1>4, <1>5 DEF Created, ListensWith

LEMMA CreateWriter ==
  ASSUME NEW ev \in [Fds -> Entry], NEW f \in Fds, NEW c \in Conns, NEW new,
         new = aeCreateFileEvent(ev, f, {W}, "quic_writeable", c)
  PROVE  Created(ev, f, c, "quic_writeable", new) /\ ListensAs(ev, f, new)
<1>1. "quic_writeable" \in Procs /\ {W} \in Masks /\ R \notin {W}
  BY DEF Procs, Masks, R, W
<1>2. PICK old : old = ev[f]
  OBVIOUS
<1>3. PICK e : e = [mask |-> old.mask \cup {W}, rfileProc |-> old.rfileProc,
                    wfileProc |-> "quic_writeable", clientData |-> c]
  OBVIOUS
<1>4. new = [ev EXCEPT ![f] = e]
  BY <1>1, <1>2, <1>3 DEF aeCreateFileEvent
<1>5. e \in Entry
  BY <1>1, <1>2, <1>3 DEF Entry, FileEvents, Masks
<1>6. /\ new \in [Fds -> Entry] /\ new[f] = e
      /\ \A g \in Fds \ {f} : new[g] = ev[g]
  BY <1>4, <1>5
<1>7. /\ W \in e.mask /\ e.wfileProc = "quic_writeable" /\ e.clientData = c
      /\ R \in e.mask <=> R \in ev[f].mask
      /\ e.rfileProc = ev[f].rfileProc
  BY <1>1, <1>2, <1>3
<1> QED BY <1>6, <1>7 DEF Created, ListensAs

LEMMA WorldFields ==
  ASSUME NEW w \in Worlds
  PROVE  /\ w.events \in [Fds -> Entry] /\ w.open \in SUBSET Fds
         /\ w.cnx \in [Fds -> Stages] /\ w.owner \in [Fds -> Conns \cup {NoConn}]
         /\ w.ae \in [Fds -> Ids] /\ w.write_timers \in [Fds -> Seq(Nat)]
         /\ w.recon_timers \in [Conns -> Seq(Nat)] /\ w.errors \in Errors
  BY DEF Worlds

\* What an attempt to connect leaves behind.
Fails(c, w, v) ==
  /\ v \in Worlds
  /\ v.open = w.open /\ v.events = w.events /\ v.cnx = w.cnx /\ v.ae = w.ae
  /\ v.write_timers = w.write_timers /\ v.recon_timers = w.recon_timers
  /\ v.errors.connect = w.errors.connect + 1
  /\ \A f \in w.open : v.owner[f] = w.owner[f]

OpensSocket(c, w, f, v) ==
  /\ v \in Worlds
  /\ f \in Fds \ w.open
  /\ v.open = w.open \cup {f}
  /\ v.owner = [w.owner EXCEPT ![f] = c]
  /\ v.events = aeCreateFileEvent(w.events, f, {R, W}, "quic_socket_connected", c)
  /\ v.cnx = w.cnx /\ v.ae = w.ae /\ v.errors = w.errors
  /\ v.write_timers = w.write_timers /\ v.recon_timers = w.recon_timers

LEMMA ConnectShape ==
  ASSUME NEW w \in Worlds, NEW c \in Conns, NEW v \in quic_connect_socket(c, w)
  PROVE  Fails(c, w, v) \/ \E f \in Fds : OpensSocket(c, w, f, v)
<1>1. PICK failed : failed = [w EXCEPT !.errors.connect = @ + 1]
  OBVIOUS
<1>2. /\ failed \in Worlds /\ failed.errors.connect = w.errors.connect + 1
      /\ failed.open = w.open /\ failed.events = w.events /\ failed.cnx = w.cnx
      /\ failed.ae = w.ae /\ failed.write_timers = w.write_timers
      /\ failed.recon_timers = w.recon_timers /\ failed.owner = w.owner
  <2>1. PICK e : e = [w.errors EXCEPT !.connect = @ + 1]
    OBVIOUS
  <2>2. w.errors \in Errors
    BY WorldFields
  <2>3. e \in Errors /\ e.connect = w.errors.connect + 1
    BY <2>1, <2>2 DEF Errors
  <2>4. failed = [w EXCEPT !.errors = e]
    BY <1>1, <2>1
  <2> QED BY <2>3, <2>4 DEF Worlds
<1>3. CASE v = failed
  BY <1>2, <1>3 DEF Fails
<1>4. ASSUME NEW f \in Fds \ w.open, v = [failed EXCEPT !.owner[f] = c]
      PROVE  Fails(c, w, v)
  <2>1. /\ v \in Worlds /\ v.errors = failed.errors
        /\ v.open = w.open /\ v.events = w.events /\ v.cnx = w.cnx
        /\ v.ae = w.ae /\ v.write_timers = w.write_timers
        /\ v.recon_timers = w.recon_timers
        /\ v.owner = [failed.owner EXCEPT ![f] = c]
    BY <1>2, <1>4 DEF Worlds
  <2> QED BY <1>2, <1>4, <2>1, WorldFields DEF Fails
<1>5. ASSUME NEW f \in Fds \ w.open,
             v = [w EXCEPT !.open = @ \cup {f},
                           !.owner[f] = c,
                           !.events = aeCreateFileEvent(@, f, {R, W},
                                        "quic_socket_connected", c)]
      PROVE  OpensSocket(c, w, f, v)
  <2>1. PICK ev : ev = aeCreateFileEvent(w.events, f, {R, W}, "quic_socket_connected", c)
    OBVIOUS
  <2>2. ev \in [Fds -> Entry]
    <3>1. w.events \in [Fds -> Entry]
      BY WorldFields
    <3> QED BY <2>1, <3>1, CreateBoth DEF Created
  <2>3. v = [w EXCEPT !.open = @ \cup {f}, !.owner[f] = c, !.events = ev]
    BY <1>5, <2>1
  <2>4. /\ v \in Worlds /\ v.open = w.open \cup {f} /\ v.events = ev
        /\ v.owner = [w.owner EXCEPT ![f] = c] /\ v.cnx = w.cnx /\ v.ae = w.ae
        /\ v.errors = w.errors /\ v.write_timers = w.write_timers
        /\ v.recon_timers = w.recon_timers
    BY <2>2, <2>3 DEF Worlds
  <2> QED BY <2>1, <2>4 DEF OpensSocket
<1> QED BY <1>1, <1>3, <1>4, <1>5 DEF quic_connect_socket

\* The socket that is opened, and nothing else.
OpenedAt(c, w, f, v) ==
  /\ R \in v.events[f].mask /\ W \in v.events[f].mask
  /\ v.events[f].rfileProc = "quic_socket_connected"
  /\ v.events[f].wfileProc = "quic_socket_connected"
  /\ v.events[f].clientData = c /\ v.owner[f] = c
  /\ v.cnx[f] = w.cnx[f] /\ v.ae[f] = w.ae[f] /\ v.write_timers[f] = w.write_timers[f]
  /\ f \in v.open

LEMMA OpensAt ==
  ASSUME NEW w \in Worlds, NEW c \in Conns, NEW f \in Fds, NEW v, OpensSocket(c, w, f, v)
  PROVE  OpenedAt(c, w, f, v) /\ Elsewhere(f, w, v)
<1>1. w.events \in [Fds -> Entry] /\ w.owner \in [Fds -> Conns \cup {NoConn}]
  BY WorldFields
<1>3. v.events = aeCreateFileEvent(w.events, f, {R, W}, "quic_socket_connected", c)
  BY DEF OpensSocket
<1>4. Created(w.events, f, c, "quic_socket_connected", v.events)
  /\ ListensWith(f, "quic_socket_connected", v.events)
  BY <1>1, <1>3, CreateBoth
<1>5. /\ v.owner = [w.owner EXCEPT ![f] = c] /\ v.open = w.open \cup {f}
      /\ v.cnx = w.cnx /\ v.ae = w.ae /\ v.write_timers = w.write_timers
  BY DEF OpensSocket
<1>6. Elsewhere(f, w, v)
  BY <1>1, <1>4, <1>5 DEF Elsewhere, Created
<1>7. OpenedAt(c, w, f, v)
  BY <1>1, <1>4, <1>5 DEF OpenedAt, Created, ListensWith
<1> QED BY <1>6, <1>7

LEMMA ConnectSound ==
  ASSUME NEW w, Sound(w), NEW c \in Conns, NEW v \in quic_connect_socket(c, w)
  PROVE  Sound(v)
<1>1. CASE Fails(c, w, v)
  BY <1>1 DEF Fails, Sound, SoundAt
<1>2. ASSUME NEW f \in Fds, OpensSocket(c, w, f, v) PROVE Sound(v)
  <2>1. w \in Worlds /\ v \in Worlds /\ SoundAt(w, f)
    BY <1>2 DEF Sound, OpensSocket
  <2>2. OpenedAt(c, w, f, v) /\ Elsewhere(f, w, v)
    BY <1>2, <2>1, OpensAt
  <2>3. SoundAt(v, f)
    BY <2>1, <2>2 DEF SoundAt, OpenedAt
  <2> QED BY <2>1, <2>2, <2>3, LocalSound
<1> QED BY <1>1, <1>2, ConnectShape DEF Sound

LEMMA ConnectNeat ==
  ASSUME NEW w, Sound(w), Neat(w), NEW c \in Conns, NEW v \in quic_connect_socket(c, w)
  PROVE  Neat(v)
<1>1. CASE Fails(c, w, v)
  BY <1>1 DEF Fails, Neat, NeatAt, Fresh, Live
<1>2. ASSUME NEW f \in Fds, OpensSocket(c, w, f, v) PROVE Neat(v)
  <2>1. w \in Worlds /\ NeatAt(w, f) /\ f \notin w.open
    BY <1>2 DEF Sound, Neat, OpensSocket
  <2>2. OpenedAt(c, w, f, v) /\ Elsewhere(f, w, v)
    BY <1>2, <2>1, OpensAt
  <2>3. NeatAt(v, f)
    BY <2>1, <2>2 DEF NeatAt, Fresh, OpenedAt
  <2> QED BY <2>1, <2>2, <2>3, LocalNeat
<1> QED BY <1>1, <1>2, ConnectShape DEF Sound

-----------------------------------------------------------------------------
(* Operations on one descriptor that open and close nothing.                   *)

Steps(f, w, v) ==
  /\ v \in Worlds /\ Elsewhere(f, w, v)
  /\ v.open = w.open /\ v.owner = w.owner
  /\ v.recon_timers = w.recon_timers /\ v.errors = w.errors
  /\ v.events[f].clientData = w.events[f].clientData
  /\ R \in v.events[f].mask <=> R \in w.events[f].mask

LEMMA StepSound ==
  ASSUME NEW w, Sound(w), NEW f \in Fds, NEW v, Steps(f, w, v),
         W \in v.events[f].mask => f \in w.open,
         v.ae[f] = "own" => v.write_timers[f] # <<>>
  PROVE  Sound(v)
<1>1. SoundAt(w, f)
  BY DEF Sound
<1>2. SoundAt(v, f)
  BY <1>1 DEF Steps, SoundAt
<1> QED BY <1>2, LocalSound DEF Steps

\* The writer waits for its socket.
Awaits(f, w, v) ==
  /\ Steps(f, w, v)
  /\ v.cnx = w.cnx /\ v.ae = w.ae /\ v.write_timers = w.write_timers
  /\ v.events[f].rfileProc = w.events[f].rfileProc
  /\ W \in v.events[f].mask /\ v.events[f].wfileProc = "quic_writeable"

LEMMA AwaitStep ==
  ASSUME NEW w \in Worlds, NEW f \in Fds, NEW c \in Conns, f \in w.open,
         w.events[f].clientData = c
  PROVE  Awaits(f, w, AwaitWritable(f, c, w))
<1>1. PICK ev : ev = aeCreateFileEvent(w.events, f, {W}, "quic_writeable", c)
  OBVIOUS
<1>2. w.events \in [Fds -> Entry]
  BY WorldFields
<1>3. Created(w.events, f, c, "quic_writeable", ev) /\ ListensAs(w.events, f, ev)
  BY <1>1, <1>2, CreateWriter
<1>4. PICK v : v = [w EXCEPT !.events = ev]
  OBVIOUS
<1>5. AwaitWritable(f, c, w) = v
  BY <1>1, <1>4 DEF AwaitWritable
<1>6. /\ v \in Worlds /\ v.events = ev /\ v.open = w.open /\ v.cnx = w.cnx
      /\ v.owner = w.owner /\ v.ae = w.ae /\ v.write_timers = w.write_timers
      /\ v.recon_timers = w.recon_timers /\ v.errors = w.errors
  BY <1>3, <1>4 DEF Worlds, Created
<1>7. Elsewhere(f, w, v)
  BY <1>3, <1>6 DEF Created, Elsewhere
<1>8. Steps(f, w, v)
  BY <1>3, <1>6, <1>7 DEF Created, ListensAs, Steps
<1> QED BY <1>3, <1>5, <1>6, <1>8 DEF Awaits, Created, ListensAs

\* One timer of a writer goes.
Removed(f, i, w, v) ==
  /\ Steps(f, w, v)
  /\ v.events = w.events /\ v.cnx = w.cnx
  /\ v.write_timers[f] \in Seq(Nat)
  /\ Len(v.write_timers[f]) = Len(w.write_timers[f]) - 1
  /\ v.ae[f] = IF w.ae[f] = "own" /\ i = Len(w.write_timers[f])
                 THEN "run" ELSE w.ae[f]

LEMMA WithoutTimerStep ==
  ASSUME NEW w \in Worlds, NEW f \in Fds, NEW i \in DOMAIN w.write_timers[f]
  PROVE  Removed(f, i, w, WithoutTimer(f, i, w))
<1>1. w.write_timers \in [Fds -> Seq(Nat)] /\ w.ae \in [Fds -> Ids]
  BY WorldFields
<1>2. PICK s : s = w.write_timers[f]
  OBVIOUS
<1>3. PICK t : t = RemoveAt(s, i)
  OBVIOUS
<1>4. PICK id : id = IF w.ae[f] = "own" /\ i = Len(s) THEN "run" ELSE w.ae[f]
  OBVIOUS
<1>5. s \in Seq(Nat) /\ i \in 1..Len(s)
  BY <1>1, <1>2
<1>6. t \in Seq(Nat) /\ Len(t) = Len(s) - 1
  BY <1>3, <1>5, RemoveAtType
<1>7. id \in Ids
  BY <1>1, <1>4 DEF Ids
<1>8. PICK v : v = [w EXCEPT !.write_timers[f] = t, !.ae[f] = id]
  OBVIOUS
<1>9. WithoutTimer(f, i, w) = v
  BY <1>2, <1>3, <1>4, <1>8 DEF WithoutTimer
<1>10. /\ v \in Worlds /\ v.events = w.events /\ v.open = w.open /\ v.cnx = w.cnx
       /\ v.owner = w.owner /\ v.ae = [w.ae EXCEPT ![f] = id]
       /\ v.write_timers = [w.write_timers EXCEPT ![f] = t]
       /\ v.recon_timers = w.recon_timers /\ v.errors = w.errors
  BY <1>6, <1>7, <1>8 DEF Worlds
<1>11. Elsewhere(f, w, v)
  BY <1>1, <1>10 DEF Elsewhere
<1>12. v.ae[f] = id /\ v.write_timers[f] = t
  BY <1>1, <1>10
<1>13. Steps(f, w, v)
  BY <1>10, <1>11 DEF Steps
<1> QED BY <1>2, <1>4, <1>6, <1>9, <1>10, <1>12, <1>13 DEF Removed

\* The connection reaches a stage.
Staged(f, s, w, v) ==
  /\ Steps(f, w, v)
  /\ v.events = w.events /\ v.ae = w.ae /\ v.write_timers = w.write_timers
  /\ v.cnx[f] = s

LEMMA StageStep ==
  ASSUME NEW w \in Worlds, NEW f \in Fds, NEW s \in Stages
  PROVE  Staged(f, s, w, [w EXCEPT !.cnx[f] = s])
<1>1. w.cnx \in [Fds -> Stages]
  BY WorldFields
<1>2. PICK v : v = [w EXCEPT !.cnx[f] = s]
  OBVIOUS
<1>3. /\ v \in Worlds /\ v.events = w.events /\ v.open = w.open
      /\ v.cnx = [w.cnx EXCEPT ![f] = s]
      /\ v.owner = w.owner /\ v.ae = w.ae /\ v.write_timers = w.write_timers
      /\ v.recon_timers = w.recon_timers /\ v.errors = w.errors
  BY <1>2 DEF Worlds
<1>4. Elsewhere(f, w, v)
  BY <1>1, <1>3 DEF Elsewhere
<1> QED BY <1>1, <1>2, <1>3, <1>4 DEF Staged, Steps

\* fd_to_cnx forgets the timer.
Forgets(f, w, v) ==
  /\ Steps(f, w, v)
  /\ v.events = w.events /\ v.cnx = w.cnx /\ v.write_timers = w.write_timers
  /\ v.ae[f] = "none"

LEMMA ForgetStep ==
  ASSUME NEW w \in Worlds, NEW f \in Fds
  PROVE  Forgets(f, w, [w EXCEPT !.ae[f] = "none"])
<1>1. w.ae \in [Fds -> Ids] /\ "none" \in Ids
  BY WorldFields DEF Ids
<1>2. PICK v : v = [w EXCEPT !.ae[f] = "none"]
  OBVIOUS
<1>3. /\ v \in Worlds /\ v.events = w.events /\ v.open = w.open
      /\ v.ae = [w.ae EXCEPT ![f] = "none"]
      /\ v.owner = w.owner /\ v.cnx = w.cnx /\ v.write_timers = w.write_timers
      /\ v.recon_timers = w.recon_timers /\ v.errors = w.errors
  BY <1>1, <1>2 DEF Worlds
<1>4. Elsewhere(f, w, v)
  BY <1>1, <1>3 DEF Elsewhere
<1> QED BY <1>1, <1>2, <1>3, <1>4 DEF Forgets, Steps

Stopped(ev, f, new) ==
  /\ new \in [Fds -> Entry] /\ ListensAs(ev, f, new)
  /\ W \notin new[f].mask /\ new[f].wfileProc = ev[f].wfileProc
  /\ new[f].clientData = ev[f].clientData
  /\ \A g \in Fds \ {f} : new[g] = ev[g]

LEMMA DeleteWriter ==
  ASSUME NEW ev \in [Fds -> Entry], NEW f \in Fds, NEW new,
         new = aeDeleteFileEvent(ev, f, {W})
  PROVE  Stopped(ev, f, new)
<1>1. R \notin {W}
  BY DEF R, W
<1>2. PICK old : old = ev[f]
  OBVIOUS
<1>3. PICK e : e = [old EXCEPT !.mask = @ \ {W}]
  OBVIOUS
<1>4. old \in Entry
  BY <1>2
<1>5. /\ e \in Entry
      /\ e.mask = old.mask \ {W} /\ e.rfileProc = old.rfileProc
      /\ e.wfileProc = old.wfileProc /\ e.clientData = old.clientData
  BY <1>3, <1>4 DEF Entry, FileEvents, Masks
<1>6. new = [ev EXCEPT ![f] = e]
  BY <1>2, <1>3 DEF aeDeleteFileEvent
<1> QED BY <1>1, <1>2, <1>5, <1>6 DEF ListensAs, Stopped

\* The writer sleeps.
Sleeps(f, w, v) ==
  /\ Steps(f, w, v)
  /\ v.cnx = w.cnx /\ v.events[f].wfileProc = w.events[f].wfileProc
  /\ v.events[f].rfileProc = w.events[f].rfileProc
  /\ W \notin v.events[f].mask /\ v.ae[f] = "own"
  /\ v.write_timers[f] \in Seq(Nat)
  /\ Len(v.write_timers[f]) = Len(w.write_timers[f]) + 1

LEMMA SleepStep ==
  ASSUME LoopTyped, NEW w \in Worlds, NEW f \in Fds, NEW delay \in Delays
  PROVE  Sleeps(f, w, Sleep(f, delay, w))
<1>1. /\ w.events \in [Fds -> Entry] /\ w.ae \in [Fds -> Ids]
      /\ w.write_timers \in [Fds -> Seq(Nat)]
  BY WorldFields
<1>2. DueMsec(now, delay, Msec) \in Nat
  BY DivNat, ThreadAssumption, QuicAssumption DEF DueMsec, LoopTyped
<1>3. PICK ev : ev = aeDeleteFileEvent(w.events, f, {W})
  OBVIOUS
<1>4. PICK due \in Nat : due = DueMsec(now, delay, Msec)
  BY <1>2
<1>5. PICK s : s = w.write_timers[f]
  OBVIOUS
<1>6. PICK t : t = Append(s, due)
  OBVIOUS
<1>7. s \in Seq(Nat) /\ t \in Seq(Nat) /\ Len(t) = Len(s) + 1
  BY <1>1, <1>4, <1>5, <1>6
<1>8. Stopped(w.events, f, ev)
  BY <1>1, <1>3, DeleteWriter
<1>9. PICK v : v = [w EXCEPT !.events = ev, !.write_timers[f] = t, !.ae[f] = "own"]
  OBVIOUS
<1>10. Sleep(f, delay, w) = v
  BY <1>3, <1>4, <1>5, <1>6, <1>9 DEF Sleep
<1>11. /\ v \in Worlds /\ v.events = ev /\ v.open = w.open /\ v.cnx = w.cnx
       /\ v.owner = w.owner /\ v.ae = [w.ae EXCEPT ![f] = "own"]
       /\ v.write_timers = [w.write_timers EXCEPT ![f] = t]
       /\ v.recon_timers = w.recon_timers /\ v.errors = w.errors
  BY <1>7, <1>8, <1>9 DEF Worlds, Ids, Stopped
<1>12. Elsewhere(f, w, v)
  BY <1>1, <1>8, <1>11 DEF Elsewhere, Stopped
<1>13. v.ae[f] = "own" /\ v.write_timers[f] = t
  BY <1>1, <1>11
<1>14. Steps(f, w, v)
  BY <1>8, <1>11, <1>12 DEF Steps, ListensAs, Stopped
<1> QED BY <1>5, <1>7, <1>8, <1>10, <1>11, <1>13, <1>14 DEF Sleeps, Stopped, ListensAs

LEMMA StepsCompose ==
  ASSUME NEW f \in Fds, NEW u, NEW v, NEW w, Steps(f, u, v), Steps(f, v, w)
  PROVE  Steps(f, u, w)
  BY DEF Steps, Elsewhere

\* Sockets and descriptors stay as they are.
SameSockets(w, v) ==
  /\ v \in Worlds
  /\ v.open = w.open /\ v.events = w.events /\ v.cnx = w.cnx /\ v.ae = w.ae
  /\ v.write_timers = w.write_timers
  /\ \A f \in w.open : v.owner[f] = w.owner[f]

LEMMA SameSound ==
  ASSUME NEW w, Sound(w), NEW v, SameSockets(w, v) PROVE Sound(v)
  BY DEF SameSockets, Sound, SoundAt

LEMMA SameNeat ==
  ASSUME NEW w, Neat(w), NEW v, SameSockets(w, v) PROVE Neat(v)
  BY DEF SameSockets, Neat, NeatAt, Fresh, Live

\* A timer to reconnect is set, or goes.
Retimed(c, t, w, v) ==
  /\ SameSockets(w, v) /\ v.errors = w.errors
  /\ v.recon_timers = [w.recon_timers EXCEPT ![c] = t]

LEMMA ReconStep ==
  ASSUME NEW w \in Worlds, NEW c \in Conns, NEW t \in Seq(Nat)
  PROVE  Retimed(c, t, w, [w EXCEPT !.recon_timers[c] = t])
  BY DEF Worlds, SameSockets, Retimed

LEMMA AwaitSound ==
  ASSUME NEW w, Sound(w), NEW f \in Fds, NEW c, f \in w.open => c = w.events[f].clientData
  PROVE  Sound(AwaitWritable(f, c, w))
<1>1. CASE f \in w.open
  <2>1. w \in Worlds /\ SoundAt(w, f)
    BY DEF Sound
  <2>2. c \in Conns
    BY <1>1, <2>1 DEF SoundAt
  <2>3. PICK v : v = AwaitWritable(f, c, w)
    OBVIOUS
  <2>4. Awaits(f, w, v)
    BY <1>1, <2>1, <2>2, <2>3, AwaitStep
  <2> QED BY <1>1, <2>1, <2>3, <2>4, StepSound DEF Awaits, SoundAt
<1>2. CASE f \notin w.open
  BY <1>2 DEF AwaitWritable
<1> QED BY <1>1, <1>2

LEMMA WithoutTimerSound ==
  ASSUME NEW w, Sound(w), NEW f \in Fds, NEW i \in DOMAIN w.write_timers[f]
  PROVE  Sound(WithoutTimer(f, i, w))
<1>1. w \in Worlds /\ SoundAt(w, f)
  BY DEF Sound
<1>2. PICK v : v = WithoutTimer(f, i, w)
  OBVIOUS
<1>3. Removed(f, i, w, v)
  BY <1>1, <1>2, WithoutTimerStep
<1>4. w.write_timers[f] \in Seq(Nat)
  BY <1>1, WorldFields
<1>5. PICK s \in Seq(Nat) : s = w.write_timers[f]
  BY <1>4
<1>6. PICK t \in Seq(Nat) : t = v.write_timers[f]
  BY <1>3 DEF Removed
<1>7. v.ae[f] = "own" => t # <<>>
  <2>1. SUFFICES ASSUME v.ae[f] = "own" PROVE t # <<>>
    OBVIOUS
  <2>2. i # Len(s) /\ i \in 1..Len(s)
    BY <1>3, <1>5, <2>1 DEF Removed
  <2>3. Len(t) = Len(s) - 1
    BY <1>3, <1>5, <1>6 DEF Removed
  <2> QED BY <2>2, <2>3
<1> QED BY <1>1, <1>2, <1>3, <1>6, <1>7, StepSound DEF Removed, SoundAt

\* Whatever timer is deleted, the sockets stay.
LEMMA DeleteTimerSound ==
  ASSUME NEW w, Sound(w), NEW f \in Fds, NEW v \in DeleteTimer(f, w)
  PROVE  Sound(v) /\ v.events = w.events /\ v.open = w.open
<1>1. w \in Worlds /\ SoundAt(w, f) /\ w.write_timers \in [Fds -> Seq(Nat)]
      /\ w.recon_timers \in [Conns -> Seq(Nat)]
  BY WorldFields DEF Sound
<1>2. ASSUME NEW g \in Fds, NEW i \in DOMAIN w.write_timers[g], v = WithoutTimer(g, i, w)
      PROVE  Sound(v) /\ v.events = w.events /\ v.open = w.open
  BY <1>1, <1>2, WithoutTimerSound, WithoutTimerStep DEF Removed, Steps
<1>3. ASSUME NEW c \in Conns, NEW i \in DOMAIN w.recon_timers[c],
             v = WithoutRecon(c, i, w)
      PROVE  Sound(v) /\ v.events = w.events /\ v.open = w.open
  <2>1. PICK s \in Seq(Nat) : s = w.recon_timers[c]
    BY <1>1
  <2>2. PICK t : t = RemoveAt(s, i)
    OBVIOUS
  <2>3. t \in Seq(Nat)
    BY <2>1, <2>2, RemoveAtType
  <2>4. v = [w EXCEPT !.recon_timers[c] = t]
    BY <1>3, <2>1, <2>2 DEF WithoutRecon
  <2>5. SameSockets(w, v)
    BY <1>1, <2>3, <2>4, ReconStep DEF Retimed
  <2> QED BY <2>5, SameSound DEF SameSockets
<1>4. CASE w.ae[f] = "own"
  <2>1. PICK s \in Seq(Nat) : s = w.write_timers[f]
    BY <1>1
  <2>2. s # <<>>
    BY <1>1, <1>4, <2>1 DEF SoundAt
  <2>3. Len(s) \in DOMAIN w.write_timers[f] /\ v = WithoutTimer(f, Len(s), w)
    BY <1>4, <2>1, <2>2 DEF DeleteTimer
  <2> QED BY <1>2, <2>3
<1>5. CASE w.ae[f] # "own"
  <2> DEFINE Less(g) == {WithoutTimer(g, i, w) : i \in DOMAIN w.write_timers[g]}
             Rest(c) == {WithoutRecon(c, i, w) : i \in DOMAIN w.recon_timers[c]}
  <2>1. v = w \/ v \in WithoutSome(w)
    BY <1>5 DEF DeleteTimer
  <2>2. v \in WithoutSome(w) =>
          (\E g \in Fds : v \in Less(g)) \/ (\E c \in Conns : v \in Rest(c))
    <3> SUFFICES ASSUME v \in WithoutSome(w)
                 PROVE  (\E g \in Fds : v \in Less(g)) \/ (\E c \in Conns : v \in Rest(c))
      OBVIOUS
    <3> QED BY DEF WithoutSome
  <2>3. ASSUME NEW g \in Fds, v \in Less(g)
        PROVE  \E i \in DOMAIN w.write_timers[g] : v = WithoutTimer(g, i, w)
    BY <2>3
  <2>4. ASSUME NEW c \in Conns, v \in Rest(c)
        PROVE  \E i \in DOMAIN w.recon_timers[c] : v = WithoutRecon(c, i, w)
    BY <2>4
  <2> HIDE DEF Less, Rest
  <2> QED BY <1>2, <1>3, <2>1, <2>2, <2>3, <2>4
<1> QED BY <1>4, <1>5

LEMMA WakeSound ==
  ASSUME NEW w, Sound(w), NEW f \in w.open, w.events[f] = events[f],
         NEW v \in WakeWriter(f, w)
  PROVE  Sound(v)
<1>1. CASE w.ae[f] = "none"
  BY <1>1 DEF WakeWriter
<1>2. CASE w.ae[f] # "none"
  <2>1. PICK u \in DeleteTimer(f, w) :
          v = AwaitWritable(f, events[f].clientData, [u EXCEPT !.ae[f] = "none"])
    BY <1>2 DEF WakeWriter
  <2>2. w \in Worlds /\ f \in Fds
    BY WorldFields DEF Sound
  <2>3. Sound(u) /\ u.events = w.events /\ u.open = w.open
    BY <2>2, DeleteTimerSound
  <2>4. PICK t : t = [u EXCEPT !.ae[f] = "none"]
    OBVIOUS
  <2>5. Forgets(f, u, t)
    BY <2>2, <2>3, <2>4, ForgetStep DEF Sound
  <2>6. SoundAt(u, f)
    BY <2>2, <2>3 DEF Sound
  <2>7. Sound(t)
    BY <2>2, <2>3, <2>5, <2>6, StepSound DEF Forgets, SoundAt
  <2>8. t.events[f].clientData = events[f].clientData
    BY <2>3, <2>5 DEF Forgets
  <2> QED BY <2>1, <2>2, <2>4, <2>7, <2>8, AwaitSound
<1> QED BY <1>1, <1>2

LEMMA RestartShape ==
  ASSUME LoopTyped, NEW w \in Worlds, NEW c \in Conns, NEW r, r.wait \in Nat,
         NEW v \in restart(c, r, w)
  PROVE  \/ /\ r.wait > 0 /\ SameSockets(w, v) /\ v.errors = w.errors
            /\ v.recon_timers =
                 [w.recon_timers EXCEPT ![c] = Append(w.recon_timers[c], Delay(r.wait))]
         \/ r.wait = 0 /\ v \in quic_connect_socket(c, w)
<1>1. CASE r.wait > 0
  <2>1. w.recon_timers[c] \in Seq(Nat) /\ Delay(r.wait) \in Nat
    BY WorldFields, DelayType
  <2>2. PICK t : t = Append(w.recon_timers[c], Delay(r.wait))
    OBVIOUS
  <2>3. t \in Seq(Nat)
    BY <2>1, <2>2
  <2>4. v = [w EXCEPT !.recon_timers[c] = t]
    BY <1>1, <2>2 DEF restart, ReconnectAt
  <2>5. /\ SameSockets(w, v) /\ v.errors = w.errors
        /\ v.recon_timers = [w.recon_timers EXCEPT ![c] = t]
    BY <2>3, <2>4, ReconStep DEF Retimed
  <2> QED BY <1>1, <2>2, <2>5
<1>2. CASE ~(r.wait > 0)
  BY <1>2 DEF restart
<1> QED BY <1>1, <1>2

LEMMA RestartSound ==
  ASSUME LoopTyped, NEW w, Sound(w), NEW c \in Conns, NEW r, r.wait \in Nat,
         NEW v \in restart(c, r, w)
  PROVE  /\ Sound(v) /\ v.cnx = w.cnx
         /\ \A f \in w.open : f \in v.open /\ v.events[f] = w.events[f]
<1>1. w \in Worlds
  BY DEF Sound
<1>2. CASE SameSockets(w, v)
  BY <1>2, SameSound DEF SameSockets
<1>3. CASE v \in quic_connect_socket(c, w)
  <2>1. Sound(v)
    BY <1>3, ConnectSound
  <2>2. CASE Fails(c, w, v)
    BY <2>1, <2>2 DEF Fails
  <2>3. ASSUME NEW g \in Fds, OpensSocket(c, w, g, v)
        PROVE  /\ v.cnx = w.cnx
               /\ \A f \in w.open : f \in v.open /\ v.events[f] = w.events[f]
    <3>1. Elsewhere(g, w, v)
      BY <1>1, <2>3, OpensAt
    <3>2. w.open \subseteq Fds /\ g \notin w.open /\ v.open = w.open \cup {g} /\ v.cnx = w.cnx
      BY <1>1, <2>3, WorldFields DEF OpensSocket
    <3> QED BY <3>1, <3>2 DEF Elsewhere
  <2> QED BY <1>1, <1>3, <2>1, <2>2, <2>3, ConnectShape
<1> QED BY <1>1, <1>2, <1>3, RestartShape

-----------------------------------------------------------------------------
(* The state of the thread.                                                    *)

LEMMA WorldIs ==
  /\ World.events = events /\ World.open = open /\ World.cnx = cnx
  /\ World.owner = owner /\ World.ae = ae /\ World.write_timers = write_timers
  /\ World.recon_timers = recon_timers /\ World.errors = errors
  BY DEF World

LEMMA BecomesIs ==
  ASSUME NEW w \in Worlds, Becomes(w) PROVE World' = w
<1>1. w = [events |-> w.events, open |-> w.open, cnx |-> w.cnx, owner |-> w.owner,
           ae |-> w.ae, write_timers |-> w.write_timers,
           recon_timers |-> w.recon_timers, errors |-> w.errors]
  BY DEF Worlds
<1> QED BY <1>1 DEF Becomes, World

LEMMA BecomesSound ==
  ASSUME NEW w, Sound(w), Becomes(w) PROVE Sound(World')
  BY BecomesIs DEF Sound

\* A handler runs on an open socket, for the connection that owns it.
LEMMA FiresOpen ==
  ASSUME Sound(World), NEW f \in Fds, NEW proc, Fires(f, proc)
  PROVE  f \in open /\ Client(f) \in Conns /\ owner[f] = Client(f)
<1>1. SoundAt(World, f)
  BY DEF Sound
<1> QED BY <1>1, WorldIs DEF SoundAt, Fires, Client

LEMMA StageSound ==
  ASSUME NEW w, Sound(w), NEW f \in Fds, NEW s \in Stages
  PROVE  Sound([w EXCEPT !.cnx[f] = s])
<1>1. w \in Worlds /\ SoundAt(w, f)
  BY DEF Sound
<1>2. PICK v : v = [w EXCEPT !.cnx[f] = s]
  OBVIOUS
<1>3. Staged(f, s, w, v)
  BY <1>1, <1>2, StageStep
<1> QED BY <1>1, <1>2, <1>3, StepSound DEF Staged, SoundAt

LEMMA SleepSound ==
  ASSUME LoopTyped, NEW w, Sound(w), NEW f \in Fds, NEW delay \in Delays
  PROVE  Sound(Sleep(f, delay, w))
<1>1. w \in Worlds
  BY DEF Sound
<1>2. PICK v : v = Sleep(f, delay, w)
  OBVIOUS
<1>3. Sleeps(f, w, v)
  BY <1>1, <1>2, SleepStep
<1>4. w.write_timers[f] \in Seq(Nat)
  BY <1>1, WorldFields
<1>5. PICK s \in Seq(Nat), t \in Seq(Nat) : s = w.write_timers[f] /\ t = v.write_timers[f]
  BY <1>3, <1>4 DEF Sleeps
<1>6. t # <<>>
  BY <1>3, <1>5 DEF Sleeps
<1> QED BY <1>2, <1>3, <1>5, <1>6, StepSound DEF Sleeps

LEMMA WithoutReconSound ==
  ASSUME NEW w, Sound(w), NEW c \in Conns, NEW i \in DOMAIN w.recon_timers[c]
  PROVE  /\ Sound(WithoutRecon(c, i, w))
         /\ Retimed(c, RemoveAt(w.recon_timers[c], i), w, WithoutRecon(c, i, w))
<1>1. w \in Worlds /\ w.recon_timers[c] \in Seq(Nat)
  BY WorldFields DEF Sound
<1>2. PICK s \in Seq(Nat) : s = w.recon_timers[c]
  BY <1>1
<1>3. PICK t : t = RemoveAt(s, i)
  OBVIOUS
<1>4. t \in Seq(Nat)
  BY <1>2, <1>3, RemoveAtType
<1>5. WithoutRecon(c, i, w) = [w EXCEPT !.recon_timers[c] = t]
  BY <1>2, <1>3 DEF WithoutRecon
<1>6. Retimed(c, t, w, WithoutRecon(c, i, w))
  BY <1>1, <1>4, <1>5, ReconStep
<1> QED BY <1>2, <1>3, <1>6, SameSound DEF Retimed

LEMMA InitialConnectSound ==
  ASSUME Sound(World), NEW c \in Conns, delayed_initial_connect(c) PROVE Sound(World')
<1>1. PICK w \in quic_connect_socket(c, World) : Becomes(w)
  BY DEF delayed_initial_connect
<1> QED BY <1>1, ConnectSound, BecomesSound

LEMMA ReconSound ==
  ASSUME Sound(World), NEW c \in Conns, NEW i, delay_recon(c, i) PROVE Sound(World')
<1>1. PICK w \in quic_connect_socket(c, WithoutRecon(c, i, World)) : Becomes(w)
  BY DEF delay_recon
<1>2. i \in DOMAIN World.recon_timers[c]
  BY WorldIs DEF delay_recon
<1>3. Sound(WithoutRecon(c, i, World))
  BY <1>2, WithoutReconSound
<1> QED BY <1>1, <1>3, ConnectSound, BecomesSound

LEMMA WriteRequestTimerSound ==
  ASSUME Sound(World), NEW f \in Fds, NEW i, write_request(f, i) PROVE Sound(World')
<1>1. i \in DOMAIN World.write_timers[f] /\ World \in Worlds /\ SoundAt(World, f)
  BY WorldIs DEF write_request, Sound
<1>2. PICK w : w = WithoutTimer(f, i, World)
  OBVIOUS
<1>3. Sound(w) /\ w.events = events /\ w.open = open
  BY <1>1, <1>2, WorldIs, WithoutTimerSound, WithoutTimerStep DEF Removed, Steps
<1>4. f \in w.open => owner[f] = w.events[f].clientData
  BY <1>1, <1>3, WorldIs DEF SoundAt
<1>5. Sound(AwaitWritable(f, owner[f], w))
  BY <1>3, <1>4, AwaitSound
<1> QED BY <1>2, <1>5, BecomesSound DEF write_request

\* The first packet: the callbacks of the connection take over.
Connects(f, w, v) ==
  /\ Steps(f, w, v)
  /\ v.ae = w.ae /\ v.write_timers = w.write_timers
  /\ v.cnx[f] = "handshake" /\ W \in v.events[f].mask
  /\ v.events[f].rfileProc = "quic_readable"
  /\ v.events[f].wfileProc = "quic_writeable"

LEMMA ConnectedStep ==
  ASSUME Sound(World), NEW f \in Fds, quic_socket_connected(f)
  PROVE  Connects(f, World, World')
<1>1. f \in open /\ Client(f) \in Conns
  BY FiresOpen DEF quic_socket_connected
<1>2. /\ World \in Worlds /\ events \in [Fds -> Entry] /\ cnx \in [Fds -> Stages]
      /\ R \in events[f].mask
  BY <1>1, WorldFields, WorldIs DEF Sound, SoundAt
<1>3. PICK old : old = events[f]
  OBVIOUS
<1>4. PICK e : e = [mask |-> (old.mask \cup {R}) \cup {W}, rfileProc |-> "quic_readable",
                    wfileProc |-> "quic_writeable", clientData |-> Client(f)]
  OBVIOUS
<1>5. R \notin {W} /\ W \notin {R}
  BY DEF R, W
<1>6. events' = [events EXCEPT ![f] = e]
  <2>1. PICK c : c = Client(f)
    OBVIOUS
  <2>2. PICK d : d = [mask |-> old.mask \cup {R}, rfileProc |-> "quic_readable",
                      wfileProc |-> old.wfileProc, clientData |-> c]
    OBVIOUS
  <2>3. aeCreateFileEvent(events, f, {R}, "quic_readable", c) = [events EXCEPT ![f] = d]
    BY <1>3, <1>5, <2>2 DEF aeCreateFileEvent
  <2>4. PICK ev : ev = [events EXCEPT ![f] = d]
    OBVIOUS
  <2>5. ev \in [Fds -> Entry] \/ ev[f] = d
    BY <1>2, <2>4
  <2>6. ev[f] = d
    BY <1>2, <2>4
  <2>7. aeCreateFileEvent(ev, f, {W}, "quic_writeable", c) = [ev EXCEPT ![f] = e]
    BY <1>4, <1>5, <2>1, <2>2, <2>6 DEF aeCreateFileEvent
  <2>8. [ev EXCEPT ![f] = e] = [events EXCEPT ![f] = e]
    BY <1>2, <2>4
  <2>9. events' = aeCreateFileEvent(aeCreateFileEvent(events, f, {R}, "quic_readable", c),
                                    f, {W}, "quic_writeable", c)
    BY <2>1 DEF quic_socket_connected
  <2> QED BY <2>3, <2>4, <2>7, <2>8, <2>9
<1>7. old \in Entry
  BY <1>2, <1>3
<1>8. "quic_readable" \in Procs /\ "quic_writeable" \in Procs /\ "handshake" \in Stages
  BY DEF Procs, Stages
<1>9. e \in Entry
  BY <1>1, <1>4, <1>7, <1>8 DEF Entry, FileEvents, Masks
<1>10. events' \in [Fds -> Entry] /\ events'[f] = e
       /\ \A g \in Fds \ {f} : events'[g] = events[g]
  BY <1>2, <1>6, <1>9
<1>11. cnx' = [cnx EXCEPT ![f] = "handshake"]
       /\ UNCHANGED <<open, owner, ae, write_timers, recon_timers, errors>>
  BY DEF quic_socket_connected
<1>12. cnx' \in [Fds -> Stages] /\ cnx'[f] = "handshake"
       /\ \A g \in Fds \ {f} : cnx'[g] = cnx[g]
  BY <1>2, <1>8, <1>11
<1>13. World' \in Worlds
  BY <1>2, <1>10, <1>11, <1>12 DEF World, Worlds
<1>14. Elsewhere(f, World, World')
  BY <1>10, <1>11, <1>12, WorldIs DEF Elsewhere, World
<1>15. /\ e.mask = (old.mask \cup {R}) \cup {W} /\ e.rfileProc = "quic_readable"
       /\ e.wfileProc = "quic_writeable" /\ e.clientData = events[f].clientData
  BY <1>4 DEF Client
<1>16. R \in events'[f].mask /\ W \in events'[f].mask
  BY <1>10, <1>15
<1> QED BY <1>2, <1>10, <1>11, <1>12, <1>13, <1>14, <1>15, <1>16 DEF Connects, Steps, World

LEMMA ConnectedSound ==
  ASSUME Sound(World), NEW f \in Fds, quic_socket_connected(f) PROVE Sound(World')
<1>1. f \in open /\ SoundAt(World, f) /\ Connects(f, World, World')
  BY FiresOpen, ConnectedStep DEF quic_socket_connected, Sound
<1>2. World.open = open
  BY WorldIs
<1>3. World'.ae[f] = "own" => World'.write_timers[f] # <<>>
  BY <1>1 DEF Connects, SoundAt
<1> QED BY <1>1, <1>2, <1>3, StepSound DEF Connects

LEMMA ReadPacketSound ==
  ASSUME Sound(World), NEW f \in Fds, ReadPacket(f) PROVE Sound(World')
<1>1. f \in open
  BY FiresOpen DEF ReadPacket
<1>2. PICK stage \in {cnx[f]} \cup {s \in {"ready"} : cnx[f] = "handshake"} :
        \E w \in WakeWriter(f, [World EXCEPT !.cnx[f] = stage]) : Becomes(w)
  BY DEF ReadPacket
<1>3. PICK w : w = [World EXCEPT !.cnx[f] = stage]
  OBVIOUS
<1>4. World \in Worlds /\ stage \in Stages
  BY <1>2, WorldFields, WorldIs DEF Sound, Stages
<1>5. Sound(w) /\ Staged(f, stage, World, w)
  BY <1>3, <1>4, StageSound, StageStep
<1>6. f \in w.open /\ w.events[f] = events[f]
  BY <1>1, <1>5, WorldIs DEF Staged, Steps
<1>7. PICK v \in WakeWriter(f, w) : Becomes(v)
  BY <1>2, <1>3
<1> QED BY <1>5, <1>6, <1>7, WakeSound, BecomesSound

LEMMA ReadFinSound ==
  ASSUME Sound(World), NEW f \in Fds, ReadFin(f) PROVE Sound(World')
<1>1. f \in open
  BY FiresOpen DEF ReadFin
<1>2. PICK w : w = [World EXCEPT !.cnx[f] = "closing"]
  OBVIOUS
<1>3. World \in Worlds /\ "closing" \in Stages
  BY DEF Sound, Stages
<1>4. Sound(w) /\ Staged(f, "closing", World, w)
  BY <1>2, <1>3, StageSound, StageStep
<1>5. f \in w.open /\ w.events[f] = events[f]
  BY <1>1, <1>4, WorldIs DEF Staged, Steps
<1>6. PICK v \in WakeWriter(f, w) : Becomes(v)
  BY <1>2 DEF ReadFin
<1> QED BY <1>4, <1>5, <1>6, WakeSound, BecomesSound

\* A connection of this descriptor ends, and the next one waits or connects.
LEMMA EndSound ==
  ASSUME LoopTyped, OpenTyped, PaceTyped, StatTyped, Sound(World), NEW f \in open,
         NEW stage \in Stages,
         NEW v \in restart(Client(f), usec_to_next_send(Client(f)),
                           [World EXCEPT !.cnx[f] = stage])
  PROVE  Sound(v) /\ f \in v.open /\ v.events[f] = events[f]
<1>1. World \in Worlds /\ SoundAt(World, f) /\ f \in Fds
  BY WorldFields, WorldIs DEF Sound
<1>2. PICK c : c = Client(f)
  OBVIOUS
<1>3. c \in Conns
  BY <1>1, <1>2, WorldIs DEF SoundAt, Client
<1>4. PICK w : w = [World EXCEPT !.cnx[f] = stage]
  OBVIOUS
<1>5. Sound(w) /\ Staged(f, stage, World, w)
  BY <1>1, <1>4, StageSound, StageStep
<1>6. f \in w.open /\ w.events[f] = events[f]
  BY <1>5, WorldIs DEF Staged, Steps
<1>7. PICK r : r = usec_to_next_send(c)
  OBVIOUS
<1>8. r.wait \in Nat
  BY <1>3, <1>7, WaitType
<1>9. v \in restart(c, r, w)
  BY <1>2, <1>4, <1>7
<1> QED BY <1>3, <1>5, <1>6, <1>8, <1>9, RestartSound

LEMMA ReadEndSound ==
  ASSUME LoopTyped, OpenTyped, PaceTyped, StatTyped, Sound(World), NEW f \in Fds, ReadEnd(f)
  PROVE  Sound(World')
<1>1. f \in open
  BY FiresOpen DEF ReadEnd
<1>2. PICK stage \in {"abandoned", "disconnected"} :
        \E v \in restart(Client(f), usec_to_next_send(Client(f)),
                         [World EXCEPT !.cnx[f] = stage]) :
          \E w \in WakeWriter(f, v) : Becomes(w)
  BY DEF ReadEnd
<1>3. PICK v \in restart(Client(f), usec_to_next_send(Client(f)),
                         [World EXCEPT !.cnx[f] = stage]) :
        \E w \in WakeWriter(f, v) : Becomes(w)
  BY <1>2
<1>4. stage \in Stages
  BY DEF Stages
<1>5. Sound(v) /\ f \in v.open /\ v.events[f] = events[f]
  BY <1>1, <1>3, <1>4, EndSound
<1> QED BY <1>3, <1>5, WakeSound, BecomesSound

LEMMA WriteRequestSound ==
  ASSUME Sound(World), NEW f \in Fds, WriteRequest(f)
  PROVE  Sound(World') /\ Staged(f, "sent", World, World')
<1>1. World \in Worlds /\ "sent" \in Stages
  BY DEF Sound, Stages
<1>2. PICK w : w = [World EXCEPT !.cnx[f] = "sent"]
  OBVIOUS
<1>3. Sound(w) /\ Staged(f, "sent", World, w)
  BY <1>1, <1>2, StageSound, StageStep
<1>4. World' = w
  BY <1>2 DEF WriteRequest, World
<1> QED BY <1>3, <1>4

LEMMA WriteNothingSound ==
  ASSUME LoopTyped, Sound(World), NEW f \in Fds, WriteNothing(f) PROVE Sound(World')
<1>1. PICK delay \in Delays : Becomes(Sleep(f, delay, World))
  BY DEF WriteNothing
<1> QED BY <1>1, SleepSound, BecomesSound

LEMMA WriteEndSound ==
  ASSUME LoopTyped, OpenTyped, PaceTyped, StatTyped, Sound(World), NEW f \in Fds, WriteEnd(f)
  PROVE  Sound(World')
<1>1. f \in open
  BY FiresOpen DEF WriteEnd
<1>2. PICK w \in restart(Client(f), usec_to_next_send(Client(f)),
                         [World EXCEPT !.cnx[f] = "disconnected"]) :
        Becomes(w) \/ \E delay \in Delays : Becomes(Sleep(f, delay, w))
  BY DEF WriteEnd
<1>3. "disconnected" \in Stages
  BY DEF Stages
<1>4. Sound(w)
  BY <1>1, <1>2, <1>3, EndSound
<1>5. ASSUME NEW delay \in Delays, Becomes(Sleep(f, delay, w)) PROVE Sound(World')
  BY <1>4, <1>5, SleepSound, BecomesSound
<1> QED BY <1>2, <1>4, <1>5, BecomesSound

\* The socket of a connection that is over.
Closes(f, w, v) ==
  /\ v \in Worlds /\ Elsewhere(f, w, v)
  /\ f \notin v.open /\ v.events[f].mask = {}
  /\ v.cnx[f] = "none"
  /\ v.ae = w.ae /\ v.write_timers = w.write_timers
  /\ v.recon_timers = w.recon_timers /\ v.errors = w.errors

LEMMA CloseStep ==
  ASSUME NEW w, Sound(w), NEW f \in Fds, NEW v, v = CloseSocket(f, w)
  PROVE  Closes(f, w, v) /\ Sound(v)
<1>1. /\ w \in Worlds /\ SoundAt(w, f) /\ w.open \in SUBSET Fds
      /\ w.events \in [Fds -> Entry] /\ w.cnx \in [Fds -> Stages]
  BY WorldFields DEF Sound
<1>2. PICK old \in Entry : old = w.events[f]
  BY <1>1
<1>3. PICK e : e = [old EXCEPT !.mask = @ \ {R, W}]
  OBVIOUS
<1>4. e \in Entry /\ e.mask = {}
  BY <1>3 DEF Entry, FileEvents, Masks
<1>5. PICK ev : ev = aeDeleteFileEvent(w.events, f, {R, W})
  OBVIOUS
<1>6. ev = [w.events EXCEPT ![f] = e]
  BY <1>2, <1>3, <1>5 DEF aeDeleteFileEvent
<1>7. ev \in [Fds -> Entry] /\ ev[f].mask = {} /\ \A g \in Fds \ {f} : ev[g] = w.events[g]
  BY <1>1, <1>4, <1>6
<1>8. PICK stage : stage = [w.cnx EXCEPT ![f] = "none"]
  OBVIOUS
<1>9. /\ stage \in [Fds -> Stages] /\ stage[f] = "none"
      /\ \A g \in Fds \ {f} : stage[g] = w.cnx[g]
  BY <1>1, <1>8 DEF Stages
<1>10. v = [w EXCEPT !.open = @ \ {f}, !.events = ev, !.cnx = stage]
  BY <1>5, <1>8 DEF CloseSocket
<1>11. /\ v \in Worlds /\ v.open = w.open \ {f} /\ v.events = ev /\ v.cnx = stage
       /\ v.owner = w.owner /\ v.ae = w.ae /\ v.write_timers = w.write_timers
       /\ v.recon_timers = w.recon_timers /\ v.errors = w.errors
  BY <1>1, <1>7, <1>9, <1>10 DEF Worlds
<1>12. Closes(f, w, v)
  BY <1>7, <1>9, <1>11 DEF Closes, Elsewhere
<1>13. SoundAt(v, f)
  BY <1>1, <1>12 DEF Closes, SoundAt
<1> QED BY <1>1, <1>12, <1>13, LocalSound DEF Closes

LEMMA WriteClosedSound ==
  ASSUME Sound(World), NEW f \in Fds, WriteClosed(f)
  PROVE  Sound(World') /\ Closes(f, World, World')
<1>1. PICK w : w = CloseSocket(f, World) /\ Becomes(w)
  BY DEF WriteClosed
<1>2. Closes(f, World, w) /\ Sound(w)
  BY <1>1, CloseStep
<1> QED BY <1>1, <1>2, BecomesIs DEF Sound

\* What is left after an error: nothing, or what the callback close restarts.
LEMMA WriteErrorSound ==
  ASSUME LoopTyped, OpenTyped, PaceTyped, StatTyped, Sound(World), NEW f \in Fds, WriteError(f)
  PROVE  Sound(World')
<1>1. PICK c : c = Client(f)
  OBVIOUS
<1>2. c \in Conns
  BY <1>1, FiresOpen DEF WriteError
<1>3. PICK w : w = CloseSocket(f, World)
  OBVIOUS
<1>4. Sound(w)
  BY <1>3, CloseStep
<1>5. CASE Becomes(w)
  BY <1>4, <1>5, BecomesSound
<1>6. ASSUME NEW v \in restart(c, usec_to_next_send(c), w), Becomes(v) PROVE Sound(World')
  <2>1. PICK r : r = usec_to_next_send(c)
    OBVIOUS
  <2>2. r.wait \in Nat
    BY <1>2, <2>1, WaitType
  <2>3. v \in restart(c, r, w)
    BY <1>6, <2>1
  <2>4. Sound(v)
    BY <1>2, <1>4, <2>2, <2>3, RestartSound
  <2> QED BY <1>6, <2>4, BecomesSound
<1> QED BY <1>1, <1>3, <1>5, <1>6 DEF WriteError

LEMMA OtherThreadSound ==
  ASSUME Sound(World), NEW f \in Fds, OtherThread(f) PROVE Sound(World')
<1>1. ae \in [Fds -> Ids] /\ "another" \in Ids /\ World \in Worlds
  BY WorldFields, WorldIs DEF Sound, Ids
<1>2. World' = [World EXCEPT !.ae = ae'] /\ ae' \in [Fds -> Ids]
  BY <1>1 DEF OtherThread, World
<1>3. World' \in Worlds
  BY <1>1, <1>2 DEF Worlds, World
<1>4. /\ World'.events = events /\ World'.open = open /\ World'.owner = owner
      /\ World'.write_timers = write_timers
      /\ \A g \in Fds : World'.ae[g] = "own" => ae[g] = "own"
  BY <1>1 DEF OtherThread, World
<1> QED BY <1>3, <1>4, WorldIs DEF Sound, SoundAt

-----------------------------------------------------------------------------
(* Types, and the sockets, whatever happens.                                   *)

Types ==
  /\ LoopTyped /\ OpenTyped /\ PaceTyped /\ MarkTyped /\ SendTyped /\ StatTyped
  /\ faults \in [Env -> Nat]

LEMMA TimerSound ==
  ASSUME Types, Sound(World), NEW c \in Conns, TimersOf(c)
  PROVE  Types' /\ Sound(World)'
<1>1. CASE delayed_initial_connect(c)
  <2>1. now \in Nat /\ -1 \in Nat \cup {NoTimer}
    BY DEF Types, LoopTyped, NoTimer
  <2>2. OpenTyped'
    BY <1>1, <2>1 DEF delayed_initial_connect, Opens, Types, OpenTyped, NoTimer
  <2>3. Sound(World')
    BY <1>1, InitialConnectSound
  <2> QED BY <1>1, <2>2, <2>3 DEF delayed_initial_connect, Types, LoopTyped,
         PaceTyped, MarkTyped, SendTyped, StatTyped, loopVars, paceVars, batchVars,
         markVars, statVars
<1>2. ASSUME NEW i, delay_recon(c, i) PROVE Types' /\ Sound(World)'
  <2>1. Sound(World')
    BY <1>2, ReconSound
  <2> QED BY <1>2, <2>1 DEF delay_recon, SocketFrame, Types, LoopTyped, OpenTyped,
         PaceTyped, MarkTyped, SendTyped, StatTyped, paceVars, batchVars,
         markVars, statVars
<1> QED BY <1>1, <1>2 DEF TimersOf

LEMMA FaultType ==
  ASSUME faults \in [Env -> Nat], NEW kind, Fault(kind) PROVE faults' \in [Env -> Nat]
  BY DEF Fault

LEMMA SocketTyped ==
  ASSUME Types, Sound(World), NEW f \in Fds,
         quic_socket_connected(f) \/ quic_readable(f) \/ quic_writeable(f)
  PROVE  Types'
<1>1. PICK c : c = Client(f)
  OBVIOUS
<1>2. c \in Conns
  BY <1>1, FiresOpen DEF quic_socket_connected, quic_readable, ReadPacket, ReadFin, ReadEnd,
         quic_writeable, WriteRequest, WriteNothing, WriteEnd, WriteClosed, WriteError
<1> USE DEF SocketFrame, Types, paceVars, batchVars, markVars, statVars
<1>3. CASE quic_socket_connected(f) \/ ReadPacket(f) \/ WriteNothing(f) \/ WriteClosed(f)
  BY <1>3 DEF quic_socket_connected, ReadPacket, WriteNothing, WriteClosed, LoopTyped,
       OpenTyped, PaceTyped, MarkTyped, SendTyped, StatTyped
<1>4. CASE ReadFin(f)
  <2>1. StatTyped' /\ stop_loop' \in BOOLEAN
    BY <1>1, <1>2, <1>4, StatsType DEF ReadFin
  <2>2. SendTyped'
    BY <1>1, <1>2, <1>4 DEF ReadFin, SendTyped, NoSend
  <2> QED BY <1>4, <2>1, <2>2 DEF ReadFin, NoSend, LoopTyped, OpenTyped, PaceTyped,
         MarkTyped
<1>5. CASE ReadEnd(f) \/ WriteEnd(f)
  <2>1. PaceTyped'
    BY <1>1, <1>2, <1>5, PacedType DEF ReadEnd, WriteEnd
  <2>2. faults' \in [Env -> Nat]
    BY <1>5, FaultType DEF ReadEnd, WriteEnd
  <2> QED BY <1>5, <2>1, <2>2 DEF ReadEnd, WriteEnd, LoopTyped, OpenTyped,
         MarkTyped, SendTyped, StatTyped
<1>6. ASSUME Prepares(c) PROVE MarkTyped' /\ SendTyped'
  <2>1. MarkTyped'
    BY <1>2, <1>6, MarkType DEF Prepares
  <2> QED BY <1>2, <1>6, <2>1 DEF Prepares, SendTyped, LoopTyped
<1>7. CASE WriteRequest(f)
  <2>1. MarkTyped' /\ SendTyped'
    BY <1>1, <1>6, <1>7 DEF WriteRequest
  <2> QED BY <1>7, <2>1 DEF WriteRequest, LoopTyped, OpenTyped, PaceTyped, StatTyped
<1>8. CASE WriteError(f)
  <2>1. MarkTyped' /\ SendTyped'
    BY <1>1, <1>6, <1>8 DEF WriteError, MarkTyped, SendTyped
  <2>2. PaceTyped'
    BY <1>1, <1>2, <1>8, PacedType DEF WriteError, PaceTyped
  <2>3. faults' \in [Env -> Nat]
    BY <1>8, FaultType DEF WriteError
  <2> QED BY <1>8, <2>1, <2>2, <2>3 DEF WriteError, LoopTyped, OpenTyped, StatTyped
<1> QED BY <1>3, <1>4, <1>5, <1>7, <1>8 DEF quic_readable, quic_writeable

LEMMA SocketSound ==
  ASSUME Types, Sound(World), NEW f \in Fds,
         quic_socket_connected(f) \/ quic_readable(f) \/ quic_writeable(f)
  PROVE  Sound(World)'
<1>1. CASE quic_socket_connected(f)
  BY <1>1, ConnectedSound
<1>2. CASE quic_readable(f)
  BY <1>2, ReadPacketSound, ReadFinSound, ReadEndSound DEF quic_readable, Types
<1>3. CASE quic_writeable(f)
  BY <1>3, WriteRequestSound, WriteNothingSound, WriteEndSound, WriteClosedSound,
     WriteErrorSound DEF quic_writeable, Types
<1> QED BY <1>1, <1>2, <1>3

LEMMA SameWorld ==
  ASSUME UNCHANGED sockVars PROVE World' = World
  BY DEF sockVars, World

LEMMA SoundNext ==
  ASSUME Types, Sound(World), [Next]_vars PROVE Types' /\ Sound(World)'
<1>1. CASE check_timeouts
  <2>1. errors \in Errors
    BY WorldFields, WorldIs DEF Sound
  <2>2. check_timer' \in Nat /\ stop_loop' \in BOOLEAN /\ errors' \in Errors
    BY <1>1, <2>1, ChecksTimeoutsType DEF check_timeouts, Types
  <2>3. World' = [World EXCEPT !.errors = errors']
    BY <1>1 DEF check_timeouts, World
  <2>4. SameSockets(World, World')
    BY <2>2, <2>3 DEF SameSockets, Sound, Worlds
  <2> QED BY <1>1, <2>2, <2>4, SameSound DEF check_timeouts, Types, LoopTyped,
         OpenTyped, PaceTyped, MarkTyped, SendTyped, StatTyped, paceVars, batchVars,
         markVars, statVars
<1>2. ASSUME NEW c \in Conns, TimersOf(c) PROVE Types' /\ Sound(World)'
  BY <1>2, TimerSound
<1>3. ASSUME NEW f \in Fds,
             quic_socket_connected(f) \/ quic_readable(f) \/ quic_writeable(f)
      PROVE  Types' /\ Sound(World)'
  BY <1>3, SocketSound, SocketTyped
<1>4. ASSUME NEW f \in Fds, NEW i, write_request(f, i) PROVE Types' /\ Sound(World)'
  <2>1. Sound(World')
    BY <1>4, WriteRequestTimerSound
  <2> QED BY <1>4, <2>1 DEF write_request, SocketFrame, Types, LoopTyped, OpenTyped,
         PaceTyped, MarkTyped, SendTyped, StatTyped, paceVars, batchVars,
         markVars, statVars
<1>5. ASSUME NEW f \in Fds, OtherThread(f) PROVE Types' /\ Sound(World)'
  <2>1. Sound(World') /\ faults' \in [Env -> Nat]
    BY <1>5, OtherThreadSound, FaultType DEF OtherThread, Types
  <2> QED BY <1>5, <2>1 DEF OtherThread, Types, LoopTyped, OpenTyped, PaceTyped,
         MarkTyped, SendTyped, StatTyped, loopVars, paceVars, batchVars, markVars,
         statVars
<1>6. CASE handler \/ LeaveLoop \/ Tick \/ Terminated \/ UNCHANGED vars
  <2>1. UNCHANGED sockVars
    BY <1>6 DEF handler, LeaveLoop, Tick, Terminated, vars
  <2>2. Sound(World')
    BY <2>1, SameWorld
  <2>3. now' \in Nat /\ check_timer' \in Nat
        /\ running' \in BOOLEAN /\ stop_loop' \in BOOLEAN /\ stop' \in BOOLEAN
    <3> USE DEF Types, LoopTyped, loopVars
    <3>1. CASE handler \/ LeaveLoop
      BY <3>1 DEF handler, Interrupts, LeaveLoop, Leaves
    <3>2. CASE Tick
      BY <3>2 DEF Tick, Ticks
    <3>3. CASE Terminated \/ UNCHANGED vars
      BY <3>3 DEF Terminated, vars
    <3> QED BY <1>6, <3>1, <3>2, <3>3
  <2> QED BY <1>6, <2>2, <2>3 DEF handler, LeaveLoop, Tick, Terminated, vars, Types,
         LoopTyped, OpenTyped, PaceTyped, MarkTyped, SendTyped, StatTyped,
         loopVars, paceVars, batchVars, markVars, statVars
<1> QED BY <1>1, <1>2, <1>3, <1>4, <1>5, <1>6 DEF Next

LEMMA SoundInit == Init => Types /\ Sound(World)
<1> SUFFICES ASSUME Init PROVE Types /\ Sound(World)
  OBVIOUS
<1>1. Types /\ errors \in Errors
  BY ThreadInitTyped DEF Init, Types
<1>2. [mask |-> {}, rfileProc |-> "none", wfileProc |-> "none", clientData |-> NoConn] \in Entry
  BY DEF Entry, FileEvents, Masks, Procs
<1>3. World \in Worlds
  BY <1>1, <1>2 DEF Init, World, Worlds, Stages, Ids
<1> QED BY <1>1, <1>3, WorldIs DEF Sound, SoundAt, Init

LEMMA Soundness == Spec => [](Types /\ Sound(World))
  BY SoundInit, SoundNext, PTL DEF Spec

\* Every variable keeps its type, and an id of this thread in fd_to_cnx is never
\* left without a timer, also when another thread deletes timers by its ids.
THEOREM QuicTypeCorrect == Spec => []TypeOK
<1>1. Types /\ Sound(World) => TypeOK
  <2> SUFFICES ASSUME Types, Sound(World) PROVE TypeOK
    OBVIOUS
  <2>1. /\ World \in Worlds
        /\ \A f \in Fds : SoundAt(World, f)
    BY DEF Sound
  <2>2. /\ events \in [Fds -> Entry] /\ open \in SUBSET Fds /\ cnx \in [Fds -> Stages]
        /\ owner \in [Fds -> Conns \cup {NoConn}] /\ ae \in [Fds -> Ids]
        /\ write_timers \in [Fds -> Seq(Nat)] /\ recon_timers \in [Conns -> Seq(Nat)]
        /\ errors \in Errors
    BY <2>1, WorldFields, WorldIs
  <2>3. \A f \in Fds : ae[f] = "own" => write_timers[f] # <<>>
    BY <2>1, WorldIs DEF SoundAt
  <2>4. ThreadTypeOK
    BY <2>2, ThreadTypeParts DEF Types
  <2> QED BY <2>2, <2>3, <2>4 DEF TypeOK, Types, Entry, Ids
<1> QED BY <1>1, Soundness, PTL

\* No socket that is open is left without an event and no event on a closed one,
\* whatever fails and whoever uses fd_to_cnx.
THEOREM QuicSocketsAreWatched == Spec => []SocketsWatched
<1>1. Sound(World) => SocketsWatched
  BY WorldIs DEF Sound, SoundAt, SocketsWatched
<1> QED BY <1>1, Soundness, PTL

-----------------------------------------------------------------------------
(* What each connection does, on which socket.                                 *)

IsFlow(w, c, f) ==
  f \in w.open /\ w.events[f].clientData = c /\ w.cnx[f] # "disconnected"

Idle(w, c) == w.recon_timers[c] = <<>> /\ \A f \in Fds : ~IsFlow(w, c, f)

Waits(w, c) == Len(w.recon_timers[c]) = 1 /\ \A f \in Fds : ~IsFlow(w, c, f)

Runs(w, c, f) == w.recon_timers[c] = <<>> /\ \A g \in Fds : IsFlow(w, c, g) <=> g = f

\* The request that a socket is to make, or a timer is for, is owed by then.
TimelyAt(w, c, owed, clock) ==
  /\ \A f \in Fds : IsFlow(w, c, f) /\ w.cnx[f] \in {"none", "handshake", "ready"}
       => owed <= clock + Early
  /\ w.recon_timers[c] # <<>> => owed <= w.recon_timers[c][1] * Msec + Early

\* A connection has nothing under way, one timer, or one socket.
Coursed(w, c, owed, clock) ==
  /\ Idle(w, c) \/ Waits(w, c) \/ \E f \in Fds : Runs(w, c, f)
  /\ TimelyAt(w, c, owed, clock)

SameFor(c, w, v) ==
  /\ \A f \in Fds : IsFlow(v, c, f) <=> IsFlow(w, c, f)
  /\ \A f \in Fds : IsFlow(w, c, f) => v.cnx[f] = w.cnx[f]
  /\ v.recon_timers[c] = w.recon_timers[c]

LEMMA SameCourse ==
  ASSUME NEW w, NEW v, NEW c, NEW owed, NEW clock, SameFor(c, w, v)
  PROVE  /\ Coursed(w, c, owed, clock) => Coursed(v, c, owed, clock)
         /\ Idle(v, c) <=> Idle(w, c)
  BY DEF SameFor, Coursed, Idle, Waits, Runs, TimelyAt

LEMMA SameTwice ==
  ASSUME NEW u, NEW v, NEW w, NEW c, SameFor(c, u, v), SameFor(c, v, w)
  PROVE  SameFor(c, u, w)
  BY DEF SameFor

LEMMA StepSame ==
  ASSUME NEW w, NEW v, NEW f \in Fds, Steps(f, w, v), v.cnx[f] = w.cnx[f], NEW c
  PROVE  SameFor(c, w, v)
  BY DEF Steps, Elsewhere, SameFor, IsFlow

LEMMA SocketsSame ==
  ASSUME NEW w, NEW v, SameSockets(w, v), NEW c, v.recon_timers[c] = w.recon_timers[c]
  PROVE  SameFor(c, w, v)
  BY DEF SameSockets, SameFor, IsFlow

\* A stage concerns the connection of the socket alone.
LEMMA StageOthers ==
  ASSUME NEW w, NEW v, NEW f \in Fds, Steps(f, w, v), NEW d, w.events[f].clientData # d
  PROVE  SameFor(d, w, v)
  BY DEF Steps, Elsewhere, SameFor, IsFlow

LEMMA StageRuns ==
  ASSUME NEW w, NEW v, NEW f \in Fds, Steps(f, w, v), NEW c, Runs(w, c, f),
         v.cnx[f] # "disconnected"
  PROVE  Runs(v, c, f)
  BY DEF Steps, Elsewhere, Runs, IsFlow

LEMMA StageEnds ==
  ASSUME NEW w, NEW v, NEW f \in Fds, Steps(f, w, v), NEW c, Runs(w, c, f),
         v.cnx[f] = "disconnected"
  PROVE  Idle(v, c)
  BY DEF Steps, Elsewhere, Runs, Idle, IsFlow

LEMMA CloseSame ==
  ASSUME NEW w, NEW v, NEW f \in Fds, Closes(f, w, v), w.cnx[f] = "disconnected", NEW c
  PROVE  SameFor(c, w, v)
  BY DEF Closes, Elsewhere, SameFor, IsFlow

\* A socket that is closed under its connection leaves the connection with nothing.
LEMMA CloseOthers ==
  ASSUME NEW w, NEW v, NEW f \in Fds, Closes(f, w, v), NEW d, w.events[f].clientData # d
  PROVE  SameFor(d, w, v)
  BY DEF Closes, Elsewhere, SameFor, IsFlow

LEMMA CloseEnds ==
  ASSUME NEW w, NEW v, NEW f \in Fds, Closes(f, w, v), NEW c, Runs(w, c, f)
  PROVE  Idle(v, c)
  BY DEF Closes, Elsewhere, Runs, Idle, IsFlow

\* A connection begins its next course, and nothing else does; or its connect
\* fails, and is counted.
Begins(c, w, v, owed, clock) ==
  /\ Sound(v) /\ Neat(v) /\ v.cnx = w.cnx
  /\ Coursed(v, c, owed, clock)
  /\ Idle(v, c) => v.errors.connect = w.errors.connect + 1
  /\ ~Idle(v, c) => v.errors.connect = w.errors.connect
  /\ \A d \in Conns \ {c} : SameFor(d, w, v)
  /\ \A f \in w.open : f \in v.open /\ v.events[f] = w.events[f]

LEMMA ConnectBegins ==
  ASSUME NEW w, Sound(w), Neat(w), NEW c \in Conns, Idle(w, c),
         NEW owed, NEW clock, owed <= clock + Early,
         NEW v \in quic_connect_socket(c, w)
  PROVE  Begins(c, w, v, owed, clock)
<1>1. w \in Worlds /\ Sound(v) /\ Neat(v)
  BY ConnectSound, ConnectNeat DEF Sound
<1>2. CASE Fails(c, w, v)
  <2>1. SameSockets(w, v) /\ v.recon_timers = w.recon_timers
    BY <1>2 DEF Fails, SameSockets
  <2>2. \A d \in Conns : SameFor(d, w, v)
    BY <2>1, SocketsSame
  <2>3. Idle(v, c)
    BY <2>2, SameCourse
  <2>4. Coursed(v, c, owed, clock)
    BY <2>3 DEF Coursed, Idle, TimelyAt
  <2>5. v.errors.connect = w.errors.connect + 1
    BY <1>2 DEF Fails
  <2> QED BY <1>1, <2>1, <2>2, <2>3, <2>4, <2>5 DEF Begins, SameSockets
<1>3. ASSUME NEW f \in Fds, OpensSocket(c, w, f, v)
      PROVE  Begins(c, w, v, owed, clock)
  <2>1. OpenedAt(c, w, f, v) /\ Elsewhere(f, w, v)
    BY <1>1, <1>3, OpensAt
  <2>2. /\ f \notin w.open /\ w.open \subseteq Fds /\ v.cnx = w.cnx
        /\ v.recon_timers = w.recon_timers /\ v.errors = w.errors
    BY <1>1, <1>3, WorldFields DEF OpensSocket
  <2>3. w.cnx[f] = "none"
    BY <2>2 DEF Neat, NeatAt
  <2>4. \A g \in Fds : IsFlow(v, c, g) <=> g = f
    BY <2>1, <2>2, <2>3 DEF IsFlow, Elsewhere, OpenedAt, Idle
  <2>5. Runs(v, c, f)
    BY <2>2, <2>4 DEF Runs, Idle
  <2>6. \A d \in Conns \ {c} : SameFor(d, w, v)
    BY <2>1, <2>2 DEF SameFor, IsFlow, Elsewhere, OpenedAt
  <2>7. Coursed(v, c, owed, clock)
    BY <2>5 DEF Coursed, Runs, TimelyAt
  <2>8. ~Idle(v, c)
    BY <2>5 DEF Idle, Runs
  <2>9. \A g \in w.open : g \in v.open /\ v.events[g] = w.events[g]
    BY <2>1, <2>2 DEF Elsewhere
  <2> QED BY <1>1, <2>2, <2>6, <2>7, <2>8, <2>9 DEF Begins
<1> QED BY <1>1, <1>2, <1>3, ConnectShape

\* The wait is rounded to milliseconds, and Early covers what that takes away.
LEMMA DelayOwed ==
  ASSUME LoopTyped, NEW wait \in Nat, NEW owed \in Nat, owed <= now + wait
  PROVE  owed <= Delay(wait) * Msec + Early
<1> DEFINE a == now \div Msec
           b == wait \div Msec
<1>1. now \in Nat /\ Msec \in Nat /\ Msec > 0 /\ Early \in Nat /\ Early >= Msec - 2
  BY ThreadAssumption, QuicAssumption DEF LoopTyped
<1>2. /\ a \in Int /\ now % Msec \in 0..(Msec - 1) /\ now = a * Msec + (now % Msec)
  BY <1>1, DivMod
<1>3. /\ b \in Int /\ wait % Msec \in 0..(Msec - 1) /\ wait = b * Msec + (wait % Msec)
  BY <1>1, DivMod
<1>4. Delay(wait) = a + (b + 1)
  BY DEF Delay, DueMsec, MsecToWait
<1> HIDE DEF a, b
<1>5. (a + (b + 1)) * Msec = a * Msec + (b * Msec + Msec)
  BY <1>1, <1>2, <1>3
<1>6. a * Msec \in Int /\ b * Msec \in Int
  BY <1>1, <1>2, <1>3
<1> QED BY <1>1, <1>2, <1>3, <1>4, <1>5, <1>6

LEMMA RestartBegins ==
  ASSUME LoopTyped, NEW w, Sound(w), Neat(w), NEW c \in Conns, Idle(w, c),
         NEW r, r.wait \in Nat, NEW owed \in Nat, owed <= now + r.wait,
         NEW v \in restart(c, r, w)
  PROVE  Begins(c, w, v, owed, now)
<1>1. w \in Worlds /\ now \in Nat /\ Early \in Nat
  BY ThreadAssumption DEF Sound, LoopTyped
<1>2. CASE r.wait = 0 /\ v \in quic_connect_socket(c, w)
  <2>1. owed <= now + Early
    BY <1>1, <1>2
  <2> QED BY <1>2, <2>1, ConnectBegins
<1>3. CASE /\ SameSockets(w, v) /\ v.errors = w.errors
           /\ v.recon_timers =
                [w.recon_timers EXCEPT ![c] = Append(w.recon_timers[c], Delay(r.wait))]
  <2>1. w.recon_timers \in [Conns -> Seq(Nat)] /\ w.recon_timers[c] = <<>>
    BY <1>1, WorldFields DEF Idle
  <2>2. PICK due \in Nat : due = Delay(r.wait)
    BY DelayType
  <2>3. Append(w.recon_timers[c], due) = <<due>>
    BY <2>1
  <2>4. v.recon_timers[c] = <<due>>
        /\ \A d \in Conns \ {c} : v.recon_timers[d] = w.recon_timers[d]
    BY <1>3, <2>1, <2>2, <2>3
  <2>5. \A f \in Fds : ~IsFlow(v, c, f)
    BY <1>3 DEF SameSockets, IsFlow, Idle
  <2>6. owed <= due * Msec + Early
    BY <2>2, DelayOwed
  <2>7. Len(v.recon_timers[c]) = 1 /\ v.recon_timers[c] # <<>> /\ v.recon_timers[c][1] = due
    BY <2>4
  <2>8. Coursed(v, c, owed, now) /\ ~Idle(v, c)
    BY <2>5, <2>6, <2>7 DEF Coursed, Waits, Idle, TimelyAt
  <2>9. \A d \in Conns \ {c} : SameFor(d, w, v)
    BY <1>3, <2>4, SocketsSame
  <2> QED BY <1>3, <2>8, <2>9, SameSound, SameNeat DEF Begins, SameSockets
<1> QED BY <1>1, <1>2, <1>3, RestartShape

-----------------------------------------------------------------------------
(* Writers that wait, sleep and wake, while fd_to_cnx is this thread's own.    *)

LEMMA LiveNeat ==
  ASSUME NEW w, Neat(w), NEW f \in Fds, NEW v, Steps(f, w, v), f \in w.open,
         Live(v, f), v.ae[f] # "another"
  PROVE  Neat(v)
<1>1. NeatAt(v, f)
  BY DEF Steps, NeatAt
<1> QED BY <1>1, LocalNeat DEF Steps

LEMMA StageNeat ==
  ASSUME NEW w, Neat(w), NEW f \in Fds, f \in w.open, Live(w, f),
         NEW s, s \notin {"none", "abandoned"}, NEW v, Staged(f, s, w, v)
  PROVE  Neat(v) /\ Live(v, f)
<1>1. Live(v, f) /\ v.ae[f] # "another"
  BY DEF Staged, Live, Neat, NeatAt
<1> QED BY <1>1, LiveNeat DEF Staged

LEMMA SleepNeat ==
  ASSUME NEW w, Neat(w), NEW f \in Fds, f \in w.open, Live(w, f), W \in w.events[f].mask,
         NEW v, Sleeps(f, w, v)
  PROVE  Neat(v)
<1>1. w.write_timers[f] = <<>>
  BY DEF Live
<1>2. Len(v.write_timers[f]) = 1
  BY <1>1 DEF Sleeps
<1>3. Live(v, f) /\ v.ae[f] # "another"
  BY <1>2 DEF Sleeps, Live
<1> QED BY <1>3, LiveNeat DEF Sleeps

LEMMA WakeNeat ==
  ASSUME NEW w, Sound(w), Neat(w), NEW f \in w.open, Live(w, f), w.events[f] = events[f],
         NEW v \in WakeWriter(f, w)
  PROVE  Steps(f, w, v) /\ v.cnx = w.cnx /\ Sound(v) /\ Neat(v)
<1>1. /\ w \in Worlds /\ f \in Fds /\ SoundAt(w, f) /\ Sound(v)
      /\ w.ae[f] \in {"none", "own", "run"} /\ w.write_timers[f] \in Seq(Nat)
  BY WorldFields, WakeSound DEF Sound, Neat, NeatAt, Ids
<1>2. CASE w.ae[f] = "none"
  <2>1. v = w
    BY <1>2 DEF WakeWriter
  <2> QED BY <1>1, <2>1 DEF Steps, Elsewhere
<1>3. CASE w.ae[f] # "none"
  <2>1. PICK u \in DeleteTimer(f, w) :
          v = AwaitWritable(f, events[f].clientData, [u EXCEPT !.ae[f] = "none"])
    BY <1>3 DEF WakeWriter
  <2>2. /\ Steps(f, w, u) /\ u.cnx = w.cnx /\ u.events = w.events
        /\ u.write_timers[f] = <<>>
    <3>1. CASE w.ae[f] = "own"
      <4>1. PICK s \in Seq(Nat) : s = w.write_timers[f]
        BY <1>1
      <4>2. s # <<>> /\ Len(s) = 1
        BY <1>1, <3>1, <4>1 DEF SoundAt, Live
      <4>3. u = WithoutTimer(f, Len(s), w) /\ Len(s) \in DOMAIN w.write_timers[f]
        BY <3>1, <4>1, <4>2 DEF DeleteTimer
      <4>4. Removed(f, Len(s), w, u)
        BY <1>1, <4>3, WithoutTimerStep
      <4>5. PICK t \in Seq(Nat) : t = u.write_timers[f]
        BY <4>4 DEF Removed
      <4>6. Len(t) = 0
        BY <4>1, <4>2, <4>4, <4>5 DEF Removed
      <4>7. t = <<>>
        BY <4>6
      <4> QED BY <4>4, <4>5, <4>7 DEF Removed
    <3>2. CASE w.ae[f] = "run"
      <4>1. u = w
        BY <3>2 DEF DeleteTimer
      <4>2. w.write_timers[f] = <<>>
        BY <3>2 DEF Live
      <4> QED BY <1>1, <4>1, <4>2 DEF Steps, Elsewhere
    <3> QED BY <1>1, <1>3, <3>1, <3>2
  <2>3. PICK t : t = [u EXCEPT !.ae[f] = "none"]
    OBVIOUS
  <2>4. Forgets(f, u, t)
    BY <1>1, <2>2, <2>3, ForgetStep DEF Steps
  <2>5. PICK c : c = events[f].clientData
    OBVIOUS
  <2>6. c \in Conns /\ t.events[f].clientData = c /\ f \in t.open /\ t \in Worlds
    BY <1>1, <2>2, <2>4, <2>5 DEF SoundAt, Steps, Forgets
  <2>7. v = AwaitWritable(f, c, t)
    BY <2>1, <2>3, <2>5
  <2>8. Awaits(f, t, v)
    BY <1>1, <2>6, <2>7, AwaitStep
  <2>9. Steps(f, w, t)
    BY <1>1, <2>2, <2>4, StepsCompose DEF Forgets
  <2>10. Steps(f, w, v)
    BY <1>1, <2>8, <2>9, StepsCompose DEF Awaits
  <2>11. Live(v, f) /\ v.ae[f] = "none" /\ v.cnx = w.cnx
    BY <2>2, <2>4, <2>8 DEF Live, Awaits, Forgets
  <2> QED BY <1>1, <2>10, <2>11, LiveNeat
<1> QED BY <1>2, <1>3

\* Which callback a descriptor has tells what its connection has come to.
LEMMA FiresLive ==
  ASSUME Sound(World), Neat(World), NEW f \in Fds,
         NEW proc \in {"quic_readable", "quic_writeable"}, Fires(f, proc)
  PROVE  /\ f \in open /\ Live(World, f)
         /\ proc = "quic_writeable" => W \in events[f].mask
<1>1. f \in open /\ NeatAt(World, f)
  BY FiresOpen DEF Neat
<1>2. World.open = open /\ World.events = events
  BY WorldIs
<1>3. Live(World, f)
  BY <1>1, <1>2 DEF NeatAt, Fresh, Fires
<1> QED BY <1>1, <1>2, <1>3 DEF Live, Fires

LEMMA FiresFresh ==
  ASSUME Sound(World), Neat(World), NEW f \in Fds, Fires(f, "quic_socket_connected")
  PROVE  f \in open /\ Fresh(World, f)
<1>1. f \in open /\ NeatAt(World, f)
  BY FiresOpen DEF Neat
<1>2. World.open = open /\ World.events = events
  BY WorldIs
<1> QED BY <1>1, <1>2 DEF NeatAt, Live, Fires

-----------------------------------------------------------------------------
(* The connections, step by step.                                              *)

\* What becomes of one connection.
Course(c) ==
  /\ Coursed(World, c, Schedule!Owed(c, complete[c]), now)
  /\ connect_timer[c] # NoTimer =>
       Idle(World, c) /\ complete[c] = 0 /\ ~has_pending[c]

\* The connections that have opened and have nothing left, and what ends one.
Lost == {c \in Conns : connect_timer[c] = NoTimer /\ Idle(World, c)}
Ended == errors.connect + Dropped

Regular ==
  Neat(World) /\ (\A c \in Conns : Course(c)) /\ Cardinality(Lost) = Ended

LEMMA EndedNat ==
  ASSUME Types, Sound(World)
  PROVE  errors.connect \in Nat /\ Dropped \in Nat /\ Ended \in Nat
<1>1. errors \in Errors
  BY WorldFields, WorldIs DEF Sound
<1> QED BY <1>1 DEF Errors, Dropped, Ended, Types

LEMMA LostFinite == IsFiniteSet(Lost) /\ Cardinality(Lost) \in Nat
<1>1. N \in Nat
  BY ThreadAssumption
<1>2. IsFiniteSet(Conns)
  BY <1>1, FS_Interval DEF Conns
<1>3. Lost \subseteq Conns
  BY DEF Lost
<1>4. IsFiniteSet(Lost)
  BY <1>2, <1>3, FS_Subset
<1> QED BY <1>4, FS_CardinalityType

\* Only a fault of that kind drops a connection.
LEMMA OtherFault ==
  ASSUME Types, NEW kind, Fault(kind), kind # "write_error" PROVE Dropped' = Dropped
  BY DEF Fault, Dropped, Types

LEMMA DropCounts ==
  ASSUME Types, Fault("write_error") PROVE Dropped' = Dropped + 1
  BY DEF Fault, Dropped, Types

LEMMA NoFault == ASSUME UNCHANGED faults PROVE Dropped' = Dropped
  BY DEF Dropped

\* A connection that has just begun, or tried to.
LEMMA BegunEnded ==
  ASSUME Types, Sound(World), Dropped' = Dropped, NEW c,
         Idle(World', c) => World'.errors.connect = World.errors.connect + 1,
         ~Idle(World', c) => World'.errors.connect = World.errors.connect
  PROVE  Ended' = IF Idle(World', c) THEN Ended + 1 ELSE Ended
<1>1. World'.errors = errors' /\ World.errors = errors
  BY DEF World
<1> QED BY <1>1, EndedNat DEF Ended

LEMMA CourseKept ==
  ASSUME NEW d \in Conns, Course(d), SameFor(d, World, World'),
         connect_timer'[d] = connect_timer[d], complete'[d] = complete[d],
         has_pending'[d] = has_pending[d], thread_start'[d] = thread_start[d],
         now' = now
  PROVE  Course(d)'
<1>1. Schedule!Owed(d, complete[d])' = Schedule!Owed(d, complete[d])
  BY DEF Schedule!Owed
<1>2. Coursed(World', d, Schedule!Owed(d, complete[d]), now)
      /\ (Idle(World', d) <=> Idle(World, d))
  BY SameCourse DEF Course
<1> QED BY <1>1, <1>2 DEF Course

LEMMA QuietRegular ==
  ASSUME Regular, Neat(World'), \A c \in Conns : SameFor(c, World, World'),
         errors'.connect = errors.connect, Dropped' = Dropped,
         UNCHANGED <<connect_timer, complete, has_pending, thread_start, now>>
  PROVE  Regular'
<1>1. \A c \in Conns : Course(c)'
  BY CourseKept DEF Regular
<1>2. \A c \in Conns : Idle(World', c) <=> Idle(World, c)
  BY SameCourse
<1>3. Lost' = Lost
  BY <1>2 DEF Lost
<1>4. Ended' = Ended
  BY DEF Ended
<1> QED BY <1>1, <1>3, <1>4 DEF Regular

LEMMA OneRegular ==
  ASSUME Regular, Neat(World'), NEW c \in Conns,
         \A d \in Conns \ {c} : /\ SameFor(d, World, World')
                                /\ connect_timer'[d] = connect_timer[d]
                                /\ complete'[d] = complete[d]
                                /\ has_pending'[d] = has_pending[d]
                                /\ thread_start'[d] = thread_start[d],
         connect_timer[c] # NoTimer \/ ~Idle(World, c),
         Ended' = IF Idle(World', c) THEN Ended + 1 ELSE Ended,
         now' = now, connect_timer'[c] = NoTimer,
         Coursed(World', c, thread_start'[c] + complete'[c] * Period, now)
  PROVE  Regular'
<1>1. \A d \in Conns \ {c} : Course(d)'
  BY CourseKept DEF Regular
<1>2. Course(c)'
  BY DEF Course, Schedule!Owed
<1>3. c \notin Lost /\ (c \in Lost' <=> Idle(World', c))
  BY DEF Lost
<1>4. \A d \in Conns \ {c} : d \in Lost' <=> d \in Lost
  BY SameCourse DEF Lost
<1>5. Lost' = IF Idle(World', c) THEN Lost \cup {c} ELSE Lost
  <2>1. Lost \subseteq Conns /\ Lost' \subseteq Conns
    BY DEF Lost
  <2> QED BY <1>3, <1>4, <2>1
<1>6. Cardinality(Lost \cup {c}) = Cardinality(Lost) + 1
  BY <1>3, LostFinite, FS_AddElement
<1>7. Cardinality(Lost)' = Ended'
  BY <1>5, <1>6 DEF Regular
<1> QED BY <1>1, <1>2, <1>7 DEF Regular

\* A connection that has a socket to use has no timer left.
LEMMA RunsOne ==
  ASSUME Regular, NEW f \in open, Client(f) \in Conns, f \in Fds, cnx[f] # "disconnected"
  PROVE  Runs(World, Client(f), f) /\ connect_timer[Client(f)] = NoTimer
<1>1. IsFlow(World, Client(f), f)
  BY WorldIs DEF IsFlow, Client
<1>2. Course(Client(f))
  BY DEF Regular
<1> QED BY <1>1, <1>2 DEF Course, Coursed, Idle, Waits, Runs

LEMMA ProductZero == ASSUME NEW p \in Nat PROVE 0 * p = 0
  OBVIOUS

LEMMA ProductMonotone ==
  ASSUME NEW a \in Int, NEW b \in Int, a <= b, NEW m \in Nat PROVE a * m <= b * m
  OBVIOUS

LEMMA InitialConnectRegular ==
  ASSUME Types, Sound(World), Regular, NEW c \in Conns, delayed_initial_connect(c)
  PROVE  Regular'
<1>1. /\ Course(c) /\ connect_timer[c] # NoTimer /\ now \in Nat /\ Early \in Nat
      /\ connect_timer \in [Conns -> Nat \cup {NoTimer}] /\ thread_start \in [Conns -> Nat]
  BY ThreadAssumption DEF delayed_initial_connect, Opens, Regular, Types, LoopTyped, OpenTyped
<1>2. Idle(World, c) /\ complete[c] = 0 /\ Neat(World)
  BY <1>1 DEF Course, Regular
<1>3. PICK v \in quic_connect_socket(c, World) : Becomes(v)
  BY DEF delayed_initial_connect
<1>4. Begins(c, World, v, now, now)
  <2>1. now <= now + Early
    BY <1>1
  <2> QED BY <1>2, <1>3, <2>1, ConnectBegins
<1>5. World' = v
  BY <1>3, <1>4, BecomesIs DEF Begins, Sound
<1>6. /\ connect_timer' = [connect_timer EXCEPT ![c] = NoTimer]
      /\ thread_start' = [thread_start EXCEPT ![c] = now]
      /\ UNCHANGED <<now, complete, has_pending, faults>>
  BY DEF delayed_initial_connect, Opens, statVars, batchVars
<1>7. thread_start'[c] + complete'[c] * Period = now
  <2>1. complete'[c] * Period = 0
    BY <1>2, <1>6, ProductZero, ThreadAssumption
  <2>2. thread_start'[c] = now
    BY <1>1, <1>6
  <2> QED BY <1>1, <2>1, <2>2
<1>8. Ended' = IF Idle(World', c) THEN Ended + 1 ELSE Ended
  BY <1>4, <1>5, <1>6, NoFault, BegunEnded DEF Begins
<1>9. Neat(World') /\ Coursed(World', c, thread_start'[c] + complete'[c] * Period, now)
  BY <1>4, <1>5, <1>7 DEF Begins
<1>10. connect_timer'[c] = NoTimer
  BY <1>1, <1>6
<1>11. \A d \in Conns \ {c} : /\ SameFor(d, World, World')
                              /\ connect_timer'[d] = connect_timer[d]
                              /\ complete'[d] = complete[d]
                              /\ has_pending'[d] = has_pending[d]
                              /\ thread_start'[d] = thread_start[d]
  BY <1>1, <1>4, <1>5, <1>6 DEF Begins
<1> QED BY <1>1, <1>6, <1>8, <1>9, <1>10, <1>11, OneRegular

LEMMA ReconRegular ==
  ASSUME Types, Sound(World), Regular, NEW c \in Conns, NEW i, delay_recon(c, i)
  PROVE  Regular'
<1>1. /\ World \in Worlds /\ recon_timers[c] \in Seq(Nat) /\ World.recon_timers = recon_timers
      /\ Course(c) /\ Neat(World)
  BY WorldFields, WorldIs DEF Sound, Regular
<1>2. PICK s \in Seq(Nat) : s = recon_timers[c]
  BY <1>1
<1>3. i \in 1..Len(s) /\ s # <<>>
  BY <1>2 DEF delay_recon
<1>4. Waits(World, c) /\ ~Idle(World, c)
  BY <1>1, <1>2, <1>3 DEF Course, Coursed, Idle, Runs
<1>5. Len(s) = 1 /\ i = 1 /\ connect_timer[c] = NoTimer
  BY <1>1, <1>2, <1>3, <1>4 DEF Waits, Course
<1>6. PICK owed : owed = thread_start[c] + complete[c] * Period
  OBVIOUS
<1>7. owed <= now + Early
  <2>1. owed \in Int /\ now \in Nat /\ Msec \in Nat /\ Msec > 0 /\ Early \in Nat
    BY <1>6, ProductNat, ThreadAssumption DEF Types, OpenTyped, StatTyped, LoopTyped
  <2>2. owed <= s[1] * Msec + Early
    BY <1>1, <1>2, <1>3, <1>6 DEF Course, Coursed, TimelyAt, Schedule!Owed
  <2>3. s[1] \in Nat /\ s[1] <= now \div Msec /\ now \div Msec \in Int
    BY <1>2, <1>3, <1>5, <2>1 DEF delay_recon, Due
  <2>4. s[1] * Msec <= (now \div Msec) * Msec
    BY <2>1, <2>3, ProductMonotone
  <2>5. /\ now % Msec \in 0..(Msec - 1)
        /\ now = (now \div Msec) * Msec + (now % Msec)
    BY <2>1, DivMod
  <2>6. s[1] * Msec \in Int /\ (now \div Msec) * Msec \in Int
    BY <2>1, <2>3
  <2> QED BY <2>1, <2>2, <2>4, <2>5, <2>6
<1>8. PICK w : w = WithoutRecon(c, i, World)
  OBVIOUS
<1>9. Sound(w) /\ Retimed(c, RemoveAt(s, i), World, w)
  BY <1>1, <1>2, <1>3, <1>8, WithoutReconSound
<1>10. RemoveAt(s, i) = <<>>
  <2>1. PICK t : t = RemoveAt(s, i)
    OBVIOUS
  <2>2. t \in Seq(Nat) /\ Len(t) = Len(s) - 1
    BY <1>3, <2>1, RemoveAtType
  <2> QED BY <1>5, <2>1, <2>2
<1>11. /\ SameSockets(World, w) /\ w.errors = World.errors
       /\ w.recon_timers = [recon_timers EXCEPT ![c] = <<>>]
  BY <1>1, <1>9, <1>10 DEF Retimed
<1>12. w.recon_timers[c] = <<>> /\ \A d \in Conns \ {c} : w.recon_timers[d] = recon_timers[d]
  BY <1>1, <1>11, WorldFields
<1>13. Idle(w, c)
  BY <1>4, <1>11, <1>12 DEF Waits, Idle, IsFlow, SameSockets
<1>14. Neat(w)
  BY <1>1, <1>11, SameNeat
<1>15. PICK v \in quic_connect_socket(c, w) : Becomes(v)
  BY <1>8 DEF delay_recon
<1>16. Begins(c, w, v, owed, now)
  BY <1>7, <1>9, <1>13, <1>14, <1>15, ConnectBegins
<1>17. World' = v
  BY <1>15, <1>16, BecomesIs DEF Begins, Sound
<1>18. UNCHANGED <<now, connect_timer, thread_start, complete, has_pending, faults>>
  BY DEF delay_recon, SocketFrame, statVars, batchVars
<1>19. \A d \in Conns \ {c} : SameFor(d, World, World')
  <2> SUFFICES ASSUME NEW d \in Conns \ {c} PROVE SameFor(d, World, World')
    OBVIOUS
  <2>1. SameFor(d, World, w)
    BY <1>1, <1>11, <1>12, SocketsSame
  <2>2. SameFor(d, w, v)
    BY <1>16 DEF Begins
  <2> QED BY <1>17, <2>1, <2>2, SameTwice
<1>20. Ended' = IF Idle(World', c) THEN Ended + 1 ELSE Ended
  BY <1>11, <1>16, <1>17, <1>18, NoFault, BegunEnded DEF Begins
<1>21. Neat(World') /\ Coursed(World', c, thread_start'[c] + complete'[c] * Period, now)
  BY <1>6, <1>16, <1>17, <1>18 DEF Begins
<1> QED BY <1>4, <1>5, <1>18, <1>19, <1>20, <1>21, OneRegular

LEMMA WriteRequestTimerRegular ==
  ASSUME Types, Sound(World), Regular, NEW f \in Fds, NEW i, write_request(f, i)
  PROVE  Regular'
<1>1. /\ World \in Worlds /\ SoundAt(World, f) /\ Neat(World) /\ NeatAt(World, f)
      /\ World.write_timers = write_timers /\ World.open = open /\ World.owner = owner
      /\ World.events = events /\ write_timers[f] \in Seq(Nat)
  BY WorldFields, WorldIs DEF Sound, Regular, Neat
<1>2. PICK s \in Seq(Nat) : s = write_timers[f]
  BY <1>1
<1>3. i \in 1..Len(s) /\ s # <<>>
  BY <1>2 DEF write_request
<1>4. f \in open /\ Live(World, f) /\ Len(s) = 1 /\ World.ae[f] = "own"
  BY <1>1, <1>2, <1>3 DEF NeatAt, Fresh, Live
<1>5. PICK w : w = WithoutTimer(f, i, World)
  OBVIOUS
<1>6. Removed(f, i, World, w)
  BY <1>1, <1>2, <1>3, <1>5, WithoutTimerStep
<1>7. PICK t \in Seq(Nat) : t = w.write_timers[f]
  BY <1>6 DEF Removed
<1>8. Len(t) = 0
  BY <1>1, <1>2, <1>4, <1>6, <1>7 DEF Removed
<1>9. t = <<>>
  BY <1>8
<1>10. w.ae[f] = "run" /\ w.cnx = World.cnx /\ w.write_timers[f] = <<>>
  BY <1>1, <1>2, <1>3, <1>4, <1>6, <1>7, <1>9 DEF Removed
<1>11. PICK c : c = owner[f]
  OBVIOUS
<1>12. c \in Conns /\ w.events[f].clientData = c /\ f \in w.open /\ w \in Worlds
  BY <1>1, <1>4, <1>6, <1>11 DEF SoundAt, Removed, Steps
<1>13. PICK v : v = AwaitWritable(f, c, w)
  OBVIOUS
<1>14. Awaits(f, w, v)
  BY <1>12, <1>13, AwaitStep
<1>15. Steps(f, World, v)
  BY <1>6, <1>14, StepsCompose DEF Awaits, Removed
<1>16. Live(v, f) /\ v.ae[f] # "another" /\ v.cnx = World.cnx
  BY <1>4, <1>6, <1>10, <1>14 DEF Live, Awaits, Removed
<1>17. Neat(v)
  BY <1>1, <1>4, <1>15, <1>16, LiveNeat
<1>18. World' = v
  BY <1>5, <1>11, <1>13, <1>15, BecomesIs DEF write_request, Steps
<1>19. \A d \in Conns : SameFor(d, World, World')
  BY <1>15, <1>16, <1>18, StepSame
<1>20. errors' = errors
  <2>1. World'.errors = errors' /\ World.errors = errors
    BY DEF World
  <2> QED BY <1>15, <1>18, <2>1 DEF Steps
<1>21. UNCHANGED <<now, connect_timer, thread_start, complete, has_pending, faults>>
  BY DEF write_request, SocketFrame, statVars, batchVars
<1> QED BY <1>17, <1>18, <1>19, <1>20, <1>21, NoFault, QuietRegular

\* A connection moves on to a stage that does not end it.
LEMMA MovesRegular ==
  ASSUME Types, Sound(World), Regular, NEW f \in open, f \in Fds, Client(f) \in Conns,
         cnx[f] # "disconnected", Steps(f, World, World'), Neat(World'),
         cnx'[f] # "disconnected",
         cnx'[f] \in {"none", "handshake", "ready"} =>
           cnx[f] \in {"none", "handshake", "ready"} /\ UNCHANGED complete,
         \A d \in Conns \ {Client(f)} :
           complete'[d] = complete[d] /\ has_pending'[d] = has_pending[d],
         UNCHANGED <<connect_timer, thread_start, now, faults>>
  PROVE  Regular'
<1>1. PICK c \in Conns : c = Client(f)
  OBVIOUS
<1>2. Runs(World, c, f) /\ connect_timer[c] = NoTimer /\ Course(c)
  BY <1>1, RunsOne DEF Regular
<1>3. World'.cnx = cnx' /\ World.cnx = cnx /\ World'.errors = errors' /\ World.errors = errors
      /\ World.events[f].clientData = c
  BY <1>1 DEF World, Client
<1>4. Runs(World', c, f)
  BY <1>2, <1>3, StageRuns
<1>5. ~Idle(World, c) /\ ~Idle(World', c)
  BY <1>2, <1>4 DEF Idle, Runs
<1>6. Ended' = IF Idle(World', c) THEN Ended + 1 ELSE Ended
  BY <1>3, <1>5, NoFault, BegunEnded DEF Steps
<1>7. TimelyAt(World', c, thread_start'[c] + complete'[c] * Period, now)
  <2>1. SUFFICES ASSUME cnx'[f] \in {"none", "handshake", "ready"}
                 PROVE  thread_start'[c] + complete'[c] * Period <= now + Early
    BY <1>3, <1>4 DEF TimelyAt, Runs
  <2>2. IsFlow(World, c, f) /\ World.cnx[f] \in {"none", "handshake", "ready"}
        /\ complete' = complete
    BY <1>2, <1>3, <2>1 DEF Runs
  <2>3. Schedule!Owed(c, complete[c]) <= now + Early
    BY <1>2, <2>2 DEF Course, Coursed, TimelyAt
  <2> QED BY <2>2, <2>3 DEF Schedule!Owed
<1>8. Coursed(World', c, thread_start'[c] + complete'[c] * Period, now)
  BY <1>4, <1>7 DEF Coursed
<1>9. \A d \in Conns \ {c} : SameFor(d, World, World')
  BY <1>3, StageOthers
<1> QED BY <1>1, <1>2, <1>5, <1>6, <1>8, <1>9, OneRegular

LEMMA ConnectedRegular ==
  ASSUME Types, Sound(World), Regular, NEW f \in Fds, quic_socket_connected(f)
  PROVE  Regular'
<1>1. /\ f \in open /\ Fresh(World, f) /\ Client(f) \in Conns /\ Connects(f, World, World')
      /\ World.cnx = cnx /\ World.open = open /\ World'.cnx = cnx'
  BY FiresFresh, FiresOpen, ConnectedStep DEF quic_socket_connected, Regular, World
<1>2. cnx[f] = "none" /\ cnx'[f] = "handshake"
  BY <1>1 DEF Fresh, Connects
<1>3. Live(World', f) /\ World'.ae[f] # "another"
  BY <1>1 DEF Fresh, Connects, Live, Regular, Neat, NeatAt
<1>4. Neat(World')
  BY <1>1, <1>3, LiveNeat DEF Connects, Regular
<1>5. UNCHANGED <<connect_timer, thread_start, now, complete, has_pending, faults>>
  BY DEF quic_socket_connected, SocketFrame, statVars, batchVars
<1>6. Steps(f, World, World')
  BY <1>1 DEF Connects
<1> QED BY <1>1, <1>2, <1>4, <1>5, <1>6, MovesRegular

\* A packet is read, and a writer that slept is woken.
LEMMA ReadStep ==
  ASSUME Sound(World), Neat(World), NEW f \in open, f \in Fds, Live(World, f),
         NEW s \in Stages \ {"none", "abandoned"},
         NEW w, w = [World EXCEPT !.cnx[f] = s], NEW v \in WakeWriter(f, w), Becomes(v)
  PROVE  Steps(f, World, World') /\ cnx'[f] = s /\ Neat(World')
<1>1. World \in Worlds /\ World.open = open /\ World.events = events
  BY WorldIs DEF Sound
<1>2. Staged(f, s, World, w) /\ Sound(w)
  BY <1>1, StageStep, StageSound
<1>3. Neat(w) /\ Live(w, f)
  BY <1>1, <1>2, StageNeat
<1>4. f \in w.open /\ w.events[f] = events[f] /\ w.cnx[f] = s /\ Steps(f, World, w)
  BY <1>1, <1>2 DEF Staged, Steps
<1>5. Steps(f, w, v) /\ v.cnx = w.cnx /\ Neat(v)
  BY <1>2, <1>3, <1>4, WakeNeat
<1>6. World' = v
  BY <1>5, BecomesIs DEF Steps
<1>7. Steps(f, World, v)
  BY <1>4, <1>5, StepsCompose
<1> QED BY <1>4, <1>5, <1>6, <1>7 DEF World

LEMMA ReadPacketRegular ==
  ASSUME Types, Sound(World), Regular, NEW f \in Fds, ReadPacket(f)
  PROVE  Regular'
<1>1. /\ f \in open /\ Live(World, f) /\ Client(f) \in Conns /\ Neat(World)
      /\ World.cnx = cnx /\ cnx \in [Fds -> Stages]
  BY FiresLive, FiresOpen, WorldFields, WorldIs DEF ReadPacket, Regular, Sound
<1>2. PICK s \in {cnx[f]} \cup {t \in {"ready"} : cnx[f] = "handshake"} :
        \E v \in WakeWriter(f, [World EXCEPT !.cnx[f] = s]) : Becomes(v)
  BY DEF ReadPacket
<1>3. s \in Stages \ {"none", "abandoned"}
  BY <1>1, <1>2 DEF Live, Stages
<1>4. Steps(f, World, World') /\ cnx'[f] = s /\ Neat(World')
  BY <1>1, <1>2, <1>3, ReadStep
<1>5. UNCHANGED <<connect_timer, thread_start, now, complete, has_pending, faults>>
  BY DEF ReadPacket, SocketFrame, statVars, batchVars
<1>6. CASE cnx[f] = "disconnected"
  <2>1. World'.cnx[f] = World.cnx[f]
    BY <1>1, <1>2, <1>4, <1>6 DEF World
  <2>2. \A d \in Conns : SameFor(d, World, World')
    BY <1>4, <2>1, StepSame
  <2>3. errors' = errors
    BY <1>4 DEF Steps, World
  <2> QED BY <1>4, <1>5, <2>2, <2>3, NoFault, QuietRegular
<1>7. CASE cnx[f] # "disconnected"
  BY <1>1, <1>2, <1>4, <1>5, <1>7, MovesRegular
<1> QED BY <1>6, <1>7

LEMMA ReadFinRegular ==
  ASSUME Types, Sound(World), Regular, NEW f \in Fds, ReadFin(f)
  PROVE  Regular'
<1>1. /\ f \in open /\ Live(World, f) /\ Client(f) \in Conns /\ Neat(World)
      /\ cnx[f] = "sent"
  BY FiresLive, FiresOpen DEF ReadFin, Regular
<1>2. "closing" \in Stages \ {"none", "abandoned"}
  BY DEF Stages
<1>3. Steps(f, World, World') /\ cnx'[f] = "closing" /\ Neat(World')
  BY <1>1, <1>2, ReadStep DEF ReadFin
<1>4. UNCHANGED <<connect_timer, thread_start, now, faults>>
  BY DEF ReadFin, SocketFrame
<1>5. PICK c : c = Client(f)
  OBVIOUS
<1>6. \A d \in Conns \ {c} : complete'[d] = complete[d] /\ has_pending'[d] = has_pending[d]
  BY <1>5 DEF ReadFin, stats_request_completed, statVars, Types, StatTyped, SendTyped
<1> QED BY <1>1, <1>3, <1>4, <1>5, <1>6, MovesRegular

LEMMA WriteRequestRegular ==
  ASSUME Types, Sound(World), Regular, NEW f \in Fds, WriteRequest(f)
  PROVE  Regular'
<1>1. /\ f \in open /\ Live(World, f) /\ Client(f) \in Conns /\ Neat(World)
      /\ World.open = open /\ cnx[f] = "ready"
  BY FiresLive, FiresOpen, WorldIs DEF WriteRequest, Regular
<1>2. Staged(f, "sent", World, World')
  BY WriteRequestSound
<1>3. Neat(World')
  BY <1>1, <1>2, StageNeat
<1>4. cnx'[f] = "sent" /\ Steps(f, World, World')
  BY <1>2 DEF Staged, World
<1>5. UNCHANGED <<connect_timer, thread_start, now, complete, faults>>
  BY DEF WriteRequest, SocketFrame, statVars
<1>6. PICK c : c = Client(f)
  OBVIOUS
<1>7. \A d \in Conns \ {c} : complete'[d] = complete[d] /\ has_pending'[d] = has_pending[d]
  BY <1>5, <1>6 DEF WriteRequest, Prepares, Types, SendTyped
<1> QED BY <1>1, <1>3, <1>4, <1>5, <1>6, <1>7, MovesRegular

LEMMA WriteNothingRegular ==
  ASSUME Types, Sound(World), Regular, NEW f \in Fds, WriteNothing(f)
  PROVE  Regular'
<1>1. /\ f \in open /\ Live(World, f) /\ W \in events[f].mask /\ Neat(World)
      /\ World.open = open /\ World.events = events /\ World \in Worlds
  BY FiresLive, WorldIs DEF WriteNothing, Regular, Sound
<1>2. PICK delay \in Delays : Becomes(Sleep(f, delay, World))
  BY DEF WriteNothing
<1>3. PICK v : v = Sleep(f, delay, World)
  OBVIOUS
<1>4. Sleeps(f, World, v)
  BY <1>1, <1>3, SleepStep DEF Types
<1>5. World' = v
  BY <1>2, <1>3, <1>4, BecomesIs DEF Sleeps, Steps
<1>6. Neat(v)
  BY <1>1, <1>4, SleepNeat
<1>7. \A d \in Conns : SameFor(d, World, World')
  BY <1>4, <1>5, StepSame DEF Sleeps
<1>8. errors' = errors
  BY <1>4, <1>5 DEF Sleeps, Steps, World
<1>9. UNCHANGED <<connect_timer, thread_start, now, complete, has_pending, faults>>
  BY DEF WriteNothing, SocketFrame, statVars, batchVars
<1> QED BY <1>5, <1>6, <1>7, <1>8, <1>9, NoFault, QuietRegular

LEMMA WriteClosedRegular ==
  ASSUME Types, Sound(World), Regular, NEW f \in Fds, WriteClosed(f)
  PROVE  Regular'
<1>1. /\ f \in open /\ Live(World, f) /\ W \in events[f].mask /\ Neat(World)
      /\ World.events = events /\ World.cnx = cnx /\ cnx[f] = "disconnected"
  BY FiresLive, WorldIs DEF WriteClosed, Regular
<1>2. Closes(f, World, World')
  BY WriteClosedSound
<1>3. NeatAt(World', f)
  BY <1>1, <1>2 DEF Closes, Live, Neat, NeatAt
<1>4. Neat(World')
  BY <1>1, <1>2, <1>3, LocalNeat DEF Closes
<1>5. \A d \in Conns : SameFor(d, World, World')
  BY <1>1, <1>2, CloseSame
<1>6. errors' = errors
  BY <1>2 DEF Closes, World
<1>7. UNCHANGED <<connect_timer, thread_start, now, complete, has_pending, faults>>
  BY DEF WriteClosed, SocketFrame, statVars, batchVars
<1> QED BY <1>4, <1>5, <1>6, <1>7, NoFault, QuietRegular

\* The connection of a socket that cannot be written to is dropped, or begins
\* its next course when picoquic says that it is closed.
LEMMA WriteErrorRegular ==
  ASSUME Types, Sound(World), Regular, NEW f \in Fds, WriteError(f)
  PROVE  Regular'
<1>1. PICK c : c = Client(f)
  OBVIOUS
<1>2. /\ f \in open /\ Live(World, f) /\ c \in Conns /\ W \in events[f].mask
      /\ cnx[f] # "disconnected" /\ Neat(World) /\ World.events = events
  BY <1>1, FiresLive, FiresOpen, WorldIs DEF WriteError, Regular
<1>3. PICK w : w = CloseSocket(f, World)
  OBVIOUS
<1>4. Closes(f, World, w) /\ Sound(w)
  BY <1>3, CloseStep
<1>5. NeatAt(w, f)
  BY <1>2, <1>4 DEF Closes, Live, Neat, NeatAt
<1>6. Neat(w)
  BY <1>2, <1>4, <1>5, LocalNeat DEF Closes
<1>7. Runs(World, c, f) /\ connect_timer[c] = NoTimer
  BY <1>1, <1>2, RunsOne
<1>8. Idle(w, c) /\ ~Idle(World, c)
  BY <1>4, <1>7, CloseEnds DEF Runs, Idle
<1>9. \A d \in Conns \ {c} : SameFor(d, World, w)
  BY <1>1, <1>2, <1>4, CloseOthers DEF Client
<1>10. UNCHANGED <<connect_timer, thread_start, now, complete>>
  BY DEF WriteError, SocketFrame, statVars
<1>11. \A d \in Conns \ {c} : has_pending'[d] = has_pending[d]
  BY <1>1 DEF WriteError, Prepares, batchVars, Types, SendTyped
<1>12. CASE Fault("write_error") /\ Becomes(w)
  <2>1. World' = w
    BY <1>4, <1>12, BecomesIs DEF Sound
  <2>2. errors' = errors
    BY <1>4, <2>1 DEF Closes, World
  <2>3. Ended' = IF Idle(World', c) THEN Ended + 1 ELSE Ended
    BY <1>8, <1>12, <2>1, <2>2, DropCounts, EndedNat DEF Ended
  <2>4. Coursed(World', c, thread_start'[c] + complete'[c] * Period, now)
    BY <1>8, <2>1 DEF Coursed, Idle, TimelyAt
  <2> QED BY <1>2, <1>6, <1>7, <1>8, <1>9, <1>10, <1>11, <2>1, <2>3, <2>4, OneRegular
<1>13. ASSUME Fault("close"), NEW v \in restart(c, usec_to_next_send(c), w), Becomes(v)
       PROVE  Regular'
  <2>1. PICK r : r = usec_to_next_send(c)
    OBVIOUS
  <2>2. r.wait \in Nat
    BY <1>2, <2>1, WaitType DEF Types
  <2>3. PICK owed : owed = thread_start[c] + complete[c] * Period
    OBVIOUS
  <2>4. owed \in Nat /\ owed <= now + r.wait
    BY <1>2, <2>1, <2>2, <2>3, Waited DEF Types
  <2>5. Begins(c, w, v, owed, now)
    BY <1>2, <1>4, <1>6, <1>8, <1>13, <2>1, <2>2, <2>4, RestartBegins DEF Types
  <2>6. World' = v
    BY <1>13, <2>5, BecomesIs DEF Begins, Sound
  <2>7. Neat(World') /\ Coursed(World', c, thread_start'[c] + complete'[c] * Period, now)
    BY <1>10, <2>3, <2>5, <2>6 DEF Begins
  <2>8. w.errors = World.errors /\ Dropped' = Dropped
    BY <1>4, <1>13, OtherFault DEF Closes
  <2>9. Ended' = IF Idle(World', c) THEN Ended + 1 ELSE Ended
    BY <2>5, <2>6, <2>8, BegunEnded DEF Begins
  <2>10. \A d \in Conns \ {c} : SameFor(d, World, World')
    BY <1>9, <2>5, <2>6, SameTwice DEF Begins
  <2> QED BY <1>2, <1>7, <1>8, <1>10, <1>11, <2>7, <2>9, <2>10, OneRegular
<1> QED BY <1>1, <1>3, <1>12, <1>13 DEF WriteError

\* A connection ends, and the next one begins when its request is owed.
LEMMA EndBegins ==
  ASSUME Types, Sound(World), Regular, NEW f \in open, f \in Fds, Live(World, f),
         NEW c \in Conns, c = Client(f), cnx[f] # "disconnected",
         NEW v \in restart(c, usec_to_next_send(c), [World EXCEPT !.cnx[f] = "disconnected"])
  PROVE  /\ Sound(v) /\ Neat(v) /\ f \in v.open /\ v.events[f] = events[f] /\ Live(v, f)
         /\ Coursed(v, c, thread_start[c] + complete[c] * Period, now)
         /\ Idle(v, c) => v.errors.connect = World.errors.connect + 1
         /\ ~Idle(v, c) => v.errors.connect = World.errors.connect
         /\ \A d \in Conns \ {c} : SameFor(d, World, v)
<1>1. /\ World \in Worlds /\ Neat(World) /\ World.open = open /\ World.events = events
      /\ "disconnected" \in Stages
      /\ "disconnected" \notin {"none", "abandoned"} /\ World.events[f].clientData = c
  BY WorldIs DEF Sound, Regular, Stages, Client
<1>2. PICK w : w = [World EXCEPT !.cnx[f] = "disconnected"]
  OBVIOUS
<1>3. Staged(f, "disconnected", World, w) /\ Sound(w)
  BY <1>1, <1>2, StageStep, StageSound
<1>4. Neat(w)
  BY <1>1, <1>3, StageNeat
<1>5. Runs(World, c, f)
  BY RunsOne
<1>6. Idle(w, c)
  BY <1>3, <1>5, StageEnds DEF Staged
<1>7. PICK r : r = usec_to_next_send(c)
  OBVIOUS
<1>8. r.wait \in Nat
  BY <1>7, WaitType DEF Types
<1>9. PICK owed : owed = thread_start[c] + complete[c] * Period
  OBVIOUS
<1>10. owed \in Nat /\ owed <= now + r.wait
  BY <1>7, <1>8, <1>9, Waited DEF Types
<1>11. v \in restart(c, r, w)
  BY <1>2, <1>7
<1>12. Begins(c, w, v, owed, now)
  BY <1>3, <1>4, <1>6, <1>8, <1>10, <1>11, RestartBegins DEF Types
<1>13. f \in w.open /\ w.events[f] = events[f] /\ w.errors = World.errors
       /\ w.cnx[f] = "disconnected"
  BY <1>1, <1>3 DEF Staged, Steps
<1>14. f \in v.open /\ v.events[f] = events[f] /\ v.cnx[f] = "disconnected"
  BY <1>12, <1>13 DEF Begins
<1>15. Live(v, f)
  BY <1>12, <1>14 DEF Begins, Neat, NeatAt, Fresh
<1>16. \A d \in Conns \ {c} : SameFor(d, World, v)
  <2> SUFFICES ASSUME NEW d \in Conns \ {c} PROVE SameFor(d, World, v)
    OBVIOUS
  <2>1. SameFor(d, World, w)
    BY <1>1, <1>3, StageOthers DEF Staged
  <2>2. SameFor(d, w, v)
    BY <1>12 DEF Begins
  <2> QED BY <2>1, <2>2, SameTwice
<1> QED BY <1>9, <1>12, <1>13, <1>14, <1>15, <1>16 DEF Begins

LEMMA EndRegular ==
  ASSUME Types, Sound(World), Regular, NEW f \in open, f \in Fds, Live(World, f),
         NEW c \in Conns, c = Client(f), cnx[f] # "disconnected",
         NEW v \in restart(c, usec_to_next_send(c), [World EXCEPT !.cnx[f] = "disconnected"]),
         (World' = v \/ Steps(f, v, World')) /\ World'.cnx = v.cnx,
         Neat(World'), Dropped' = Dropped, UNCHANGED <<connect_timer, thread_start, now, complete, has_pending>>
  PROVE  Regular'
<1>1. /\ Coursed(v, c, thread_start[c] + complete[c] * Period, now)
      /\ Idle(v, c) => v.errors.connect = World.errors.connect + 1
      /\ ~Idle(v, c) => v.errors.connect = World.errors.connect
      /\ \A d \in Conns \ {c} : SameFor(d, World, v)
  BY EndBegins
<1>2. connect_timer[c] = NoTimer /\ ~Idle(World, c)
  BY RunsOne DEF Runs, Idle
<1>3. \A d \in Conns : SameFor(d, v, World')
  BY StepSame DEF SameFor
<1>4. World'.errors = v.errors
  BY DEF Steps
<1>5. Coursed(World', c, thread_start'[c] + complete'[c] * Period, now)
      /\ (Idle(World', c) <=> Idle(v, c))
  BY <1>1, <1>3, SameCourse
<1>6. \A d \in Conns \ {c} : SameFor(d, World, World')
  BY <1>1, <1>3, SameTwice
<1>7. Ended' = IF Idle(World', c) THEN Ended + 1 ELSE Ended
  BY <1>1, <1>4, <1>5, BegunEnded
<1> QED BY <1>2, <1>5, <1>6, <1>7, OneRegular

LEMMA ReadEndRegular ==
  ASSUME Types, Sound(World), Regular, NEW f \in Fds, ReadEnd(f), ~Fault("stream_reset")
  PROVE  Regular'
<1>1. PICK c : c = Client(f)
  OBVIOUS
<1>2. /\ f \in open /\ Live(World, f) /\ c \in Conns
  BY <1>1, FiresLive, FiresOpen DEF ReadEnd, Regular
<1>3. PICK v \in restart(c, usec_to_next_send(c), [World EXCEPT !.cnx[f] = "disconnected"]) :
        cnx[f] # "disconnected" /\ \E w \in WakeWriter(f, v) : Becomes(w)
  BY <1>1 DEF ReadEnd
<1>4. Sound(v) /\ Neat(v) /\ f \in v.open /\ v.events[f] = events[f] /\ Live(v, f)
  BY <1>1, <1>2, <1>3, EndBegins
<1>5. PICK w \in WakeWriter(f, v) : Becomes(w)
  BY <1>3
<1>6. Steps(f, v, w) /\ w.cnx = v.cnx /\ Neat(w)
  BY <1>4, <1>5, WakeNeat
<1>7. World' = w
  BY <1>5, <1>6, BecomesIs DEF Steps
<1>8. UNCHANGED <<connect_timer, thread_start, now, complete, has_pending>>
  BY DEF ReadEnd, SocketFrame, statVars, batchVars
<1>9. Dropped' = Dropped
  BY OtherFault DEF ReadEnd
<1> QED BY <1>1, <1>2, <1>3, <1>6, <1>7, <1>8, <1>9, EndRegular

LEMMA WriteEndRegular ==
  ASSUME Types, Sound(World), Regular, NEW f \in Fds, WriteEnd(f)
  PROVE  Regular'
<1>1. PICK c : c = Client(f)
  OBVIOUS
<1>2. /\ f \in open /\ Live(World, f) /\ c \in Conns /\ W \in events[f].mask
      /\ cnx[f] # "disconnected"
  BY <1>1, FiresLive, FiresOpen DEF WriteEnd, Regular
<1>3. PICK v \in restart(c, usec_to_next_send(c), [World EXCEPT !.cnx[f] = "disconnected"]) :
        Becomes(v) \/ \E delay \in Delays : Becomes(Sleep(f, delay, v))
  BY <1>1 DEF WriteEnd
<1>4. Sound(v) /\ Neat(v) /\ f \in v.open /\ v.events[f] = events[f] /\ Live(v, f)
  BY <1>1, <1>2, <1>3, EndBegins
<1>5. UNCHANGED <<connect_timer, thread_start, now, complete, has_pending>>
  BY DEF WriteEnd, SocketFrame, statVars, batchVars
<1>8. Dropped' = Dropped
  BY NoFault, OtherFault DEF WriteEnd
<1>6. CASE Becomes(v)
  <2>1. World' = v
    BY <1>4, <1>6, BecomesIs DEF Sound
  <2> QED BY <1>1, <1>2, <1>3, <1>4, <1>5, <1>8, <2>1, EndRegular
<1>7. ASSUME NEW delay \in Delays, Becomes(Sleep(f, delay, v)) PROVE Regular'
  <2>1. PICK w : w = Sleep(f, delay, v)
    OBVIOUS
  <2>2. Sleeps(f, v, w)
    BY <1>4, <2>1, SleepStep DEF Types, Sound
  <2>3. Neat(w)
    BY <1>2, <1>4, <2>2, SleepNeat
  <2>4. World' = w
    BY <1>7, <2>1, <2>2, BecomesIs DEF Sleeps, Steps
  <2>5. Steps(f, v, World') /\ World'.cnx = v.cnx
    BY <2>2, <2>4 DEF Sleeps
  <2> QED BY <1>1, <1>2, <1>3, <1>5, <1>8, <2>3, <2>4, <2>5, EndRegular
<1> QED BY <1>3, <1>6, <1>7

\* What leaves the sockets alone.
LEMMA StillRegular ==
  ASSUME Regular, World' = World,
         UNCHANGED <<connect_timer, complete, has_pending, thread_start, now, faults>>
  PROVE  Regular'
<1>1. errors' = errors
  BY DEF World
<1>2. \A c \in Conns : SameFor(c, World, World')
  BY DEF SameFor
<1> QED BY <1>1, <1>2, NoFault, QuietRegular DEF Regular

LEMMA CheckRegular ==
  ASSUME Types, Sound(World), Regular, check_timeouts
  PROVE  Regular'
<1>1. errors \in Errors
  BY WorldFields, WorldIs DEF Sound
<1>2. errors' \in Errors
  BY <1>1, ChecksTimeoutsType DEF check_timeouts, Types
<1>3. World' = [World EXCEPT !.errors = errors']
  BY DEF check_timeouts, World
<1>4. SameSockets(World, World') /\ World'.recon_timers = World.recon_timers
  BY <1>2, <1>3 DEF SameSockets, Sound, Worlds
<1>5. \A c \in Conns : SameFor(c, World, World')
  BY <1>4, SocketsSame
<1>6. errors'.connect = errors.connect
  BY <1>1 DEF check_timeouts, ChecksTimeouts, Errors
<1>7. Neat(World')
  BY <1>4, SameNeat DEF Regular
<1>8. Dropped' = Dropped
  BY NoFault DEF check_timeouts
<1> QED BY <1>5, <1>6, <1>7, <1>8, QuietRegular DEF check_timeouts, statVars, batchVars

\* What is owed by now is owed later.
LEMMA TickRegular ==
  ASSUME Types, Sound(World), Regular, Tick PROVE Regular'
<1>1. World' = World
  BY SameWorld DEF Tick
<1>2. UNCHANGED <<connect_timer, complete, has_pending, thread_start, errors, faults>>
  BY DEF Tick, statVars, batchVars, sockVars
<1>3. now \in Nat /\ now' = now + 1 /\ Early \in Nat
  BY ThreadAssumption DEF Tick, Ticks, Types, LoopTyped
<1>4. ASSUME NEW c \in Conns PROVE Course(c)'
  <2>1. PICK owed \in Nat : owed = thread_start[c] + complete[c] * Period
    BY ProductNat, ThreadAssumption DEF Types, OpenTyped, StatTyped
  <2>2. Coursed(World, c, owed, now) /\ Course(c)
    BY <2>1 DEF Regular, Course, Schedule!Owed
  <2>3. owed <= now + Early => owed <= now' + Early
    BY <1>3
  <2>4. TimelyAt(World', c, owed, now')
    BY <1>1, <2>2, <2>3 DEF Coursed, TimelyAt
  <2>5. Coursed(World', c, owed, now')
    BY <1>1, <2>2, <2>4 DEF Coursed
  <2>6. Schedule!Owed(c, complete[c])' = owed
    BY <1>2, <2>1 DEF Schedule!Owed
  <2> QED BY <1>1, <1>2, <2>2, <2>5, <2>6 DEF Course
<1>5. Cardinality(Lost)' = Ended'
  BY <1>1, <1>2 DEF Regular, Lost, Ended, Dropped
<1> QED BY <1>1, <1>4, <1>5 DEF Regular

\* Faults only add up, and those that disturb the order are counted.
LEMMA OrderlyBack ==
  ASSUME Types, [Next]_vars, Orderly'
  PROVE  /\ Orderly /\ ~Fault("stream_reset")
         /\ \A f \in Fds : ~OtherThread(f)
<1>1. faults \in [Env -> Nat]
  BY DEF Types
<1>2. \A kind \in {"stream_reset", "other_thread"} : ~Fault(kind)
  BY <1>1 DEF Fault, Orderly
<1>3. faults' = faults \/ \E kind : Fault(kind)
  BY DEF Next, TimersOf, quic_readable, quic_writeable, check_timeouts,
         delayed_initial_connect, delay_recon, write_request, quic_socket_connected,
         ReadPacket, ReadFin, ReadEnd, WriteRequest, WriteNothing, WriteEnd,
         WriteClosed, WriteError, handler, LeaveLoop, Tick, OtherThread, Terminated, vars
<1>4. Orderly
  BY <1>1, <1>3 DEF Fault, Orderly
<1> QED BY <1>2, <1>4 DEF OtherThread

LEMMA RegularNext ==
  ASSUME Types, Sound(World), Regular, [Next]_vars, Orderly' PROVE Regular'
<1>1. ~Fault("stream_reset") /\ \A f \in Fds : ~OtherThread(f)
  BY OrderlyBack
<1>2. ASSUME NEW c \in Conns, TimersOf(c) PROVE Regular'
  BY <1>2, InitialConnectRegular, ReconRegular DEF TimersOf
<1>3. ASSUME NEW f \in Fds, quic_socket_connected(f) PROVE Regular'
  BY <1>3, ConnectedRegular
<1>4. ASSUME NEW f \in Fds, quic_readable(f) PROVE Regular'
  BY <1>1, <1>4, ReadPacketRegular, ReadFinRegular, ReadEndRegular DEF quic_readable
<1>5. ASSUME NEW f \in Fds, quic_writeable(f) PROVE Regular'
  BY <1>5, WriteRequestRegular, WriteNothingRegular, WriteEndRegular,
     WriteClosedRegular, WriteErrorRegular DEF quic_writeable
<1>6. ASSUME NEW f \in Fds, NEW i, write_request(f, i) PROVE Regular'
  BY <1>6, WriteRequestTimerRegular
<1>7. CASE handler \/ LeaveLoop \/ Terminated \/ UNCHANGED vars
  <2>1. UNCHANGED sockVars
    BY <1>7 DEF handler, LeaveLoop, Terminated, vars
  <2>2. World' = World
    BY <2>1, SameWorld
  <2> QED BY <1>7, <2>2, StillRegular
          DEF handler, LeaveLoop, Terminated, vars, statVars, batchVars
<1>8. CASE check_timeouts
  BY <1>8, CheckRegular
<1>9. CASE Tick
  BY <1>9, TickRegular
<1> QED BY <1>1, <1>2, <1>3, <1>4, <1>5, <1>6, <1>7, <1>8, <1>9 DEF Next

LEMMA RegularInit == ASSUME Init PROVE Regular
<1>1. /\ World.cnx = cnx /\ World.open = open /\ World.ae = ae
      /\ World.write_timers = write_timers /\ World.recon_timers = recon_timers
  BY WorldIs DEF World
<1>2. \A c \in Conns : Idle(World, c) /\ World.recon_timers[c] = <<>>
  BY <1>1 DEF Init, Idle, IsFlow
<1>3. Neat(World)
  BY <1>1 DEF Init, Neat, NeatAt
<1>4. \A c \in Conns : connect_timer[c] # NoTimer /\ complete[c] = 0 /\ ~has_pending[c]
  BY FirstConnects DEF Init, ThreadInit, NoTimer
<1>5. \A owed, clock : \A c \in Conns : Coursed(World, c, owed, clock)
  BY <1>2 DEF Coursed, TimelyAt, Idle
<1>6. Lost = {} /\ Ended = 0
  BY <1>4 DEF Lost, Ended, Dropped, Init, ThreadInit
<1>7. Cardinality(Lost) = Ended
  BY <1>6, FS_EmptySet
<1> QED BY <1>2, <1>3, <1>4, <1>5, <1>7 DEF Regular, Course

\* The inductive invariant: what is sound always, and regular while in order.
QuicInv == Types /\ Sound(World) /\ (Orderly => Regular)

LEMMA QuicInvInit == Init => QuicInv
  BY SoundInit, RegularInit DEF QuicInv

LEMMA QuicInvNext == QuicInv /\ [Next]_vars => QuicInv'
<1> SUFFICES ASSUME QuicInv, [Next]_vars PROVE QuicInv'
  OBVIOUS
<1>1. Types' /\ Sound(World)'
  BY SoundNext DEF QuicInv
<1>2. Orderly' => Regular'
  BY OrderlyBack, RegularNext DEF QuicInv
<1> QED BY <1>1, <1>2 DEF QuicInv

LEMMA QuicInvariant == Spec => []QuicInv
  BY QuicInvInit, QuicInvNext, PTL DEF Spec

\* Without a stream that was reset and without another thread on the same
\* entries, no writer is lost: it waits for its socket, or sleeps on the one
\* timer that fd_to_cnx names; and a closed connection has neither.
THEOREM QuicWritesOrSleeps == Spec => []WritesOrSleeps
<1>1. QuicInv => WritesOrSleeps
  <2> SUFFICES ASSUME QuicInv, Orderly, NEW f \in Fds
               PROVE  \/ W \in events[f].mask /\ write_timers[f] = <<>>
                         /\ (events[f].wfileProc = "quic_writeable" => cnx[f] # "none")
                      \/ W \notin events[f].mask /\ IF cnx[f] = "none"
                           THEN write_timers[f] = <<>>
                           ELSE Len(write_timers[f]) = 1 /\ ae[f] = "own"
    BY DEF WritesOrSleeps
  <2>1. NeatAt(World, f) /\ SoundAt(World, f)
    BY DEF QuicInv, Regular, Neat, Sound
  <2>2. /\ World.cnx = cnx /\ World.open = open /\ World.ae = ae
        /\ World.write_timers = write_timers /\ World.events = events
    BY DEF World
  <2> QED BY <2>1, <2>2 DEF NeatAt, SoundAt, Fresh, Live
<1> QED BY <1>1, QuicInvariant, PTL

\* Under the same conditions a connection that has opened is on one socket or
\* waits for one timer, and never sends on two sockets; and those that are on
\* neither are as many as connects have failed and connections were dropped: one
\* error ends one connection for good, and nothing else ends any.
THEOREM QuicHasOneFlow == Spec => []OneFlow
<1>1. QuicInv => OneFlow
  <2> SUFFICES ASSUME QuicInv, Orderly
               PROVE  /\ \A c \in Opened : FlowsOf(c) <= 1
                      /\ Cardinality({c \in Opened : FlowsOf(c) = 0})
                           = errors.connect + Dropped
    BY DEF OneFlow
  <2>1. /\ open \subseteq Fds /\ World.cnx = cnx /\ World.open = open
        /\ World.events = events /\ World.recon_timers = recon_timers
    BY WorldFields, WorldIs DEF QuicInv, Sound, World
  <2>2. ASSUME NEW c \in Conns
        PROVE  FlowsOf(c) <= 1 /\ (FlowsOf(c) = 0 <=> Idle(World, c))
    <3>1. Course(c)
      BY DEF QuicInv, Regular
    <3>2. Flows(c) = {f \in Fds : IsFlow(World, c, f)}
      BY <2>1 DEF Flows, IsFlow, Client
    <3>3. CASE Idle(World, c)
      <4>1. Flows(c) = {} /\ recon_timers[c] = <<>>
        BY <2>1, <3>2, <3>3 DEF Idle
      <4>2. Cardinality(Flows(c)) = 0 /\ Len(recon_timers[c]) = 0
        BY <4>1, FS_EmptySet
      <4> QED BY <3>3, <4>2 DEF FlowsOf
    <3>4. CASE Waits(World, c)
      <4>1. Flows(c) = {} /\ Len(recon_timers[c]) = 1 /\ ~Idle(World, c)
        BY <2>1, <3>2, <3>4 DEF Waits, Idle
      <4>2. Cardinality(Flows(c)) = 0
        BY <4>1, FS_EmptySet
      <4> QED BY <4>1, <4>2 DEF FlowsOf
    <3>5. ASSUME NEW f \in Fds, Runs(World, c, f)
          PROVE  FlowsOf(c) <= 1 /\ (FlowsOf(c) = 0 <=> Idle(World, c))
      <4>1. Flows(c) = {f} /\ recon_timers[c] = <<>> /\ ~Idle(World, c)
        BY <2>1, <3>2, <3>5 DEF Runs, Idle
      <4>2. Cardinality(Flows(c)) = 1 /\ Len(recon_timers[c]) = 0
        BY <4>1, FS_Singleton
      <4> QED BY <4>1, <4>2 DEF FlowsOf
    <3> QED BY <3>1, <3>3, <3>4, <3>5 DEF Course, Coursed
  <2>3. {c \in Opened : FlowsOf(c) = 0} = Lost
    BY <2>2 DEF Opened, Lost
  <2> QED BY <2>2, <2>3 DEF QuicInv, Regular, Ended, Opened
<1> QED BY <1>1, QuicInvariant, PTL

-----------------------------------------------------------------------------
(* The schedule.                                                               *)

LEMMA OpensOnSchedule ==
  ASSUME Types, Regular, NEW c \in Conns, delayed_initial_connect(c)
  PROVE  Schedule!Open(c)
<1>1. Course(c) /\ connect_timer[c] # NoTimer
  BY DEF Regular, delayed_initial_connect, Opens
<1> QED BY <1>1 DEF Course, delayed_initial_connect, Opens, Schedule!Open, statVars,
                   batchVars, markVars

\* A request is prepared when it is owed; one that is prepared again, on the next
\* socket, is still measured from the first time.
LEMMA PreparesOnSchedule ==
  ASSUME Types, Sound(World), Regular, NEW f \in Fds, Fires(f, "quic_writeable"),
         cnx[f] = "ready", Prepares(Client(f)), UNCHANGED <<now, thread_start, complete>>
  PROVE  Schedule!StartBatch(Client(f)) \/ UNCHANGED Schedule!vars
<1>1. PICK c : c = Client(f)
  OBVIOUS
<1>2. f \in open /\ c \in Conns
  BY <1>1, FiresLive, FiresOpen DEF Regular
<1>3. Runs(World, c, f) /\ Course(c)
  BY <1>1, <1>2, RunsOne DEF Regular
<1>4. World.cnx = cnx
  BY DEF World
<1>5. Schedule!Owed(c, complete[c]) <= now + Early
  BY <1>2, <1>3, <1>4 DEF Course, Coursed, TimelyAt, Runs
<1>6. /\ has_pending \in [Conns -> BOOLEAN] /\ Mark(c)
      /\ has_pending' = [has_pending EXCEPT ![c] = TRUE]
  BY <1>1 DEF Prepares, Types, SendTyped
<1>7. CASE has_pending[c]
  <2>1. has_pending' = has_pending
    BY <1>2, <1>6, <1>7
  <2> QED BY <1>6, <1>7, <2>1 DEF Mark, markVars, Schedule!vars
<1>8. CASE ~has_pending[c]
  BY <1>1, <1>5, <1>6, <1>8 DEF Mark, Schedule!StartBatch
<1> QED BY <1>7, <1>8

LEMMA WritesOnSchedule ==
  ASSUME Types, Sound(World), Regular, NEW f \in Fds, WriteRequest(f) \/ WriteError(f)
  PROVE  Schedule!StartBatch(Client(f)) \/ UNCHANGED Schedule!vars
<1>1. Fires(f, "quic_writeable") /\ UNCHANGED <<now, thread_start, complete>>
  BY DEF WriteRequest, WriteError, SocketFrame, statVars
<1>2. CASE cnx[f] = "ready" /\ Prepares(Client(f))
  BY <1>1, <1>2, PreparesOnSchedule
<1>3. CASE UNCHANGED batchVars
  BY <1>1, <1>3 DEF batchVars, markVars, Schedule!vars
<1> QED BY <1>2, <1>3 DEF WriteRequest, WriteError

LEMMA FinishesOnSchedule ==
  ASSUME Types, Sound(World), NEW f \in Fds, ReadFin(f)
  PROVE  Schedule!Response(Client(f))
<1>1. PICK c : c = Client(f)
  OBVIOUS
<1>2. c \in Conns
  BY <1>1, FiresOpen DEF ReadFin
<1> QED BY <1>1, <1>2, CompletedOnSchedule DEF ReadFin, SocketFrame, NoSend, Types

LEMMA StepOnSchedule ==
  ASSUME QuicInv, [Next]_vars
  PROVE  [Orderly' => Schedule!Next]_(Schedule!vars)
<1> SUFFICES ASSUME Orderly' PROVE Schedule!Next \/ UNCHANGED Schedule!vars
  OBVIOUS
<1>1. Types /\ Sound(World) /\ Regular
  BY OrderlyBack DEF QuicInv
<1>2. ASSUME NEW c \in Conns, TimersOf(c)
      PROVE  Schedule!Next \/ UNCHANGED Schedule!vars
  <2>1. CASE delayed_initial_connect(c)
    BY <1>1, <2>1, OpensOnSchedule DEF Schedule!Next
  <2>2. ASSUME NEW i, delay_recon(c, i) PROVE UNCHANGED Schedule!vars
    BY <2>2 DEF delay_recon, SocketFrame, statVars, batchVars, markVars, Schedule!vars
  <2> QED BY <1>2, <2>1, <2>2 DEF TimersOf
<1>3. ASSUME NEW f \in Fds, WriteRequest(f) \/ WriteError(f)
      PROVE  Schedule!Next \/ UNCHANGED Schedule!vars
  BY <1>1, <1>3, WritesOnSchedule, FiresOpen DEF WriteRequest, WriteError, Schedule!Next
<1>4. ASSUME NEW f \in Fds, ReadFin(f) PROVE Schedule!Next
  BY <1>1, <1>4, FinishesOnSchedule, FiresOpen DEF ReadFin, Schedule!Next
<1>5. ASSUME NEW f \in Fds,
             \/ quic_socket_connected(f) \/ ReadPacket(f) \/ ReadEnd(f)
             \/ WriteNothing(f) \/ WriteEnd(f) \/ WriteClosed(f) \/ OtherThread(f)
             \/ \E i \in DOMAIN write_timers[f] : write_request(f, i)
      PROVE  UNCHANGED Schedule!vars
  BY <1>5 DEF quic_socket_connected, ReadPacket, ReadEnd, WriteNothing, WriteEnd,
     WriteClosed, OtherThread, write_request, SocketFrame, statVars, batchVars,
     markVars, Schedule!vars
<1>6. CASE Tick
  <2>1. now \in Nat /\ now' \in Nat /\ now < now'
    BY <1>1, <1>6 DEF Tick, Ticks, Types, LoopTyped
  <2> QED BY <1>6, <2>1 DEF Tick, statVars, batchVars, markVars, Schedule!Next,
                            Schedule!Elapse
<1>7. CASE check_timeouts \/ handler \/ LeaveLoop \/ Terminated \/ UNCHANGED vars
  BY <1>7 DEF check_timeouts, handler, LeaveLoop, Terminated, vars, statVars,
     batchVars, markVars, Schedule!vars
<1> QED BY <1>2, <1>3, <1>4, <1>5, <1>6, <1>7 DEF Next, quic_readable, quic_writeable

\* In order, the connections keep the schedule of Schedule.tla: no request is
\* written before it is owed, but for what the wait of delay_recon is rounded
\* by, and its latency counts from when it was owed.
THEOREM QuicKeepsSchedule == Spec => OrderlyImplementsSchedule
<1>1. Init => Schedule!Init
  BY ScheduleInit DEF Init
<1>2. QuicInv /\ [Next]_vars => [Orderly' => Schedule!Next]_(Schedule!vars)
  BY StepOnSchedule
<1> QED BY <1>1, <1>2, QuicInvariant, PTL DEF Spec, OrderlyImplementsSchedule

LEMMA OrderlyOnSchedule == Spec => [](Orderly => Proved!Inv)
<1>1. Proved!ScheduleAssumption
  BY ThreadAssumption DEF Proved!ScheduleAssumption
<1>2. Init => (Orderly => Proved!Inv)
  BY <1>1, ScheduleInit, Proved!InitInv DEF Init, Schedule!Init, Proved!Init
<1>3. (Orderly => Proved!Inv) /\ QuicInv /\ [Next]_vars => (Orderly => Proved!Inv)'
  <2> SUFFICES ASSUME Orderly => Proved!Inv, QuicInv, [Next]_vars, Orderly'
               PROVE  Proved!Inv'
    OBVIOUS
  <2>1. Proved!Inv
    BY OrderlyBack DEF QuicInv
  <2>2. [Proved!Next]_(Proved!vars)
    BY StepOnSchedule DEF Schedule!Next, Schedule!vars, Schedule!Elapse, Schedule!Open,
         Schedule!StartBatch, Schedule!Response, Schedule!Owed,
         Proved!Next, Proved!vars, Proved!Elapse, Proved!Open,
         Proved!StartBatch, Proved!Response, Proved!Owed
  <2> QED BY <1>1, <2>1, <2>2, Proved!NextInv
<1> QED BY <1>2, <1>3, QuicInvariant, PTL DEF Spec

\* In order, no response is recorded with a latency below -Early, and none
\* shorter than what its socket saw by more than Early.
THEOREM QuicLatencySafe == Spec => [](Orderly => LatencyBounded /\ CorrectionNeverGifts)
<1>1. (Orderly => Proved!Inv) => (Orderly => LatencyBounded /\ CorrectionNeverGifts)
  BY ProvedBounded, ProvedGifts
<1> QED BY <1>1, OrderlyOnSchedule, PTL
===============================================================================
