---------------------------- MODULE EventLoop_proof ----------------------------
(* EventLoop.tla for any number of connections and descriptors, any length of  *)
(* the second, and any clock that is set back once.                            *)
EXTENDS EventLoop, FiniteSetTheorems, WellFoundedInduction, TLAPS

-----------------------------------------------------------------------------
(* Arithmetic the provers take as single facts.                                *)

LEMMA DivNat == ASSUME NEW a \in Nat, NEW b \in Nat \ {0} PROVE a \div b \in Nat
  OBVIOUS

LEMMA ProductNat == ASSUME NEW n \in Nat, NEW p \in Nat PROVE n * p \in Nat
  OBVIOUS

\* A time is a number of whole units and what is left over.
LEMMA DivMod ==
  ASSUME NEW a \in Int, NEW b \in Nat, b > 0
  PROVE  /\ a \div b \in Int /\ a % b \in 0..(b - 1)
         /\ a = (a \div b) * b + (a % b)
<1>1. a % b \in 0..(b - 1)
  OBVIOUS
<1>2. a \div b \in Int
  OBVIOUS
<1>3. a = (a \div b) * b + (a % b)
  OBVIOUS
<1> QED BY <1>1, <1>2, <1>3

-----------------------------------------------------------------------------
(* Times in seconds and milliseconds.                                          *)

LEMMA Constants ==
  /\ N \in Nat \ {0} /\ Sec \in Nat /\ Sec > 0 /\ Check \in Nat
  /\ Stagger \in Nat /\ StopAt \in Nat /\ MaxTimers \in Nat
  /\ \A s \in Skews : s \in Nat /\ s <= Sec
  /\ None \notin Fds
  BY ConstantsAssumption DEF None

LEMMA Split ==
  ASSUME NEW t \in Int
  PROVE  /\ Seconds(t) \in Int /\ Millis(t) \in 0..(Sec - 1)
         /\ t = Seconds(t) * Sec + Millis(t) /\ Seconds(t) * Sec \in Int
  BY Constants, DivMod DEF Seconds, Millis

LEMMA SplitNat == ASSUME NEW t \in Nat PROVE Seconds(t) \in Nat
  BY Constants, DivNat DEF Seconds

\* A product with a larger factor is larger by the other one at least.
LEMMA ProductStep ==
  ASSUME NEW a \in Int, NEW b \in Int, a < b, NEW m \in Nat
  PROVE  a * m + m <= b * m /\ a * m \in Int /\ b * m \in Int
  OBVIOUS

LEMMA DigitsOrder ==
  ASSUME NEW a \in Int, NEW b \in Int, a < b, NEW m \in Nat,
         NEW x \in 0..(m - 1), NEW y \in 0..(m - 1)
  PROVE  a * m + x < b * m + y
<1>1. a * m + m <= b * m /\ a * m \in Int /\ b * m \in Int
  BY ProductStep
<1> QED BY <1>1

LEMMA ProductSum ==
  ASSUME NEW a \in Int, NEW b \in Int, NEW m \in Nat
  PROVE  (a - b) * m = a * m - b * m /\ (a - b - 1) * m = a * m - b * m - m
  OBVIOUS

\* Kinds of timers, and lists of them.
Kinds == {"connect", "calibrate", "check", "sample", "delay"}
Timers ==
  [id : Nat, kind : Kinds, conn : Conns \cup {None}, sec : Nat, ms : 0..(Sec - 1)]

TimerOf(id, kind, c, t) == t \in Timers /\ t.id = id /\ t.kind = kind /\ t.conn = c

LEMMA TimeEventType ==
  ASSUME NEW id \in Nat, NEW kind \in Kinds, NEW c \in Conns \cup {None}, NEW msec \in Nat,
         now \in Nat, NEW t, t = TimeEvent(id, kind, c, msec)
  PROVE  TimerOf(id, kind, c, t)
<1>1. now + msec \in Nat
  OBVIOUS
<1>2. Seconds(now + msec) \in Nat /\ Millis(now + msec) \in 0..(Sec - 1)
  BY <1>1, Split, SplitNat
<1> QED BY <1>2 DEF TimeEvent, Timers, TimerOf

LEMMA WhenNat == ASSUME NEW t \in Timers PROVE When(t) \in Nat
<1>1. t.sec \in Nat /\ t.ms \in Nat
  BY Constants DEF Timers
<1> QED BY <1>1, Constants, ProductNat DEF When

\* A timer is due when its time has come, for all that the loop compares seconds
\* first.
LEMMA Digits ==
  ASSUME NEW t \in Timers, NEW clock \in Nat
  PROVE  (Seconds(clock) > t.sec \/ (Seconds(clock) = t.sec /\ Millis(clock) >= t.ms))
           <=> When(t) <= clock
<1>1. PICK a \in Int, x \in 0..(Sec - 1) : a = Seconds(clock) /\ x = Millis(clock)
  BY Split
<1>2. PICK b \in Int, y \in 0..(Sec - 1) : b = t.sec /\ y = t.ms
  BY DEF Timers
<1>3. clock = a * Sec + x /\ When(t) = b * Sec + y /\ a * Sec \in Int /\ b * Sec \in Int
  <2>1. clock = a * Sec + x /\ a * Sec \in Int
    BY <1>1, Split
  <2>2. b * Sec \in Int
    BY Constants
  <2> QED BY <1>2, <2>1, <2>2 DEF When
<1>4. x \in Int /\ y \in Int /\ 0 <= x /\ x < Sec /\ 0 <= y /\ y < Sec /\ Sec \in Nat
  BY Constants
<1>5. CASE b < a
  <2>1. b * Sec + y < a * Sec + x
    BY <1>4, <1>5, DigitsOrder
  <2> QED BY <1>1, <1>2, <1>3, <1>4, <1>5, <2>1
<1>6. CASE a < b
  <2>1. a * Sec + x < b * Sec + y
    BY <1>4, <1>6, DigitsOrder
  <2> QED BY <1>1, <1>2, <1>3, <1>4, <1>6, <2>1
<1>7. CASE a = b
  BY <1>1, <1>2, <1>3, <1>4, <1>7
<1> QED BY <1>5, <1>6, <1>7

LEMMA DueLater ==
  ASSUME NEW t \in Timers, now \in Nat, now' \in Nat, now <= now', IsDue(t)
  PROVE  IsDue(t)'
<1>1. PICK when \in Nat : when = When(t)
  BY WhenNat
<1>2. when <= now /\ (when <= now' => IsDue(t)')
  BY <1>1, Digits DEF IsDue
<1> QED BY <1>2

\* The sleep is what is left until a timer that is not overdue.
LEMMA PollExact ==
  ASSUME NEW t \in Timers, now \in Nat, now <= When(t)
  PROVE  now + PollTimeout(t.sec, t.ms) = When(t)
<1>1. PICK a \in Int, x \in 0..(Sec - 1) : a = Seconds(now) /\ x = Millis(now)
  BY Split
<1>2. PICK b \in Int, y \in 0..(Sec - 1) : b = t.sec /\ y = t.ms
  BY DEF Timers
<1>3. now = a * Sec + x /\ When(t) = b * Sec + y /\ a * Sec \in Int /\ b * Sec \in Int
  <2>1. now = a * Sec + x /\ a * Sec \in Int
    BY <1>1, Split
  <2>2. b * Sec \in Int
    BY Constants
  <2> QED BY <1>2, <2>1, <2>2 DEF When
<1>4. x \in Int /\ y \in Int /\ 0 <= x /\ x < Sec /\ 0 <= y /\ y < Sec /\ Sec \in Nat
  BY Constants
<1>5. a <= b
  <2>1. b < a => b * Sec + y < a * Sec + x
    BY <1>4, DigitsOrder
  <2> QED BY <1>3, <1>4, <2>1
<1>6. CASE y < x
  <2>1. a # b
    BY <1>3, <1>4, <1>6
  <2>2. b - a - 1 \in Nat
    BY <1>5, <2>1
  <2>3. PollTimeout(t.sec, t.ms) = (b - a - 1) * Sec + (y - x + Sec)
    BY <1>1, <1>2, <1>6, <2>2 DEF PollTimeout
  <2> QED BY <1>3, <1>4, <2>3, ProductSum
<1>7. CASE ~(y < x)
  <2>1. b - a \in Nat
    BY <1>5
  <2>2. PollTimeout(t.sec, t.ms) = (b - a) * Sec + (y - x)
    BY <1>1, <1>2, <1>4, <1>7, <2>1 DEF PollTimeout
  <2> QED BY <1>3, <1>4, <2>2, ProductSum
<1> QED BY <1>6, <1>7

LEMMA PollInt == ASSUME NEW t \in Timers, now \in Nat PROVE PollTimeout(t.sec, t.ms) \in Int
<1>1. /\ Seconds(now) \in Int /\ Millis(now) \in Int /\ Sec \in Nat
  BY Split, Constants
<1>2. t.sec \in Int /\ t.ms \in Int
  BY Constants DEF Timers
<1> QED BY <1>1, <1>2 DEF PollTimeout

\* A list that is not empty has a nearest timer.
LEMMA NearestIn ==
  ASSUME timers \in Seq(Timers), timers # <<>>
  PROVE  Nearest \in Timers
<1>1. ToSet(timers) # {} /\ ToSet(timers) \subseteq Timers
  <2>1. 1 \in DOMAIN timers /\ \A i \in DOMAIN timers : timers[i] \in Timers
    OBVIOUS
  <2> QED BY <2>1 DEF ToSet
<1>2. PICK T : T = {When(t) : t \in ToSet(timers)}
  OBVIOUS
<1>3. T \subseteq Nat /\ T # {}
  BY <1>1, <1>2, WhenNat
<1>4. PICK m \in T : \A k \in T : m <= k
  <2>1. PICK rel : rel = OpToRel(<, Nat) /\ IsWellFoundedOn(rel, Nat)
    BY NatLessThanWellFounded
  <2>2. PICK m \in T : \A k \in T : ~(<<k, m>> \in rel)
    BY <1>3, <2>1, WFMin
  <2>3. \A k \in T : ~(k < m)
    BY <1>3, <2>1, <2>2 DEF OpToRel
  <2>4. \A k \in T : m <= k
    BY <1>3, <2>3
  <2> QED BY <2>4
<1>5. \E t \in ToSet(timers) : \A u \in ToSet(timers) : When(t) <= When(u)
  BY <1>2, <1>4
<1> QED BY <1>1, <1>5 DEF Nearest

-----------------------------------------------------------------------------
(* The inductive invariant.                                                    *)

Entry == FileEvents(Procs, Conns \cup {None})
Tables ==
  [events : [Fds -> Entry], epoll : [Fds -> Masks], open : SUBSET Fds,
   fd : [Conns -> Fds \cup {None}], stale : SUBSET Fds]

\* The kernel watches what the table says, and the table what a connection has
\* as its socket.
SoundAt(t, f) ==
  /\ t.epoll[f] = t.events[f].mask
  /\ t.events[f].mask # {} =>
       /\ f \in t.open
       /\ t.events[f].clientData \in Conns
       /\ t.fd[t.events[f].clientData] = f

Sound(t) == t \in Tables /\ \A f \in Fds : SoundAt(t, f)

\* No two timers have one id, nor open one connection.
Apart(s, t) == s.id # t.id /\ ~(s.kind = "connect" /\ t.kind = "connect" /\ s.conn = t.conn)

Distinct(list) ==
  \A i \in DOMAIN list : \A j \in DOMAIN list \ {i} : Apart(list[i], list[j])

InRange(t, next) == t.id < next /\ (t.kind \in {"connect", "delay"} => t.conn \in Conns)

Proper(list, next) ==
  /\ list \in Seq(Timers) /\ Distinct(list)
  /\ \A i \in DOMAIN list : InRange(list[i], next)
  /\ \E i \in DOMAIN list : list[i].kind = "check"

\* A connection that a timer is to open has no socket.
Unopened(list, table) ==
  \A i \in DOMAIN list : list[i].kind = "connect" => table.fd[list[i].conn] = None

Typed ==
  /\ now \in Nat /\ Sec <= now /\ (~skewed => 2 * Sec <= now)
  /\ skewed \in BOOLEAN /\ stop \in BOOLEAN /\ rfired \in BOOLEAN
  /\ pc \in {"top", "asleep", "dispatch", "timers", "done"}
  /\ nextId \in Nat /\ te \in Nat \ {0} /\ lastTime \in Int
  /\ sleep \in [from : Int, until : Int]

\* What epoll reported is of different descriptors; those closed since are the
\* one being served, whose readable half has run, and that is off the table or
\* a new socket with one callback for both halves.
Fired ==
  /\ fired \in Seq([fd : Fds, mask : Masks])
  /\ \A i \in DOMAIN fired : \A j \in DOMAIN fired \ {i} : fired[i].fd # fired[j].fd
  /\ pc = "asleep" => stale = {}

Replaced(table, f) ==
  table.events[f].mask = {} \/ table.events[f].wfileProc = table.events[f].rfileProc

Current ==
  pc = "dispatch" => \A i \in DOMAIN fired :
    /\ i # 1 => fired[i].fd \in open
    /\ fired[i].fd \in stale => i = 1 /\ rfired /\ Replaced(Table, fired[i].fd)

\* What a pass has still to run is ahead of it.
Ahead(list, from, w) ==
  \E i \in DOMAIN list : from <= i /\ list[i].id = w /\ IsDue(list[i])

Passing == ~skewed =>
  IF pc = "timers" THEN \A w \in waiting : w <= maxId /\ Ahead(timers, te, w)
  ELSE waiting = {}

Inv ==
  /\ Typed /\ Proper(timers, nextId) /\ Sound(Table) /\ Unopened(timers, Table)
  /\ Fired /\ Current /\ SleepIsExact /\ Passing

-----------------------------------------------------------------------------
(* Lists of timers.                                                            *)

LEMMA RemoveAtType ==
  ASSUME NEW S, NEW s \in Seq(S), NEW i \in 1..Len(s)
  PROVE  /\ RemoveAt(s, i) \in Seq(S)
         /\ Len(RemoveAt(s, i)) = Len(s) - 1
         /\ \A j \in 1..(Len(s) - 1) :
              RemoveAt(s, i)[j] = IF j < i THEN s[j] ELSE s[j + 1]
<1> DEFINE before == SubSeq(s, 1, i - 1)
           after == SubSeq(s, i + 1, Len(s))
<1>1. /\ before \in Seq(S) /\ Len(before) = i - 1
      /\ \A j \in 1..(i - 1) : before[j] = s[j]
  OBVIOUS
<1>2. /\ after \in Seq(S) /\ Len(after) = Len(s) - i
      /\ \A j \in 1..(Len(s) - i) : after[j] = s[i + j]
  OBVIOUS
<1>3. RemoveAt(s, i) = before \o after
  BY DEF RemoveAt
<1> HIDE DEF before, after
<1>4. RemoveAt(s, i) \in Seq(S) /\ Len(RemoveAt(s, i)) = Len(s) - 1
  BY <1>1, <1>2, <1>3
<1>5. ASSUME NEW j \in 1..(Len(s) - 1)
      PROVE  RemoveAt(s, i)[j] = IF j < i THEN s[j] ELSE s[j + 1]
  <2>1. (before \o after)[j] = IF j <= i - 1 THEN before[j] ELSE after[j - (i - 1)]
    BY <1>1, <1>2
  <2>2. CASE j < i
    BY <1>1, <1>3, <2>1, <2>2
  <2>3. CASE ~(j < i)
    <3>1. j - (i - 1) \in 1..(Len(s) - i) /\ i + (j - (i - 1)) = j + 1
      BY <2>3
    <3> QED BY <1>2, <1>3, <2>1, <2>3, <3>1
  <2> QED BY <2>2, <2>3
<1> QED BY <1>4, <1>5

\* Timer i is gone, and the others are what they were.
Dropped(list, i, new) ==
  /\ new \in Seq(Timers)
  /\ \A j \in DOMAIN new : \E k \in DOMAIN list \ {i} : new[j] = list[k]
  /\ \A k \in DOMAIN list \ {i} : \E j \in DOMAIN new : new[j] = list[k]
  /\ Distinct(new)

LEMMA DropAt ==
  ASSUME NEW list \in Seq(Timers), Distinct(list), NEW i \in DOMAIN list, NEW new,
         new = RemoveAt(list, i)
  PROVE  Dropped(list, i, new)
<1>1. i \in 1..Len(list) /\ Len(list) \in Nat /\ DOMAIN list = 1..Len(list)
  OBVIOUS
<1>2. /\ new \in Seq(Timers) /\ Len(new) = Len(list) - 1
      /\ \A j \in 1..(Len(list) - 1) : new[j] = IF j < i THEN list[j] ELSE list[j + 1]
  BY <1>1, RemoveAtType
<1>3. PICK old : old = [j \in DOMAIN new |-> IF j < i THEN j ELSE j + 1]
  OBVIOUS
<1>4. /\ DOMAIN new = 1..(Len(list) - 1)
      /\ \A j \in DOMAIN new : old[j] \in DOMAIN list \ {i} /\ new[j] = list[old[j]]
      /\ \A j, k \in DOMAIN new : j # k => old[j] # old[k]
  BY <1>1, <1>2, <1>3
<1>5. \A k \in DOMAIN list \ {i} : \E j \in DOMAIN new : new[j] = list[k]
  <2> SUFFICES ASSUME NEW k \in DOMAIN list \ {i}
               PROVE  \E j \in DOMAIN new : new[j] = list[k]
    OBVIOUS
  <2>1. PICK j : j = IF k < i THEN k ELSE k - 1
    OBVIOUS
  <2>2. j \in DOMAIN new /\ old[j] = k
    BY <1>1, <1>3, <1>4, <2>1
  <2> QED BY <1>4, <2>2
<1>6. Distinct(new)
  BY <1>4 DEF Distinct
<1> QED BY <1>2, <1>4, <1>5, <1>6 DEF Dropped

LEMMA DeleteOne ==
  ASSUME NEW list \in Seq(Timers), Distinct(list), NEW i \in DOMAIN list, NEW new,
         new = aeDeleteTimeEvent(list, list[i].id)
  PROVE  Dropped(list, i, new)
<1>1. \A j \in 1..(i - 1) : list[j].id # list[i].id
  BY DEF Distinct, Apart
<1>2. PICK first : first = CHOOSE j \in DOMAIN list :
        list[j].id = list[i].id /\ \A k \in 1..(j - 1) : list[k].id # list[i].id
  OBVIOUS
<1>3. first \in DOMAIN list /\ list[first].id = list[i].id
  BY <1>1, <1>2
<1>4. first = i
  BY <1>3 DEF Distinct, Apart
<1>5. new = RemoveAt(list, i)
  BY <1>2, <1>4 DEF aeDeleteTimeEvent
<1> QED BY <1>5, DropAt

LEMMA DroppedProper ==
  ASSUME NEW list, NEW next, Proper(list, next), NEW i \in DOMAIN list, NEW new,
         Dropped(list, i, new), list[i].kind # "check", NEW table, Unopened(list, table)
  PROVE  Proper(new, next) /\ Unopened(new, table)
<1>1. new \in Seq(Timers) /\ Distinct(new)
  BY DEF Dropped
<1>2. \A j \in DOMAIN new : InRange(new[j], next)
  BY DEF Dropped, Proper
<1>3. \E j \in DOMAIN new : new[j].kind = "check"
  <2>1. PICK k \in DOMAIN list : list[k].kind = "check"
    BY DEF Proper
  <2>2. k \in DOMAIN list \ {i}
    BY <2>1
  <2> QED BY <2>1, <2>2 DEF Dropped
<1>4. Unopened(new, table)
  BY DEF Dropped, Unopened
<1> QED BY <1>1, <1>2, <1>3, <1>4 DEF Proper

\* A new timer comes first.
Added(e, list, new) ==
  /\ new \in Seq(Timers) /\ Len(new) = Len(list) + 1 /\ new[1] = e
  /\ \A i \in DOMAIN list : i + 1 \in DOMAIN new /\ new[i + 1] = list[i]

LEMMA AddFirst ==
  ASSUME NEW list \in Seq(Timers), NEW e \in Timers, NEW new, new = <<e>> \o list
  PROVE  Added(e, list, new)
<1>1. <<e>> \in Seq(Timers) /\ Len(<<e>>) = 1 /\ <<e>>[1] = e
  OBVIOUS
<1>2. /\ new \in Seq(Timers) /\ Len(new) = 1 + Len(list)
      /\ \A i \in 1..(1 + Len(list)) : new[i] = IF i <= 1 THEN <<e>>[i] ELSE list[i - 1]
  BY <1>1
<1> QED BY <1>1, <1>2 DEF Added

LEMMA AddedProper ==
  ASSUME NEW list, NEW next \in Nat, Proper(list, next), NEW e \in Timers, e.id = next,
         e.kind \in {"sample", "delay"}, e.kind = "delay" => e.conn \in Conns,
         NEW new, Added(e, list, new), NEW table, Unopened(list, table)
  PROVE  Proper(new, next + 1) /\ Unopened(new, table)
<1>1. list \in Seq(Timers) /\ new \in Seq(Timers) /\ Len(new) = Len(list) + 1
      /\ Len(list) \in Nat /\ \A i \in DOMAIN list : list[i] \in Timers
  BY DEF Proper, Added
<1>2. \A j \in DOMAIN new : \/ j = 1 /\ new[j] = e
                            \/ j - 1 \in DOMAIN list /\ new[j] = list[j - 1]
  BY <1>1 DEF Added
<1>3. \A i \in DOMAIN list : list[i].id < next /\ list[i].id \in Nat
  BY <1>1 DEF Proper, InRange, Timers
<1>4. \A i \in DOMAIN list : Apart(e, list[i]) /\ Apart(list[i], e)
  BY <1>3 DEF Apart
<1>5. Distinct(new)
  <2> SUFFICES ASSUME NEW i \in DOMAIN new, NEW j \in DOMAIN new \ {i}
               PROVE  Apart(new[i], new[j])
    BY DEF Distinct
  <2>1. i \in Int /\ j \in Int
    BY <1>1
  <2> QED BY <1>2, <1>4, <2>1 DEF Proper, Distinct
<1>6. \A j \in DOMAIN new : InRange(new[j], next + 1)
  BY <1>2, <1>3 DEF Proper, InRange
<1>7. \E j \in DOMAIN new : new[j].kind = "check"
  BY DEF Proper, Added
<1>8. Unopened(new, table)
  BY <1>2 DEF Unopened
<1> QED BY <1>1, <1>5, <1>6, <1>7, <1>8 DEF Proper

\* A timer is set again, or all of them are due.
Reset(list, new) ==
  /\ new \in Seq(Timers) /\ DOMAIN new = DOMAIN list
  /\ \A i \in DOMAIN list : /\ new[i].id = list[i].id /\ new[i].kind = list[i].kind
                            /\ new[i].conn = list[i].conn

LEMMA ResetProper ==
  ASSUME NEW list, NEW next, Proper(list, next), NEW new, Reset(list, new),
         NEW table, Unopened(list, table)
  PROVE  Proper(new, next) /\ Unopened(new, table)
<1>1. Distinct(new)
  BY DEF Reset, Proper, Distinct, Apart
<1>2. \A i \in DOMAIN new : InRange(new[i], next)
  BY DEF Reset, Proper, InRange
<1>3. \E i \in DOMAIN new : new[i].kind = "check"
  BY DEF Reset, Proper
<1>4. Unopened(new, table)
  BY DEF Reset, Unopened
<1> QED BY <1>1, <1>2, <1>3, <1>4 DEF Proper, Reset

LEMMA RearmReset ==
  ASSUME NEW list \in Seq(Timers), NEW i \in DOMAIN list, NEW msec \in Nat, now \in Nat,
         NEW new,
         new = [list EXCEPT ![i] =
                  TimeEvent(list[i].id, list[i].kind, list[i].conn, msec)]
  PROVE  Reset(list, new) /\ \A j \in DOMAIN list \ {i} : new[j] = list[j]
<1>1. list[i] \in Timers
  OBVIOUS
<1>2. PICK id \in Nat, kind \in Kinds, c \in Conns \cup {None} :
        list[i].id = id /\ list[i].kind = kind /\ list[i].conn = c
  BY <1>1 DEF Timers
<1>3. PICK t : t = TimeEvent(id, kind, c, msec)
  OBVIOUS
<1>5. t \in Timers /\ t.id = id /\ t.kind = kind /\ t.conn = c
  <2>1. TimerOf(id, kind, c, TimeEvent(id, kind, c, msec))
    BY TimeEventType
  <2> QED BY <1>3, <2>1 DEF TimerOf
<1>6. new = [list EXCEPT ![i] = t]
  BY <1>2, <1>3
<1>4. new \in Seq(Timers) /\ DOMAIN new = DOMAIN list /\ new[i] = t
      /\ \A j \in DOMAIN list \ {i} : new[j] = list[j]
  BY <1>5, <1>6
<1> QED BY <1>2, <1>4, <1>5 DEF Reset

LEMMA ZeroReset ==
  ASSUME NEW list \in Seq(Timers), NEW new,
         new = [i \in DOMAIN list |-> [list[i] EXCEPT !.sec = 0]]
  PROVE  Reset(list, new)
<1>1. \A i \in DOMAIN list : list[i] \in Timers
  OBVIOUS
<1>2. \A i \in DOMAIN list :
        /\ new[i] \in Timers /\ new[i].id = list[i].id /\ new[i].kind = list[i].kind
        /\ new[i].conn = list[i].conn
  BY <1>1 DEF Timers
<1>3. DOMAIN new = 1..Len(list) /\ Len(list) \in Nat
  OBVIOUS
<1>4. new \in Seq(Timers)
  BY <1>2, <1>3
<1> QED BY <1>2, <1>4 DEF Reset

-----------------------------------------------------------------------------
(* The table and the kernel's list.                                            *)

LEMMA TableFields ==
  ASSUME NEW t \in Tables
  PROVE  /\ t.events \in [Fds -> Entry] /\ t.epoll \in [Fds -> Masks]
         /\ t.open \in SUBSET Fds /\ t.fd \in [Conns -> Fds \cup {None}]
         /\ t.stale \in SUBSET Fds
  BY DEF Tables

LEMMA TableIs ==
  /\ Table.events = events /\ Table.epoll = epoll /\ Table.open = open
  /\ Table.fd = fd /\ Table.stale = stale
  BY DEF Table

LEMMA BecomesIs ==
  ASSUME NEW t \in Tables, BecomesTable(t) PROVE Table' = t
  BY DEF BecomesTable, Table, Tables

LEMMA SameTable == ASSUME UNCHANGED fileVars PROVE Table' = Table
  BY DEF fileVars, Table

\* One descriptor is changed.
Touched(f, t, v) ==
  /\ Sound(v) /\ v.open = t.open /\ v.fd = t.fd /\ v.stale = t.stale
  /\ \A g \in Fds \ {f} : v.events[g] = t.events[g]

Listens(f, c, v) == v.events[f].mask # {} /\ v.events[f].clientData = c

LEMMA AddStep ==
  ASSUME NEW t, Sound(t), NEW f \in Fds, NEW c \in Conns, t.fd[c] = f,
         NEW mask \in Masks, NEW proc \in Procs
  PROVE  /\ Touched(f, t, AddEvent(t, f, mask, proc, c))
         /\ f \in t.open /\ mask = {R, W} =>
              Replaced(AddEvent(t, f, mask, proc, c), f)
         /\ t.events[f].mask # {} => Listens(f, c, AddEvent(t, f, mask, proc, c))
<1>1. t \in Tables /\ SoundAt(t, f)
  BY DEF Sound
<1>2. CASE f \notin t.open
  <2>1. AddEvent(t, f, mask, proc, c) = t /\ t.events[f].mask = {}
    BY <1>1, <1>2 DEF AddEvent, SoundAt
  <2> QED BY <1>2, <2>1 DEF Touched
<1>3. CASE f \in t.open
  <2>1. PICK ev : ev = aeCreateFileEvent(t.events, f, mask, proc, c)
    OBVIOUS
  <2>2. PICK m : m = t.events[f].mask \cup mask
    OBVIOUS
  <2>3. PICK v : v = [t EXCEPT !.events = ev, !.epoll[f] = m]
    OBVIOUS
  <2>4. AddEvent(t, f, mask, proc, c) = v
    BY <1>1, <1>3, <2>1, <2>2, <2>3 DEF AddEvent, SoundAt
  <2>5. t.events \in [Fds -> Entry] /\ t.epoll \in [Fds -> Masks]
        /\ t.fd \in [Conns -> Fds \cup {None}]
    BY <1>1, TableFields
  <2>6. PICK old \in Entry : old = t.events[f]
    BY <2>5
  <2>7. PICK e : e = [mask       |-> old.mask \cup mask,
                      rfileProc  |-> IF R \in mask THEN proc ELSE old.rfileProc,
                      wfileProc  |-> IF W \in mask THEN proc ELSE old.wfileProc,
                      clientData |-> c]
    OBVIOUS
  <2>8. ev = [t.events EXCEPT ![f] = e]
    BY <2>1, <2>6, <2>7 DEF aeCreateFileEvent
  <2>9. e \in Entry /\ m \in Masks /\ e.mask = m /\ e.clientData = c
    BY <2>2, <2>6, <2>7 DEF Entry, FileEvents, Masks
  <2>10. /\ v \in Tables /\ v.events = ev /\ v.epoll = [t.epoll EXCEPT ![f] = m]
         /\ v.open = t.open /\ v.fd = t.fd /\ v.stale = t.stale
    BY <1>1, <2>3, <2>5, <2>8, <2>9 DEF Tables
  <2>11. v.events[f] = e /\ v.epoll[f] = m
         /\ \A g \in Fds \ {f} : v.events[g] = t.events[g] /\ v.epoll[g] = t.epoll[g]
    BY <2>5, <2>8, <2>10
  <2>12. SoundAt(v, f)
    BY <1>3, <2>9, <2>10, <2>11 DEF SoundAt
  <2>13. \A g \in Fds \ {f} : SoundAt(v, g)
    BY <2>10, <2>11 DEF Sound, SoundAt
  <2>14. Touched(f, t, v)
    BY <2>10, <2>11, <2>12, <2>13 DEF Touched, Sound
  <2>15. mask = {R, W} => Replaced(v, f)
    BY <2>7, <2>11 DEF Replaced
  <2>16. t.events[f].mask # {} => Listens(f, c, v)
    BY <2>2, <2>9, <2>11 DEF Listens
  <2> QED BY <1>3, <2>4, <2>14, <2>15, <2>16
<1> QED BY <1>2, <1>3

LEMMA DelStep ==
  ASSUME NEW t, Sound(t), NEW f \in Fds, NEW mask \in Masks
  PROVE  /\ Touched(f, t, DelEvent(t, f, mask))
         /\ mask = {R, W} => DelEvent(t, f, mask).events[f].mask = {}
<1>1. t \in Tables /\ SoundAt(t, f)
  BY DEF Sound
<1>2. CASE t.events[f].mask = {}
  BY <1>2 DEF DelEvent, Touched
<1>3. CASE t.events[f].mask # {}
  <2>1. PICK ev : ev = aeDeleteFileEvent(t.events, f, mask)
    OBVIOUS
  <2>2. PICK m : m = t.events[f].mask \ mask
    OBVIOUS
  <2>3. PICK v : v = [t EXCEPT !.events = ev, !.epoll[f] = m]
    OBVIOUS
  <2>4. t.events \in [Fds -> Entry] /\ t.epoll \in [Fds -> Masks]
        /\ t.fd \in [Conns -> Fds \cup {None}]
    BY <1>1, TableFields
  <2>5. DelEvent(t, f, mask) = v
    <3>1. t.epoll[f] # {}
      BY <1>1, <1>3 DEF SoundAt
    <3> QED BY <1>1, <1>3, <2>1, <2>2, <2>3, <2>4, <3>1 DEF DelEvent, Tables
  <2>6. PICK old \in Entry : old = t.events[f]
    BY <2>4
  <2>7. PICK e : e = [old EXCEPT !.mask = @ \ mask]
    OBVIOUS
  <2>8. ev = [t.events EXCEPT ![f] = e]
    BY <2>1, <2>6, <2>7 DEF aeDeleteFileEvent
  <2>9. e \in Entry /\ m \in Masks /\ e.mask = m /\ e.clientData = old.clientData
    BY <2>2, <2>6, <2>7 DEF Entry, FileEvents, Masks
  <2>10. /\ v \in Tables /\ v.events = ev /\ v.epoll = [t.epoll EXCEPT ![f] = m]
         /\ v.open = t.open /\ v.fd = t.fd /\ v.stale = t.stale
    BY <1>1, <2>3, <2>4, <2>8, <2>9 DEF Tables
  <2>11. v.events[f] = e /\ v.epoll[f] = m
         /\ \A g \in Fds \ {f} : v.events[g] = t.events[g] /\ v.epoll[g] = t.epoll[g]
    BY <2>4, <2>8, <2>10
  <2>12. SoundAt(v, f)
    BY <1>1, <1>3, <2>6, <2>9, <2>10, <2>11 DEF SoundAt
  <2>13. \A g \in Fds \ {f} : SoundAt(v, g)
    BY <2>10, <2>11 DEF Sound, SoundAt
  <2>14. mask = {R, W} => m = {}
    BY <2>2, <2>6 DEF Entry, FileEvents, Masks
  <2> QED BY <2>5, <2>9, <2>10, <2>11, <2>12, <2>13, <2>14 DEF Touched, Sound
<1> QED BY <1>2, <1>3

\* A connection gets a new socket, or stays as it is.
Rewired(c, t, v) ==
  /\ Sound(v) /\ v.stale = t.stale /\ t.open \subseteq v.open
  /\ v.fd[c] = t.fd[c] \/ v.fd[c] \in Fds \ t.open
  /\ \A d \in Conns \ {c} : v.fd[d] = t.fd[d]
  /\ \A f \in Fds : v.events[f] = t.events[f] \/ Replaced(v, f)

LEMMA ConnectsStep ==
  ASSUME NEW t, Sound(t), NEW c \in Conns,
         \A f \in Fds : t.events[f].mask # {} => t.events[f].clientData # c,
         NEW v \in Connects(t, c)
  PROVE  Rewired(c, t, v)
<1>1. t \in Tables /\ t.fd \in [Conns -> Fds \cup {None}] /\ t.open \in SUBSET Fds
  BY TableFields DEF Sound
<1>10. CASE v = t
  BY <1>10 DEF Rewired
<1>11. SUFFICES ASSUME v # t PROVE Rewired(c, t, v)
  BY <1>10
<1>2. PICK f \in Fds \ t.open :
        v = AddEvent([t EXCEPT !.open = @ \cup {f}, !.fd[c] = f], f, {R, W}, "connected", c)
  BY <1>11 DEF Connects
<1>3. PICK u : u = [t EXCEPT !.open = @ \cup {f}, !.fd[c] = f]
  OBVIOUS
<1>4. /\ u \in Tables /\ u.open = t.open \cup {f} /\ u.fd = [t.fd EXCEPT ![c] = f]
      /\ u.events = t.events /\ u.epoll = t.epoll /\ u.stale = t.stale
  BY <1>1, <1>3 DEF Tables
<1>5. u.fd[c] = f /\ \A d \in Conns \ {c} : u.fd[d] = t.fd[d]
  BY <1>1, <1>4
<1>6. \A g \in Fds : SoundAt(u, g)
  BY <1>4, <1>5 DEF Sound, SoundAt
<1>7. Sound(u) /\ f \in u.open
  BY <1>4, <1>6 DEF Sound
<1>8. {R, W} \in Masks /\ "connected" \in Procs
  BY DEF Masks, Procs
<1>9. Touched(f, u, v) /\ Replaced(v, f)
  <2>1. /\ Touched(f, u, AddEvent(u, f, {R, W}, "connected", c))
        /\ Replaced(AddEvent(u, f, {R, W}, "connected", c), f)
    BY <1>2, <1>5, <1>7, <1>8, AddStep
  <2> QED BY <1>2, <1>3, <2>1
<1> QED BY <1>4, <1>5, <1>9 DEF Touched, Rewired

\* A socket is closed after its events are deleted.
LEMMA CloseStep ==
  ASSUME NEW t, Sound(t), NEW f \in Fds, t.events[f].mask = {}
  PROVE  /\ Sound(CloseFd(t, f)) /\ CloseFd(t, f).stale = t.stale \cup {f}
         /\ CloseFd(t, f).open = t.open \ {f}
         /\ CloseFd(t, f).fd = t.fd /\ CloseFd(t, f).events = t.events
<1>1. t \in Tables /\ t.open \in SUBSET Fds /\ t.epoll \in [Fds -> Masks]
      /\ t.stale \in SUBSET Fds /\ {} \in Masks
  BY TableFields DEF Sound, Masks
<1>2. PICK v : v = CloseFd(t, f)
  OBVIOUS
<1>3. /\ v \in Tables /\ v.open = t.open \ {f} /\ v.epoll = [t.epoll EXCEPT ![f] = {}]
      /\ v.stale = t.stale \cup {f} /\ v.fd = t.fd /\ v.events = t.events
  BY <1>1, <1>2 DEF CloseFd, Tables
<1>4. v.epoll[f] = {} /\ \A g \in Fds \ {f} : v.epoll[g] = t.epoll[g]
  BY <1>1, <1>3
<1>5. \A g \in Fds : SoundAt(v, g)
  BY <1>3, <1>4 DEF Sound, SoundAt
<1> QED BY <1>2, <1>3, <1>5 DEF Sound

\* What is closed is the socket of the event, which is then off the table or new, or
\* one opened since.
Reconnected(c, f, t, v) ==
  /\ Sound(v) /\ t.open \ {f} \subseteq v.open
  /\ v.fd[c] \in Fds /\ (v.fd[c] = f \/ v.fd[c] \notin t.open)
  /\ \A d \in Conns \ {c} : v.fd[d] = t.fd[d]
  /\ \A g \in t.open \ {f} : g \in v.stale => g \in t.stale
  /\ Replaced(v, f) /\ \A g \in Fds : v.events[g] = t.events[g] \/ Replaced(v, g)

LEMMA ReconnectsStep ==
  ASSUME NEW t, Sound(t), NEW c \in Conns, NEW f \in Fds, t.fd[c] = f,
         NEW v \in Reconnects(t, c)
  PROVE  Reconnected(c, f, t, v)
<1>1. c \in Conns /\ t.fd[c] = f
  OBVIOUS
<1>2. PICK u : u = DelEvent(t, f, {R, W})
  OBVIOUS
<1>3. Touched(f, t, u) /\ u.events[f].mask = {}
  <2>1. {R, W} \in Masks
    BY DEF Masks
  <2>2. Touched(f, t, DelEvent(t, f, {R, W})) /\ DelEvent(t, f, {R, W}).events[f].mask = {}
    BY <2>1, DelStep
  <2> QED BY <1>2, <2>2
<1>4. PICK w : w = CloseFd(u, f)
  OBVIOUS
<1>5. /\ Sound(w) /\ w.stale = u.stale \cup {f} /\ w.fd = u.fd /\ w.events = u.events
      /\ w.open = u.open \ {f}
  <2>1. /\ CloseFd(u, f).open = u.open \ {f}
        /\ Sound(CloseFd(u, f)) /\ CloseFd(u, f).stale = u.stale \cup {f}
        /\ CloseFd(u, f).fd = u.fd /\ CloseFd(u, f).events = u.events
    BY <1>3, CloseStep DEF Touched
  <2> QED BY <1>4, <2>1
<1>6. v \in Connects(w, c)
  BY <1>1, <1>2, <1>4 DEF Reconnects
<1>7. \A g \in Fds : w.events[g].mask # {} => w.events[g].clientData # c
  <2> SUFFICES ASSUME NEW g \in Fds, w.events[g].mask # {}, w.events[g].clientData = c
               PROVE  FALSE
    OBVIOUS
  <2>1. w.fd[c] = g
    BY <1>5 DEF Sound, SoundAt
  <2>2. g = f
    BY <1>1, <1>3, <1>5, <2>1 DEF Touched
  <2> QED BY <1>3, <1>5, <2>2
<1>8. Rewired(c, w, v)
  BY <1>1, <1>5, <1>6, <1>7, ConnectsStep
<1>9. Replaced(v, f)
  BY <1>3, <1>5, <1>8 DEF Rewired, Replaced
<1>10. v.fd[c] \in Fds /\ (v.fd[c] = f \/ v.fd[c] \notin t.open)
  <2>1. w.fd[c] = f
    BY <1>1, <1>3, <1>5 DEF Touched
  <2> QED BY <1>3, <1>5, <1>8, <2>1 DEF Rewired, Touched
<1>11. \A g \in Fds : v.events[g] = t.events[g] \/ Replaced(v, g)
  BY <1>3, <1>5, <1>8, <1>9 DEF Rewired, Touched
<1> QED BY <1>3, <1>5, <1>8, <1>9, <1>10, <1>11 DEF Rewired, Reconnected, Touched

\* It may do so twice in one callback.
LEMMA ReconnectsTwice ==
  ASSUME NEW t, Sound(t), NEW c \in Conns, NEW f \in Fds, t.fd[c] = f,
         NEW v \in Reconnects(t, c), NEW w \in Reconnects(v, c)
  PROVE  Reconnected(c, f, t, w)
<1>1. Reconnected(c, f, t, v)
  BY ReconnectsStep
<1>2. PICK g \in Fds : g = v.fd[c]
  BY <1>1 DEF Reconnected
<1>3. Reconnected(c, g, v, w)
  BY <1>1, <1>2, ReconnectsStep DEF Reconnected
<1>4. t.open \ {f} \subseteq w.open
  BY <1>1, <1>2, <1>3 DEF Reconnected
<1>5. w.fd[c] = f \/ w.fd[c] \notin t.open
  BY <1>1, <1>2, <1>3 DEF Reconnected
<1>6. \A h \in t.open \ {f} : h \in w.stale => h \in t.stale
  BY <1>1, <1>2, <1>3 DEF Reconnected
<1>7. Replaced(w, f) /\ \A h \in Fds : w.events[h] = t.events[h] \/ Replaced(w, h)
  <2>1. \A h \in Fds : w.events[h] = v.events[h] \/ Replaced(w, h)
    BY <1>3 DEF Reconnected
  <2>2. \A h \in Fds : w.events[h] = v.events[h] /\ Replaced(v, h) => Replaced(w, h)
    BY DEF Replaced
  <2> QED BY <1>1, <2>1, <2>2 DEF Reconnected
<1> QED BY <1>1, <1>3, <1>4, <1>5, <1>6, <1>7 DEF Reconnected

-----------------------------------------------------------------------------
(* Callbacks of sockets.                                                       *)

\* A connection that has a socket has no timer to open it.
LEMMA UnopenedKept ==
  ASSUME NEW t, Sound(t), NEW list, NEW next, Proper(list, next), Unopened(list, t),
         NEW f \in Fds, t.events[f].mask # {}, NEW c, c = t.events[f].clientData,
         NEW v, \A d \in Conns \ {c} : v.fd[d] = t.fd[d]
  PROVE  Unopened(list, v)
<1>1. t.fd[c] # None
  BY Constants DEF Sound, SoundAt
<1>2. \A i \in DOMAIN list : list[i].kind = "connect" => list[i].conn \in Conns \ {c}
  BY <1>1 DEF Unopened, Proper, InRange
<1> QED BY <1>2 DEF Unopened

\* What a callback for an event of a descriptor leaves behind.
Called(f) ==
  /\ Sound(Table')
  /\ Proper(timers', nextId') /\ Unopened(timers', Table') /\ nextId' \in Nat
  /\ open \ {f} \subseteq open'
  /\ \A g \in open \ {f} : g \in stale' => g \in stale
  /\ f \in stale' => f \in stale \/ Replaced(Table', f)
  /\ stop' \in BOOLEAN

LEMMA TouchedCalled ==
  ASSUME Inv, NEW f \in Fds, events[f].mask # {}, NEW g, NEW v, Touched(g, Table, v),
         BecomesTable(v), stop' \in BOOLEAN, UNCHANGED timerVars
  PROVE  Called(f)
<1>1. Table' = v /\ fd' = fd /\ stale' = stale /\ open' = open
  BY BecomesIs, TableIs DEF Touched, Sound, BecomesTable
<1> QED BY <1>1 DEF Touched, Called, Inv, Typed, timerVars, Unopened, Table

LEMMA Callback ==
  ASSUME Inv, NEW f \in Fds, events[f].mask # {}, NEW proc,
         FileCallback(proc, f, events[f].clientData)
  PROVE  Called(f)
<1>1. PICK c : c = events[f].clientData
  OBVIOUS
<1>2. /\ Sound(Table) /\ Table.events = events /\ Table.fd = fd /\ Table.stale = stale
      /\ c \in Conns /\ fd[c] = f
  BY <1>1, TableIs DEF Inv, Sound, SoundAt
<1>3. /\ Proper(timers, nextId) /\ Unopened(timers, Table) /\ nextId \in Nat
      /\ stop \in BOOLEAN /\ now \in Nat /\ timers \in Seq(Timers)
  BY DEF Inv, Typed, Proper
<1>4. /\ {R} \in Masks /\ {W} \in Masks
      /\ "readable" \in Procs /\ "writeable" \in Procs
  BY DEF Masks, Procs
<1>5. CASE /\ BecomesTable(AddEvent(AddEvent(Table, f, {R}, "readable", c),
                                    f, {W}, "writeable", c))
           /\ UNCHANGED <<timerVars, stop>>
  <2>1. PICK u : u = AddEvent(Table, f, {R}, "readable", c)
    OBVIOUS
  <2>2. Touched(f, Table, u)
    BY <1>2, <1>4, <2>1, AddStep
  <2>3. u.fd[c] = f
    BY <1>2, <2>2 DEF Touched
  <2>4. PICK v : v = AddEvent(u, f, {W}, "writeable", c)
    OBVIOUS
  <2>5. Touched(f, u, v)
    <3>1. Sound(u)
      BY <2>2 DEF Touched
    <3>2. Touched(f, u, AddEvent(u, f, {W}, "writeable", c))
      BY <1>2, <1>4, <2>3, <3>1, AddStep
    <3> QED BY <2>4, <3>2
  <2>6. Touched(f, Table, v)
    BY <2>2, <2>5 DEF Touched
  <2> QED BY <1>3, <1>5, <2>1, <2>4, <2>6, TouchedCalled
<1>6. CASE /\ BecomesTable(AddEvent(Table, fd[c], {W}, "writeable", c))
           /\ stop' \in {stop, stop \/ now >= StopAt}
           /\ UNCHANGED timerVars
  <2>1. Touched(f, Table, AddEvent(Table, f, {W}, "writeable", c))
    BY <1>2, <1>4, AddStep
  <2>2. stop' \in BOOLEAN
    BY <1>3, <1>6
  <2> QED BY <1>2, <1>6, <2>1, <2>2, TouchedCalled
<1>7. CASE /\ BecomesTable(DelEvent(Table, fd[c], {W}))
           /\ aeCreateTimeEvent("delay", c, 1) /\ UNCHANGED stop
  <2>1. Touched(f, Table, DelEvent(Table, f, {W}))
    BY <1>2, <1>4, DelStep
  <2>2. Table' = DelEvent(Table, f, {W}) /\ stale' = stale /\ open' = open
    <3>1. BecomesTable(DelEvent(Table, f, {W})) /\ Table.open = open
      BY <1>2, <1>7, TableIs
    <3> QED BY <1>2, <2>1, <3>1, BecomesIs DEF Touched, Sound, BecomesTable
  <2>3. Table'.fd = fd
    BY <1>2, <2>1, <2>2 DEF Touched
  <2>4. Unopened(timers, Table')
    BY <1>2, <1>3, <2>3 DEF Unopened
  <2>5. PICK e : e = TimeEvent(nextId, "delay", c, 1)
    OBVIOUS
  <2>6. TimerOf(nextId, "delay", c, e)
    <3>1. "delay" \in Kinds /\ c \in Conns \cup {None} /\ 1 \in Nat
      BY <1>2 DEF Kinds
    <3>2. TimerOf(nextId, "delay", c, TimeEvent(nextId, "delay", c, 1))
      BY <1>3, <3>1, TimeEventType
    <3> QED BY <2>5, <3>2
  <2>7. Added(e, timers, timers') /\ nextId' = nextId + 1
    BY <1>3, <1>7, <2>5, <2>6, AddFirst DEF aeCreateTimeEvent, TimerOf
  <2>8. Proper(timers', nextId + 1) /\ Unopened(timers', Table')
    BY <1>2, <1>3, <2>4, <2>6, <2>7, AddedProper DEF TimerOf
  <2> QED BY <1>3, <1>7, <2>1, <2>2, <2>7, <2>8 DEF Called, Touched
<1>8. CASE /\ BecomesTable(DelEvent(Table, fd[c], {W}))
           /\ UNCHANGED <<timerVars, stop>>
  <2>1. Touched(f, Table, DelEvent(Table, f, {W}))
    BY <1>2, <1>4, DelStep
  <2> QED BY <1>2, <1>3, <1>8, <2>1, TouchedCalled
<1>9. CASE /\ \E t \in Reconnects(Table, c) :
                BecomesTable(t) \/ \E u \in Reconnects(t, c) : BecomesTable(u)
           /\ stop' \in {stop, stop \/ now >= StopAt}
           /\ UNCHANGED timerVars
  <2>1. PICK v : BecomesTable(v) /\ Reconnected(c, f, Table, v)
    BY <1>2, <1>9, ReconnectsStep, ReconnectsTwice
  <2>2. Table' = v /\ stale' = v.stale /\ open' = v.open /\ Table.open = open
    BY <2>1, BecomesIs, TableIs DEF Reconnected, Sound, BecomesTable
  <2>3. Unopened(timers, v)
    BY <1>1, <1>2, <1>3, <2>1, UnopenedKept DEF Reconnected
  <2>4. stop' \in BOOLEAN
    BY <1>3, <1>9
  <2> QED BY <1>2, <1>3, <1>9, <2>1, <2>2, <2>3, <2>4 DEF Called, Reconnected, timerVars
<1>10. CASE /\ UNCHANGED <<fileVars, timerVars>>
            /\ stop' \in {stop, stop \/ now >= StopAt}
  <2>1. stop' \in BOOLEAN
    BY <1>3, <1>10
  <2> QED BY <1>2, <1>3, <1>10, <2>1, SameTable DEF Called, timerVars, fileVars
<1>11. FileCallback(proc, f, c)
  BY <1>1
<1> QED BY <1>5, <1>6, <1>7, <1>8, <1>9, <1>10, <1>11 DEF FileCallback

-----------------------------------------------------------------------------
(* The steps of the loop.                                                      *)

\* What becomes of the lists and the table when a step leaves them alone.
LEMMA StillSound ==
  ASSUME Inv, UNCHANGED <<timerVars, fileVars>>
  PROVE  Proper(timers', nextId') /\ Sound(Table') /\ Unopened(timers', Table')
  BY SameTable DEF Inv, timerVars

LEMMA StartPollInv == ASSUME Inv, StartPoll PROVE Inv'
<1> USE DEF StartPoll, clockVars, timerVars, passVars
<1>1. timers \in Seq(Timers) /\ timers # <<>>
  BY DEF Inv, Proper
<1>2. PICK t \in Timers : t = Nearest
  BY <1>1, NearestIn
<1>3. PICK d \in Int : d = PollTimeout(Nearest.sec, Nearest.ms)
  BY <1>2, PollInt DEF Inv, Typed
<1>4. Nearest' = Nearest
  BY DEF Nearest
<1>5. SleepIsExact'
  <2>1. now <= When(t) => now + d = When(t)
    BY <1>2, <1>3, PollExact DEF Inv, Typed
  <2> QED BY <1>2, <1>3, <1>4, <2>1 DEF SleepIsExact
<1>6. Typed'
  BY <1>3 DEF Inv, Typed
<1>7. Table' = [Table EXCEPT !.stale = {}]
  BY DEF Table
<1>8. Sound(Table') /\ Unopened(timers', Table') /\ Proper(timers', nextId')
  BY <1>7 DEF Inv, Sound, SoundAt, Tables, Unopened
<1> QED BY <1>5, <1>6, <1>8 DEF Inv, Fired, Current, Passing

LEMMA EndPollInv == ASSUME Inv, EndPoll PROVE Inv'
<1>1. Proper(timers', nextId') /\ Sound(Table') /\ Unopened(timers', Table')
  BY StillSound DEF EndPoll
<1>2. UNCHANGED <<clockVars, timerVars, fileVars, passVars, sleep, lastTime, stop>>
      /\ pc = "asleep" /\ pc' = "dispatch" /\ rfired' = FALSE
  BY DEF EndPoll
<1>3. Typed'
  BY <1>2 DEF Inv, Typed, clockVars, timerVars, passVars
<1>4. Fired'
  <2>1. CASE fired' = <<>>
    BY <1>2, <2>1 DEF Fired
  <2>2. ASSUME NEW S \in SUBSET Listed \ {{}}, NEW order \in SetToSeqs(S),
               NEW masks \in [S -> Masks],
               fired' = [i \in DOMAIN order |-> [fd |-> order[i], mask |-> masks[order[i]]]]
        PROVE  Fired'
    <3>1. S \subseteq Fds /\ IsFiniteSet(S)
      BY ConstantsAssumption, FS_Subset DEF Listed
    <3>2. PICK n \in Nat : n = Cardinality(S)
      BY <3>1, FS_CardinalityType
    <3>3. order \in [1..n -> S] /\ \A i, j \in 1..n : i # j => order[i] # order[j]
      BY <3>2 DEF SetToSeqs
    <3>4. /\ DOMAIN fired' = 1..n
          /\ \A i \in 1..n : fired'[i] \in [fd : Fds, mask : Masks] /\ fired'[i].fd = order[i]
      BY <2>2, <3>1, <3>3
    <3>5. fired' \in Seq([fd : Fds, mask : Masks])
      BY <2>2, <3>3, <3>4
    <3> QED BY <1>2, <3>3, <3>4, <3>5 DEF Fired
  <2> QED BY <2>1, <2>2 DEF EndPoll
<1>5. stale' = {}
  BY <1>2 DEF Inv, Fired, fileVars
<1>6. SleepIsExact' /\ Passing'
  BY <1>2 DEF SleepIsExact, Passing, Inv, clockVars, passVars
<1>7. Current'
  <2>1. \A f \in Listed : f \in open
    <3>1. \A f \in Fds : SoundAt(Table, f)
      BY DEF Inv, Sound
    <3> QED BY <3>1, TableIs DEF Listed, SoundAt
  <2>2. CASE fired' = <<>>
    BY <1>5, <2>2 DEF Current
  <2>3. ASSUME NEW S \in SUBSET Listed \ {{}}, NEW order \in SetToSeqs(S),
               NEW masks \in [S -> Masks],
               fired' = [i \in DOMAIN order |-> [fd |-> order[i], mask |-> masks[order[i]]]]
        PROVE  Current'
    <3>1. order \in [1..Cardinality(S) -> S]
      BY DEF SetToSeqs
    <3>2. \A i \in DOMAIN fired' : fired'[i].fd \in S
      BY <2>3, <3>1
    <3> QED BY <1>2, <1>5, <2>1, <3>2 DEF Current, fileVars
  <2> QED BY <2>2, <2>3 DEF EndPoll
<1> QED BY <1>1, <1>3, <1>4, <1>6, <1>7 DEF Inv

\* Only what is served now can have been closed in this round.
LEMMA ServedLast ==
  ASSUME Inv, pc = "dispatch", fired # <<>>, NEW f, f = Head(fired).fd,
         ~rfired \/ ~Replaced(Table, f)
  PROVE  \A i \in DOMAIN fired : fired[i].fd \notin stale
<1>1. Head(fired) = fired[1]
  BY DEF Inv, Fired
<1> QED BY <1>1 DEF Inv, Current

LEMMA HeadIn ==
  ASSUME NEW S, NEW s \in Seq(S), s # <<>>
  PROVE  Head(s) = s[1] /\ s[1] \in S
  OBVIOUS

LEMMA FirstFired ==
  ASSUME Inv, fired # <<>>
  PROVE  Head(fired) = fired[1] /\ fired[1].fd \in Fds
<1>1. fired \in Seq([fd : Fds, mask : Masks])
  BY DEF Inv, Fired
<1>2. Head(fired) = fired[1] /\ fired[1] \in [fd : Fds, mask : Masks]
  BY <1>1, HeadIn
<1> QED BY <1>2

LEMMA DispatchReadableInv == ASSUME Inv, DispatchReadable PROVE Inv'
<1>1. PICK f : f = Head(fired).fd
  OBVIOUS
<1>2. /\ pc = "dispatch" /\ fired # <<>> /\ ~rfired /\ rfired' = TRUE /\ pc' = pc
      /\ R \in events[f].mask /\ FileCallback(events[f].rfileProc, f, events[f].clientData)
      /\ UNCHANGED <<clockVars, passVars, sleep, fired, lastTime>>
  BY <1>1 DEF DispatchReadable
<1>3. f \in Fds /\ f = fired[1].fd
  BY <1>1, <1>2, FirstFired
<1>4. Called(f)
  BY <1>2, <1>3, Callback
<1>5. Typed'
  BY <1>2, <1>4 DEF Inv, Typed, Called, clockVars, passVars
<1>6. Fired' /\ SleepIsExact' /\ Passing'
  BY <1>2 DEF Inv, Fired, SleepIsExact, Passing, clockVars, passVars
<1>7. Current'
  <2>1. \A i \in DOMAIN fired : fired[i].fd \notin stale
    BY <1>1, <1>2, ServedLast
  <2>2. 1 \in DOMAIN fired /\ \A i \in DOMAIN fired : i # 1 => fired[i].fd \in open \ {f}
    <3>1. 1 \in DOMAIN fired
      BY <1>2 DEF Inv, Fired
    <3> QED BY <1>2, <1>3, <3>1 DEF Inv, Current, Fired
  <2>3. \A i \in DOMAIN fired : fired[i].fd \in stale' => i = 1 /\ Replaced(Table', f)
    BY <1>3, <1>4, <2>1, <2>2 DEF Called
  <2>4. \A i \in DOMAIN fired : i # 1 => fired[i].fd \in open'
    BY <1>4, <2>2 DEF Called
  <2> QED BY <1>2, <1>3, <2>3, <2>4 DEF Current
<1> QED BY <1>4, <1>5, <1>6, <1>7 DEF Inv, Called

LEMMA DispatchWritableInv == ASSUME Inv, DispatchWritable PROVE Inv'
<1>1. PICK f : f = Head(fired).fd
  OBVIOUS
<1>2. /\ pc = "dispatch" /\ fired # <<>> /\ rfired' = FALSE /\ pc' = pc
      /\ fired' = Tail(fired)
      /\ UNCHANGED <<clockVars, passVars, sleep, lastTime>>
  BY DEF DispatchWritable
<1>3. /\ f \in Fds /\ f = fired[1].fd
      /\ Tail(fired) \in Seq([fd : Fds, mask : Masks])
      /\ \A i \in DOMAIN Tail(fired) :
           i + 1 \in DOMAIN fired \ {1} /\ Tail(fired)[i] = fired[i + 1]
      /\ \A i, j \in DOMAIN Tail(fired) : i # j => i + 1 # j + 1
  <2>1. fired \in Seq([fd : Fds, mask : Masks])
    BY DEF Inv, Fired
  <2>2. f \in Fds /\ f = fired[1].fd
    BY <1>1, <1>2, FirstFired
  <2>3. Tail(fired) \in Seq([fd : Fds, mask : Masks]) /\ Len(Tail(fired)) = Len(fired) - 1
    BY <1>2, <2>1
  <2>4. \A i \in 1..(Len(fired) - 1) :
           i + 1 \in DOMAIN fired \ {1} /\ Tail(fired)[i] = fired[i + 1]
    BY <1>2, <2>1
  <2> QED BY <2>2, <2>3, <2>4
<1>4. Fired'
  BY <1>2, <1>3 DEF Inv, Fired
<1>5. SleepIsExact' /\ Passing'
  BY <1>2 DEF Inv, SleepIsExact, Passing, clockVars, passVars
<1>6. CASE WantsWritable(Head(fired))
           /\ FileCallback(events[f].wfileProc, f, events[f].clientData)
  <2>1. Called(f)
    BY <1>1, <1>3, <1>6, Callback DEF WantsWritable
  <2>2. ~rfired \/ ~Replaced(Table, f)
    BY <1>1, <1>6, TableIs DEF WantsWritable, Replaced
  <2>3. \A i \in DOMAIN fired : fired[i].fd \notin stale
    BY <1>1, <1>2, <2>2, ServedLast
  <2>6. \A i \in DOMAIN fired' : fired'[i].fd \in open \ {f}
    <3>1. 1 \in DOMAIN fired
      BY <1>2 DEF Inv, Fired
    <3>2. \A i \in DOMAIN fired : i # 1 => fired[i].fd \in open /\ fired[i].fd # f
      BY <1>2, <1>3, <3>1 DEF Inv, Current, Fired
    <3> QED BY <1>2, <1>3, <3>2
  <2>4. \A i \in DOMAIN fired' : fired'[i].fd \notin stale' /\ fired'[i].fd \in open'
    <3>1. \A i \in DOMAIN fired' : fired'[i].fd \notin stale
      BY <1>2, <1>3, <2>3
    <3> QED BY <2>1, <2>6, <3>1 DEF Called
  <2>5. Typed'
    BY <1>2, <2>1 DEF Inv, Typed, Called, clockVars, passVars
  <2> QED BY <1>4, <1>5, <2>1, <2>4, <2>5 DEF Inv, Current, Called
<1>7. CASE UNCHANGED <<fileVars, timerVars, stop>>
  <2>1. \A i \in DOMAIN fired' : fired'[i].fd \notin stale' /\ fired'[i].fd \in open'
    <3>1. \A i \in DOMAIN fired : i # 1 => fired[i].fd \notin stale /\ fired[i].fd \in open
      BY <1>2 DEF Inv, Current
    <3>2. stale' = stale /\ open' = open
      BY <1>7 DEF fileVars
    <3> QED BY <1>2, <1>3, <3>1, <3>2
  <2>2. Typed'
    BY <1>2, <1>7 DEF Inv, Typed, clockVars, passVars, timerVars
  <2> QED BY <1>4, <1>5, <1>7, <2>1, <2>2, StillSound DEF Inv, Current
<1> QED BY <1>1, <1>6, <1>7 DEF DispatchWritable

LEMMA StartTimersInv == ASSUME Inv, StartTimers PROVE Inv'
<1>1. /\ pc = "dispatch" /\ pc' = "timers" /\ fired' = fired /\ te' = 1
      /\ maxId' = nextId - 1 /\ lastTime' = Seconds(now)
      /\ UNCHANGED <<clockVars, nextId, fileVars, sleep, rfired, stop>>
  BY DEF StartTimers
<1>2. /\ Proper(timers, nextId) /\ Unopened(timers, Table) /\ Sound(Table)
      /\ timers \in Seq(Timers) /\ nextId \in Nat
  BY DEF Inv, Proper, Typed
<1>3. timers' = timers \/ Reset(timers, timers')
  BY <1>2, ZeroReset DEF StartTimers
<1>4. Proper(timers', nextId) /\ Unopened(timers', Table)
  BY <1>2, <1>3, ResetProper
<1>5. Table' = Table
  BY <1>1, SameTable
<1>6. Seconds(now) \in Int
  BY Split DEF Inv, Typed
<1>7. Typed'
  BY <1>1, <1>6 DEF Inv, Typed, clockVars
<1>8. Passing'
  <2>1. /\ DOMAIN timers' = DOMAIN timers /\ \A i \in DOMAIN timers : i \in Nat /\ 1 <= i
        /\ waiting' = {timers'[i].id : i \in {j \in DOMAIN timers : IsDue(timers'[j])}}
    <3>1. DOMAIN timers' = DOMAIN timers
      BY <1>3 DEF Reset
    <3>2. \A i \in DOMAIN timers : i \in Nat /\ 1 <= i
      BY <1>2
    <3> QED BY <3>1, <3>2 DEF StartTimers
  <2>2. \A i \in DOMAIN timers' : timers'[i].id < nextId /\ timers'[i].id \in Nat
    <3>1. \A i \in DOMAIN timers' : timers'[i] \in Timers
      BY <1>4 DEF Proper
    <3> QED BY <1>4, <3>1 DEF Proper, InRange, Timers
  <2>3. now' = now
    BY <1>1 DEF clockVars
  <2>4. ASSUME NEW w \in waiting' PROVE w <= maxId' /\ Ahead(timers, te, w)'
    <3>1. PICK i \in DOMAIN timers : IsDue(timers'[i]) /\ w = timers'[i].id
      BY <2>1, <2>4
    <3>2. IsDue(timers[i])'
      BY <2>3, <3>1 DEF IsDue
    <3> QED BY <1>1, <1>2, <2>1, <2>2, <3>1, <3>2 DEF Ahead
  <2> QED BY <1>1, <2>4 DEF Passing
<1>9. Fired' /\ Current' /\ SleepIsExact'
  BY <1>1 DEF Inv, Fired, Current, SleepIsExact
<1> QED BY <1>1, <1>2, <1>4, <1>5, <1>7, <1>8, <1>9 DEF Inv

LEMMA SkipTimerInv == ASSUME Inv, SkipTimer PROVE Inv'
<1>1. /\ pc = "timers" /\ te <= Len(timers) /\ ~Passes(timers[te]) /\ te' = te + 1
      /\ UNCHANGED <<clockVars, timerVars, fileVars, pc, maxId, waiting, sleep, fired,
                     rfired, lastTime, stop>>
  BY DEF SkipTimer
<1>2. Proper(timers', nextId') /\ Sound(Table') /\ Unopened(timers', Table')
  BY <1>1, StillSound
<1>3. Typed'
  BY <1>1 DEF Inv, Typed, clockVars, timerVars
<1>4. te \in Nat /\ \A i \in DOMAIN timers : i \in Nat
  BY DEF Inv, Typed, Proper
<1>5. Passing'
  <2>1. ASSUME NEW w \in waiting, w <= maxId, Ahead(timers, te, w)
        PROVE  Ahead(timers, te + 1, w)
    <3>1. PICK i \in DOMAIN timers : te <= i /\ timers[i].id = w /\ IsDue(timers[i])
      BY <2>1 DEF Ahead
    <3>2. i # te
      BY <1>1, <2>1, <3>1 DEF Passes
    <3> QED BY <1>4, <3>1, <3>2 DEF Ahead
  <2>2. \A w \in waiting : Ahead(timers, te + 1, w) => Ahead(timers, te, w)'
    BY <1>1 DEF Ahead, IsDue, clockVars, timerVars
  <2> QED BY <1>1, <2>1, <2>2 DEF Inv, Passing, clockVars
<1>6. Fired' /\ Current' /\ SleepIsExact'
  BY <1>1 DEF Inv, Fired, Current, SleepIsExact, fileVars
<1> QED BY <1>2, <1>3, <1>5, <1>6 DEF Inv

\* What a timer leaves behind: the other timers are still in the list.
Ran ==
  /\ Sound(Table')
  /\ Proper(timers', nextId') /\ Unopened(timers', Table') /\ nextId' \in Nat
  /\ \A k \in DOMAIN timers \ {te} : \E j \in DOMAIN timers' : timers'[j] = timers[k]

\* A timer that is not deleted is set again.
LEMMA RearmRan ==
  ASSUME Inv, te \in DOMAIN timers, NEW msec \in Nat, Rearm(timers[te], msec),
         UNCHANGED fileVars
  PROVE  Ran
<1>1. /\ Proper(timers, nextId) /\ Unopened(timers, Table) /\ Sound(Table)
      /\ timers \in Seq(Timers) /\ nextId \in Nat /\ now \in Nat
  BY DEF Inv, Proper, Typed
<1>2. Reset(timers, timers') /\ \A j \in DOMAIN timers \ {te} : timers'[j] = timers[j]
  BY <1>1, RearmReset DEF Rearm
<1>3. Proper(timers', nextId) /\ Unopened(timers', Table)
  BY <1>1, <1>2, ResetProper
<1>4. DOMAIN timers' = DOMAIN timers
  BY <1>2 DEF Reset
<1> QED BY <1>1, <1>2, <1>3, <1>4, SameTable DEF Ran, Rearm

\* The timer that opens a connection runs once: nobody else opens it.
LEMMA ConnectRan ==
  ASSUME Inv, te \in DOMAIN timers, timers[te].kind = "connect", NoMore(timers[te]),
         NEW v \in Connects(Table, timers[te].conn), BecomesTable(v)
  PROVE  Ran
<1>1. /\ Proper(timers, nextId) /\ Unopened(timers, Table) /\ Sound(Table)
      /\ timers \in Seq(Timers) /\ Distinct(timers) /\ nextId \in Nat
  BY DEF Inv, Proper, Typed
<1>2. PICK c : c = timers[te].conn
  OBVIOUS
<1>3. c \in Conns /\ Table.fd[c] = None
  BY <1>1, <1>2 DEF Proper, InRange, Unopened
<1>4. \A f \in Fds : Table.events[f].mask # {} => Table.events[f].clientData # c
  BY <1>1, <1>3, Constants DEF Sound, SoundAt
<1>5. Rewired(c, Table, v)
  BY <1>1, <1>2, <1>3, <1>4, ConnectsStep
<1>6. Table' = v
  BY <1>5, BecomesIs DEF Rewired, Sound
<1>7. Dropped(timers, te, timers')
  BY <1>1, DeleteOne DEF NoMore
<1>8. Proper(timers', nextId)
  BY <1>1, <1>7, DroppedProper
<1>9. Unopened(timers', v)
  <2> SUFFICES ASSUME NEW j \in DOMAIN timers', timers'[j].kind = "connect"
               PROVE  v.fd[timers'[j].conn] = None
    BY DEF Unopened
  <2>1. PICK k \in DOMAIN timers \ {te} : timers'[j] = timers[k]
    BY <1>7 DEF Dropped
  <2>2. timers[k].conn \in Conns \ {c} /\ Table.fd[timers[k].conn] = None
    BY <1>1, <1>2, <2>1 DEF Proper, InRange, Distinct, Apart, Unopened
  <2> QED BY <1>5, <2>1, <2>2 DEF Rewired
<1> QED BY <1>1, <1>5, <1>6, <1>7, <1>8, <1>9 DEF Ran, Rewired, Dropped, NoMore

\* A connection whose wait is over asks to be told when it can write.
LEMMA DelayRan ==
  ASSUME Inv, te \in DOMAIN timers, timers[te].kind = "delay", NoMore(timers[te]),
         BecomesTable(AddEvent(Table, fd[timers[te].conn], {W}, "writeable",
                               timers[te].conn))
  PROVE  Ran
<1>1. /\ Proper(timers, nextId) /\ Unopened(timers, Table) /\ Sound(Table)
      /\ timers \in Seq(Timers) /\ Distinct(timers) /\ nextId \in Nat
  BY DEF Inv, Proper, Typed
<1>2. PICK c : c = timers[te].conn
  OBVIOUS
<1>3. c \in Conns /\ Table.fd = fd /\ Table.fd \in [Conns -> Fds \cup {None}]
      /\ Table.open \in SUBSET Fds
  <2>1. InRange(timers[te], nextId)
    BY <1>1 DEF Proper
  <2> QED BY <1>1, <1>2, <2>1, TableIs, TableFields DEF InRange, Sound
<1>4. PICK f \in Fds \cup {None} : f = fd[c]
  BY <1>3
<1>5. PICK v : v = AddEvent(Table, f, {W}, "writeable", c)
  OBVIOUS
<1>6. Sound(v) /\ v.fd = Table.fd
  <2>1. CASE f = None
    <3>1. f \notin Table.open
      BY <1>3, <2>1, Constants
    <3>2. v = Table
      BY <1>5, <3>1 DEF AddEvent
    <3> QED BY <1>1, <3>2
  <2>2. CASE f \in Fds
    <3>1. {W} \in Masks /\ "writeable" \in Procs /\ Table.fd[c] = f
      BY <1>3, <1>4 DEF Masks, Procs
    <3>2. Touched(f, Table, AddEvent(Table, f, {W}, "writeable", c))
      BY <1>1, <1>3, <2>2, <3>1, AddStep
    <3> QED BY <1>5, <3>2 DEF Touched
  <2> QED BY <2>1, <2>2
<1>7. Table' = v
  BY <1>2, <1>4, <1>5, <1>6, BecomesIs DEF Sound
<1>8. Dropped(timers, te, timers')
  BY <1>1, DeleteOne DEF NoMore
<1>9. Proper(timers', nextId) /\ Unopened(timers', Table)
  BY <1>1, <1>8, DroppedProper
<1>10. Unopened(timers', v)
  BY <1>6, <1>9 DEF Unopened
<1> QED BY <1>1, <1>6, <1>7, <1>8, <1>9, <1>10 DEF Ran, Dropped, NoMore

\* The calibration makes way for the sampling, with a new id.
LEMMA CalibrateRan ==
  ASSUME Inv, te \in DOMAIN timers, timers[te].kind = "calibrate",
         timers' = <<TimeEvent(nextId, "sample", None, Check)>> \o
                     aeDeleteTimeEvent(timers, timers[te].id),
         nextId' = nextId + 1, UNCHANGED fileVars
  PROVE  Ran
<1>1. /\ Proper(timers, nextId) /\ Unopened(timers, Table) /\ Sound(Table)
      /\ timers \in Seq(Timers) /\ Distinct(timers) /\ nextId \in Nat /\ now \in Nat
  BY DEF Inv, Proper, Typed
<1>2. PICK rest : rest = aeDeleteTimeEvent(timers, timers[te].id)
  OBVIOUS
<1>3. Dropped(timers, te, rest)
  BY <1>1, <1>2, DeleteOne
<1>4. Proper(rest, nextId) /\ Unopened(rest, Table)
  BY <1>1, <1>3, DroppedProper
<1>5. PICK e : e = TimeEvent(nextId, "sample", None, Check)
  OBVIOUS
<1>6. TimerOf(nextId, "sample", None, e)
  <2>1. "sample" \in Kinds /\ None \in Conns \cup {None} /\ Check \in Nat
    BY Constants DEF Kinds
  <2>2. TimerOf(nextId, "sample", None, TimeEvent(nextId, "sample", None, Check))
    BY <1>1, <2>1, TimeEventType
  <2> QED BY <1>5, <2>2
<1>7. Added(e, rest, timers')
  <2>1. rest \in Seq(Timers) /\ e \in Timers /\ timers' = <<e>> \o rest
    BY <1>2, <1>3, <1>5, <1>6 DEF Dropped, TimerOf
  <2> QED BY <2>1, AddFirst
<1>8. Proper(timers', nextId + 1) /\ Unopened(timers', Table)
  BY <1>1, <1>4, <1>6, <1>7, AddedProper DEF TimerOf
<1>9. \A k \in DOMAIN timers \ {te} : \E j \in DOMAIN timers' : timers'[j] = timers[k]
  BY <1>3, <1>7 DEF Dropped, Added
<1> QED BY <1>1, <1>8, <1>9, SameTable DEF Ran

LEMMA RunTimerInv == ASSUME Inv, RunTimer PROVE Inv'
<1>1. /\ pc = "timers" /\ te <= Len(timers) /\ te' = 1 /\ waiting' = waiting \ {timers[te].id}
      /\ UNCHANGED <<clockVars, pc, maxId, sleep, fired, rfired, lastTime>>
  BY DEF RunTimer
<1>2. timers \in Seq(Timers) /\ te \in DOMAIN timers /\ now \in Nat /\ stop \in BOOLEAN
  BY <1>1 DEF Inv, Proper, Typed
<1>3. Check \in Nat /\ 1 \in Nat
  BY Constants
<1>4. Ran /\ stop' \in BOOLEAN
  <2>1. CASE timers[te].kind = "connect"
    BY <1>2, <2>1, ConnectRan DEF RunTimer
  <2>2. CASE timers[te].kind = "delay"
    BY <1>2, <1>3, <2>2, RearmRan, DelayRan DEF RunTimer
  <2>3. CASE timers[te].kind = "calibrate"
    BY <1>2, <1>3, <2>3, RearmRan, CalibrateRan DEF RunTimer
  <2>4. CASE timers[te].kind = "sample"
    BY <1>2, <1>3, <2>4, RearmRan DEF RunTimer
  <2>5. CASE timers[te].kind = "check"
    BY <1>2, <1>3, <2>5, RearmRan DEF RunTimer, check_timeouts
  <2> QED BY <2>1, <2>2, <2>3, <2>4, <2>5 DEF RunTimer
<1>5. Typed'
  BY <1>1, <1>4 DEF Inv, Typed, Ran, clockVars
<1>6. Passing'
  <2>1. \A i \in DOMAIN timers' : i \in Nat /\ 1 <= i
    BY <1>4 DEF Ran, Proper
  <2>2. ASSUME NEW w \in waiting', Ahead(timers, te, w) PROVE Ahead(timers, te, w)'
    <3>1. PICK k \in DOMAIN timers : timers[k].id = w /\ IsDue(timers[k])
      BY <2>2 DEF Ahead
    <3>2. k # te
      BY <1>1, <3>1
    <3>3. PICK j \in DOMAIN timers' : timers'[j] = timers[k]
      BY <1>4, <3>2 DEF Ran
    <3>4. IsDue(timers[j])'
      BY <1>1, <3>1, <3>3 DEF IsDue, clockVars
    <3> QED BY <1>1, <2>1, <3>1, <3>3, <3>4 DEF Ahead
  <2> QED BY <1>1, <2>2 DEF Inv, Passing, clockVars
<1>7. Fired' /\ Current' /\ SleepIsExact'
  BY <1>1 DEF Inv, Fired, Current, SleepIsExact
<1> QED BY <1>4, <1>5, <1>6, <1>7 DEF Inv, Ran

LEMMA EndTimersInv == ASSUME Inv, EndTimers PROVE Inv'
<1>1. /\ pc = "timers" /\ te > Len(timers) /\ pc' = "top"
      /\ UNCHANGED <<clockVars, timerVars, fileVars, passVars, sleep, fired, rfired,
                     lastTime, stop>>
  BY DEF EndTimers
<1>2. Proper(timers', nextId') /\ Sound(Table') /\ Unopened(timers', Table')
  BY <1>1, StillSound
<1>3. Typed'
  BY <1>1 DEF Inv, Typed, clockVars, timerVars, passVars
<1>4. Passing'
  <2>1. Len(timers) \in Nat /\ te \in Nat /\ \A i \in DOMAIN timers : i \in Nat /\ i <= Len(timers)
    BY DEF Inv, Typed, Proper
  <2>2. ~skewed => waiting = {}
    BY <1>1, <2>1 DEF Inv, Passing, Ahead
  <2> QED BY <1>1, <2>2 DEF Passing, clockVars, passVars
<1>5. Fired' /\ Current' /\ SleepIsExact'
  BY <1>1 DEF Inv, Fired, Current, SleepIsExact, fileVars
<1> QED BY <1>2, <1>3, <1>4, <1>5 DEF Inv

LEMMA LeaveInv == ASSUME Inv, Leave PROVE Inv'
<1>1. /\ pc = "top" /\ pc' = "done"
      /\ UNCHANGED <<clockVars, timerVars, fileVars, passVars, sleep, fired, rfired,
                     lastTime, stop>>
  BY DEF Leave
<1>2. Proper(timers', nextId') /\ Sound(Table') /\ Unopened(timers', Table')
  BY <1>1, StillSound
<1>3. Typed'
  BY <1>1 DEF Inv, Typed, clockVars, timerVars, passVars
<1>4. Fired' /\ Current' /\ SleepIsExact' /\ Passing'
  BY <1>1 DEF Inv, Fired, Current, SleepIsExact, Passing, fileVars, clockVars, passVars
<1> QED BY <1>2, <1>3, <1>4 DEF Inv

-----------------------------------------------------------------------------
(* The clock.                                                                  *)

LEMMA TickInv == ASSUME Inv, Tick PROVE Inv'
<1>1. now' = now + 1 /\ UNCHANGED <<skewed, timerVars, fileVars, loopVars, stop>>
  BY DEF Tick
<1>2. Proper(timers', nextId') /\ Sound(Table') /\ Unopened(timers', Table')
  BY <1>1, StillSound
<1>3. Sec \in Nat /\ now \in Nat /\ now <= now' /\ now' \in Nat
  BY <1>1, Constants DEF Inv, Typed
<1>4. Typed'
  BY <1>1, <1>3 DEF Inv, Typed, timerVars, loopVars, passVars
<1>5. Passing'
  <2>1. ASSUME NEW w \in waiting, Ahead(timers, te, w) PROVE Ahead(timers, te, w)'
    <3>1. PICK i \in DOMAIN timers : te <= i /\ timers[i].id = w /\ IsDue(timers[i])
      BY <2>1 DEF Ahead
    <3>2. PICK t : t = timers[i]
      OBVIOUS
    <3>3. t \in Timers
      BY <3>2 DEF Inv, Proper
    <3>4. IsDue(t)'
      BY <1>3, <3>1, <3>2, <3>3, DueLater
    <3>5. IsDue(timers[i])' /\ timers' = timers /\ te' = te
      BY <1>1, <3>2, <3>4 DEF IsDue, timerVars, loopVars, passVars
    <3> QED BY <3>1, <3>5 DEF Ahead
  <2> QED BY <1>1, <2>1 DEF Inv, Passing, loopVars, passVars
<1>6. Nearest' = Nearest
  BY <1>1 DEF Nearest, timerVars
<1>7. Fired' /\ Current' /\ SleepIsExact'
  BY <1>1, <1>6 DEF Inv, Fired, Current, SleepIsExact, fileVars, loopVars, Table
<1> QED BY <1>2, <1>4, <1>5, <1>7 DEF Inv

LEMMA SetBackInv == ASSUME Inv, SetBack PROVE Inv'
<1>1. ~skewed /\ skewed' = TRUE
      /\ UNCHANGED <<timerVars, fileVars, pc, passVars, fired, rfired, lastTime, stop>>
  BY DEF SetBack
<1>2. PICK s \in Skews : /\ now' = now - s
                         /\ sleep' = [from |-> sleep.from - s, until |-> sleep.until - s]
  BY DEF SetBack
<1>3. Proper(timers', nextId') /\ Sound(Table') /\ Unopened(timers', Table')
  BY <1>1, StillSound
<1>4. Typed'
  <2>1. s \in Nat /\ s <= Sec /\ Sec \in Nat /\ now \in Nat /\ 2 * Sec <= now
    BY <1>1, <1>2, Constants DEF Inv, Typed
  <2>2. now' \in Nat /\ Sec <= now'
    BY <1>2, <2>1
  <2>3. sleep' \in [from : Int, until : Int]
    BY <1>2, <2>1 DEF Inv, Typed
  <2> QED BY <1>1, <2>2, <2>3 DEF Inv, Typed, timerVars, passVars
<1>5. Fired' /\ Current' /\ SleepIsExact' /\ Passing'
  BY <1>1 DEF Inv, Fired, Current, SleepIsExact, Passing, fileVars, Table
<1> QED BY <1>3, <1>4, <1>5 DEF Inv

-----------------------------------------------------------------------------
(* The beginning.                                                              *)

LEMMA Joined ==
  ASSUME NEW S, NEW s \in Seq(S), NEW t \in Seq(S)
  PROVE  /\ s \o t \in Seq(S) /\ Len(s \o t) = Len(s) + Len(t)
         /\ \A i \in 1..(Len(s) + Len(t)) :
              (s \o t)[i] = IF i <= Len(s) THEN s[i] ELSE t[i - Len(s)]
  OBVIOUS

\* The timers thread_main starts with.
Starting(list) ==
  /\ list \in Seq(Timers) /\ Len(list) = N + 2
  /\ list[1].id = N + 1 /\ list[1].kind = "check"
  /\ list[2].id = N /\ list[2].kind = "calibrate"
  /\ \A i \in Conns : /\ list[i + 2].id = N - i /\ list[i + 2].kind = "connect"
                      /\ list[i + 2].conn = N + 1 - i

LEMMA InitStarting == ASSUME Init PROVE Starting(timers) /\ now \in Nat
<1>1. N \in Nat /\ N > 0 /\ Sec \in Nat /\ Check \in Nat /\ Stagger \in Nat
  BY Constants
<1>2. now \in Nat
  BY <1>1 DEF Init
<1>3. PICK a, b : /\ a = TimeEvent(N + 1, "check", None, Check)
                  /\ b = TimeEvent(N, "calibrate", None, Check)
  OBVIOUS
<1>4. PICK l : l = [i \in Conns |-> TimeEvent(N - i, "connect", N + 1 - i, (N - i) * Stagger)]
  OBVIOUS
<1>5. timers = <<a, b>> \o l
  BY <1>3, <1>4 DEF Init
<1>6. TimerOf(N + 1, "check", None, a) /\ TimerOf(N, "calibrate", None, b)
  <2>1. /\ "check" \in Kinds /\ "calibrate" \in Kinds /\ None \in Conns \cup {None}
        /\ N + 1 \in Nat
    BY <1>1 DEF Kinds
  <2>2. TimerOf(N + 1, "check", None, TimeEvent(N + 1, "check", None, Check))
    BY <1>1, <1>2, <2>1, TimeEventType
  <2>3. TimerOf(N, "calibrate", None, TimeEvent(N, "calibrate", None, Check))
    BY <1>1, <1>2, <2>1, TimeEventType
  <2> QED BY <1>3, <2>2, <2>3
<1>7. \A i \in Conns : TimerOf(N - i, "connect", N + 1 - i, l[i])
  <2> SUFFICES ASSUME NEW i \in Conns PROVE TimerOf(N - i, "connect", N + 1 - i, l[i])
    OBVIOUS
  <2>1. i \in Nat /\ 1 <= i /\ i <= N
    BY <1>1 DEF Conns
  <2>2. PICK id \in Nat, c \in Conns : id = N - i /\ c = N + 1 - i
    BY <1>1, <2>1 DEF Conns
  <2>3. PICK msec \in Nat : msec = id * Stagger
    BY <1>1, <2>2, ProductNat
  <2>4. l[i] = TimeEvent(id, "connect", c, msec)
    BY <1>4, <2>2, <2>3
  <2>5. "connect" \in Kinds /\ c \in Conns \cup {None}
    BY DEF Kinds
  <2>6. TimerOf(id, "connect", c, TimeEvent(id, "connect", c, msec))
    BY <1>2, <2>5, TimeEventType
  <2> QED BY <2>2, <2>4, <2>6
<1>8. l \in Seq(Timers) /\ Len(l) = N
  <2>1. l \in [1..N -> Timers]
    BY <1>4, <1>7 DEF TimerOf, Conns
  <2> QED BY <1>1, <2>1
<1>9. a \in Timers /\ b \in Timers
  BY <1>6 DEF TimerOf
<1>10. PICK h : h = <<a, b>>
  OBVIOUS
<1>11. h \in Seq(Timers) /\ Len(h) = 2 /\ h[1] = a /\ h[2] = b
  BY <1>9, <1>10
<1>12. timers = h \o l
  BY <1>5, <1>10
<1>13. /\ timers \in Seq(Timers) /\ Len(timers) = 2 + N
       /\ \A i \in 1..(2 + N) : timers[i] = IF i <= 2 THEN h[i] ELSE l[i - 2]
  <2>1. /\ h \o l \in Seq(Timers) /\ Len(h \o l) = Len(h) + Len(l)
        /\ \A i \in 1..(Len(h) + Len(l)) :
             (h \o l)[i] = IF i <= Len(h) THEN h[i] ELSE l[i - Len(h)]
    <3>1. h \in Seq(Timers) /\ l \in Seq(Timers)
      BY <1>8, <1>11
    <3> QED BY <3>1, Joined
  <2> QED BY <1>8, <1>11, <1>12, <2>1
<1>14. timers[1] = a /\ timers[2] = b
  BY <1>1, <1>11, <1>13
<1>15. \A i \in Conns : timers[i + 2] = l[i]
  <2> SUFFICES ASSUME NEW i \in 1..N PROVE timers[i + 2] = l[i]
    BY DEF Conns
  <2>1. i + 2 \in 1..(2 + N) /\ ~(i + 2 <= 2) /\ (i + 2) - 2 = i
    BY <1>1
  <2> QED BY <1>13, <2>1
<1> QED BY <1>1, <1>2, <1>6, <1>7, <1>13, <1>14, <1>15 DEF Starting, TimerOf

LEMMA StartingProper ==
  ASSUME NEW list, Starting(list)
  PROVE  Proper(list, N + 2)
<1>1. N \in Nat /\ N > 0
  BY Constants
<1>2. list \in Seq(Timers) /\ DOMAIN list = 1..(N + 2)
  BY <1>1 DEF Starting
<1>3. \A k \in DOMAIN list : \/ k = 1 /\ list[k].id = N + 1 /\ list[k].kind = "check"
                             \/ k = 2 /\ list[k].id = N /\ list[k].kind = "calibrate"
                             \/ /\ k - 2 \in Conns
                                /\ list[k].id = N + 2 - k /\ list[k].kind = "connect"
                                /\ list[k].conn = N + 3 - k
  <2> SUFFICES ASSUME NEW k \in 3..(N + 2)
               PROVE  /\ k - 2 \in Conns
                      /\ list[k].id = N + 2 - k /\ list[k].kind = "connect"
                      /\ list[k].conn = N + 3 - k
    BY <1>1, <1>2 DEF Starting
  <2>1. PICK i \in Conns : i = k - 2
    BY <1>1 DEF Conns
  <2>2. i + 2 = k /\ N - i = N + 2 - k /\ N + 1 - i = N + 3 - k
    BY <1>1, <2>1
  <2> QED BY <2>1, <2>2 DEF Starting
<1>4. Distinct(list)
  <2> SUFFICES ASSUME NEW i \in DOMAIN list, NEW j \in DOMAIN list \ {i}
               PROVE  Apart(list[i], list[j])
    BY DEF Distinct
  <2>1. i \in Nat /\ j \in Nat /\ i # j /\ 1 <= i /\ 1 <= j
    BY <1>1, <1>2
  <2>2. list[i].id = N + 2 - i /\ list[j].id = N + 2 - j
    BY <1>1, <1>3, <2>1
  <2>3. list[i].id # list[j].id
    BY <1>1, <2>1, <2>2
  <2>4. list[i].kind = "connect" /\ list[j].kind = "connect" => list[i].conn # list[j].conn
    BY <1>1, <1>3, <2>1
  <2> QED BY <2>3, <2>4 DEF Apart
<1>5. \A k \in DOMAIN list : InRange(list[k], N + 2)
  <2> SUFFICES ASSUME NEW k \in DOMAIN list PROVE InRange(list[k], N + 2)
    OBVIOUS
  <2>1. k \in Nat /\ 1 <= k /\ k <= N + 2
    BY <1>1, <1>2
  <2>2. list[k].id = N + 2 - k
    BY <1>1, <1>3, <2>1
  <2>3. list[k].kind = "connect" => list[k].conn \in Conns
    BY <1>1, <1>3, <2>1 DEF Conns
  <2> QED BY <1>1, <1>3, <2>1, <2>2, <2>3 DEF InRange
<1>6. \E i \in DOMAIN list : list[i].kind = "check"
  <2>1. 1 \in DOMAIN list
    BY <1>1, <1>2
  <2> QED BY <2>1 DEF Starting
<1> QED BY <1>2, <1>4, <1>5, <1>6 DEF Proper

LEMMA InitInv == ASSUME Init PROVE Inv
<1>1. N \in Nat /\ N > 0 /\ Sec \in Nat /\ Sec > 0
  BY Constants
<1>2. now \in Nat /\ 2 * Sec <= now /\ Sec <= now
  BY <1>1 DEF Init
<1>3. Proper(timers, nextId) /\ nextId \in Nat
  <2>1. Proper(timers, N + 2)
    BY InitStarting, StartingProper
  <2>2. nextId = N + 2
    BY DEF Init
  <2> QED BY <1>1, <2>1, <2>2
<1>4. Seconds(now) \in Int
  BY <1>2, Split
<1>5. Typed
  <2>1. /\ skewed = FALSE /\ stop = FALSE /\ rfired = FALSE /\ pc = "top" /\ te = 1
        /\ lastTime = Seconds(now) /\ sleep = [from |-> 0, until |-> 0]
    BY DEF Init
  <2>2. sleep \in [from : Int, until : Int]
    BY <2>1
  <2>3. skewed \in BOOLEAN /\ stop \in BOOLEAN /\ rfired \in BOOLEAN
    BY <2>1
  <2>4. te \in Nat \ {0} /\ lastTime \in Int
    BY <1>4, <2>1
  <2> QED BY <1>2, <1>3, <2>1, <2>2, <2>3, <2>4 DEF Typed
<1>6. Table \in Tables
  BY DEF Init, Table, Tables, Entry, FileEvents, Masks, Procs
<1>7. Sound(Table)
  BY <1>6 DEF Init, Table, Sound, SoundAt
<1>8. Unopened(timers, Table)
  BY <1>3 DEF Init, Unopened, Table, Proper, InRange
<1>9. Fired
  BY DEF Init, Fired
<1> QED BY <1>3, <1>5, <1>7, <1>8, <1>9 DEF Init, Inv, Current, SleepIsExact, Passing

-----------------------------------------------------------------------------
(* What holds of every run.                                                    *)

LEMMA StepInv == ASSUME Inv, [Next]_vars PROVE Inv'
<1>1. CASE UNCHANGED vars
  <2>1. UNCHANGED <<clockVars, timerVars, fileVars, passVars, pc, sleep, fired, rfired,
                    lastTime, stop>>
    BY <1>1 DEF vars, loopVars
  <2>2. Proper(timers', nextId') /\ Sound(Table') /\ Unopened(timers', Table')
    BY <2>1, StillSound
  <2>3. Typed'
    BY <2>1 DEF Inv, Typed, clockVars, timerVars, passVars
  <2>4. Fired' /\ Current' /\ Table' = Table
    BY <2>1 DEF Inv, Fired, Current, fileVars, Table
  <2>5. SleepIsExact' /\ Passing'
    BY <2>1 DEF Inv, SleepIsExact, Nearest, Passing, Ahead, IsDue, clockVars, timerVars,
                passVars
  <2> QED BY <2>2, <2>3, <2>4, <2>5 DEF Inv
<1>2. CASE LoopStep
  BY <1>2, StartPollInv, EndPollInv, DispatchReadableInv, DispatchWritableInv,
     StartTimersInv, SkipTimerInv, RunTimerInv, EndTimersInv, LeaveInv DEF LoopStep
<1> QED BY <1>1, <1>2, TickInv, SetBackInv DEF Next, Terminated

LEMMA Invariant == Spec => []Inv
<1>1. Init => Inv
  BY InitInv
<1>2. Inv /\ [Next]_vars => Inv'
  BY StepInv
<1> QED BY <1>1, <1>2, PTL DEF Spec

\* The state keeps its types: the ids of the timers are below the next one, and
\* their times split into seconds and milliseconds of a second.
THEOREM LoopTypeCorrect == Spec => []TypeOK
<1>1. Inv => TypeOK
  <2> SUFFICES ASSUME Inv PROVE TypeOK
    OBVIOUS
  <2>1. \A i \in DOMAIN timers :
          /\ timers[i].id \in 0..(nextId - 1)
          /\ timers[i].sec \in Nat /\ timers[i].ms \in 0..(Sec - 1)
          /\ timers[i].kind \in Kinds
    <3> SUFFICES ASSUME NEW i \in DOMAIN timers
                 PROVE  /\ timers[i].id \in 0..(nextId - 1)
                        /\ timers[i].sec \in Nat /\ timers[i].ms \in 0..(Sec - 1)
                        /\ timers[i].kind \in Kinds
      OBVIOUS
    <3>1. timers[i] \in Timers /\ timers[i].id < nextId /\ nextId \in Nat
      BY DEF Inv, Typed, Proper, InRange
    <3> QED BY <3>1 DEF Timers
  <2>2. Table \in Tables
    BY DEF Inv, Sound
  <2>3. events \in [Fds -> Entry] /\ fd \in [Conns -> Fds \cup {None}] /\ epoll \in [Fds -> Masks]
    BY <2>2, TableFields, TableIs
  <2> QED BY <2>1, <2>3 DEF Inv, Typed, TypeOK, Kinds, Entry
<1> QED BY <1>1, Invariant, PTL

\* Whatever the callbacks create, delete, close and reopen, the kernel watches
\* what the table of the loop says, and the table holds open sockets only: no
\* epoll_ctl of ae_epoll.c fails.
THEOREM KernelMatchesTable == Spec => []EpollMatchesTable
<1>1. Inv => EpollMatchesTable
  BY TableIs DEF Inv, Sound, SoundAt, EpollMatchesTable
<1> QED BY <1>1, Invariant, PTL

\* aeProcessEvents runs no callback for an event of a socket that was closed in
\* the same round, though the number of its descriptor may be in use again.
THEOREM NoStaleEvent == Spec => []NoStaleDispatch
<1>1. Inv => NoStaleDispatch
  <2> SUFFICES ASSUME Inv, pc = "dispatch", fired # <<>>, Head(fired).fd \in stale
               PROVE  /\ rfired
                      /\ ~WantsWritable(Head(fired))
    BY DEF NoStaleDispatch
  <2>1. Head(fired) = fired[1] /\ 1 \in DOMAIN fired
    BY FirstFired DEF Inv, Fired
  <2>2. rfired /\ Replaced(Table, Head(fired).fd)
    BY <2>1 DEF Inv, Current
  <2> QED BY <2>2, TableIs DEF Replaced, WantsWritable
<1> QED BY <1>1, Invariant, PTL

\* The time aeProcessEvents gives to epoll_wait is what is left until the
\* nearest timer, for any length of the second and any clock within it.
THEOREM SleepsExactly == Spec => []SleepIsExact
<1>1. Inv => SleepIsExact
  BY DEF Inv
<1> QED BY <1>1, Invariant, PTL

\* A pass of processTimeEvents over the list of timers runs each that was due
\* when it began: no restart of the walk and no timer added or deleted on the
\* way makes it miss one.
THEOREM EveryDueTimerRuns == Spec => []DueTimersRun
<1>1. Inv => DueTimersRun
  BY DEF Inv, Passing, DueTimersRun
<1> QED BY <1>1, Invariant, PTL
===============================================================================
