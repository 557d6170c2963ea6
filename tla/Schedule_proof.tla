---------------------------- MODULE Schedule_proof ----------------------------
(* The latencies of Schedule.tla are right for every period and any number of  *)
(* connections.                                                                *)
EXTENDS Schedule, TLAPS

\* What makes the two properties inductive: the batch under way was not started
\* ahead of responses, and not ahead of schedule.
Inv ==
  /\ TypeOK
  /\ \A c \in Conns :
       /\ complete_at_last_batch_start[c] <= complete[c]
       /\ Owed(c, complete_at_last_batch_start[c]) <= now + Early
  /\ CorrectionNeverGifts

LEMMA ProductNat == ASSUME NEW n \in Nat, NEW p \in Nat PROVE n * p \in Nat
  OBVIOUS

LEMMA ProductZero == ASSUME NEW p \in Nat PROVE 0 * p = 0
  OBVIOUS

LEMMA OwedNat ==
  ASSUME ScheduleAssumption, TypeOK PROVE \A c \in Conns, n \in Nat : Owed(c, n) \in Nat
  BY ProductNat DEF ScheduleAssumption, TypeOK, Owed

LEMMA InitInv == ASSUME ScheduleAssumption PROVE Init => Inv
  BY ProductZero DEF ScheduleAssumption, Init, Inv, TypeOK, Owed, CorrectionNeverGifts

LEMMA NextInv == ASSUME ScheduleAssumption PROVE Inv /\ [Next]_vars => Inv'
<1> SUFFICES ASSUME Inv, [Next]_vars PROVE Inv'
  OBVIOUS
<1> USE DEF ScheduleAssumption, Inv, TypeOK, CorrectionNeverGifts
<1>0. \A c \in Conns, n \in Nat : Owed(c, n) \in Nat
  BY OwedNat
<1>1. CASE Elapse
  BY <1>0, <1>1 DEF Elapse, Owed
<1>2. ASSUME NEW c \in Conns, Open(c) PROVE Inv'
  <2>1. complete_at_last_batch_start[c] = 0 BY <1>2 DEF Open
  <2>2. thread_start'[c] + complete_at_last_batch_start[c] * Period = now
    BY <1>2, <2>1, ProductZero DEF Open
  <2>3. now <= now + Early /\ now + Early \in Nat
    OBVIOUS
  <2>4. Owed(c, complete_at_last_batch_start[c])' <= now' + Early
    BY <1>2, <2>1, <2>2, <2>3 DEF Open, Owed
  <2>5. has_pending'[c] = FALSE
    BY <1>2 DEF Open
  <2>6. ASSUME NEW d \in Conns \ {c}
        PROVE  Owed(d, complete_at_last_batch_start[d])'
                 = Owed(d, complete_at_last_batch_start[d])
    BY <1>2 DEF Open, Owed
  <2> QED BY <1>2, <2>4, <2>5, <2>6 DEF Open
<1>3. ASSUME NEW c \in Conns, StartBatch(c) PROVE Inv'
  BY <1>0, <1>3 DEF StartBatch, Owed
<1>4. ASSUME NEW c \in Conns, Response(c) PROVE Inv'
  <2>1. PICK n \in {complete[c], complete[c] + 1} :
          complete' = [complete EXCEPT ![c] = n]
    BY <1>4 DEF Response
  <2>2. PICK more \in {has_pending[c], FALSE} :
          has_pending' = [has_pending EXCEPT ![c] = more]
    BY <1>4 DEF Response
  <2>3. TypeOK'
    <3>1. complete' \in [Conns -> Nat] BY <2>1
    <3>2. has_pending' \in [Conns -> BOOLEAN] BY <2>2
    <3> QED BY <1>4, <3>1, <3>2 DEF Response
  <2>4. \A d \in Conns : complete[d] <= complete'[d]
    BY <2>1
  <2>5. \A d \in Conns : has_pending'[d] => has_pending[d]
    BY <2>2
  <2> QED BY <1>4, <2>3, <2>4, <2>5 DEF Response, Owed
<1>5. CASE UNCHANGED vars
  BY <1>5 DEF vars, Owed
<1> QED BY <1>1, <1>2, <1>3, <1>4, <1>5 DEF Next

\* What the invariant says of when a batch was owed bounds the latency from below.
LEMMA InvBounded == ASSUME ScheduleAssumption, Inv PROVE LatencyBounded
<1>1. TypeOK BY DEF Inv
<1>2. \A c \in Conns, n \in Nat : Owed(c, n) \in Nat BY <1>1, OwedNat
<1>3. ASSUME NEW c \in Conns
      PROVE now - Owed(c, complete_at_last_batch_start[c]) >= -Early
  <2>1. complete_at_last_batch_start[c] \in Nat /\ now \in Nat /\ Early \in Nat
    BY <1>1 DEF ScheduleAssumption, TypeOK
  <2>2. Owed(c, complete_at_last_batch_start[c]) \in Nat BY <1>2, <2>1
  <2>3. Owed(c, complete_at_last_batch_start[c]) <= now + Early BY DEF Inv
  <2> QED BY <2>1, <2>2, <2>3
<1> QED BY <1>3 DEF LatencyBounded

\* No response can be recorded with a latency below -Early.
THEOREM LatencySafe == ASSUME ScheduleAssumption PROVE Spec => []LatencyBounded
<1>1. Inv => LatencyBounded BY InvBounded
<1>2. Init => Inv BY InitInv
<1>3. Inv /\ [Next]_vars => Inv' BY NextInv
<1> QED BY <1>1, <1>2, <1>3, PTL DEF Spec

\* The corrected latency of a batch is never shorter than the measured one, but
\* for Early.
THEOREM CorrectionSafe ==
  ASSUME ScheduleAssumption PROVE Spec => []CorrectionNeverGifts
<1>1. Inv => CorrectionNeverGifts
  BY DEF Inv
<1>2. Init => Inv BY InitInv
<1>3. Inv /\ [Next]_vars => Inv' BY NextInv
<1> QED BY <1>1, <1>2, <1>3, PTL DEF Spec
===============================================================================
