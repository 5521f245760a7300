-------------------------- MODULE Heartbeat_proofs --------------------------
(* What holds of the heartbeat monitor for any period and any number of     *)
(* beats.                                                                   *)
EXTENDS Heartbeat, TLAPS

USE PeriodAssumption, MaxBeatsAssumption

(* The constructor establishes the invariant.                               *)
LEMMA InitInv == Init => Inv
  <1> SUFFICES ASSUME Init PROVE Inv
    OBVIOUS
  <1>1. running \in BOOLEAN /\ (running <=> owner = "live")
    BY Zenon DEF Init
  <1>2. TypeOK
    BY <1>1 DEF Init, TypeOK, MonStates
  <1> QED
    BY <1>1, <1>2 DEF Init, Inv, Armed, Sampled

(* Every step of the task, the owner, the monitor and the clock preserves   *)
(* the invariant.                                                           *)
LEMMA NextInv == Inv /\ [Next]_vars => Inv'
  <1> SUFFICES ASSUME Inv, [Next]_vars PROVE Inv'
    OBVIOUS
  <1> USE DEF Inv, TypeOK, MonStates, Armed, Sampled, observed
  <1>1. CASE Beat
    BY <1>1 DEF Beat
  <1>2. CASE DtorStore
    <2>1. running' \in BOOLEAN /\ ~running' /\ owner' # "live"
      BY <1>2, Zenon DEF DtorStore
    <2> QED
      BY <1>2, <2>1 DEF DtorStore
  <1>3. CASE DtorNotify
    BY <1>3 DEF DtorNotify
  <1>4. CASE DtorJoin
    BY <1>4 DEF DtorJoin
  <1>5. CASE MonLoop \/ MonLoopEnd
    BY <1>5 DEF MonLoop, MonLoopEnd, Go
  <1>6. CASE MonSample
    BY <1>6 DEF MonSample
  <1>7. CASE MonEnter
    BY <1>7 DEF MonEnter
  <1>8. CASE MonBlock \/ MonTimeout \/ MonSpurious \/ MonSleepAgain
    BY <1>8 DEF MonBlock, MonTimeout, MonSpurious, MonSleepAgain, Go
  <1>9. CASE MonWaitEnds
    BY <1>9 DEF MonWaitEnds, Go
  <1>10. CASE MonBreak \/ MonContinue
    BY <1>10 DEF MonBreak, MonContinue, Go
  <1>11. CASE MonAlive
    BY <1>11 DEF MonAlive, Late
  <1>12. CASE MonMissed
    BY <1>12 DEF MonMissed, Late
  <1>13. CASE MonHandlerReturn
    BY <1>13 DEF MonHandlerReturn, Go
  <1>14. CASE Tick
    BY <1>14 DEF Tick, Advance
  <1>15. CASE UNCHANGED vars
    BY <1>15 DEF vars
  <1> QED
    BY <1>1, <1>2, <1>3, <1>4, <1>5, <1>6, <1>7, <1>8, <1>9, <1>10, <1>11,
       <1>12, <1>13, <1>14, <1>15
       DEF Next, Owner, Monitor, Gone

(* The invariant holds in every state of every run.                         *)
THEOREM Invariance == Spec => []Inv
  BY InitInv, NextInv, PTL DEF Spec

(* A task that has beaten n times is reported alive at most n times.        *)
THEOREM AliveCreditedOnce == Spec => []AliveIsEarned
  <1>1. Inv => AliveIsEarned
    BY DEF Inv, TypeOK, AliveIsEarned
  <1> QED
    BY Invariance, <1>1, PTL

(* The destructor leaves time for one more handler and no second.           *)
THEOREM LateVerdicts == Spec => []AtMostOneLateVerdict
  <1>1. Inv => AtMostOneLateVerdict
    BY DEF Inv, AtMostOneLateVerdict
  <1> QED
    BY Invariance, <1>1, PTL

-----------------------------------------------------------------------------
(* Only MonAlive and MonMissed turn the reading of the counter into a call  *)
(* of a handler.                                                            *)
LEMMA VerdictSteps ==
  ASSUME [Next]_vars, mon = "read", mon' \in {"alive", "missed"}
  PROVE  (MonAlive /\ mon' = "alive") \/ (MonMissed /\ mon' = "missed")
  <1>1. mon' # mon
    OBVIOUS
  <1>2. ~UNCHANGED vars /\ ~Gone /\ ~Beat /\ ~DtorStore /\ ~DtorJoin /\ ~Tick
    BY <1>1 DEF vars, Gone, Beat, DtorStore, DtorJoin, Tick
  <1>3. ~DtorNotify
    BY DEF DtorNotify
  <1>4. ~MonSample /\ ~MonEnter
    BY DEF MonSample, MonEnter
  <1>5. ~(MonLoop \/ MonLoopEnd \/ MonBlock \/ MonTimeout \/ MonSpurious
          \/ MonWaitEnds \/ MonSleepAgain \/ MonBreak \/ MonContinue
          \/ MonHandlerReturn)
    BY DEF MonLoop, MonLoopEnd, MonBlock, MonTimeout, MonSpurious, MonWaitEnds,
           MonSleepAgain, MonBreak, MonContinue, MonHandlerReturn, Go
  <1> QED
    BY <1>2, <1>3, <1>4, <1>5 DEF Next, Owner, Monitor, MonAlive, MonMissed

(* on_missed_ is called only after a whole period_ without a beat.          *)
THEOREM NoFalseAlarms == Spec => NoFalseAlarm
  <1>1. Inv /\ [Next]_vars =>
          [mon = "read" /\ mon' = "missed" => sinceBeat = Period]_vars
    <2> SUFFICES ASSUME Inv, [Next]_vars, mon = "read", mon' = "missed"
                 PROVE  sinceBeat = Period
      OBVIOUS
    <2>1. beats = prev
      BY VerdictSteps DEF MonMissed
    <2> QED
      BY <2>1 DEF Inv, TypeOK, Armed
  <1> QED
    BY Invariance, <1>1, PTL DEF Spec, NoFalseAlarm

(* No two handlers are called within one period_.                           *)
THEOREM VerdictsAreSpaced == Spec => OneVerdictPerPeriod
  <1>1. Inv /\ [Next]_vars =>
          [mon = "read" /\ mon' \in {"alive", "missed"} =>
              sinceVerdict = Period]_vars
    BY DEF Inv, TypeOK, Armed
  <1> QED
    BY Invariance, <1>1, PTL DEF Spec, OneVerdictPerPeriod

=============================================================================
