-------------------------- MODULE Watchdog_proofs --------------------------
(* What holds of the watchdog for any number of kicking threads and any     *)
(* timeout: the inductive invariant, the safety properties that follow from *)
(* it, and the step simulation of the deadline timer.                       *)
EXTENDS Watchdog, TLAPS

USE TimeoutAssumption

(* The constructor establishes the invariant: nobody is inside the object,  *)
(* the monitor has not taken mu_ and no time has passed.                    *)
LEMMA InitInv == Init => Inv
  <1> SUFFICES ASSUME Init PROVE Inv
    OBVIOUS
  <1>1. TypeOK
    <2>1. alive \in BOOLEAN /\ kicked \in BOOLEAN
      BY Zenon DEF Init
    <2> QED
      BY <2>1 DEF Init, TypeOK, MonStates, OwnerStates
  <1>2. /\ mon \in {"waiting", "waking"} /\ ~kicked => elapsed <= quiet
        /\ mon = "handler" => quiet = Timeout /\ alive
        /\ mon = "done" => ~alive
        /\ owner = "gone" => mon = "done"
        /\ NoLostWakeup
    BY DEF Init, NoLostWakeup
  <1>3. alive <=> owner \in {"live", "locking"}
    BY DEF Init
  <1> QED
    BY <1>1, <1>2, <1>3 DEF Inv

(* Every step of every thread preserves the invariant.                      *)
LEMMA NextInv == Inv /\ [Next]_vars => Inv'
  <1> SUFFICES ASSUME Inv, [Next]_vars PROVE Inv'
    OBVIOUS
  <1> USE DEF Inv, TypeOK, MonStates, OwnerStates, NoLostWakeup, Pred
  <1>1. ASSUME NEW k \in Kickers, KickCall(k) PROVE Inv'
    BY <1>1 DEF KickCall
  <1>2. ASSUME NEW k \in Kickers, KickSet(k) PROVE Inv'
    BY <1>2 DEF KickSet, LockFree
  <1>3. ASSUME NEW k \in Kickers, KickNotify(k) PROVE Inv'
    BY <1>3 DEF KickNotify, NotifyOne
  <1>4. CASE DtorCall
    BY <1>4 DEF DtorCall
  <1>5. CASE DtorSet
    BY <1>5 DEF DtorSet, LockFree
  <1>6. CASE DtorNotify
    BY <1>6 DEF DtorNotify, NotifyOne
  <1>7. CASE DtorJoin
    BY <1>7 DEF DtorJoin
  <1>8. CASE MonStart
    BY <1>8 DEF MonStart
  <1>9. CASE MonArm
    <2>1. elapsed' <= quiet' /\ mon' = "waiting" /\ UNCHANGED <<alive, pc, owner>>
      BY <1>9 DEF MonArm
    <2>2. kicked' \in BOOLEAN /\ ~kicked' /\ alive
      BY <1>9, Zenon DEF MonArm
    <2>3. TypeOK'
      BY <1>9, <2>2 DEF MonArm
    <2> QED
      BY <2>1, <2>2, <2>3
  <1>10. CASE MonExit
    BY <1>10 DEF MonExit
  <1>11. CASE MonTimeout
    BY <1>11 DEF MonTimeout
  <1>12. CASE MonSpurious
    BY <1>12 DEF MonSpurious
  <1>13. CASE MonSatisfied
    BY <1>13 DEF MonSatisfied
  <1>14. CASE MonExpire
    BY <1>14 DEF MonExpire
  <1>15. CASE MonSleepAgain
    BY <1>15 DEF MonSleepAgain
  <1>16. CASE MonHandlerReturn
    BY <1>16 DEF MonHandlerReturn
  <1>17. CASE Tick
    BY <1>17 DEF Tick, Advance
  <1>18. CASE UNCHANGED vars
    BY <1>18 DEF vars
  <1> QED
    BY <1>1, <1>2, <1>3, <1>4, <1>5, <1>6, <1>7, <1>8, <1>9, <1>10, <1>11,
       <1>12, <1>13, <1>14, <1>15, <1>16, <1>17, <1>18
       DEF Next, Kick, Owner, Monitor, Gone

(* The invariant holds in every state of every run.                         *)
THEOREM Invariance == Spec => []Inv
  BY InitInv, NextInv, PTL DEF Spec

(* Every variable keeps its type: the monitor and the destructor never      *)
(* leave the states the model lists, whatever the number of kickers.        *)
THEOREM TypeCorrect == Spec => []TypeOK
  <1>1. Inv => TypeOK
    BY DEF Inv
  <1> QED
    BY Invariance, <1>1, PTL

(* The handler never runs unless timeout_ passed without a kick.            *)
THEOREM TimelyKicksPreventExpiry == Spec => []NoPrematureExpiry
  <1>1. Inv => NoPrematureExpiry
    BY DEF Inv, NoPrematureExpiry
  <1> QED
    BY Invariance, <1>1, PTL

(* After ~Watchdog() has cleared alive_ the handler never runs again, and   *)
(* the thread does not outlive the object.                                  *)
THEOREM CancellationIsFinal == Spec => []CancelIsFinal
  <1>1. Inv => CancelIsFinal
    BY DEF Inv, CancelIsFinal
  <1> QED
    BY Invariance, <1>1, PTL

(* Neither kick() nor ~Watchdog() ever leaves the monitor asleep with its   *)
(* predicate true and no notification on the way.                           *)
THEOREM WakeupsAreNotLost == Spec => []NoLostWakeup
  <1>1. Inv => NoLostWakeup
    BY DEF Inv
  <1> QED
    BY Invariance, <1>1, PTL

-----------------------------------------------------------------------------
(* A step of the watchdog is a step of the timer or leaves it unchanged.    *)
LEMMA StepSimulation == Inv /\ [Next]_vars => [Timer!Next]_(Timer!vars)
  <1> SUFFICES ASSUME Inv, [Next]_vars PROVE [Timer!Next]_(Timer!vars)
    OBVIOUS
  <1> USE DEF Inv, TypeOK, MonStates, OwnerStates, Pred, Timer!Next, Timer!vars
  <1>1. ASSUME NEW k \in Kickers, KickCall(k) \/ KickNotify(k)
        PROVE  UNCHANGED Timer!vars
    BY <1>1 DEF KickCall, KickNotify, NotifyOne
  <1>2. ASSUME NEW k \in Kickers, KickSet(k) PROVE Timer!Kick
    BY <1>2 DEF KickSet, LockFree, Timer!Kick
  <1>3. ASSUME DtorCall \/ DtorNotify \/ DtorJoin PROVE UNCHANGED Timer!vars
    BY <1>3 DEF DtorCall, DtorNotify, DtorJoin, NotifyOne
  <1>4. ASSUME DtorSet PROVE Timer!Cancel
    BY <1>4 DEF DtorSet, LockFree, Timer!Cancel
  <1>5. ASSUME MonStart \/ MonArm \/ MonExit \/ MonTimeout \/ MonSpurious
               \/ MonSatisfied \/ MonSleepAgain
        PROVE  UNCHANGED Timer!vars
    BY <1>5 DEF MonStart, MonArm, MonExit, MonTimeout, MonSpurious,
                MonSatisfied, MonSleepAgain
  <1>6. ASSUME MonExpire PROVE Timer!Expire
    BY <1>6 DEF MonExpire, Timer!Expire
  <1>7. ASSUME MonHandlerReturn PROVE Timer!Return
    BY <1>7 DEF MonHandlerReturn, Timer!Return
  <1>8. ASSUME Tick PROVE Timer!Tick \/ UNCHANGED Timer!vars
    BY <1>8 DEF Tick, Advance, Timer!Tick
  <1>9. ASSUME UNCHANGED vars PROVE UNCHANGED Timer!vars
    BY <1>9 DEF vars
  <1> QED
    BY <1>1, <1>2, <1>3, <1>4, <1>5, <1>6, <1>7, <1>8, <1>9
       DEF Next, Kick, Owner, Monitor, Gone

(* Every run of the watchdog is, for the loop it guards, a run of the       *)
(* deadline timer.                                                          *)
THEOREM ImplementsSafeTimer == Spec => Timer!Safe
  <1>1. Init => Timer!Init
    BY DEF Init, Timer!Init
  <1> QED
    BY Invariance, <1>1, StepSimulation, PTL DEF Spec, Timer!Safe

=============================================================================
