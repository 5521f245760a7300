------------------------------ MODULE Watchdog ------------------------------
(***************************************************************************)
(* cpfusa::runtime::Watchdog (src/src/runtime/watchdog.hpp).               *)
(*                                                                         *)
(* The monitor thread sleeps in cv_.wait_for(timeout_) and calls on_expire_*)
(* when it wakes without having been kicked; any number of threads kick;   *)
(* the owning thread destroys the object.  The threads share mu_ (held by  *)
(* the monitor exactly in the states "top" and "handler": the critical     *)
(* sections of kick() and ~Watchdog() are one step each), the condition    *)
(* variable, alive_ and kicked_.                                           *)
(***************************************************************************)
EXTENDS Integers

CONSTANTS
    Kickers,            \* the threads that call kick()
    Timeout             \* timeout_, in ticks of the steady clock

\* The constructor throws std::invalid_argument unless timeout_ is positive.
ASSUME TimeoutAssumption == Timeout \in Nat \ {0}

VARIABLES
    alive,              \* alive_
    kicked,             \* kicked_
    mon,                \* where the monitor thread is
    pc,                 \* where each kicker is in kick()
    owner,              \* where the owner is in the object's life
    elapsed,            \* ticks since wait_for set its deadline, up to Timeout
    quiet               \* observed only: ticks since the last kick took
                        \* effect, the last expiry was handled, or the start

vars == <<alive, kicked, mon, pc, owner, elapsed, quiet>>

MonStates == {"start", "top", "waiting", "waking", "handler", "done"}
OwnerStates == {"live", "locking", "notify", "join", "gone"}

TypeOK ==
    /\ alive \in BOOLEAN
    /\ kicked \in BOOLEAN
    /\ mon \in MonStates
    /\ pc \in [Kickers -> {"idle", "locking", "notify"}]
    /\ owner \in OwnerStates
    /\ elapsed \in 0 .. Timeout
    /\ quiet \in 0 .. Timeout

Init ==
    /\ alive = TRUE
    /\ kicked = FALSE
    /\ mon = "start"
    /\ pc = [k \in Kickers |-> "idle"]
    /\ owner = "live"
    /\ elapsed = 0
    /\ quiet = 0

-----------------------------------------------------------------------------
\* mu_ can be taken by a thread other than the monitor.
LockFree == mon \notin {"top", "handler"}

\* The predicate of wait_for.
Pred == kicked \/ ~alive

\* notify_one reaches the monitor only while it is blocked in the wait.
NotifyOne == mon' = IF mon = "waiting" THEN "waking" ELSE mon

\* A thread may call kick() as long as the object's destruction has not begun.
KickCall(k) ==
    /\ pc[k] = "idle"
    /\ owner = "live"
    /\ pc' = [pc EXCEPT ![k] = "locking"]
    /\ UNCHANGED <<alive, kicked, mon, owner, elapsed, quiet>>

\* Slip: notify_one() forgotten.
KickSetNoNotify(k) ==
    /\ pc[k] = "locking"
    /\ LockFree
    /\ kicked' = TRUE
    /\ quiet' = 0
    /\ pc' = [pc EXCEPT ![k] = "idle"]
    /\ UNCHANGED <<alive, mon, owner, elapsed>>

\* Slip: kicked_ written without taking mu_.
KickSetUnlocked(k) ==
    /\ pc[k] = "locking"
    /\ kicked' = TRUE
    /\ quiet' = 0
    /\ pc' = [pc EXCEPT ![k] = "notify"]
    /\ UNCHANGED <<alive, mon, owner, elapsed>>

KickSet(k) ==
    /\ pc[k] = "locking"
    /\ LockFree
    /\ kicked' = TRUE
    /\ quiet' = 0
    /\ pc' = [pc EXCEPT ![k] = "notify"]
    /\ UNCHANGED <<alive, mon, owner, elapsed>>

KickNotify(k) ==
    /\ pc[k] = "notify"
    /\ NotifyOne
    /\ pc' = [pc EXCEPT ![k] = "idle"]
    /\ UNCHANGED <<alive, kicked, owner, elapsed, quiet>>

\* The destructor may start only when no other thread is inside the object.
DtorCall ==
    /\ owner = "live"
    /\ \A k \in Kickers : pc[k] = "idle"
    /\ owner' = "locking"
    /\ UNCHANGED <<alive, kicked, mon, pc, elapsed, quiet>>

\* Slip: alive_ cleared without taking mu_.
DtorSetUnlocked ==
    /\ owner = "locking"
    /\ alive' = FALSE
    /\ owner' = "notify"
    /\ UNCHANGED <<kicked, mon, pc, elapsed, quiet>>

DtorSet ==
    /\ owner = "locking"
    /\ LockFree
    /\ alive' = FALSE
    /\ owner' = "notify"
    /\ UNCHANGED <<kicked, mon, pc, elapsed, quiet>>

DtorNotify ==
    /\ owner = "notify"
    /\ NotifyOne
    /\ owner' = "join"
    /\ UNCHANGED <<alive, kicked, pc, elapsed, quiet>>

DtorJoin ==
    /\ owner = "join"
    /\ mon = "done"
    /\ owner' = "gone"
    /\ UNCHANGED <<alive, kicked, mon, pc, elapsed, quiet>>

-----------------------------------------------------------------------------
MonStart ==
    /\ mon = "start"
    /\ mon' = "top"
    /\ UNCHANGED <<alive, kicked, pc, owner, elapsed, quiet>>

\* Slip: the loop does not test alive_.
MonArmAlways ==
    /\ mon = "top"
    /\ kicked' = FALSE
    /\ elapsed' = 0
    /\ mon' = "waiting"
    /\ UNCHANGED <<alive, pc, owner, quiet>>

\* while (alive_) { kicked_ = false; the wait sets its deadline and releases mu_
MonArm ==
    /\ mon = "top"
    /\ alive
    /\ kicked' = FALSE
    /\ elapsed' = 0
    /\ mon' = "waiting"
    /\ UNCHANGED <<alive, pc, owner, quiet>>

MonExit ==
    /\ mon = "top"
    /\ ~alive
    /\ mon' = "done"
    /\ UNCHANGED <<alive, kicked, pc, owner, elapsed, quiet>>

\* The deadline passed.
MonTimeout ==
    /\ mon = "waiting"
    /\ elapsed = Timeout
    /\ mon' = "waking"
    /\ UNCHANGED <<alive, kicked, pc, owner, elapsed, quiet>>

\* A condition variable may also wake without a notification or a timeout.
MonSpurious ==
    /\ mon = "waiting"
    /\ mon' = "waking"
    /\ UNCHANGED <<alive, kicked, pc, owner, elapsed, quiet>>

\* The wait has mu_ back: it returns when the predicate holds ...
MonSatisfied ==
    /\ mon = "waking"
    /\ Pred
    /\ mon' = "top"
    /\ UNCHANGED <<alive, kicked, pc, owner, elapsed, quiet>>

\* Slip: the expiry is the wait's timeout alone, without the predicate.
MonExpireNoPred ==
    /\ mon = "waking"
    /\ elapsed = Timeout
    /\ mon' = "handler"
    /\ UNCHANGED <<alive, kicked, pc, owner, elapsed, quiet>>

\* ... reports an expiry when it does not hold and the deadline has passed ...
MonExpire ==
    /\ mon = "waking"
    /\ ~Pred
    /\ elapsed = Timeout
    /\ mon' = "handler"
    /\ UNCHANGED <<alive, kicked, pc, owner, elapsed, quiet>>

\* ... and blocks again, with the same deadline, otherwise.
MonSleepAgain ==
    /\ mon = "waking"
    /\ ~Pred
    /\ elapsed < Timeout
    /\ mon' = "waiting"
    /\ UNCHANGED <<alive, kicked, pc, owner, elapsed, quiet>>

\* Slip: the monitor ends after its first expiry.
MonHandlerReturnOnce ==
    /\ mon = "handler"
    /\ mon' = "done"
    /\ quiet' = 0
    /\ UNCHANGED <<alive, kicked, pc, owner, elapsed>>

\* Slip: after an expiry the monitor waits for the next kick with mu_ held.
MonHandlerReturnKicked ==
    /\ mon = "handler"
    /\ kicked
    /\ mon' = "top"
    /\ quiet' = 0
    /\ UNCHANGED <<alive, kicked, pc, owner, elapsed>>

\* on_expire_ returns, mu_ still held.
MonHandlerReturn ==
    /\ mon = "handler"
    /\ mon' = "top"
    /\ quiet' = 0
    /\ UNCHANGED <<alive, kicked, pc, owner, elapsed>>

Advance(n) == IF n < Timeout THEN n + 1 ELSE n

Tick ==
    /\ elapsed < Timeout \/ quiet < Timeout
    /\ elapsed' = Advance(elapsed)
    /\ quiet' = Advance(quiet)
    /\ UNCHANGED <<alive, kicked, mon, pc, owner>>

\* The object is gone; nothing more happens.
Gone ==
    /\ owner = "gone"
    /\ UNCHANGED vars

Kick(k) == KickCall(k) \/ KickSet(k) \/ KickNotify(k)
Owner == DtorCall \/ DtorSet \/ DtorNotify \/ DtorJoin
Monitor ==
    \/ MonStart \/ MonArm \/ MonExit \/ MonTimeout \/ MonSpurious
    \/ MonSatisfied \/ MonExpire \/ MonSleepAgain \/ MonHandlerReturn

Next == (\E k \in Kickers : Kick(k)) \/ Owner \/ Monitor \/ Tick \/ Gone

(***************************************************************************)
(* Fairness.  A runnable thread runs and the clock advances; on_expire_    *)
(* returns (it is the user's code).  mu_ is contended: a thread that again *)
(* and again finds it free gets it (SF), which the monitor makes easy by   *)
(* sleeping a whole timeout_ between two critical sections.  Nothing       *)
(* obliges a thread to kick, the owner to destroy, or the condition        *)
(* variable to wake spuriously.                                            *)
(***************************************************************************)
Fairness ==
    /\ WF_vars(MonStart) /\ WF_vars(MonArm) /\ WF_vars(MonExit)
    /\ WF_vars(MonTimeout) /\ WF_vars(MonSatisfied) /\ WF_vars(MonExpire)
    /\ WF_vars(MonSleepAgain) /\ WF_vars(MonHandlerReturn)
    /\ WF_vars(Tick)
    /\ SF_vars(DtorSet) /\ WF_vars(DtorNotify) /\ WF_vars(DtorJoin)
    /\ \A k \in Kickers : SF_vars(KickSet(k)) /\ WF_vars(KickNotify(k))

Spec == Init /\ [][Next]_vars
FairSpec == Spec /\ Fairness

-----------------------------------------------------------------------------
(* The handler runs only when a whole timeout_ has gone by in which no     *)
(* kick took effect and no expiry was handled: kicks that arrive in time,  *)
(* even one that arrives while the timed-out monitor waits for mu_, keep   *)
(* the handler from firing.                                                *)
NoPrematureExpiry == mon = "handler" => quiet = Timeout

(* Once ~Watchdog() has cleared alive_ the handler is neither running nor  *)
(* entered, and when the destructor has returned the thread has ended.     *)
CancelIsFinal ==
    /\ ~alive => mon # "handler"
    /\ owner = "gone" => mon = "done"

(* A wake-up is never lost: if the monitor sleeps although its predicate   *)
(* holds, the thread that made it hold has not yet called notify_one.      *)
NoLostWakeup ==
    mon = "waiting" /\ Pred =>
        owner = "notify" \/ \E k \in Kickers : pc[k] = "notify"

(* The inductive invariant behind the three.                               *)
Inv ==
    /\ TypeOK
    /\ mon \in {"waiting", "waking"} /\ ~kicked => elapsed <= quiet
    /\ mon = "handler" => quiet = Timeout /\ alive
    /\ alive <=> owner \in {"live", "locking"}
    /\ mon = "done" => ~alive
    /\ owner = "gone" => mon = "done"
    /\ NoLostWakeup

(* A loop that stops kicking is noticed: once timeout_ has passed without  *)
(* a kick, the handler runs unless a kick or the destructor comes first.   *)
ExpiryDetected ==
    (owner = "live" /\ quiet = Timeout) ~>
        (mon = "handler" \/ quiet < Timeout \/ owner # "live")

(* The destructor returns, whatever the monitor was doing when it began.   *)
DestroyCompletes == (owner = "locking") ~> (owner = "gone")

(* kick() returns, even when it is called while the handler holds mu_.     *)
KickReturns == \A k \in Kickers : (pc[k] # "idle") ~> (pc[k] = "idle")

(* What the guarded loop sees of this class is a deadline timer.           *)
Timer == INSTANCE DeadlineTimer WITH firing <- mon = "handler",
                                     cancelled <- ~alive
ImplementsTimer == Timer!Spec

=============================================================================
