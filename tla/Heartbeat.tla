----------------------------- MODULE Heartbeat -----------------------------
(***************************************************************************)
(* cpfusa::runtime::Heartbeat (src/src/runtime/heartbeat.hpp).             *)
(*                                                                         *)
(* The monitored task calls beat(), which only increments an atomic        *)
(* counter.  The monitor thread samples the counter, sleeps a period_,     *)
(* reads it again and calls on_alive_ or on_missed_.  The destructor       *)
(* clears running_ without taking the mutex of the condition variable, so  *)
(* its notification may arrive between the predicate's evaluation and the  *)
(* sleep ("blocking") and be lost.                                         *)
(***************************************************************************)
EXTENDS Integers

CONSTANTS
    Period,             \* period_, in ticks of the steady clock
    MaxBeats            \* bound on the number of calls of beat()

\* A period of zero or less is accepted by the constructor: the deadline has
\* then passed when the wait begins, as it has for Period = 0.
ASSUME PeriodAssumption == Period \in Nat
ASSUME MaxBeatsAssumption == MaxBeats \in Nat

VARIABLES
    running,            \* running_
    beats,              \* beat_count_
    mon,                \* where the monitor thread is
    prev,               \* the monitor's local prev
    owner,              \* where the owner is in the object's life
    elapsed,            \* ticks since wait_for set its deadline, up to Period
    sinceBeat,          \* observed only: ticks since beat() or the start
    sinceVerdict,       \* observed only: ticks since a handler was chosen
    aliveCalls,         \* observed only: calls of on_alive_
    late                \* observed only: handlers chosen after the
                        \* destructor cleared running_

observed == <<sinceBeat, sinceVerdict, aliveCalls, late>>
vars == <<running, beats, mon, prev, owner, elapsed, observed>>

MonStates == {"top", "sample", "enter", "blocking", "waiting", "woken",
              "recheck", "read", "alive", "missed", "done"}

TypeOK ==
    /\ running \in BOOLEAN
    /\ beats \in 0 .. MaxBeats
    /\ mon \in MonStates
    /\ prev \in 0 .. MaxBeats
    /\ owner \in {"live", "notify", "join", "gone"}
    /\ elapsed \in 0 .. Period
    /\ sinceBeat \in 0 .. Period
    /\ sinceVerdict \in 0 .. Period
    /\ aliveCalls \in Nat
    /\ late \in Nat

Init ==
    /\ running = TRUE
    /\ beats = 0
    /\ mon = "top"
    /\ prev = 0
    /\ owner = "live"
    /\ elapsed = 0
    /\ sinceBeat = 0
    /\ sinceVerdict = 0
    /\ aliveCalls = 0
    /\ late = 0

-----------------------------------------------------------------------------
Beat ==
    /\ owner = "live"
    /\ beats < MaxBeats
    /\ beats' = beats + 1
    /\ sinceBeat' = 0
    /\ UNCHANGED <<running, mon, prev, owner, elapsed, sinceVerdict,
                   aliveCalls, late>>

DtorStore ==
    /\ owner = "live"
    /\ running' = FALSE
    /\ owner' = "notify"
    /\ UNCHANGED <<beats, mon, prev, elapsed, observed>>

DtorNotify ==
    /\ owner = "notify"
    /\ mon' = IF mon = "waiting" THEN "woken" ELSE mon
    /\ owner' = "join"
    /\ UNCHANGED <<running, beats, prev, elapsed, observed>>

\* Slip: the thread is detached instead of joined.
DtorDetach ==
    /\ owner = "join"
    /\ owner' = "gone"
    /\ UNCHANGED <<running, beats, mon, prev, elapsed, observed>>

DtorJoin ==
    /\ owner = "join"
    /\ mon = "done"
    /\ owner' = "gone"
    /\ UNCHANGED <<running, beats, mon, prev, elapsed, observed>>

-----------------------------------------------------------------------------
\* A step of the monitor that only moves it.
Go(from, to) ==
    /\ mon = from
    /\ mon' = to
    /\ UNCHANGED <<running, beats, prev, owner, elapsed, observed>>

MonLoop == running /\ Go("top", "sample")
MonLoopEnd == ~running /\ Go("top", "done")

\* Slip: the counter is sampled once, before the loop.
MonSampleOnce ==
    /\ mon = "sample"
    /\ mon' = "enter"
    /\ UNCHANGED <<running, beats, prev, owner, elapsed, observed>>

MonSample ==
    /\ mon = "sample"
    /\ prev' = beats
    /\ mon' = "enter"
    /\ UNCHANGED <<running, beats, owner, elapsed, observed>>

\* Slip: one deadline for all periods.
MonEnterSameDeadline ==
    /\ mon = "enter"
    /\ mon' = IF running THEN "blocking" ELSE "recheck"
    /\ UNCHANGED <<running, beats, prev, owner, elapsed, observed>>

\* wait_for sets its deadline and evaluates its predicate before it sleeps.
MonEnter ==
    /\ mon = "enter"
    /\ elapsed' = 0
    /\ mon' = IF running THEN "blocking" ELSE "recheck"
    /\ UNCHANGED <<running, beats, prev, owner, observed>>

MonBlock == Go("blocking", "waiting")
\* Slip: wait() without a deadline.
MonTimeoutNever == elapsed > Period /\ Go("waiting", "woken")
MonTimeout == elapsed = Period /\ Go("waiting", "woken")
MonSpurious == Go("waiting", "woken")
\* Slip: any wake-up ends the wait (no predicate).
MonWaitEndsEarly == Go("woken", "recheck")
MonWaitEnds == (~running \/ elapsed = Period) /\ Go("woken", "recheck")
MonSleepAgain == running /\ elapsed < Period /\ Go("woken", "blocking")
MonBreak == ~running /\ Go("recheck", "done")
MonContinue == running /\ Go("recheck", "read")

Late == IF running THEN late ELSE late + 1

MonAlive ==
    /\ mon = "read"
    /\ beats > prev
    /\ mon' = "alive"
    /\ aliveCalls' = aliveCalls + 1
    /\ sinceVerdict' = 0
    /\ late' = Late
    /\ UNCHANGED <<running, beats, prev, owner, elapsed, sinceBeat>>

\* Slip: a missed beat is not reported.
MonMissedIgnored ==
    /\ mon = "read"
    /\ beats = prev
    /\ mon' = "top"
    /\ sinceVerdict' = 0
    /\ late' = Late
    /\ UNCHANGED <<running, beats, prev, owner, elapsed, sinceBeat, aliveCalls>>

MonMissed ==
    /\ mon = "read"
    /\ beats = prev
    /\ mon' = "missed"
    /\ sinceVerdict' = 0
    /\ late' = Late
    /\ UNCHANGED <<running, beats, prev, owner, elapsed, sinceBeat, aliveCalls>>

MonHandlerReturn == mon \in {"alive", "missed"} /\ Go(mon, "top")

Advance(n) == IF n < Period THEN n + 1 ELSE n

Tick ==
    /\ elapsed < Period \/ sinceBeat < Period \/ sinceVerdict < Period
    /\ elapsed' = Advance(elapsed)
    /\ sinceBeat' = Advance(sinceBeat)
    /\ sinceVerdict' = Advance(sinceVerdict)
    /\ UNCHANGED <<running, beats, mon, prev, owner, aliveCalls, late>>

\* The object is gone; nothing more happens.
Gone == owner = "gone" /\ UNCHANGED vars

Owner == DtorStore \/ DtorNotify \/ DtorJoin
Monitor ==
    \/ MonLoop \/ MonLoopEnd \/ MonSample \/ MonEnter \/ MonBlock \/ MonTimeout
    \/ MonWaitEnds \/ MonSleepAgain \/ MonBreak \/ MonContinue
    \/ MonAlive \/ MonMissed \/ MonHandlerReturn

Next == Beat \/ Owner \/ Monitor \/ MonSpurious \/ Tick \/ Gone

(***************************************************************************)
(* Fairness.  The monitor never waits for a lock another thread holds, so  *)
(* it runs whenever it is not asleep and wakes when its deadline passes;   *)
(* handlers return; the clock advances; the destructor, once begun, goes   *)
(* on.  Nothing obliges the task to beat or the owner to destroy.          *)
(***************************************************************************)
Fairness ==
    /\ WF_vars(Monitor) /\ WF_vars(Tick)
    /\ WF_vars(DtorNotify) /\ WF_vars(DtorJoin)

Spec == Init /\ [][Next]_vars
FairSpec == Spec /\ Fairness

-----------------------------------------------------------------------------
(* on_missed_ is never a false alarm: it is called only when a whole       *)
(* period_ has gone by without a beat, however the wait was woken.         *)
NoFalseAlarm == [][mon = "read" /\ mon' = "missed" => sinceBeat = Period]_vars

(* on_alive_ is earned: a beat is credited at most once, so a task that    *)
(* has beaten n times is reported alive at most n times.                   *)
AliveIsEarned == aliveCalls <= beats

(* Handlers are called at most once per period_.                           *)
OneVerdictPerPeriod ==
    [][mon = "read" /\ mon' \in {"alive", "missed"} =>
        sinceVerdict = Period]_vars

(* At most one handler starts after the destructor has cleared running_    *)
(* (the one whose re-check had already passed), none after it returned.    *)
AtMostOneLateVerdict == late <= 1 /\ (owner = "gone" => mon = "done")

\* The monitor has set a deadline it has not yet acted on.
Armed == {"blocking", "waiting", "woken", "recheck", "read"}
\* The monitor has sampled the counter and not yet given its verdict.
Sampled == Armed \cup {"enter"}

(* The inductive invariant behind the four.                                *)
Inv ==
    /\ TypeOK
    /\ prev <= beats
    /\ aliveCalls <= IF mon \in Sampled THEN prev ELSE beats
    /\ mon \in Armed => elapsed <= sinceVerdict
    /\ mon \in Armed /\ beats = prev => elapsed <= sinceBeat
    /\ mon = "recheck" /\ running => elapsed = Period
    /\ mon = "read" => elapsed = Period
    /\ running <=> owner = "live"
    /\ late <= 1
    /\ late = 1 => ~running /\ mon \in {"alive", "missed", "top", "done"}
    /\ mon = "done" => ~running
    /\ owner = "gone" => mon = "done"

(* A task that stops beating is reported: on_missed_ is called unless a    *)
(* beat or the destructor comes first.                                     *)
SilenceDetected ==
    (owner = "live" /\ sinceBeat = Period) ~>
        (mon = "missed" \/ sinceBeat < Period \/ owner # "live")

(* The destructor returns even when its notification is lost: the deadline *)
(* of the wait bounds the sleep.                                           *)
DestroyCompletes == (owner = "notify") ~> (owner = "gone")

=============================================================================
