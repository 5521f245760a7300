--------------------------- MODULE DeadlineTimer ---------------------------
(***************************************************************************)
(* What a watchdog promises to the loop it guards, without a thread, a     *)
(* mutex or a condition variable: the handler runs only after a whole      *)
(* Timeout during which no kick took effect and no earlier expiry was      *)
(* being handled; while the handler runs no kick takes effect and the      *)
(* owner cannot finish cancelling; after the cancellation it never runs.   *)
(* Watchdog.tla implements this module.                                    *)
(***************************************************************************)
EXTENDS Integers

CONSTANT Timeout        \* ticks without a kick after which the handler runs:
                        \* a positive natural (TimeoutAssumption of Watchdog)

VARIABLES
    quiet,              \* ticks since the last kick or expiry, up to Timeout
    firing,             \* the handler is running
    cancelled           \* the owner has cancelled the timer

vars == <<quiet, firing, cancelled>>

Init ==
    /\ quiet = 0
    /\ firing = FALSE
    /\ cancelled = FALSE

Kick ==
    /\ ~firing
    /\ quiet' = 0
    /\ UNCHANGED <<firing, cancelled>>

Tick ==
    /\ quiet < Timeout
    /\ quiet' = quiet + 1
    /\ UNCHANGED <<firing, cancelled>>

Expire ==
    /\ quiet = Timeout
    /\ ~cancelled
    /\ ~firing
    /\ firing' = TRUE
    /\ UNCHANGED <<quiet, cancelled>>

Return ==
    /\ firing
    /\ firing' = FALSE
    /\ quiet' = 0
    /\ UNCHANGED cancelled

Cancel ==
    /\ ~firing
    /\ cancelled' = TRUE
    /\ UNCHANGED <<quiet, firing>>

Next == Kick \/ Tick \/ Expire \/ Return \/ Cancel

Safe == Init /\ [][Next]_vars

(* An expired timer that is neither kicked nor cancelled fires, and time   *)
(* passes; the handler is assumed to return.                               *)
Live == WF_vars(Expire) /\ WF_vars(Return) /\ WF_vars(Tick)

Spec == Safe /\ Live

=============================================================================
