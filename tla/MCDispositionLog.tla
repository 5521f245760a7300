-------------------------- MODULE MCDispositionLog --------------------------
(* DispositionLog with a few findings and the shapes of file it may meet,   *)
(* and with a record of whether two invocations have overlapped so far and  *)
(* whether anything has failed.                                             *)
EXTENDS DispositionLog, TLC

CONSTANTS p1, p2, r1, r2, a, b

VARIABLES
    solo,           \* no two invocations have overlapped so far
    sound           \* nothing has failed so far

Finding(rule, print, severity) == [rule |-> rule, print |-> print, severity |-> severity]
Raw(rule, print, status) == [rule |-> rule, print |-> print, status |-> status]

MCFindings == {Finding(r1, a, "ERROR"), Finding(r2, b, "WARNING")}

\* Entries that disagree, one without a rule, unknown words; an old file with an
\* entry that cannot be read, and a waiver behind it; no file.
MCFiles ==
    {[key |-> "dispositions",
      entries |-> <<Raw(NoRule, a, "accepted"), Raw(r1, a, "rejected"),
                    Raw(r2, NoPrint, "other"), Raw(r1, b, "accepted")>>,
      rest |-> <<>>],
     [key |-> "entries", entries |-> <<Raw(r2, NoPrint, "fix")>>,
      rest |-> <<Raw(r1, NoPrint, "accept")>>],
     Unreadable}

ProcSymmetry == Permutations(Procs)

AtMostOne == \A p, q \in Procs : pc[p] # "idle" /\ pc[q] # "idle" => p = q

MCInit ==
    /\ Init
    /\ solo = TRUE
    /\ sound = (file.rest = <<>>)

MCNext ==
    /\ \E p \in Procs :
        \/ (\E r \in Rules, s \in Statuses : AddLoad(p, r, s)) /\ sound' = sound
        \/ AddOpen(p) /\ sound' = sound
        \/ AddWrite(p) /\ sound' = (sound /\ file' # Unreadable)
        \/ (AddOpenFails(p) \/ Crash(p)) /\ sound' = FALSE
    /\ solo' = (solo /\ AtMostOne')

MCSpec == MCInit /\ [][MCNext]_<<vars, solo, sound>>

(* While commands run one at a time a gate lets a finding pass only if the  *)
(* last decision acknowledged for its rule is a waiver, whatever commands   *)
(* died and whatever writes failed in between: a rejection stays.           *)
SoloGateObeysLatest == solo => GateObeysLatest

(* When moreover nothing has failed a waiver holds from the command that    *)
(* acknowledged it on: the gate fails only for a finding not waived.        *)
SoundWaiverHolds == solo /\ sound => WaiverHolds

Waives(l, rule) == \E e \in find_by_rule(l, rule) : e.status \in Waivers
Acknowledged(rule) == latest[rule] \cap Waivers # {}

\* What an invocation is about to write decides its own rule as it was told,
\* and every other as was acknowledged last.
Drafted(p) ==
    LET own == entry[p].rule IN
    /\ own \in Rules
    /\ find_by_rule(log[p], own) = {entry[p]}
    /\ \A r \in Rules \ {own} : Waives(log[p], r) => Acknowledged(r)
    /\ sound => \A r \in Rules \ {own} : Acknowledged(r) => Waives(log[p], r)
    /\ pc[p] = "write" => file = Unreadable

(* Why both hold.  The file waives nothing that was not acknowledged last   *)
(* and, when nothing has failed, nothing less unless it has just been       *)
(* truncated; the one invocation under way is about to keep it so.          *)
DecisionsFollow ==
    solo =>
        /\ AtMostOne
        /\ \A r \in Rules : Waives(load(file), r) => Acknowledged(r)
        /\ sound /\ (\A p \in Procs : pc[p] # "write") =>
               \A r \in Rules : Acknowledged(r) => Waives(load(file), r)
        /\ \A p \in Procs : pc[p] # "idle" => Drafted(p)

=============================================================================
