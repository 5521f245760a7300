--------------------------- MODULE MCAttestation ---------------------------
(* Attestation with interchangeable invocations, and with a record of      *)
(* whether the behaviour has been calm so far: one command at a time, no    *)
(* `release --full`, nothing edited during a command, no death, no failure. *)
EXTENDS Attestation, TLC

CONSTANTS p1, p2

VARIABLE calm

ProcSymmetry == Permutations(Procs)

Alone == \A p, q \in Procs : pc[p] # "idle" /\ pc[q] # "idle" => p = q

Proceed(p) ==
    \/ \E a \in Artifacts, dir \in Dirs, require \in BOOLEAN :
            StartRegenerate(p, a, dir, require)
    \/ Generate(p) \/ Carry(p) \/ Truncate(p) \/ Write(p)
    \/ Gate(p) \/ ReleaseNext(p)

Disturb(p) ==
    \/ \E dir \in Dirs : StartRelease(p, dir)
    \/ WriteFails(p) \/ Crash(p)

MCInit == Init /\ calm = TRUE

MCNext ==
    \/ (\E p \in Procs : Proceed(p)) /\ calm' = (calm /\ Alone')
    \/ (\E p \in Procs : Disturb(p)) /\ calm' = FALSE
    \/ People /\ calm' = (calm /\ \A p \in Procs : pc[p] = "idle")

MCSpec == MCInit /\ [][MCNext]_<<vars, calm>>

(* In a calm behaviour an attestation put in an artifact outlives every     *)
(* regeneration (quality.hpp: "MUST NOT silently discard").                 *)
CalmKeeps == calm => AttestationKept

(* In a calm behaviour no gate fails, over its repetitive content, a        *)
(* document on whose very bytes somebody pinned an independent review.      *)
CalmHonours ==
    [][\A p \in Procs :
          calm' /\ pc[p] = "gate" /\ verdict'[p] = "fail" /\ run[p].body \notin Placeholder =>
              ~is_valid_reviewed(pinned[run[p].art],
                                 Written(run[p].art, run[p].body, run[p].dir))]_<<vars, calm>>

(* Why both hold.  While a behaviour is calm the attestation last put in a  *)
(* file is in the file, or in the hands of the one command rewriting it,    *)
(* which has it from before it empties the file until it has gated.         *)
Kept(a) == pinned[a] # NoAtt => carry_forward(disk[a]) = pinned[a]
Rewriting(p, a) == pc[p] = "write" /\ run[p].art = a

CalmFollows ==
    calm =>
        /\ Alone
        /\ \A a \in Artifacts : Kept(a) \/ \E p \in Procs : Rewriting(p, a)
        /\ \A p \in Procs :
               /\ pc[p] # "idle" => run[p].command = "regenerate"
               /\ pc[p] = "write" => disk[run[p].art] = Torn
               /\ pc[p] \in {"truncate", "write", "gate"} /\ pinned[run[p].art] # NoAtt =>
                      run[p].att = pinned[run[p].art]

=============================================================================
