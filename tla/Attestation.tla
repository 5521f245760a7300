---------------------------- MODULE Attestation ----------------------------
(***************************************************************************)
(* Regeneration, review and gating of the evidence artifacts with          *)
(* qualitative content: `cpfusa tara`, `fmea`, `safety-case`, `sas`, and   *)
(* `release --full` (src/src/cmd/cli.cpp, src/src/quality/quality.cpp).    *)
(*                                                                         *)
(* A regenerating command computes the document from the project, reads    *)
(* the attestation of the copy on disk, rewrites the file and gates on     *)
(* what it computed.  The file is rewritten in place: it is empty between  *)
(* the opening and the flush of the stream, and stays empty or cut short   *)
(* when the command dies or the disk is full.  Reviewers edit the          *)
(* attestation object in the file by hand.                                 *)
(***************************************************************************)
EXTENDS Integers

CONSTANTS
    Procs,          \* the command invocations that may run at one time
    Artifacts,      \* the artifacts considered, some of AllArtifacts
    Bodies,         \* what generate() may yield from the project's sources
    Placeholder,    \* the bodies FUSA-STUB001 (rule A, ERROR) flags
    Repetitive,     \* the bodies FUSA-STUB002 (rule B, WARNING) flags
    Dirs,           \* how --dir is spelled, some of DirForms
    ReleaseFull,    \* TRUE when `release --full` is among the commands
    Faults,         \* TRUE when commands may die and writes may fail
    EditDuringRuns  \* TRUE when files are edited while a command runs

AllArtifacts == {"tara", "fmea", "safety_case", "sas"}
\* --dir is the canonical path of the project or another spelling of it.
DirForms == {"canonical", "relative"}

ASSUME ArtifactsAssumption == Artifacts \subseteq AllArtifacts /\ Artifacts # {}
ASSUME BodiesAssumption ==
    Placeholder \subseteq Bodies /\ Repetitive \subseteq Bodies /\ Bodies # {}
ASSUME DirsAssumption == Dirs \subseteq DirForms

VARIABLES
    project,        \* what generate() yields for an artifact now
    disk,           \* the artifact files
    waived,         \* FUSA-STUB001's disposition is accepted or deferred
    pc,             \* where each invocation is
    run,            \* the invocation's local variables
    verdict,        \* the exit code of the last gate of each invocation
    reviews,        \* observed only: contents an independent person reviewed
    pinned          \* observed only: the attestation last put in a file

vars == <<project, disk, waived, pc, run, verdict, reviews, pinned>>

-----------------------------------------------------------------------------
(* Documents.  SHA-256 over the canonical bytes is taken to be injective:  *)
(* a content hash is the content.                                          *)

\* `standard` is the configured one, absent, or set by the report itself.
Contents == [body : Bodies, root : DirForms, standard : {"configured", "absent", "own"}]

TaraJson(b, root) == [body |-> b, root |-> root, standard |-> "own"]
FmeaJson(b, root, standard) == [body |-> b, root |-> root, standard |-> standard]
SafetyCaseJson(b, root) == [body |-> b, root |-> root, standard |-> "own"]
SasJson(b, root) == [body |-> b, root |-> root, standard |-> "own"]

\* The content the command hashes: built from the loaded configuration, with
\* project_root replaced by the canonical path.
Hashed(a, b) ==
    CASE a = "tara" -> TaraJson(b, "canonical")
      [] a = "fmea" -> FmeaJson(b, "canonical", "configured")
      [] a = "safety_case" -> SafetyCaseJson(b, "canonical")
      [] OTHER -> SasJson(b, "canonical")

\* Slip: every write() leaves out the configured standard.
WrittenFromDefaults(a, b, dir) ==
    IF a = "sas" THEN SasJson(b, "canonical") ELSE FmeaJson(b, dir, "absent")

\* The content write() puts in the file: tara, fmea and safety_case build a
\* configuration of their own from the directory they were given.
Written(a, b, dir) ==
    CASE a = "tara" -> TaraJson(b, dir)
      [] a = "fmea" -> FmeaJson(b, dir, "absent")
      [] a = "safety_case" -> SafetyCaseJson(b, dir)
      [] OTHER -> SasJson(b, "canonical")

NoAtt == [status |-> "none"]
Heuristic == [status |-> "heuristic"]
\* independent: independentReviewer is given and is not implementationAuthor.
ReviewedAtts == [status : {"reviewed"}, independent : BOOLEAN, hash : Contents]
Atts == {NoAtt, Heuristic} \cup ReviewedAtts

\* Slip: the reviewer's independence is not examined.
IsValidReviewedBySelf(att, content) ==
    att.status = "reviewed" /\ att.hash = content

\* Slip: a review holds whatever the content has become.
IsValidReviewedUnpinned(att, content) ==
    att.status = "reviewed" /\ att.independent

is_valid_reviewed(att, content) ==
    /\ att.status = "reviewed"
    /\ att.independent
    /\ att.hash = content

Absent == [file |-> "absent"]
Torn == [file |-> "torn"]
Docs == [file : {"whole"}, content : Contents, att : Atts]

\* A file that is missing or does not parse carries no attestation.
carry_forward(f) == IF f.file = "whole" THEN f.att ELSE NoAtt

-----------------------------------------------------------------------------
Runs == [command : {"regenerate", "release"}, art : Artifacts, dir : DirForms,
         require : BOOLEAN, body : Bodies, att : Atts]

\* The local variables before the first command: not looked at.
NoRun == [command |-> "regenerate", art |-> CHOOSE a \in Artifacts : TRUE,
          dir |-> "canonical", require |-> FALSE,
          body |-> CHOOSE b \in Bodies : TRUE, att |-> NoAtt]

TypeOK ==
    /\ project \in [Artifacts -> Bodies]
    /\ disk \in [Artifacts -> {Absent, Torn} \cup Docs]
    /\ waived \in BOOLEAN
    /\ pc \in [Procs -> {"idle", "generate", "carry", "truncate", "write", "gate"}]
    /\ run \in [Procs -> Runs]
    /\ verdict \in [Procs -> {"none", "pass", "fail"}]
    /\ reviews \subseteq Artifacts \X Contents
    /\ pinned \in [Artifacts -> Atts]

Init ==
    /\ project \in [Artifacts -> Bodies]
    /\ disk = [a \in Artifacts |-> Absent]
    /\ waived = FALSE
    /\ pc = [p \in Procs |-> "idle"]
    /\ run = [p \in Procs |-> NoRun]
    /\ verdict = [p \in Procs |-> "none"]
    /\ reviews = {}
    /\ pinned = [a \in Artifacts |-> NoAtt]

Editable == EditDuringRuns \/ \A p \in Procs : pc[p] = "idle"

-----------------------------------------------------------------------------
(* The people around the tool.                                             *)

EditProject(a, b) ==
    /\ Editable
    /\ project' = [project EXCEPT ![a] = b]
    /\ UNCHANGED <<disk, waived, pc, run, verdict, reviews, pinned>>

Dispose ==
    /\ Editable
    /\ waived' = ~waived
    /\ UNCHANGED <<project, disk, pc, run, verdict, reviews, pinned>>

\* Somebody writes an attestation over the document in the file.
Attest(a, att) ==
    /\ Editable
    /\ disk[a].file = "whole"
    /\ att.status = "reviewed" => att.hash = disk[a].content
    /\ disk' = [disk EXCEPT ![a].att = att]
    /\ reviews' = IF att.status = "reviewed" /\ att.independent
                    THEN reviews \cup {<<a, disk[a].content>>}
                    ELSE reviews
    /\ pinned' = [pinned EXCEPT ![a] = att]
    /\ UNCHANGED <<project, waived, pc, run, verdict>>

-----------------------------------------------------------------------------
(* The commands.                                                           *)

StartRegenerate(p, a, dir, require) ==
    /\ pc[p] = "idle"
    /\ pc' = [pc EXCEPT ![p] = "generate"]
    /\ run' = [run EXCEPT ![p].command = "regenerate", ![p].art = a,
                          ![p].dir = dir, ![p].require = require,
                          ![p].att = NoAtt]
    /\ verdict' = [verdict EXCEPT ![p] = "none"]
    /\ UNCHANGED <<project, disk, waived, reviews, pinned>>

\* `release --full` rewrites tara, fmea and safety-case, in this order.
ReleaseRank(a) == CASE a = "tara" -> 1 [] a = "fmea" -> 2 [] OTHER -> 3
Released == Artifacts \ {"sas"}
After(n) == {a \in Released : ReleaseRank(a) > n}
First(S) == CHOOSE a \in S : \A b \in S : ReleaseRank(a) <= ReleaseRank(b)

StartRelease(p, dir) ==
    /\ ReleaseFull
    /\ After(0) # {}
    /\ pc[p] = "idle"
    /\ pc' = [pc EXCEPT ![p] = "generate"]
    /\ run' = [run EXCEPT ![p].command = "release", ![p].art = First(After(0)),
                          ![p].dir = dir, ![p].require = FALSE,
                          ![p].att = NoAtt]
    /\ verdict' = [verdict EXCEPT ![p] = "none"]
    /\ UNCHANGED <<project, disk, waived, reviews, pinned>>

Generate(p) ==
    /\ pc[p] = "generate"
    /\ run' = [run EXCEPT ![p].body = project[run[p].art]]
    /\ pc' = [pc EXCEPT ![p] = IF run[p].command = "regenerate"
                                 THEN "carry" ELSE "truncate"]
    /\ UNCHANGED <<project, disk, waived, verdict, reviews, pinned>>

\* Slip: the file is read after it has been opened for writing.
CarryNothing(p) ==
    /\ pc[p] = "carry"
    /\ run' = [run EXCEPT ![p].att = NoAtt]
    /\ pc' = [pc EXCEPT ![p] = "truncate"]
    /\ UNCHANGED <<project, disk, waived, verdict, reviews, pinned>>

Carry(p) ==
    /\ pc[p] = "carry"
    /\ run' = [run EXCEPT ![p].att = carry_forward(disk[run[p].art])]
    /\ pc' = [pc EXCEPT ![p] = "truncate"]
    /\ UNCHANGED <<project, disk, waived, verdict, reviews, pinned>>

\* std::ofstream out(path) truncates an existing file.
Truncate(p) ==
    /\ pc[p] = "truncate"
    /\ disk' = [disk EXCEPT ![run[p].art] = Torn]
    /\ pc' = [pc EXCEPT ![p] = "write"]
    /\ UNCHANGED <<project, waived, run, verdict, reviews, pinned>>

\* Slip: the carried attestation is pinned to the new content.
NewDocRepinned(r) ==
    [file |-> "whole", content |-> Written(r.art, r.body, r.dir),
     att |-> IF r.att.status = "reviewed"
               THEN [r.att EXCEPT !.hash = Hashed(r.art, r.body)]
               ELSE r.att]

NewDoc(r) ==
    [file |-> "whole", content |-> Written(r.art, r.body, r.dir), att |-> r.att]

\* When another command has written the file since this one truncated it, the
\* longer of the two texts may leave a tail that no longer parses.
Write(p) ==
    /\ pc[p] = "write"
    /\ \E f \in IF disk[run[p].art] = Torn THEN {NewDoc(run[p])}
                                           ELSE {NewDoc(run[p]), Torn} :
            disk' = [disk EXCEPT ![run[p].art] = f]
    /\ pc' = [pc EXCEPT ![p] = "gate"]
    /\ UNCHANGED <<project, waived, run, verdict, reviews, pinned>>

\* No write() looks at the state of its stream: a file that cannot be opened
\* is left as it was, one that cannot be flushed stays cut short, and the
\* command goes on.
WriteFails(p) ==
    /\ Faults
    /\ pc[p] \in {"truncate", "write"}
    /\ pc' = [pc EXCEPT ![p] = "gate"]
    /\ UNCHANGED <<project, disk, waived, run, verdict, reviews, pinned>>

Gates(r) ==
    \/ r.body \in Placeholder /\ ~waived
    \/ /\ r.body \in Repetitive
       /\ ~is_valid_reviewed(r.att, Hashed(r.art, r.body))
       /\ r.require

Gate(p) ==
    /\ pc[p] = "gate"
    /\ run[p].command = "regenerate"
    /\ verdict' = [verdict EXCEPT ![p] = IF Gates(run[p]) THEN "fail" ELSE "pass"]
    /\ pc' = [pc EXCEPT ![p] = "idle"]
    /\ UNCHANGED <<project, disk, waived, run, reviews, pinned>>

\* `release --full` does not gate: it goes on to its next artifact.
ReleaseNext(p) ==
    LET rest == After(ReleaseRank(run[p].art)) IN
    /\ pc[p] = "gate"
    /\ run[p].command = "release"
    /\ pc' = [pc EXCEPT ![p] = IF rest = {} THEN "idle" ELSE "generate"]
    /\ run' = IF rest = {} THEN run
                           ELSE [run EXCEPT ![p].art = First(rest)]
    /\ UNCHANGED <<project, disk, waived, verdict, reviews, pinned>>

Crash(p) ==
    /\ Faults
    /\ pc[p] # "idle"
    /\ pc' = [pc EXCEPT ![p] = "idle"]
    /\ UNCHANGED <<project, disk, waived, run, verdict, reviews, pinned>>

People ==
    \/ \E a \in Artifacts, b \in Bodies : EditProject(a, b)
    \/ Dispose
    \/ \E a \in Artifacts : \E att \in
            {Heuristic} \cup [status : {"reviewed"}, independent : BOOLEAN,
                              hash : IF disk[a].file = "whole"
                                       THEN {disk[a].content} ELSE {}] :
            Attest(a, att)

Command(p) ==
    \/ \E a \in Artifacts, dir \in Dirs, require \in BOOLEAN :
            StartRegenerate(p, a, dir, require)
    \/ \E dir \in Dirs : StartRelease(p, dir)
    \/ Generate(p) \/ Carry(p) \/ Truncate(p) \/ Write(p) \/ WriteFails(p)
    \/ Gate(p) \/ ReleaseNext(p) \/ Crash(p)

Next == People \/ \E p \in Procs : Command(p)

Spec == Init /\ [][Next]_vars

-----------------------------------------------------------------------------
(* A command that had to gate on repetitive content and let it pass had an *)
(* independent person's review of exactly the content it generated: no     *)
(* interleaving of commands, edits, crashes and failed writes lets a stale *)
(* or a self-signed review wave changed content through.                   *)
GateSound ==
    \A p \in Procs :
        verdict[p] = "pass" /\ run[p].require /\ run[p].body \in Repetitive =>
            <<run[p].art, Hashed(run[p].art, run[p].body)>> \in reviews

(* Every review found in a file or carried by a command is one that a      *)
(* person made of that artifact with that content.                         *)
Genuine(a, att) ==
    att.status = "reviewed" /\ att.independent => <<a, att.hash>> \in reviews

ReviewsGenuine ==
    /\ \A a \in Artifacts : Genuine(a, carry_forward(disk[a]))
    /\ \A p \in Procs : Genuine(run[p].art, run[p].att)

(* An attestation that was put in an artifact is still there when no       *)
(* command is running, until somebody replaces it.                         *)
AttestationKept ==
    (\A p \in Procs : pc[p] = "idle") =>
        \A a \in Artifacts : pinned[a] # NoAtt => carry_forward(disk[a]) = pinned[a]

(* The inductive invariant behind GateSound.                               *)
Locals ==
    \A p \in Procs :
        /\ pc[p] # "idle" => verdict[p] = "none"
        /\ pc[p] = "carry" => run[p].command = "regenerate"
        /\ run[p].command = "release" => run[p].att = NoAtt

Inv == TypeOK /\ ReviewsGenuine /\ GateSound /\ Locals

=============================================================================
