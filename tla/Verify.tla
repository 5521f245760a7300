------------------------------- MODULE Verify -------------------------------
(***************************************************************************)
(* The verify command (src/src/verify/verify.cpp and its callback in       *)
(* src/src/cmd/cli.cpp): run ctest, read each test's line of its output,   *)
(* and write the evidence bundle .fusa-evidence.json when no test failed.  *)
(* The VERIFY002 rule of src/src/engine/rules.cpp reads the bundle.        *)
(***************************************************************************)
EXTENDS FiniteSets, Naturals

CONSTANTS
    Tests,          \* the tests of the project
    Starred,        \* the statuses that ctest glues to the dots, as in ....***Failed
    Faults          \* TRUE when processes may die and writes may fail

Statuses == {"passed", "failed", "skipped"}

TestsAssumption == IsFiniteSet(Tests)
\* What passed is never starred: ctest prints "   Passed", but "***Failed".
StarredAssumption == Starred \subseteq Statuses \ {"passed"}

NotRun == "not run"
Lines == [Tests -> Statuses \cup {NotRun}]
Count == 0 .. Cardinality(Tests)
Bundles == [kind : {"bundle"}, results : Lines,
            total : Count, passed : Count, failed : Count, skipped : Count]
\* No file, and a file that is cut short.
NoEvidence == [kind |-> "missing"]
Torn == [kind |-> "torn"]

VARIABLES
    outcome,        \* how each test would end now
    pc,             \* where the command is
    lines,          \* what ctest has printed of each test
    tail,           \* TRUE when ctest has come to its end and printed its counts
    evidence,       \* .fusa-evidence.json
    report          \* what the last command said

vars == <<outcome, pc, lines, tail, evidence, report>>

TypeOK ==
    /\ outcome \in [Tests -> Statuses]
    /\ pc \in {"idle", "ctest", "parse", "write"}
    /\ lines \in Lines
    /\ tail \in BOOLEAN
    /\ evidence \in Bundles \cup {NoEvidence, Torn}
    /\ report \in {"none", "success", "error"}

Init ==
    /\ outcome \in [Tests -> Statuses]
    /\ pc = "idle"
    /\ lines = [t \in Tests |-> NotRun]
    /\ tail = FALSE
    /\ evidence = NoEvidence
    /\ report = "none"

-----------------------------------------------------------------------------
(* Reading the output.                                                     *)

\* Slip: a line without a status that the pattern knows is of a test that passed.
ParseUnknownAsPassed(out) ==
    [t \in Tests |-> IF out[t] \in Starred THEN "passed" ELSE out[t]]

\* The pattern wants white space between the dots and the status.
parse_ctest_output(out) ==
    [t \in Tests |-> IF out[t] \in Starred THEN NotRun ELSE out[t]]

Having(results, status) == Cardinality({t \in Tests : results[t] = status})

\* Slip: ctest's own counts are not looked at.
SummarisedWithoutCounts(out, ended) ==
    LET results == parse_ctest_output(out)
        failed == Having(results, "failed")
        passed == Having(results, "passed")
        skipped == Having(results, "skipped")
    IN [kind |-> "bundle", results |-> results, passed |-> passed, failed |-> failed,
        skipped |-> skipped, total |-> passed + failed + skipped]

\* The counts of the results; without one result ctest's own count of failures,
\* of which "N% tests passed" is not recognised.
Summarised(out, ended) ==
    LET results == parse_ctest_output(out)
        none == \A t \in Tests : results[t] = NotRun
        failed == IF none /\ ended THEN Having(out, "failed") ELSE Having(results, "failed")
        passed == Having(results, "passed")
        skipped == Having(results, "skipped")
    IN [kind |-> "bundle", results |-> results, passed |-> passed, failed |-> failed,
        skipped |-> skipped, total |-> passed + failed + skipped]

-----------------------------------------------------------------------------
(* The project: its code changes and is built again.                       *)

Edit(t, status) ==
    /\ outcome' = [outcome EXCEPT ![t] = status]
    /\ UNCHANGED <<pc, lines, tail, evidence, report>>

-----------------------------------------------------------------------------
(* The command.                                                            *)

NoBuildDir ==
    /\ pc = "idle"
    /\ report' = "error"
    /\ lines' = [t \in Tests |-> NotRun]
    /\ tail' = FALSE
    /\ UNCHANGED <<outcome, pc, evidence>>

Start ==
    /\ pc = "idle"
    /\ pc' = "ctest"
    /\ report' = "none"
    /\ lines' = [t \in Tests |-> NotRun]
    /\ tail' = FALSE
    /\ UNCHANGED <<outcome, evidence>>

Execute(t) ==
    /\ pc = "ctest"
    /\ lines[t] = NotRun
    /\ lines' = [lines EXCEPT ![t] = outcome[t]]
    /\ UNCHANGED <<outcome, pc, tail, evidence, report>>

CtestEnds ==
    /\ pc = "ctest"
    /\ \A t \in Tests : lines[t] # NotRun
    /\ pc' = "parse"
    /\ tail' = TRUE
    /\ UNCHANGED <<outcome, lines, evidence, report>>

\* ctest dies, or cannot be started at all: run_argv ignores its exit status.
CtestDies ==
    /\ Faults
    /\ pc = "ctest"
    /\ pc' = "parse"
    /\ UNCHANGED <<outcome, lines, tail, evidence, report>>

\* A failed test makes run_ctest return an error: nothing is written.
Parse ==
    LET fails == Summarised(lines, tail).failed > 0 IN
    /\ pc = "parse"
    /\ pc' = IF fails THEN "idle" ELSE "write"
    /\ report' = IF fails THEN "error" ELSE "none"
    /\ UNCHANGED <<outcome, lines, tail, evidence>>

write_evidence ==
    /\ pc = "write"
    /\ pc' = "idle"
    /\ evidence' = Summarised(lines, tail)
    /\ report' = "success"
    /\ UNCHANGED <<outcome, lines, tail>>

\* The stream fails and nobody looks.
WriteFails ==
    /\ Faults
    /\ pc = "write"
    /\ pc' = "idle"
    /\ evidence' = Torn
    /\ report' = "success"
    /\ UNCHANGED <<outcome, lines, tail>>

Crash ==
    /\ Faults
    /\ pc # "idle"
    /\ pc' = "idle"
    /\ report' = "none"
    /\ evidence' \in {evidence} \cup (IF pc = "write" THEN {Torn} ELSE {})
    /\ UNCHANGED <<outcome, lines, tail>>

Next ==
    \/ \E t \in Tests, status \in Statuses : Edit(t, status)
    \/ NoBuildDir \/ Start
    \/ \E t \in Tests : Execute(t)
    \/ CtestEnds \/ CtestDies \/ Parse
    \/ write_evidence \/ WriteFails \/ Crash

Spec == Init /\ [][Next]_vars

-----------------------------------------------------------------------------
(* The VERIFY002 rule: a file that does not parse fires nothing.           *)

make_verify002 == evidence.kind = "bundle" /\ evidence.failed > 0

(* Success is reported only when no test that ctest ran has failed, be it  *)
(* that ctest died half way (REQ-VERIFY003).                               *)
SuccessIsGreen ==
    report = "success" => \A t \in Tests : lines[t] # "failed"

(* What does hold of a success in spite of a failed test: the pattern does *)
(* not know the line of that test, and it knows the line of another, or    *)
(* ctest died before its counts.  So a run that ctest finished without one *)
(* pass is refused by ctest's own count of failures.                       *)
AllRedIsRefused ==
    report = "success" =>
        \A t \in Tests : lines[t] = "failed" =>
            /\ "failed" \in Starred
            /\ tail => \E u \in Tests : lines[u] \notin Starred \cup {NotRun}

(* After a success the bundle, unless it was cut short, says of each test  *)
(* nothing or what ctest printed of it in this run, of every test that     *)
(* passed that it did, and its counts are those of its results             *)
(* (REQ-VERIFY003, REQ-VERIFY005).                                         *)
BundleIsOfTheRun ==
    report = "success" /\ evidence.kind = "bundle" =>
        /\ \A t \in Tests : evidence.results[t] \in {lines[t], NotRun}
        /\ evidence.passed = Cardinality({t \in Tests : lines[t] = "passed"})
        /\ evidence.failed = 0
        /\ evidence.total = Cardinality({t \in Tests : evidence.results[t] # NotRun})

(* No bundle that verify writes reports a failure: a run with failures     *)
(* ends in an error, so the VERIFY002 rule never fires on its bundles.     *)
NeverRecorded == ~make_verify002

(* What is about to be written, and what has been after a success, is the  *)
(* summary of the run, and it counts no failure.                           *)
WrittenIsGreen ==
    /\ pc = "write" => Summarised(lines, tail).failed = 0
    /\ report = "success" =>
           /\ pc = "idle" /\ Summarised(lines, tail).failed = 0
           /\ evidence \in {Summarised(lines, tail), Torn}

Inv == TypeOK /\ NeverRecorded /\ WrittenIsGreen

=============================================================================
