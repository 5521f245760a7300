------------------------------ MODULE Argument ------------------------------
(***************************************************************************)
(* The documents that say which evidence there is: the safety case         *)
(* (src/src/safety_case/safety_case.cpp), the accomplishment summary       *)
(* (src/src/sas/sas.cpp) and the configuration index (src/src/sci/sci.cpp).*)
(* All three look at the same directory; files gives the content of each   *)
(* file in it.                                                             *)
(***************************************************************************)
EXTENDS Naturals, Sequences, FiniteSets, SequencesExt

Goals == {"G1", "G2", "G3", "G4", "G5", "G6"}

\* The evidence of the solutions.
Evidence ==
    [Sn1 |-> "docs/tool-safety-manual.md", Sn2 |-> ".fusa.json", Sn3 |-> ".fusa-reqs.json",
     Sn4 |-> "qualify-report.json", Sn5 |-> ".fusa-evidence.json", Sn6 |-> "check-report.json",
     Sn7 |-> "fmea.json"]

supportedBy ==
    {<<"G1", "St1">>, <<"St1", "G3">>, <<"St1", "G5">>, <<"G1", "St2">>, <<"St2", "G2">>,
     <<"St2", "G4">>, <<"St2", "G6">>, <<"G2", "Sn1">>, <<"G2", "Sn2">>, <<"G4", "Sn3">>,
     <<"G4", "Sn5">>, <<"G5", "Sn6">>, <<"G6", "Sn4">>, <<"G3", "Sn7">>}
inContextOf == {<<"G1", "C1">>, <<"St2", "A1">>, <<"G3", "J1">>}

\* Slip: two goals look at each other's file.
FilesSwapped ==
    [G2 |-> "docs/tool-safety-manual.md", G3 |-> "fmea.json", G4 |-> ".fusa-evidence.json",
     G5 |-> "qualify-report.json", G6 |-> "check-report.json"]

\* The one file that a goal's status looks for.
SupportingFile ==
    [G2 |-> "docs/tool-safety-manual.md", G3 |-> "fmea.json", G4 |-> ".fusa-evidence.json",
     G5 |-> "check-report.json", G6 |-> "qualify-report.json"]

\* A goal is supported when that file is there; nothing derives G1.
generate(files) ==
    [g \in Goals |->
        IF g \in DOMAIN SupportingFile /\ SupportingFile[g] \in DOMAIN files
        THEN "supported" ELSE "undeveloped"]

compute_completeness(status) ==
    [total_goals |-> Cardinality(Goals),
     goals_with_evidence |-> Cardinality({g \in Goals : status[g] = "supported"}),
     undeveloped |-> Cardinality({g \in Goals : status[g] = "undeveloped"})]

-----------------------------------------------------------------------------
baseline_items ==
    {".fusa.json", ".fusa-reqs.json", ".fusa-evidence.json", "check-report.json",
     "cyber-report.json", "fmea.json", "tara.json", "safety-case.json", "qualify-report.json",
     "sbom.json", "provenance.json", "artifact-manifest.json", "audit-pack.zip", "fusa-badge.svg",
     "iso26262-gap-report.json", "iec61508-gap-report.json", "do178-gap-report.json", "vuln.json",
     ".fusa-hara.json", ".fusa-dispositions.json"}

build_sas(files) ==
    [checklist |-> [f \in baseline_items |-> f \in DOMAIN files],
     total |-> Cardinality(baseline_items), present |-> Cardinality(baseline_items \cap DOMAIN files)]

\* Slip: an artifact is left out of the index.
ItemsWithoutQualification ==
    {".fusa-reqs.json", ".fusa.json", ".fusa-hara.json", ".fusa-evidence.json",
     "check-report.json", "cyber-report.json", "fmea.json", "tara.json", "safety-case.json",
     "sbom.json", "provenance.json", "artifact-manifest.json", "audit-pack.zip",
     "iso26262-gap-report.json", "iec61508-gap-report.json", "do178-gap-report.json", "sas.json"}

lifecycle_items ==
    {".fusa-reqs.json", ".fusa.json", ".fusa-hara.json", ".fusa-evidence.json",
     "check-report.json", "cyber-report.json", "fmea.json", "tara.json", "safety-case.json",
     "qualify-report.json", "sbom.json", "provenance.json", "artifact-manifest.json",
     "audit-pack.zip", "iso26262-gap-report.json", "iec61508-gap-report.json",
     "do178-gap-report.json", "sas.json"}

\* The hash stands for the content; a file that is not there has none.
build_sci(files) ==
    [f \in lifecycle_items |->
        IF f \in DOMAIN files THEN [present |-> TRUE, hash |-> files[f]]
        ELSE [present |-> FALSE, hash |-> "none"]]

-----------------------------------------------------------------------------
\* The nodes reached from a node in the argument.
Under(node) ==
    LET next(nodes) == nodes \cup {e[2] : e \in {x \in supportedBy : x[1] \in nodes}}
    IN next(next(next(next({node}))))

(* The status of a goal says what its argument does: a supported goal has a *)
(* solution under it whose evidence is there, a goal all of whose evidence  *)
(* is there is supported unless other goals stand between, what supports    *)
(* one goal supports no other, and the argument has no cycle, ends in       *)
(* solutions only and hangs together under G1.                              *)
SupportIsArgued(files) ==
    LET status == generate(files)
        solutions(g) == Under(g) \cap DOMAIN Evidence
        there(s) == Evidence[s] \in DOMAIN files
        done == compute_completeness(status)
    IN /\ \A g \in Goals : status[g] = "supported" => \E s \in solutions(g) : there(s)
       /\ \A g \in Goals \ {"G1"} : (\A s \in solutions(g) : there(s)) => status[g] = "supported"
       /\ \A f \in DOMAIN files :
              LET less == generate([x \in DOMAIN files \ {f} |-> files[x]])
              IN Cardinality({g \in Goals : less[g] # status[g]}) <= 1
       /\ done.goals_with_evidence + done.undeveloped = done.total_goals
       /\ \A e \in supportedBy : e[1] \notin Under(e[2])
       /\ \A n \in Under("G1") : n \in DOMAIN Evidence \/ \E e \in supportedBy : e[1] = n
       /\ Goals \cup DOMAIN Evidence \subseteq Under("G1")
       /\ \A e \in inContextOf : e[1] \in Under("G1")

(* What the safety case rests on is under configuration and accounted for:  *)
(* apart from the manual of G2, every file that supports a goal has its     *)
(* hash in the configuration index and its tick in the summary, and the two *)
(* agree about every file they both list.                                   *)
ArgumentIsIndexed(files) ==
    LET status == generate(files)
        sci == build_sci(files)
        sas == build_sas(files)
    IN /\ \A g \in Goals \ {"G2"} :
              status[g] = "supported" =>
                  LET f == SupportingFile[g]
                  IN f \in DOMAIN sci /\ sci[f].hash = files[f] /\ sas.checklist[f]
       /\ \A f \in DOMAIN sci \cap DOMAIN sas.checklist : sci[f].present = sas.checklist[f]

=============================================================================
