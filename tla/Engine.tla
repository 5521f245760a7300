------------------------------- MODULE Engine -------------------------------
(***************************************************************************)
(* The built-in rules (src/src/engine/rules.cpp, engine.cpp) and the       *)
(* qualification suite that tests them (src/src/qualify/qualify.cpp).      *)
(* A project is what its rules can see of it:                              *)
(*   fusa, coupling : whether .fusa.json, coupling-report.json exist       *)
(*   version, standard, asil : of the configuration                        *)
(*   sources : the files, [cpp, scoped, excluded, tagged]                  *)
(*   changelog : "missing" | "short" | "long" | "directory"                *)
(*   hara, reqs, evidence, qualification : a JSON file,                    *)
(*       [is |-> "missing" | "torn" | "read", ...]; a hazard of the hara   *)
(*       file is [id, risk, rated, asil, goals, situations]: whether it    *)
(*       has a risk object, and in it all of severity, exposure and        *)
(*       controllability; a safety goal is [id, asil, hazards, fssr].      *)
(***************************************************************************)
EXTENDS Integers, Sequences, FiniteSets, SequencesExt

Found(severity, about) == <<[severity |-> severity, about |-> about]>>
Nothing == <<>>

\* An asil field may be there and empty, or not be there.
Absent == "absent"
NoAsil == {"", Absent}

-----------------------------------------------------------------------------
(* What the rules look for.                                                *)

\* The files that any_file asks its predicate about.
any_file(p) == {f \in p.sources : f.scoped /\ ~f.excluded}

\* Slip: exclude patterns are not consulted.
FindsAnywhere(p) == \E f \in p.sources : f.scoped /\ f.cpp /\ f.tagged

source_contains(p) == \E f \in any_file(p) : f.cpp /\ f.tagged

make_fusa001(p) == IF p.fusa THEN Nothing ELSE Found("ERROR", ".fusa.json")
make_fusa002(p) == IF source_contains(p) THEN Nothing ELSE Found("WARNING", "")
make_fusa003(p) ==
    IF p.version \in {"", "0.0.0"} THEN Found("WARNING", ".fusa.json") ELSE Nothing
make_fusa004(p) ==
    IF p.evidence.is = "missing" THEN Found("WARNING", ".fusa-evidence.json") ELSE Nothing
make_fusa005(p) ==
    IF p.changelog = "long" THEN Nothing ELSE Found("INFO", "CHANGELOG.md")
make_coup003(p) ==
    IF p.standard \in {"DO178C", "DO-178C"} /\ ~p.coupling THEN Found("INFO", "") ELSE Nothing

\* Loops over a JSON array stop at the first element they report, and give up
\* with nothing to report at the first they cannot read.
Until(items, reported, unreadable) ==
    LET i == SelectInSeq(items, LAMBDA x : x \in reported \cup unreadable)
    IN IF i = 0 \/ items[i] \in unreadable THEN Nothing ELSE Found("WARNING", items[i].id)

rank(asil) ==
    CASE asil \in {"ASIL-D", "D"} -> 4 [] asil \in {"ASIL-C", "C"} -> 3
      [] asil \in {"ASIL-B", "B"} -> 2 [] asil \in {"ASIL-A", "A"} -> 1 [] OTHER -> 0

\* The loop keeps the highest rank so far; a hazard without a risk object ends
\* it with nothing reported.
\* Slip: the last hazard decides, not the highest.
MaxRankLast(hazards) == FoldLeft(LAMBDA max, h : rank(h.asil), 0, hazards)

MaxRank(hazards) ==
    FoldLeft(LAMBDA max, h : IF rank(h.asil) > max THEN rank(h.asil) ELSE max, 0, hazards)

make_hara005(p) ==
    IF p.hara.is # "read" \/ p.asil = "" THEN Nothing
    ELSE IF \E i \in DOMAIN p.hara.hazards : ~p.hara.hazards[i].risk THEN Nothing
    ELSE IF MaxRank(p.hara.hazards) > rank(p.asil) THEN Found("WARNING", ".fusa-hara.json")
    ELSE Nothing

make_iso26262002(p) ==
    IF /\ p.standard \in {"ISO26262", "ISO 26262"} /\ p.reqs.is = "read"
       /\ \E i \in DOMAIN p.reqs.items : p.reqs.items[i].asil \in NoAsil
    THEN Found("INFO", ".fusa-reqs.json") ELSE Nothing

make_iso26262003(p) ==
    IF p.qualification.is = "read" /\ p.qualification.failed > 0
    THEN Found("WARNING", "qualify-report.json") ELSE Nothing

make_hara002(p) ==
    IF p.hara.is # "read" THEN Nothing
    ELSE LET hazards == ToSet(p.hara.hazards)
         IN Until(p.hara.hazards, {h \in hazards : ~h.rated}, {h \in hazards : ~h.risk})

make_hara003(p) ==
    IF p.hara.is # "read" THEN Nothing
    ELSE Until(p.hara.hazards, {h \in ToSet(p.hara.hazards) : h.goals = {}}, {})

make_hara004(p) ==
    IF p.hara.is # "read" THEN Nothing
    ELSE Until(p.hara.goals, {g \in ToSet(p.hara.goals) : g.asil \in NoAsil}, {})

make_verify002(p) ==
    IF p.evidence.is = "read" /\ p.evidence.failed > 0
    THEN Found("ERROR", ".fusa-evidence.json") ELSE Nothing

-----------------------------------------------------------------------------
(* The engine: the rules in the order they were registered.  A rule of an  *)
(* engine is [id, works]; one that does not work never fires ("silent") or *)
(* always does ("firing"), which only the properties below make use of.    *)

Works(id) == [id |-> id, works |-> "right"]

make_default_engine ==
    [i \in 1 .. 13 |-> Works(<<"FUSA001", "FUSA002", "FUSA003", "FUSA004", "FUSA005",
        "COUP003", "HARA005", "ISO26262002", "ISO26262003", "HARA002", "HARA003",
        "HARA004", "VERIFY002">>[i])]

CheckOf(id, p) ==
    CASE id = "FUSA001" -> make_fusa001(p) [] id = "FUSA002" -> make_fusa002(p)
      [] id = "FUSA003" -> make_fusa003(p) [] id = "FUSA004" -> make_fusa004(p)
      [] id = "FUSA005" -> make_fusa005(p) [] id = "COUP003" -> make_coup003(p)
      [] id = "HARA005" -> make_hara005(p) [] id = "ISO26262002" -> make_iso26262002(p)
      [] id = "ISO26262003" -> make_iso26262003(p) [] id = "HARA002" -> make_hara002(p)
      [] id = "HARA003" -> make_hara003(p) [] id = "HARA004" -> make_hara004(p)
      [] id = "VERIFY002" -> make_verify002(p)

check(rule, p) ==
    LET found == CASE rule.works = "right" -> CheckOf(rule.id, p)
                   [] rule.works = "silent" -> Nothing
                   [] rule.works = "firing" -> Found("INFO", "")
    IN [i \in DOMAIN found |->
          [rule |-> rule.id, severity |-> found[i].severity, about |-> found[i].about]]

\* The size of a directory is an error no rule catches: it ends the run.
Aborts(rules, p) ==
    p.changelog = "directory" /\ \E i \in DOMAIN rules : rules[i].id = "FUSA005"

Aborted == <<[rule |-> "aborted", severity |-> "", about |-> ""]>>

run(rules, p) ==
    IF Aborts(rules, p) THEN Aborted
    ELSE FlattenSeq([i \in DOMAIN rules |-> check(rules[i], p)])

run_ids(rules, p, ids) == run(SelectSeq(rules, LAMBDA r : r.id \in ids), p)

-----------------------------------------------------------------------------
(* Qualification: each case is a project of its own, with a configuration  *)
(* that never comes from the case's .fusa.json.                            *)

Case(rule, expect, fusa, tagged, changelog) ==
    [rule |-> rule, expect_finding |-> expect, fusa |-> fusa, tagged |-> tagged,
     changelog |-> changelog]

\* Slip: FUSA002 is never tried on a project that has the annotation.
PositiveOnly ==
    <<Case("FUSA001", TRUE, FALSE, FALSE, "missing"), Case("FUSA001", FALSE, TRUE, TRUE, "missing"),
      Case("FUSA002", TRUE, TRUE, FALSE, "missing"), Case("FUSA003", TRUE, FALSE, TRUE, "missing"),
      Case("FUSA004", TRUE, FALSE, TRUE, "missing"), Case("FUSA005", TRUE, FALSE, TRUE, "missing"),
      Case("FUSA005", FALSE, FALSE, TRUE, "long")>>

builtin_cases ==
    <<Case("FUSA001", TRUE, FALSE, FALSE, "missing"), Case("FUSA001", FALSE, TRUE, TRUE, "missing"),
      Case("FUSA002", TRUE, TRUE, FALSE, "missing"), Case("FUSA002", FALSE, TRUE, TRUE, "missing"),
      Case("FUSA003", TRUE, FALSE, TRUE, "missing"), Case("FUSA004", TRUE, FALSE, TRUE, "missing"),
      Case("FUSA005", TRUE, FALSE, TRUE, "missing"), Case("FUSA005", FALSE, FALSE, TRUE, "long")>>

MissingFile == [is |-> "missing"]

ProjectOf(c) ==
    [fusa |-> c.fusa, coupling |-> FALSE, version |-> "0.0.0", standard |-> "iso26262",
     asil |-> "B", changelog |-> c.changelog, hara |-> MissingFile, reqs |-> MissingFile,
     evidence |-> MissingFile, qualification |-> MissingFile,
     sources |-> {[cpp |-> TRUE, scoped |-> TRUE, excluded |-> FALSE, tagged |-> c.tagged]}]

run_case(c, rules) ==
    LET findings == run(rules, ProjectOf(c))
        found == \E i \in DOMAIN findings : findings[i].rule = c.rule
    IN [test |-> c, passed |-> found = c.expect_finding]

QualifyRun(cases, rules) ==
    LET results == [i \in DOMAIN cases |-> run_case(cases[i], rules)]
        failed == Cardinality({i \in DOMAIN results : ~results[i].passed})
    IN [results |-> results, total |-> Len(cases), passed |-> Len(cases) - failed,
        failed |-> failed]

\* A result is [name, passed]; the hash is over the counts and the results in
\* the order of their names, and over neither the time nor who qualified it.
result_enum(r) == IF r.passed THEN "PASS" ELSE "FAIL"

\* Slip: the results are hashed in the order they ran.
HashAsRun(results) == [i \in DOMAIN results |-> <<results[i].name, result_enum(results[i])>>]

\* The place of a result when they are sorted by name; of one name, as they ran.
Place(results, i) ==
    Cardinality({j \in DOMAIN results : results[j].name < results[i].name
                                           \/ (results[j].name = results[i].name /\ j <= i)})

compute_hash(results) ==
    LET sorted == [k \in DOMAIN results |->
                      results[CHOOSE i \in DOMAIN results : Place(results, i) = k]]
    IN [k \in DOMAIN results |-> <<sorted[k].name, result_enum(sorted[k])>>]

\* qualify-report.json, as the next check reads it.
to_json(report) == [is |-> "read", failed |-> report.failed]

-----------------------------------------------------------------------------
(* Properties.                                                             *)

(* The suite notices a rule that stopped firing for every one of FUSA001   *)
(* to FUSA005, and one that fires always for FUSA001, FUSA002 and FUSA005  *)
(* only: FUSA003 and FUSA004 have no case in which they must keep quiet,   *)
(* and the other eight rules have none at all (builtin_cases).  Whatever    *)
(* it notices, the next check reports from qualify-report.json.             *)
SuiteNotices(rule) ==
    LET with(works) == [i \in DOMAIN make_default_engine |->
            IF make_default_engine[i].id = rule THEN [id |-> rule, works |-> works]
            ELSE make_default_engine[i]]
        fails(works) == QualifyRun(builtin_cases, with(works)).failed > 0
        reported(works) ==
            make_iso26262003([qualification |->
                to_json(QualifyRun(builtin_cases, with(works)))]) # Nothing
    IN /\ ~fails("right")
       /\ fails("silent") <=> rule \in {"FUSA001", "FUSA002", "FUSA003", "FUSA004", "FUSA005"}
       /\ fails("firing") <=> rule \in {"FUSA001", "FUSA002", "FUSA005"}
       /\ \A works \in {"right", "silent", "firing"} : fails(works) <=> reported(works)

(* A file in a stray build tree, or under an exclude pattern, changes no   *)
(* finding of the project (rules.cpp: it can never satisfy a project-wide  *)
(* existence check).                                                       *)
StrayFilesDoNotCount(p) ==
    run(make_default_engine, p) =
    run(make_default_engine, [p EXCEPT !.sources = {f \in @ : f.scoped /\ ~f.excluded}])

(* HARA005 says what the hazards say as long as every one has a risk       *)
(* object: it fires just if the highest of them exceeds the project's      *)
(* level, wherever in the file it stands.                                  *)
HighestHazardDecides(p) ==
    LET hs == p.hara.hazards IN
    p.hara.is = "read" /\ p.asil # "" /\ (\A i \in DOMAIN hs : hs[i].risk) =>
        (make_hara005(p) # Nothing <=> \E i \in DOMAIN hs : rank(hs[i].asil) > rank(p.asil))

(* REQ-HARA005: it fires whenever the highest hazard exceeds the project.  *)
UnderAllocationIsFound(p) ==
    p.hara.is = "read" /\ p.asil # ""
    /\ (\E i \in DOMAIN p.hara.hazards :
            p.hara.hazards[i].risk /\ rank(p.hara.hazards[i].asil) > rank(p.asil))
    => make_hara005(p) # Nothing

(* The hash of the qualification report tells two outcomes apart and not    *)
(* two orders in which the same cases ran (MUST-145/146/148).               *)
HashIsTheOutcome(left, right) ==
    LET Distinct(rs) == \A i, j \in DOMAIN rs : rs[i].name = rs[j].name => i = j IN
    Distinct(left) /\ Distinct(right) =>
        (compute_hash(left) = compute_hash(right) <=> ToSet(left) = ToSet(right))

=============================================================================
