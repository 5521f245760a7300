----------------------------- MODULE MCAnalyses -----------------------------
(* The pure analyses over bounded inputs: every initial state is one input  *)
(* of one analysis, and Report is the command that has been run on it.      *)
EXTENDS Integers, Sequences, FiniteSets, SequencesExt

VARIABLES input, reported

HA == INSTANCE Hara
GA == INSTANCE Gap
FI == INSTANCE Findings
FU == INSTANCE FuncCoverage
CO == INSTANCE Coverage
FM == INSTANCE Fmea
TA == INSTANCE Tara
AR == INSTANCE Argument
IM == INSTANCE Impact
ST == INSTANCE Structure
VU == INSTANCE Vuln
SN == INSTANCE Scanners

Inputs(of, values) == {[of |-> of, value |-> v] : v \in values}

-----------------------------------------------------------------------------
Missing == [is |-> "missing"]
Torn == [is |-> "torn"]
Failing == {Missing, Torn, [is |-> "read", failed |-> 0], [is |-> "read", failed |-> 2]}

Hazards ==
    LET Hazard(id, risk, rated, asil, goals, situations) ==
            [id |-> id, risk |-> risk, rated |-> rated, asil |-> asil, goals |-> goals,
             situations |-> situations]
    IN {Hazard("H1", TRUE, TRUE, asil, {"G1"}, {"S1"}) : asil \in {"QM", "ASIL-B", "ASIL-D"}}
       \cup {Hazard("H2", FALSE, FALSE, "", {}, {}), Hazard("H2", TRUE, FALSE, "absent", {"G2"}, {"S2"})}

Goals ==
    {[id |-> "G1", asil |-> "ASIL-B", hazards |-> {"H1"}, fssr |-> {"R1"}],
     [id |-> "G2", asil |-> "absent", hazards |-> {"H2", "H3"}, fssr |-> {"R2"}]}

HaraFiles ==
    {Missing, Torn} \cup
    {[is |-> "read", situations |-> {"S1"}, hazards |-> hs, goals |-> gs] :
        hs \in BoundedSeq(Hazards, 2), gs \in BoundedSeq(Goals, 2)}

Plain ==
    [fusa |-> TRUE, coupling |-> FALSE, version |-> "1.0", standard |-> "iso26262", asil |-> "ASIL-B",
     sources |-> {}, changelog |-> "long", hara |-> Missing, reqs |-> Missing, evidence |-> Missing,
     qualification |-> Missing]

HaraProjects ==
    {[Plain EXCEPT !.hara = h, !.asil = a] : h \in HaraFiles, a \in {"", "A", "ASIL-C"}}

SourceFiles ==
    [cpp : {TRUE}, scoped : BOOLEAN, excluded : BOOLEAN, tagged : BOOLEAN]
    \cup {[cpp |-> FALSE, scoped |-> TRUE, excluded |-> FALSE, tagged |-> TRUE]}

SourceProjects ==
    {[Plain EXCEPT !.sources = s, !.changelog = c, !.evidence = e] :
        s \in SUBSET SourceFiles, c \in {"missing", "directory"}, e \in Failing}

RuleIds == {HA!make_default_engine[i].id : i \in DOMAIN HA!make_default_engine}
\* Nearly nothing and nearly everything of a standard's evidence.
GapFiles(standard) ==
    LET all == GA!Evidence(standard)
        few == {{}} \cup {{a, b} : a, b \in all}
    IN few \cup {all \ f : f \in few}

GapProjects == UNION {{[standard |-> s, files |-> f] : f \in GapFiles(s)} : s \in GA!Standards}

Unece ==
    {[regulation |-> r, files |-> f] : r \in {"r155", "r156", "both"},
        f \in SUBSET (GA!Evidence("r155") \cup GA!Evidence("r156"))}

Finding(rule, severity, file, line) ==
    [rule |-> rule, severity |-> severity, file |-> file, line |-> line]

FindingLists ==
    BoundedSeq({Finding("R1", "ERROR", "", 0), Finding("R1", "WARNING", "a.cpp", 1),
                Finding("R1", "ERROR", "a.cpp", 1), Finding("R2", "WARNING", "a.cpp", 2),
                Finding("R1", "INFO", "a.cpp", 2)}, 3)

Configs ==
    [project : {"p"}, version : {"0.1.0", ""}, standard : {"iso26262", "iec61508", "do178c"},
     asil : {"ASIL-B", "SIL-2", "DAL-A", ""}, language : {"cpp"},
     source_dirs : {<<>>, <<"src">>}, exclude_patterns : {<<>>, <<"build">>}, strict : BOOLEAN]

Texts == BoundedSeq(FU!Chars, 5)
Headers ==
    BoundedSeq({"class", "struct", "namespace", "func", "close", "public", "private", "decl"}, 5)

Function(qualifier, name) == [qualifier |-> qualifier, name |-> name]
Declared == <<Function("", "f"), Function("A", "f"), Function("", "g")>>
LineForms ==
    LET line(indented, is, calls) == [indented |-> indented, is |-> is, calls |-> calls]
        f == Function("", "f") af == Function("A", "f") g == Function("", "g")
    IN {line(FALSE, "code", calls) : calls \in {<<f>>, <<g>>, <<f, g>>, <<af>>, <<af, f>>}}
       \cup {line(TRUE, "code", <<g>>), line(FALSE, "comment", <<f>>),
             line(TRUE, "tag", <<>>), line(FALSE, "tag", <<>>), line(FALSE, "comment", <<>>),
             line(FALSE, "blank", <<>>)}
SourceLines == BoundedSeq(LineForms, 4)

\* A record of lcov, whole or with lines of it missing.
LcovRecords ==
    LET line(key, value) == <<[key |-> key, value |-> value]>>
        maybe(key, values) == {<<>>} \cup {line(key, v) : v \in values}
    IN {FlattenSeq(<<start, lf, lh, brf, brh, end>>) :
            start \in maybe("SF", {0}), lf \in maybe("LF", {4}), lh \in maybe("LH", {3, 4}),
            brf \in maybe("BRF", {4}), brh \in maybe("BRH", {3, 4}), end \in maybe("end", {0})}
LcovLines == {FlattenSeq(records) : records \in BoundedSeq(LcovRecords, 2)}
McdcRecords == BoundedSeq(BoundedSeq({0, 2} \X {0, 1}, 2), 2)

Outcomes == BoundedSeq([name : 1 .. 3, passed : BOOLEAN], 3)

-----------------------------------------------------------------------------
\* Texts up to a byte more than two blocks.
Lengths == 0 .. 129
Messages == BoundedSeq({"x", "y", "7", "8", " "}, 4)

Path(dir, name, cpp, scoped, excluded) ==
    [dir |-> dir, name |-> name, cpp |-> cpp, scoped |-> scoped, excluded |-> excluded]
Declarations ==
    LET paths == {Path("a", "x.cpp", TRUE, TRUE, FALSE), Path("b", "x.cpp", TRUE, TRUE, FALSE)}
        line(declares, name, path) == [declares |-> declares, name |-> name, path |-> path]
    IN {line(d, n, p) : d \in {"class", "function"}, n \in {"f", "g"}, p \in paths}
       \cup {line("function", "if", Path("a", "x.cpp", TRUE, TRUE, FALSE)),
             line("function", "f", Path("a", "y.cpp", TRUE, FALSE, FALSE)),
             line("class", "f", Path("a", "z.cpp", TRUE, TRUE, TRUE)),
             line("function", "tbd", Path("a", "x.cpp", TRUE, TRUE, FALSE))}
CyberFindings == SUBSET [file : {"x.cpp", "y.cpp"}, rule : {"CYBER001", ""}]
FmeaProjects ==
    [lines : BoundedSeq(Declarations, 3), inventory : {0, 2, 5}, cyber : {{}}]
    \cup [lines : BoundedSeq(Declarations, 1), inventory : {1}, cyber : CyberFindings]

Ratings ==
    LET levels == {"negligible", "moderate", "major", "critical"}
    IN [feasibility : {"very-low", "low", "medium", "high", "unknown"},
        impact : [1 .. 4 -> levels]]

\* Any of the files the goals rest on, with nothing or all of the others.
EvidenceSets ==
    LET cited == {AR!Evidence[s] : s \in DOMAIN AR!Evidence}
        others == (AR!baseline_items \cup AR!lifecycle_items) \ cited
    IN {[f \in some |-> f] : some \in {c \cup o : c \in SUBSET cited, o \in {{}, others}}}

ImpactInputs ==
    LET safe == {"HEAD", "v1"}
        asked == {<<"HEAD">>} \cup (safe \X safe)
        a == <<"src/", "a.cpp">>
        lines == BoundedSeq({[path |-> a, binary |-> FALSE], [path |-> <<"a.cpp">>, binary |-> FALSE],
                             [path |-> <<"src/", "b.cpp">>, binary |-> TRUE]}, 1)
        diff(tree, range) ==
            [x \in asked |-> IF Len(x) = 1 THEN tree ELSE IF x[1] = x[2] THEN <<>> ELSE range]
        impls == {[object |-> o, file |-> f] : o \in BOOLEAN, f \in {a}}
                 \cup {[object |-> TRUE, file |-> f] : f \in {<<"src/", "b.cpp">>, <<>>}}
        ids == <<"R1", "R2">>
        named(list) == [i \in DOMAIN list |-> [id |-> ids[i], implementations |-> list[i]]]
        registries == {named(list) : list \in BoundedSeq(BoundedSeq(impls, 2), 2)}
    IN [refs : {<<"", "">>, <<"v1", "">>, <<"", "-x">>}, safe : {safe},
        diff : {diff(l, <<>>) : l \in lines} \cup {diff(<<>>, l) : l \in lines}, reqs : registries]

CompLines ==
    LET line(sig, braces, branches) == [sig |-> sig, braces |-> braces, branches |-> branches]
    IN {line("f", <<"{">>, 0), line("g", <<"{">>, 1), line("if", <<"{">>, 1), line("h", <<"{", "}">>, 0),
        line("", <<"}">>, 0), line("", <<"}", "{">>, 1), line("", <<>>, 1)}

Files ==
    LET includes == {[form |-> "none", to |-> ""], [form |-> "rooted", to |-> "b"],
                     [form |-> "relative", to |-> "b"], [form |-> "bare", to |-> "filesystem"],
                     [form |-> "bare", to |-> "iostream"]}
        line(include, call) == [include |-> include, call |-> call]
        lines == {{line(i, "")} : i \in includes}
                 \cup {{line([form |-> "none", to |-> ""], c)} : c \in {"a", "std"}}
    IN [component : {"a", "b", "io"}, kind : {"cpp", "cxx", "hpp"}, excluded : {FALSE}, lines : lines]
       \cup [component : {"a", "b"}, kind : {"cpp"}, excluded : {TRUE}, lines : lines]
FileSets == {{f, g} : f, g \in Files}

CMakeMarks ==
    {[declares |-> n] : n \in {"nlohmann_json", "catch2", "Catch2"}}
    \cup {[tag |-> t] : t \in {<<>>, <<3, 9, 1>>, <<3, 10, 5>>, <<2, 13, 7>>, <<3, 11, 0>>}}

\* Files whose braces balance, of lines as destructors, recursion, switches and
\* the limits of functions call for.
ScannedFiles ==
    LET tok(is) == [is |-> is, of |-> ""]
        def(f) == [is |-> "def", of |-> f]
        noted(code, notes) == [code |-> code, notes |-> notes, file |-> {}]
        line(code) == noted(code, {})
        open == line(<<tok("{")>>)
        close == line(<<tok("}")>>)
        f == line(<<def("f"), tok("{")>>)
        call == [is |-> "call", of |-> "f"]
        destructors ==
            {open, close, f, line(<<tok("dtor"), tok("{")>>), line(<<tok("dtor")>>),
             line(<<tok("dtor"), tok("{"), tok("throw"), tok("}")>>), line(<<tok("throw")>>)}
        recursion ==
            {open, close, f, line(<<def("g"), tok("{")>>), line(<<def("f"), tok("{"), call, tok("}")>>),
             line(<<call>>), noted(<<tok("{"), [call EXCEPT !.is = "member"]>>, {"LINT008"})}
        switches ==
            {open, close, line(<<tok("switch"), tok("{")>>), line(<<tok("default")>>),
             line(<<tok("}"), tok("{")>>), noted(<<tok("goto"), tok("abort")>>, {"safe-state"}),
             [line(<<tok("abort")>>) EXCEPT !.file = {"LINT004"}]}
        limits ==
            {open, close, f, line(<<tok("return")>>), line(<<tok("}"), tok("{")>>),
             line(<<tok("{"), tok("return"), tok("}")>>), line(<<tok("}"), tok("}")>>)}
    IN UNION {{l \in BoundedSeq(lines, 5) : SN!Balanced(SN!Tokens(l))} :
                  lines \in {destructors, recursion, switches, limits}}

-----------------------------------------------------------------------------
Init ==
    /\ input \in
        Inputs("hara", HaraProjects) \cup Inputs("sources", SourceProjects)
        \cup Inputs("rule", RuleIds) \cup Inputs("outcomes", Outcomes)
        \cup Inputs("gap", GapProjects) \cup Inputs("standard", GA!Standards)
        \cup Inputs("unece", Unece) \cup Inputs("findings", FindingLists)
        \cup Inputs("config", Configs) \cup Inputs("text", Texts)
        \cup Inputs("header", Headers) \cup Inputs("lines", SourceLines)
        \cup Inputs("lcov", LcovLines) \cup Inputs("mcdc", McdcRecords)
        \cup Inputs("bytes", Lengths) \cup Inputs("message", Messages)
        \cup Inputs("fmea", FmeaProjects) \cup Inputs("rating", Ratings)
        \cup Inputs("evidence", EvidenceSets) \cup Inputs("impact", ImpactInputs)
        \cup Inputs("comp", BoundedSeq(CompLines, 5)) \cup Inputs("files", FileSets)
        \cup Inputs("scanned", ScannedFiles)
        \cup Inputs("cmake", BoundedSeq(CMakeMarks, 4))
    /\ reported = FALSE

Report == ~reported /\ reported' = TRUE /\ UNCHANGED input

Spec == Init /\ [][Report]_<<input, reported>>

Of(kind, Holds(_)) == input.of = kind => Holds(input.value)

HazardsInv ==
    Of("hara", LAMBDA p : HA!HighestHazardDecides(p) /\ HA!NoneDangles(p.hara, {"R1"}))
HazardReportsAgree == Of("hara", LAMBDA p : HA!RulesAgreeWithReport(p, {"R1"}))
AsilIsTable4 == Of("rule", LAMBDA r : HA!AsilIsTable4)
SuiteNotices == Of("rule", HA!SuiteNotices)
StrayFilesDoNotCount == Of("sources", HA!StrayFilesDoNotCount)
HashIsTheOutcome == Of("outcomes", LAMBDA o : \A x \in Outcomes : HA!HashIsTheOutcome(o, x))
MoreEvidenceNeverHurts == Of("gap", LAMBDA g : GA!MoreEvidenceNeverHurts(g.standard, g.files))
HigherAsksMore == Of("standard", GA!HigherAsksMore)
AllEvidenceLeaves == reported => Of("standard", GA!AllEvidenceLeaves)
UneceCoversWhatIsAsked ==
    Of("unece", LAMBDA u : GA!UneceCoversWhatIsAsked(u.regulation, u.files))

ConfigRoundTrips == Of("config", FI!ConfigRoundTrips)
FormatsAgree == Of("findings", FI!FormatsAgree)
WaiversTakeOutTheirRules ==
    Of("findings", LAMBDA f : \A waived \in SUBSET {"R1", "R2"} : FI!WaiversTakeOutTheirRules(f, waived))
DiffSeesNewPlaces ==
    Of("findings", LAMBDA f : \A g \in FindingLists : FI!DiffSeesNewPlaces(f, g))
ReadersCountAsTheReport == Of("findings", FI!ReadersCountAsTheReport)

StripsComments == Of("text", FU!StripsComments)
CountsPublicDeclarations == Of("header", FU!CountsPublicDeclarations)
OneTagOneFunction == Of("lines", LAMBDA l : FU!OneTagOneFunction(Declared, l))

FullMeansEveryFile == Of("lcov", CO!FullMeansEveryFile)
LevelsAreOrdered == Of("lcov", CO!LevelsAreOrdered)
McdcMeansBoth == Of("mcdc", CO!McdcMeansBoth)

PaddingIsFips == Of("bytes", FM!PaddingIsFips)
SameWordsSameFinding ==
    Of("message", LAMBDA a : \A b \in {m \in Messages : Len(m) <= 3} : FM!SameWordsSameFinding(a, b))
SummaryIsOfTheProject ==
    Of("fmea", LAMBDA p : FM!SummaryIsOfTheProject(p.lines, p.inventory, p.cyber))
OwnScanIsClean == Of("fmea", LAMBDA p : FM!OwnScanIsClean(p.lines))
RiskFollowsTheWorst == Of("rating", LAMBDA r : TA!RiskFollowsTheWorst(r.feasibility, r.impact))
SupportIsArgued == Of("evidence", AR!SupportIsArgued)
ArgumentIsIndexed == Of("evidence", AR!ArgumentIsIndexed)
ImpactIsComplete ==
    Of("impact", LAMBDA i : IM!ImpactIsComplete(i.refs[1], i.refs[2], i.diff, i.safe, i.reqs, {"fmea.json"}))
MeasuresEveryFunction == Of("comp", LAMBDA l : ST!MeasuresEveryFunction(l, 2))
AccountsAgree == Of("files", ST!AccountsAgree)
UpgradesCloseAdvisories == Of("cmake", VU!UpgradesCloseAdvisories)

ThrowIsInDestructor == Of("scanned", SN!ThrowIsInDestructor)
RecursionIsSeen == Of("scanned", SN!RecursionIsSeen)
OwnDefaultSuffices == Of("scanned", SN!OwnDefaultSuffices)
SuppressionIsOfItsLine == Of("scanned", SN!SuppressionIsOfItsLine)
LimitsAreOfTheBody == Of("scanned", LAMBDA l : SN!LimitsAreOfTheBody(l, 1))

UnderAllocationIsFound == Of("hara", HA!UnderAllocationIsFound)

-----------------------------------------------------------------------------
(* What the run checks: the properties above by what they are about.        *)

\* Ratings are those of their tables: the ASIL of a hazard that of ISO 26262-3
\* Table 4, the risk of a threat that of its worst impact, in whatever order.
RatingsFollowTheTables == AsilIsTable4 /\ RiskFollowsTheWorst

\* The engine's rules are what they are qualified for: the project's level is
\* compared with its worst hazard, the rules find what the HARA report says, a
\* rule sees the files in scope only; the qualification suite notices a rule
\* that has stopped firing, and the certificate's hash is that of the outcome.
QualificationMeansTheRules ==
    /\ HazardsInv /\ HazardReportsAgree /\ StrayFilesDoNotCount
    /\ SuiteNotices /\ HashIsTheOutcome

\* In a gap report more evidence is never worse, a higher level asks for more,
\* all evidence leaves what is assessed by hand, and both regulations are told.
GapsFollowTheEvidence ==
    MoreEvidenceNeverHurts /\ HigherAsksMore /\ AllEvidenceLeaves /\ UneceCoversWhatIsAsked

\* The settings that are saved are read back, every report format tells the
\* same findings, a waiver takes out its rule, and diff sees every new place.
ReportsTellTheFindings ==
    ConfigRoundTrips /\ FormatsAgree /\ WaiversTakeOutTheirRules /\ DiffSeesNewPlaces

\* Coverage is added up as it is reached: a tag is of one line, levels are
\* ordered, full means every file, and MC/DC both outcomes of every condition.
CoverageIsOfTheCode == OneTagOneFunction /\ LevelsAreOrdered /\ FullMeansEveryFile /\ McdcMeansBoth

\* The generated artifacts are of the project: an argument rests on what it cites,
\* what is cited is indexed, coupling and boundary reports tell of the same
\* components, an upgrade closes the advisory, and what is hashed is padded as
\* FIPS 180-4 says.
ArtifactsAreOfTheProject ==
    /\ SupportIsArgued /\ ArgumentIsIndexed /\ AccountsAgree /\ UpgradesCloseAdvisories
    /\ PaddingIsFips

\* Whatever walks a text follows it: comments are no code, public declarations
\* count, a line is of the function whose braces it is in, fingerprints
\* are of words, summaries count the declarations there are,
\* and impact names all that a diff touches.
ScansFollowTheText ==
    /\ StripsComments /\ CountsPublicDeclarations /\ MeasuresEveryFunction
    /\ ThrowIsInDestructor /\ RecursionIsSeen /\ OwnDefaultSuffices
    /\ SuppressionIsOfItsLine /\ LimitsAreOfTheBody
    /\ SameWordsSameFinding /\ SummaryIsOfTheProject /\ OwnScanIsClean
    /\ ImpactIsComplete

=============================================================================
