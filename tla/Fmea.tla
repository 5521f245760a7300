-------------------------------- MODULE Fmea --------------------------------
(***************************************************************************)
(* The FMEA (src/src/fmea/fmea.cpp): which rows a project's declarations   *)
(* get, how they are rated and summed up, what the cyber report adds, and  *)
(* what the tool's own scan for stubs says of the result.                  *)
(*                                                                         *)
(* A source line is [declares, name, path], in the order the directory is  *)
(* walked; path is [dir, name, cpp, scoped, excluded].  A cyber finding is *)
(* [file, rule], with file a path's name.                                  *)
(***************************************************************************)
EXTENDS Quality

\* Words the pattern for functions takes for a name.
NotFunctions == {"if", "for", "while", "switch", "return", "namespace", "using"}

scan_declarations(lines) ==
    LET is(l) ==
            /\ l.path.cpp /\ l.path.scoped /\ ~l.path.excluded
            /\ l.declares = "class" \/ (l.declares = "function" /\ l.name \notin NotFunctions)
    IN SelectSeq(lines, is)

class_failure_modes ==
    <<"Incorrect initialisation", "State corruption", "Memory leak", "Exception propagation">>
func_failure_modes ==
    <<"Incorrect return value", "Unhandled error", "Buffer overflow", "Race condition">>

FailureModes(kind) == IF kind = "class" THEN class_failure_modes ELSE func_failure_modes

\* "Memory leak" does not have "memory" in it.
Rating(mode) ==
    CASE mode \in {"State corruption", "Buffer overflow"} -> [severity |-> 8, occurrence |-> 4, detection |-> 5]
      [] mode = "Race condition" -> [severity |-> 7, occurrence |-> 3, detection |-> 6]
      [] OTHER -> [severity |-> 5, occurrence |-> 3, detection |-> 4]

action_priority(severity) ==
    IF severity >= 8 THEN "high" ELSE IF severity >= 5 THEN "medium" ELSE "low"

\* Slip: one text for all of a kind.
EffectOfKind(d) == <<d.declares>>

effect(d) == <<d.name, d.declares>>

\* A text for each mode, with the name in it.
cause(d, mode) == <<mode, d.declares, d.name>>

Row(d, mode, id) ==
    LET r == Rating(mode)
    IN [id |-> id, item |-> d.name, failure_mode |-> <<mode, d.name>>,
        cause |-> cause(d, mode), effect |-> effect(d),
        severity |-> r.severity, rpn |-> r.severity * r.occurrence * r.detection,
        action_priority |-> action_priority(r.severity), path |-> d.path]

\* Findings are matched by the name of the file alone.
CyberRefs(path, cyber) == {c.rule : c \in {x \in cyber : x.file = path.name /\ x.rule # ""}}

\* Slip: declarations are counted, not components.
CountOfDeclarations(decls) == Len(decls)

components_analyzed(decls) ==
    Cardinality({<<decls[i].declares, decls[i].name, decls[i].path>> : i \in DOMAIN decls})

\* The rows are numbered before they are sorted by falling rpn; the sort leaves
\* the order among equals open, and here they stay as they were.
generate(lines, inventory, cyber) ==
    LET decls == scan_declarations(lines)
        n(i) == (i - 1) \div 4
        rows == [i \in 1 .. 4 * Len(decls) |->
                    Row(decls[n(i) + 1], FailureModes(decls[n(i) + 1].declares)[i - 4 * n(i)], i)]
        sorted == SortSeq(rows, LAMBDA a, b : a.rpn > b.rpn \/ (a.rpn = b.rpn /\ a.id < b.id))
        analyzed == components_analyzed(decls)
        in_project == IF inventory > analyzed THEN inventory ELSE analyzed
    IN [entries |-> [i \in DOMAIN sorted |->
                        [row |-> sorted[i], refs |-> CyberRefs(sorted[i].path, cyber)]],
        components_analyzed |-> analyzed, components_in_project |-> in_project,
        coverage_pct |-> IF in_project = 0 THEN 100 ELSE (100 * analyzed) \div in_project,
        high_priority |-> Len(SelectSeq(sorted, LAMBDA e : e.severity >= 8))]

\* Of the deny-list only "tbd" can be part of a name, and so of every text of its
\* rows: the names that have it.
DenyListed == {"tbd"}

QualityFields(report) ==
    LET field(e, name) ==
            [field |-> name, value |-> e.row[name], placeholder |-> e.row.item \in DenyListed,
             file |-> e.row.path.name]
    IN FlattenSeq([i \in DOMAIN report.entries |->
            <<field(report.entries[i], "failure_mode"), field(report.entries[i], "effect"),
              field(report.entries[i], "cause")>>])

scan_quality(report) ==
    LET fields == QualityFields(report)
    IN ToSet(scan_stub001(fields, "fmea.json")) \cup scan_stub002(fields, "fmea.json")

-----------------------------------------------------------------------------
(* Rows, priorities and summary are about one inventory: each row that asks *)
(* for action first stands above each that does not, each component has one *)
(* such row per declaration, and a declaration met again, or the order in   *)
(* which the directory is walked, moves no figure of the summary.  The cyber*)
(* report adds references and moves nothing.                                *)
SummaryIsOfTheProject(lines, inventory, cyber) ==
    LET report == generate(lines, inventory, cyber)
        rows == report.entries
        again == generate(lines \o Reverse(lines), inventory, cyber)
        plain == generate(lines, inventory, {})
        high(e) == e.row.action_priority = "high"
    IN /\ \A i, j \in DOMAIN rows : i < j /\ high(rows[j]) => high(rows[i])
       /\ 4 * report.high_priority = Len(rows)
       /\ report = [plain EXCEPT !.entries = rows]
       /\ \A i \in DOMAIN rows : rows[i].row = plain.entries[i].row
       /\ again.components_analyzed = report.components_analyzed
       /\ again.coverage_pct = report.coverage_pct
       /\ report.coverage_pct \in 0 .. 100
       /\ report.coverage_pct = 100 <=> inventory <= report.components_analyzed

(* What the tool writes passes its own scan for one text used everywhere,   *)
(* as long as no name is declared more than twice; and the scan for         *)
(* placeholders finds something just if a declaration's name is on its list.*)
OwnScanIsClean(lines) ==
    LET decls == scan_declarations(lines)
        times(name) == Len(SelectSeq(decls, LAMBDA d : d.name = name))
        found == scan_quality(generate(lines, 0, {}))
        of(rule) == {f \in found : f.rule = rule}
    IN /\ (\A i \in DOMAIN decls : times(decls[i].name) <= 2) => of("FUSA-STUB002") = {}
       /\ of("FUSA-STUB001") # {} <=> \E i \in DOMAIN decls : decls[i].name \in DenyListed

=============================================================================
