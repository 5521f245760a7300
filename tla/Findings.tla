------------------------------ MODULE Findings ------------------------------
(***************************************************************************)
(* What happens to findings and to the configuration they are reported     *)
(* with: .fusa.json (src/src/config), the report formats (src/src/report), *)
(* the exit code, the badge (src/src/badge), the comparison of two reports *)
(* (src/src/diff) and the metrics snapshot (src/src/metrics).              *)
(* A finding is [rule, severity, file, line, message]; line 0 is none.     *)
(***************************************************************************)
EXTENDS Integers, Sequences, FiniteSets, SequencesExt

-----------------------------------------------------------------------------
(* The configuration.  A JSON document is a function from the keys it has. *)

Get(doc, key, default) == IF key \in DOMAIN doc THEN doc[key] ELSE default
First(doc, keys, default) ==
    LET i == SelectInSeq(keys, LAMBDA k : k \in DOMAIN doc)
    IN IF i = 0 THEN default ELSE doc[keys[i]]

defaults(dir) ==
    [project |-> dir, version |-> "0.1.0", standard |-> "iso26262", asil |-> "ASIL-B",
     language |-> "cpp", source_dirs |-> <<"src", "include">>, exclude_patterns |-> <<>>,
     strict |-> FALSE]

\* "name" is a key of a project object, "project" a flat text with "version"
\* beside it.
load(doc) ==
    [project |-> First(doc, <<"name", "project">>, ""),
     version |-> Get(doc, IF "name" \in DOMAIN doc THEN "name.version" ELSE "version", "0.1.0"),
     standard |-> Get(doc, "standard", "iso26262"),
     asil |-> First(doc, <<"asil", "sil", "dal">>, "ASIL-B"),
     language |-> Get(doc, "language", "cpp"),
     source_dirs |-> First(doc, <<"sourceDirs", "source_dirs">>, <<>>),
     exclude_patterns |-> First(doc, <<"excludePatterns", "exclude_patterns">>, <<>>),
     strict |-> Get(doc, "strict", FALSE)]

IsSil(level) == level \in {"SIL-1", "SIL-2", "SIL-3", "SIL-4"}
IsDal(level) == level \in {"DAL-A", "DAL-B", "DAL-C", "DAL-D"}

\* Slip: only the standard decides.
KeyByStandard(cfg) ==
    CASE cfg.standard = "iec61508" -> "sil" [] cfg.standard = "do178c" -> "dal" [] OTHER -> "asil"

integrity_key(cfg) ==
    CASE cfg.standard = "iec61508" \/ IsSil(cfg.asil) -> "sil"
      [] cfg.standard = "do178c" \/ IsDal(cfg.asil) -> "dal" [] OTHER -> "asil"

\* The language is not written, an empty list of exclude patterns neither.
save(cfg) ==
    [key \in {"name", "name.version", "standard", integrity_key(cfg), "sourceDirs", "strict"}
             \cup (IF cfg.exclude_patterns = <<>> THEN {} ELSE {"excludePatterns"}) |->
        CASE key = "name" -> cfg.project [] key = "name.version" -> cfg.version
          [] key = "standard" -> cfg.standard [] key = "sourceDirs" -> cfg.source_dirs
          [] key = "strict" -> cfg.strict [] key = "excludePatterns" -> cfg.exclude_patterns
          [] OTHER -> cfg.asil]

\* The header of a report names the level by its text alone, an empty one not
\* at all.
add_report_envelope(cfg) ==
    CASE cfg.asil = "" -> {} [] IsSil(cfg.asil) -> {"sil"}
      [] IsDal(cfg.asil) -> {"dal"} [] OTHER -> {"asil"}

-----------------------------------------------------------------------------
(* Reports.                                                                *)

CountOf(findings, severity) == Cardinality({i \in DOMAIN findings : findings[i].severity = severity})

render_json(findings) ==
    [is |-> "read", findings |-> findings,
     summary |-> [total |-> Len(findings), errors |-> CountOf(findings, "ERROR"),
                  warnings |-> CountOf(findings, "WARNING"), infos |-> CountOf(findings, "INFO")]]

\* Slip: a note is a warning.
LevelOfProblem(severity) == IF severity = "ERROR" THEN "error" ELSE "warning"

level(severity) ==
    CASE severity = "ERROR" -> "error" [] severity = "WARNING" -> "warning" [] OTHER -> "note"

\* Every result has a place, whether its finding has one or not.
render_sarif(findings) ==
    [rules |-> FoldLeft(LAMBDA seen, f : IF f.rule \in ToSet(seen) THEN seen ELSE Append(seen, f.rule),
                        <<>>, findings),
     results |-> [i \in DOMAIN findings |->
        [rule |-> findings[i].rule, level |-> level(findings[i].severity),
         uri |-> IF findings[i].file = "" THEN "." ELSE findings[i].file,
         startLine |-> IF findings[i].line > 0 THEN findings[i].line ELSE 1]]]

exit_code(findings, strict) ==
    IF \E i \in DOMAIN findings :
        \/ findings[i].severity = "ERROR"
        \/ strict /\ findings[i].severity = "WARNING"
    THEN 1 ELSE 0

\* Slip: the first waived finding ends the loop.
GateUntilWaived(findings, strict, waived) ==
    LET gates(f) == f.severity = "ERROR" \/ (strict /\ f.severity = "WARNING")
        i == SelectInSeq(findings, gates)
    IN IF i = 0 \/ findings[i].rule \in waived THEN 0 ELSE 1

\* The rules whose latest disposition is accepted or deferred are waived.
gated_exit_code(findings, strict, waived) ==
    IF \E i \in DOMAIN findings :
        /\ findings[i].severity = "ERROR" \/ (strict /\ findings[i].severity = "WARNING")
        /\ findings[i].rule \notin waived
    THEN 1 ELSE 0

-----------------------------------------------------------------------------
(* Commands that read a report.                                            *)

from_findings(errors, warnings) ==
    IF errors > 0 THEN "FAIL" ELSE IF warnings > 0 THEN "WARN" ELSE "PASS"

load_findings(report) ==
    IF report.is = "read" THEN [ok |-> TRUE, findings |-> report.findings]
    ELSE [ok |-> FALSE, findings |-> <<>>]

\* `badge` checks by itself, `badge --report` reads; it looks for severities
\* in lower case, and takes a report it cannot read for one without findings.
badge(findings) == from_findings(CountOf(findings, "ERROR"), CountOf(findings, "WARNING"))
badge_report(report) ==
    from_findings(CountOf(load_findings(report).findings, "error"),
                  CountOf(load_findings(report).findings, "warning"))

\* A metrics snapshot takes every severity it does not know for a note.
collect(report) ==
    LET findings == load_findings(report).findings
        errors == CountOf(findings, "error") warnings == CountOf(findings, "warning")
    IN [errors |-> errors, warnings |-> warnings, infos |-> Len(findings) - errors - warnings]

\* Slip: findings of the same file are the same.
KeyWithoutLine(f) == <<f.rule, f.file>>

key_of(f) == <<f.rule, f.file, f.line>>
Keys(findings) == {key_of(findings[i]) : i \in DOMAIN findings}

\* Of several findings with one key the last is kept.
ByKey(findings) ==
    [k \in Keys(findings) |-> findings[CHOOSE i \in DOMAIN findings :
        key_of(findings[i]) = k /\ \A j \in DOMAIN findings : key_of(findings[j]) = k => j <= i]]

compare(baseline, current) ==
    LET base == ByKey(baseline) cur == ByKey(current) IN
    [unchanged |-> {cur[k] : k \in DOMAIN cur \cap DOMAIN base},
     introduced |-> {cur[k] : k \in (DOMAIN cur) \ DOMAIN base},
     resolved |-> {base[k] : k \in (DOMAIN base) \ DOMAIN cur}]

diff(baseline, current) ==
    LET base == load_findings(baseline) cur == load_findings(current) IN
    IF ~base.ok \/ ~cur.ok THEN 1
    ELSE IF compare(base.findings, cur.findings).introduced # {} THEN 1 ELSE 0

-----------------------------------------------------------------------------
(* Properties.                                                             *)

(* A configuration of language "cpp", and `init` saves no other, comes back *)
(* from the file as it was, under every integrity key (REQ-CFG004, which    *)
(* promises it for all; save does not write the language, so another one    *)
(* would come back as "cpp"); and a report names the integrity level by the *)
(* key the file uses, as long as the level belongs to the standard          *)
(* (REQ-CFG008).                                                            *)
ConfigRoundTrips(cfg) ==
    /\ cfg.language = "cpp" => load(save(cfg)) = cfg
    /\ (cfg.standard = "iec61508" => IsSil(cfg.asil)) /\ (cfg.standard = "do178c" => IsDal(cfg.asil))
        => add_report_envelope(cfg) \subseteq DOMAIN save(cfg)

(* The formats of one report tell the same story: as many problems of each  *)
(* kind in the JSON summary as in SARIF, each rule declared once, a place   *)
(* for every result, and the exit code and the badge as the summary says    *)
(* (REQ-RPT002, REQ-RPT008, REQ-BADGE001).                                  *)
FormatsAgree(findings) ==
    LET summary == render_json(findings).summary
        sarif == render_sarif(findings)
        results(l) == Cardinality({i \in DOMAIN sarif.results : sarif.results[i].level = l})
    IN /\ <<results("error"), results("warning"), results("note")>>
            = <<summary.errors, summary.warnings, summary.infos>>
       /\ Len(sarif.rules) = Cardinality({findings[i].rule : i \in DOMAIN findings})
       /\ \A i \in DOMAIN sarif.results : sarif.results[i].uri # "" /\ sarif.results[i].startLine > 0
       /\ badge(findings) = "FAIL" <=> exit_code(findings, FALSE) = 1
       /\ badge(findings) = "PASS" <=> exit_code(findings, TRUE) = 0

(* The gate lets a project pass just if the findings that remain without    *)
(* the waived rules would: a waiver takes its rule out of the gate and      *)
(* nothing else, and one of a rule without findings changes nothing.        *)
WaiversTakeOutTheirRules(findings, waived) ==
    LET rest == FlattenSeq([i \in DOMAIN findings |->
                    IF findings[i].rule \in waived THEN <<>> ELSE <<findings[i]>>])
    IN \A strict \in BOOLEAN :
           gated_exit_code(findings, strict, waived) = exit_code(rest, strict)

(* `diff` passes just if every place with a finding had one of that rule    *)
(* before, whatever its severity or message; the three lists share the keys *)
(* of both reports among them, and identical reports differ in nothing      *)
(* (REQ-DIFF001, REQ-DIFF004).                                              *)
DiffSeesNewPlaces(baseline, current) ==
    LET places(fs) == {<<fs[i].rule, fs[i].file, fs[i].line>> : i \in DOMAIN fs}
        d == compare(baseline, current)
    IN /\ diff(render_json(baseline), render_json(current)) = 0
            <=> places(current) \subseteq places(baseline)
       /\ Cardinality(d.unchanged) + Cardinality(d.introduced) + Cardinality(d.resolved)
            = Cardinality(places(baseline) \cup places(current))
       /\ compare(current, current).introduced \cup compare(current, current).resolved = {}

(* What reads a saved report counts its problems as the report does: the    *)
(* badge says FAIL when errors are present (REQ-BADGE001), and a metrics    *)
(* snapshot has the errors and warnings of the summary (REQ-METRICS001).    *)
ReadersCountAsTheReport(findings) ==
    LET report == render_json(findings) IN
    /\ badge_report(report) = badge(findings)
    /\ collect(report) = [errors |-> report.summary.errors, warnings |-> report.summary.warnings,
                          infos |-> report.summary.infos]

=============================================================================
