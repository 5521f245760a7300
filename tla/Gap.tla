-------------------------------- MODULE Gap ---------------------------------
(***************************************************************************)
(* The gap reports (src/src/iso26262, iec61508, do178, iso21434, unece,    *)
(* iec62443, slsa): which objectives a standard asks for at a level, and   *)
(* which files of the project count as evidence for each.                  *)
(*                                                                         *)
(* A table is a set of rows.  A row stands for the objectives that share   *)
(* its levels and its evidence: any of the sets of files in partial, or in *)
(* full, will do.  Three names are no files of their own: "reviewed" and   *)
(* "LLR" are there when safety-case.json carries the attestation of a      *)
(* reviewer, and .fusa-reqs.json a low-level requirement.                  *)
(***************************************************************************)
EXTENDS Naturals, FiniteSets

From(n) == n .. 4
Row(ids, levels, partial, full) ==
    [ids |-> ids, levels |-> levels, partial |-> partial, full |-> full]
Either(files) == {{f} : f \in files}
Never == {}

\* Slip: what people must assess is missing until they have.
ManualIsMissing == {}
Manual == {{}}

-----------------------------------------------------------------------------
(* ISO 26262, ASIL A to D as levels 1 to 4; any other text is D.           *)

\* Slip: any other text is A.
ParseAsilLowest(s) ==
    CASE s \in {"ASIL-D", "D"} -> 4 [] s \in {"ASIL-C", "C"} -> 3
      [] s \in {"ASIL-B", "B"} -> 2 [] OTHER -> 1

parse_asil(s) ==
    CASE s \in {"ASIL-A", "A"} -> 1 [] s \in {"ASIL-B", "B"} -> 2
      [] s \in {"ASIL-C", "C"} -> 3 [] OTHER -> 4

iso26262_objectives ==
    { Row({"6-5.1", "6-4.4"}, From(1), Either({".fusa.json"}), Never),
      Row({"6-4.3"}, From(2), Either({".fusa.json"}), Never),
      Row({"6-5.2"}, From(2), Either({"SQAP.md"}), Never),
      Row({"6-6.1"}, From(1), Either({"sas.json", "sas.md"}), Never),
      Row({"6-6.2"}, From(1), Either({"boundary.mermaid", "boundary.dot"}), Never),
      Row({"6-6.3"}, From(1), Either({"check-report.json"}), Never),
      Row({"6-7.1", "6-7.2", "6-8.1"}, From(1), Either({".fusa-evidence.json"}), Never),
      Row({"6-9.1"}, From(1), Either({".fusa-reqs.json", ".fusa-evidence.json"}),
          {{".fusa-reqs.json", ".fusa-evidence.json"}}),
      Row({"6-4.5"}, From(3), Never, Either({"coverage-report.json"})),
      Row({"6-4.6"}, From(1), Never, Either({".fusa-reqs.json"})),
      Row({"6-4.7"}, From(1), {{".fusa.json", "sbom.json"}}, Never),
      Row({"6-4.8"}, From(1), Either({"CHANGELOG.md"}), Never),
      Row({"6-4.9"}, From(2), Never, Either({"qualify-report.json"})),
      Row({"8-6.1"}, From(2), Either({".fusa-hara.json"}), Never),
      Row({"8-6.2"}, From(1), Either({"SAFETY_MANUAL.md"}), Never),
      Row({"9-1.1"}, {2}, Either({"safety-case.json"}), {{"safety-case.json", "reviewed"}}),
      Row({"9-2.1"}, From(1), Either({"safety-case.json"}), Never),
      Row({"10.4"}, From(2), Never, Either({"sci.json"})),
      Row({"11.3"}, From(3), Never, Either({"coupling-report.json"})) }

(* IEC 61508, SIL 1 to 4; any other text is SIL 4.                         *)

parse_sil(s) ==
    CASE s \in {"SIL-1", "SIL1"} -> 1 [] s \in {"SIL-2", "SIL2"} -> 2
      [] s \in {"SIL-3", "SIL3"} -> 3 [] OTHER -> 4

iec61508_objectives ==
    { Row({"1-7.1", "3-7.3"}, From(1), Either({".fusa.json"}), Never),
      Row({"1-7.2"}, From(1), Never, Either({".fusa-hara.json"})),
      Row({"1-8.1", "3-7.1", "2-7.1"}, From(1), Either({".fusa-reqs.json"}), Never),
      Row({"1-8.2"}, From(1), Either({".fusa-hara.json", ".fusa-reqs.json"}),
          {{".fusa-hara.json", ".fusa-reqs.json"}}),
      Row({"3-7.2"}, From(1), Either({"sas.json", "sas.md"}), Never),
      Row({"3-7.4"}, From(1), Either({".fusa-evidence.json"}),
          {{"fmea.json", ".fusa-evidence.json"}}),
      Row({"3-7.5", "3-7.6"}, From(1), Either({".fusa-evidence.json"}), Never),
      Row({"3-7.7"}, From(1), Either({"CHANGELOG.md"}), Never),
      Row({"3-7.8"}, From(1), Never, Either({"check-report.json"})),
      Row({"3-7.9"}, From(3), Never, Never),
      Row({"3-B.1"}, From(2), Either({".fusa.json"}), Never),
      Row({"3-B.2"}, From(2), Either({"cyber-report.json"}), Never),
      Row({"3-B.3"}, From(3), Never, Either({"coverage-report.json"})),
      Row({"3-B.4"}, From(1), Never, Either({".fusa-reqs.json"})),
      Row({"3-B.5"}, From(3), Never, Either({"qualify-report.json"})),
      Row({"3-B.6"}, From(2), Never, Either({"sci.json"})),
      Row({"2-8.1"}, From(1), Either({"safety-case.json"}), Never) }

(* DO-178C, DAL D to A as levels 1 to 4; any other text is D.  The ids     *)
(* without evidence are told apart by their level only.                    *)

parse_dal(s) ==
    CASE s \in {"DAL-A", "A"} -> 4 [] s \in {"DAL-B", "B"} -> 3
      [] s \in {"DAL-C", "C"} -> 2 [] OTHER -> 1

do178_objectives ==
    { Row({"A-1.1", "A-1.2", "A-1.3", "A-1.4", "A-2.1", "A-3.1", "A-3.2", "A-3.3", "A-3.4",
           "A-5.1", "A-5.5", "A-5.6", "A-6.4", "A-11.1", "A-11.2", "A-11.4", "A-11.5",
           "A-7.1", "A-9.1"}, From(1), Never, Never),
      Row({"A-5.2", "A-5.3", "A-6.1", "A-6.5", "A-10.3", "A-11.6"}, From(2), Never, Never),
      Row({"A-5.4", "A-10.2", "A-10.5", "A-11.3", "A-11.7"}, From(3), Never, Never),
      Row({"A-10.1", "A-10.4"}, From(4), Never, Never),
      Row({"A-2.2"}, From(1), Either({".fusa-reqs.json"}), {{".fusa-reqs.json", "LLR"}}),
      Row({"A-2.3", "A-2.4"}, From(2), Either({".fusa-reqs.json"}), Never),
      Row({"A-4.1"}, From(2), Never, Either({"coverage-report.json"})),
      Row({"A-4.2"}, From(3), Never, Either({"coverage-report.json"})),
      Row({"A-4.3"}, From(4), Never, Either({"coverage-report.json"})),
      Row({"A-6.2"}, From(2), Never, Either({"check-report.json"})),
      Row({"A-6.3"}, From(3), Never, Either({"coupling-report.json"})),
      Row({"A-7.2"}, From(1), Either({".fusa-problems.json"}), Never),
      Row({"A-8.1", "A-8.2"}, From(1), Either({".fusa-evidence.json"}), Never),
      Row({"A-9.2"}, From(1), Never, Either({"sas.json"})) }

(* ISO 21434, CAL 1 to 4; any other text is CAL 4.  What only people can   *)
(* assess is always partial.                                               *)

parse_cal(s) ==
    CASE s \in {"CAL-1", "CAL1"} -> 1 [] s \in {"CAL-2", "CAL2"} -> 2
      [] s \in {"CAL-3", "CAL3"} -> 3 [] OTHER -> 4

iso21434_objectives ==
    { Row({"5.1", "15.1"}, From(1), Manual, Never),
      Row({"6.2", "11.1", "13.1"}, From(2), Manual, Never),
      Row({"7.1", "12.1"}, From(3), Manual, Never),
      Row({"14.1"}, From(4), Manual, Never),
      Row({"6.1"}, From(1), Either({".fusa.json"}), Never),
      Row({"8.3"}, From(1), Either({"vuln.json"}), Never),
      Row({"9.1", "9.2", "9.3", "9.4", "9.5", "9.6"}, From(1), Either({"tara.json"}), Never),
      Row({"10.1"}, From(1), Either({".fusa-reqs.json"}), Never),
      Row({"10.3"}, From(2), Either({"safety-case.json"}), Never),
      Row({"10.4"}, From(1), Either({"cyber-report.json"}), Never),
      Row({"A.1"}, From(3), Either({"sbom.json"}), Never),
      Row({"A.2"}, From(3), Either({"provenance.json"}), Never) }

(* UNECE R155 and R156 know no levels.                                     *)

r155_threats ==
    { Row({"TC-1", "TC-3", "TC-6"}, From(1), Either({"tara.json"}), Never),
      Row({"TC-2"}, From(1), Either({"provenance.json"}), Never),
      Row({"TC-4"}, From(1), Either({"cyber-report.json"}), Never),
      Row({"TC-5"}, From(1), Either({"sbom.json"}), Never),
      Row({"TC-7", "TC-8", "TC-9"}, From(1), Manual, Never) }

r156_threats ==
    { Row({"SU-1"}, From(1), Either({"provenance.json"}), Never),
      Row({"SU-2"}, From(1), Either({"tara.json"}), Never),
      Row({"SU-3"}, From(1), Either({".fusa-evidence.json"}), Never),
      Row({"SU-5"}, From(1), Either({"sbom.json"}), Never),
      Row({"SU-4", "SU-6"}, From(1), Manual, Never) }

(* IEC 62443, SL 1 to 4, and SLSA, level 1 to 4; any other text is 4.      *)

parse_sl(s) ==
    CASE s \in {"SL-1", "SL1", "1"} -> 1 [] s \in {"SL-2", "SL2", "2"} -> 2
      [] s \in {"SL-3", "SL3", "3"} -> 3 [] OTHER -> 4

iec62443_checks ==
    { Row({"SR-1.1", "SR-1.3", "SR-1.5", "SR-2.1", "SR-7.6"}, From(1), Never, Never),
      Row({"SR-1.2", "SR-1.4", "SR-2.3", "SR-3.1", "SR-3.2", "SR-5.2", "SR-7.1", "SR-7.2"},
          From(2), Never, Never),
      Row({"SR-2.2", "SR-3.3", "SR-5.1", "SR-7.5"}, From(3), Never, Never),
      Row({"SR-3.4", "SR-4.2"}, From(2), Either({".fusa-sign", "sbom.json"}), Never),
      Row({"SR-4.1"}, From(3), Either({".fusa-sign", "sbom.json"}), Never),
      Row({"SR-3.5"}, From(1), Either({"cyber-report.json"}), Never),
      Row({"SR-6.1"}, From(1), Either({"INCIDENT-RESPONSE.md"}), Never),
      Row({"SR-6.2"}, From(3), Either({"INCIDENT-RESPONSE.md"}), Never),
      Row({"SR-7.3"}, From(1), Either({".fusa-reqs.json"}), Never) }

parse_level(s) ==
    CASE s \in {"L1", "1"} -> 1 [] s \in {"L2", "2"} -> 2 [] s \in {"L3", "3"} -> 3 [] OTHER -> 4

slsa_requirements ==
    { Row({"1.1"}, From(1), Never, Either({"CMakeLists.txt"})),
      Row({"1.2"}, From(1), Never, Either({"provenance.json"})),
      Row({"1.3"}, From(1), Never, Either({"sbom.json"})),
      Row({"2.4"}, From(2), Never, Either({".git"})),
      Row({"3.3"}, From(3), Never, Either({"CODEOWNERS"})),
      Row({"3.4"}, From(3), Never, Either({"provenance.json.sig"})),
      Row({"2.1", "2.2", "2.3"}, From(2), Never, Never),
      Row({"3.1", "3.2", "3.5"}, From(3), Never, Never) }

-----------------------------------------------------------------------------
(* A report at a level, over the files that are there.                     *)

Table(standard) ==
    CASE standard = "iso26262" -> iso26262_objectives [] standard = "iec61508" -> iec61508_objectives
      [] standard = "do178" -> do178_objectives [] standard = "iso21434" -> iso21434_objectives
      [] standard = "r155" -> r155_threats [] standard = "r156" -> r156_threats
      [] standard = "iec62443" -> iec62443_checks [] standard = "slsa" -> slsa_requirements

Standards ==
    {"iso26262", "iec61508", "do178", "iso21434", "r155", "r156", "iec62443", "slsa"}

parse(standard, text) ==
    CASE standard = "iso26262" -> parse_asil(text) [] standard = "iec61508" -> parse_sil(text)
      [] standard = "do178" -> parse_dal(text) [] standard = "iso21434" -> parse_cal(text)
      [] standard = "iec62443" -> parse_sl(text) [] standard = "slsa" -> parse_level(text)
      [] OTHER -> 4

\* Slip: a second file that is there takes the first one's credit away.
StatusOfExactly(row, files) ==
    LET known == UNION (row.partial \cup row.full) IN
    CASE files \cap known \in row.full -> "satisfied"
      [] files \cap known \in row.partial -> "partial" [] OTHER -> "gap"

detect_status(row, files) ==
    IF \E e \in row.full : e \subseteq files THEN "satisfied"
    ELSE IF \E e \in row.partial : e \subseteq files THEN "partial" ELSE "gap"

assess(standard, level, files, status) ==
    UNION {row.ids : row \in {r \in Table(standard) :
                                level \in r.levels /\ detect_status(r, files) = status}}

Asked(standard, level) ==
    UNION {row.ids : row \in {r \in Table(standard) : level \in r.levels}}

\* The reports without a gate say what is missing and exit 0.
Gated == Standards \ {"iec62443", "slsa"}

gap_exit(standard, text, files) ==
    IF standard \in Gated /\ assess(standard, parse(standard, text), files, "gap") # {}
    THEN 1 ELSE 0

\* Slip: the second regulation is looked at only where the first is missing.
UneceFirst(regulation, files, to) ==
    IF regulation = "r156" THEN [exit |-> gap_exit("r156", "", files), reports |-> {<<to["r156"], "r156">>}]
    ELSE [exit |-> gap_exit("r155", "", files), reports |-> {<<to["r155"], "r155">>}]

(* The command for UNECE: R155 unless R156 is asked for, and R156 as well   *)
(* when both are, but not if R155 has gaps.  to says where each report      *)
(* goes; with --output both go to the same place and the last one stays.    *)
unece(regulation, files, to) ==
    LET r155 == gap_exit("r155", "", files)
        first == regulation # "r156"
        second == regulation \in {"r156", "both"} /\ ~(first /\ r155 = 1)
    IN [exit |-> IF second THEN gap_exit("r156", "", files) ELSE r155,
        reports |->
            {<<to[r], r>> : r \in {x \in {"r155", "r156"} :
                /\ x = "r155" => first /\ ~(second /\ to["r155"] = to["r156"])
                /\ x = "r156" => second}}]

-----------------------------------------------------------------------------
(* Properties.                                                             *)

Evidence(standard) ==
    UNION {UNION (row.partial \cup row.full) : row \in Table(standard)}

(* Evidence is never held against a project: with one file more no          *)
(* objective falls back, and a command that passed still passes.            *)
MoreEvidenceNeverHurts(standard, files) ==
    \A level \in 1 .. 4, more \in Evidence(standard) :
        /\ assess(standard, level, files, "satisfied")
            \subseteq assess(standard, level, files \cup {more}, "satisfied")
        /\ assess(standard, level, files \cup {more}, "gap")
            \subseteq assess(standard, level, files, "gap")

(* A higher level asks for everything a lower one does: only the            *)
(* independence objective of ASIL B is not asked for above it; and a text   *)
(* that is no level is assessed at the highest, for DO-178C at the lowest.  *)
HigherAsksMore(standard) ==
    /\ \A level \in 1 .. 3 :
            Asked(standard, level) \ {"9-1.1"} \subseteq Asked(standard, level + 1)
    /\ \A level \in 1 .. 4 :
            IF standard = "do178" THEN Asked(standard, parse(standard, "dal-a")) \subseteq Asked(standard, level)
            ELSE Asked(standard, level) \ {"9-1.1"} \subseteq Asked(standard, parse(standard, "b"))

(* What a project with every file can reach: no gap in ISO 26262, ISO 21434 *)
(* and UNECE at any level, and in IEC 61508 below SIL 3, where the          *)
(* functional safety assessment has no evidence that counts; DO-178C never  *)
(* passes, its command exits 1 for any project.                             *)
AllEvidenceLeaves(standard) ==
    \A level \in 1 .. 4 :
        LET gaps == assess(standard, level, Evidence(standard), "gap") IN
        CASE standard \in {"iso26262", "iso21434", "r155", "r156"} -> gaps = {}
          [] standard = "iec61508" -> gaps = IF level < 3 THEN {} ELSE {"3-7.9"}
          [] OTHER -> gaps # {} <=> (standard # "slsa" \/ level > 1)

(* `unece` that passes leaves, of each regulation asked for, a report       *)
(* without a gap in a place of its own; told where to write, it leaves      *)
(* the last one alone.                                                      *)
UneceCoversWhatIsAsked(regulation, files) ==
    LET own == unece(regulation, files, [r \in {"r155", "r156"} |-> r])
        one == unece(regulation, files, [r \in {"r155", "r156"} |-> "output"])
        asked == IF regulation = "both" THEN {"r155", "r156"} ELSE {regulation}
    IN /\ own.exit = 0 =>
            /\ own.reports = {<<r, r>> : r \in asked}
            /\ \A r \in asked : assess(r, 1, files, "gap") = {}
       /\ own.exit = one.exit /\ Cardinality(one.reports) = 1

=============================================================================
