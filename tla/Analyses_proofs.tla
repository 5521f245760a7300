--------------------------- MODULE Analyses_proofs ---------------------------
(***************************************************************************)
(* Proofs about the analyses, for every input and not for bounded ones     *)
(* alone: the gap reports for any set of files, the ratings, the rules of  *)
(* the engine with their qualification, what reports tell, how coverage is *)
(* added up, and what the generated artifacts say of the project.          *)
(***************************************************************************)
EXTENDS MCAnalyses, FoldLemmas, FiniteSetTheorems, TLAPS

-----------------------------------------------------------------------------
(* Gap reports.                                                            *)

(* An objective is a gap when none of its evidence is complete.            *)
LEMMA GapIsWithoutEvidence ==
    ASSUME NEW row, NEW files
    PROVE  GA!detect_status(row, files) = "gap"
             <=> \A e \in row.full \cup row.partial : ~ (e \subseteq files)
BY DEF GA!detect_status

LEMMA InReport ==
    ASSUME NEW standard, NEW level, NEW files, NEW status, NEW id
    PROVE  id \in GA!assess(standard, level, files, status) <=>
             \E row \in GA!Table(standard) :
                 level \in row.levels /\ GA!detect_status(row, files) = status /\ id \in row.ids
BY DEF GA!assess

(* More evidence is never held against a project.                          *)
LEMMA MoreIsNotWorse ==
    ASSUME NEW standard, NEW files
    PROVE  GA!MoreEvidenceNeverHurts(standard, files)
<1> SUFFICES ASSUME NEW level \in 1 .. 4, NEW more \in GA!Evidence(standard)
             PROVE  /\ GA!assess(standard, level, files, "satisfied")
                         \subseteq GA!assess(standard, level, files \cup {more}, "satisfied")
                    /\ GA!assess(standard, level, files \cup {more}, "gap")
                         \subseteq GA!assess(standard, level, files, "gap")
  BY DEF GA!MoreEvidenceNeverHurts
<1> DEFINE all == files \cup {more}
<1>1. ASSUME NEW row, GA!detect_status(row, files) = "satisfied"
      PROVE  GA!detect_status(row, all) = "satisfied"
  <2>1. PICK e \in row.full : e \subseteq files
    BY <1>1 DEF GA!detect_status
  <2>2. e \subseteq all
    BY <2>1
  <2> QED BY <2>2 DEF GA!detect_status
<1>2. ASSUME NEW row, GA!detect_status(row, all) = "gap"
      PROVE  GA!detect_status(row, files) = "gap"
  BY <1>2, GapIsWithoutEvidence
<1> HIDE DEF all
<1>3. GA!assess(standard, level, files, "satisfied")
        \subseteq GA!assess(standard, level, all, "satisfied")
  BY <1>1, InReport
<1>4. GA!assess(standard, level, all, "gap") \subseteq GA!assess(standard, level, files, "gap")
  BY <1>2, InReport
<1> QED BY <1>3, <1>4 DEF all

(* But for one objective, what a level asks for every higher one asks for. *)
LEMMA LevelsGoUp ==
    ASSUME NEW standard \in GA!Standards, NEW row \in GA!Table(standard)
    PROVE  row.ids = {"9-1.1"} \/ \E n \in 1 .. 4 : row.levels = n .. 4
<1> DEFINE Up(r) == r.ids = {"9-1.1"} \/ \E n \in 1 .. 4 : r.levels = GA!From(n)
<1>1. \A r \in GA!iso26262_objectives : Up(r)
  BY DEF GA!iso26262_objectives, GA!Row
<1>2. \A r \in GA!iec61508_objectives : Up(r)
  BY DEF GA!iec61508_objectives, GA!Row
<1>3. \A r \in GA!do178_objectives : Up(r)
  BY DEF GA!do178_objectives, GA!Row
<1>4. \A r \in GA!iso21434_objectives : Up(r)
  BY DEF GA!iso21434_objectives, GA!Row
<1>5. \A r \in GA!r155_threats \cup GA!r156_threats : Up(r)
  BY DEF GA!r155_threats, GA!r156_threats, GA!Row
<1>6. \A r \in GA!iec62443_checks : Up(r)
  BY DEF GA!iec62443_checks, GA!Row
<1>7. \A r \in GA!slsa_requirements : Up(r)
  BY DEF GA!slsa_requirements, GA!Row
<1> HIDE DEF Up
<1>8. Up(row)
  BY <1>1, <1>2, <1>3, <1>4, <1>5, <1>6, <1>7 DEF GA!Table, GA!Standards
<1> QED BY <1>8 DEF Up, GA!From

(* A higher level asks for more, and a text that is no level for the most, *)
(* for DO-178C for the least.                                              *)
LEMMA HigherLevelsAskMore ==
    ASSUME NEW standard \in GA!Standards
    PROVE  GA!HigherAsksMore(standard)
<1>1. ASSUME NEW id, id # "9-1.1", NEW low \in 1 .. 4, NEW high \in low .. 4,
             id \in GA!Asked(standard, low)
      PROVE  id \in GA!Asked(standard, high)
  <2>1. PICK row \in GA!Table(standard) : low \in row.levels /\ id \in row.ids
    BY <1>1 DEF GA!Asked
  <2>2. PICK n \in 1 .. 4 : row.levels = n .. 4
    BY <1>1, <2>1, LevelsGoUp
  <2>3. high \in row.levels
    BY <2>1, <2>2
  <2> QED BY <2>1, <2>3 DEF GA!Asked
<1>2. \A id \in GA!Asked("do178", 1) : id # "9-1.1"
  <2>1. \A row \in GA!do178_objectives : "9-1.1" \notin row.ids
    BY DEF GA!do178_objectives, GA!Row
  <2> QED BY <2>1 DEF GA!Asked, GA!Table
<1>3. GA!parse("do178", "dal-a") = 1
  BY DEF GA!parse, GA!parse_dal
<1>4. standard # "do178" => GA!parse(standard, "b") = 4
  BY DEF GA!parse, GA!parse_asil, GA!parse_sil, GA!parse_cal, GA!parse_sl, GA!parse_level,
         GA!Standards
<1>5. \A level \in 1 .. 3 :
          GA!Asked(standard, level) \ {"9-1.1"} \subseteq GA!Asked(standard, level + 1)
  BY <1>1
<1>6. ASSUME NEW level \in 1 .. 4
      PROVE  IF standard = "do178"
             THEN GA!Asked(standard, GA!parse(standard, "dal-a")) \subseteq GA!Asked(standard, level)
             ELSE GA!Asked(standard, level) \ {"9-1.1"}
                    \subseteq GA!Asked(standard, GA!parse(standard, "b"))
  <2>1. CASE standard = "do178"
    BY <1>1, <1>2, <1>3, <2>1
  <2>2. CASE standard # "do178"
    BY <1>1, <1>4, <2>2
  <2> QED BY <2>1, <2>2
<1> QED BY <1>5, <1>6 DEF GA!HigherAsksMore

(* What there is of files that count is enough where any counts at all.    *)
LEMMA AllFilesSuffice ==
    ASSUME NEW standard, NEW row \in GA!Table(standard)
    PROVE  GA!detect_status(row, GA!Evidence(standard)) = "gap"
             <=> row.full = {} /\ row.partial = {}
<1>1. \A e \in row.full \cup row.partial : e \subseteq GA!Evidence(standard)
  BY DEF GA!Evidence
<1> QED BY <1>1, GapIsWithoutEvidence

LEMMA SomeFileCounts ==
    ASSUME NEW F, F # {}
    PROVE  GA!Either(F) # {} /\ {F} # {} /\ GA!Manual # {}
BY DEF GA!Either, GA!Manual

(* The standards in which something counts for every objective.            *)
LEMMA CountsIn26262 ==
    ASSUME NEW row \in GA!iso26262_objectives
    PROVE  row.full # {} \/ row.partial # {}
<1>1. \/ row.partial \in
           {GA!Either({".fusa.json"}), GA!Either({"SQAP.md"}), GA!Either({"sas.json", "sas.md"}),
            GA!Either({"boundary.mermaid", "boundary.dot"}), GA!Either({"check-report.json"}),
            GA!Either({".fusa-evidence.json"}),
            GA!Either({".fusa-reqs.json", ".fusa-evidence.json"}),
            {{".fusa.json", "sbom.json"}}, GA!Either({"CHANGELOG.md"}),
            GA!Either({".fusa-hara.json"}), GA!Either({"SAFETY_MANUAL.md"}),
            GA!Either({"safety-case.json"})}
      \/ row.full \in
           {GA!Either({"coverage-report.json"}), GA!Either({".fusa-reqs.json"}),
            GA!Either({"qualify-report.json"}), GA!Either({"sci.json"}),
            GA!Either({"coupling-report.json"})}
  BY DEF GA!iso26262_objectives, GA!Row
<1> QED BY <1>1, SomeFileCounts

LEMMA CountsIn61508 ==
    ASSUME NEW row \in GA!iec61508_objectives
    PROVE  IF row.ids = {"3-7.9"} THEN row.levels = GA!From(3) /\ row.full = {} /\ row.partial = {}
           ELSE "3-7.9" \notin row.ids /\ (row.full # {} \/ row.partial # {})
<1>1. CASE row.ids = {"3-7.9"}
  BY <1>1 DEF GA!iec61508_objectives, GA!Row, GA!Never
<1>2. CASE row.ids # {"3-7.9"}
  <2>1. \/ row.partial \in
             {GA!Either({".fusa.json"}), GA!Either({".fusa-reqs.json"}),
              GA!Either({".fusa-hara.json", ".fusa-reqs.json"}), GA!Either({"sas.json", "sas.md"}),
              GA!Either({".fusa-evidence.json"}), GA!Either({"CHANGELOG.md"}),
              GA!Either({"cyber-report.json"}), GA!Either({"safety-case.json"})}
        \/ row.full \in
             {GA!Either({".fusa-hara.json"}), GA!Either({"check-report.json"}),
              GA!Either({"coverage-report.json"}), GA!Either({".fusa-reqs.json"}),
              GA!Either({"qualify-report.json"}), GA!Either({"sci.json"})}
    BY <1>2 DEF GA!iec61508_objectives, GA!Row
  <2>2. "3-7.9" \notin row.ids
    BY <1>2 DEF GA!iec61508_objectives, GA!Row
  <2> QED BY <1>2, <2>1, <2>2, SomeFileCounts
<1> QED BY <1>1, <1>2

LEMMA CountsIn21434 ==
    ASSUME NEW row \in GA!iso21434_objectives \cup GA!r155_threats \cup GA!r156_threats
    PROVE  row.full # {} \/ row.partial # {}
<1>1. row.partial \in
        {GA!Manual, GA!Either({".fusa.json"}), GA!Either({"vuln.json"}), GA!Either({"tara.json"}),
         GA!Either({".fusa-reqs.json"}), GA!Either({"safety-case.json"}),
         GA!Either({"cyber-report.json"}), GA!Either({"sbom.json"}),
         GA!Either({"provenance.json"}), GA!Either({".fusa-evidence.json"})}
  BY DEF GA!iso21434_objectives, GA!r155_threats, GA!r156_threats, GA!Row
<1> QED BY <1>1, SomeFileCounts

(* The others have objectives for which nothing counts: SLSA from level 2. *)
LEMMA NothingCounts ==
    ASSUME NEW standard \in {"do178", "iec62443", "slsa"}
    PROVE  \E row \in GA!Table(standard) :
              /\ row.levels = GA!From(IF standard = "slsa" THEN 2 ELSE 1)
              /\ row.full = {} /\ row.partial = {} /\ \E id : id \in row.ids
<1>1. CASE standard = "do178"
  <2> DEFINE low == GA!Row({"A-1.1", "A-1.2", "A-1.3", "A-1.4", "A-2.1", "A-3.1", "A-3.2", "A-3.3",
                            "A-3.4", "A-5.1", "A-5.5", "A-5.6", "A-6.4", "A-11.1", "A-11.2",
                            "A-11.4", "A-11.5", "A-7.1", "A-9.1"}, GA!From(1), GA!Never, GA!Never)
  <2>1. low \in GA!Table(standard)
    BY <1>1 DEF GA!Table, GA!do178_objectives
  <2>2. low.levels = GA!From(1) /\ low.full = {} /\ low.partial = {} /\ "A-1.1" \in low.ids
    BY DEF GA!Row, GA!Never
  <2> HIDE DEF low
  <2> QED BY <1>1, <2>1, <2>2
<1>2. CASE standard = "iec62443"
  <2> DEFINE low == GA!Row({"SR-1.1", "SR-1.3", "SR-1.5", "SR-2.1", "SR-7.6"},
                           GA!From(1), GA!Never, GA!Never)
  <2>1. low \in GA!Table(standard)
    BY <1>2 DEF GA!Table, GA!iec62443_checks
  <2>2. low.levels = GA!From(1) /\ low.full = {} /\ low.partial = {} /\ "SR-1.1" \in low.ids
    BY DEF GA!Row, GA!Never
  <2> HIDE DEF low
  <2> QED BY <1>2, <2>1, <2>2
<1>3. CASE standard = "slsa"
  <2> DEFINE low == GA!Row({"2.1", "2.2", "2.3"}, GA!From(2), GA!Never, GA!Never)
  <2>1. low \in GA!Table(standard)
    BY <1>3 DEF GA!Table, GA!slsa_requirements
  <2>2. low.levels = GA!From(2) /\ low.full = {} /\ low.partial = {} /\ "2.1" \in low.ids
    BY DEF GA!Row, GA!Never
  <2> HIDE DEF low
  <2> QED BY <1>3, <2>1, <2>2
<1> QED BY <1>1, <1>2, <1>3

LEMMA FirstLevelOfSlsa ==
    ASSUME NEW row \in GA!slsa_requirements
    PROVE  row.full # {} \/ row.levels \in {GA!From(2), GA!From(3)}
<1>1. \/ row.full \in {GA!Either({"CMakeLists.txt"}), GA!Either({"provenance.json"}),
                       GA!Either({"sbom.json"})}
      \/ row.levels \in {GA!From(2), GA!From(3)}
  BY DEF GA!slsa_requirements, GA!Row
<1> QED BY <1>1, SomeFileCounts

(* What a project with every file that counts can reach.                   *)
LEMMA WhatAllEvidenceLeaves ==
    ASSUME NEW standard \in GA!Standards
    PROVE  GA!AllEvidenceLeaves(standard)
<1> DEFINE gaps(level) == GA!assess(standard, level, GA!Evidence(standard), "gap")
<1>1. ASSUME NEW level
      PROVE  \A id : id \in gaps(level) <=>
                 \E row \in GA!Table(standard) :
                     level \in row.levels /\ row.full = {} /\ row.partial = {} /\ id \in row.ids
  BY InReport, AllFilesSuffice
<1> HIDE DEF gaps
<1> SUFFICES ASSUME NEW level \in 1 .. 4
             PROVE  /\ standard \in {"iso26262", "iso21434", "r155", "r156"} => gaps(level) = {}
                    /\ standard = "iec61508"
                         => gaps(level) = IF level < 3 THEN {} ELSE {"3-7.9"}
                    /\ standard \in {"do178", "iec62443", "slsa"}
                         => (gaps(level) # {} <=> (standard # "slsa" \/ level > 1))
  BY DEF GA!AllEvidenceLeaves, GA!Standards, gaps
<1>2. CASE standard \in {"iso26262", "iso21434", "r155", "r156"}
  <2>1. \A row \in GA!Table(standard) : row.full # {} \/ row.partial # {}
    BY <1>2, CountsIn26262, CountsIn21434 DEF GA!Table
  <2> QED BY <1>1, <1>2, <2>1
<1>3. CASE standard = "iec61508"
  <2>1. GA!Table(standard) = GA!iec61508_objectives
    BY <1>3 DEF GA!Table
  <2>2. \A id : id \in gaps(level) => id = "3-7.9" /\ level >= 3
    BY <1>1, <2>1, CountsIn61508 DEF GA!From
  <2>3. level >= 3 => "3-7.9" \in gaps(level)
    <3> DEFINE row == GA!Row({"3-7.9"}, GA!From(3), GA!Never, GA!Never)
    <3>1. row \in GA!Table(standard)
      BY <2>1 DEF GA!iec61508_objectives
    <3>2. row.ids = {"3-7.9"} /\ row.levels = 3 .. 4 /\ row.full = {} /\ row.partial = {}
      BY DEF GA!Row, GA!Never, GA!From
    <3> HIDE DEF row
    <3>3. level >= 3 => level \in row.levels
      BY <3>2
    <3>4. "3-7.9" \in row.ids
      BY <3>2
    <3> QED BY <1>1, <3>1, <3>2, <3>3, <3>4, Zenon
  <2> QED BY <1>3, <2>2, <2>3
<1>4. CASE standard \in {"do178", "iec62443", "slsa"}
  <2>1. standard # "slsa" \/ level > 1 => gaps(level) # {}
    <3>1. PICK row \in GA!Table(standard) :
              /\ row.levels = GA!From(IF standard = "slsa" THEN 2 ELSE 1)
              /\ row.full = {} /\ row.partial = {} /\ \E id : id \in row.ids
      BY <1>4, NothingCounts
    <3>2. PICK id : id \in row.ids
      BY <3>1
    <3>3. standard # "slsa" \/ level > 1 => level \in row.levels
      BY <3>1 DEF GA!From
    <3>4. standard # "slsa" \/ level > 1 => id \in gaps(level)
      BY <1>1, <3>1, <3>2, <3>3, Zenon
    <3> QED BY <3>4
  <2>2. standard = "slsa" /\ level = 1 => gaps(level) = {}
    <3>1. ASSUME standard = "slsa", NEW row \in GA!Table(standard), row.full = {}
          PROVE  1 \notin row.levels
      BY <3>1, FirstLevelOfSlsa DEF GA!Table, GA!From
    <3> QED BY <1>1, <3>1
  <2> QED BY <1>4, <2>1, <2>2
<1> QED BY <1>2, <1>3, <1>4 DEF GA!Standards

(* The regulations know no levels.                                         *)
LEMMA RegulationsAskAlways ==
    ASSUME NEW r \in {"r155", "r156"}, NEW files
    PROVE  /\ GA!gap_exit(r, "", files) \in {0, 1}
           /\ GA!gap_exit(r, "", files) = 0 <=> GA!assess(r, 1, files, "gap") = {}
<1>1. GA!parse(r, "") = 4 /\ r \in GA!Gated
  BY DEF GA!parse, GA!Gated, GA!Standards
<1>2. \A row \in GA!Table(r) : row.levels = 1 .. 4
  BY DEF GA!Table, GA!r155_threats, GA!r156_threats, GA!Row, GA!From
<1>3. GA!assess(r, 4, files, "gap") = GA!assess(r, 1, files, "gap")
  <2>1. ASSUME NEW id
        PROVE  id \in GA!assess(r, 4, files, "gap") <=> id \in GA!assess(r, 1, files, "gap")
    <3>1. \A row \in GA!Table(r) : 4 \in row.levels /\ 1 \in row.levels
      BY <1>2
    <3> QED BY <3>1, InReport
  <2> QED BY <2>1
<1> DEFINE gaps == GA!assess(r, 1, files, "gap")
           exit == GA!gap_exit(r, "", files)
<1>4. exit = IF gaps # {} THEN 1 ELSE 0
  BY <1>1, <1>3 DEF GA!gap_exit
<1> HIDE DEF gaps, exit
<1>5. exit \in {0, 1} /\ (exit = 0 <=> gaps = {})
  BY <1>4
<1> QED BY <1>5 DEF gaps, exit

(* Counting in the instance of Gap is counting.                            *)
LEMMA SameSize ==
    ASSUME NEW S
    PROVE  GA!Cardinality(S) = Cardinality(S)
BY DEF GA!IsFiniteSet, IsFiniteSet, GA!Cardinality, Cardinality

(* The command for both regulations tells of all that it was asked.        *)
LEMMA BothRegulationsAreTold ==
    ASSUME NEW regulation \in {"r155", "r156", "both"}, NEW files
    PROVE  GA!UneceCoversWhatIsAsked(regulation, files)
<1> DEFINE r155 == GA!gap_exit("r155", "", files)
           r156 == GA!gap_exit("r156", "", files)
           own == [r \in {"r155", "r156"} |-> r]
           one == [r \in {"r155", "r156"} |-> "output"]
           asked == IF regulation = "both" THEN {"r155", "r156"} ELSE {regulation}
           second == regulation = "r156" \/ (regulation = "both" /\ r155 = 0)
<1>1. r155 \in {0, 1} /\ r156 \in {0, 1}
  BY RegulationsAskAlways
<1>2. ASSUME NEW to
      PROVE  /\ GA!unece(regulation, files, to).exit = IF second THEN r156 ELSE r155
             /\ \A e : e \in GA!unece(regulation, files, to).reports <=>
                    \/ /\ e = <<to["r155"], "r155">> /\ regulation # "r156"
                       /\ ~ (second /\ to["r155"] = to["r156"])
                    \/ e = <<to["r156"], "r156">> /\ second
  <2> HIDE DEF r155, r156
  <2>1. second <=> regulation \in {"r156", "both"} /\ ~ (regulation # "r156" /\ r155 = 1)
    BY <1>1
  <2> HIDE DEF second
  <2>2. GA!unece(regulation, files, to).exit = IF second THEN r156 ELSE r155
    BY <2>1 DEF GA!unece, r155, r156
  <2>3. ASSUME NEW e
        PROVE  e \in GA!unece(regulation, files, to).reports <=>
                    \/ /\ e = <<to["r155"], "r155">> /\ regulation # "r156"
                       /\ ~ (second /\ to["r155"] = to["r156"])
                    \/ e = <<to["r156"], "r156">> /\ second
    BY <2>1 DEF GA!unece, r155
  <2> QED BY <2>2, <2>3
<1>3. own["r155"] = "r155" /\ own["r156"] = "r156"
      /\ one["r155"] = "output" /\ one["r156"] = "output"
  OBVIOUS
<1>4. \A r \in {"r155", "r156"} :
          (IF r = "r155" THEN r155 ELSE r156) = 0 <=> GA!assess(r, 1, files, "gap") = {}
  BY RegulationsAskAlways
<1> HIDE DEF r155, r156, own, one
<1>5. GA!unece(regulation, files, own).exit = 0 =>
          /\ GA!unece(regulation, files, own).reports = {<<r, r>> : r \in asked}
          /\ \A r \in asked : GA!assess(r, 1, files, "gap") = {}
  BY <1>1, <1>2, <1>3, <1>4
<1>6. GA!unece(regulation, files, own).exit = GA!unece(regulation, files, one).exit
  BY <1>2
<1>7. Cardinality(GA!unece(regulation, files, one).reports) = 1
  <2>1. GA!unece(regulation, files, one).reports
          = {<<"output", IF second THEN "r156" ELSE "r155">>}
    BY <1>2, <1>3
  <2> QED BY <2>1, FS_Singleton
<1> QED BY <1>5, <1>6, <1>7, SameSize DEF GA!UneceCoversWhatIsAsked, own, one

(* For any files, and not only those of the run: gap reports follow the    *)
(* evidence.                                                               *)
THEOREM GapReportsFollowTheEvidence ==
    ASSUME input.of = "gap" => input.value.standard \in GA!Standards,
           input.of = "standard" => input.value \in GA!Standards,
           input.of = "unece" => input.value.regulation \in {"r155", "r156", "both"}
    PROVE  GapsFollowTheEvidence
<1>1. MoreEvidenceNeverHurts
  BY MoreIsNotWorse DEF MoreEvidenceNeverHurts, Of
<1>2. HigherAsksMore /\ AllEvidenceLeaves
  BY HigherLevelsAskMore, WhatAllEvidenceLeaves DEF HigherAsksMore, AllEvidenceLeaves, Of
<1>3. UneceCoversWhatIsAsked
  BY BothRegulationsAreTold DEF UneceCoversWhatIsAsked, Of
<1> QED BY <1>1, <1>2, <1>3 DEF GapsFollowTheEvidence

-----------------------------------------------------------------------------
(* The ASIL of a rating.                                                   *)

LEMMA NamesAreRanked ==
    /\ HA!rank("QM") = 0
    /\ \A n \in 1 .. 4 : HA!rank(HA!AsilNames[n]) = n
<1>1. /\ HA!AsilNames[1] = "ASIL-A" /\ HA!AsilNames[2] = "ASIL-B"
      /\ HA!AsilNames[3] = "ASIL-C" /\ HA!AsilNames[4] = "ASIL-D"
  BY DEF HA!AsilNames
<1>2. /\ HA!rank("QM") = 0 /\ HA!rank("ASIL-A") = 1 /\ HA!rank("ASIL-B") = 2
      /\ HA!rank("ASIL-C") = 3 /\ HA!rank("ASIL-D") = 4
  BY DEF HA!rank
<1>3. \A n \in 1 .. 4 : n = 1 \/ n = 2 \/ n = 3 \/ n = 4
  OBVIOUS
<1> QED BY <1>1, <1>2, <1>3

Points(s, e, c) == IF s = 0 \/ e = 0 \/ c = 0 \/ s + e + c <= 6 THEN 0 ELSE s + e + c - 6

LEMMA AsilIsOfThePoints ==
    ASSUME NEW s \in 0 .. 3, NEW e \in 0 .. 4, NEW c \in 0 .. 3
    PROVE  HA!rank(HA!determine_asil(s, e, c)) = Points(s, e, c)
<1>1. CASE s = 0 \/ e = 0 \/ c = 0 \/ s + e + c <= 6
  BY <1>1, NamesAreRanked DEF HA!determine_asil, Points
<1>2. CASE ~ (s = 0 \/ e = 0 \/ c = 0 \/ s + e + c <= 6)
  <2>1. s + e + c - 6 \in 1 .. 4
    BY <1>2
  <2>2. HA!determine_asil(s, e, c) = HA!AsilNames[s + e + c - 6]
    BY <1>2 DEF HA!determine_asil
  <2> QED BY <1>2, <2>1, <2>2, NamesAreRanked DEF Points
<1> QED BY <1>1, <1>2

(* What Table 4 of ISO 26262-3 prints is the number of points above six.   *)
LEMMA Table4IsOfThePoints ==
    ASSUME NEW s \in 1 .. 3, NEW e \in 1 .. 4, NEW c \in 1 .. 3
    PROVE  HA!Table4[s][e][c] = Points(s, e, c)
<1> DEFINE low == <<<<0, 0, 0>>, <<0, 0, 0>>, <<0, 0, 1>>, <<0, 1, 2>>>>
           middle == <<<<0, 0, 0>>, <<0, 0, 1>>, <<0, 1, 2>>, <<1, 2, 3>>>>
           high == <<<<0, 0, 1>>, <<0, 1, 2>>, <<1, 2, 3>>, <<2, 3, 4>>>>
<1>1. HA!Table4[1] = low /\ HA!Table4[2] = middle /\ HA!Table4[3] = high
  BY DEF HA!Table4
<1>2. low[e][c] = Points(1, e, c)
  BY DEF Points
<1>3. middle[e][c] = Points(2, e, c)
  BY DEF Points
<1>4. high[e][c] = Points(3, e, c)
  BY DEF Points
<1> HIDE DEF low, middle, high
<1>5. s = 1 \/ s = 2 \/ s = 3
  OBVIOUS
<1> QED BY <1>1, <1>2, <1>3, <1>4, <1>5

LEMMA LevelsAreOfTable4 == HA!AsilIsTable4
<1> SUFFICES ASSUME NEW s \in 0 .. 3, NEW e \in 0 .. 4, NEW c \in 0 .. 3
             PROVE  LET level == HA!rank(HA!determine_asil(s, e, c)) IN
                    /\ level = IF 0 \in {s, e, c} THEN 0 ELSE HA!Table4[s][e][c]
                    /\ s < 3 => HA!rank(HA!determine_asil(s + 1, e, c)) >= level
                    /\ e < 4 => HA!rank(HA!determine_asil(s, e + 1, c)) >= level
                    /\ c < 3 => HA!rank(HA!determine_asil(s, e, c + 1)) >= level
  BY DEF HA!AsilIsTable4
<1>1. HA!rank(HA!determine_asil(s, e, c)) = Points(s, e, c)
  BY AsilIsOfThePoints
<1>2. Points(s, e, c) = IF 0 \in {s, e, c} THEN 0 ELSE HA!Table4[s][e][c]
  <2>1. CASE 0 \in {s, e, c}
    BY <2>1 DEF Points
  <2>2. CASE 0 \notin {s, e, c}
    <3>1. s \in 1 .. 3 /\ e \in 1 .. 4 /\ c \in 1 .. 3
      BY <2>2
    <3> QED BY <2>2, <3>1, Table4IsOfThePoints
  <2> QED BY <2>1, <2>2
<1>3. ASSUME s < 3 PROVE HA!rank(HA!determine_asil(s + 1, e, c)) >= Points(s, e, c)
  <2>1. HA!rank(HA!determine_asil(s + 1, e, c)) = Points(s + 1, e, c)
    BY <1>3, AsilIsOfThePoints
  <2> QED BY <2>1 DEF Points
<1>4. ASSUME e < 4 PROVE HA!rank(HA!determine_asil(s, e + 1, c)) >= Points(s, e, c)
  <2>1. HA!rank(HA!determine_asil(s, e + 1, c)) = Points(s, e + 1, c)
    BY <1>4, AsilIsOfThePoints
  <2> QED BY <2>1 DEF Points
<1>5. ASSUME c < 3 PROVE HA!rank(HA!determine_asil(s, e, c + 1)) >= Points(s, e, c)
  <2>1. HA!rank(HA!determine_asil(s, e, c + 1)) = Points(s, e, c + 1)
    BY <1>5, AsilIsOfThePoints
  <2> QED BY <2>1 DEF Points
<1> QED BY <1>1, <1>2, <1>3, <1>4, <1>5

-----------------------------------------------------------------------------
(* The risk of a threat.                                                   *)

Level(impact, feasibility) == TA!RiskRank(TA!kRiskTable[impact + 1][feasibility + 1])

LEMMA RisksAreRanked ==
    /\ TA!RiskRank("low") = 1 /\ TA!RiskRank("medium") = 2
    /\ TA!RiskRank("high") = 3 /\ TA!RiskRank("critical") = 4
<1>1. /\ DOMAIN TA!Risks = 1 .. 4 /\ TA!Risks[1] = "low" /\ TA!Risks[2] = "medium"
      /\ TA!Risks[3] = "high" /\ TA!Risks[4] = "critical"
  BY DEF TA!Risks
<1>2. \A r \in 1 .. 4 : r = 1 \/ r = 2 \/ r = 3 \/ r = 4
  OBVIOUS
<1>3. ASSUME NEW n \in 1 .. 4 PROVE TA!RiskRank(TA!Risks[n]) = n
  <2>1. \A r \in DOMAIN TA!Risks : TA!Risks[r] = TA!Risks[n] => r = n
    BY <1>1, <1>2
  <2>2. n \in DOMAIN TA!Risks /\ TA!Risks[n] = TA!Risks[n]
    BY <1>1
  <2>3. TA!RiskRank(TA!Risks[n]) = CHOOSE r \in DOMAIN TA!Risks : TA!Risks[r] = TA!Risks[n]
    BY DEF TA!RiskRank
  <2> QED BY <2>1, <2>2, <2>3
<1> QED BY <1>1, <1>3

(* Along both sides of the table the risk only rises.                      *)
LEMMA RiskRises ==
    ASSUME NEW i \in 0 .. 3, NEW j \in i .. 3, NEW f \in 0 .. 3, NEW g \in f .. 3
    PROVE  /\ Level(i, f) \in 1 .. 4 /\ Level(i, f) <= Level(j, g)
           /\ f = 0 => Level(i, f) <= 2
<1>1. \A n \in 0 .. 3 : n = 0 \/ n = 1 \/ n = 2 \/ n = 3
  OBVIOUS
<1>2. /\ TA!kRiskTable[1] = <<"low", "low", "low", "low">>
      /\ TA!kRiskTable[2] = <<"low", "low", "medium", "medium">>
      /\ TA!kRiskTable[3] = <<"medium", "medium", "high", "high">>
      /\ TA!kRiskTable[4] = <<"medium", "high", "critical", "critical">>
  BY DEF TA!kRiskTable
<1>3. /\ Level(0, 0) = 1 /\ Level(0, 1) = 1 /\ Level(0, 2) = 1 /\ Level(0, 3) = 1
      /\ Level(1, 0) = 1 /\ Level(1, 1) = 1 /\ Level(1, 2) = 2 /\ Level(1, 3) = 2
      /\ Level(2, 0) = 2 /\ Level(2, 1) = 2 /\ Level(2, 2) = 3 /\ Level(2, 3) = 3
      /\ Level(3, 0) = 2 /\ Level(3, 1) = 3 /\ Level(3, 2) = 4 /\ Level(3, 3) = 4
  BY <1>2, RisksAreRanked DEF Level
<1>4. i \in 0 .. 3 /\ j \in 0 .. 3 /\ f \in 0 .. 3 /\ g \in 0 .. 3 /\ i <= j /\ f <= g
  OBVIOUS
<1> QED BY <1>1, <1>3, <1>4

LEMMA RanksAreOfFour ==
    ASSUME NEW x
    PROVE  TA!impact_rank(x) \in 0 .. 3 /\ TA!feasibility_rank(x) \in 0 .. 3
BY DEF TA!impact_rank, TA!feasibility_rank

Worst(impact) == TA!impact_rank(TA!highest_impact(impact))

(* The worst impact is one of the four, and none of them is worse.         *)
LEMMA WorstOfFour ==
    ASSUME NEW impact
    PROVE  /\ Worst(impact) \in 0 .. 3
           /\ \A a \in 1 .. 4 : TA!impact_rank(impact[a]) <= Worst(impact)
           /\ \E a \in 1 .. 4 : Worst(impact) = TA!impact_rank(impact[a])
<1> DEFINE worse(best, i) == IF TA!impact_rank(i) > TA!impact_rank(best) THEN i ELSE best
           two == worse(impact[1], impact[2])
           three == worse(two, impact[3])
           four == worse(three, impact[4])
<1>1. TA!highest_impact(impact) = four
  BY DEF TA!highest_impact
<1>2. ASSUME NEW best, NEW i
      PROVE  /\ worse(best, i) \in {best, i}
             /\ TA!impact_rank(best) <= TA!impact_rank(worse(best, i))
             /\ TA!impact_rank(i) <= TA!impact_rank(worse(best, i))
  BY RanksAreOfFour
<1> HIDE DEF worse
<1>3. four \in {impact[1], impact[2], impact[3], impact[4]}
  BY <1>2
<1>4. /\ TA!impact_rank(impact[1]) <= TA!impact_rank(two)
      /\ TA!impact_rank(impact[2]) <= TA!impact_rank(two)
      /\ TA!impact_rank(two) <= TA!impact_rank(three)
      /\ TA!impact_rank(impact[3]) <= TA!impact_rank(three)
      /\ TA!impact_rank(three) <= TA!impact_rank(four)
      /\ TA!impact_rank(impact[4]) <= TA!impact_rank(four)
  BY <1>2
<1> HIDE DEF two, three, four
<1>5. \A a \in 1 .. 4 : a = 1 \/ a = 2 \/ a = 3 \/ a = 4
  OBVIOUS
<1>6. \A a \in 1 .. 4 : TA!impact_rank(impact[a]) <= TA!impact_rank(four)
  BY <1>4, <1>5, RanksAreOfFour
<1>7. \E a \in 1 .. 4 : TA!impact_rank(four) = TA!impact_rank(impact[a])
  BY <1>3
<1> QED BY <1>1, <1>6, <1>7, RanksAreOfFour DEF Worst

LEMMA RiskIsOfTheWorst ==
    ASSUME NEW feasibility, NEW impact
    PROVE  TA!RiskRank(TA!derive_risk(feasibility, impact))
             = Level(Worst(impact), TA!feasibility_rank(feasibility))
BY DEF TA!derive_risk, Level, Worst

(* Where each impact has one that is as bad, the worst is no worse.        *)
LEMMA WorseIsWorse ==
    ASSUME NEW one, NEW other,
           \A a \in 1 .. 4 : \E b \in 1 .. 4 :
               TA!impact_rank(one[a]) <= TA!impact_rank(other[b])
    PROVE  Worst(one) <= Worst(other)
BY WorstOfFour, RanksAreOfFour

(* The risk is that of the worst of the four impacts, whatever the ratings *)
(* are called.                                                             *)
LEMMA WorstDecides ==
    ASSUME NEW feasibility, NEW Impacts, NEW impact \in [1 .. 4 -> Impacts]
    PROVE  TA!RiskFollowsTheWorst(feasibility, impact)
<1> DEFINE risk == TA!RiskRank(TA!derive_risk(feasibility, impact))
           moved(a, b) == [impact EXCEPT ![a] = impact[b], ![b] = impact[a]]
           below(s) ==
               /\ TA!feasibility_rank(s.rating.feasibility) <= TA!feasibility_rank(feasibility)
               /\ \A a \in 1 .. 4 : \E b \in 1 .. 4 :
                      TA!impact_rank(s.rating.impact[a]) <= TA!impact_rank(impact[b])
<1>0. ASSUME NEW f, NEW g, NEW one, NEW other, Worst(one) <= Worst(other),
             TA!feasibility_rank(f) <= TA!feasibility_rank(g)
      PROVE  TA!RiskRank(TA!derive_risk(f, one)) <= TA!RiskRank(TA!derive_risk(g, other))
  <2>1. /\ Worst(one) \in 0 .. 3 /\ Worst(other) \in Worst(one) .. 3
        /\ TA!feasibility_rank(f) \in 0 .. 3
        /\ TA!feasibility_rank(g) \in TA!feasibility_rank(f) .. 3
    BY <1>0, WorstOfFour, RanksAreOfFour
  <2> QED BY <2>1, RiskRises, RiskIsOfTheWorst
<1>1. ASSUME NEW f, TA!feasibility_rank(f) <= TA!feasibility_rank(feasibility)
      PROVE  TA!RiskRank(TA!derive_risk(f, impact)) <= risk
  <2>1. Worst(impact) <= Worst(impact)
    BY WorstOfFour
  <2> QED BY <1>0, <1>1, <2>1
<1>2. ASSUME NEW a \in 1 .. 4, NEW worse, TA!impact_rank(impact[a]) <= TA!impact_rank(worse)
      PROVE  TA!RiskRank(TA!derive_risk(feasibility, [impact EXCEPT ![a] = worse])) >= risk
  <2> DEFINE other == [impact EXCEPT ![a] = worse]
  <2>1. other[a] = worse /\ \A b \in 1 .. 4 : b # a => other[b] = impact[b]
    OBVIOUS
  <2> HIDE DEF other
  <2>2. \A b \in 1 .. 4 : TA!impact_rank(impact[b]) <= TA!impact_rank(other[b])
    BY <1>2, <2>1, RanksAreOfFour
  <2>3. Worst(impact) <= Worst(other) /\ TA!feasibility_rank(feasibility) <= TA!feasibility_rank(feasibility)
    BY <2>2, WorseIsWorse, RanksAreOfFour
  <2>4. risk <= TA!RiskRank(TA!derive_risk(feasibility, other))
    BY <1>0, <2>3
  <2>5. risk \in 1 .. 4 /\ TA!RiskRank(TA!derive_risk(feasibility, other)) \in 1 .. 4
    BY WorstOfFour, RanksAreOfFour, RiskRises, RiskIsOfTheWorst
  <2> QED BY <2>4, <2>5 DEF other
<1>3. ASSUME NEW a \in 1 .. 4, NEW b \in 1 .. 4
      PROVE  TA!RiskRank(TA!derive_risk(feasibility, moved(a, b))) = risk
  <2> DEFINE other == moved(a, b)
  <2>1. other[a] = impact[b] /\ other[b] = impact[a]
        /\ \A x \in 1 .. 4 : x # a /\ x # b => other[x] = impact[x]
    OBVIOUS
  <2> HIDE DEF other
  <2>2. /\ \A x \in 1 .. 4 : \E y \in 1 .. 4 : impact[x] = other[y]
        /\ \A x \in 1 .. 4 : \E y \in 1 .. 4 : other[x] = impact[y]
    BY <2>1
  <2>3. Worst(impact) <= Worst(other) /\ Worst(other) <= Worst(impact)
    <3>1. \A x : TA!impact_rank(x) <= TA!impact_rank(x)
      BY RanksAreOfFour
    <3>2. /\ \A x \in 1 .. 4 : \E y \in 1 .. 4 : TA!impact_rank(impact[x]) <= TA!impact_rank(other[y])
          /\ \A x \in 1 .. 4 : \E y \in 1 .. 4 : TA!impact_rank(other[x]) <= TA!impact_rank(impact[y])
      BY <2>2, <3>1
    <3> QED BY <3>2, WorseIsWorse
  <2>4. Worst(impact) = Worst(other)
    BY <2>3, WorstOfFour
  <2> QED BY <2>4, RiskIsOfTheWorst DEF other
<1>4. TA!feasibility_rank(feasibility) = 0 => risk <= 2
  <2>1. 0 \in 0 .. 3 /\ Worst(impact) \in 0 .. 3 /\ Worst(impact) \in Worst(impact) .. 3
    BY WorstOfFour
  <2> QED BY <2>1, RiskRises, RiskIsOfTheWorst
<1>5. ASSUME NEW i \in DOMAIN TA!generate.scenarios, below(TA!generate.scenarios[i])
      PROVE  TA!RiskRank(TA!generate.scenarios[i].risk) <= risk
  <2> DEFINE s == TA!default_scenarios[i]
  <2>1. TA!generate.scenarios[i]
          = [rating |-> s, risk |-> TA!derive_risk(s.feasibility, s.impact)]
    BY DEF TA!generate
  <2> HIDE DEF s
  <2>2. /\ TA!feasibility_rank(s.feasibility) <= TA!feasibility_rank(feasibility)
        /\ \A a \in 1 .. 4 : \E b \in 1 .. 4 :
               TA!impact_rank(s.impact[a]) <= TA!impact_rank(impact[b])
    BY <1>5, <2>1
  <2>3. Worst(s.impact) <= Worst(impact)
    BY <2>2, WorseIsWorse
  <2> QED BY <1>0, <2>1, <2>2, <2>3
<1> HIDE DEF risk
<1> QED BY <1>1, <1>2, <1>3, <1>4, <1>5 DEF TA!RiskFollowsTheWorst, risk

(* The ASIL of a rating is that of Table 4, and the risk of a threat follows *)
(* the worst of its impacts, for any rating of four impacts.               *)
THEOREM RatingsAreOfTheTables ==
    ASSUME NEW Impacts,
           input.of = "rating" => input.value.impact \in [1 .. 4 -> Impacts]
    PROVE  RatingsFollowTheTables
<1>1. AsilIsTable4
  BY LevelsAreOfTable4 DEF AsilIsTable4, Of
<1>2. RiskFollowsTheWorst
  BY WorstDecides DEF RiskFollowsTheWorst, Of
<1> QED BY <1>1, <1>2 DEF RatingsFollowTheTables

-----------------------------------------------------------------------------
(* Counts, sums and joins in the instances are those of the library.        *)

LEMMA SameCount == ASSUME NEW S PROVE HA!Cardinality(S) = Cardinality(S)
BY DEF HA!Cardinality, Cardinality, HA!IsFiniteSet, IsFiniteSet

LEMMA SameMost == ASSUME NEW S PROVE HA!Max(S) = Max(S) /\ HA!Min(S) = Min(S)
BY DEF HA!Max, Max, HA!Min, Min

LEMMA SameSum == ASSUME NEW numbers PROVE HA!Total(numbers) = Total(numbers)
BY DEF HA!Total, Total, HA!FoldLeft, FoldLeft, HA!MapThenFoldSet, MapThenFoldSet, HA!Max, Max

LEMMA SameFlat == ASSUME NEW s PROVE HA!FlattenSeq(s) = FlattenSeq(s)
BY DEF HA!FlattenSeq, FlattenSeq

LEMMA SameInFindings ==
    /\ \A S : FI!Cardinality(S) = Cardinality(S)
    /\ \A S : FI!Max(S) = Max(S) /\ FI!Min(S) = Min(S)
    /\ \A s : FI!FlattenSeq(s) = FlattenSeq(s)
BY DEF FI!Cardinality, Cardinality, FI!IsFiniteSet, IsFiniteSet, FI!Max, Max, FI!Min, Min,
   FI!FlattenSeq, FlattenSeq

-----------------------------------------------------------------------------
(* Hazards.                                                                *)

RiskOf(hazards, k) == HA!rank(hazards[k].asil)

LEMMA RankIsNat == \A x : HA!rank(x) \in Nat
BY DEF HA!rank

LEMMA MaxRankRuns ==
    ASSUME NEW n \in Nat, NEW hazards, DOMAIN hazards = 1..n, Len(hazards) = n
    PROVE  \E run \in [0..n -> Nat] :
              /\ run[0] = 0 /\ run[n] = HA!MaxRank(hazards)
              /\ \A k \in 1..n : run[k] = IF RiskOf(hazards, k) > run[k - 1]
                                          THEN RiskOf(hazards, k) ELSE run[k - 1]
<1> DEFINE turn(v, k) == IF RiskOf(hazards, k) > v THEN RiskOf(hazards, k) ELSE v
           body(f) == [s \in SUBSET (1..n) |->
                         IF s = {} THEN 0 ELSE turn(f[s \ {HA!Max(s)}], HA!Max(s))]
           chosen == CHOOSE f : f = body(f)
           step == [k \in 1..n |-> [v \in Nat |-> turn(v, k)]]
<1>1. step \in [1..n -> [Nat -> Nat]]
  BY RankIsNat DEF RiskOf
<1>2. HA!MaxRank(hazards) = chosen[1..n]
  BY DEF HA!MaxRank, HA!FoldLeft, HA!MapThenFoldSet, RiskOf
<1> HIDE DEF turn
<1>3. PICK f \in [SUBSET (1..n) -> Nat] : Folds(f, n, 0, step)
  <2> HIDE DEF step
  <2> QED BY <1>1, FoldExists
<1>4. f = body(f)
  <2>1. \A s \in SUBSET (1..n) : s # {} => Max(s) \in 1..n /\ f[s \ {Max(s)}] \in Nat
    BY <1>3, LastPlace
  <2>2. \A s \in SUBSET (1..n) : f[s] = IF s = {} THEN 0 ELSE turn(f[s \ {HA!Max(s)}], HA!Max(s))
    BY <1>3, <2>1, SameMost DEF Folds
  <2> QED BY <1>3, <2>2
<1>5. chosen = body(chosen)
  BY <1>4
<1> HIDE DEF chosen
<1>6. FoldsIn(Nat, chosen, n, 0, step)
  BY <1>5, LastPlace, SameMost DEF FoldsIn
<1> HIDE DEF step
<1>7. RunsThrough(Nat, chosen, n, 0, step)
  BY <1>1, <1>6, FoldRuns, 0 \in Nat, Zenon
<1>8. PICK run \in [0..n -> Nat] : Runs(run, n, 0, step) /\ run[n] = chosen[1..n]
  BY <1>7 DEF RunsThrough
<1>9. ASSUME NEW k \in 1..n PROVE run[k] = turn(run[k - 1], k)
  <2>1. run[k] = step[k][run[k - 1]] /\ run[k - 1] \in Nat
    BY <1>8 DEF Runs
  <2> QED BY <2>1 DEF step
<1>10. run[0] = 0 /\ run[n] = HA!MaxRank(hazards)
  BY <1>2, <1>8 DEF Runs
<1> QED BY <1>9, <1>10 DEF turn

(* The loop over the hazards ends with the highest of their levels.        *)
LEMMA MaxRankIsHighest ==
    ASSUME NEW n \in Nat, NEW hazards, DOMAIN hazards = 1..n, Len(hazards) = n, NEW r \in Nat
    PROVE  HA!MaxRank(hazards) > r <=> \E k \in 1..n : RiskOf(hazards, k) > r
<1>1. PICK run \in [0..n -> Nat] :
              /\ run[0] = 0 /\ run[n] = HA!MaxRank(hazards)
              /\ \A k \in 1..n : run[k] = IF RiskOf(hazards, k) > run[k - 1]
                                          THEN RiskOf(hazards, k) ELSE run[k - 1]
  BY MaxRankRuns
<1> DEFINE P(m) == run[m] > r <=> \E k \in 1..m : RiskOf(hazards, k) > r
           S == {m \in 0..n : P(m)}
<1>2. P(0)
  BY <1>1
<1>3. ASSUME NEW m \in 1..n, P(m - 1) PROVE P(m)
  <2>1. run[m - 1] \in Nat /\ RiskOf(hazards, m) \in Nat
    BY RankIsNat DEF RiskOf
  <2>4. run[m] = IF RiskOf(hazards, m) > run[m - 1] THEN RiskOf(hazards, m) ELSE run[m - 1]
    BY <1>1
  <2>2. run[m] > r <=> run[m - 1] > r \/ RiskOf(hazards, m) > r
    BY <2>1, <2>4
  <2>3. m \in Nat \ {0}
    OBVIOUS
  <2> QED BY <1>3, <2>2, <2>3, LastOrBefore
<1> HIDE DEF P
<1>4. 0 \in S /\ \A m \in 1..n : m - 1 \in S => m \in S
  BY <1>2, <1>3
<1> HIDE DEF S
<1>5. \A m \in 0..n : m \in S
  BY <1>4, UpTo, Zenon
<1>6. P(n)
  BY <1>5 DEF S
<1> QED BY <1>1, <1>6 DEF P

\* The texts that loading fills in are among the labels.
HasDefaults(Labels) == {"", "QM"} \subseteq Labels
FiniteLabels(Labels) == {s \in SUBSET Labels : IsFiniteSet(s)}
AHazard(Labels) == [id : Labels, risk : BOOLEAN, rated : BOOLEAN, asil : Labels,
                   goals : FiniteLabels(Labels), situations : FiniteLabels(Labels)]
AGoal(Labels) ==
    [id : Labels, asil : Labels, hazards : FiniteLabels(Labels), fssr : FiniteLabels(Labels)]
AHara(Labels) == [is : {"read"}, situations : SUBSET Labels, hazards : Seq(AHazard(Labels)),
                 goals : Seq(AGoal(Labels))]

LEMMA HighestDecides ==
    ASSUME NEW Labels, NEW p, p.hara.is = "read" => p.hara \in AHara(Labels)
    PROVE  HA!HighestHazardDecides(p)
<1> DEFINE hs == p.hara.hazards
<1> SUFFICES ASSUME p.hara.is = "read", p.asil # "", \A i \in DOMAIN hs : hs[i].risk
             PROVE  HA!make_hara005(p) # HA!Nothing
                      <=> \E i \in DOMAIN hs : HA!rank(hs[i].asil) > HA!rank(p.asil)
  BY DEF HA!HighestHazardDecides
<1>1. hs \in Seq(AHazard(Labels))
  BY DEF AHara
<1>3. HA!make_hara005(p) # HA!Nothing <=> HA!MaxRank(hs) > HA!rank(p.asil)
  BY DEF HA!make_hara005, HA!Nothing, HA!Found
<1>4. HA!rank(p.asil) \in Nat
  BY RankIsNat
<1> HIDE DEF hs
<1>2. Len(hs) \in Nat /\ DOMAIN hs = 1..Len(hs)
  BY <1>1, SeqIsFunction, Zenon
<1>5. HA!MaxRank(hs) > HA!rank(p.asil) <=> \E k \in 1..Len(hs) : RiskOf(hs, k) > HA!rank(p.asil)
  BY <1>2, <1>4, MaxRankIsHighest
<1> QED BY <1>2, <1>3, <1>5 DEF RiskOf

(* A count of all is a count without exception.                            *)
LEMMA CountsAll ==
    ASSUME NEW n \in Nat, NEW s \in SUBSET (1..n)
    PROVE  HA!Cardinality(s) = n <=> s = 1..n
<1>1. IsFiniteSet(1..n) /\ Cardinality(1..n) = n
  BY FS_Interval
<1>2. Cardinality(s) = n => s = 1..n
  BY <1>1, FS_Subset
<1> QED BY <1>1, <1>2, SameCount

(* What is counted of the references of one item.                          *)
LEMMA NoneIsLeft ==
    ASSUME NEW Labels, NEW a \in FiniteLabels(Labels), NEW b \in FiniteLabels(Labels), NEW c, NEW d
    PROVE  /\ HA!Cardinality(a \ c) + HA!Cardinality(b \ d) \in Nat
           /\ HA!Cardinality(a \ c) + HA!Cardinality(b \ d) = 0
                <=> a \subseteq c /\ b \subseteq d
<1>1. IsFiniteSet(a \ c) /\ IsFiniteSet(b \ d)
  BY FS_Difference DEF FiniteLabels
<1>2. Cardinality(a \ c) \in Nat /\ Cardinality(b \ d) \in Nat
  BY <1>1, FS_CardinalityType
<1>3. (Cardinality(a \ c) = 0 <=> a \ c = {}) /\ (Cardinality(b \ d) = 0 <=> b \ d = {})
  BY <1>1, FS_EmptySet
<1>4. (a \ c = {} <=> a \subseteq c) /\ (b \ d = {} <=> b \subseteq d)
  OBVIOUS
<1> DEFINE x == Cardinality(a \ c)
           y == Cardinality(b \ d)
<1>5. x \in Nat /\ y \in Nat
  BY <1>2
<1>6. HA!Cardinality(a \ c) = x /\ HA!Cardinality(b \ d) = y
  BY SameCount
<1>7. (x = 0 <=> a \subseteq c) /\ (y = 0 <=> b \subseteq d)
  BY <1>3, <1>4
<1> HIDE DEF x, y
<1>8. x + y \in Nat /\ (x + y = 0 <=> x = 0 /\ y = 0)
  BY <1>5
<1> QED BY <1>6, <1>7, <1>8

DanglingInHazards(hazards, situations, goals) ==
    HA!Sum(hazards, LAMBDA h : HA!Cardinality(h.situations \ situations)
                               + HA!Cardinality(h.goals \ goals))
DanglingInGoals(goals, hazards, requirements) ==
    HA!Sum(goals, LAMBDA g : HA!Cardinality(g.hazards \ hazards)
                             + HA!Cardinality(g.fssr \ requirements))

(* Nothing dangles when no item has a reference that does.                 *)
LEMMA DanglesOfHazards ==
    ASSUME NEW Labels, NEW n \in Nat, NEW hazards \in [1..n -> AHazard(Labels)], NEW situations, NEW goals
    PROVE  /\ DanglingInHazards(hazards, situations, goals) \in Nat
           /\ DanglingInHazards(hazards, situations, goals) = 0
                <=> \A i \in 1..n : hazards[i].situations \subseteq situations
                                                   /\ hazards[i].goals \subseteq goals
<1> DEFINE numbers == [i \in 1..n |-> HA!Cardinality(hazards[i].situations \ situations)
                                      + HA!Cardinality(hazards[i].goals \ goals)]
<1>1. ASSUME NEW i \in 1..n
      PROVE  /\ numbers[i] \in Nat
             /\ numbers[i] = 0 <=> hazards[i].situations \subseteq situations
                                   /\ hazards[i].goals \subseteq goals
  <2>1. hazards[i].situations \in FiniteLabels(Labels) /\ hazards[i].goals \in FiniteLabels(Labels)
    BY DEF AHazard
  <2> QED BY <2>1, NoneIsLeft
<1>2. DOMAIN hazards = 1..n
  OBVIOUS
<1>3. DanglingInHazards(hazards, situations, goals) = Total(numbers)
  BY <1>2, SameSum DEF DanglingInHazards, HA!Sum
<1>4. numbers \in [1..n -> Nat]
  BY <1>1
<1> HIDE DEF numbers
<1>5. Total(numbers) \in Nat /\ (Total(numbers) = 0 <=> \A i \in 1..n : numbers[i] = 0)
  BY <1>4, TotalOfNothing
<1> QED BY <1>1, <1>3, <1>5

LEMMA DanglesOfGoals ==
    ASSUME NEW Labels, NEW n \in Nat, NEW goals \in [1..n -> AGoal(Labels)], NEW hazards, NEW requirements
    PROVE  /\ DanglingInGoals(goals, hazards, requirements) \in Nat
           /\ DanglingInGoals(goals, hazards, requirements) = 0
                <=> \A i \in 1..n : goals[i].hazards \subseteq hazards
                                                   /\ goals[i].fssr \subseteq requirements
<1> DEFINE numbers == [i \in 1..n |-> HA!Cardinality(goals[i].hazards \ hazards)
                                      + HA!Cardinality(goals[i].fssr \ requirements)]
<1>1. ASSUME NEW i \in 1..n
      PROVE  /\ numbers[i] \in Nat
             /\ numbers[i] = 0 <=> goals[i].hazards \subseteq hazards
                                   /\ goals[i].fssr \subseteq requirements
  <2>1. goals[i].hazards \in FiniteLabels(Labels) /\ goals[i].fssr \in FiniteLabels(Labels)
    BY DEF AGoal
  <2> QED BY <2>1, NoneIsLeft
<1>2. DOMAIN goals = 1..n
  OBVIOUS
<1>3. DanglingInGoals(goals, hazards, requirements) = Total(numbers)
  BY <1>2, SameSum DEF DanglingInGoals, HA!Sum
<1>4. numbers \in [1..n -> Nat]
  BY <1>1
<1> HIDE DEF numbers
<1>5. Total(numbers) \in Nat /\ (Total(numbers) = 0 <=> \A i \in 1..n : numbers[i] = 0)
  BY <1>4, TotalOfNothing
<1> QED BY <1>1, <1>3, <1>5

(* Loading keeps the shape of a file and all its references.               *)
LEMMA HazardIsLoaded ==
    ASSUME NEW Labels, HasDefaults(Labels), NEW h \in AHazard(Labels)
    PROVE  HA!load_hazard(h) \in AHazard(Labels)
           /\ HA!load_hazard(h) = [id |-> h.id, risk |-> TRUE, rated |-> h.risk /\ h.rated,
                asil |-> HA!load_hazard(h).asil, goals |-> h.goals, situations |-> h.situations]
<1> DEFINE rated == h.risk /\ h.rated
           asil == IF ~h.risk THEN "" ELSE IF h.asil = HA!Absent THEN "QM" ELSE h.asil
<1>1. rated \in BOOLEAN
  BY Zenon
<1>2. h.asil \in Labels /\ h.id \in Labels /\ h.goals \in FiniteLabels(Labels) /\ h.situations \in FiniteLabels(Labels)
  BY DEF AHazard
<1>3. asil \in Labels
  BY <1>2 DEF HasDefaults
<1>4. HA!load_hazard(h) = [h EXCEPT !.rated = rated, !.risk = TRUE, !.asil = asil]
  BY DEF HA!load_hazard
<1> HIDE DEF rated, asil
<1>5. HA!load_hazard(h) = [id |-> h.id, risk |-> TRUE, rated |-> rated, asil |-> asil,
                           goals |-> h.goals, situations |-> h.situations]
  BY <1>4 DEF AHazard
<1>6. HA!load_hazard(h) \in AHazard(Labels)
  BY <1>1, <1>2, <1>3, <1>5 DEF AHazard
<1>7. HA!load_hazard(h).asil = asil
  BY <1>5
<1> QED BY <1>5, <1>6, <1>7 DEF rated

LEMMA GoalIsLoaded ==
    ASSUME NEW Labels, HasDefaults(Labels), NEW g \in AGoal(Labels)
    PROVE  HA!load_goal(g) \in AGoal(Labels)
           /\ HA!load_goal(g) = [id |-> g.id, asil |-> HA!load_goal(g).asil,
                                 hazards |-> g.hazards, fssr |-> g.fssr]
<1> DEFINE asil == IF g.asil = HA!Absent THEN "QM" ELSE g.asil
<1>1. g.asil \in Labels /\ g.id \in Labels /\ g.hazards \in FiniteLabels(Labels) /\ g.fssr \in FiniteLabels(Labels)
  BY DEF AGoal
<1>2. asil \in Labels
  BY <1>1 DEF HasDefaults
<1>3. HA!load_goal(g) = [g EXCEPT !.asil = asil]
  BY DEF HA!load_goal
<1> HIDE DEF asil
<1>4. HA!load_goal(g) = [id |-> g.id, asil |-> asil, hazards |-> g.hazards, fssr |-> g.fssr]
  BY <1>3 DEF AGoal
<1>5. HA!load_goal(g) \in AGoal(Labels)
  BY <1>1, <1>2, <1>4 DEF AGoal
<1>6. HA!load_goal(g).asil = asil
  BY <1>4
<1> QED BY <1>4, <1>5, <1>6

LEMMA LoadKeeps ==
    ASSUME NEW Labels, HasDefaults(Labels), NEW file \in AHara(Labels)
    PROVE  /\ HA!load(file) \in AHara(Labels) /\ HA!load(file).situations = file.situations
           /\ Len(HA!load(file).hazards) = Len(file.hazards)
           /\ Len(HA!load(file).goals) = Len(file.goals)
           /\ \A i \in 1..Len(file.hazards) :
                  HA!load(file).hazards[i] = HA!load_hazard(file.hazards[i])
           /\ \A i \in 1..Len(file.goals) : HA!load(file).goals[i] = HA!load_goal(file.goals[i])
<1>1. file.hazards \in Seq(AHazard(Labels)) /\ file.goals \in Seq(AGoal(Labels)) /\ file.is = "read"
      /\ file.situations \in SUBSET Labels
  BY DEF AHara
<1> DEFINE hazards == [i \in DOMAIN file.hazards |-> HA!load_hazard(file.hazards[i])]
           goals == [i \in DOMAIN file.goals |-> HA!load_goal(file.goals[i])]
<1>4. hazards \in Seq(AHazard(Labels)) /\ Len(hazards) = Len(file.hazards)
      /\ \A i \in 1..Len(file.hazards) : hazards[i] = HA!load_hazard(file.hazards[i])
  <2>1. /\ Len(file.hazards) \in Nat /\ DOMAIN file.hazards = 1..Len(file.hazards)
        /\ file.hazards \in [1..Len(file.hazards) -> AHazard(Labels)]
    BY <1>1, SeqIsFunction
  <2>2. \A i \in 1..Len(file.hazards) : HA!load_hazard(file.hazards[i]) \in AHazard(Labels)
    BY <2>1, HazardIsLoaded
  <2>3. hazards \in [1..Len(file.hazards) -> AHazard(Labels)]
    BY <2>1, <2>2
  <2>4. \A i \in 1..Len(file.hazards) : hazards[i] = HA!load_hazard(file.hazards[i])
    BY <2>1
  <2> HIDE DEF hazards
  <2> QED BY <2>1, <2>3, <2>4
<1>5. goals \in Seq(AGoal(Labels)) /\ Len(goals) = Len(file.goals)
      /\ \A i \in 1..Len(file.goals) : goals[i] = HA!load_goal(file.goals[i])
  <2>1. /\ Len(file.goals) \in Nat /\ DOMAIN file.goals = 1..Len(file.goals)
        /\ file.goals \in [1..Len(file.goals) -> AGoal(Labels)]
    BY <1>1, SeqIsFunction
  <2>2. \A i \in 1..Len(file.goals) : HA!load_goal(file.goals[i]) \in AGoal(Labels)
    BY <2>1, GoalIsLoaded
  <2>3. goals \in [1..Len(file.goals) -> AGoal(Labels)]
    BY <2>1, <2>2
  <2>4. \A i \in 1..Len(file.goals) : goals[i] = HA!load_goal(file.goals[i])
    BY <2>1
  <2> HIDE DEF goals
  <2> QED BY <2>1, <2>3, <2>4
<1>6. HA!load(file) = [file EXCEPT !.hazards = hazards, !.goals = goals]
  BY <1>1 DEF HA!load
<1> HIDE DEF hazards, goals
<1>7. HA!load(file) = [is |-> "read", situations |-> file.situations,
                       hazards |-> hazards, goals |-> goals]
  BY <1>1, <1>6 DEF AHara
<1>8. HA!load(file) \in AHara(Labels)
  BY <1>1, <1>4, <1>5, <1>7 DEF AHara
<1>9. HA!load(file).hazards = hazards /\ HA!load(file).goals = goals
      /\ HA!load(file).situations = file.situations
  BY <1>7
<1> QED BY <1>4, <1>5, <1>8, <1>9

(* The completeness block tells whether a reference dangles.               *)
LEMMA DanglingIsTold ==
    ASSUME NEW Labels, HasDefaults(Labels), NEW file \in AHara(Labels), NEW requirements
    PROVE  HA!NoneDangles(file, requirements)
<1> DEFINE hara == HA!load(file)
           n == Len(hara.hazards)
           m == Len(hara.goals)
<1>1. hara \in AHara(Labels)
  BY LoadKeeps
<1> DEFINE hazards == {hara.hazards[i] : i \in DOMAIN hara.hazards}
           goals == {hara.goals[i] : i \in DOMAIN hara.goals}
           AllResolve ==
            /\ \A h \in hazards : h.situations \subseteq hara.situations
                               /\ \A g \in h.goals : \E x \in goals : x.id = g
            /\ \A g \in goals : g.fssr \subseteq requirements
                             /\ \A h \in g.hazards : \E x \in hazards : x.id = h
<1> SUFFICES HA!compute_completeness(hara, requirements).dangling_references = 0 <=> AllResolve
  BY Zenon DEF HA!NoneDangles
<1> HIDE DEF hara
<1>2. hara.hazards \in Seq(AHazard(Labels)) /\ hara.goals \in Seq(AGoal(Labels))
  BY <1>1 DEF AHara
<1>3. /\ n \in Nat /\ DOMAIN hara.hazards = 1..n /\ hara.hazards \in [1..n -> AHazard(Labels)]
      /\ m \in Nat /\ DOMAIN hara.goals = 1..m /\ hara.goals \in [1..m -> AGoal(Labels)]
  BY <1>2, SeqIsFunction, Zenon
<1> HIDE DEF n, m
<1> DEFINE left == DanglingInHazards(hara.hazards, hara.situations, HA!Ids(hara.goals))
           right == DanglingInGoals(hara.goals, HA!Ids(hara.hazards), requirements)
<1>4. HA!compute_completeness(hara, requirements).dangling_references = left + right
  BY DEF HA!compute_completeness, DanglingInHazards, DanglingInGoals
<1>5. /\ left \in Nat
      /\ left = 0 <=> \A i \in 1..n : hara.hazards[i].situations \subseteq hara.situations
                                      /\ hara.hazards[i].goals \subseteq HA!Ids(hara.goals)
  BY <1>3, DanglesOfHazards, Zenon
<1>6. /\ right \in Nat
      /\ right = 0 <=> \A i \in 1..m : hara.goals[i].hazards \subseteq HA!Ids(hara.hazards)
                                       /\ hara.goals[i].fssr \subseteq requirements
  BY <1>3, DanglesOfGoals
<1> HIDE DEF left, right
<1>7. left + right = 0 <=> left = 0 /\ right = 0
  BY <1>5, <1>6
<1>8. \A x : x \in HA!Ids(hara.goals) <=> \E i \in 1..m : hara.goals[i].id = x
  BY <1>3 DEF HA!Ids
<1>9. \A x : x \in HA!Ids(hara.hazards) <=> \E i \in 1..n : hara.hazards[i].id = x
  BY <1>3 DEF HA!Ids
<1>10. HA!compute_completeness(hara, requirements).dangling_references = 0
        <=> /\ \A i \in 1..n : hara.hazards[i].situations \subseteq hara.situations
                               /\ \A g \in hara.hazards[i].goals : \E j \in 1..m : hara.goals[j].id = g
            /\ \A i \in 1..m : hara.goals[i].fssr \subseteq requirements
                               /\ \A h \in hara.goals[i].hazards : \E j \in 1..n : hara.hazards[j].id = h
  BY <1>4, <1>5, <1>6, <1>7, <1>8, <1>9
<1>11. \A h : h \in hazards <=> \E i \in 1..n : hara.hazards[i] = h
  BY <1>3
<1>12. \A g : g \in goals <=> \E i \in 1..m : hara.goals[i] = g
  BY <1>3
<1> HIDE DEF hazards, goals
<1>13. (\A i \in 1..n : hara.hazards[i].situations \subseteq hara.situations
                        /\ \A g \in hara.hazards[i].goals : \E j \in 1..m : hara.goals[j].id = g)
        <=> \A h \in hazards : h.situations \subseteq hara.situations
                               /\ \A g \in h.goals : \E x \in goals : x.id = g
  BY <1>11, <1>12, Zenon
<1>14. (\A i \in 1..m : hara.goals[i].fssr \subseteq requirements
                        /\ \A h \in hara.goals[i].hazards : \E j \in 1..n : hara.hazards[j].id = h)
        <=> \A g \in goals : g.fssr \subseteq requirements
                             /\ \A h \in g.hazards : \E x \in hazards : x.id = h
  BY <1>11, <1>12, Zenon
<1> QED BY <1>10, <1>13, <1>14

(* A loop over what can all be read finds nothing just if nothing is there *)
(* to report.                                                              *)
LEMMA LoopFinds ==
    ASSUME NEW n \in Nat, NEW items, Len(items) = n, NEW toReport, NEW unreadable,
           \A i \in 1..n : items[i] \notin unreadable
    PROVE  HA!Until(items, toReport, unreadable) = HA!Nothing
             <=> \A i \in 1..n : items[i] \notin toReport
<1> DEFINE hits == {i \in 1..Len(items) : items[i] \in toReport \cup unreadable}
           first == IF hits # {} THEN HA!Min(hits) ELSE 0
<1>1. HA!Until(items, toReport, unreadable)
        = IF first = 0 \/ items[first] \in unreadable THEN HA!Nothing
          ELSE HA!Found("WARNING", items[first].id)
  BY DEF HA!Until, HA!SelectInSeq
<1>2. hits \in SUBSET (1..n) /\ (hits = {} <=> \A i \in 1..n : items[i] \notin toReport)
  OBVIOUS
<1> HIDE DEF hits
<1>3. hits # {} => first \in hits
  BY <1>2, FirstPlace, SameMost
<1>4. hits # {} => first \in 1..n
  BY <1>2, <1>3
<1>5. CASE hits = {}
  BY <1>1, <1>2, <1>5
<1>6. CASE hits # {}
  <2>1. first # 0 /\ items[first] \notin unreadable
    BY <1>4, <1>6
  <2> HIDE DEF first
  <2>2. HA!Until(items, toReport, unreadable) = <<[severity |-> "WARNING", about |-> items[first].id]>>
    BY <1>1, <2>1 DEF HA!Found
  <2>3. HA!Until(items, toReport, unreadable) # HA!Nothing
    BY <2>2 DEF HA!Nothing
  <2> QED BY <1>2, <1>6, <2>3
<1> QED BY <1>5, <1>6

(* The rule on safety goals agrees with the completeness block.            *)
LEMMA GoalsAgree ==
    ASSUME NEW Labels, HasDefaults(Labels), NEW p, p.hara \in AHara(Labels), NEW requirements
    PROVE  LET c == HA!compute_completeness(HA!load(p.hara), requirements)
           IN HA!make_hara003(p) = HA!Nothing <=> c.hazards_with_safety_goal = c.total_hazards
<1> DEFINE file == p.hara
           hara == HA!load(file)
           n == Len(file.hazards)
<1>1. file.is = "read" /\ file.hazards \in Seq(AHazard(Labels))
  BY DEF AHara
<1>2. HA!make_hara003(p)
        = HA!Until(file.hazards, {h \in HA!ToSet(file.hazards) : h.goals = {}}, {})
  BY <1>1 DEF HA!make_hara003
<1>3. /\ hara.hazards \in Seq(AHazard(Labels)) /\ Len(hara.hazards) = n
      /\ \A i \in 1..n : hara.hazards[i] = HA!load_hazard(file.hazards[i])
  BY LoadKeeps DEF AHara
<1> HIDE DEF file
<1>4. n \in Nat /\ DOMAIN file.hazards = 1..n /\ file.hazards \in [1..n -> AHazard(Labels)]
  BY <1>1, SeqIsFunction, Zenon
<1> HIDE DEF hara, n
<1>5. DOMAIN hara.hazards = 1..n
  BY <1>3, SeqIsFunction, Zenon
<1>6. \A i \in 1..n : hara.hazards[i].goals = file.hazards[i].goals
  BY <1>3, <1>4, HazardIsLoaded
<1> DEFINE bare == {h \in HA!ToSet(file.hazards) : h.goals = {}}
           with == {i \in 1..n : hara.hazards[i].goals # {}}
<1>7. \A i \in 1..n : file.hazards[i] \in bare <=> file.hazards[i].goals = {}
  BY <1>4 DEF HA!ToSet
<1>8. HA!Until(file.hazards, bare, {}) = HA!Nothing
        <=> \A i \in 1..n : file.hazards[i] \notin bare
  <2> HIDE DEF bare
  <2>1. Len(file.hazards) = n /\ \A i \in 1..n : file.hazards[i] \notin {}
    BY <1>4 DEF n
  <2> QED BY <1>4, <2>1, LoopFinds
<1>9. HA!compute_completeness(hara, requirements).hazards_with_safety_goal = HA!Cardinality(with)
  BY <1>5 DEF HA!compute_completeness, HA!Count
<1>10. HA!compute_completeness(hara, requirements).total_hazards = n
  BY <1>3 DEF HA!compute_completeness
<1>11. with \in SUBSET (1..n) /\ (with = 1..n <=> \A i \in 1..n : hara.hazards[i].goals # {})
  OBVIOUS
<1> HIDE DEF with
<1>12. HA!Cardinality(with) = n <=> with = 1..n
  BY <1>4, <1>11, CountsAll
<1> QED BY <1>2, <1>6, <1>7, <1>8, <1>9, <1>10, <1>11, <1>12 DEF hara, file

(* What was loaded is loaded as it is.                                     *)
LEMMA LoadIsStable ==
    ASSUME NEW Labels, HasDefaults(Labels), NEW file \in AHara(Labels)
    PROVE  HA!load(HA!content_json(HA!load(file))) = HA!load(file)
<1> DEFINE hara == HA!load(file)
           again == HA!load(hara)
<1>1. hara \in AHara(Labels) /\ again \in AHara(Labels)
  BY LoadKeeps
<1>2. \A h \in AHazard(Labels) : HA!load_hazard(HA!load_hazard(h)) = HA!load_hazard(h)
  <2> SUFFICES ASSUME NEW h \in AHazard(Labels)
               PROVE  HA!load_hazard(HA!load_hazard(h)) = HA!load_hazard(h)
    OBVIOUS
  <2> DEFINE g == HA!load_hazard(h)
             k == HA!load_hazard(g)
  <2>1. /\ g \in AHazard(Labels)
        /\ g = [id |-> h.id, risk |-> TRUE, rated |-> h.risk /\ h.rated,
                asil |-> g.asil, goals |-> h.goals, situations |-> h.situations]
    BY HazardIsLoaded
  <2>2. g.asil = IF ~h.risk THEN "" ELSE IF h.asil = HA!Absent THEN "QM" ELSE h.asil
    BY DEF HA!load_hazard, AHazard
  <2>3. g.asil # HA!Absent
    BY <2>2 DEF HA!Absent
  <2>4. k.asil = IF ~g.risk THEN "" ELSE IF g.asil = HA!Absent THEN "QM" ELSE g.asil
    BY <2>1 DEF HA!load_hazard, AHazard
  <2>5. /\ k = [id |-> g.id, risk |-> TRUE, rated |-> g.risk /\ g.rated,
                asil |-> k.asil, goals |-> g.goals, situations |-> g.situations]
    BY <2>1, HazardIsLoaded
  <2> HIDE DEF g, k
  <2>6. g.risk = TRUE
    BY <2>1
  <2>7. k.asil = g.asil
    BY <2>3, <2>4, <2>6
  <2>8. (g.risk /\ g.rated) = g.rated
    BY <2>1, <2>6 DEF AHazard
  <2>9. g = [id |-> g.id, risk |-> TRUE, rated |-> g.rated,
             asil |-> g.asil, goals |-> g.goals, situations |-> g.situations]
    BY <2>1
  <2> QED BY <2>5, <2>7, <2>8, <2>9 DEF g, k
<1>3. \A g \in AGoal(Labels) : HA!load_goal(HA!load_goal(g)) = HA!load_goal(g)
  BY GoalIsLoaded DEF HA!load_goal, HA!Absent, AGoal
<1>4. /\ Len(again.hazards) = Len(hara.hazards)
      /\ \A i \in 1..Len(hara.hazards) : again.hazards[i] = HA!load_hazard(hara.hazards[i])
      /\ Len(again.goals) = Len(hara.goals)
      /\ \A i \in 1..Len(hara.goals) : again.goals[i] = HA!load_goal(hara.goals[i])
      /\ again.situations = hara.situations
  BY <1>1, LoadKeeps
<1>5. /\ Len(hara.hazards) = Len(file.hazards) /\ Len(hara.goals) = Len(file.goals)
      /\ \A i \in 1..Len(file.hazards) : hara.hazards[i] = HA!load_hazard(file.hazards[i])
      /\ \A i \in 1..Len(file.goals) : hara.goals[i] = HA!load_goal(file.goals[i])
  BY LoadKeeps
<1> HIDE DEF hara, again
<1>6. /\ hara.hazards \in Seq(AHazard(Labels)) /\ hara.goals \in Seq(AGoal(Labels))
      /\ again.hazards \in Seq(AHazard(Labels)) /\ again.goals \in Seq(AGoal(Labels))
      /\ file.hazards \in Seq(AHazard(Labels)) /\ file.goals \in Seq(AGoal(Labels))
  BY <1>1 DEF AHara
<1>7. ASSUME NEW i \in 1..Len(hara.hazards) PROVE again.hazards[i] = hara.hazards[i]
  <2>1. again.hazards[i] = HA!load_hazard(hara.hazards[i])
    BY <1>4
  <2>2. i \in 1..Len(file.hazards) /\ file.hazards[i] \in AHazard(Labels)
    BY <1>5, <1>6
  <2>3. hara.hazards[i] = HA!load_hazard(file.hazards[i])
    BY <1>5, <2>2
  <2> QED BY <1>2, <2>1, <2>2, <2>3, Zenon
<1>8. ASSUME NEW i \in 1..Len(hara.goals) PROVE again.goals[i] = hara.goals[i]
  <2>1. again.goals[i] = HA!load_goal(hara.goals[i])
    BY <1>4
  <2>2. i \in 1..Len(file.goals) /\ file.goals[i] \in AGoal(Labels)
    BY <1>5, <1>6
  <2>3. hara.goals[i] = HA!load_goal(file.goals[i])
    BY <1>5, <2>2
  <2> QED BY <1>3, <2>1, <2>2, <2>3, Zenon
<1>9. again.hazards = hara.hazards
  <2>1. Alike(again.hazards, hara.hazards)
    BY <1>4, <1>7 DEF Alike
  <2> QED BY <1>6, <2>1, AlikeIsSame, Zenon
<1>10. again.goals = hara.goals
  <2>1. Alike(again.goals, hara.goals)
    BY <1>4, <1>8 DEF Alike
  <2> QED BY <1>6, <2>1, AlikeIsSame, Zenon
<1>11. again = hara
  <2>1. \A x \in AHara(Labels) : x = [is |-> "read", situations |-> x.situations,
                                    hazards |-> x.hazards, goals |-> x.goals]
    BY DEF AHara
  <2> QED BY <1>1, <1>4, <1>9, <1>10, <2>1, Zenon
<1> QED BY <1>11 DEF again, hara, HA!content_json

(* Saving a project's file changes nothing else of the project.            *)
Saved(p) == [p EXCEPT !.hara = HA!content_json(HA!load(p.hara))]

LEMMA SavedIs ==
    ASSUME NEW p, {"hara", "asil"} \subseteq DOMAIN p
    PROVE  Saved(p).hara = HA!load(p.hara) /\ Saved(p).asil = p.asil
BY DEF Saved, HA!content_json

(* Once saved, every hazard that is not rated is found ...                 *)
LEMMA UnratedIsFound ==
    ASSUME NEW Labels, HasDefaults(Labels), NEW p, {"hara", "asil"} \subseteq DOMAIN p,
           p.hara \in AHara(Labels)
    PROVE  HA!make_hara002(Saved(p)) = HA!Nothing <=>
               \A i \in DOMAIN p.hara.hazards : p.hara.hazards[i].risk /\ p.hara.hazards[i].rated
<1> DEFINE file == p.hara
           hara == HA!load(file)
           n == Len(file.hazards)
           all == HA!ToSet(hara.hazards)
           unrated == {h \in all : ~h.rated}
           unreadable == {h \in all : ~h.risk}
<1>1. file.is = "read" /\ file.hazards \in Seq(AHazard(Labels))
  BY DEF AHara
<1>2. /\ hara.hazards \in Seq(AHazard(Labels)) /\ Len(hara.hazards) = n /\ hara.is = "read"
      /\ \A i \in 1..n : hara.hazards[i] = HA!load_hazard(file.hazards[i])
  BY LoadKeeps DEF AHara
<1>3. HA!make_hara002(Saved(p)) = HA!Until(hara.hazards, unrated, unreadable)
  BY <1>2, SavedIs DEF HA!make_hara002
<1> HIDE DEF file
<1>4. n \in Nat /\ DOMAIN file.hazards = 1..n /\ file.hazards \in [1..n -> AHazard(Labels)]
  BY <1>1, SeqIsFunction, Zenon
<1> HIDE DEF hara, n
<1>5. DOMAIN hara.hazards = 1..n
  BY <1>2, SeqIsFunction, Zenon
<1>6. ASSUME NEW i \in 1..n
      PROVE  /\ hara.hazards[i] \in all /\ hara.hazards[i].risk
             /\ hara.hazards[i].rated <=> file.hazards[i].risk /\ file.hazards[i].rated
  <2>1. hara.hazards[i] = HA!load_hazard(file.hazards[i]) /\ file.hazards[i] \in AHazard(Labels)
    BY <1>2, <1>4
  <2>2. hara.hazards[i] \in all
    BY <1>5 DEF HA!ToSet
  <2> DEFINE h == file.hazards[i]
             g == hara.hazards[i]
  <2>3. g = [id |-> h.id, risk |-> TRUE, rated |-> h.risk /\ h.rated,
             asil |-> g.asil, goals |-> h.goals, situations |-> h.situations]
    BY <2>1, HazardIsLoaded, Zenon
  <2> HIDE DEF h, g
  <2>4. g.risk = TRUE /\ g.rated = (h.risk /\ h.rated)
    BY <2>3
  <2> QED BY <2>2, <2>4 DEF h, g
<1>7. \A i \in 1..n : hara.hazards[i] \notin unreadable
                      /\ (hara.hazards[i] \in unrated
                            <=> ~ (file.hazards[i].risk /\ file.hazards[i].rated))
  BY <1>6, Zenon
<1> HIDE DEF unrated, unreadable
<1>8. HA!Until(hara.hazards, unrated, unreadable) = HA!Nothing
        <=> \A i \in 1..n : hara.hazards[i] \notin unrated
  BY <1>2, <1>4, <1>7, LoopFinds
<1>9. DOMAIN p.hara.hazards = 1..n
  BY <1>4 DEF file
<1>10. (\A i \in 1..n : hara.hazards[i] \notin unrated)
        <=> \A i \in DOMAIN p.hara.hazards : p.hara.hazards[i].risk /\ p.hara.hazards[i].rated
  BY <1>7, <1>9, Zenon DEF file
<1> QED BY <1>3, <1>8, <1>10, Zenon

(* ... and so is every project below its worst hazard.                     *)
LEMMA SavedIsAllRisk ==
    ASSUME NEW Labels, HasDefaults(Labels), NEW p, {"hara", "asil"} \subseteq DOMAIN p,
           p.hara \in AHara(Labels)
    PROVE  HA!UnderAllocationIsFound(Saved(p))
<1> DEFINE q == Saved(p)
<1>1. q.hara \in AHara(Labels) /\ q.hara = HA!load(p.hara)
  BY SavedIs, LoadKeeps
<1>2. \A i \in DOMAIN q.hara.hazards : q.hara.hazards[i].risk
  <2>1. q.hara.hazards \in Seq(AHazard(Labels)) /\ p.hara.hazards \in Seq(AHazard(Labels))
    BY <1>1 DEF AHara
  <2>2. /\ DOMAIN q.hara.hazards = 1..Len(p.hara.hazards)
        /\ \A i \in 1..Len(p.hara.hazards) : q.hara.hazards[i] = HA!load_hazard(p.hara.hazards[i])
                                             /\ p.hara.hazards[i] \in AHazard(Labels)
    BY <1>1, <2>1, LoadKeeps
  <2>3. \A h \in AHazard(Labels) : HA!load_hazard(h).risk
    BY HazardIsLoaded
  <2> QED BY <2>2, <2>3
<1> HIDE DEF q
<1>3. HA!HighestHazardDecides(q)
  BY <1>1, HighestDecides
<1> QED BY <1>2, <1>3 DEF HA!HighestHazardDecides, HA!UnderAllocationIsFound, q

LEMMA RulesAgree ==
    ASSUME NEW Labels, HasDefaults(Labels), NEW p, {"hara", "asil"} \subseteq DOMAIN p,
           p.hara.is = "read" => p.hara \in AHara(Labels), NEW requirements
    PROVE  HA!RulesAgreeWithReport(p, requirements)
<1> SUFFICES ASSUME p.hara.is = "read" PROVE HA!RulesAgreeWithReport(p, requirements)
  BY DEF HA!RulesAgreeWithReport
<1>1. p.hara \in AHara(Labels)
  OBVIOUS
<1>2. LET c == HA!compute_completeness(HA!load(p.hara), requirements)
      IN HA!make_hara003(p) = HA!Nothing <=> c.hazards_with_safety_goal = c.total_hazards
  BY <1>1, GoalsAgree, Zenon
<1>3. HA!load(HA!content_json(HA!load(p.hara))) = HA!load(p.hara)
  BY <1>1, LoadIsStable
<1>4. HA!make_hara002(Saved(p)) = HA!Nothing <=>
               \A i \in DOMAIN p.hara.hazards : p.hara.hazards[i].risk /\ p.hara.hazards[i].rated
  BY <1>1, UnratedIsFound, Zenon
<1>5. HA!UnderAllocationIsFound(Saved(p))
  BY <1>1, SavedIsAllRisk
<1> QED BY <1>2, <1>3, <1>4, <1>5, Zenon DEF HA!RulesAgreeWithReport, Saved

-----------------------------------------------------------------------------
(* The engine's rules.                                                     *)

ProjectFields ==
    {"fusa", "coupling", "version", "standard", "asil", "sources", "changelog", "hara", "reqs",
     "evidence", "qualification"}

(* The one rule that looks at the sources sees those in scope alone.       *)
LEMMA OnlyScopeCounts ==
    ASSUME NEW p, ProjectFields \subseteq DOMAIN p
    PROVE  HA!StrayFilesDoNotCount(p)
<1> DEFINE scope == {f \in p.sources : f.scoped /\ ~f.excluded}
           q == [p EXCEPT !.sources = scope]
<1>1. q.sources = scope
  BY DEF ProjectFields
<1>2. \A x \in ProjectFields \ {"sources"} : q[x] = p[x]
  OBVIOUS
<1> HIDE DEF q
<1>3. /\ q.fusa = p.fusa /\ q.coupling = p.coupling /\ q.version = p.version
      /\ q.standard = p.standard /\ q.asil = p.asil /\ q.changelog = p.changelog
      /\ q.hara = p.hara /\ q.reqs = p.reqs /\ q.evidence = p.evidence
      /\ q.qualification = p.qualification
  BY <1>2 DEF ProjectFields
<1>4. HA!any_file(q) = HA!any_file(p)
  BY <1>1 DEF HA!any_file
<1>5. /\ HA!make_fusa001(q) = HA!make_fusa001(p) /\ HA!make_fusa002(q) = HA!make_fusa002(p)
      /\ HA!make_fusa003(q) = HA!make_fusa003(p) /\ HA!make_fusa004(q) = HA!make_fusa004(p)
      /\ HA!make_fusa005(q) = HA!make_fusa005(p) /\ HA!make_coup003(q) = HA!make_coup003(p)
  BY <1>3, <1>4, Zenon DEF HA!make_fusa001, HA!make_fusa002, HA!source_contains, HA!make_fusa003,
     HA!make_fusa004, HA!make_fusa005, HA!make_coup003
<1>6. /\ HA!make_hara005(q) = HA!make_hara005(p)
      /\ HA!make_iso26262002(q) = HA!make_iso26262002(p)
      /\ HA!make_iso26262003(q) = HA!make_iso26262003(p)
      /\ HA!make_hara002(q) = HA!make_hara002(p) /\ HA!make_hara003(q) = HA!make_hara003(p)
      /\ HA!make_hara004(q) = HA!make_hara004(p) /\ HA!make_verify002(q) = HA!make_verify002(p)
  BY <1>3, Zenon DEF HA!make_hara005, HA!make_iso26262002, HA!make_iso26262003,
     HA!make_hara002, HA!make_hara003, HA!make_hara004, HA!make_verify002
<1>7. \A id : HA!CheckOf(id, q) = HA!CheckOf(id, p)
  BY <1>5, <1>6, Zenon DEF HA!CheckOf
<1>8. \A r : HA!check(r, q) = HA!check(r, p)
  <2> SUFFICES ASSUME NEW r PROVE HA!check(r, q) = HA!check(r, p)
    OBVIOUS
  <2> DEFINE found(of) == CASE r.works = "right" -> HA!CheckOf(r.id, of)
                            [] r.works = "silent" -> HA!Nothing
                            [] r.works = "firing" -> HA!Found("INFO", "")
  <2>1. found(q) = found(p)
    BY <1>7
  <2>2. /\ HA!check(r, q) = [i \in DOMAIN found(q) |-> [rule |-> r.id,
                severity |-> found(q)[i].severity, about |-> found(q)[i].about]]
        /\ HA!check(r, p) = [i \in DOMAIN found(p) |-> [rule |-> r.id,
                severity |-> found(p)[i].severity, about |-> found(p)[i].about]]
    BY Zenon DEF HA!check
  <2> HIDE DEF found
  <2> QED BY <2>1, <2>2
<1>9. \A rules : HA!Aborts(rules, q) = HA!Aborts(rules, p)
  BY <1>3, Zenon DEF HA!Aborts
<1>10. \A rules : HA!run(rules, q) = HA!run(rules, p)
  BY <1>8, <1>9, Zenon DEF HA!run
<1> QED BY <1>10 DEF HA!StrayFilesDoNotCount, q

(* A run of rules whose identifiers differ has a finding of a rule just if *)
(* the rule finds something.                                               *)
Finds(id, works, p) ==
    CASE works = "right" -> HA!CheckOf(id, p) # HA!Nothing
      [] works = "silent" -> FALSE
      [] works = "firing" -> TRUE

Engine(rule, works) ==
    [i \in DOMAIN HA!make_default_engine |->
        IF HA!make_default_engine[i].id = rule THEN [id |-> rule, works |-> works]
        ELSE HA!make_default_engine[i]]

Built == {"FUSA001", "FUSA002", "FUSA003", "FUSA004", "FUSA005"}

LEMMA EngineIs ==
    ASSUME NEW rule, NEW works, NEW i \in 1..13
    PROVE  /\ DOMAIN HA!make_default_engine = 1..13 /\ DOMAIN Engine(rule, works) = 1..13
           /\ Engine(rule, works)[i].id = HA!make_default_engine[i].id
           /\ Engine(rule, works)[i].works
                = IF HA!make_default_engine[i].id = rule THEN works ELSE "right"
BY DEF Engine, HA!make_default_engine, HA!Works

Ids == {"FUSA001", "FUSA002", "FUSA003", "FUSA004", "FUSA005", "COUP003", "HARA005", "ISO26262002",
        "ISO26262003", "HARA002", "HARA003", "HARA004", "VERIFY002"}

IsOne(found) == found = HA!Nothing \/ \E severity, about : found = HA!Found(severity, about)

LEMMA RulesFindOne ==
    ASSUME NEW p
    PROVE  \A id \in Ids : IsOne(HA!CheckOf(id, p))
<1>1. \A items, toReport, unreadable : IsOne(HA!Until(items, toReport, unreadable))
  BY Zenon DEF HA!Until, IsOne
<1>2. IsOne(HA!Nothing) /\ \A s, a : IsOne(HA!Found(s, a))
  BY Zenon DEF IsOne
<1>3. /\ IsOne(HA!make_fusa001(p)) /\ IsOne(HA!make_fusa002(p)) /\ IsOne(HA!make_fusa003(p))
      /\ IsOne(HA!make_fusa004(p)) /\ IsOne(HA!make_fusa005(p)) /\ IsOne(HA!make_coup003(p))
  BY <1>2, Zenon DEF HA!make_fusa001, HA!make_fusa002, HA!make_fusa003, HA!make_fusa004,
     HA!make_fusa005, HA!make_coup003
<1>4. /\ IsOne(HA!make_hara005(p)) /\ IsOne(HA!make_iso26262002(p))
      /\ IsOne(HA!make_iso26262003(p)) /\ IsOne(HA!make_hara002(p))
      /\ IsOne(HA!make_hara003(p)) /\ IsOne(HA!make_hara004(p)) /\ IsOne(HA!make_verify002(p))
  BY <1>1, <1>2, Zenon DEF HA!make_hara005, HA!make_iso26262002, HA!make_iso26262003,
     HA!make_hara002, HA!make_hara003, HA!make_hara004, HA!make_verify002
<1>5. \A id \in Ids : HA!CheckOf(id, p) \in
         {HA!make_fusa001(p), HA!make_fusa002(p), HA!make_fusa003(p), HA!make_fusa004(p),
          HA!make_fusa005(p), HA!make_coup003(p), HA!make_hara005(p), HA!make_iso26262002(p),
          HA!make_iso26262003(p), HA!make_hara002(p), HA!make_hara003(p), HA!make_hara004(p),
          HA!make_verify002(p)}
  BY DEF HA!CheckOf, Ids
<1> QED BY <1>3, <1>4, <1>5

OneIfItFinds(found, rule, p) ==
    \/ found = <<>> /\ ~Finds(rule.id, rule.works, p)
    \/ \E x : found = <<x>> /\ x.rule = rule.id /\ Finds(rule.id, rule.works, p)

LEMMA ChecksFindOne ==
    ASSUME NEW rule, rule.works \in {"right", "silent", "firing"}, rule.id \in Ids, NEW p
    PROVE  OneIfItFinds(HA!check(rule, p), rule, p)
<1> DEFINE found == CASE rule.works = "right" -> HA!CheckOf(rule.id, p)
                      [] rule.works = "silent" -> HA!Nothing
                      [] rule.works = "firing" -> HA!Found("INFO", "")
<1>1. HA!check(rule, p) = [i \in DOMAIN found |-> [rule |-> rule.id,
            severity |-> found[i].severity, about |-> found[i].about]]
  BY Zenon DEF HA!check
<1>2. IsOne(found)
  BY RulesFindOne DEF IsOne
<1>3. Finds(rule.id, rule.works, p) <=> found # HA!Nothing
  BY DEF Finds, HA!Nothing, HA!Found
<1> HIDE DEF found
<1>4. CASE found = HA!Nothing
  BY <1>1, <1>3, <1>4 DEF HA!Nothing, OneIfItFinds
<1>5. ASSUME NEW severity, NEW about, found = HA!Found(severity, about)
      PROVE  \E x : HA!check(rule, p) = <<x>> /\ x.rule = rule.id /\ Finds(rule.id, rule.works, p)
  <2>1. found # HA!Nothing
    BY <1>5 DEF HA!Nothing, HA!Found
  <2>2. DOMAIN found = {1}
    BY <1>5 DEF HA!Found
  <2> DEFINE x == [rule |-> rule.id, severity |-> found[1].severity, about |-> found[1].about]
  <2>3. HA!check(rule, p) = <<x>>
    BY <1>1, <2>2
  <2>4. x.rule = rule.id
    OBVIOUS
  <2> QED BY <1>3, <2>1, <2>3, <2>4
<1> QED BY <1>2, <1>4, <1>5 DEF IsOne, OneIfItFinds

(* A run has a finding of a rule just if the rule finds something.         *)
Told(id, rule, works, p) ==
    LET findings == HA!run(Engine(rule, works), p) IN
    \E i \in DOMAIN findings : findings[i].rule = id

LEMMA RunFinds ==
    ASSUME NEW rule, NEW works \in {"right", "silent", "firing"}, NEW p, p.changelog # "directory",
           NEW id
    PROVE  Told(id, rule, works, p)
             <=> id \in Ids /\ Finds(id, IF id = rule THEN works ELSE "right", p)
<1> DEFINE rules == Engine(rule, works)
           seqs == [i \in 1..13 |-> HA!check(rules[i], p)]
           V == {seqs[i][1] : i \in 1..13}
<1>1. \A i \in 1..13 : /\ DOMAIN rules = 1..13
                        /\ rules[i].id = HA!make_default_engine[i].id /\ rules[i].id \in Ids
                        /\ rules[i].works = IF rules[i].id = rule THEN works ELSE "right"
  BY EngineIs DEF HA!make_default_engine, HA!Works, Ids
<1>2. \A x \in Ids : \E i \in 1..13 : HA!make_default_engine[i].id = x
  BY DEF HA!make_default_engine, HA!Works, Ids
<1> HIDE DEF rules
<1>3. HA!run(rules, p) = FlattenSeq(seqs)
  BY <1>1, SameFlat DEF HA!run, HA!Aborts
<1>4. \A i \in 1..13 :
         \/ seqs[i] = <<>> /\ ~Finds(rules[i].id, rules[i].works, p)
         \/ \E x : seqs[i] = <<x>> /\ x.rule = rules[i].id /\ Finds(rules[i].id, rules[i].works, p)
  <2> SUFFICES ASSUME NEW i \in 1..13 PROVE OneIfItFinds(seqs[i], rules[i], p)
    BY DEF OneIfItFinds
  <2>1. rules[i].works \in {"right", "silent", "firing"} /\ rules[i].id \in Ids
    BY <1>1
  <2>2. OneIfItFinds(HA!check(rules[i], p), rules[i], p)
    BY <2>1, ChecksFindOne
  <2> QED BY <2>2
<1>5. \A i \in 1..13 : seqs[i] = <<>> \/ seqs[i] = <<seqs[i][1]>>
  BY <1>4
<1>6. seqs \in [1..13 -> Seq(V)]
  <2>1. seqs = [i \in 1..13 |-> seqs[i]]
    OBVIOUS
  <2> HIDE DEF seqs
  <2>2. \A i \in 1..13 : seqs[i][1] \in V
    OBVIOUS
  <2> HIDE DEF V
  <2>3. ASSUME NEW i \in 1..13 PROVE seqs[i] \in Seq(V)
    <3>1. <<>> \in Seq(V) /\ \A v \in V : <<v>> \in Seq(V)
      OBVIOUS
    <3> QED BY <1>5, <2>2, <3>1, Zenon
  <2> QED BY <2>1, <2>3
<1> HIDE DEF seqs
<1>7. /\ FlattenSeq(seqs) \in Seq(V)
      /\ \A v : Among(v, FlattenSeq(seqs)) <=> \E k \in 1..13 : Among(v, seqs[k])
  BY <1>6, FlattenHas, 13 \in Nat, Zenon
<1> DEFINE findings == HA!run(rules, p)
<1>8. (\E i \in DOMAIN findings : findings[i].rule = id) <=> \E v : v.rule = id /\ Among(v, findings)
  BY <1>3, <1>7 DEF Among
<1>9. (\E v : v.rule = id /\ Among(v, findings))
        <=> \E k \in 1..13 : \E v : v.rule = id /\ Among(v, seqs[k])
  BY <1>3, <1>7, Zenon
<1>10. \A k \in 1..13 : (\E v : v.rule = id /\ Among(v, seqs[k]))
          <=> rules[k].id = id /\ Finds(rules[k].id, rules[k].works, p)
  <2> SUFFICES ASSUME NEW k \in 1..13
               PROVE  (\E v : v.rule = id /\ Among(v, seqs[k]))
                        <=> rules[k].id = id /\ Finds(rules[k].id, rules[k].works, p)
    OBVIOUS
  <2>1. CASE seqs[k] = <<>> /\ ~Finds(rules[k].id, rules[k].works, p)
    BY <2>1 DEF Among
  <2>2. ASSUME NEW x, seqs[k] = <<x>>, x.rule = rules[k].id, Finds(rules[k].id, rules[k].works, p)
        PROVE  (\E v : v.rule = id /\ Among(v, seqs[k]))
                        <=> rules[k].id = id /\ Finds(rules[k].id, rules[k].works, p)
    <3>1. \A v : Among(v, seqs[k]) <=> v = x
      BY <2>2 DEF Among
    <3> QED BY <2>2, <3>1
  <2> QED BY <1>4, <2>1, <2>2
<1>11. (\E k \in 1..13 : rules[k].id = id /\ Finds(rules[k].id, rules[k].works, p))
         <=> id \in Ids /\ Finds(id, IF id = rule THEN works ELSE "right", p)
  BY <1>1, <1>2
<1>12. Told(id, rule, works, p) <=> \E i \in DOMAIN findings : findings[i].rule = id
  BY Zenon DEF Told, rules
<1> HIDE DEF findings
<1> QED BY <1>8, <1>9, <1>10, <1>11, <1>12

(* On the project of a case a rule fires as the case says.                 *)
FiresOn(id, c) ==
    CASE id = "FUSA001" -> ~c.fusa [] id = "FUSA002" -> ~c.tagged [] id = "FUSA003" -> TRUE
      [] id = "FUSA004" -> TRUE [] id = "FUSA005" -> c.changelog # "long"

LEMMA FiresAsTheCaseSays ==
    ASSUME NEW c, c.fusa \in BOOLEAN, c.tagged \in BOOLEAN, NEW id \in Built
    PROVE  (HA!CheckOf(id, HA!ProjectOf(c)) # HA!Nothing) <=> FiresOn(id, c)
<1> DEFINE p == HA!ProjectOf(c)
           f == [cpp |-> TRUE, scoped |-> TRUE, excluded |-> FALSE, tagged |-> c.tagged]
<1>1. /\ p.fusa = c.fusa /\ p.changelog = c.changelog /\ p.version = "0.0.0"
      /\ p.evidence = HA!MissingFile /\ p.sources = {f}
  BY DEF HA!ProjectOf
<1>2. f.cpp = TRUE /\ f.scoped = TRUE /\ f.excluded = FALSE /\ f.tagged = c.tagged
  OBVIOUS
<1> HIDE DEF p, f
<1>3. HA!source_contains(p) <=> c.tagged
  BY <1>1, <1>2, Zenon DEF HA!source_contains, HA!any_file
<1>4. \A s, a : HA!Found(s, a) # HA!Nothing
  BY DEF HA!Found, HA!Nothing
<1>5. HA!make_fusa001(p) # HA!Nothing <=> ~c.fusa
  BY <1>1, <1>4, Zenon DEF HA!make_fusa001
<1>6. HA!make_fusa002(p) # HA!Nothing <=> ~c.tagged
  BY <1>3, <1>4, Zenon DEF HA!make_fusa002
<1>7. HA!make_fusa003(p) # HA!Nothing
  BY <1>1, <1>4 DEF HA!make_fusa003
<1>8. HA!make_fusa004(p) # HA!Nothing
  BY <1>1, <1>4 DEF HA!make_fusa004, HA!MissingFile
<1>9. HA!make_fusa005(p) # HA!Nothing <=> c.changelog # "long"
  BY <1>1, <1>4, Zenon DEF HA!make_fusa005
<1>10. HA!CheckOf(id, p) = CASE id = "FUSA001" -> HA!make_fusa001(p) [] id = "FUSA002" -> HA!make_fusa002(p)
          [] id = "FUSA003" -> HA!make_fusa003(p) [] id = "FUSA004" -> HA!make_fusa004(p)
          [] id = "FUSA005" -> HA!make_fusa005(p)
  BY DEF HA!CheckOf, Built
<1>11. CASE id = "FUSA001"
  BY <1>5, <1>10, <1>11 DEF FiresOn, p
<1>12. CASE id = "FUSA002"
  BY <1>6, <1>10, <1>12 DEF FiresOn, p
<1>13. CASE id = "FUSA003"
  BY <1>7, <1>10, <1>13 DEF FiresOn, p
<1>14. CASE id = "FUSA004"
  BY <1>8, <1>10, <1>14 DEF FiresOn, p
<1>15. CASE id = "FUSA005"
  BY <1>9, <1>10, <1>15 DEF FiresOn, p
<1> QED BY <1>11, <1>12, <1>13, <1>14, <1>15 DEF Built

CaseIs(c, rule, expect, fusa, tagged, changelog) ==
    /\ c.rule = rule /\ c.expect_finding = expect /\ c.fusa = fusa /\ c.tagged = tagged
    /\ c.changelog = changelog

LEMMA CaseIsMade ==
    \A r, e, f, t, l : CaseIs(HA!Case(r, e, f, t, l), r, e, f, t, l)
BY DEF CaseIs, HA!Case

(* The suite: a case for each of the five that fires, and for three of     *)
(* them one that does not.                                                 *)
LEMMA CasesAre ==
    /\ Len(HA!builtin_cases) = 8 /\ DOMAIN HA!builtin_cases = 1..8
    /\ \A i \in 1..8 :
          LET c == HA!builtin_cases[i] IN
          /\ c.rule \in Built /\ c.changelog # "directory" /\ c.expect_finding \in BOOLEAN
          /\ c.fusa \in BOOLEAN /\ c.tagged \in BOOLEAN
          /\ c.expect_finding <=> FiresOn(c.rule, c)
    /\ \A id \in Built : \E i \in 1..8 :
          HA!builtin_cases[i].rule = id /\ HA!builtin_cases[i].expect_finding
    /\ \A id : id \in {"FUSA001", "FUSA002", "FUSA005"} <=>
          \E i \in 1..8 : HA!builtin_cases[i].rule = id /\ ~HA!builtin_cases[i].expect_finding
<1> DEFINE cs == HA!builtin_cases
<1>1. Len(cs) = 8 /\ DOMAIN cs = 1..8
  BY DEF HA!builtin_cases
<1>2. /\ cs[1] = HA!Case("FUSA001", TRUE, FALSE, FALSE, "missing")
      /\ cs[2] = HA!Case("FUSA001", FALSE, TRUE, TRUE, "missing")
      /\ cs[3] = HA!Case("FUSA002", TRUE, TRUE, FALSE, "missing")
      /\ cs[4] = HA!Case("FUSA002", FALSE, TRUE, TRUE, "missing")
      /\ cs[5] = HA!Case("FUSA003", TRUE, FALSE, TRUE, "missing")
      /\ cs[6] = HA!Case("FUSA004", TRUE, FALSE, TRUE, "missing")
      /\ cs[7] = HA!Case("FUSA005", TRUE, FALSE, TRUE, "missing")
      /\ cs[8] = HA!Case("FUSA005", FALSE, FALSE, TRUE, "long")
  BY DEF HA!builtin_cases
<1> HIDE DEF cs
<1>4. /\ CaseIs(cs[1], "FUSA001", TRUE, FALSE, FALSE, "missing")
      /\ CaseIs(cs[2], "FUSA001", FALSE, TRUE, TRUE, "missing")
      /\ CaseIs(cs[3], "FUSA002", TRUE, TRUE, FALSE, "missing")
      /\ CaseIs(cs[4], "FUSA002", FALSE, TRUE, TRUE, "missing")
  BY <1>2, CaseIsMade
<1>5. /\ CaseIs(cs[5], "FUSA003", TRUE, FALSE, TRUE, "missing")
      /\ CaseIs(cs[6], "FUSA004", TRUE, FALSE, TRUE, "missing")
      /\ CaseIs(cs[7], "FUSA005", TRUE, FALSE, TRUE, "missing")
      /\ CaseIs(cs[8], "FUSA005", FALSE, FALSE, TRUE, "long")
  BY <1>2, CaseIsMade
<1>6. \A i \in 1..8 : i \in {1, 2, 3, 4, 5, 6, 7, 8}
  OBVIOUS
<1> DEFINE Good(c) ==
          /\ c.rule \in Built /\ c.changelog # "directory" /\ c.expect_finding \in BOOLEAN
          /\ c.fusa \in BOOLEAN /\ c.tagged \in BOOLEAN
          /\ c.expect_finding <=> FiresOn(c.rule, c)
<1>7. Good(cs[1]) /\ Good(cs[2]) /\ Good(cs[3]) /\ Good(cs[4])
  BY <1>4 DEF FiresOn, Built, CaseIs
<1>8. Good(cs[5]) /\ Good(cs[6]) /\ Good(cs[7]) /\ Good(cs[8])
  BY <1>5 DEF FiresOn, Built, CaseIs
<1> HIDE DEF Good
<1>9. \A i \in 1..8 : Good(cs[i])
  BY <1>6, <1>7, <1>8
<1>10. \A id \in Built : \E i \in 1..8 : cs[i].rule = id /\ cs[i].expect_finding
  BY <1>4, <1>5 DEF Built, CaseIs
<1>11. ASSUME NEW id
       PROVE  id \in {"FUSA001", "FUSA002", "FUSA005"} <=>
                \E i \in 1..8 : cs[i].rule = id /\ ~cs[i].expect_finding
  BY <1>4, <1>5, <1>6 DEF CaseIs
<1> QED BY <1>1, <1>9, <1>10, <1>11 DEF cs, Good

(* A case fails of a silenced rule if it expects a finding, and of a rule   *)
(* that always fires if it expects none.                                   *)
LEMMA CaseFails ==
    ASSUME NEW rule, NEW works \in {"right", "silent", "firing"}, NEW i \in 1..8
    PROVE  LET c == HA!builtin_cases[i] IN
           HA!run_case(c, Engine(rule, works)).passed
             <=> ~ (c.rule = rule /\ (IF c.expect_finding THEN works = "silent" ELSE works = "firing"))
<1> DEFINE c == HA!builtin_cases[i]
           p == HA!ProjectOf(c)
           found == Told(c.rule, rule, works, p)
           as == IF c.rule = rule THEN works ELSE "right"
<1>1. /\ c.rule \in Built /\ c.changelog # "directory" /\ c.expect_finding \in BOOLEAN
      /\ c.fusa \in BOOLEAN /\ c.tagged \in BOOLEAN
      /\ c.expect_finding <=> FiresOn(c.rule, c)
  BY CasesAre
<1>2. p.changelog # "directory"
  BY <1>1 DEF HA!ProjectOf
<1>3. HA!run_case(c, Engine(rule, works)).passed <=> (found = c.expect_finding)
  BY DEF HA!run_case, Told
<1> HIDE DEF c
<1>4. found <=> c.rule \in Ids /\ Finds(c.rule, as, p)
  <2> HIDE DEF p
  <2> QED BY <1>2, RunFinds, Zenon
<1>5. c.rule \in Ids
  BY <1>1 DEF Built, Ids
<1>6. (HA!CheckOf(c.rule, p) # HA!Nothing) <=> c.expect_finding
  BY <1>1, FiresAsTheCaseSays
<1> HIDE DEF found, p
<1>7. as \in {"right", "silent", "firing"}
  OBVIOUS
<1>8. found <=> CASE as = "right" -> c.expect_finding [] as = "silent" -> FALSE [] as = "firing" -> TRUE
  BY <1>4, <1>5, <1>6, <1>7 DEF Finds
<1>9. found \in BOOLEAN
  BY Zenon DEF found, Told
<1> QED BY <1>1, <1>3, <1>7, <1>8, <1>9 DEF c

Fails(rule, works) == HA!QualifyRun(HA!builtin_cases, Engine(rule, works)).failed > 0

LEMMA SuiteFails ==
    ASSUME NEW rule, NEW works \in {"right", "silent", "firing"}
    PROVE  Fails(rule, works) <=>
              \E i \in 1..8 : ~HA!run_case(HA!builtin_cases[i], Engine(rule, works)).passed
<1> DEFINE cs == HA!builtin_cases
           results == [i \in DOMAIN cs |-> HA!run_case(cs[i], Engine(rule, works))]
           failed == {i \in DOMAIN results : ~results[i].passed}
<1>1. DOMAIN cs = 1..8
  BY CasesAre
<1>2. HA!QualifyRun(cs, Engine(rule, works)).failed = HA!Cardinality(failed)
  BY DEF HA!QualifyRun
<1> HIDE DEF cs
<1>3. failed = {i \in 1..8 : ~HA!run_case(cs[i], Engine(rule, works)).passed}
  BY <1>1
<1> HIDE DEF failed
<1>4. failed \in SUBSET (1..8)
  BY <1>3
<1>5. IsFiniteSet(1..8)
  <2>1. 1 \in Int /\ 8 \in Int
    OBVIOUS
  <2> QED BY <2>1, FS_Interval
<1>6. IsFiniteSet(failed) /\ Cardinality(failed) \in Nat /\ (Cardinality(failed) = 0 <=> failed = {})
  BY <1>4, <1>5, FS_Subset, FS_CardinalityType, FS_EmptySet
<1>7. HA!QualifyRun(cs, Engine(rule, works)).failed > 0 <=> failed # {}
  BY <1>2, <1>6, SameCount
<1> QED BY <1>3, <1>7 DEF Fails, cs

(* What the suite notices, of any rule.                                    *)
LEMMA WhatTheSuiteNotices ==
    ASSUME NEW rule
    PROVE  HA!SuiteNotices(rule)
<1> DEFINE cs == HA!builtin_cases
           hits(works) == \E i \in 1..8 : cs[i].rule = rule
                             /\ IF cs[i].expect_finding THEN works = "silent" ELSE works = "firing"
<1>1. ASSUME NEW works \in {"right", "silent", "firing"}
      PROVE  Fails(rule, works) <=> hits(works)
  BY CaseFails, SuiteFails
<1>2. \A i \in 1..8 : cs[i].rule \in Built /\ cs[i].expect_finding \in BOOLEAN
  BY CasesAre
<1>3. \A id \in Built : \E i \in 1..8 : cs[i].rule = id /\ cs[i].expect_finding
  BY CasesAre
<1>4. rule \in {"FUSA001", "FUSA002", "FUSA005"} <=>
          \E i \in 1..8 : cs[i].rule = rule /\ ~cs[i].expect_finding
  BY CasesAre, Zenon
<1> HIDE DEF cs
<1>5. ~hits("right") /\ (hits("silent") <=> rule \in Built)
      /\ (hits("firing") <=> rule \in {"FUSA001", "FUSA002", "FUSA005"})
  BY <1>2, <1>3, <1>4
<1> HIDE DEF hits
<1>6. ASSUME NEW report
      PROVE  HA!make_iso26262003([qualification |-> HA!to_json(report)]) # HA!Nothing
               <=> report.failed > 0
  BY DEF HA!make_iso26262003, HA!to_json, HA!Found, HA!Nothing
<1>7. ~Fails(rule, "right") /\ (Fails(rule, "silent") <=> rule \in Built)
      /\ (Fails(rule, "firing") <=> rule \in {"FUSA001", "FUSA002", "FUSA005"})
  BY <1>1, <1>5
<1>8. \A works \in {"right", "silent", "firing"} : Fails(rule, works) <=>
         HA!make_iso26262003([qualification |->
              HA!to_json(HA!QualifyRun(HA!builtin_cases, Engine(rule, works)))]) # HA!Nothing
  BY <1>6, Zenon DEF Fails
<1> QED BY <1>7, <1>8, Zenon DEF HA!SuiteNotices, Fails, Engine, Built

-----------------------------------------------------------------------------
(* The hash of a qualification report.                                     *)

Results == [name : Int, passed : BOOLEAN]

Earlier(results, i) ==
    {j \in DOMAIN results : results[j].name < results[i].name
                            \/ (results[j].name = results[i].name /\ j <= i)}

LEMMA EarlierGrows ==
    ASSUME NEW n \in Nat, NEW results \in [1..n -> Results]
    PROVE  \A i \in 1..n :
              /\ i \in Earlier(results, i)
              /\ \A j \in 1..n : j \in Earlier(results, i) =>
                     Earlier(results, j) \subseteq Earlier(results, i)
              /\ \A j \in 1..n : j \in Earlier(results, i) \/ i \in Earlier(results, j)
              /\ \A j \in 1..n : j \in Earlier(results, i) /\ i \in Earlier(results, j) => i = j
<1>1. \A i \in 1..n : results[i].name \in Int
  BY DEF Results
<1>2. \A i, j \in 1..n : j \in Earlier(results, i) <=>
          results[j].name < results[i].name \/ (results[j].name = results[i].name /\ j <= i)
  BY DEF Earlier
<1>3. \A i \in 1..n : Earlier(results, i) \subseteq 1..n
  BY DEF Earlier
<1>4. ASSUME NEW i \in 1..n, NEW j \in 1..n, NEW k \in 1..n,
             j \in Earlier(results, i), k \in Earlier(results, j)
      PROVE  k \in Earlier(results, i)
  BY <1>1, <1>2, <1>4
<1> QED BY <1>1, <1>2, <1>3, <1>4

(* Every result has a place of its own, and every place has a result.      *)
LEMMA PlacesAreTaken ==
    ASSUME NEW n \in Nat, NEW results \in [1..n -> Results]
    PROVE  /\ \A i \in 1..n : HA!Place(results, i) \in 1..n
           /\ \A i, j \in 1..n : HA!Place(results, i) = HA!Place(results, j) => i = j
           /\ \A k \in 1..n : \E i \in 1..n : HA!Place(results, i) = k
<1> DEFINE place == [i \in 1..n |-> HA!Place(results, i)]
<1>1. \A i : HA!Place(results, i) = Cardinality(Earlier(results, i))
  BY SameCount DEF HA!Place, Earlier
<1>2. IsFiniteSet(1..n) /\ Cardinality(1..n) = n
  BY FS_Interval
<1>3. \A i \in 1..n : Earlier(results, i) \in SUBSET (1..n)
  BY DEF Earlier
<1>4. \A i \in 1..n : IsFiniteSet(Earlier(results, i)) /\ Cardinality(Earlier(results, i)) \in Nat
                      /\ Cardinality(Earlier(results, i)) <= n
  BY <1>2, <1>3, FS_Subset, FS_CardinalityType
<1>5. \A i \in 1..n : Cardinality(Earlier(results, i)) # 0
  BY <1>4, EarlierGrows, FS_EmptySet
<1>6. \A i \in 1..n : HA!Place(results, i) \in 1..n
  BY <1>1, <1>4, <1>5
<1>7. ASSUME NEW i \in 1..n, NEW j \in 1..n, HA!Place(results, i) = HA!Place(results, j),
             j \in Earlier(results, i)
      PROVE  i = j
  <2>1. Earlier(results, j) \in SUBSET Earlier(results, i)
    BY <1>7, EarlierGrows
  <2>2. Earlier(results, j) = Earlier(results, i)
    BY <1>1, <1>4, <1>7, <2>1, FS_Subset
  <2> QED BY <1>7, <2>2, EarlierGrows
<1>8. \A i, j \in 1..n : HA!Place(results, i) = HA!Place(results, j) => i = j
  BY <1>7, EarlierGrows
<1>9. place \in Injection(1..n, 1..n)
  BY <1>6, <1>8 DEF Injection, IsInjective
<1> HIDE DEF place
<1>10. place \in Surjection(1..n, 1..n)
  BY <1>2, <1>9, FS_Injection
<1>11. \A k \in 1..n : \E i \in 1..n : place[i] = k
  BY <1>10 DEF Surjection
<1> QED BY <1>6, <1>8, <1>11 DEF place

(* When no two results have one name, the place is told by the names.      *)
Distinct(rs) == \A i, j \in DOMAIN rs : rs[i].name = rs[j].name => i = j
Rank(all, r) == Cardinality({x \in all : x.name <= r.name})

LEMMA PlaceIsOfTheName ==
    ASSUME NEW n \in Nat, NEW results \in [1..n -> Results], Distinct(results), NEW i \in 1..n
    PROVE  HA!Place(results, i) = Rank(HA!ToSet(results), results[i])
<1> DEFINE upto == {x \in HA!ToSet(results) : x.name <= results[i].name}
           to == [j \in Earlier(results, i) |-> results[j]]
<1>1. HA!Place(results, i) = Cardinality(Earlier(results, i))
  BY SameCount DEF HA!Place, Earlier
<1>2. \A j \in 1..n : results[j].name \in Int
  BY DEF Results
<1>3. \A j \in Earlier(results, i) : j \in 1..n /\ results[j] \in upto
  BY <1>2 DEF Earlier, HA!ToSet
<1>4. \A x \in upto : \E j \in Earlier(results, i) : results[j] = x
  <2> SUFFICES ASSUME NEW x \in upto PROVE \E j \in Earlier(results, i) : results[j] = x
    OBVIOUS
  <2>1. PICK j \in 1..n : results[j] = x
    BY DEF HA!ToSet
  <2>2. results[j].name < results[i].name \/ results[j].name = results[i].name
    BY <1>2, <2>1
  <2>3. results[j].name = results[i].name => j = i
    BY DEF Distinct
  <2>4. j \in Earlier(results, i)
    BY <2>2, <2>3 DEF Earlier
  <2> QED BY <2>1, <2>4
<1>5. \A j, k \in Earlier(results, i) : results[j] = results[k] => j = k
  BY <1>3 DEF Distinct
<1> HIDE DEF upto
<1>6. to \in Bijection(Earlier(results, i), upto)
  <2>1. to \in [Earlier(results, i) -> upto]
    BY <1>3
  <2>2. \A j \in Earlier(results, i) : to[j] = results[j]
    OBVIOUS
  <2> HIDE DEF to
  <2> QED BY <1>4, <1>5, <2>1, <2>2 DEF Bijection, Injection, IsInjective, Surjection
<1>7. IsFiniteSet(Earlier(results, i))
  <2>1. IsFiniteSet(1..n) /\ Earlier(results, i) \in SUBSET (1..n)
    BY FS_Interval DEF Earlier
  <2> QED BY <2>1, FS_Subset
<1>8. Cardinality(upto) = Cardinality(Earlier(results, i))
  <2>1. ExistsBijection(Earlier(results, i), upto)
    BY <1>6 DEF ExistsBijection
  <2> QED BY <1>7, <2>1, FS_Bijection
<1> QED BY <1>1, <1>8 DEF upto, Rank

LEMMA AsManyAsThereAre ==
    ASSUME NEW n \in Nat, NEW results \in [1..n -> Results], Distinct(results)
    PROVE  Cardinality(HA!ToSet(results)) = n
<1>1. results \in Bijection(1..n, HA!ToSet(results))
  BY DEF HA!ToSet, Bijection, Injection, IsInjective, Surjection, Distinct
<1>2. ExistsBijection(1..n, HA!ToSet(results))
  BY <1>1 DEF ExistsBijection
<1>3. IsFiniteSet(1..n) /\ Cardinality(1..n) = n
  BY FS_Interval
<1> QED BY <1>2, <1>3, FS_Bijection

LEMMA HashOf ==
    ASSUME NEW n \in Nat, NEW results \in [1..n -> Results]
    PROVE  /\ DOMAIN HA!compute_hash(results) = 1..n
           /\ \A i \in 1..n : HA!compute_hash(results)[HA!Place(results, i)]
                                  = <<results[i].name, HA!result_enum(results[i])>>
<1>1. DOMAIN HA!compute_hash(results) = 1..n
  BY DEF HA!compute_hash
<1>2. ASSUME NEW i \in 1..n
      PROVE  HA!compute_hash(results)[HA!Place(results, i)]
                 = <<results[i].name, HA!result_enum(results[i])>>
  <2> DEFINE k == HA!Place(results, i)
  <2>1. k \in 1..n
    BY PlacesAreTaken
  <2>2. (CHOOSE j \in 1..n : HA!Place(results, j) = k) = i
    BY PlacesAreTaken
  <2> HIDE DEF k
  <2>3. HA!compute_hash(results)[k] = LET r == results[CHOOSE j \in 1..n : HA!Place(results, j) = k]
                                      IN  <<r.name, HA!result_enum(r)>>
    BY <2>1 DEF HA!compute_hash
  <2> QED BY <2>2, <2>3 DEF k
<1> QED BY <1>1, <1>2

LEMMA HashIsAFunction ==
    ASSUME NEW n \in Nat, NEW results \in [1..n -> Results]
    PROVE  HA!compute_hash(results) = [k \in 1..n |-> HA!compute_hash(results)[k]]
<1> DEFINE entry(k) == LET r == results[CHOOSE i \in DOMAIN results : HA!Place(results, i) = k]
                       IN  <<r.name, HA!result_enum(r)>>
           hash == [k \in 1..n |-> entry(k)]
<1>1. HA!compute_hash(results) = hash
  BY DEF HA!compute_hash
<1> HIDE DEF entry
<1>2. hash = [k \in 1..n |-> hash[k]]
  OBVIOUS
<1> HIDE DEF hash
<1> QED BY <1>1, <1>2

LEMMA ToldByTheName ==
    ASSUME NEW r \in Results, NEW s \in Results,
           <<r.name, HA!result_enum(r)>> = <<s.name, HA!result_enum(s)>>
    PROVE  r = s
<1>1. r.name = s.name /\ HA!result_enum(r) = HA!result_enum(s)
  OBVIOUS
<1>2. r.passed = s.passed
  BY <1>1 DEF HA!result_enum, Results
<1> QED BY <1>1, <1>2 DEF Results

LEMMA HashTells ==
    ASSUME NEW n \in Nat, NEW left \in [1..n -> Results],
           NEW m \in Nat, NEW right \in [1..m -> Results],
           HA!compute_hash(left) = HA!compute_hash(right)
    PROVE  HA!ToSet(left) \subseteq HA!ToSet(right)
<1> SUFFICES ASSUME NEW i \in 1..n PROVE \E j \in 1..m : right[j] = left[i]
  BY DEF HA!ToSet
<1> DEFINE k == HA!Place(left, i)
<1>1. k \in 1..n /\ HA!compute_hash(left)[k] = <<left[i].name, HA!result_enum(left[i])>>
  BY PlacesAreTaken, HashOf
<1> HIDE DEF k
<1>2. k \in 1..m
  BY <1>1, HashOf
<1>3. PICK j \in 1..m : HA!Place(right, j) = k
  <2>1. \A p \in 1..m : \E j \in 1..m : HA!Place(right, j) = p
    BY PlacesAreTaken
  <2> QED BY <1>2, <2>1, Zenon
<1>4. HA!compute_hash(right)[k] = <<right[j].name, HA!result_enum(right[j])>>
  BY <1>3, HashOf
<1>5. right[j] = left[i]
  <2>1. <<right[j].name, HA!result_enum(right[j])>> = <<left[i].name, HA!result_enum(left[i])>>
    BY <1>1, <1>4
  <2> QED BY <2>1, ToldByTheName
<1> QED BY <1>5

LEMMA HashOfTheSame ==
    ASSUME NEW n \in Nat, NEW left \in [1..n -> Results], Distinct(left),
           NEW m \in Nat, NEW right \in [1..m -> Results], Distinct(right),
           HA!ToSet(left) = HA!ToSet(right)
    PROVE  HA!compute_hash(left) = HA!compute_hash(right)
<1>1. n = m
  BY AsManyAsThereAre
<1>2. ASSUME NEW k \in 1..n PROVE HA!compute_hash(left)[k] = HA!compute_hash(right)[k]
  <2>1. PICK i \in 1..n : HA!Place(left, i) = k
    BY PlacesAreTaken
  <2>2. PICK j \in 1..m : right[j] = left[i]
    BY DEF HA!ToSet
  <2>3. HA!Place(right, j) = k
    BY <2>1, <2>2, PlaceIsOfTheName
  <2>4. HA!compute_hash(left)[k] = <<left[i].name, HA!result_enum(left[i])>>
    BY <2>1, HashOf, Zenon
  <2>5. HA!compute_hash(right)[k] = <<right[j].name, HA!result_enum(right[j])>>
    BY <2>3, HashOf, Zenon
  <2> QED BY <2>2, <2>4, <2>5
<1> DEFINE a == HA!compute_hash(left)
           b == HA!compute_hash(right)
<1>3. a = [k \in 1..n |-> a[k]] /\ b = [k \in 1..n |-> b[k]]
  BY <1>1, HashIsAFunction
<1>4. \A k \in 1..n : a[k] = b[k]
  BY <1>2
<1> HIDE DEF a, b
<1>5. a = b
  BY <1>3, <1>4
<1> QED BY <1>5 DEF a, b

(* The hash tells outcomes apart, and not orders.                          *)
LEMMA HashIsOfTheOutcome ==
    ASSUME NEW left \in Seq(Results), NEW right \in Seq(Results)
    PROVE  HA!HashIsTheOutcome(left, right)
<1> DEFINE n == Len(left)  m == Len(right)
<1>1. n \in Nat /\ left \in [1..n -> Results] /\ m \in Nat /\ right \in [1..m -> Results]
  OBVIOUS
<1> HIDE DEF n, m
<1>2. HA!compute_hash(left) = HA!compute_hash(right)
        => HA!ToSet(left) = HA!ToSet(right)
  <2> SUFFICES ASSUME HA!compute_hash(left) = HA!compute_hash(right)
               PROVE  HA!ToSet(left) = HA!ToSet(right)
    OBVIOUS
  <2>1. HA!ToSet(left) \subseteq HA!ToSet(right)
    BY <1>1, HashTells, Zenon
  <2>2. HA!compute_hash(right) = HA!compute_hash(left)
    OBVIOUS
  <2>3. HA!ToSet(right) \subseteq HA!ToSet(left)
    BY <1>1, <2>2, HashTells, Zenon
  <2> QED BY <2>1, <2>3
<1>3. Distinct(left) /\ Distinct(right) /\ HA!ToSet(left) = HA!ToSet(right)
        => HA!compute_hash(left) = HA!compute_hash(right)
  BY <1>1, HashOfTheSame
<1> QED BY <1>2, <1>3 DEF HA!HashIsTheOutcome, Distinct

-----------------------------------------------------------------------------
(* The configuration.                                                      *)

ConfigFields ==
    {"project", "version", "standard", "asil", "language", "source_dirs", "exclude_patterns",
     "strict"}

\* The value of the first key there is, of two and of three.
LEMMA FirstOfTwo ==
    ASSUME NEW doc, NEW a, NEW b, NEW default
    PROVE  FI!First(doc, <<a, b>>, default)
             = IF a \in DOMAIN doc THEN doc[a] ELSE IF b \in DOMAIN doc THEN doc[b] ELSE default
<1> DEFINE keys == <<a, b>>
           hits == {i \in 1..Len(keys) : keys[i] \in DOMAIN doc}
           i == IF hits # {} THEN FI!Min(hits) ELSE 0
<1>0. FI!First(doc, <<a, b>>, default) = FI!First(doc, keys, default)
  OBVIOUS
<1>1. FI!First(doc, keys, default) = IF i = 0 THEN default ELSE doc[keys[i]]
  BY DEF FI!First, FI!SelectInSeq
<1>2. Len(keys) = 2 /\ keys[1] = a /\ keys[2] = b /\ (\A k : k \in 1..2 <=> k = 1 \/ k = 2)
  OBVIOUS
<1>3. hits \in SUBSET (1..2) /\ (1 \in hits <=> a \in DOMAIN doc) /\ (2 \in hits <=> b \in DOMAIN doc)
  BY <1>2
<1> HIDE DEF keys, hits
<1>4. /\ hits # {} => i \in hits /\ \A k \in hits : i <= k
      /\ hits = {} => i = 0
      /\ \A k \in hits : k = 1 \/ k = 2
  BY <1>2, <1>3, FirstPlace, SameInFindings
<1> HIDE DEF i
<1>5. CASE a \in DOMAIN doc
  <2>1. i = 1
    <3>1. 1 \in hits
      BY <1>3, <1>5
    <3>2. i \in hits /\ i <= 1
      BY <1>4, <3>1
    <3>3. i = 1 \/ i = 2
      BY <1>4, <3>2
    <3> QED BY <3>2, <3>3
  <2> QED BY <1>0, <1>1, <1>2, <1>5, <2>1
<1>6. CASE a \notin DOMAIN doc /\ b \in DOMAIN doc
  <2>1. i = 2
    <3>1. 2 \in hits
      BY <1>3, <1>6
    <3>2. i \in hits /\ i <= 2
      BY <1>4, <3>1
    <3>3. i = 1 \/ i = 2
      BY <1>4, <3>2
    <3>4. 1 \notin hits
      BY <1>3, <1>6
    <3> QED BY <3>2, <3>3, <3>4
  <2> QED BY <1>0, <1>1, <1>2, <1>6, <2>1
<1>7. CASE a \notin DOMAIN doc /\ b \notin DOMAIN doc
  <2>1. i = 0
    BY <1>3, <1>4, <1>7
  <2> QED BY <1>0, <1>1, <1>7, <2>1
<1> QED BY <1>5, <1>6, <1>7

LEMMA FirstOfThree ==
    ASSUME NEW doc, NEW a, NEW b, NEW c, NEW default
    PROVE  FI!First(doc, <<a, b, c>>, default)
             = IF a \in DOMAIN doc THEN doc[a] ELSE IF b \in DOMAIN doc THEN doc[b]
               ELSE IF c \in DOMAIN doc THEN doc[c] ELSE default
<1> DEFINE keys == <<a, b, c>>
           hits == {i \in 1..Len(keys) : keys[i] \in DOMAIN doc}
           i == IF hits # {} THEN FI!Min(hits) ELSE 0
<1>0. FI!First(doc, <<a, b, c>>, default) = FI!First(doc, keys, default)
  OBVIOUS
<1>1. FI!First(doc, keys, default) = IF i = 0 THEN default ELSE doc[keys[i]]
  BY DEF FI!First, FI!SelectInSeq
<1>2. /\ Len(keys) = 3 /\ keys[1] = a /\ keys[2] = b /\ keys[3] = c
      /\ \A k : k \in 1..3 <=> k = 1 \/ k = 2 \/ k = 3
  OBVIOUS
<1>3. /\ hits \in SUBSET (1..3) /\ (1 \in hits <=> a \in DOMAIN doc)
      /\ (2 \in hits <=> b \in DOMAIN doc) /\ (3 \in hits <=> c \in DOMAIN doc)
  BY <1>2
<1> HIDE DEF keys, hits
<1>4. /\ hits # {} => i \in hits /\ \A k \in hits : i <= k
      /\ hits = {} => i = 0
      /\ \A k \in hits : k = 1 \/ k = 2 \/ k = 3
  BY <1>2, <1>3, FirstPlace, SameInFindings
<1> HIDE DEF i
<1>5. CASE a \in DOMAIN doc
  <2>1. i = 1
    <3>1. 1 \in hits
      BY <1>3, <1>5
    <3>2. i \in hits /\ i <= 1
      BY <1>4, <3>1
    <3>3. i = 1 \/ i = 2 \/ i = 3
      BY <1>4, <3>2
    <3> QED BY <3>2, <3>3
  <2> QED BY <1>0, <1>1, <1>2, <1>5, <2>1
<1>6. CASE a \notin DOMAIN doc /\ b \in DOMAIN doc
  <2>1. i = 2
    <3>1. 2 \in hits
      BY <1>3, <1>6
    <3>2. i \in hits /\ i <= 2
      BY <1>4, <3>1
    <3>3. i = 1 \/ i = 2 \/ i = 3
      BY <1>4, <3>2
    <3>4. 1 \notin hits
      BY <1>3, <1>6
    <3> QED BY <3>2, <3>3, <3>4
  <2> QED BY <1>0, <1>1, <1>2, <1>6, <2>1
<1>7. CASE a \notin DOMAIN doc /\ b \notin DOMAIN doc /\ c \in DOMAIN doc
  <2>1. i = 3
    BY <1>3, <1>4, <1>7
  <2> QED BY <1>0, <1>1, <1>2, <1>7, <2>1
<1>8. CASE a \notin DOMAIN doc /\ b \notin DOMAIN doc /\ c \notin DOMAIN doc
  <2>1. i = 0
    BY <1>3, <1>4, <1>8
  <2> QED BY <1>0, <1>1, <1>8, <2>1
<1> QED BY <1>5, <1>6, <1>7, <1>8

Keys(cfg) == {"name", "name.version", "standard", FI!integrity_key(cfg), "sourceDirs", "strict"}
             \cup (IF cfg.exclude_patterns = <<>> THEN {} ELSE {"excludePatterns"})

LEMMA SavedConfig ==
    ASSUME NEW cfg
    PROVE  /\ DOMAIN FI!save(cfg) = Keys(cfg) /\ FI!integrity_key(cfg) \in {"asil", "sil", "dal"}
           /\ FI!save(cfg)["name"] = cfg.project /\ FI!save(cfg)["name.version"] = cfg.version
           /\ FI!save(cfg)["standard"] = cfg.standard /\ FI!save(cfg)["sourceDirs"] = cfg.source_dirs
           /\ FI!save(cfg)["strict"] = cfg.strict
           /\ cfg.exclude_patterns # <<>> => FI!save(cfg)["excludePatterns"] = cfg.exclude_patterns
           /\ FI!save(cfg)[FI!integrity_key(cfg)] = cfg.asil
<1>1. FI!integrity_key(cfg) \in {"asil", "sil", "dal"}
  BY DEF FI!integrity_key
<1> QED BY <1>1 DEF FI!save, Keys

(* A configuration of language "cpp" that is saved is read back.           *)
LEMMA ConfigIsReadBack ==
    ASSUME NEW cfg, cfg = [f \in ConfigFields |-> cfg[f]]
    PROVE  FI!ConfigRoundTrips(cfg)
<1> DEFINE doc == FI!save(cfg)
           key == FI!integrity_key(cfg)
<1>1. /\ DOMAIN doc = Keys(cfg) /\ key \in {"asil", "sil", "dal"}
      /\ doc["name"] = cfg.project /\ doc["name.version"] = cfg.version
      /\ doc["standard"] = cfg.standard /\ doc["sourceDirs"] = cfg.source_dirs
      /\ doc["strict"] = cfg.strict
      /\ cfg.exclude_patterns # <<>> => doc["excludePatterns"] = cfg.exclude_patterns
      /\ doc[key] = cfg.asil
  BY SavedConfig
<1> HIDE DEF doc
<1>2. FI!First(doc, <<"name", "project">>, "") = cfg.project
  <2>1. "name" \in DOMAIN doc /\ doc["name"] = cfg.project
    BY <1>1 DEF Keys
  <2> HIDE DEF key
  <2> QED BY <2>1, FirstOfTwo
<1>3. FI!Get(doc, IF "name" \in DOMAIN doc THEN "name.version" ELSE "version", "0.1.0") = cfg.version
  BY <1>1 DEF Keys, FI!Get
<1>4. FI!Get(doc, "standard", "iso26262") = cfg.standard /\ FI!Get(doc, "strict", FALSE) = cfg.strict
  BY <1>1 DEF Keys, FI!Get
<1>5. FI!First(doc, <<"asil", "sil", "dal">>, "ASIL-B") = cfg.asil
  <2> HIDE DEF key
  <2>1. \A k \in {"asil", "sil", "dal"} : k \in DOMAIN doc <=> k = key
    BY <1>1 DEF Keys, key
  <2>2. key = "asil" \/ key = "sil" \/ key = "dal"
    BY <1>1
  <2> QED BY <1>1, <2>1, <2>2, FirstOfThree
<1>6. FI!Get(doc, "language", "cpp") = "cpp"
  BY <1>1 DEF Keys, FI!Get
<1>7. FI!First(doc, <<"sourceDirs", "source_dirs">>, <<>>) = cfg.source_dirs
  <2>1. "sourceDirs" \in DOMAIN doc /\ doc["sourceDirs"] = cfg.source_dirs
    BY <1>1 DEF Keys
  <2> HIDE DEF key
  <2> QED BY <2>1, FirstOfTwo
<1>8. FI!First(doc, <<"excludePatterns", "exclude_patterns">>, <<>>) = cfg.exclude_patterns
  <2>1. "exclude_patterns" \notin DOMAIN doc
    BY <1>1 DEF Keys
  <2>2. "excludePatterns" \in DOMAIN doc <=> cfg.exclude_patterns # <<>>
    BY <1>1 DEF Keys
  <2> QED BY <1>1, <2>1, <2>2, FirstOfTwo
<1>9. FI!load(doc) = [project |-> cfg.project, version |-> cfg.version, standard |-> cfg.standard,
                      asil |-> cfg.asil, language |-> "cpp", source_dirs |-> cfg.source_dirs,
                      exclude_patterns |-> cfg.exclude_patterns, strict |-> cfg.strict]
  BY <1>2, <1>3, <1>4, <1>5, <1>6, <1>7, <1>8 DEF FI!load
<1>10. ASSUME cfg.language = "cpp"
       PROVE  cfg = [project |-> cfg.project, version |-> cfg.version, standard |-> cfg.standard,
                     asil |-> cfg.asil, language |-> "cpp", source_dirs |-> cfg.source_dirs,
                     exclude_patterns |-> cfg.exclude_patterns, strict |-> cfg.strict]
  BY <1>10 DEF ConfigFields
<1>11. (cfg.standard = "iec61508" => FI!IsSil(cfg.asil)) /\ (cfg.standard = "do178c" => FI!IsDal(cfg.asil))
         => FI!add_report_envelope(cfg) \subseteq DOMAIN doc
  <2>1. key \in DOMAIN doc
    BY <1>1 DEF Keys
  <2>2. ~ (FI!IsSil(cfg.asil) /\ FI!IsDal(cfg.asil))
    BY DEF FI!IsSil, FI!IsDal
  <2>3. (cfg.standard = "iec61508" => FI!IsSil(cfg.asil)) /\ (cfg.standard = "do178c" => FI!IsDal(cfg.asil))
          => FI!add_report_envelope(cfg) \subseteq {key}
    BY <2>2 DEF FI!integrity_key, FI!add_report_envelope
  <2> QED BY <2>1, <2>3
<1> QED BY <1>9, <1>10, <1>11 DEF FI!ConfigRoundTrips, doc

-----------------------------------------------------------------------------
(* Reports.                                                                *)

AFinding(Labels) ==
    [rule : Labels, severity : {"ERROR", "WARNING", "INFO"}, file : Labels, line : Nat]

(* There are findings of a severity just if one is counted.                *)
LEMMA CountedIsThere ==
    ASSUME NEW n \in Nat, NEW findings, DOMAIN findings = 1..n, NEW severity
    PROVE  /\ FI!CountOf(findings, severity) \in Nat
           /\ FI!CountOf(findings, severity) > 0 <=> \E i \in 1..n : findings[i].severity = severity
<1> DEFINE S == {i \in 1..n : findings[i].severity = severity}
<1>1. FI!CountOf(findings, severity) = Cardinality(S)
  BY SameInFindings DEF FI!CountOf
<1>2. S \in SUBSET (1..n) /\ (S = {} <=> ~ \E i \in 1..n : findings[i].severity = severity)
  OBVIOUS
<1> HIDE DEF S
<1>3. IsFiniteSet(1..n)
  BY FS_Interval
<1>4. IsFiniteSet(S) /\ Cardinality(S) \in Nat /\ (Cardinality(S) = 0 <=> S = {})
  BY <1>2, <1>3, FS_Subset, FS_CardinalityType, FS_EmptySet
<1> QED BY <1>1, <1>2, <1>4

NoTwice(s) == \A i, j \in 1..Len(s) : s[i] = s[j] => i = j

Added(r, s, v) == r = IF v \in FI!ToSet(s) THEN s ELSE Append(s, v)

HasOneMore(r, s, v) == NoTwice(r) /\ \A x : Among(x, r) <=> Among(x, s) \/ x = v

LEMMA AddedOnce ==
    ASSUME NEW V, NEW s \in Seq(V), NoTwice(s), NEW v \in V,
           NEW r, Added(r, s, v)
    PROVE  HasOneMore(r, s, v)
<1>0. v \in FI!ToSet(s) <=> Among(v, s)
  BY DEF FI!ToSet, Among
<1>1. CASE Among(v, s)
  BY <1>0, <1>1 DEF Among, Added, HasOneMore
<1>2. CASE ~Among(v, s)
  <2>1. r = Append(s, v)
    BY <1>0, <1>2 DEF Added
  <2>2. /\ r \in Seq(V) /\ Len(r) = Len(s) + 1 /\ Len(s) \in Nat /\ r[Len(s) + 1] = v
        /\ \A i \in 1..Len(s) : r[i] = s[i] /\ s[i] # v
    BY <1>2, <2>1 DEF Among
  <2>3. \A i : i \in 1..Len(r) <=> i \in 1..Len(s) \/ i = Len(s) + 1
    BY <2>2
  <2> HIDE <2>1
  <2>4. NoTwice(r)
    BY <2>2, <2>3 DEF NoTwice
  <2>5. \A x : Among(x, r) <=> Among(x, s) \/ x = v
    BY <2>2, <2>3 DEF Among
  <2> QED BY <2>4, <2>5 DEF HasOneMore
<1> QED BY <1>1, <1>2

RulesRun(run, n, findings) ==
    /\ run[0] = <<>> /\ run[n] = FI!render_sarif(findings).rules
    /\ \A k \in 1..n : run[k] = IF findings[k].rule \in FI!ToSet(run[k - 1]) THEN run[k - 1]
                                ELSE Append(run[k - 1], findings[k].rule)

LEMMA RulesAreGathered ==
    ASSUME NEW n \in Nat, NEW Labels, NEW findings \in [1..n -> AFinding(Labels)]
    PROVE  \E run \in [0..n -> Seq(Labels)] : RulesRun(run, n, findings)
<1> DEFINE rule(k) == findings[k].rule
           turn(v, k) == IF rule(k) \in FI!ToSet(v) THEN v ELSE Append(v, rule(k))
           body(f) == [s \in SUBSET (1..n) |->
                         IF s = {} THEN <<>> ELSE turn(f[s \ {FI!Max(s)}], FI!Max(s))]
           chosen == CHOOSE f : f = body(f)
           step == [k \in 1..n |-> [v \in Seq(Labels) |-> turn(v, k)]]
<1>1. step \in [1..n -> [Seq(Labels) -> Seq(Labels)]]
  <2>1. ASSUME NEW k \in 1..n, NEW v \in Seq(Labels) PROVE turn(v, k) \in Seq(Labels)
    <3>1. rule(k) \in Labels
      BY DEF AFinding
    <3> QED BY <3>1
  <2> QED BY <2>1
<1>2. FI!render_sarif(findings).rules = chosen[1..n]
  <2>1. DOMAIN findings = 1..n
    OBVIOUS
  <2> QED BY <2>1 DEF FI!render_sarif, FI!FoldLeft, FI!MapThenFoldSet
<1> HIDE DEF turn
<1>3. PICK f \in [SUBSET (1..n) -> Seq(Labels)] : Folds(f, n, <<>>, step)
  <2> HIDE DEF step
  <2>1. <<>> \in Seq(Labels)
    OBVIOUS
  <2> QED BY <1>1, <2>1, FoldExists, Zenon
<1>4. f = body(f)
  <2>1. \A s \in SUBSET (1..n) : s # {} => Max(s) \in 1..n /\ f[s \ {Max(s)}] \in Seq(Labels)
    BY <1>3, LastPlace
  <2>2. \A s \in SUBSET (1..n) : f[s] = IF s = {} THEN <<>> ELSE turn(f[s \ {FI!Max(s)}], FI!Max(s))
    BY <1>3, <2>1, SameInFindings DEF Folds
  <2> QED BY <1>3, <2>2
<1>5. chosen = body(chosen)
  BY <1>4
<1> HIDE DEF chosen
<1>6. FoldsIn(Seq(Labels), chosen, n, <<>>, step)
  BY <1>5, LastPlace, SameInFindings DEF FoldsIn
<1> HIDE DEF step
<1>7. RunsThrough(Seq(Labels), chosen, n, <<>>, step)
  <2>1. <<>> \in Seq(Labels)
    OBVIOUS
  <2> QED BY <1>1, <1>6, <2>1, FoldRuns, Zenon
<1>8. PICK run \in [0..n -> Seq(Labels)] : Runs(run, n, <<>>, step) /\ run[n] = chosen[1..n]
  BY <1>7 DEF RunsThrough
<1>9. ASSUME NEW k \in 1..n PROVE run[k] = turn(run[k - 1], k)
  <2>1. run[k] = step[k][run[k - 1]] /\ run[k - 1] \in Seq(Labels)
    BY <1>8 DEF Runs
  <2> QED BY <2>1 DEF step
<1>10. run[0] = <<>> /\ run[n] = FI!render_sarif(findings).rules
  BY <1>2, <1>8 DEF Runs
<1>11. RulesRun(run, n, findings)
  BY <1>9, <1>10 DEF RulesRun, turn
<1> QED BY <1>11

(* The rules that SARIF declares are those of the findings, each once.     *)
LEMMA RulesAreDeclaredOnce ==
    ASSUME NEW n \in Nat, NEW Labels, NEW findings \in [1..n -> AFinding(Labels)]
    PROVE  Len(FI!render_sarif(findings).rules) = Cardinality({findings[i].rule : i \in 1..n})
<1>1. PICK run \in [0..n -> Seq(Labels)] : RulesRun(run, n, findings)
  BY RulesAreGathered
<1> DEFINE P(m) == /\ NoTwice(run[m])
                   /\ \A x : Among(x, run[m]) <=> \E k \in 1..m : findings[k].rule = x
           S == {m \in 0..n : P(m)}
<1>2. P(0)
  BY <1>1 DEF RulesRun, NoTwice, Among
<1>3. ASSUME NEW m \in 1..n, P(m - 1) PROVE P(m)
  <2>1. m - 1 \in 0..n
    OBVIOUS
  <2>2. run[m - 1] \in Seq(Labels) /\ findings[m].rule \in Labels
    BY <2>1 DEF AFinding
  <2>3. Added(run[m], run[m - 1], findings[m].rule)
    BY <1>1 DEF RulesRun, Added
  <2>4. /\ NoTwice(run[m])
        /\ \A x : Among(x, run[m]) <=> Among(x, run[m - 1]) \/ x = findings[m].rule
    <3>1. NoTwice(run[m - 1])
      BY <1>3
    <3>2. HasOneMore(run[m], run[m - 1], findings[m].rule)
      BY <2>2, <2>3, <3>1, AddedOnce, Zenon
    <3> QED BY <3>2 DEF HasOneMore
  <2>5. \A k : k \in 1..m <=> k \in 1..(m - 1) \/ k = m
    BY LastOrBefore, m \in Nat \ {0}
  <2> QED BY <1>3, <2>4, <2>5
<1> HIDE DEF P
<1>4. 0 \in S /\ \A m \in 1..n : m - 1 \in S => m \in S
  BY <1>2, <1>3
<1> HIDE DEF S
<1>5. \A m \in 0..n : m \in S
  BY <1>4, UpTo, Zenon
<1>6. P(n)
  BY <1>5 DEF S
<1> DEFINE rules == FI!render_sarif(findings).rules
           named == {findings[i].rule : i \in 1..n}
           k == Len(rules)
<1>7. rules = run[n] /\ rules \in Seq(Labels)
  BY <1>1 DEF RulesRun
<1>8. NoTwice(rules) /\ \A x : Among(x, rules) <=> x \in named
  BY <1>6, <1>7 DEF P
<1> HIDE DEF rules, named
<1>9. k \in Nat /\ DOMAIN rules = 1..k /\ rules \in [1..k -> Labels]
  BY <1>7, SeqIsFunction, Zenon
<1>10. rules \in Bijection(1..k, named)
  <2>1. \A i \in 1..k : rules[i] \in named
    BY <1>8 DEF Among
  <2>2. \A x \in named : \E i \in 1..k : rules[i] = x
    BY <1>8 DEF Among
  <2> QED BY <1>8, <1>9, <2>1, <2>2 DEF NoTwice, Bijection, Injection, IsInjective, Surjection
<1>11. ExistsBijection(1..k, named)
  BY <1>10 DEF ExistsBijection
<1>12. IsFiniteSet(1..k) /\ Cardinality(1..k) = k
  <2> HIDE DEF k
  <2> QED BY <1>9, SizeUpTo, Zenon
<1>13. Cardinality(named) = k
  BY <1>11, <1>12, FS_Bijection
<1> QED BY <1>13 DEF named, rules

(* Every format tells the same.                                            *)
LEMMA FormatsTellTheSame ==
    ASSUME NEW Labels, NEW findings \in Seq(AFinding(Labels))
    PROVE  FI!FormatsAgree(findings)
<1> DEFINE n == Len(findings)
           results == FI!render_sarif(findings).results
           summary == FI!render_json(findings).summary
           of(l) == FI!Cardinality({i \in DOMAIN results : results[i].level = l})
<1>1. n \in Nat /\ DOMAIN findings = 1..n /\ findings \in [1..n -> AFinding(Labels)]
  BY SeqIsFunction, Zenon
<1>2. \A i \in 1..n : findings[i].severity \in {"ERROR", "WARNING", "INFO"} /\ findings[i].line \in Nat
  BY <1>1 DEF AFinding
<1>3. DOMAIN results = 1..n
      /\ \A i \in 1..n : /\ results[i].level = FI!level(findings[i].severity)
                         /\ results[i].uri = IF findings[i].file = "" THEN "." ELSE findings[i].file
                         /\ results[i].startLine = IF findings[i].line > 0 THEN findings[i].line ELSE 1
  BY <1>1 DEF FI!render_sarif
<1>4. summary.errors = FI!CountOf(findings, "ERROR") /\ summary.warnings = FI!CountOf(findings, "WARNING")
      /\ summary.infos = FI!CountOf(findings, "INFO")
  BY DEF FI!render_json
<1> HIDE DEF n, results
<1>5. \A i \in 1..n : /\ results[i].level = "error" <=> findings[i].severity = "ERROR"
                      /\ results[i].level = "warning" <=> findings[i].severity = "WARNING"
                      /\ results[i].level = "note" <=> findings[i].severity = "INFO"
  BY <1>2, <1>3 DEF FI!level
<1>6. of("error") = summary.errors /\ of("warning") = summary.warnings /\ of("note") = summary.infos
  <2>1. /\ {i \in DOMAIN results : results[i].level = "error"} = {i \in DOMAIN findings : findings[i].severity = "ERROR"}
        /\ {i \in DOMAIN results : results[i].level = "warning"} = {i \in DOMAIN findings : findings[i].severity = "WARNING"}
        /\ {i \in DOMAIN results : results[i].level = "note"} = {i \in DOMAIN findings : findings[i].severity = "INFO"}
    BY <1>1, <1>3, <1>5
  <2> QED BY <1>4, <2>1 DEF FI!CountOf
<1>7. Len(FI!render_sarif(findings).rules) = FI!Cardinality({findings[i].rule : i \in DOMAIN findings})
  BY <1>1, RulesAreDeclaredOnce, SameInFindings
<1>8. \A i \in DOMAIN results : results[i].uri # "" /\ results[i].startLine > 0
  <2> SUFFICES ASSUME NEW i \in 1..n PROVE results[i].uri # "" /\ results[i].startLine > 0
    BY <1>3
  <2>1. results[i].uri = IF findings[i].file = "" THEN "." ELSE findings[i].file
    BY <1>3
  <2>2. results[i].startLine = IF findings[i].line > 0 THEN findings[i].line ELSE 1
    BY <1>3
  <2>3. findings[i].line \in Nat
    BY <1>2
  <2>4. results[i].uri # ""
    BY <2>1
  <2> DEFINE from == findings[i].line
             start == results[i].startLine
  <2>5. start = (IF from > 0 THEN from ELSE 1) /\ from \in Nat
    BY <2>2, <2>3
  <2> HIDE DEF from, start
  <2>6. start > 0
    BY <2>5
  <2> QED BY <2>4, <2>6 DEF start
<1> DEFINE errors == FI!CountOf(findings, "ERROR")
           warnings == FI!CountOf(findings, "WARNING")
<1>9. /\ errors \in Nat /\ (errors > 0 <=> \E i \in 1..n : findings[i].severity = "ERROR")
      /\ warnings \in Nat /\ (warnings > 0 <=> \E i \in 1..n : findings[i].severity = "WARNING")
  BY <1>1, CountedIsThere
<1> HIDE DEF errors, warnings
<1>10. FI!badge(findings) = IF errors > 0 THEN "FAIL" ELSE IF warnings > 0 THEN "WARN" ELSE "PASS"
  BY DEF FI!badge, FI!from_findings, errors, warnings
<1>11. FI!badge(findings) = "FAIL" <=> FI!exit_code(findings, FALSE) = 1
  BY <1>1, <1>9, <1>10 DEF FI!exit_code
<1>12. FI!badge(findings) = "PASS" <=> FI!exit_code(findings, TRUE) = 0
  BY <1>1, <1>9, <1>10 DEF FI!exit_code
<1> QED BY <1>6, <1>7, <1>8, <1>11, <1>12 DEF FI!FormatsAgree, results

(* A waiver takes out its rule and no other.                               *)
LEMMA WaiversAreOfRules ==
    ASSUME NEW Labels, NEW findings \in Seq(AFinding(Labels)), NEW waived
    PROVE  FI!WaiversTakeOutTheirRules(findings, waived)
<1> DEFINE n == Len(findings)
           V == AFinding(Labels)
           parts == [i \in 1..n |-> IF findings[i].rule \in waived THEN <<>> ELSE <<findings[i]>>]
           rest == FlattenSeq(parts)
<1>1. n \in Nat /\ DOMAIN findings = 1..n /\ findings \in [1..n -> V]
  BY SeqIsFunction, Zenon
<1> HIDE DEF n, V
<1>2. parts \in [1..n -> Seq(V)]
  BY <1>1
<1>3. \A k \in 1..n : \A v : Among(v, parts[k]) <=> findings[k].rule \notin waived /\ findings[k] = v
  BY DEF Among
<1> HIDE DEF parts
<1>4. /\ rest \in Seq(V)
      /\ \A v : Among(v, rest) <=> \E k \in 1..n : Among(v, parts[k])
  BY <1>1, <1>2, FlattenHas
<1> HIDE DEF rest
<1>5. \A v : Among(v, rest) <=> \E k \in 1..n : findings[k].rule \notin waived /\ findings[k] = v
  BY <1>3, <1>4
<1>6. ASSUME NEW strict \in BOOLEAN
      PROVE  FI!gated_exit_code(findings, strict, waived) = FI!exit_code(rest, strict)
  <2> DEFINE Gates(f) == f.severity = "ERROR" \/ (strict /\ f.severity = "WARNING")
  <2>1. FI!gated_exit_code(findings, strict, waived)
          = IF \E i \in 1..n : Gates(findings[i]) /\ findings[i].rule \notin waived THEN 1 ELSE 0
    BY <1>1, Zenon DEF FI!gated_exit_code
  <2>2. DOMAIN rest = 1..Len(rest)
    BY <1>4
  <2>3. FI!exit_code(rest, strict) = IF \E v : Among(v, rest) /\ Gates(v) THEN 1 ELSE 0
    <3>1. (\E i \in 1..Len(rest) : Gates(rest[i])) <=> \E v : Among(v, rest) /\ Gates(v)
      BY DEF Among
    <3>2. FI!exit_code(rest, strict) = IF \E i \in 1..Len(rest) : Gates(rest[i]) THEN 1 ELSE 0
      BY <2>2, Zenon DEF FI!exit_code
    <3> QED BY <3>1, <3>2, Zenon
  <2> HIDE DEF Gates
  <2>4. (\E v : Among(v, rest) /\ Gates(v))
          <=> \E i \in 1..n : Gates(findings[i]) /\ findings[i].rule \notin waived
    BY <1>5, Zenon
  <2> DEFINE one == \E i \in 1..n : Gates(findings[i]) /\ findings[i].rule \notin waived
             two == \E v : Among(v, rest) /\ Gates(v)
  <2>5. /\ FI!gated_exit_code(findings, strict, waived) = IF one THEN 1 ELSE 0
        /\ FI!exit_code(rest, strict) = IF two THEN 1 ELSE 0
        /\ two <=> one
    BY <2>1, <2>3, <2>4, Zenon
  <2> HIDE DEF one, two
  <2> QED BY <2>5
<1>7. FI!FlattenSeq([i \in DOMAIN findings |->
                    IF findings[i].rule \in waived THEN <<>> ELSE <<findings[i]>>]) = rest
  BY <1>1, SameInFindings DEF rest, parts
<1> QED BY <1>6, <1>7 DEF FI!WaiversTakeOutTheirRules

-----------------------------------------------------------------------------
(* Two reports.                                                            *)

\* The finding that is kept of each place is of that place.
LEMMA KeptIsOfItsPlace ==
    ASSUME NEW n \in Nat, NEW findings, DOMAIN findings = 1..n
    PROVE  /\ DOMAIN FI!ByKey(findings) = FI!Keys(findings)
           /\ \A k \in FI!Keys(findings) : FI!key_of(FI!ByKey(findings)[k]) = k
<1>1. DOMAIN FI!ByKey(findings) = FI!Keys(findings)
  BY DEF FI!ByKey
<1>2. ASSUME NEW k \in FI!Keys(findings) PROVE FI!key_of(FI!ByKey(findings)[k]) = k
  <2> DEFINE key(i) == FI!key_of(findings[i])
             S == {i \in 1..n : key(i) = k}
             Latest(i) == key(i) = k /\ \A j \in 1..n : key(j) = k => j <= i
  <2>1. FI!ByKey(findings)[k] = findings[CHOOSE i \in 1..n : Latest(i)]
    BY DEF FI!ByKey
  <2>2. \E i \in 1..n : key(i) = k
    BY DEF FI!Keys
  <2> HIDE DEF key
  <2>3. S \in SUBSET (1..n) /\ S # {}
    BY <2>2
  <2>4. Max(S) \in S /\ \A i \in S : i <= Max(S)
    BY <2>3, LastPlace
  <2>5. Max(S) \in 1..n /\ Latest(Max(S))
    BY <2>4
  <2>6. key(CHOOSE i \in 1..n : Latest(i)) = k
    BY <2>5
  <2> QED BY <2>1, <2>6 DEF key
<1> QED BY <1>1, <1>2

LEMMA PlacesAreFinite ==
    ASSUME NEW n \in Nat, NEW findings, DOMAIN findings = 1..n
    PROVE  IsFiniteSet(FI!Keys(findings))
<1> DEFINE f == [i \in 1..n |-> FI!key_of(findings[i])]
           K == FI!Keys(findings)
<1>1. f \in [1..n -> K] /\ \A k \in K : \E i \in 1..n : f[i] = k
  BY DEF FI!Keys
<1> HIDE DEF f, K
<1>2. f \in Surjection(1..n, K)
  BY <1>1 DEF Surjection
<1>3. IsFiniteSet(K)
  BY <1>2, SizeUpTo, FS_Surjection
<1> QED BY <1>3 DEF K

\* The findings that are kept of a set of places are as many.
Kept(findings, places) == {FI!ByKey(findings)[k] : k \in places}

LEMMA OneOfEachPlace ==
    ASSUME NEW n \in Nat, NEW findings, DOMAIN findings = 1..n,
           NEW places \in SUBSET FI!Keys(findings)
    PROVE  /\ FI!Cardinality(Kept(findings, places)) = Cardinality(places)
           /\ Kept(findings, places) = {} <=> places = {}
<1> DEFINE f == [k \in places |-> FI!ByKey(findings)[k]]
           T == Kept(findings, places)
<1>1. f \in [places -> T] /\ (\A t \in T : \E k \in places : f[k] = t)
  BY DEF Kept
<1>2. \A k, j \in places : f[k] = f[j] => k = j
  <2> SUFFICES ASSUME NEW k \in places, NEW j \in places, f[k] = f[j] PROVE k = j
    OBVIOUS
  <2>1. FI!key_of(f[k]) = k /\ FI!key_of(f[j]) = j
    BY KeptIsOfItsPlace
  <2> QED BY <2>1
<1>4. T = {} <=> places = {}
  BY DEF Kept
<1> HIDE DEF f, T
<1>3. f \in Bijection(places, T)
  BY <1>1, <1>2 DEF Bijection, Injection, IsInjective, Surjection
<1>5. IsFiniteSet(places)
  BY PlacesAreFinite, FS_Subset
<1>6. ExistsBijection(places, T)
  BY <1>3 DEF ExistsBijection
<1>7. Cardinality(T) = Cardinality(places)
  BY <1>5, <1>6, FS_Bijection
<1> QED BY <1>4, <1>7, SameInFindings DEF T

LEMMA ThreeParts ==
    ASSUME NEW S, NEW T, IsFiniteSet(S), IsFiniteSet(T)
    PROVE  Cardinality(S \cap T) + Cardinality(S \ T) + Cardinality(T \ S) = Cardinality(T \cup S)
<1> DEFINE s == Cardinality(S)
           t == Cardinality(T)
           both == Cardinality(S \cap T)
<1>1. Cardinality(S \ T) = s - both
  BY FS_Difference
<1>2. T \cap S = S \cap T
  OBVIOUS
<1>3. Cardinality(T \ S) = t - both
  BY <1>2, FS_Difference
<1>4. Cardinality(T \cup S) = t + s - both
  BY <1>2, FS_Union
<1>5. IsFiniteSet(S \cap T)
  BY FS_Intersection
<1>6. s \in Nat /\ t \in Nat /\ both \in Nat
  BY <1>5, FS_CardinalityType
<1> HIDE DEF s, t, both
<1>7. both + (s - both) + (t - both) = t + s - both
  BY <1>6
<1> QED BY <1>1, <1>3, <1>4, <1>7 DEF both

(* `diff` sees every place that is new, and no other.                      *)
LEMMA NewPlacesAreSeen ==
    ASSUME NEW n \in Nat, NEW baseline, DOMAIN baseline = 1..n,
           NEW m \in Nat, NEW current, DOMAIN current = 1..m
    PROVE  FI!DiffSeesNewPlaces(baseline, current)
<1> DEFINE base == FI!Keys(baseline)
           cur == FI!Keys(current)
           d == FI!compare(baseline, current)
<1>1. DOMAIN FI!ByKey(baseline) = base /\ DOMAIN FI!ByKey(current) = cur
  BY KeptIsOfItsPlace
<1>2. /\ d.unchanged = Kept(current, cur \cap base) /\ d.introduced = Kept(current, cur \ base)
      /\ d.resolved = Kept(baseline, base \ cur)
  BY <1>1 DEF FI!compare, Kept
<1>3. /\ FI!compare(current, current).introduced = Kept(current, cur \ cur)
      /\ FI!compare(current, current).resolved = Kept(current, cur \ cur)
  BY <1>1 DEF FI!compare, Kept
<1>4. FI!diff(FI!render_json(baseline), FI!render_json(current)) = IF d.introduced # {} THEN 1 ELSE 0
  BY DEF FI!diff, FI!load_findings, FI!render_json
<1>5. /\ {<<baseline[i].rule, baseline[i].file, baseline[i].line>> : i \in DOMAIN baseline} = base
      /\ {<<current[i].rule, current[i].file, current[i].line>> : i \in DOMAIN current} = cur
  BY DEF FI!Keys, FI!key_of
<1>6. IsFiniteSet(base) /\ IsFiniteSet(cur)
  BY PlacesAreFinite
<1> HIDE DEF d
<1>7. Kept(current, cur \ base) = {} <=> cur \ base = {}
  BY OneOfEachPlace
<1>8. FI!diff(FI!render_json(baseline), FI!render_json(current)) = 0 <=> cur \subseteq base
  <2> DEFINE new == cur \ base
  <2>1. new = {} <=> cur \subseteq base
    OBVIOUS
  <2>2. d.introduced = {} <=> new = {}
    BY <1>2, <1>7
  <2> HIDE DEF base, cur, new
  <2> QED BY <1>4, <2>1, <2>2
<1>9. FI!Cardinality(d.unchanged) + FI!Cardinality(d.introduced) + FI!Cardinality(d.resolved)
        = FI!Cardinality(base \cup cur)
  <2>1. /\ FI!Cardinality(d.unchanged) = Cardinality(cur \cap base)
        /\ FI!Cardinality(d.introduced) = Cardinality(cur \ base)
        /\ FI!Cardinality(d.resolved) = Cardinality(base \ cur)
    <3>1. cur \cap base \in SUBSET cur /\ cur \ base \in SUBSET cur /\ base \ cur \in SUBSET base
      OBVIOUS
    <3> QED BY <1>2, <3>1, OneOfEachPlace
  <2> HIDE DEF base, cur
  <2>2. Cardinality(cur \cap base) + Cardinality(cur \ base) + Cardinality(base \ cur)
          = Cardinality(base \cup cur)
    BY <1>6, ThreeParts
  <2> QED BY <2>1, <2>2, SameInFindings
<1>10. FI!compare(current, current).introduced \cup FI!compare(current, current).resolved = {}
  <2>1. cur \ cur = {}
    OBVIOUS
  <2> QED BY <1>3, <2>1 DEF Kept
<1> QED BY <1>5, <1>8, <1>9, <1>10 DEF FI!DiffSeesNewPlaces, d

(* The bounded sequences of a run are sequences.                           *)
LEMMA BoundedIsSeq ==
    ASSUME NEW S, NEW T, S \subseteq T, NEW n \in Nat
    PROVE  BoundedSeq(S, n) \subseteq Seq(T)
<1>1. BoundedSeq(S, n) = UNION {[1..m -> S] : m \in 0..n}
  BY DEF BoundedSeq, SeqOf
<1>2. \A m \in 0..n : [1..m -> S] \subseteq Seq(T)
  OBVIOUS
<1> QED BY <1>1, <1>2

LEMMA OutcomesAreResults == \A o \in Outcomes : o \in Seq(Results)
<1>1. [name : 1 .. 3, passed : BOOLEAN] \subseteq Results
  BY DEF Results
<1>2. BoundedSeq([name : 1 .. 3, passed : BOOLEAN], 3) \subseteq Seq(Results)
  BY <1>1, BoundedIsSeq, 3 \in Nat, Zenon
<1> QED BY <1>2 DEF Outcomes

-----------------------------------------------------------------------------
(* The rules of the engine are what they are qualified for: with any HARA  *)
(* file, any sources, any rule that stops working, and any outcomes.       *)
THEOREM QualificationIsOfTheRules ==
    ASSUME NEW Labels, HasDefaults(Labels),
           input.of = "hara" =>
               /\ {"hara", "asil"} \subseteq DOMAIN input.value
               /\ input.value.hara.is = "read" => input.value.hara \in AHara(Labels),
           input.of = "sources" => ProjectFields \subseteq DOMAIN input.value,
           input.of = "outcomes" => input.value \in Seq(Results)
    PROVE  QualificationMeansTheRules
<1>1. ASSUME input.of = "hara"
      PROVE  /\ HA!HighestHazardDecides(input.value) /\ HA!NoneDangles(input.value.hara, {"R1"})
             /\ HA!RulesAgreeWithReport(input.value, {"R1"})
  <2>1. HA!HighestHazardDecides(input.value)
    BY <1>1, HighestDecides
  <2>2. HA!NoneDangles(input.value.hara, {"R1"})
    <3>1. CASE input.value.hara.is = "read"
      BY <1>1, <3>1, DanglingIsTold
    <3>2. CASE input.value.hara.is # "read"
      BY <3>2, Zenon DEF HA!NoneDangles
    <3> QED BY <3>1, <3>2
  <2>3. HA!RulesAgreeWithReport(input.value, {"R1"})
    BY <1>1, RulesAgree
  <2> QED BY <2>1, <2>2, <2>3
<1>2. HazardsInv /\ HazardReportsAgree
  BY <1>1 DEF HazardsInv, HazardReportsAgree, Of
<1>3. StrayFilesDoNotCount
  BY OnlyScopeCounts DEF StrayFilesDoNotCount, Of
<1>4. SuiteNotices
  BY WhatTheSuiteNotices DEF SuiteNotices, Of
<1>5. HashIsTheOutcome
  <2>1. \A x \in Outcomes : x \in Seq(Results)
    BY OutcomesAreResults
  <2> QED BY <2>1, HashIsOfTheOutcome DEF HashIsTheOutcome, Of
<1> QED BY <1>2, <1>3, <1>4, <1>5 DEF QualificationMeansTheRules

(* Saved settings of language "cpp" come back, the formats of a report tell *)
(* the same, waivers are of their rules and new places are seen, for any   *)
(* settings and any list of findings.                                      *)
THEOREM ReportsTellWhatWasFound ==
    ASSUME NEW Labels,
           input.of = "config" => input.value = [f \in ConfigFields |-> input.value[f]],
           input.of = "findings" => input.value \in Seq(AFinding(Labels))
    PROVE  ReportsTellTheFindings
<1>1. ConfigRoundTrips
  BY ConfigIsReadBack DEF ConfigRoundTrips, Of
<1>2. FormatsAgree
  BY FormatsTellTheSame DEF FormatsAgree, Of
<1>3. WaiversTakeOutTheirRules
  BY WaiversAreOfRules DEF WaiversTakeOutTheirRules, Of
<1>4. DiffSeesNewPlaces
  <2>1. \A g \in FindingLists : \E m \in Nat : DOMAIN g = 1..m
    <3>1. \A S : \A g \in BoundedSeq(S, 3) : \E m \in Nat : DOMAIN g = 1..m
      BY DEF BoundedSeq, SeqOf
    <3> QED BY <3>1 DEF FindingLists
  <2>2. ASSUME input.of = "findings" PROVE \E m \in Nat : DOMAIN input.value = 1..m
    BY <2>2, SeqIsFunction
  <2> QED BY <2>1, <2>2, NewPlacesAreSeen DEF DiffSeesNewPlaces, Of
<1> QED BY <1>1, <1>2, <1>3, <1>4 DEF ReportsTellTheFindings

-----------------------------------------------------------------------------
(* What the run enumerates is among the inputs of these theorems.          *)

RunLabels ==
    {"", "QM", "ASIL-B", "ASIL-D", "absent", "H1", "H2", "H3", "G1", "G2", "S1", "S2",
     "R1", "R2", "a.cpp"}

LEMMA HarasAreLabelled ==
    /\ HasDefaults(RunLabels)
    /\ \A h \in HaraFiles : h.is = "read" => h \in AHara(RunLabels)
<1>1. HasDefaults(RunLabels)
  BY DEF HasDefaults, RunLabels
<1>2. IsFiniteSet({}) /\ (\A x : IsFiniteSet({x})) /\ (\A x, y : IsFiniteSet({x, y}))
  <2>1. ASSUME NEW x, NEW y PROVE IsFiniteSet({x, y})
    <3>1. {x} \cup {y} = {x, y}
      OBVIOUS
    <3>2. IsFiniteSet({x})
      BY FS_Singleton
    <3>3. IsFiniteSet({x} \cup {y})
      BY <3>2, FS_AddElement
    <3> QED BY <3>1, <3>3
  <2> QED BY <2>1, FS_EmptySet, FS_Singleton
<1>3. /\ {} \in FiniteLabels(RunLabels) /\ {"G1"} \in FiniteLabels(RunLabels)
      /\ {"G2"} \in FiniteLabels(RunLabels) /\ {"S1"} \in FiniteLabels(RunLabels)
      /\ {"S2"} \in FiniteLabels(RunLabels) /\ {"H1"} \in FiniteLabels(RunLabels)
      /\ {"R1"} \in FiniteLabels(RunLabels) /\ {"R2"} \in FiniteLabels(RunLabels)
      /\ {"H2", "H3"} \in FiniteLabels(RunLabels)
  BY <1>2 DEF FiniteLabels, RunLabels
<1>4. /\ {"", "QM", "ASIL-B", "ASIL-D", "absent", "H1", "H2", "G1", "G2", "S1", "S2"} \subseteq RunLabels
      /\ {"S1"} \in SUBSET RunLabels
  BY DEF RunLabels
<1> HIDE DEF RunLabels
<1>5. Hazards \subseteq AHazard(RunLabels)
  <2> DEFINE hazard(id, risk, rated, asil, goals, situations) ==
                [id |-> id, risk |-> risk, rated |-> rated, asil |-> asil, goals |-> goals,
                 situations |-> situations]
  <2>1. \A id, asil \in RunLabels : \A risk, rated \in BOOLEAN :
            \A goals, situations \in FiniteLabels(RunLabels) :
                hazard(id, risk, rated, asil, goals, situations) \in AHazard(RunLabels)
    BY DEF AHazard
  <2>2. Hazards = {hazard("H1", TRUE, TRUE, asil, {"G1"}, {"S1"}) : asil \in {"QM", "ASIL-B", "ASIL-D"}}
                  \cup {hazard("H2", FALSE, FALSE, "", {}, {}),
                        hazard("H2", TRUE, FALSE, "absent", {"G2"}, {"S2"})}
    BY DEF Hazards
  <2> HIDE DEF hazard
  <2>3. \A asil \in {"QM", "ASIL-B", "ASIL-D"} :
            hazard("H1", TRUE, TRUE, asil, {"G1"}, {"S1"}) \in AHazard(RunLabels)
    BY <1>3, <1>4, <2>1
  <2>4. hazard("H2", FALSE, FALSE, "", {}, {}) \in AHazard(RunLabels)
    BY <1>3, <1>4, <2>1
  <2>5. hazard("H2", TRUE, FALSE, "absent", {"G2"}, {"S2"}) \in AHazard(RunLabels)
    BY <1>3, <1>4, <2>1
  <2> QED BY <2>2, <2>3, <2>4, <2>5
<1>6. Goals \subseteq AGoal(RunLabels)
  <2> DEFINE goal(id, asil, hazards, fssr) ==
                [id |-> id, asil |-> asil, hazards |-> hazards, fssr |-> fssr]
  <2>1. \A id, asil \in RunLabels : \A hazards, fssr \in FiniteLabels(RunLabels) :
            goal(id, asil, hazards, fssr) \in AGoal(RunLabels)
    BY DEF AGoal
  <2>2. Goals = {goal("G1", "ASIL-B", {"H1"}, {"R1"}), goal("G2", "absent", {"H2", "H3"}, {"R2"})}
    BY DEF Goals
  <2> HIDE DEF goal
  <2>3. goal("G1", "ASIL-B", {"H1"}, {"R1"}) \in AGoal(RunLabels)
    BY <1>3, <1>4, <2>1
  <2>4. goal("G2", "absent", {"H2", "H3"}, {"R2"}) \in AGoal(RunLabels)
    BY <1>3, <1>4, <2>1
  <2> QED BY <2>2, <2>3, <2>4
<1>7. BoundedSeq(Hazards, 2) \subseteq Seq(AHazard(RunLabels))
  BY <1>5, BoundedIsSeq, 2 \in Nat, Zenon
<1>8. BoundedSeq(Goals, 2) \subseteq Seq(AGoal(RunLabels))
  BY <1>6, BoundedIsSeq, 2 \in Nat, Zenon
<1>9. ASSUME NEW h \in HaraFiles, h.is = "read" PROVE h \in AHara(RunLabels)
  <2>1. PICK hs \in BoundedSeq(Hazards, 2), gs \in BoundedSeq(Goals, 2) :
              h = [is |-> "read", situations |-> {"S1"}, hazards |-> hs, goals |-> gs]
    BY <1>9 DEF HaraFiles, Missing, Torn
  <2>2. hs \in Seq(AHazard(RunLabels)) /\ gs \in Seq(AGoal(RunLabels))
    BY <1>7, <1>8
  <2> QED BY <1>4, <2>1, <2>2 DEF AHara
<1> QED BY <1>1, <1>9

LEMMA FindingsAreLabelled == FindingLists \subseteq Seq(AFinding(RunLabels))
<1> DEFINE some == {Finding("R1", "ERROR", "", 0), Finding("R1", "WARNING", "a.cpp", 1),
                    Finding("R1", "ERROR", "a.cpp", 1), Finding("R2", "WARNING", "a.cpp", 2),
                    Finding("R1", "INFO", "a.cpp", 2)}
<1>1. some \subseteq AFinding(RunLabels)
  BY DEF Finding, AFinding, RunLabels
<1>2. FindingLists = BoundedSeq(some, 3)
  BY DEF FindingLists
<1> HIDE DEF some
<1>3. BoundedSeq(some, 3) \subseteq Seq(AFinding(RunLabels))
  BY <1>1, BoundedIsSeq, 3 \in Nat, Zenon
<1> QED BY <1>2, <1>3

LEMMA ProjectsHaveFields ==
    /\ \A p \in HaraProjects : {"hara", "asil"} \subseteq DOMAIN p /\ p.hara \in HaraFiles
    /\ \A p \in SourceProjects : ProjectFields \subseteq DOMAIN p
<1> DEFINE rated(h, a) == [Plain EXCEPT !.hara = h, !.asil = a]
           with(s, c, e) == [Plain EXCEPT !.sources = s, !.changelog = c, !.evidence = e]
           levels == {"", "A", "ASIL-C"}
<1>1. DOMAIN Plain = ProjectFields
  BY DEF Plain, ProjectFields
<1>2. \A h, a : DOMAIN rated(h, a) = DOMAIN Plain /\ rated(h, a).hara = h
  BY <1>1 DEF ProjectFields
<1>3. \A s, c, e : DOMAIN with(s, c, e) = DOMAIN Plain
  OBVIOUS
<1>4. HaraProjects = {rated(h, a) : h \in HaraFiles, a \in levels}
  BY DEF HaraProjects
<1>5. SourceProjects = {with(s, c, e) : s \in SUBSET SourceFiles, c \in {"missing", "directory"},
                                       e \in Failing}
  BY DEF SourceProjects
<1> HIDE DEF rated, with, levels
<1>6. \A p \in HaraProjects : DOMAIN p = DOMAIN Plain /\ p.hara \in HaraFiles
  <2> SUFFICES ASSUME NEW p \in HaraProjects
               PROVE  DOMAIN p = DOMAIN Plain /\ p.hara \in HaraFiles
    OBVIOUS
  <2>1. PICK h \in HaraFiles, a \in levels : p = rated(h, a)
    BY <1>4
  <2> QED BY <1>2, <2>1, Zenon
<1>7. \A p \in SourceProjects : DOMAIN p = DOMAIN Plain
  BY <1>3, <1>5
<1> QED BY <1>1, <1>6, <1>7 DEF ProjectFields

-----------------------------------------------------------------------------
(* Coverage: the records of an lcov file.                                  *)

LEMMA SameInCoverage ==
    /\ \A S : CO!Cardinality(S) = Cardinality(S)
    /\ \A S : CO!Max(S) = Max(S)
    /\ \A s : CO!FlattenSeq(s) = FlattenSeq(s)
    /\ \A numbers : CO!Total(numbers) = Total(numbers)
<1>1. \A S : CO!Cardinality(S) = Cardinality(S)
  BY DEF CO!Cardinality, Cardinality, CO!IsFiniteSet, IsFiniteSet
<1>2. \A S : CO!Max(S) = Max(S)
  BY DEF CO!Max, Max
<1>3. \A s : CO!FlattenSeq(s) = FlattenSeq(s)
  BY DEF CO!FlattenSeq, FlattenSeq
<1>4. \A numbers : CO!Total(numbers) = Total(numbers)
  BY DEF CO!Total, Total, CO!FoldLeft, FoldLeft, CO!MapThenFoldSet, MapThenFoldSet, CO!Max, Max
<1> QED BY <1>1, <1>2, <1>3, <1>4

LcovLine(LineKeys) == [key : LineKeys, value : Nat]
LcovFiles == [LF : Nat, LH : Nat, BRF : Nat, BRH : Nat]
LcovStates == [in : BOOLEAN, current : LcovFiles, files : Seq(LcovFiles)]
Reading(current, files) == [in |-> TRUE, current |-> current, files |-> files]
Between(current, files) == [in |-> FALSE, current |-> current, files |-> files]
NoLcov == [in |-> FALSE, current |-> CO!NoFile, files |-> <<>>]

(* A line of the file keeps the form of what is read, and at most an end   *)
(* adds a record.                                                          *)
LEMMA LcovStepIsState ==
    ASSUME NEW LineKeys, NEW s \in LcovStates, NEW line \in LcovLine(LineKeys)
    PROVE  /\ CO!LcovStep(s, line) \in LcovStates
           /\ Len(CO!LcovStep(s, line).files) <= Len(s.files) + 1
           /\ line.key # "end" => CO!LcovStep(s, line).files = s.files
<1> DEFINE in == s.in
           current == s.current
           files == s.files
           t == CO!LcovStep(s, line)
<1>1. /\ in \in BOOLEAN /\ current \in LcovFiles /\ files \in Seq(LcovFiles)
      /\ Len(files) \in Nat /\ line.value \in Nat /\ CO!NoFile \in LcovFiles
      /\ DOMAIN CO!NoFile = {"LF", "LH", "BRF", "BRH"}
  BY DEF LcovStates, LcovLine, LcovFiles, CO!NoFile
<1>2. /\ in => s = Reading(current, files)
      /\ ~in => s = Between(current, files)
  BY DEF LcovStates, Reading, Between
<1>3. \A c \in LcovFiles, f \in Seq(LcovFiles) :
          /\ Reading(c, f) \in LcovStates /\ Reading(c, f).files = f
          /\ Between(c, f) \in LcovStates /\ Between(c, f).files = f
  BY DEF LcovStates, Reading, Between
<1>4. s = [in |-> s.in, current |-> s.current, files |-> s.files]
  BY DEF LcovStates
<1>5. PICK begun : begun = [s EXCEPT !.in = TRUE, !.current = CO!NoFile]
  OBVIOUS
<1>6. PICK ended : ended = [s EXCEPT !.in = FALSE, !.files = Append(s.files, s.current)]
  OBVIOUS
<1>7. PICK read : read = [s EXCEPT !.current[line.key] = line.value]
  OBVIOUS
<1>8. begun = Reading(CO!NoFile, files) /\ ended = Between(current, Append(files, current))
  <2>1. begun = [in |-> TRUE, current |-> CO!NoFile, files |-> files]
    BY <1>4, <1>5
  <2>2. ended = [in |-> FALSE, current |-> current, files |-> Append(files, current)]
    BY <1>4, <1>6
  <2> QED BY <2>1, <2>2, Zenon DEF Reading, Between
<1>9. in => read = Reading([current EXCEPT ![line.key] = line.value], files)
  <2>1. PICK file : file = [current EXCEPT ![line.key] = line.value]
    OBVIOUS
  <2>2. read = [s EXCEPT !.current = file]
    BY <1>7, <2>1
  <2>3. in => read = [in |-> TRUE, current |-> file, files |-> files]
    BY <1>4, <1>1, <2>2
  <2> QED BY <2>1, <2>3, Zenon DEF Reading
<1>10. t = CASE line.key = "SF" -> begun
            [] line.key = "end" /\ in -> ended
            [] in /\ line.key \in DOMAIN CO!NoFile -> read
            [] OTHER -> s
  BY <1>5, <1>6, <1>7, Zenon DEF CO!LcovStep
<1>11. Append(files, current) \in Seq(LcovFiles) /\ Len(Append(files, current)) = Len(files) + 1
  BY <1>1
<1>12. line.key \in DOMAIN CO!NoFile => [current EXCEPT ![line.key] = line.value] \in LcovFiles
  BY <1>1 DEF LcovFiles
<1> SUFFICES /\ t \in LcovStates
             /\ Len(t.files) <= Len(files) + 1
             /\ line.key # "end" => t.files = files
  OBVIOUS
<1>13. in \in BOOLEAN
  BY <1>1
<1>14. "SF" \notin DOMAIN CO!NoFile /\ "end" \notin DOMAIN CO!NoFile
  BY <1>1
<1> HIDE DEF t, in, current, files
<1>15. CASE line.key = "SF"
  <2>1. t = Reading(CO!NoFile, files)
    BY <1>8, <1>10, <1>13, <1>15, <1>14
  <2> QED BY <1>1, <1>3, <1>15, <2>1
<1>16. CASE line.key = "end" /\ in
  <2>1. t = Between(current, Append(files, current))
    BY <1>8, <1>10, <1>13, <1>16, <1>14
  <2>2. t \in LcovStates /\ t.files = Append(files, current)
    BY <1>1, <1>3, <1>11, <2>1, Zenon
  <2> QED BY <1>1, <1>11, <1>16, <2>2
<1>17. CASE line.key # "SF" /\ line.key # "end" /\ in /\ line.key \in DOMAIN CO!NoFile
  <2>1. t = Reading([current EXCEPT ![line.key] = line.value], files)
    BY <1>9, <1>10, <1>13, <1>17, <1>14
  <2> QED BY <1>1, <1>3, <1>12, <1>17, <2>1
<1>18. CASE line.key # "SF" /\ ~ (line.key = "end" /\ in) /\ ~ (in /\ line.key \in DOMAIN CO!NoFile)
  <2>1. t = s
    BY <1>10, <1>13, <1>18, <1>14
  <2>2. s \in LcovStates /\ s.files = files
    BY DEF files
  <2> QED BY <1>1, <2>1, <2>2
<1> QED BY <1>1, <1>15, <1>16, <1>17, <1>18

LEMMA LcovRuns ==
    ASSUME NEW LineKeys, NEW n \in Nat, NEW lines \in [1..n -> LcovLine(LineKeys)]
    PROVE  \E run \in [0..n -> LcovStates] :
             /\ run[0] = NoLcov
             /\ run[n].files = CO!FilesOf(lines)
             /\ \A k \in 1..n : run[k] = CO!LcovStep(run[k - 1], lines[k])
<1> DEFINE base == NoLcov
           body(f) == [s \in SUBSET (1..n) |->
                         IF s = {} THEN base
                         ELSE CO!LcovStep(f[s \ {CO!Max(s)}], lines[CO!Max(s)])]
           chosen == CHOOSE f : f = body(f)
           step == [k \in 1..n |-> [v \in LcovStates |-> CO!LcovStep(v, lines[k])]]
<1>1. step \in [1..n -> [LcovStates -> LcovStates]]
  BY LcovStepIsState
<1>2. base \in LcovStates
  BY DEF NoLcov, LcovStates, LcovFiles, CO!NoFile
<1>3. CO!FilesOf(lines) = chosen[1..n].files
  BY DEF CO!FilesOf, CO!FoldLeft, CO!MapThenFoldSet, NoLcov
<1> HIDE DEF base
<1>4. PICK f \in [SUBSET (1..n) -> LcovStates] : Folds(f, n, base, step)
  <2> HIDE DEF step
  <2> QED BY <1>2, <1>1, FoldExists
<1>5. \A s \in SUBSET (1..n) : s # {} => Max(s) \in 1..n /\ CO!Max(s) = Max(s)
  BY LastPlace, SameInCoverage
<1>6. f = body(f)
  <2>1. \A s \in SUBSET (1..n) : s # {} => f[s \ {Max(s)}] \in LcovStates
    BY <1>4
  <2>2. \A s \in SUBSET (1..n) :
            f[s] = IF s = {} THEN base ELSE CO!LcovStep(f[s \ {CO!Max(s)}], lines[CO!Max(s)])
    BY <1>4, <1>5, <2>1 DEF Folds
  <2> QED BY <1>4, <2>2
<1>7. chosen = body(chosen)
  BY <1>6
<1> HIDE DEF chosen
<1>8. FoldsIn(LcovStates, chosen, n, base, step)
  BY <1>5, <1>7 DEF FoldsIn
<1> HIDE DEF step
<1>9. RunsThrough(LcovStates, chosen, n, base, step)
  BY <1>2, <1>1, <1>8, FoldRuns, Zenon
<1>10. PICK run \in [0..n -> LcovStates] : Runs(run, n, base, step) /\ run[n] = chosen[1..n]
  BY <1>9 DEF RunsThrough
<1>11. ASSUME NEW k \in 1..n PROVE run[k] = CO!LcovStep(run[k - 1], lines[k])
  <2>1. run[k] = step[k][run[k - 1]] /\ run[k - 1] \in LcovStates
    BY <1>10 DEF Runs
  <2> QED BY <2>1 DEF step
<1>12. run[0] = base
  BY <1>10 DEF Runs
<1> QED BY <1>3, <1>10, <1>11, <1>12 DEF base

(* There are no more records than lines that end one.                      *)
EndsUpTo(lines, m) == {i \in 1..m : lines[i].key = "end"}

LEMMA EndsAreCounted ==
    ASSUME NEW n \in Nat, NEW lines, NEW m \in 1..n
    PROVE  /\ Cardinality(EndsUpTo(lines, m)) \in Nat /\ Cardinality(EndsUpTo(lines, m - 1)) \in Nat
           /\ Cardinality(EndsUpTo(lines, m)) =
                  Cardinality(EndsUpTo(lines, m - 1)) + IF lines[m].key = "end" THEN 1 ELSE 0
<1>1. IsFiniteSet(1..(m - 1))
  BY FS_Interval
<1>2. IsFiniteSet(EndsUpTo(lines, m - 1))
  BY <1>1, FS_Subset DEF EndsUpTo
<1>3. Cardinality(EndsUpTo(lines, m - 1)) \in Nat
  BY <1>2, FS_CardinalityType
<1>4. CASE lines[m].key = "end"
  <2>1. EndsUpTo(lines, m) = EndsUpTo(lines, m - 1) \cup {m}
    BY <1>4 DEF EndsUpTo
  <2>2. m \notin EndsUpTo(lines, m - 1)
    BY DEF EndsUpTo
  <2>3. Cardinality(EndsUpTo(lines, m - 1) \cup {m}) = Cardinality(EndsUpTo(lines, m - 1)) + 1
    BY <1>2, <2>2, FS_AddElement
  <2> QED BY <1>3, <1>4, <2>1, <2>3
<1>5. CASE lines[m].key # "end"
  <2>1. EndsUpTo(lines, m) = EndsUpTo(lines, m - 1)
    BY <1>5 DEF EndsUpTo
  <2> QED BY <1>3, <1>5, <2>1
<1> QED BY <1>4, <1>5

LEMMA RecordsEnd ==
    ASSUME NEW LineKeys, NEW n \in Nat, NEW lines \in [1..n -> LcovLine(LineKeys)]
    PROVE  /\ CO!FilesOf(lines) \in Seq(LcovFiles)
           /\ Len(CO!FilesOf(lines)) <= Cardinality(EndsUpTo(lines, n))
<1>1. PICK run \in [0..n -> LcovStates] :
             /\ run[0] = NoLcov
             /\ run[n].files = CO!FilesOf(lines)
             /\ \A k \in 1..n : run[k] = CO!LcovStep(run[k - 1], lines[k])
  BY LcovRuns
<1>2. \A k \in 0..n : run[k].files \in Seq(LcovFiles) /\ Len(run[k].files) \in Nat
  BY DEF LcovStates
<1> DEFINE S == {m \in 0..n : Len(run[m].files) <= Cardinality(EndsUpTo(lines, m))}
<1>3. 0 \in S
  <2>1. EndsUpTo(lines, 0) = {}
    BY DEF EndsUpTo
  <2>2. Cardinality(EndsUpTo(lines, 0)) = 0
    BY <2>1, FS_EmptySet
  <2>3. Len(run[0].files) = 0
    BY <1>1 DEF NoLcov
  <2> QED BY <2>2, <2>3
<1>4. ASSUME NEW m \in 1..n, m - 1 \in S PROVE m \in S
  <2>1. /\ run[m] = CO!LcovStep(run[m - 1], lines[m])
        /\ run[m - 1] \in LcovStates /\ lines[m] \in LcovLine(LineKeys)
    BY <1>1
  <2>2. /\ Len(run[m].files) <= Len(run[m - 1].files) + 1
        /\ lines[m].key # "end" => run[m].files = run[m - 1].files
    BY <2>1, LcovStepIsState
  <2>3. Len(run[m - 1].files) <= Cardinality(EndsUpTo(lines, m - 1))
    BY <1>4
  <2>4. Len(run[m].files) \in Nat /\ Len(run[m - 1].files) \in Nat
    BY <1>2
  <2>5. /\ Cardinality(EndsUpTo(lines, m)) \in Nat /\ Cardinality(EndsUpTo(lines, m - 1)) \in Nat
        /\ Cardinality(EndsUpTo(lines, m)) =
               Cardinality(EndsUpTo(lines, m - 1)) + IF lines[m].key = "end" THEN 1 ELSE 0
    BY EndsAreCounted
  <2> QED BY <2>2, <2>3, <2>4, <2>5
<1> HIDE DEF S
<1>5. \A m \in 0..n : m \in S
  BY <1>3, <1>4, UpTo, Zenon
<1> QED BY <1>1, <1>2, <1>5 DEF S

(* Sums over the files of a record are totals of natural numbers.          *)
Shares == {"LF", "LH", "BRF", "BRH"}
ValuesOf(files, key) == [i \in 1..Len(files) |-> files[i][key]]

LEMMA SumsAreTotals ==
    ASSUME NEW files \in Seq(LcovFiles), NEW key \in Shares
    PROVE  /\ CO!Sum(files, key) = Total(ValuesOf(files, key))
           /\ ValuesOf(files, key) \in [1..Len(files) -> Nat]
           /\ CO!Sum(files, key) \in Nat
           /\ CO!Sum(files, key) = 0 <=> \A i \in 1..Len(files) : files[i][key] = 0
<1>1. Len(files) \in Nat /\ DOMAIN files = 1..Len(files) /\ \A i \in 1..Len(files) : files[i] \in LcovFiles
  OBVIOUS
<1>2. \A i \in 1..Len(files) : files[i][key] \in Nat
  BY <1>1 DEF LcovFiles, Shares
<1>3. ValuesOf(files, key) \in [1..Len(files) -> Nat]
  BY <1>2 DEF ValuesOf
<1>4. CO!Sum(files, key) = Total(ValuesOf(files, key))
  BY <1>1, SameInCoverage DEF CO!Sum, ValuesOf
<1>5. /\ Total(ValuesOf(files, key)) \in Nat
      /\ Total(ValuesOf(files, key)) = 0 <=> \A i \in 1..Len(files) : ValuesOf(files, key)[i] = 0
  BY <1>1, <1>3, TotalOfNothing
<1>6. \A i \in 1..Len(files) : ValuesOf(files, key)[i] = files[i][key]
  BY DEF ValuesOf
<1> QED BY <1>3, <1>4, <1>5, <1>6

(* All found and hit: each of them is.                                     *)
LEMMA FullIsOfEach ==
    ASSUME NEW files \in Seq(LcovFiles), NEW hit \in Shares, NEW found \in Shares,
           \A i \in 1..Len(files) : files[i][hit] <= files[i][found],
           CO!Reaches(CO!Sum(files, hit), CO!Sum(files, found), 100)
    PROVE  /\ \E i \in 1..Len(files) : files[i][found] > 0
           /\ \A i \in 1..Len(files) : files[i][hit] = files[i][found]
<1>1. Len(files) \in Nat /\ \A i \in 1..Len(files) : files[i] \in LcovFiles
  OBVIOUS
<1>2. \A i \in 1..Len(files) : ValuesOf(files, hit)[i] = files[i][hit]
                               /\ ValuesOf(files, found)[i] = files[i][found]
  BY DEF ValuesOf
<1>3. /\ CO!Sum(files, hit) = Total(ValuesOf(files, hit)) /\ CO!Sum(files, hit) \in Nat
      /\ CO!Sum(files, found) = Total(ValuesOf(files, found)) /\ CO!Sum(files, found) \in Nat
      /\ ValuesOf(files, hit) \in [1..Len(files) -> Nat] /\ ValuesOf(files, found) \in [1..Len(files) -> Nat]
      /\ CO!Sum(files, found) = 0 <=> \A i \in 1..Len(files) : files[i][found] = 0
  BY SumsAreTotals
<1>4. /\ Total(ValuesOf(files, hit)) <= Total(ValuesOf(files, found))
      /\ Total(ValuesOf(files, hit)) = Total(ValuesOf(files, found))
           => \A i \in 1..Len(files) : ValuesOf(files, hit)[i] = ValuesOf(files, found)[i]
  BY <1>1, <1>2, <1>3, TotalGrows
<1>5. CO!Sum(files, found) # 0 /\ 100 * CO!Sum(files, hit) >= 100 * CO!Sum(files, found)
  BY <1>3 DEF CO!Reaches
<1>6. CO!Sum(files, hit) = CO!Sum(files, found)
  BY <1>3, <1>4, <1>5
<1>7. \A i \in 1..Len(files) : files[i][hit] = files[i][found]
  BY <1>2, <1>3, <1>4, <1>6
<1>8. \E i \in 1..Len(files) : files[i][found] # 0
  BY <1>3, <1>5
<1>9. \A i \in 1..Len(files) : files[i][found] \in Nat
  BY <1>1 DEF LcovFiles, Shares
<1> QED BY <1>7, <1>8, <1>9

LEMMA FullIsOfEveryFile ==
    ASSUME NEW LineKeys, NEW lines \in Seq(LcovLine(LineKeys))
    PROVE  CO!FullMeansEveryFile(lines)
<1> SUFFICES ASSUME NEW dal \in {"A", "B"}, CO!build_from_lcov(lines, dal).meets_dal,
                    \A i \in DOMAIN CO!build_from_lcov(lines, dal).files :
                        /\ CO!build_from_lcov(lines, dal).files[i].LH <= CO!build_from_lcov(lines, dal).files[i].LF
                        /\ CO!build_from_lcov(lines, dal).files[i].BRH <= CO!build_from_lcov(lines, dal).files[i].BRF
             PROVE  LET files == CO!build_from_lcov(lines, dal).files IN
                    /\ \E i \in DOMAIN files : files[i].LF > 0
                    /\ \E i \in DOMAIN files : files[i].BRF > 0
                    /\ \A i \in DOMAIN files : files[i].LH = files[i].LF /\ files[i].BRH = files[i].BRF
                    /\ Len(files) <= CO!Cardinality({i \in DOMAIN lines : lines[i].key = "end"})
  BY DEF CO!FullMeansEveryFile
<1> DEFINE files == CO!FilesOf(lines)
<1>1. Len(lines) \in Nat /\ DOMAIN lines = 1..Len(lines) /\ lines \in [1..Len(lines) -> LcovLine(LineKeys)]
  OBVIOUS
<1>2. files \in Seq(LcovFiles) /\ Len(files) <= Cardinality(EndsUpTo(lines, Len(lines)))
  BY <1>1, RecordsEnd
<1>3. EndsUpTo(lines, Len(lines)) = {i \in DOMAIN lines : lines[i].key = "end"}
  BY <1>1 DEF EndsUpTo
<1>4. Len(files) <= CO!Cardinality({i \in DOMAIN lines : lines[i].key = "end"})
  BY <1>2, <1>3, SameInCoverage
<1>5. CO!build_from_lcov(lines, dal).files = files
  BY DEF CO!build_from_lcov
<1>6. CO!line_threshold(dal) = 100 /\ CO!branch_threshold(dal) = 100
  BY DEF CO!line_threshold, CO!branch_threshold
<1>7. /\ CO!Reaches(CO!Sum(files, "LH"), CO!Sum(files, "LF"), 100)
      /\ CO!Reaches(CO!Sum(files, "BRH"), CO!Sum(files, "BRF"), 100)
  BY <1>6 DEF CO!build_from_lcov
<1>8. DOMAIN files = 1..Len(files)
  BY <1>2
<1>9. \A i \in 1..Len(files) : files[i]["LH"] <= files[i]["LF"] /\ files[i]["BRH"] <= files[i]["BRF"]
  BY <1>5, <1>8
<1> HIDE DEF files
<1>10. /\ \E i \in 1..Len(files) : files[i]["LF"] > 0
       /\ \A i \in 1..Len(files) : files[i]["LH"] = files[i]["LF"]
  BY <1>2, <1>7, <1>9, FullIsOfEach DEF Shares
<1>11. /\ \E i \in 1..Len(files) : files[i]["BRF"] > 0
       /\ \A i \in 1..Len(files) : files[i]["BRH"] = files[i]["BRF"]
  BY <1>2, <1>7, <1>9, FullIsOfEach DEF Shares
<1> QED BY <1>4, <1>5, <1>8, <1>10, <1>11

(* Thresholds fall from level to level.                                    *)
LEMMA LevelsFall ==
    ASSUME NEW LineKeys, NEW lines \in Seq(LcovLine(LineKeys))
    PROVE  CO!LevelsAreOrdered(lines)
<1> DEFINE files == CO!FilesOf(lines)
           lh == CO!Sum(files, "LH")
           lf == CO!Sum(files, "LF")
           bh == CO!Sum(files, "BRH")
           bf == CO!Sum(files, "BRF")
<1>1. files \in Seq(LcovFiles)
  <2>1. Len(lines) \in Nat /\ lines \in [1..Len(lines) -> LcovLine(LineKeys)]
    OBVIOUS
  <2> QED BY <2>1, RecordsEnd
<1> HIDE DEF files
<1>2. lh \in Nat /\ lf \in Nat /\ bh \in Nat /\ bf \in Nat
  BY <1>1, SumsAreTotals DEF Shares
<1> HIDE DEF lh, lf, bh, bf
<1>3. \A dal : CO!build_from_lcov(lines, dal).meets_dal <=>
          /\ CO!Reaches(lh, lf, CO!line_threshold(dal))
          /\ CO!Reaches(bh, bf, CO!branch_threshold(dal)) \/ CO!branch_threshold(dal) = 0
  BY Zenon DEF CO!build_from_lcov, files, lh, lf, bh, bf
<1>4. /\ CO!line_threshold("A") = 100 /\ CO!line_threshold("B") = 100 /\ CO!line_threshold("C") = 100
      /\ CO!line_threshold("D") = 75
      /\ CO!branch_threshold("A") = 100 /\ CO!branch_threshold("B") = 100
      /\ CO!branch_threshold("C") = 75 /\ CO!branch_threshold("D") = 0
  BY DEF CO!line_threshold, CO!branch_threshold
<1>5. /\ CO!parse_dal("A") = "A" /\ CO!parse_dal("B") = "B" /\ CO!parse_dal("C") = "C"
      /\ CO!parse_dal("DAL-X") = "D"
  BY DEF CO!parse_dal
<1>6. \A h, f \in Nat : CO!Reaches(h, f, 100) => CO!Reaches(h, f, 75)
  BY DEF CO!Reaches
<1>7. CO!Meets(lines, "A") => CO!Meets(lines, "B")
  BY <1>3, <1>4, <1>5 DEF CO!Meets
<1>8. CO!Meets(lines, "B") => CO!Meets(lines, "C")
  BY <1>2, <1>3, <1>4, <1>5, <1>6 DEF CO!Meets
<1>9. CO!Meets(lines, "C") => CO!Meets(lines, "DAL-X")
  BY <1>2, <1>3, <1>4, <1>5, <1>6 DEF CO!Meets
<1> QED BY <1>7, <1>8, <1>9 DEF CO!LevelsAreOrdered

(* MC/DC: as many covered as there are means each of them.                 *)
LEMMA FullCount ==
    ASSUME NEW n \in Nat, NEW covered \in SUBSET (1..n)
    PROVE  CO!Reaches(CO!Cardinality(covered), n, 100) <=> n # 0 /\ covered = 1..n
<1>1. IsFiniteSet(1..n) /\ Cardinality(1..n) = n
  BY SizeUpTo
<1>2. IsFiniteSet(covered) /\ Cardinality(covered) <= n
      /\ (Cardinality(covered) = n => covered = 1..n)
  BY <1>1, FS_Subset
<1>3. Cardinality(covered) \in Nat
  BY <1>2, FS_CardinalityType
<1>4. CO!Cardinality(covered) = Cardinality(covered)
  BY SameInCoverage
<1>5. Cardinality(covered) = n <=> covered = 1..n
  BY <1>1, <1>2
<1>6. CO!Reaches(Cardinality(covered), n, 100) <=> n # 0 /\ Cardinality(covered) = n
  BY <1>2, <1>3 DEF CO!Reaches
<1> QED BY <1>4, <1>5, <1>6

LEMMA FullIsOfBoth ==
    ASSUME NEW records \in Seq(Seq(Nat \X Nat))
    PROVE  CO!McdcMeansBoth(records)
<1> DEFINE all == CO!FlattenSeq(records)
           both(c) == c[1] > 0 /\ c[2] > 0
           covered == {i \in 1..Len(all) : both(all[i])}
<1>1. /\ Len(records) \in Nat /\ DOMAIN records = 1..Len(records)
      /\ records \in [1..Len(records) -> Seq(Nat \X Nat)]
  OBVIOUS
<1>2. /\ all \in Seq(Nat \X Nat)
      /\ \A v : Among(v, all) <=> \E r \in 1..Len(records) : Among(v, records[r])
  BY <1>1, FlattenHas, SameInCoverage
<1>3. Len(all) \in Nat /\ DOMAIN all = 1..Len(all) /\ \A i \in 1..Len(all) : all[i] \in Nat \X Nat
  BY <1>2
<1>4. CO!apply_mcdc(records, 100) <=> CO!Reaches(CO!Cardinality(covered), Len(all), 100)
  BY <1>3 DEF CO!apply_mcdc, CO!is_covered
<1> HIDE DEF all
<1>5. covered \in SUBSET (1..Len(all))
  OBVIOUS
<1>6. CO!apply_mcdc(records, 100) <=> Len(all) # 0 /\ covered = 1..Len(all)
  <2> HIDE DEF covered
  <2> QED BY <1>3, <1>4, <1>5, FullCount
<1>7. \A r \in 1..Len(records) : /\ Len(records[r]) \in Nat /\ DOMAIN records[r] = 1..Len(records[r])
                                 /\ records[r] = <<>> <=> Len(records[r]) = 0
                                 /\ \A c \in 1..Len(records[r]) : records[r][c] \in Nat \X Nat
  BY <1>1
<1>8. covered = 1..Len(all) <=> \A v : Among(v, all) => both(v)
  BY DEF Among
<1>9. Len(all) # 0 <=> \E v : Among(v, all)
  BY <1>3 DEF Among
<1>10. Len(all) # 0 <=> \E r \in DOMAIN records : records[r] # <<>>
  <2>1. ASSUME NEW r \in 1..Len(records) PROVE records[r] # <<>> <=> \E v : Among(v, records[r])
    <3>1. ASSUME records[r] # <<>> PROVE Among(records[r][1], records[r])
      <4>1. Len(records[r]) \in Nat /\ Len(records[r]) # 0
        BY <1>7, <3>1, Zenon
      <4>2. 1 \in 1..Len(records[r])
        BY <4>1
      <4> QED BY <4>2, Zenon DEF Among
    <3>2. ASSUME NEW v, Among(v, records[r]) PROVE records[r] # <<>>
      BY <1>7, <3>2 DEF Among
    <3> QED BY <3>1, <3>2
  <2> HIDE DEF both
  <2>2. (\E v : Among(v, all)) <=> \E r \in 1..Len(records) : \E v : Among(v, records[r])
    BY <1>2, Zenon
  <2> QED BY <1>1, <1>9, <2>1, <2>2
<1>11. (\A v : Among(v, all) => both(v)) <=>
           \A r \in 1..Len(records) : \A v : Among(v, records[r]) => both(v)
  <2> HIDE DEF both
  <2> QED BY <1>2, Zenon
<1>12. ASSUME NEW r \in 1..Len(records)
       PROVE  (\A v : Among(v, records[r]) => both(v)) <=>
                  \A c \in DOMAIN records[r] : 0 \notin {records[r][c][1], records[r][c][2]}
  <2>1. (\A v : Among(v, records[r]) => both(v)) <=> \A c \in 1..Len(records[r]) : both(records[r][c])
    BY DEF Among
  <2>2. \A c \in 1..Len(records[r]) : both(records[r][c]) <=> 0 \notin {records[r][c][1], records[r][c][2]}
    BY <1>7
  <2> QED BY <1>7, <2>1, <2>2
<1> HIDE DEF both, covered
<1>13. covered = 1..Len(all) <=>
           \A r \in DOMAIN records : \A c \in DOMAIN records[r] :
               0 \notin {records[r][c][1], records[r][c][2]}
  BY <1>1, <1>8, <1>11, <1>12, Zenon
<1> QED BY <1>6, <1>10, <1>13, Zenon DEF CO!McdcMeansBoth

-----------------------------------------------------------------------------
(* Tags.                                                                   *)

LEMMA SameInFunctions == \A S : FU!Cardinality(S) = Cardinality(S)
BY DEF FU!Cardinality, Cardinality, FU!IsFiniteSet, IsFiniteSet

(* A line of a source, with the functions that occur in Fs.                *)
SourceLine(Fs) == [indented : BOOLEAN, is : FU!LineKinds, calls : Seq(Fs)]

(* The tag above a line is that line's, as long as the line is code.       *)
TagOf(lines, i, t) ==
    /\ t \in 1..(i - 1) /\ lines[t].is = "tag"
    /\ \A j \in t..(i - 1) : lines[j].is \in {"tag", "comment"}

LEMMA TagsDiffer ==
    ASSUME NEW n \in Nat, NEW lines, NEW d \in 1..n, NEW e \in 1..n, NEW t,
           lines[d].is = "code", lines[e].is = "code",
           TagOf(lines, d, t), TagOf(lines, e, t)
    PROVE  d = e
<1>1. ASSUME d < e PROVE FALSE
  <2>1. d \in t..(e - 1)
    BY <1>1 DEF TagOf
  <2> QED BY <2>1 DEF TagOf
<1>2. ASSUME e < d PROVE FALSE
  <2>1. e \in t..(d - 1)
    BY <1>2 DEF TagOf
  <2> QED BY <2>1 DEF TagOf
<1> QED BY <1>1, <1>2

LEMMA LinesWithTag ==
    ASSUME NEW n \in Nat, NEW lines, DOMAIN lines = 1..n, NEW i \in 1..n,
           FU!TaggedAbove(lines, i)
    PROVE  \E t \in {u \in 1..n : lines[u].is = "tag"} : TagOf(lines, i, t)
BY DEF FU!TaggedAbove, TagOf

Tags(lines) == {t \in DOMAIN lines : lines[t].is = "tag"}
TaggedLines(lines) ==
    {i \in DOMAIN lines : lines[i].is = "code" /\ FU!TaggedAbove(lines, i)
                            /\ \E d \in FU!Names(lines) : FU!DefinedAt(lines, d, i)}

LEMMA LinesHaveTags ==
    ASSUME NEW n \in Nat, NEW lines, DOMAIN lines = 1..n
    PROVE  /\ IsFiniteSet(Tags(lines)) /\ IsFiniteSet(TaggedLines(lines))
           /\ Cardinality(TaggedLines(lines)) <= Cardinality(Tags(lines))
<1> DEFINE above == [i \in TaggedLines(lines) |-> CHOOSE t \in Tags(lines) : TagOf(lines, i, t)]
<1>1. IsFiniteSet(Tags(lines))
  BY FS_Interval, FS_Subset DEF Tags
<1>2. ASSUME NEW i \in TaggedLines(lines)
      PROVE  above[i] \in Tags(lines) /\ TagOf(lines, i, above[i])
  <2>1. \E t \in Tags(lines) : TagOf(lines, i, t)
    BY LinesWithTag DEF Tags, TaggedLines
  <2> QED BY <2>1
<1> HIDE DEF above
<1>3. ASSUME NEW i \in TaggedLines(lines), NEW j \in TaggedLines(lines), above[i] = above[j]
      PROVE  i = j
  <2>1. i \in 1..n /\ j \in 1..n /\ lines[i].is = "code" /\ lines[j].is = "code"
    BY DEF TaggedLines
  <2> QED BY <1>2, <1>3, <2>1, TagsDiffer
<1>4. above \in Injection(TaggedLines(lines), Tags(lines))
  BY <1>2, <1>3 DEF above, Injection, IsInjective
<1> QED BY <1>1, <1>4, FS_Injection

(* Where a line names one function, what a line defines is that one.       *)
LEMMA LineIsOfOne ==
    ASSUME NEW Fs, NEW lines \in Seq(SourceLine(Fs)), FU!OneNamePerLine(lines),
           NEW d, NEW i \in DOMAIN lines, FU!DefinedAt(lines, d, i)
    PROVE  d = lines[i].calls[1] /\ lines[i].is = "code" /\ d \in FU!Names(lines)
<1> DEFINE calls == lines[i].calls
<1>1. calls \in Seq(Fs)
  <2> DEFINE L == SourceLine(Fs)
  <2>1. lines \in Seq(L)
    OBVIOUS
  <2> HIDE DEF L
  <2>2. lines[i] \in L
    BY <2>1
  <2> QED BY <2>2 DEF L, SourceLine
<1>2. \E k \in DOMAIN calls : calls[k] = d
  BY DEF FU!DefinedAt, FU!Mentions, FU!ToSet
<1>3. calls # <<>>
  BY <1>2
<1>4. lines[i].is = "code" /\ Len(calls) = 1
  BY <1>3 DEF FU!OneNamePerLine
<1>5. calls[1] = d
  BY <1>1, <1>2, <1>4
<1>6. d \in FU!ToSet(lines[i].calls)
  BY <1>2 DEF FU!ToSet
<1>7. d \in FU!Names(lines)
  BY <1>6 DEF FU!Names
<1> QED BY <1>4, <1>5, <1>7

LEMMA TagsAreOfOne ==
    ASSUME NEW Fs, NEW lines \in Seq(SourceLine(Fs)), NEW decls
    PROVE  FU!OneTagOneFunction(decls, lines)
<1> DEFINE covered == {k \in DOMAIN decls : FU!func_has_tag_above(lines, decls[k])}
           line == [k \in covered |-> CHOOSE i \in DOMAIN lines :
                        FU!DefinedAt(lines, decls[k], i) /\ FU!TaggedAbove(lines, i)]
<1>1. Len(lines) \in Nat /\ DOMAIN lines = 1..Len(lines)
  OBVIOUS
<1>2. /\ IsFiniteSet(Tags(lines)) /\ IsFiniteSet(TaggedLines(lines))
      /\ Cardinality(TaggedLines(lines)) <= Cardinality(Tags(lines))
  BY <1>1, LinesHaveTags
<1>3. FU!OneTagOneLine(lines)
  BY <1>2, SameInFunctions DEF FU!OneTagOneLine, Tags, TaggedLines
<1>4. ASSUME FU!OneNamePerLine(lines), FU!IsInjective(decls)
      PROVE  Cardinality(covered) <= Cardinality(Tags(lines))
  <2>1. ASSUME NEW k \in covered
        PROVE  /\ line[k] \in DOMAIN lines /\ FU!DefinedAt(lines, decls[k], line[k])
               /\ FU!TaggedAbove(lines, line[k])
    BY DEF FU!func_has_tag_above
  <2> HIDE DEF line
  <2>2. ASSUME NEW k \in covered
        PROVE  line[k] \in TaggedLines(lines) /\ decls[k] = lines[line[k]].calls[1]
    BY <1>4, <2>1, LineIsOfOne DEF TaggedLines
  <2>3. ASSUME NEW k \in covered, NEW l \in covered, line[k] = line[l] PROVE k = l
    BY <1>4, <2>2, <2>3 DEF FU!IsInjective
  <2>4. line \in Injection(covered, TaggedLines(lines))
    BY <2>2, <2>3 DEF line, Injection, IsInjective
  <2>5. IsFiniteSet(covered) /\ Cardinality(covered) <= Cardinality(TaggedLines(lines))
    BY <1>2, <2>4, FS_Injection
  <2> HIDE DEF covered
  <2> QED BY <1>2, <2>5, FS_CardinalityType
<1>5. FU!scan_func_coverage(decls, lines).covered = Cardinality(covered)
  BY SameInFunctions DEF FU!scan_func_coverage
<1> HIDE DEF covered
<1> QED BY <1>3, <1>4, <1>5, SameInFunctions DEF FU!OneTagOneFunction, Tags

-----------------------------------------------------------------------------
(* The argument.                                                           *)

LEMMA WhatIsCitedIsIndexed == ASSUME NEW files PROVE AR!ArgumentIsIndexed(files)
<1> DEFINE sci == AR!build_sci(files)
           checklist == AR!build_sas(files).checklist
<1>1. /\ DOMAIN sci = AR!lifecycle_items
      /\ \A f \in AR!lifecycle_items : /\ f \in DOMAIN files => sci[f].present /\ sci[f].hash = files[f]
                                       /\ f \notin DOMAIN files => ~sci[f].present
  BY DEF AR!build_sci
<1>2. /\ DOMAIN checklist = AR!baseline_items
      /\ \A f \in AR!baseline_items : checklist[f] <=> f \in DOMAIN files
  BY DEF AR!build_sas
<1>3. \A f \in AR!lifecycle_items : sci[f].present <=> f \in DOMAIN files
  BY <1>1
<1>4. \A g \in AR!Goals \ {"G2"} : AR!generate(files)[g] = "supported" =>
          /\ AR!SupportingFile[g] \in DOMAIN files
          /\ AR!SupportingFile[g] \in AR!lifecycle_items /\ AR!SupportingFile[g] \in AR!baseline_items
  BY DEF AR!Goals, AR!generate, AR!SupportingFile, AR!lifecycle_items, AR!baseline_items
<1>5. \A f \in DOMAIN sci \cap DOMAIN checklist : sci[f].present = checklist[f]
  <2> SUFFICES ASSUME NEW f \in AR!lifecycle_items, f \in AR!baseline_items
               PROVE  sci[f].present = checklist[f]
    BY <1>1, <1>2
  <2>1. CASE f \in DOMAIN files
    <3>1. sci[f].present = TRUE
      BY <2>1 DEF AR!build_sci
    <3>2. checklist[f] = TRUE
      BY <2>1 DEF AR!build_sas
    <3> QED BY <3>1, <3>2, Zenon
  <2>2. CASE f \notin DOMAIN files
    <3>1. sci[f].present = FALSE
      BY <2>2 DEF AR!build_sci
    <3>2. checklist[f] = (f \in DOMAIN files)
      BY DEF AR!build_sas
    <3>3. (f \in DOMAIN files) = FALSE
      BY <2>2
    <3> QED BY <3>1, <3>2, <3>3, Zenon
  <2> QED BY <2>1, <2>2
<1>6. ASSUME NEW g \in AR!Goals \ {"G2"}, AR!generate(files)[g] = "supported"
      PROVE  LET f == AR!SupportingFile[g]
             IN  f \in DOMAIN sci /\ sci[f].hash = files[f] /\ checklist[f]
  <2> HIDE DEF sci, checklist
  <2> QED BY <1>1, <1>2, <1>4, <1>6
<1> QED BY <1>5, <1>6, Zenon DEF AR!ArgumentIsIndexed

(* What is under each node of the argument.                                *)

LEMMA Supports ==
    /\ \A m : <<"G1", m>> \in AR!supportedBy <=> m \in {"St1", "St2"}
    /\ \A m : <<"St1", m>> \in AR!supportedBy <=> m \in {"G3", "G5"}
    /\ \A m : <<"St2", m>> \in AR!supportedBy <=> m \in {"G2", "G4", "G6"}
    /\ \A m : <<"G2", m>> \in AR!supportedBy <=> m \in {"Sn1", "Sn2"}
    /\ \A m : <<"G3", m>> \in AR!supportedBy <=> m = "Sn7"
    /\ \A m : <<"G4", m>> \in AR!supportedBy <=> m \in {"Sn3", "Sn5"}
    /\ \A m : <<"G5", m>> \in AR!supportedBy <=> m = "Sn6"
    /\ \A m : <<"G6", m>> \in AR!supportedBy <=> m = "Sn4"
    /\ \A n \in DOMAIN AR!Evidence : \A m : <<n, m>> \notin AR!supportedBy
<1>1. \A n, m, a, b : <<n, m>> = <<a, b>> <=> n = a /\ m = b
  OBVIOUS
<1>2. DOMAIN AR!Evidence = {"Sn1", "Sn2", "Sn3", "Sn4", "Sn5", "Sn6", "Sn7"}
  BY DEF AR!Evidence
<1> QED BY <1>1, <1>2 DEF AR!supportedBy

NextTo(nodes) == nodes \cup {e[2] : e \in {x \in AR!supportedBy : x[1] \in nodes}}

LEMMA NextOf ==
    ASSUME NEW nodes
    PROVE  \A m : m \in NextTo(nodes) <=> m \in nodes \/ \E n \in nodes : <<n, m>> \in AR!supportedBy
<1>1. \A e \in AR!supportedBy : e = <<e[1], e[2]>>
  BY DEF AR!supportedBy
<1>2. \A n, m : <<n, m>>[1] = n /\ <<n, m>>[2] = m
  OBVIOUS
<1> QED BY <1>1, <1>2 DEF NextTo

LEMMA UnderIs == \A n : AR!Under(n) = NextTo(NextTo(NextTo(NextTo({n}))))
BY Zenon DEF AR!Under, NextTo

LEMMA Nexts ==
    ASSUME NEW nodes
    PROVE  \A m : m \in NextTo(nodes) <=>
               \/ m \in nodes
               \/ "G1" \in nodes /\ m \in {"St1", "St2"}
               \/ "St1" \in nodes /\ m \in {"G3", "G5"}
               \/ "St2" \in nodes /\ m \in {"G2", "G4", "G6"}
               \/ "G2" \in nodes /\ m \in {"Sn1", "Sn2"}
               \/ "G3" \in nodes /\ m \in {"Sn7"}
               \/ "G4" \in nodes /\ m \in {"Sn3", "Sn5"}
               \/ "G5" \in nodes /\ m \in {"Sn6"}
               \/ "G6" \in nodes /\ m \in {"Sn4"}
<1>1. \A n, m, a, b : <<n, m>> = <<a, b>> <=> n = a /\ m = b
  OBVIOUS
<1>2. \A n, m : <<n, m>> \in AR!supportedBy =>
          n \in {"G1", "St1", "St2", "G2", "G3", "G4", "G5", "G6"}
  BY <1>1 DEF AR!supportedBy
<1>3. ASSUME NEW m, NEW n \in nodes, <<n, m>> \in AR!supportedBy
      PROVE  \/ "G1" \in nodes /\ m \in {"St1", "St2"}
             \/ "St1" \in nodes /\ m \in {"G3", "G5"}
             \/ "St2" \in nodes /\ m \in {"G2", "G4", "G6"}
             \/ "G2" \in nodes /\ m \in {"Sn1", "Sn2"}
             \/ "G3" \in nodes /\ m \in {"Sn7"}
             \/ "G4" \in nodes /\ m \in {"Sn3", "Sn5"}
             \/ "G5" \in nodes /\ m \in {"Sn6"}
             \/ "G6" \in nodes /\ m \in {"Sn4"}
  BY <1>2, <1>3, Supports
<1>4. ASSUME NEW m PROVE
          /\ "G1" \in nodes /\ m \in {"St1", "St2"} => <<"G1", m>> \in AR!supportedBy
          /\ "St1" \in nodes /\ m \in {"G3", "G5"} => <<"St1", m>> \in AR!supportedBy
          /\ "St2" \in nodes /\ m \in {"G2", "G4", "G6"} => <<"St2", m>> \in AR!supportedBy
          /\ "G2" \in nodes /\ m \in {"Sn1", "Sn2"} => <<"G2", m>> \in AR!supportedBy
          /\ "G3" \in nodes /\ m \in {"Sn7"} => <<"G3", m>> \in AR!supportedBy
          /\ "G4" \in nodes /\ m \in {"Sn3", "Sn5"} => <<"G4", m>> \in AR!supportedBy
          /\ "G5" \in nodes /\ m \in {"Sn6"} => <<"G5", m>> \in AR!supportedBy
          /\ "G6" \in nodes /\ m \in {"Sn4"} => <<"G6", m>> \in AR!supportedBy
  BY Supports
<1> QED BY <1>3, <1>4, NextOf

LEMMA UnderSolution == \A s \in DOMAIN AR!Evidence : AR!Under(s) = {s}
<1>1. \A s \in DOMAIN AR!Evidence : s \notin {"G1", "St1", "St2", "G2", "G3", "G4", "G5", "G6"}
  BY DEF AR!Evidence
<1>2. \A s \in DOMAIN AR!Evidence : NextTo({s}) = {s}
  BY <1>1, Nexts
<1> QED BY <1>2, UnderIs

LEMMA UnderG2 == AR!Under("G2") = {"G2", "Sn1", "Sn2"}
<1>1. NextTo({"G2"}) = {"G2", "Sn1", "Sn2"}
  BY Nexts
<1>2. NextTo({"G2", "Sn1", "Sn2"}) = {"G2", "Sn1", "Sn2"}
  BY Nexts
<1> QED BY UnderIs, <1>1, <1>2

LEMMA UnderG3 == AR!Under("G3") = {"G3", "Sn7"}
<1>1. NextTo({"G3"}) = {"G3", "Sn7"}
  BY Nexts
<1>2. NextTo({"G3", "Sn7"}) = {"G3", "Sn7"}
  BY Nexts
<1> QED BY UnderIs, <1>1, <1>2

LEMMA UnderG4 == AR!Under("G4") = {"G4", "Sn3", "Sn5"}
<1>1. NextTo({"G4"}) = {"G4", "Sn3", "Sn5"}
  BY Nexts
<1>2. NextTo({"G4", "Sn3", "Sn5"}) = {"G4", "Sn3", "Sn5"}
  BY Nexts
<1> QED BY UnderIs, <1>1, <1>2

LEMMA UnderG5 == AR!Under("G5") = {"G5", "Sn6"}
<1>1. NextTo({"G5"}) = {"G5", "Sn6"}
  BY Nexts
<1>2. NextTo({"G5", "Sn6"}) = {"G5", "Sn6"}
  BY Nexts
<1> QED BY UnderIs, <1>1, <1>2

LEMMA UnderG6 == AR!Under("G6") = {"G6", "Sn4"}
<1>1. NextTo({"G6"}) = {"G6", "Sn4"}
  BY Nexts
<1>2. NextTo({"G6", "Sn4"}) = {"G6", "Sn4"}
  BY Nexts
<1> QED BY UnderIs, <1>1, <1>2

LEMMA UnderSt1 == AR!Under("St1") = {"St1", "G3", "G5", "Sn7", "Sn6"}
<1>1. NextTo({"St1"}) = {"St1", "G3", "G5"}
  BY Nexts
<1>2. NextTo({"St1", "G3", "G5"}) = {"St1", "G3", "G5", "Sn7", "Sn6"}
  BY Nexts
<1>3. NextTo({"St1", "G3", "G5", "Sn7", "Sn6"}) = {"St1", "G3", "G5", "Sn7", "Sn6"}
  BY Nexts
<1> QED BY UnderIs, <1>1, <1>2, <1>3

LEMMA UnderSt2 ==
    AR!Under("St2") =
        {"St2", "G2", "G4", "G6",
         "Sn1", "Sn2", "Sn3", "Sn5", "Sn4"}
<1>1. NextTo({"St2"}) = {"St2", "G2", "G4", "G6"}
  BY Nexts
<1>2. NextTo({"St2", "G2", "G4", "G6"})
          = {"St2", "G2", "G4", "G6", "Sn1", "Sn2", "Sn3", "Sn5", "Sn4"}
  BY Nexts
<1>3. NextTo({"St2", "G2", "G4", "G6", "Sn1", "Sn2", "Sn3", "Sn5", "Sn4"})
          = {"St2", "G2", "G4", "G6", "Sn1", "Sn2", "Sn3", "Sn5", "Sn4"}
  BY Nexts
<1> QED BY UnderIs, <1>1, <1>2, <1>3

LEMMA UnderG1 ==
    AR!Under("G1") =
        {"G1", "St1", "St2", "G3", "G5", "G2", "G4", "G6", "Sn7", "Sn6",
         "Sn1", "Sn2", "Sn3", "Sn5", "Sn4"}
<1>1. NextTo({"G1"}) = {"G1", "St1", "St2"}
  BY Nexts
<1>2. NextTo({"G1", "St1", "St2"})
          = {"G1", "St1", "St2", "G3", "G5", "G2", "G4", "G6"}
  BY Nexts
<1>3. NextTo({"G1", "St1", "St2", "G3", "G5", "G2", "G4", "G6"})
          = {"G1", "St1", "St2", "G3", "G5", "G2", "G4", "G6", "Sn7", "Sn6", "Sn1", "Sn2", "Sn3", "Sn5", "Sn4"}
  BY Nexts
<1>4. NextTo({"G1", "St1", "St2", "G3", "G5", "G2", "G4", "G6", "Sn7", "Sn6", "Sn1", "Sn2", "Sn3", "Sn5", "Sn4"})
          = {"G1", "St1", "St2", "G3", "G5", "G2", "G4", "G6", "Sn7", "Sn6", "Sn1", "Sn2", "Sn3", "Sn5", "Sn4"}
  BY Nexts
<1> QED BY UnderIs, <1>1, <1>2, <1>3, <1>4

LEMMA SameInArgument == \A S : AR!Cardinality(S) = Cardinality(S)
BY DEF AR!Cardinality, Cardinality, AR!IsFiniteSet, IsFiniteSet

(* A goal is supported or undeveloped, by its file.                         *)
LEMMA StatusIs ==
    ASSUME NEW files
    PROVE  /\ AR!generate(files)["G1"] = "undeveloped"
           /\ \A g \in {"G2", "G3", "G4", "G5", "G6"} :
                  AR!generate(files)[g] =
                      IF AR!SupportingFile[g] \in DOMAIN files THEN "supported" ELSE "undeveloped"
BY DEF AR!generate, AR!SupportingFile, AR!Goals

LEMMA FilesOfGoals ==
    /\ \A g, h \in {"G2", "G3", "G4", "G5", "G6"} :
           AR!SupportingFile[g] = AR!SupportingFile[h] => g = h
    /\ AR!SupportingFile["G2"] = AR!Evidence["Sn1"] /\ AR!SupportingFile["G3"] = AR!Evidence["Sn7"]
    /\ AR!SupportingFile["G4"] = AR!Evidence["Sn5"] /\ AR!SupportingFile["G5"] = AR!Evidence["Sn6"]
    /\ AR!SupportingFile["G6"] = AR!Evidence["Sn4"]
BY DEF AR!SupportingFile, AR!Evidence

SolutionsOf(g) == AR!Under(g) \cap DOMAIN AR!Evidence

LEMMA SolutionsAre ==
    /\ SolutionsOf("G2") = {"Sn1", "Sn2"} /\ SolutionsOf("G3") = {"Sn7"}
    /\ SolutionsOf("G4") = {"Sn3", "Sn5"} /\ SolutionsOf("G5") = {"Sn6"}
    /\ SolutionsOf("G6") = {"Sn4"}
<1>1. DOMAIN AR!Evidence = {"Sn1", "Sn2", "Sn3", "Sn4", "Sn5", "Sn6", "Sn7"}
  BY DEF AR!Evidence
<1> QED BY <1>1, UnderG2, UnderG3, UnderG4, UnderG5, UnderG6 DEF SolutionsOf

LEMMA GoalsAreFinite ==
    /\ AR!Goals = {"G1"} \cup {"G2", "G3", "G4", "G5", "G6"}
    /\ IsFiniteSet(AR!Goals)
<1>1. AR!Goals = {"G1"} \cup {"G2"} \cup {"G3"} \cup {"G4"} \cup {"G5"} \cup {"G6"}
  BY DEF AR!Goals
<1>2. IsFiniteSet(AR!Goals)
  BY <1>1, FS_Singleton, FS_Union
<1> QED BY <1>2 DEF AR!Goals

(* Without one of its files at most one goal falls.                         *)
LEMMA OneGoalFalls ==
    ASSUME NEW files, NEW f
    PROVE  AR!Cardinality({g \in AR!Goals :
               AR!generate([x \in DOMAIN files \ {f} |-> files[x]])[g] # AR!generate(files)[g]}) <= 1
<1> DEFINE less == [x \in DOMAIN files \ {f} |-> files[x]]
           fallen == {g \in AR!Goals : AR!generate(less)[g] # AR!generate(files)[g]}
<1>1. DOMAIN less = DOMAIN files \ {f}
  OBVIOUS
<1> HIDE DEF less
<1>2. \A g \in fallen : g \in {"G2", "G3", "G4", "G5", "G6"} /\ AR!SupportingFile[g] = f
  BY <1>1, StatusIs, GoalsAreFinite
<1>3. \A g, h \in fallen : g = h
  BY <1>2, FilesOfGoals
<1> HIDE DEF fallen
<1>4. fallen = {} \/ \E g : fallen = {g}
  BY <1>3
<1>5. Cardinality(fallen) <= 1
  <2>1. CASE fallen = {}
    <3>1. Cardinality(fallen) = 0
      BY <2>1, FS_EmptySet
    <3> QED BY <3>1
  <2>2. CASE \E g : fallen = {g}
    <3>1. PICK g : fallen = {g}
      BY <2>2
    <3>2. Cardinality(fallen) = 1
      BY <3>1, FS_Singleton
    <3> QED BY <3>2
  <2> QED BY <1>4, <2>1, <2>2
<1> QED BY <1>5, SameInArgument DEF fallen, less

LEMMA GoalsAreCounted ==
    ASSUME NEW files
    PROVE  LET done == AR!compute_completeness(AR!generate(files))
           IN done.goals_with_evidence + done.undeveloped = done.total_goals
<1> DEFINE status == AR!generate(files)
           with == {g \in AR!Goals : status[g] = "supported"}
           without == {g \in AR!Goals : status[g] = "undeveloped"}
<1>1. with \cup without = AR!Goals /\ with \cap without = {}
  BY StatusIs, GoalsAreFinite
<1>2. IsFiniteSet(with) /\ IsFiniteSet(without)
  BY GoalsAreFinite, FS_Subset
<1> HIDE DEF with, without
<1>3. Cardinality(AR!Goals) = Cardinality(with) + Cardinality(without) - Cardinality(with \cap without)
  BY <1>1, <1>2, FS_Union
<1>4. Cardinality(AR!Goals) = Cardinality(with) + Cardinality(without)
  <2>1. Cardinality(with \cap without) = 0
    BY <1>1, FS_EmptySet
  <2>2. Cardinality(with) \in Nat /\ Cardinality(without) \in Nat
    BY <1>2, FS_CardinalityType
  <2> QED BY <1>3, <2>1, <2>2
<1>5. /\ AR!compute_completeness(status).goals_with_evidence = Cardinality(with)
      /\ AR!compute_completeness(status).undeveloped = Cardinality(without)
      /\ AR!compute_completeness(status).total_goals = Cardinality(AR!Goals)
  BY SameInArgument DEF AR!compute_completeness, with, without
<1> QED BY <1>4, <1>5

(* The argument has no cycle, ends in solutions and hangs together.         *)
LEMMA ArgumentIsWhole ==
    /\ \A e \in AR!supportedBy : e[1] \notin AR!Under(e[2])
    /\ \A n \in AR!Under("G1") : n \in DOMAIN AR!Evidence \/ \E e \in AR!supportedBy : e[1] = n
    /\ AR!Goals \cup DOMAIN AR!Evidence \subseteq AR!Under("G1")
    /\ \A e \in AR!inContextOf : e[1] \in AR!Under("G1")
<1>1. DOMAIN AR!Evidence = {"Sn1", "Sn2", "Sn3", "Sn4", "Sn5", "Sn6", "Sn7"}
  BY DEF AR!Evidence
<1>2. ASSUME NEW e \in AR!supportedBy PROVE e[1] \notin AR!Under(e[2])
  <2>1. /\ e[1] \in {"G1", "St1", "St2", "G2", "G3", "G4", "G5", "G6"}
        /\ e = <<e[1], e[2]>>
    BY DEF AR!supportedBy
  <2>2. CASE e[2] \in DOMAIN AR!Evidence
    BY <1>1, <2>1, <2>2, UnderSolution
  <2>3. CASE e[1] = "G1"
    <3>1. e[2] \in {"St1", "St2"}
      BY <2>1, <2>3, Supports
    <3> QED BY <2>3, <3>1, UnderSt1, UnderSt2
  <2>4. CASE e[1] = "St1"
    <3>1. e[2] \in {"G3", "G5"}
      BY <2>1, <2>4, Supports
    <3> QED BY <2>4, <3>1, UnderG3, UnderG5
  <2>5. CASE e[1] = "St2"
    <3>1. e[2] \in {"G2", "G4", "G6"}
      BY <2>1, <2>5, Supports
    <3> QED BY <2>5, <3>1, UnderG2, UnderG4, UnderG6
  <2>6. CASE e[1] \in {"G2", "G3", "G4", "G5", "G6"}
    <3>1. e[2] \in DOMAIN AR!Evidence
      BY <1>1, <2>1, <2>6, Supports
    <3> QED BY <2>2, <3>1
  <2> QED BY <2>1, <2>3, <2>4, <2>5, <2>6
<1>3. \A n \in {"G1", "St1", "St2", "G2", "G3", "G4", "G5", "G6"} : \E m : <<n, m>> \in AR!supportedBy
  BY Supports
<1>4. \A n, m : <<n, m>>[1] = n
  OBVIOUS
<1>5. \A n \in AR!Under("G1") : n \in DOMAIN AR!Evidence \/ \E e \in AR!supportedBy : e[1] = n
  BY <1>1, <1>3, <1>4, UnderG1
<1>6. AR!Goals \cup DOMAIN AR!Evidence \subseteq AR!Under("G1")
  BY <1>1, UnderG1 DEF AR!Goals
<1>7. \A e \in AR!inContextOf : e[1] \in {"G1", "St2", "G3"}
  BY DEF AR!inContextOf
<1>8. \A e \in AR!inContextOf : e[1] \in AR!Under("G1")
  BY <1>7, UnderG1
<1> QED BY <1>2, <1>5, <1>6, <1>8

LEMMA ArgumentsAreSupported == ASSUME NEW files PROVE AR!SupportIsArgued(files)
<1> DEFINE status == AR!generate(files)
           there(s) == AR!Evidence[s] \in DOMAIN files
<1>1. ASSUME NEW g \in AR!Goals, status[g] = "supported"
      PROVE  \E s \in SolutionsOf(g) : there(s)
  <2>1. g \in {"G2", "G3", "G4", "G5", "G6"} /\ AR!SupportingFile[g] \in DOMAIN files
    BY <1>1, StatusIs, GoalsAreFinite
  <2> QED BY <2>1, FilesOfGoals, SolutionsAre
<1>2. ASSUME NEW g \in AR!Goals \ {"G1"}, \A s \in SolutionsOf(g) : there(s)
      PROVE  status[g] = "supported"
  <2>1. g \in {"G2", "G3", "G4", "G5", "G6"}
    BY GoalsAreFinite
  <2>2. AR!SupportingFile[g] \in DOMAIN files
    BY <1>2, <2>1, FilesOfGoals, SolutionsAre
  <2> QED BY <2>1, <2>2, StatusIs
<1>3. \A f \in DOMAIN files :
          AR!Cardinality({g \in AR!Goals :
              AR!generate([x \in DOMAIN files \ {f} |-> files[x]])[g] # status[g]}) <= 1
  BY OneGoalFalls
<1>4. LET done == AR!compute_completeness(status)
      IN done.goals_with_evidence + done.undeveloped = done.total_goals
  BY GoalsAreCounted
<1> QED BY <1>1, <1>2, <1>3, <1>4, ArgumentIsWhole, Zenon DEF AR!SupportIsArgued, SolutionsOf

-----------------------------------------------------------------------------
(* Components: directories, which are named neither like the tool's own     *)
(* include directory nor like a header of the library.                      *)
ComponentNames(files) ==
    \A f \in files : /\ f.component \notin {"cpfusa", "none", "iostream", "std::filesystem"}
                     /\ f.excluded \in BOOLEAN

(* The diagram and the edges of the report, part by part.                  *)
HeadersOf(f) == {l.include.to : l \in {x \in f.lines : x.include.form = "bare"}}
External(scanned) ==
    {<<f.component, "std::filesystem">> : f \in {x \in scanned : "filesystem" \in HeadersOf(x)}}
NodesOf(scanned) ==
    {[id |-> n, is_external |-> FALSE] : n \in {f.component : f \in scanned}}
    \cup {[id |-> e[2], is_external |-> TRUE] : e \in External(scanned)}
Drawn(e, sources) ==
    /\ e[1] # e[2]
    /\ \E f \in sources : f.component = e[1] /\ \E h \in HeadersOf(f) : ST!Lies(e[2], h)
EdgesOf(scanned, sources) ==
    External(scanned) \cup
    {e \in {f.component : f \in sources} \X {f.component : f \in scanned} : Drawn(e, sources)}

LEMMA DiagramIs ==
    ASSUME NEW files
    PROVE  /\ ST!scan_boundary(files).nodes = NodesOf(ST!Scanned(files, {"cpp", "cxx", "hpp"}))
           /\ ST!scan_boundary(files).edges =
                  EdgesOf(ST!Scanned(files, {"cpp", "cxx", "hpp"}), ST!Scanned(files, {"cpp"}))
           /\ ST!scan_boundary(files) =
                  [nodes |-> ST!scan_boundary(files).nodes, edges |-> ST!scan_boundary(files).edges]
<1> DEFINE scanned == ST!Scanned(files, {"cpp", "cxx", "hpp"})
           sources == ST!Scanned(files, {"cpp"})
<1>1. ST!scan_boundary(files) =
          [nodes |-> NodesOf(scanned), edges |-> EdgesOf(scanned, sources)]
  BY Zenon DEF ST!scan_boundary, NodesOf, EdgesOf, External, HeadersOf, Drawn
<1> HIDE DEF scanned, sources
<1>2. /\ ST!scan_boundary(files).nodes = NodesOf(scanned)
      /\ ST!scan_boundary(files).edges = EdgesOf(scanned, sources)
  BY <1>1
<1> QED BY <1>1, <1>2 DEF scanned, sources

LEMMA ExcludedDoNotCount ==
    ASSUME NEW files, NEW kept, kept = {f \in files : ~f.excluded}
    PROVE  /\ ST!analyse_coupling(kept) = ST!analyse_coupling(files)
           /\ ST!scan_boundary(kept) = ST!scan_boundary(files)
<1>1. \A kinds : ST!Scanned(kept, kinds) = ST!Scanned(files, kinds)
  BY DEF ST!Scanned
<1>2. ST!analyse_coupling(kept) = ST!analyse_coupling(files)
  <2>1. ST!Scanned(kept, {"cpp", "cxx"}) = ST!Scanned(files, {"cpp", "cxx"})
    BY <1>1
  <2> QED BY <2>1, Zenon DEF ST!analyse_coupling
<1>3. ST!scan_boundary(kept) = ST!scan_boundary(files)
  BY <1>1, DiagramIs
<1> QED BY <1>2, <1>3

LEMMA InternalNodes ==
    ASSUME NEW files
    PROVE  {n.id : n \in {x \in ST!scan_boundary(files).nodes : ~x.is_external}}
               = {f.component : f \in ST!Scanned(files, {"cpp", "cxx", "hpp"})}
<1> DEFINE scanned == ST!Scanned(files, {"cpp", "cxx", "hpp"})
           internal == {f.component : f \in scanned}
           external == External(scanned)
           nodes == ST!scan_boundary(files).nodes
<1>1. nodes = {[id |-> n, is_external |-> FALSE] : n \in internal}
              \cup {[id |-> e[2], is_external |-> TRUE] : e \in external}
  BY DiagramIs DEF NodesOf
<1> HIDE DEF nodes, internal
<1>2. \A n \in internal : [id |-> n, is_external |-> FALSE] \in {x \in nodes : ~x.is_external}
  <2> TAKE n \in internal
  <2>1. [id |-> n, is_external |-> FALSE] \in nodes
    BY <1>1
  <2>2. ~[id |-> n, is_external |-> FALSE].is_external
    OBVIOUS
  <2> QED BY <2>1, <2>2
<1>3. \A x \in nodes : ~x.is_external => x.id \in internal
  <2> SUFFICES ASSUME NEW x \in nodes, ~x.is_external PROVE x.id \in internal
    OBVIOUS
  <2>1. CASE \E n \in internal : x = [id |-> n, is_external |-> FALSE]
    BY <2>1
  <2>2. CASE \E e \in external : x = [id |-> e[2], is_external |-> TRUE]
    <3>1. PICK e \in external : x = [id |-> e[2], is_external |-> TRUE]
      BY <2>2
    <3>2. x.is_external
      BY <3>1
    <3> QED BY <3>2
  <2> QED BY <1>1, <2>1, <2>2
<1>4. \A i : i \in {n.id : n \in {x \in nodes : ~x.is_external}} <=> i \in internal
  <2>1. \A n \in internal : [id |-> n, is_external |-> FALSE].id = n
    OBVIOUS
  <2> QED BY <1>2, <1>3, <2>1
<1> QED BY <1>4 DEF nodes, internal

(* The edges of the coupling report.                                       *)
LEMMA ReportedEdges ==
    ASSUME NEW files
    PROVE  LET scanned == ST!Scanned(files, {"cpp", "cxx"})
               data == ST!analyse_coupling(files).data_edges
               control == ST!analyse_coupling(files).control_edges
           IN /\ \A f \in scanned : \A l \in f.lines :
                     ST!Target(l.include) \notin {f.component, "cpfusa", "none"} =>
                         <<f.component, ST!Target(l.include)>> \in data
              /\ \A e \in data \cup control :
                     e[1] # e[2] /\ \E f \in scanned : e[1] = f.component
<1> DEFINE scanned == ST!Scanned(files, {"cpp", "cxx"})
           includes == UNION {{<<f.component, ST!Target(l.include)>> : l \in f.lines} : f \in scanned}
           data == {e \in includes : e[2] \notin {e[1], "cpfusa", "none"}}
           control == UNION {{<<f.component, l.call>> : l \in {x \in f.lines : ST!Callee(f, x.call)}} : f \in scanned}
<1>1. /\ ST!analyse_coupling(files).data_edges = data
      /\ ST!analyse_coupling(files).control_edges = control
  BY DEF ST!analyse_coupling
<1>2. ASSUME NEW f \in scanned, NEW l \in f.lines,
             ST!Target(l.include) \notin {f.component, "cpfusa", "none"}
      PROVE  <<f.component, ST!Target(l.include)>> \in data
  <2> DEFINE e == <<f.component, ST!Target(l.include)>>
  <2>1. e \in {<<f.component, ST!Target(k.include)>> : k \in f.lines}
    OBVIOUS
  <2>2. e \in includes
    BY <2>1, Zenon
  <2>3. e[1] = f.component /\ e[2] = ST!Target(l.include)
    OBVIOUS
  <2> QED BY <1>2, <2>2, <2>3
<1>3. ASSUME NEW e \in data PROVE e[1] # e[2] /\ \E f \in scanned : e[1] = f.component
  <2>1. PICK f \in scanned : e \in {<<f.component, ST!Target(l.include)>> : l \in f.lines}
    BY <1>3, Zenon
  <2>2. PICK l \in f.lines : e = <<f.component, ST!Target(l.include)>>
    BY <2>1
  <2>3. e[1] = f.component
    BY <2>2
  <2> QED BY <1>3, <2>3
<1>4. ASSUME NEW e \in control PROVE e[1] # e[2] /\ \E f \in scanned : e[1] = f.component
  <2>1. PICK f \in scanned : e \in {<<f.component, l.call>> : l \in {x \in f.lines : ST!Callee(f, x.call)}}
    BY <1>4, Zenon
  <2>2. PICK l \in f.lines : e = <<f.component, l.call>> /\ ST!Callee(f, l.call)
    BY <2>1
  <2>3. e[1] = f.component /\ e[2] = l.call /\ l.call # f.component
    BY <2>2 DEF ST!Callee
  <2> QED BY <2>3
<1> HIDE DEF data, control, scanned
<1>5. \A f \in scanned : \A l \in f.lines :
          ST!Target(l.include) \notin {f.component, "cpfusa", "none"} =>
              <<f.component, ST!Target(l.include)>> \in data
  BY <1>2
<1>6. \A e \in data \cup control : e[1] # e[2] /\ \E f \in scanned : e[1] = f.component
  BY <1>3, <1>4
<1> QED BY <1>1, <1>5, <1>6 DEF scanned

LEMMA AccountsAreOne ==
    ASSUME NEW files, ComponentNames(files)
    PROVE  ST!AccountsAgree(files)
<1> DEFINE scanned == ST!Scanned(files, {"cpp", "cxx", "hpp"})
           compiled == ST!Scanned(files, {"cpp", "cxx"})
           sources == ST!Scanned(files, {"cpp"})
           data == ST!analyse_coupling(files).data_edges
           control == ST!analyse_coupling(files).control_edges
           edges == ST!scan_boundary(files).edges
           internal == {f.component : f \in scanned}
           kept == {f \in files : ~f.excluded}
<1>1. /\ sources \subseteq compiled /\ compiled \subseteq scanned /\ scanned \subseteq files
  BY DEF ST!Scanned
<1>2. edges = EdgesOf(scanned, sources)
  BY DiagramIs
<1>3. /\ \A f \in compiled : \A l \in f.lines :
             ST!Target(l.include) \notin {f.component, "cpfusa", "none"} =>
                 <<f.component, ST!Target(l.include)>> \in data
      /\ \A e \in data \cup control : e[1] # e[2] /\ \E f \in compiled : e[1] = f.component
  BY ReportedEdges
<1>4. {n.id : n \in {x \in ST!scan_boundary(files).nodes : ~x.is_external}} = internal
  BY InternalNodes
<1>5. ST!analyse_coupling(kept) = ST!analyse_coupling(files)
      /\ ST!scan_boundary(kept) = ST!scan_boundary(files)
  BY ExcludedDoNotCount
<1> HIDE DEF scanned, compiled, sources, data, control, edges, kept
<1>6. \A f \in scanned : f.component \notin {"cpfusa", "none", "iostream", "std::filesystem"}
  BY <1>1 DEF ComponentNames
<1>7. ASSUME NEW e \in edges, e[2] \in internal
      PROVE  \E d \in data : d[1] = e[1] /\ ST!Lies(e[2], d[2])
  <2>1. e \notin External(scanned)
    <3>1. e[2] # "std::filesystem"
      BY <1>6, <1>7
    <3> QED BY <3>1 DEF External
  <2>2. Drawn(e, sources)
    BY <1>2, <2>1 DEF EdgesOf
  <2>3. PICK f \in sources : f.component = e[1] /\ \E h \in HeadersOf(f) : ST!Lies(e[2], h)
    BY <2>2 DEF Drawn
  <2>12. PICK h \in HeadersOf(f) : ST!Lies(e[2], h)
    BY <2>3
  <2>4. PICK l \in f.lines : l.include.form = "bare" /\ l.include.to = h
    BY DEF HeadersOf
  <2>5. ST!Target(l.include) = h
    BY <2>4 DEF ST!Target
  <2>6. f.component = e[1] /\ e[1] # e[2] /\ f \in compiled /\ f \in scanned
    BY <1>1, <2>2, <2>3 DEF Drawn
  <2>7. h = e[2] \/ h = "iostream"
    <3>1. <<e[2], h>> = <<"io", "iostream">> => h = "iostream"
      OBVIOUS
    <3> QED BY <2>12, <3>1 DEF ST!Lies
  <2>8. h \notin {f.component, "cpfusa", "none"}
    <3>1. CASE h = e[2]
      BY <3>1, <1>6, <1>7, <2>6
    <3>2. CASE h = "iostream"
      <4>1. f.component # "iostream"
        BY <1>6, <2>6
      <4> QED BY <3>2, <4>1
    <3> QED BY <2>7, <3>1, <3>2
  <2>9. <<f.component, h>> \in data
    BY <1>3, <2>5, <2>6, <2>8
  <2>10. <<f.component, h>>[1] = e[1] /\ <<f.component, h>>[2] = h
    BY <2>6
  <2> QED BY <2>12, <2>9, <2>10
<1>8. \A e \in data \cup control : e[1] \in internal \ {e[2]}
  BY <1>1, <1>3
<1> HIDE DEF internal
<1> QED BY <1>4, <1>5, <1>7, <1>8, Zenon DEF ST!AccountsAgree, data, control, edges, kept

-----------------------------------------------------------------------------
(* Dependencies: the marks of a CMake file, with versions of three parts of *)
(* at most two digits.                                                      *)
Versions == (0..99) \X (0..99) \X (0..99)
Mark(Names) == [declares : Names] \cup [tag : Versions \cup {<<>>}]
Dependency(Names) == [name : Names, version : Versions]
DepStates(Names) == [open : Names \cup {"none"}, deps : Seq(Dependency(Names))]
Open(name, deps) == [open |-> name, deps |-> deps]

LEMMA VersionsAreThree ==
    /\ <<>> \notin Versions
    /\ \A v \in Versions : v = <<v[1], v[2], v[3]>> /\ v[1] \in 0..99 /\ v[2] \in 0..99 /\ v[3] \in 0..99
<1>1. \A x, y, z : <<x, y, z>> # <<>>
  OBVIOUS
<1>2. \A v \in Versions : v = <<v[1], v[2], v[3]>> /\ v[1] \in 0..99 /\ v[2] \in 0..99 /\ v[3] \in 0..99
  BY DEF Versions
<1> QED BY <1>1, <1>2

LEMMA SeqGrows ==
    ASSUME NEW V
    PROVE  <<>> \in Seq(V) /\ \A s \in Seq(V), v \in V : Append(s, v) \in Seq(V)
OBVIOUS

LEMMA SameInVuln == \A S : VU!Max(S) = Max(S)
BY DEF VU!Max, Max

(* A declaration is kept until a tag that is a version closes it.           *)
LEMMA DepStepIs ==
    ASSUME NEW Names, "none" \notin Names, NEW s \in DepStates(Names), NEW m \in Mark(Names)
    PROVE  /\ VU!DepStep(s, m) \in DepStates(Names)
           /\ "declares" \in DOMAIN m /\ s.open = "none" =>
                  VU!DepStep(s, m) = Open(m.declares, s.deps) /\ m.declares \in Names
           /\ "tag" \in DOMAIN m /\ s.open # "none" /\ m.tag # <<>> =>
                  VU!DepStep(s, m) = Open("none", Append(s.deps, [name |-> s.open, version |-> m.tag]))
                  /\ m.tag \in Versions
<1> DEFINE t == VU!DepStep(s, m)
           deps == s.deps
<1>1. /\ s = Open(s.open, deps) /\ s.open \in Names \cup {"none"} /\ deps \in Seq(Dependency(Names))
      /\ \A name \in Names \cup {"none"}, d \in Seq(Dependency(Names)) : Open(name, d) \in DepStates(Names)
  BY DEF DepStates, Open
<1>2. /\ "declares" \in DOMAIN m => "tag" \notin DOMAIN m /\ m.declares \in Names
      /\ "tag" \in DOMAIN m => "declares" \notin DOMAIN m /\ m.tag \in Versions \cup {<<>>}
  <2>1. CASE m \in [declares : Names]
    <3>1. DOMAIN m = {"declares"} /\ m.declares \in Names
      BY <2>1
    <3> QED BY <3>1
  <2>2. CASE m \in [tag : Versions \cup {<<>>}]
    <3>1. DOMAIN m = {"tag"} /\ m.tag \in Versions \cup {<<>>}
      BY <2>2
    <3> QED BY <3>1
  <2> QED BY <2>1, <2>2 DEF Mark
<1>3. PICK begun : begun = [s EXCEPT !.open = m.declares]
  OBVIOUS
<1>4. begun = Open(m.declares, deps)
  <2>1. begun = [open |-> m.declares, deps |-> deps]
    BY <1>1, <1>3 DEF Open
  <2> QED BY <2>1 DEF Open
<1>5. PICK closed : closed = Open("none", Append(deps, [name |-> s.open, version |-> m.tag]))
  OBVIOUS
<1>6. t = CASE "declares" \in DOMAIN m /\ s.open = "none" -> begun
            [] "tag" \in DOMAIN m /\ s.open # "none" /\ m.tag # <<>> -> closed
            [] OTHER -> s
  BY <1>3, <1>5 DEF VU!DepStep, Open
<1> HIDE DEF t, deps
<1>7. CASE "declares" \in DOMAIN m /\ s.open = "none"
  <2>1. t = begun /\ m.declares \in Names /\ "tag" \notin DOMAIN m
    BY <1>2, <1>6, <1>7
  <2> QED BY <1>1, <1>4, <2>1 DEF t, deps
<1>8. CASE "tag" \in DOMAIN m /\ s.open # "none" /\ m.tag # <<>>
  <2>1. t = closed /\ m.tag \in Versions /\ s.open \in Names
    BY <1>1, <1>2, <1>6, <1>8
  <2>2. Append(deps, [name |-> s.open, version |-> m.tag]) \in Seq(Dependency(Names))
    <3>1. [name |-> s.open, version |-> m.tag] \in Dependency(Names)
      BY <2>1 DEF Dependency
    <3>2. \A d \in Dependency(Names) : Append(deps, d) \in Seq(Dependency(Names))
      BY <1>1, SeqGrows, Zenon
    <3> QED BY <3>1, <3>2
  <2> QED BY <1>1, <1>2, <1>5, <1>8, <2>1, <2>2 DEF t, deps
<1>9. CASE ~ ("declares" \in DOMAIN m /\ s.open = "none") /\ ~ ("tag" \in DOMAIN m /\ s.open # "none" /\ m.tag # <<>>)
  <2>1. t = s
    BY <1>6, <1>9
  <2> QED BY <1>9, <2>1 DEF t
<1> QED BY <1>7, <1>8, <1>9

LEMMA DepRuns ==
    ASSUME NEW Names, "none" \notin Names, NEW n \in Nat, NEW marks \in [1..n -> Mark(Names)]
    PROVE  \E run \in [0..n -> DepStates(Names)] :
             /\ run[0] = Open("none", <<>>)
             /\ run[n].deps = VU!parse_deps(marks)
             /\ \A k \in 1..n : run[k] = VU!DepStep(run[k - 1], marks[k])
<1> DEFINE V == DepStates(Names)
           base == Open("none", <<>>)
           body(f) == [s \in SUBSET (1..n) |->
                         IF s = {} THEN base
                         ELSE VU!DepStep(f[s \ {VU!Max(s)}], marks[VU!Max(s)])]
           chosen == CHOOSE f : f = body(f)
           step == [k \in 1..n |-> [v \in V |-> VU!DepStep(v, marks[k])]]
<1>1. step \in [1..n -> [V -> V]]
  BY DepStepIs
<1>2. base \in V
  <2>1. <<>> \in Seq(Dependency(Names)) /\ "none" \in Names \cup {"none"}
    BY SeqGrows
  <2>2. [open |-> "none", deps |-> <<>>] \in DepStates(Names)
    BY <2>1 DEF DepStates
  <2> QED BY <2>2 DEF Open
<1>3. VU!parse_deps(marks) = chosen[1..n].deps
  BY DEF VU!parse_deps, VU!FoldLeft, VU!MapThenFoldSet, Open
<1> HIDE DEF base, V
<1>4. PICK f \in [SUBSET (1..n) -> V] : Folds(f, n, base, step)
  <2> HIDE DEF step
  <2> QED BY <1>2, <1>1, FoldExists
<1>5. \A s \in SUBSET (1..n) : s # {} => Max(s) \in 1..n /\ VU!Max(s) = Max(s)
  BY LastPlace, SameInVuln
<1>6. f = body(f)
  <2>1. \A s \in SUBSET (1..n) : s # {} => f[s \ {Max(s)}] \in V
    BY <1>4
  <2>2. \A s \in SUBSET (1..n) :
            f[s] = IF s = {} THEN base ELSE VU!DepStep(f[s \ {VU!Max(s)}], marks[VU!Max(s)])
    BY <1>4, <1>5, <2>1 DEF Folds
  <2> QED BY <1>4, <2>2
<1>7. chosen = body(chosen)
  BY <1>6
<1> HIDE DEF chosen
<1>8. FoldsIn(V, chosen, n, base, step)
  BY <1>5, <1>7 DEF FoldsIn
<1> HIDE DEF step
<1>9. RunsThrough(V, chosen, n, base, step)
  BY <1>2, <1>1, <1>8, FoldRuns, Zenon
<1>10. PICK run \in [0..n -> V] : Runs(run, n, base, step) /\ run[n] = chosen[1..n]
  BY <1>9 DEF RunsThrough
<1>11. ASSUME NEW k \in 1..n PROVE run[k] = VU!DepStep(run[k - 1], marks[k])
  <2>1. run[k] = step[k][run[k - 1]] /\ k - 1 \in 0..n
    <3>1. run[k] = step[k][run[k - 1]]
      BY <1>10, Zenon DEF Runs
    <3> QED BY <3>1
  <2>2. run[k - 1] \in V
    BY <1>10, <2>1
  <2> QED BY <2>1, <2>2 DEF step
<1>12. run[0] = base
  BY <1>10 DEF Runs
<1> QED BY <1>3, <1>10, <1>11, <1>12 DEF base, V

LEMMA AppendHas ==
    ASSUME NEW V, NEW s \in Seq(V), NEW v
    PROVE  /\ Len(Append(s, v)) = Len(s) + 1 /\ Append(s, v)[Len(s) + 1] = v
           /\ \A j \in 1..Len(s) : Append(s, v)[j] = s[j]
OBVIOUS

LEMMA NothingDeclared == VU!parse_deps(<<>>) = <<>>
<1>1. ASSUME NEW Names, "none" \notin Names, NEW n \in Nat, NEW marks \in [1..n -> Mark(Names)]
      PROVE  n = 0 => VU!parse_deps(marks) = <<>>
  <2>1. PICK run \in [0..n -> DepStates(Names)] :
               /\ run[0] = Open("none", <<>>)
               /\ run[n].deps = VU!parse_deps(marks)
               /\ \A k \in 1..n : run[k] = VU!DepStep(run[k - 1], marks[k])
    BY <1>1, DepRuns
  <2> QED BY <2>1 DEF Open
<1> DEFINE Names == {"catch2"}
<1>2. "none" \notin Names /\ 0 \in Nat
  OBVIOUS
<1>3. \A V : <<>> \in [1..0 -> V]
  BY SeqGrows
<1> HIDE DEF Names
<1> QED BY <1>1, <1>2, <1>3, Zenon

(* Pinned dependencies are read pair by pair.                              *)
Pair(marks, j) == [name |-> marks[2 * j - 1].declares, version |-> marks[2 * j].tag]

LEMMA PinnedPairs ==
    ASSUME NEW marks, NEW n \in Nat, Len(marks) = n, DOMAIN marks = 1..n, VU!Pinned(marks)
    PROVE  /\ n = 2 * (n \div 2) /\ n \div 2 \in Nat
           /\ \A k \in 1..(n \div 2) :
                  /\ 2 * k - 1 \in 1..n /\ 2 * k \in 1..n
                  /\ "declares" \in DOMAIN marks[2 * k - 1]
                  /\ "tag" \in DOMAIN marks[2 * k] /\ marks[2 * k].tag # <<>>
<1>1. n % 2 = 0 /\ \A i \in 1..n :
          IF i % 2 = 1 THEN "declares" \in DOMAIN marks[i]
          ELSE "tag" \in DOMAIN marks[i] /\ marks[i].tag # <<>>
  BY DEF VU!Pinned
<1>2. n = 2 * (n \div 2) /\ n \div 2 \in Nat
  BY <1>1
<1>3. ASSUME NEW k \in 1..(n \div 2)
      PROVE  /\ 2 * k - 1 \in 1..n /\ 2 * k \in 1..n
             /\ (2 * k - 1) % 2 = 1 /\ (2 * k) % 2 # 1
  BY <1>2
<1> QED BY <1>1, <1>2, <1>3

LEMMA PinnedDeps ==
    ASSUME NEW Names, "none" \notin Names, NEW marks \in Seq(Mark(Names)), VU!Pinned(marks)
    PROVE  LET deps == VU!parse_deps(marks)
               n == Len(marks) \div 2
           IN /\ deps \in Seq(Dependency(Names)) /\ Len(deps) = n /\ n \in Nat
              /\ \A j \in 1..n : deps[j] = Pair(marks, j)
<1> DEFINE n == Len(marks)
           h == n \div 2
<1>1. n \in Nat /\ DOMAIN marks = 1..n /\ marks \in [1..n -> Mark(Names)]
  BY SeqIsFunction
<1>2. /\ n = 2 * h /\ h \in Nat
      /\ \A k \in 1..h :
            /\ 2 * k - 1 \in 1..n /\ 2 * k \in 1..n
            /\ "declares" \in DOMAIN marks[2 * k - 1]
            /\ "tag" \in DOMAIN marks[2 * k] /\ marks[2 * k].tag # <<>>
  BY <1>1, PinnedPairs
<1>3. PICK run \in [0..n -> DepStates(Names)] :
             /\ run[0] = Open("none", <<>>)
             /\ run[n].deps = VU!parse_deps(marks)
             /\ \A k \in 1..n : run[k] = VU!DepStep(run[k - 1], marks[k])
  BY <1>1, DepRuns
<1> HIDE DEF n, h
<1> DEFINE P(k) == /\ run[2 * k].open = "none" /\ run[2 * k].deps \in Seq(Dependency(Names))
                   /\ Len(run[2 * k].deps) = k
                   /\ \A j \in 1..k : run[2 * k].deps[j] = Pair(marks, j)
           S == {k \in 0..h : P(k)}
<1>4. \A k \in 0..n : run[k].deps \in Seq(Dependency(Names))
  BY <1>3 DEF DepStates
<1>5. 0 \in S
  <2>1. run[2 * 0] = Open("none", <<>>) /\ 0 \in 0..n /\ 0 \in 0..h
    BY <1>1, <1>2, <1>3
  <2> QED BY <1>3, <1>4, <2>1 DEF Open
<1>6. ASSUME NEW k \in 1..h, k - 1 \in S PROVE k \in S
  <2> DEFINE a == run[2 * (k - 1)]
             b == run[2 * k - 1]
             c == run[2 * k]
             m == marks[2 * k - 1]
             t == marks[2 * k]
  <2>1. /\ 2 * k - 1 \in 1..n /\ 2 * k \in 1..n /\ 2 * (k - 1) \in 0..n /\ 2 * k - 1 \in 0..n /\ 2 * k \in 0..n
        /\ (2 * k - 1) - 1 = 2 * (k - 1)
    BY <1>1, <1>2
  <2>2. /\ a \in DepStates(Names) /\ b \in DepStates(Names) /\ c \in DepStates(Names)
        /\ m \in Mark(Names) /\ t \in Mark(Names)
    BY <1>1, <1>3, <2>1
  <2>3. b = VU!DepStep(a, m) /\ c = VU!DepStep(b, t)
    BY <1>3, <2>1
  <2>4. /\ a.open = "none" /\ a.deps \in Seq(Dependency(Names)) /\ Len(a.deps) = k - 1
        /\ \A j \in 1..(k - 1) : a.deps[j] = Pair(marks, j)
    BY <1>6
  <2>5. /\ "declares" \in DOMAIN m /\ "tag" \in DOMAIN t /\ t.tag # <<>>
        /\ Pair(marks, k) = [name |-> m.declares, version |-> t.tag]
    BY <1>2 DEF Pair
  <2>6. c.deps \in Seq(Dependency(Names))
    BY <1>4, <2>1
  <2> HIDE DEF a, b, c, m, t
  <2>7. b = Open(m.declares, a.deps) /\ m.declares \in Names
    BY <2>2, <2>3, <2>4, <2>5, DepStepIs
  <2>8. b.open # "none" /\ b.open = m.declares /\ b.deps = a.deps
    BY <2>7 DEF Open
  <2>9. c = Open("none", Append(b.deps, [name |-> b.open, version |-> t.tag]))
    BY <2>2, <2>3, <2>5, <2>8, DepStepIs
  <2>10. c.open = "none" /\ c.deps = Append(a.deps, Pair(marks, k))
    BY <2>5, <2>8, <2>9 DEF Open
  <2>11. /\ Len(Append(a.deps, Pair(marks, k))) = k
         /\ \A j \in 1..k : Append(a.deps, Pair(marks, k))[j] = Pair(marks, j)
    <3> DEFINE d == a.deps
               p == Pair(marks, k)
    <3>1. Len(d) = k - 1 /\ \A j \in 1..(k - 1) : d[j] = Pair(marks, j)
      BY <2>4
    <3>2. d \in Seq(Dependency(Names))
      BY <2>4
    <3> HIDE DEF d, p
    <3>3. Len(Append(d, p)) = k /\ Append(d, p)[k] = p /\ \A j \in 1..(k - 1) : Append(d, p)[j] = d[j]
      BY <3>1, <3>2, AppendHas
    <3>4. \A j \in 1..k : j \in 1..(k - 1) \/ j = k
      OBVIOUS
    <3> QED BY <3>1, <3>3, <3>4 DEF d, p
  <2>12. k \in 0..h
    OBVIOUS
  <2>13. P(k)
    BY <2>6, <2>10, <2>11, Zenon DEF c
  <2> QED BY <2>12, <2>13
<1>9. \A k \in 1..h : k - 1 \in S => k \in S
  BY <1>6
<1>10. h \in 0..h
  BY <1>2
<1> HIDE DEF S
<1>7. h \in S
  BY <1>2, <1>5, <1>9, <1>10, UpTo, Zenon
<1>8. P(h)
  BY <1>7 DEF S
<1> QED BY <1>1, <1>2, <1>3, <1>8 DEF n, h

(* Of versions whose parts have two digits at most, the first part that     *)
(* differs decides.                                                         *)
Number(v) == 10000 * v[1] + 100 * v[2] + v[3]

LEMMA VersionsAreOrdered ==
    ASSUME NEW a \in Versions, NEW b \in Versions
    PROVE  VU!version_less(a, b) <=> Number(a) < Number(b)
<1>1. /\ a[1] \in 0..99 /\ a[2] \in 0..99 /\ a[3] \in 0..99
      /\ b[1] \in 0..99 /\ b[2] \in 0..99 /\ b[3] \in 0..99
  BY VersionsAreThree
<1>2. VU!version_less(a, b) <=>
          \/ a[1] < b[1]
          \/ (a[1] = b[1] /\ a[2] < b[2])
          \/ (a[1] = b[1] /\ a[2] = b[2] /\ a[3] < b[3])
  <2>1. \A i : i \in 1 .. 3 <=> i \in {1, 2, 3}
    OBVIOUS
  <2>2. (1 .. 1 - 1 = {}) /\ (1 .. 2 - 1 = {1}) /\ (1 .. 3 - 1 = {1, 2})
    OBVIOUS
  <2> QED BY <2>1, <2>2 DEF VU!version_less
<1> DEFINE x == a[1]
           y == a[2]
           z == a[3]
           u == b[1]
           v == b[2]
           w == b[3]
<1>3. /\ x \in 0..99 /\ y \in 0..99 /\ z \in 0..99 /\ u \in 0..99 /\ v \in 0..99 /\ w \in 0..99
      /\ Number(a) = 10000 * x + 100 * y + z
      /\ Number(b) = 10000 * u + 100 * v + w
      /\ VU!version_less(a, b) <=>
             \/ x < u
             \/ (x = u /\ y < v)
             \/ (x = u /\ y = v /\ z < w)
  BY <1>1, <1>2 DEF Number
<1> HIDE DEF x, y, z, u, v, w
<1> QED BY <1>3

LEMMA AdvisoriesAre ==
    /\ \A a \in VU!known_advisories : a.max_version \in Versions
    /\ \A a, b \in VU!known_advisories : a.cve_id = b.cve_id => a = b
BY DEF VU!known_advisories, Versions

FoundFor(dep) ==
    {[dependency |-> dep.name, version |-> dep.version, cve_id |-> a.cve_id] :
        a \in {x \in VU!known_advisories : x.package = dep.name /\ VU!version_less(dep.version, x.max_version)}}

LEMMA ScanIs ==
    ASSUME NEW fetch, NEW lists
    PROVE  LET deps == VU!parse_deps(fetch) \o VU!parse_deps(lists)
           IN /\ VU!scan(fetch, lists).scanned = Len(deps)
              /\ VU!scan(fetch, lists).findings = UNION {FoundFor(deps[i]) : i \in DOMAIN deps}
<1> DEFINE deps == VU!parse_deps(fetch) \o VU!parse_deps(lists)
<1>1. VU!scan(fetch, lists) =
          [scanned |-> Len(deps), findings |-> UNION {FoundFor(deps[i]) : i \in DOMAIN deps}]
  BY Zenon DEF VU!scan, FoundFor
<1> HIDE DEF deps
<1>2. /\ VU!scan(fetch, lists).scanned = Len(deps)
      /\ VU!scan(fetch, lists).findings = UNION {FoundFor(deps[i]) : i \in DOMAIN deps}
  BY <1>1
<1> QED BY <1>2, Zenon DEF deps

LEMMA SeqMember ==
    ASSUME NEW V, NEW s \in Seq(V), NEW i \in DOMAIN s PROVE s[i] \in V
OBVIOUS

LEMMA ClosedByUpgrade ==
    ASSUME NEW Names, "none" \notin Names, NEW marks \in Seq(Mark(Names))
    PROVE  VU!UpgradesCloseAdvisories(marks)
<1> DEFINE deps == VU!parse_deps(marks)
           report == VU!scan(marks, <<>>)
           n == Len(marks) \div 2
<1> SUFFICES ASSUME VU!Pinned(marks)
             PROVE  /\ report.scanned = n
                    /\ \A i \in 1 .. n, a \in VU!known_advisories :
                           a.package = marks[2 * i - 1].declares =>
                               (Number(marks[2 * i].tag) < Number(a.max_version) <=>
                                    [dependency |-> a.package, version |-> marks[2 * i].tag, cve_id |-> a.cve_id]
                                        \in report.findings)
  BY DEF VU!UpgradesCloseAdvisories, Number
<1>1. /\ deps \in Seq(Dependency(Names)) /\ Len(deps) = n /\ n \in Nat
      /\ \A j \in 1..n : deps[j] = Pair(marks, j)
  BY PinnedDeps
<1> HIDE DEF deps
<1>2. deps \o <<>> = deps /\ DOMAIN deps = 1..n
  <2>1. \A V : \A s \in Seq(V) : s \o <<>> = s /\ DOMAIN s = 1..Len(s)
    OBVIOUS
  <2> QED BY <1>1, <2>1, Zenon
<1>3. report.scanned = n /\ report.findings = UNION {FoundFor(deps[i]) : i \in 1..n}
  <2> DEFINE both == VU!parse_deps(marks) \o VU!parse_deps(<<>>)
  <2>1. report.scanned = Len(both) /\ report.findings = UNION {FoundFor(both[i]) : i \in DOMAIN both}
    BY ScanIs, Zenon
  <2>2. both = deps
    BY <1>2, NothingDeclared DEF deps
  <2> HIDE DEF both, report, n
  <2>3. DOMAIN both = 1..n /\ Len(both) = n
    BY <1>1, <1>2, <2>2
  <2> QED BY <2>1, <2>2, <2>3
<1> HIDE DEF report, n
<1>4. ASSUME NEW i \in 1..n, NEW a \in VU!known_advisories, a.package = marks[2 * i - 1].declares
      PROVE  Number(marks[2 * i].tag) < Number(a.max_version) <=>
                 [dependency |-> a.package, version |-> marks[2 * i].tag, cve_id |-> a.cve_id]
                     \in report.findings
  <2> DEFINE tag == marks[2 * i].tag
             f == [dependency |-> a.package, version |-> tag, cve_id |-> a.cve_id]
  <2>1. /\ deps[i].name = a.package /\ deps[i].version = tag /\ tag \in Versions
    <3>1. deps[i] = Pair(marks, i)
      BY <1>1
    <3>2. deps[i] \in Dependency(Names)
      BY <1>1, <1>2, SeqMember
    <3> QED BY <1>4, <3>1, <3>2 DEF Pair, Dependency
  <2>2. a.max_version \in Versions
    BY AdvisoriesAre
  <2> HIDE DEF tag
  <2>3. Number(tag) < Number(a.max_version) <=> VU!version_less(tag, a.max_version)
    BY <2>1, <2>2, VersionsAreOrdered
  <2>4. ASSUME VU!version_less(tag, a.max_version) PROVE f \in report.findings
    <3>1. f \in FoundFor(deps[i])
      BY <2>1, <2>4 DEF FoundFor
    <3> HIDE DEF f
    <3> QED BY <1>3, <3>1, Zenon
  <2>5. ASSUME f \in report.findings PROVE VU!version_less(tag, a.max_version)
    <3>1. PICK j \in 1..n : f \in FoundFor(deps[j])
      <4> HIDE DEF f
      <4> QED BY <1>3, <2>5
    <3>2. PICK b \in VU!known_advisories :
              /\ VU!version_less(deps[j].version, b.max_version)
              /\ f = [dependency |-> deps[j].name, version |-> deps[j].version, cve_id |-> b.cve_id]
      BY <3>1, Zenon DEF FoundFor
    <3>3. deps[j].version = tag /\ b.cve_id = a.cve_id
      <4>1. f.version = tag /\ f.cve_id = a.cve_id
        OBVIOUS
      <4> HIDE DEF f
      <4> QED BY <3>2, <4>1
    <3>4. b = a
      BY <3>3, AdvisoriesAre
    <3> QED BY <3>2, <3>3, <3>4
  <2> QED BY <2>3, <2>4, <2>5 DEF tag
<1> QED BY <1>3, <1>4

-----------------------------------------------------------------------------
(* SHA-256: the context is made of blocks, a buffer and a count of bits.    *)
Ctx(blocks, buf, count) == [blocks |-> blocks, buf |-> buf, count |-> count]
Contexts(V) == [blocks : Seq(Block(V)), buf : Seq(V), count : Nat]

LEMMA CtxIs ==
    ASSUME NEW b, NEW f, NEW c
    PROVE  Ctx(b, f, c).blocks = b /\ Ctx(b, f, c).buf = f /\ Ctx(b, f, c).count = c
BY DEF Ctx

LEMMA ContextIs ==
    ASSUME NEW V, NEW x \in Contexts(V)
    PROVE  /\ x = Ctx(x.blocks, x.buf, x.count)
           /\ x.blocks \in Seq(Block(V)) /\ x.buf \in Seq(V) /\ x.count \in Nat
BY DEF Ctx, Contexts

LEMMA CtxIsContext ==
    ASSUME NEW V, NEW b \in Seq(Block(V)), NEW f \in Seq(V), NEW c \in Nat
    PROVE  Ctx(b, f, c) \in Contexts(V)
BY DEF Ctx, Contexts

LEMMA TransformIs ==
    ASSUME NEW b, NEW f, NEW c
    PROVE  FM!Transform(Ctx(b, f, c)) = Ctx(Append(b, f), <<>>, c)
<1> DEFINE x == Ctx(b, f, c)
<1>1. PICK e : e = [x EXCEPT !.blocks = Append(x.blocks, x.buf), !.buf = <<>>]
  OBVIOUS
<1>2. e = FM!Transform(x)
  BY <1>1 DEF FM!Transform
<1>3. e = Ctx(Append(b, f), <<>>, c)
  BY <1>1 DEF Ctx
<1> QED BY <1>2, <1>3

LEMMA CountIs ==
    ASSUME NEW b, NEW f, NEW c, NEW n
    PROVE  [Ctx(b, f, c) EXCEPT !.count = c + n] = Ctx(b, f, c + n)
<1>1. PICK e : e = [Ctx(b, f, c) EXCEPT !.count = c + n]
  OBVIOUS
<1>2. e = Ctx(b, f, c + n)
  BY <1>1 DEF Ctx
<1> QED BY <1>1, <1>2

LEMMA FillToIs ==
    ASSUME NEW b, NEW f, NEW c, NEW n, NEW v
    PROVE  FM!FillTo(Ctx(b, f, c), n, v) = Ctx(b, Filled(f, n, v), c)
<1>1. PICK x : x = Ctx(b, f, c)
  OBVIOUS
<1>2. FM!FillTo(x, n, v) = [x EXCEPT !.buf = Filled(x.buf, n, v)]
  BY DEF FM!FillTo, Filled
<1>3. x.buf = f
  BY <1>1 DEF Ctx
<1>4. PICK e : e = [x EXCEPT !.buf = Filled(f, n, v)]
  OBVIOUS
<1>5. e = Ctx(b, Filled(f, n, v), c)
  BY <1>1, <1>4 DEF Ctx
<1> QED BY <1>1, <1>2, <1>3, <1>4, <1>5, Zenon

LEMMA PutIs ==
    ASSUME NEW V, NEW b, NEW f \in Seq(V), NEW c, NEW v \in V
    PROVE  FM!Put(Ctx(b, f, c), v) = Ctx(b, Append(f, v), c)
<1>1. PICK x : x = Ctx(b, f, c)
  OBVIOUS
<1>2. x.buf = f
  BY <1>1 DEF Ctx
<1>3. FM!Put(x, v) = FM!FillTo(x, Len(f) + 1, v)
  BY <1>2 DEF FM!Put
<1>4. PICK n : n = Len(f) + 1
  OBVIOUS
<1>5. FM!FillTo(x, n, v) = Ctx(b, Filled(f, n, v), c)
  BY <1>1, FillToIs
<1>6. [i \in 1 .. n - Len(f) |-> v] = <<v>>
  <2>1. Len(f) \in Nat /\ n - Len(f) = 1
    BY <1>4
  <2>2. [i \in 1 .. 1 |-> v] = <<v>>
    OBVIOUS
  <2> QED BY <2>1, <2>2
<1>7. f \o <<v>> = Append(f, v)
  OBVIOUS
<1>8. PICK g : g = Append(f, v)
  OBVIOUS
<1>9. FM!FillTo(x, n, v) = Ctx(b, g, c)
  <2>1. Filled(f, n, v) = g
    BY <1>6, <1>7, <1>8, Zenon DEF Filled
  <2> QED BY <1>5, <2>1, Zenon
<1> QED BY <1>1, <1>3, <1>4, <1>8, <1>9

ByteSplits(V, x, b, f, c, v) ==
    \E g \in Seq(V), d \in Seq(Block(V)) :
        /\ Longer(g, f, v) /\ Longer(d, b, g)
        /\ Len(f) = 63 => FM!Byte(x, v) = Ctx(d, <<>>, c + 512)
        /\ Len(f) # 63 => FM!Byte(x, v) = Ctx(b, g, c)

LEMMA ByteIs ==
    ASSUME NEW V, NEW b \in Seq(Block(V)), NEW f \in Seq(V), NEW c \in Nat, NEW v \in V,
           NEW x, x = Ctx(b, f, c)
    PROVE  ByteSplits(V, x, b, f, c, v)
<1>1. PICK g \in Seq(V) : g = Append(f, v) /\ Longer(g, f, v)
  BY AppendIsLonger
<1>2. PICK d \in Seq(Block(V)) : d = Append(b, g) /\ Longer(d, b, g)
  <2>1. g \in Block(V)
    BY DEF Block
  <2> QED BY <2>1, AppendIsLonger
<1>3. PICK full : full = Ctx(b, g, c)
  OBVIOUS
<1>4. PICK sent : sent = Ctx(d, <<>>, c)
  OBVIOUS
<1>5. PICK next : next = Ctx(d, <<>>, c + 512)
  OBVIOUS
<1>6. FM!Put(x, v) = full
  BY <1>1, <1>3, PutIs
<1>7. FM!Transform(full) = sent
  <2>1. FM!Transform(Ctx(b, g, c)) = Ctx(Append(b, g), <<>>, c)
    BY TransformIs
  <2> QED BY <2>1, <1>2, <1>3, <1>4, Zenon
<1>8. full.buf = g /\ sent.count = c
  <2>1. full.buf = g
    BY <1>3 DEF Ctx
  <2>2. sent.count = c
    BY <1>4 DEF Ctx
  <2> QED BY <2>1, <2>2
<1>9. [sent EXCEPT !.count = c + 512] = next
  BY <1>4, <1>5, CountIs
<1>10. \A put : put = FM!Put(x, v) =>
           FM!Byte(x, v) =
              IF Len(put.buf) = 64 THEN [FM!Transform(put) EXCEPT !.count = FM!Transform(put).count + 512]
              ELSE put
  BY DEF FM!Byte
<1>11. FM!Byte(x, v) =
          IF Len(full.buf) = 64 THEN [FM!Transform(full) EXCEPT !.count = FM!Transform(full).count + 512]
          ELSE full
  BY <1>6, <1>10, Zenon
<1>12. FM!Byte(x, v) = IF Len(g) = 64 THEN next ELSE full
  BY <1>7, <1>8, <1>9, <1>11, Zenon
<1>13. Len(g) = 64 <=> Len(f) = 63
  <2>1. Len(f) \in Nat /\ Len(g) = Len(f) + 1
    BY <1>1, Zenon DEF Longer
  <2>2. PICK m, n : m = Len(f) /\ n = Len(g)
    OBVIOUS
  <2>3. m \in Nat /\ n = m + 1
    BY <2>1, <2>2, Zenon
  <2>4. n = 64 <=> m = 63
    BY <2>3
  <2> QED BY <2>2, <2>4, Zenon
<1>14. /\ Len(f) = 63 => FM!Byte(x, v) = Ctx(d, <<>>, c + 512)
       /\ Len(f) # 63 => FM!Byte(x, v) = Ctx(b, g, c)
  BY <1>3, <1>5, <1>12, <1>13, Zenon
<1> QED BY <1>1, <1>2, <1>14, Zenon DEF ByteSplits

LEMMA ByteIsContext ==
    ASSUME NEW V, NEW x \in Contexts(V), NEW v \in V PROVE FM!Byte(x, v) \in Contexts(V)
<1>1. /\ x = Ctx(x.blocks, x.buf, x.count)
      /\ x.blocks \in Seq(Block(V)) /\ x.buf \in Seq(V) /\ x.count \in Nat
  BY ContextIs
<1>2. PICK b \in Seq(Block(V)), f \in Seq(V), c \in Nat : x = Ctx(b, f, c)
  BY <1>1, Zenon
<1>3. ByteSplits(V, x, b, f, c, v)
  BY <1>2, ByteIs
<1>4. PICK g \in Seq(V), d \in Seq(Block(V)) :
          /\ Len(f) = 63 => FM!Byte(x, v) = Ctx(d, <<>>, c + 512)
          /\ Len(f) # 63 => FM!Byte(x, v) = Ctx(b, g, c)
  BY <1>3, Zenon DEF ByteSplits
<1>5. Ctx(d, <<>>, c + 512) \in Contexts(V)
  <2>1. <<>> \in Seq(V) /\ c + 512 \in Nat
    OBVIOUS
  <2> QED BY <2>1, CtxIsContext
<1>6. Ctx(b, g, c) \in Contexts(V)
  BY CtxIsContext
<1> QED BY <1>4, <1>5, <1>6, Zenon

LEMMA SameInHash ==
    /\ \A S : FM!Max(S) = Max(S)
    /\ \A s : FM!FlattenSeq(s) = FlattenSeq(s)
BY DEF FM!Max, Max, FM!FlattenSeq, FlattenSeq

LEMMA ByteRuns ==
    ASSUME NEW V, NEW C, C = Contexts(V), NEW n \in Nat, NEW data \in [1..n -> V]
    PROVE  \E run \in [0..n -> C] :
             /\ run[0] = Ctx(<<>>, <<>>, 0)
             /\ run[n] = FM!sha256_update(FM!sha256_init, data)
             /\ \A k \in 1..n : run[k] = FM!Byte(run[k - 1], data[k])
<1> DEFINE base == FM!sha256_init
           body(f) == [s \in SUBSET (1..n) |->
                         IF s = {} THEN base
                         ELSE FM!Byte(f[s \ {FM!Max(s)}], data[FM!Max(s)])]
           chosen == CHOOSE f : f = body(f)
           step == [k \in 1..n |-> [x \in C |-> FM!Byte(x, data[k])]]
<1>1. step \in [1..n -> [C -> C]]
  <2>1. \A x \in C, v \in V : FM!Byte(x, v) \in C
    BY ByteIsContext
  <2> QED BY <2>1
<1>2. base = Ctx(<<>>, <<>>, 0) /\ base \in C
  <2>1. base = Ctx(<<>>, <<>>, 0)
    BY DEF FM!sha256_init, Ctx
  <2>2. <<>> \in Seq(V) /\ <<>> \in Seq(Block(V)) /\ 0 \in Nat
    BY SeqGrows
  <2> QED BY <2>1, <2>2, CtxIsContext
<1>3. FM!sha256_update(base, data) = chosen[1..n]
  BY DEF FM!sha256_update, FM!FoldLeft, FM!MapThenFoldSet
<1> HIDE DEF base
<1>4. PICK f \in [SUBSET (1..n) -> C] : Folds(f, n, base, step)
  <2> HIDE DEF step
  <2> QED BY <1>2, <1>1, FoldExists
<1>5. \A s \in SUBSET (1..n) : s # {} => Max(s) \in 1..n /\ FM!Max(s) = Max(s)
  BY LastPlace, SameInHash
<1>6. f = body(f)
  <2>1. \A s \in SUBSET (1..n) : s # {} => f[s \ {Max(s)}] \in C
    BY <1>4
  <2>2. \A s \in SUBSET (1..n) :
            f[s] = IF s = {} THEN base ELSE FM!Byte(f[s \ {FM!Max(s)}], data[FM!Max(s)])
    BY <1>4, <1>5, <2>1 DEF Folds
  <2> QED BY <1>4, <2>2
<1>7. chosen = body(chosen)
  BY <1>6
<1> HIDE DEF chosen
<1>8. FoldsIn(C, chosen, n, base, step)
  BY <1>5, <1>7 DEF FoldsIn
<1> HIDE DEF step
<1>9. RunsThrough(C, chosen, n, base, step)
  BY <1>2, <1>1, <1>8, FoldRuns, Zenon
<1>10. PICK run \in [0..n -> C] : Runs(run, n, base, step) /\ run[n] = chosen[1..n]
  BY <1>9 DEF RunsThrough
<1>11. ASSUME NEW k \in 1..n PROVE run[k] = FM!Byte(run[k - 1], data[k])
  <2>1. run[k] = step[k][run[k - 1]] /\ run[k - 1] \in C
    BY <1>10 DEF Runs
  <2> QED BY <2>1 DEF step
<1>12. run[0] = base
  BY <1>10 DEF Runs
<1> QED BY <1>2, <1>3, <1>10, <1>11, <1>12 DEF base

(* After k bytes 1..k: full blocks of 64, the rest in the buffer.           *)
Cut(b, f, c, k, full, rest) ==
    /\ Len(b) = full /\ Len(f) = rest
    /\ full \in Nat /\ rest \in 0..63 /\ 64 * full + rest = k /\ c = 512 * full
    /\ \A j \in 1..full : OwnBlock(b[j], 64 * (j - 1))
    /\ \A i \in 1..rest : f[i] = 64 * full + i
IsCut(V, x, k) ==
    \E b \in Seq(Block(V)), f \in Seq(V), c \in Nat, full \in Nat, rest \in 0..63 :
        x = Ctx(b, f, c) /\ Cut(b, f, c, k, full, rest)

LEMMA ByteCuts ==
    ASSUME NEW V, NEW x, NEW k \in Nat \ {0}, k \in V, IsCut(V, x, k - 1)
    PROVE  IsCut(V, FM!Byte(x, k), k)
<1>1. PICK b \in Seq(Block(V)), f \in Seq(V), c \in Nat, full \in Nat, rest \in 0..63 :
          x = Ctx(b, f, c) /\ Cut(b, f, c, k - 1, full, rest)
  BY DEF IsCut
<1>2. /\ Len(b) = full /\ Len(f) = rest
      /\ 64 * full + rest = k - 1 /\ c = 512 * full
      /\ \A j \in 1..full : OwnBlock(b[j], 64 * (j - 1))
      /\ \A i \in 1..rest : f[i] = 64 * full + i
  BY <1>1 DEF Cut
<1>3. PICK g \in Seq(V), d \in Seq(Block(V)) :
          /\ Longer(g, f, k) /\ Longer(d, b, g)
          /\ Len(f) = 63 => FM!Byte(x, k) = Ctx(d, <<>>, c + 512)
          /\ Len(f) # 63 => FM!Byte(x, k) = Ctx(b, g, c)
  <2>1. ByteSplits(V, x, b, f, c, k)
    BY <1>1, ByteIs
  <2> QED BY <2>1, Zenon DEF ByteSplits
<1>4. /\ Len(g) = rest + 1 /\ g[rest + 1] = k /\ \A j \in 1..rest : g[j] = f[j]
      /\ Len(d) = full + 1 /\ d[full + 1] = g /\ \A j \in 1..full : d[j] = b[j]
  BY <1>2, <1>3, Zenon DEF Longer
<1>5. \A i \in 1..(rest + 1) : g[i] = 64 * full + i
  <2>1. k = 64 * full + (rest + 1)
    BY <1>2
  <2>2. \A i \in 1..(rest + 1) : i \in 1..rest \/ i = rest + 1
    OBVIOUS
  <2> QED BY <1>2, <1>4, <2>1, <2>2, Zenon
<1>6. CASE rest = 63
  <2>1. PICK e : e = <<>>
    OBVIOUS
  <2>2. FM!Byte(x, k) = Ctx(d, e, c + 512)
    <3>1. Len(f) = 63
      BY <1>2, <1>6, Zenon
    <3> QED BY <1>3, <2>1, <3>1, Zenon
  <2>3. OwnBlock(g, 64 * full)
    <3>1. rest + 1 = 64
      BY <1>6
    <3> QED BY <1>4, <1>5, <3>1, Zenon DEF OwnBlock
  <2>4. \A j \in 1..(full + 1) : OwnBlock(d[j], 64 * (j - 1))
    <3>1. \A j \in 1..(full + 1) : j \in 1..full \/ j = full + 1
      OBVIOUS
    <3>2. (full + 1) - 1 = full
      OBVIOUS
    <3> QED BY <1>2, <1>4, <2>3, <3>1, <3>2, Zenon
  <2>5. Len(e) = 0 /\ e \in Seq(V)
    BY <2>1
  <2>6. /\ \A i \in 1..0 : e[i] = 64 * (full + 1) + i
        /\ c + 512 = 512 * (full + 1) /\ 64 * (full + 1) + 0 = k
        /\ full + 1 \in Nat /\ 0 \in 0..63 /\ c + 512 \in Nat
    BY <1>2, <1>6
  <2>7. Cut(d, e, c + 512, k, full + 1, 0)
    BY <1>4, <2>4, <2>5, <2>6, Zenon DEF Cut
  <2>8. PICK y, c2, full2, rest2 : y = FM!Byte(x, k) /\ c2 = c + 512 /\ full2 = full + 1 /\ rest2 = 0
    OBVIOUS
  <2>9. y = Ctx(d, e, c2) /\ Cut(d, e, c2, k, full2, rest2)
    BY <2>2, <2>7, <2>8, Zenon
  <2>10. c2 \in Nat /\ full2 \in Nat /\ rest2 \in 0..63
    BY <2>6, <2>8, Zenon
  <2>11. IsCut(V, y, k)
    BY <2>5, <2>9, <2>10, Zenon DEF IsCut
  <2> QED BY <2>8, <2>11, Zenon
<1>7. CASE rest # 63
  <2>1. FM!Byte(x, k) = Ctx(b, g, c)
    <3>1. Len(f) # 63
      BY <1>2, <1>7, Zenon
    <3> QED BY <1>3, <3>1, Zenon
  <2>2. rest + 1 \in 0..63 /\ 64 * full + (rest + 1) = k
    BY <1>2, <1>7
  <2>3. Cut(b, g, c, k, full, rest + 1)
    BY <1>2, <1>4, <1>5, <2>2, Zenon DEF Cut
  <2> QED BY <2>1, <2>2, <2>3, Zenon DEF IsCut
<1> QED BY <1>6, <1>7

LEMMA BytesAreCut ==
    ASSUME NEW V, NEW n \in Nat, NEW data \in [1..n -> V], \A i \in 1..n : data[i] = i
    PROVE  IsCut(V, FM!sha256_update(FM!sha256_init, data), n)
<1>1. PICK C : C = Contexts(V)
  OBVIOUS
<1>2. PICK run \in [0..n -> C] :
             /\ run[0] = Ctx(<<>>, <<>>, 0)
             /\ run[n] = FM!sha256_update(FM!sha256_init, data)
             /\ \A k \in 1..n : run[k] = FM!Byte(run[k - 1], data[k])
  BY <1>1, ByteRuns
<1> DEFINE S == {k \in 0..n : IsCut(V, run[k], k)}
<1>3. 0 \in S
  <2>1. Cut(<<>>, <<>>, 0, 0, 0, 0)
    BY DEF Cut
  <2>2. <<>> \in Seq(V) /\ <<>> \in Seq(Block(V)) /\ 0 \in Nat /\ 0 \in 0..63
    OBVIOUS
  <2>3. IsCut(V, run[0], 0)
    BY <1>2, <2>1, <2>2, Zenon DEF IsCut
  <2>4. 0 \in 0..n
    OBVIOUS
  <2> QED BY <2>3, <2>4
<1>4. ASSUME NEW k \in 1..n, k - 1 \in S PROVE k \in S
  <2>1. k \in 0..n /\ k \in Nat \ {0} /\ data[k] = k /\ k \in V
    OBVIOUS
  <2>2. IsCut(V, run[k - 1], k - 1)
    BY <1>4
  <2>3. IsCut(V, FM!Byte(run[k - 1], k), k)
    BY <2>1, <2>2, ByteCuts
  <2>4. run[k] = FM!Byte(run[k - 1], k)
    BY <1>2, <2>1, Zenon
  <2> QED BY <2>1, <2>3, <2>4
<1>5. \A k \in 1..n : k - 1 \in S => k \in S
  BY <1>4
<1>6. n \in 0..n
  OBVIOUS
<1> HIDE DEF S
<1>7. n \in S
  BY <1>3, <1>5, <1>6, UpTo
<1> QED BY <1>2, <1>7, Zenon DEF S

(* The last block: zeros and the length.                                    *)
Ending(x) ==
    LET zeros == FM!FillTo(x, 56, 0)
    IN FM!Transform([zeros EXCEPT !.buf = zeros.buf \o FM!LengthBytes(zeros.count)])
EndsWith(V, x, b, g, n) ==
    \E z \in Seq(V), h \in Seq(V), e \in Seq(Block(V)) :
        /\ Fills(z, g, 56, 0) /\ Ends(h, z, FM!LengthBytes(n)) /\ Longer(e, b, h)
        /\ Ending(x).blocks = e

LEMMA EndingIs ==
    ASSUME NEW V, 0 \in V, NEW b \in Seq(Block(V)), NEW g \in Seq(V), Len(g) <= 56, NEW n \in Nat,
           FM!LengthBytes(n) \in Seq(V), NEW x, x = Ctx(b, g, n)
    PROVE  EndsWith(V, x, b, g, n)
<1>1. PICK z \in Seq(V) : z = Filled(g, 56, 0) /\ Fills(z, g, 56, 0)
  BY FilledIs, 56 \in Nat
<1>2. PICK bytes \in Seq(V) : bytes = FM!LengthBytes(n)
  OBVIOUS
<1>3. Len(bytes) = 8
  BY <1>2 DEF FM!LengthBytes
<1>4. Len(z) = 56
  BY <1>1 DEF Fills
<1>5. PICK h : h = z \o bytes
  OBVIOUS
<1>6. h \in Seq(V) /\ Len(h) = 64 /\ HasFrom(h, 56, bytes) /\ HasFrom(h, 0, z)
  <2>1. h \in Seq(V) /\ Len(h) = 56 + 8 /\ HasFrom(h, 56, bytes)
    <3>1. /\ z \o bytes \in Seq(V) /\ Len(z \o bytes) = Len(z) + Len(bytes)
          /\ HasFrom(z \o bytes, Len(z), bytes)
      BY JoinedFrom
    <3> QED BY <1>3, <1>4, <1>5, <3>1, Zenon
  <2>2. HasFrom(z, 0, z)
    BY DEF HasFrom
  <2>3. HasFrom(h, 0, z)
    BY <1>5, <2>2, JoinedFrom
  <2> QED BY <2>1, <2>3
<1>7. Ends(h, z, bytes)
  BY <1>3, <1>4, <1>6 DEF HasFrom, Ends
<1>8. PICK e \in Seq(Block(V)) : e = Append(b, h) /\ Longer(e, b, h)
  <2>1. h \in Block(V)
    BY <1>6 DEF Block
  <2> QED BY <2>1, AppendIsLonger
<1>9. PICK zeros : zeros = Ctx(b, z, n)
  OBVIOUS
<1>10. FM!FillTo(x, 56, 0) = zeros
  BY <1>1, <1>9, FillToIs
<1>11. zeros.buf = z /\ zeros.count = n
  BY <1>9 DEF Ctx
<1>12. PICK full : full = Ctx(b, h, n)
  OBVIOUS
<1>13. [zeros EXCEPT !.buf = h] = full
  <2>1. PICK a : a = [zeros EXCEPT !.buf = h]
    OBVIOUS
  <2>2. a = full
    BY <1>9, <1>12, <2>1 DEF Ctx
  <2> QED BY <2>1, <2>2
<1>14. \A y : y = FM!FillTo(x, 56, 0) =>
           Ending(x) = FM!Transform([y EXCEPT !.buf = y.buf \o FM!LengthBytes(y.count)])
  BY DEF Ending
<1>15. Ending(x) = FM!Transform([zeros EXCEPT !.buf = zeros.buf \o FM!LengthBytes(zeros.count)])
  BY <1>10, <1>14, Zenon
<1>16. Ending(x) = FM!Transform(full)
  BY <1>2, <1>5, <1>11, <1>13, <1>15, Zenon
<1>17. FM!Transform(full) = Ctx(e, <<>>, n)
  <2>1. FM!Transform(Ctx(b, h, n)) = Ctx(Append(b, h), <<>>, n)
    BY TransformIs
  <2> QED BY <1>8, <1>12, <2>1, Zenon
<1>18. Ending(x).blocks = e
  BY <1>16, <1>17, CtxIs
<1>19. Ends(h, z, FM!LengthBytes(n))
  BY <1>2, <1>7, Zenon
<1>20. /\ Fills(z, g, 56, 0) /\ Ends(h, z, FM!LengthBytes(n)) /\ Longer(e, b, h)
       /\ Ending(x).blocks = e
  BY <1>1, <1>8, <1>18, <1>19, Zenon
<1> QED BY <1>6, <1>20, Zenon DEF EndsWith

Marked(x) == [FM!Put(x, "0x80") EXCEPT !.count = FM!Put(x, "0x80").count + 8 * Len(x.buf)]

IsMarked(V, x, b, f, c) ==
    \E g \in Seq(V) : Longer(g, f, "0x80") /\ Marked(x) = Ctx(b, g, c + 8 * Len(f))

LEMMA MarkedIs ==
    ASSUME NEW V, "0x80" \in V, NEW b \in Seq(Block(V)), NEW f \in Seq(V), NEW c \in Nat,
           NEW x, x = Ctx(b, f, c)
    PROVE  IsMarked(V, x, b, f, c)
<1>1. PICK mark \in V : mark = "0x80"
  OBVIOUS
<1>2. PICK g \in Seq(V) : g = Append(f, mark) /\ Longer(g, f, mark)
  BY AppendIsLonger
<1>3. PICK put : put = Ctx(b, g, c)
  OBVIOUS
<1>4. FM!Put(x, mark) = put
  BY <1>2, <1>3, PutIs
<1>5. put.count = c
  BY <1>3 DEF Ctx
<1>6. x.buf = f
  BY DEF Ctx
<1>7. [put EXCEPT !.count = c + 8 * Len(f)] = Ctx(b, g, c + 8 * Len(f))
  BY <1>3, CountIs
<1>8. Marked(x) = [FM!Put(x, mark) EXCEPT !.count = FM!Put(x, mark).count + 8 * Len(x.buf)]
  BY <1>1, Zenon DEF Marked
<1>9. Longer(g, f, "0x80") /\ Marked(x) = Ctx(b, g, c + 8 * Len(f))
  BY <1>1, <1>2, <1>4, <1>5, <1>6, <1>7, <1>8, Zenon
<1> QED BY <1>9, Zenon DEF IsMarked

LEMMA FinalIs ==
    ASSUME NEW x
    PROVE  /\ Len(Marked(x).buf) <= 56 => FM!sha256_final(x) = Ending(Marked(x))
           /\ Len(Marked(x).buf) > 56 =>
                  FM!sha256_final(x) = Ending(FM!Transform(FM!FillTo(Marked(x), 64, 0)))
<1>1. \A m, l : m = Marked(x) /\ l = (IF FM!NoRoom(m.buf) THEN FM!Transform(FM!FillTo(m, 64, 0)) ELSE m)
                => FM!sha256_final(x) = Ending(l)
  BY DEF FM!sha256_final, Marked, Ending
<1> QED BY <1>1 DEF FM!NoRoom

(* Both ways a text can end.                                                *)
Hashed(V, e, p) ==
    /\ e \in Seq(Block(V)) /\ Len(e) \in Nat \ {0} /\ Len(p) = 64 * Len(e)
    /\ \A k \in 1..Len(e) : Places(e[k], p, 64 * (k - 1))

LEMMA TextEnds ==
    ASSUME NEW V, "0x80" \in V, 0 \in V, NEW n \in Nat, NEW x, IsCut(V, x, n),
           FM!LengthBytes(8 * n) \in Seq(V), NEW k \in 0..63, (n + 1 + k) % 64 = 56,
           NEW p, Padded(p, n, k, "0x80", FM!LengthBytes(8 * n))
    PROVE  Hashed(V, FM!sha256_final(x).blocks, p)
<1>1. PICK b \in Seq(Block(V)), f \in Seq(V), c \in Nat, full \in Nat, rest \in 0..63 :
          x = Ctx(b, f, c) /\ Cut(b, f, c, n, full, rest)
  BY Zenon DEF IsCut
<1>2. /\ Len(b) = full /\ Len(f) = rest /\ 64 * full + rest = n /\ c = 512 * full
      /\ \A j \in 1..full : OwnBlock(b[j], 64 * (j - 1))
      /\ \A i \in 1..rest : f[i] = 64 * full + i
  BY <1>1, Zenon DEF Cut
<1>3. Counts(f, rest, 64 * full)
  BY <1>2, Zenon DEF Counts
<1>4. PICK mark \in V : mark = "0x80"
  OBVIOUS
<1>5. PICK bytes \in Seq(V) : bytes = FM!LengthBytes(8 * n)
  OBVIOUS
<1>6. Padded(p, n, k, mark, bytes)
  BY <1>4, <1>5, Zenon
<1>7. PICK N \in Nat : N = 8 * n
  OBVIOUS
<1>8. PICK g \in Seq(V) : Longer(g, f, mark) /\ Marked(x) = Ctx(b, g, c + 8 * Len(f))
  <2>1. IsMarked(V, x, b, f, c)
    BY <1>1, MarkedIs
  <2> QED BY <1>4, <2>1, Zenon DEF IsMarked
<1>9. PICK marked : marked = Marked(x)
  OBVIOUS
<1>10. marked = Ctx(b, g, N) /\ marked.buf = g
  <2>1. c + 8 * Len(f) = N
    BY <1>2, <1>7
  <2>2. marked = Ctx(b, g, N)
    BY <1>8, <1>9, <2>1, Zenon
  <2>3. marked.buf = g
    BY <2>2, CtxIs
  <2> QED BY <2>2, <2>3
<1>11. Len(g) = rest + 1
  BY <1>2, <1>8, Zenon DEF Longer
<1>12. k = IF rest <= 55 THEN 55 - rest ELSE 119 - rest
  <2>1. n + 1 + k = 64 * full + rest + 1 + k
    BY <1>2
  <2>2. PICK m : m = n + 1 + k
    OBVIOUS
  <2>3. m % 64 = 56 /\ m = 64 * full + rest + 1 + k
    BY <2>1, <2>2, Zenon
  <2> QED BY <2>3, ZerosGiven
<1>13. ASSUME NEW j \in 1..full PROVE Places(b[j], p, 64 * (j - 1))
  <2>1. PICK from \in Nat : from = 64 * (j - 1) /\ from + 64 <= n
    BY <1>2
  <2>2. OwnBlock(b[j], from)
    BY <1>2, <2>1, Zenon
  <2>3. Places(b[j], p, from)
    BY <1>6, <2>1, <2>2, OwnBlockIsInPlace
  <2> QED BY <2>1, <2>3, Zenon
<1>14. PlacesUpTo(b, full, p)
  BY <1>2, <1>13, Zenon DEF PlacesUpTo
<1>15. Len(p) = n + 1 + k + 8
  BY <1>6, Zenon DEF Padded
<1>16. CASE rest <= 55
  <2>1. FM!sha256_final(x) = Ending(marked)
    <3>1. Len(marked.buf) <= 56
      BY <1>10, <1>11, <1>16
    <3> QED BY <1>9, <3>1, FinalIs, Zenon
  <2>2. EndsWith(V, marked, b, g, N)
    <3>1. Len(g) <= 56
      BY <1>11, <1>16
    <3>2. FM!LengthBytes(N) \in Seq(V)
      BY <1>7
    <3> QED BY <1>10, <3>1, <3>2, EndingIs
  <2>3. PICK z \in Seq(V), h \in Seq(V), e \in Seq(Block(V)) :
            /\ Fills(z, g, 56, 0) /\ Ends(h, z, FM!LengthBytes(N)) /\ Longer(e, b, h)
            /\ Ending(marked).blocks = e
    BY <2>2, Zenon DEF EndsWith
  <2>4. Ends(h, z, bytes)
    BY <1>5, <1>7, <2>3, Zenon
  <2>5. k = 55 - rest /\ rest \in 0..55 /\ k \in Nat /\ n = 64 * full + rest
    BY <1>2, <1>12, <1>16
  <2>6. Places(h, p, 64 * full)
    BY <1>6, <1>8, <1>3, <2>3, <2>4, <2>5, LastBlockIsInPlace
  <2>7. PlacesUpTo(e, full + 1, p)
    <3>1. PICK from : from = 64 * full
      OBVIOUS
    <3>2. Places(h, p, from)
      BY <2>6, <3>1, Zenon
    <3> QED BY <1>14, <2>3, <3>1, <3>2, OneMoreBlock
  <2>8. full + 1 \in Nat \ {0} /\ Len(p) = 64 * (full + 1)
    BY <1>15, <2>5
  <2>9. FM!sha256_final(x).blocks = e
    BY <2>1, <2>3, Zenon
  <2> QED BY <2>7, <2>8, <2>9, Zenon DEF Hashed, PlacesUpTo
<1>17. CASE rest >= 56
  <2>1. PICK y \in Seq(V) : y = Filled(g, 64, 0) /\ Fills(y, g, 64, 0)
    <3>1. Len(g) <= 64
      BY <1>11
    <3> QED BY <3>1, FilledIs, 64 \in Nat
  <2>2. PICK d \in Seq(Block(V)) : d = Append(b, y) /\ Longer(d, b, y)
    <3>1. y \in Block(V)
      BY DEF Block
    <3> QED BY <3>1, AppendIsLonger
  <2>18. PICK none : none = <<>>
    OBVIOUS
  <2>3. none \in Seq(V) /\ Len(none) = 0 /\ none = <<>>
    BY <2>18
  <2>4. PICK moved : moved = Ctx(d, none, N)
    OBVIOUS
  <2>5. FM!Transform(FM!FillTo(marked, 64, 0)) = moved
    <3>1. FM!FillTo(Ctx(b, g, N), 64, 0) = Ctx(b, Filled(g, 64, 0), N)
      BY FillToIs
    <3>2. FM!Transform(Ctx(b, y, N)) = Ctx(Append(b, y), <<>>, N)
      BY TransformIs
    <3> QED BY <1>10, <2>1, <2>2, <2>3, <2>4, <3>1, <3>2, Zenon
  <2>6. FM!sha256_final(x) = Ending(moved)
    <3>1. Len(marked.buf) > 56
      BY <1>10, <1>11, <1>17
    <3> QED BY <1>9, <2>5, <3>1, FinalIs, Zenon
  <2>7. EndsWith(V, moved, d, none, N)
    <3>1. Len(none) <= 56
      BY <2>3
    <3>2. FM!LengthBytes(N) \in Seq(V)
      BY <1>7
    <3> QED BY <2>3, <2>4, <3>1, <3>2, EndingIs, Zenon
  <2>8. PICK z \in Seq(V), h \in Seq(V), e \in Seq(Block(V)) :
            /\ Fills(z, none, 56, 0) /\ Ends(h, z, FM!LengthBytes(N)) /\ Longer(e, d, h)
            /\ Ending(moved).blocks = e
    BY <2>7, Zenon DEF EndsWith
  <2>9. Ends(h, z, bytes)
    BY <1>5, <1>7, <2>8, Zenon
  <2>10. k = 119 - rest /\ rest \in 56..63 /\ k \in Nat /\ n = 64 * full + rest
    BY <1>2, <1>12, <1>17
  <2>11. Places(y, p, 64 * full)
    BY <1>6, <1>8, <1>3, <2>1, <2>10, BlockBeforeIsInPlace
  <2>19. PICK after : after = 64 * (full + 1)
    OBVIOUS
  <2>12. Places(h, p, after)
    <3>1. Len(none) = 0 /\ Fills(z, none, 56, 0)
      BY <2>3, <2>8, Zenon
    <3>2. AllZeros(h, bytes)
      BY <2>9, <3>1, EmptyEnds, Zenon
    <3> QED BY <1>6, <2>10, <2>19, <3>2, ExtraBlockIsInPlace
  <2>13. PICK more \in Nat : more = full + 1
    OBVIOUS
  <2>14. PlacesUpTo(d, more, p)
    <3>1. PICK from : from = 64 * full
      OBVIOUS
    <3>2. Places(y, p, from)
      BY <2>11, <3>1, Zenon
    <3>3. PlacesUpTo(d, full + 1, p)
      BY <1>14, <2>2, <3>1, <3>2, OneMoreBlock
    <3> QED BY <2>13, <3>3, Zenon
  <2>15. PlacesUpTo(e, more + 1, p)
    <3>1. after = 64 * more
      BY <2>13, <2>19
    <3> QED BY <2>8, <2>12, <2>14, <3>1, OneMoreBlock
  <2>16. more + 1 \in Nat \ {0} /\ Len(p) = 64 * (more + 1)
    BY <1>15, <2>10, <2>13
  <2>17. FM!sha256_final(x).blocks = e
    BY <2>6, <2>8, Zenon
  <2> QED BY <2>15, <2>16, <2>17, Zenon DEF Hashed, PlacesUpTo
<1> QED BY <1>16, <1>17

LEMMA PaddingHolds == ASSUME NEW length \in Nat PROVE FM!PaddingIsFips(length)
<1> DEFINE data == [i \in 1 .. length |-> i]
           V == Nat \cup {"0x80"} \cup {FM!LengthBytes(8 * length)[i] : i \in 1..8}
<1>1. PICK bytes : bytes = FM!LengthBytes(8 * length)
  OBVIOUS
<1>2. bytes \in Seq(V) /\ Len(bytes) = 8
  <2>1. DOMAIN bytes = 1..8 /\ \A i \in 1..8 : bytes[i] \in V
    BY <1>1 DEF FM!LengthBytes
  <2>2. bytes = [i \in 1..8 |-> bytes[i]]
    BY <1>1 DEF FM!LengthBytes
  <2> HIDE DEF V
  <2> QED BY <2>1, <2>2
<1>3. "0x80" \in V /\ 0 \in V /\ 1..length \subseteq V /\ data \in [1..length -> V]
  OBVIOUS
<1>4. \A i \in 1..length : data[i] = i
  OBVIOUS
<1>5. \E k \in 0..63 : (length + 1 + k) % 64 = 56
  <2>1. PICK full \in Nat, rest \in 0..63 : length = 64 * full + rest
    <3>1. length \div 64 \in Nat /\ length % 64 \in 0..63 /\ length = 64 * (length \div 64) + (length % 64)
      OBVIOUS
    <3> QED BY <3>1
  <2>2. PICK k \in 0..63 : k = IF rest <= 55 THEN 55 - rest ELSE 119 - rest
    OBVIOUS
  <2>3. (64 * full + rest + 1 + k) % 64 = 56
    BY <2>2, ZerosAre
  <2>4. length + 1 + k = 64 * full + rest + 1 + k
    BY <2>1
  <2> QED BY <2>3, <2>4, Zenon
<1>6. PICK k : k = CHOOSE j \in 0 .. 63 : (length + 1 + j) % 64 = 56
  OBVIOUS
<1>7. k \in 0..63 /\ (length + 1 + k) % 64 = 56
  BY <1>5, <1>6
<1>8. PICK zeros : zeros = [i \in 1..k |-> 0]
  OBVIOUS
<1>9. PICK text : text = data
  OBVIOUS
<1> HIDE DEF V
<1>10. PICK p \in Seq(V) : p = text \o <<"0x80">> \o zeros \o bytes
                           /\ Padded(p, length, k, "0x80", bytes)
  <2>1. k \in Nat
    BY <1>7
  <2>2. Counting(text, length) /\ Zeros(zeros, k)
    BY <1>8, <1>9, Zenon DEF Counting, Zeros
  <2>3. PadsTo(V, length, k, text, "0x80", zeros, bytes)
    BY <1>2, <1>3, <2>1, <2>2, PaddedIs
  <2> QED BY <2>3, Zenon DEF PadsTo
<1>11. IsCut(V, FM!sha256_update(FM!sha256_init, text), length)
  BY <1>3, <1>4, <1>9, BytesAreCut
<1>12. PICK blocks : blocks = FM!sha256_blocks(text)
  OBVIOUS
<1>13. Hashed(V, blocks, p)
  <2>1. PICK x : x = FM!sha256_update(FM!sha256_init, text)
    OBVIOUS
  <2>2. blocks = FM!sha256_final(x).blocks
    BY <1>12, <2>1, Zenon DEF FM!sha256_blocks
  <2>3. Hashed(V, FM!sha256_final(x).blocks, p)
    BY <1>1, <1>2, <1>3, <1>7, <1>10, <1>11, <2>1, TextEnds
  <2> QED BY <2>2, <2>3, Zenon
<1>14. FlattenSeq(blocks) = p
  BY <1>13, BlocksAreFlat DEF Hashed
<1>15. \A i \in DOMAIN blocks : Len(blocks[i]) = 64
  BY <1>13 DEF Hashed, Places
<1>16. FM!FlattenSeq(blocks) = data \o <<"0x80">> \o [i \in 1 .. k |-> 0] \o FM!LengthBytes(8 * length)
  BY <1>1, <1>8, <1>9, <1>10, <1>14, SameInHash, Zenon
<1> HIDE DEF data
<1> QED BY <1>6, <1>9, <1>12, <1>15, <1>16 DEF FM!PaddingIsFips, data

-----------------------------------------------------------------------------
(* Coverage is added up as it is reached: for lcov files, conditions and   *)
(* source lines of any length.                                             *)
THEOREM CoverageIsAddedUp ==
    ASSUME NEW LineKeys, NEW Fs,
           input.of = "lcov" => input.value \in Seq(LcovLine(LineKeys)),
           input.of = "mcdc" => input.value \in Seq(Seq(Nat \X Nat)),
           input.of = "lines" => input.value \in Seq(SourceLine(Fs))
    PROVE  CoverageIsOfTheCode
<1>1. OneTagOneFunction
  BY TagsAreOfOne DEF OneTagOneFunction, Of
<1>2. LevelsAreOrdered
  BY LevelsFall DEF LevelsAreOrdered, Of
<1>3. FullMeansEveryFile
  BY FullIsOfEveryFile DEF FullMeansEveryFile, Of
<1>4. McdcMeansBoth
  BY FullIsOfBoth DEF McdcMeansBoth, Of
<1> QED BY <1>1, <1>2, <1>3, <1>4 DEF CoverageIsOfTheCode

(* The argument is supported by what it cites and cites what is indexed,   *)
(* whatever evidence there is; coupling and boundary tell of the same      *)
(* components, whatever files there are; dependencies that are pinned,     *)
(* to versions with parts of two digits, are reported for the advisories   *)
(* whose fixed version is later than theirs, and for no others; and files  *)
(* of any length are padded for their hash as FIPS 180-4 says.             *)
THEOREM ArtifactsAreRight ==
    ASSUME NEW Names, "none" \notin Names,
           input.of = "files" => ComponentNames(input.value),
           input.of = "cmake" => input.value \in Seq(Mark(Names)),
           input.of = "bytes" => input.value \in Nat
    PROVE  ArtifactsAreOfTheProject
<1>1. SupportIsArgued
  BY ArgumentsAreSupported DEF SupportIsArgued, Of
<1>2. ArgumentIsIndexed
  BY WhatIsCitedIsIndexed DEF ArgumentIsIndexed, Of
<1>3. AccountsAgree
  BY AccountsAreOne DEF AccountsAgree, Of
<1>4. UpgradesCloseAdvisories
  BY ClosedByUpgrade DEF UpgradesCloseAdvisories, Of
<1>5. PaddingIsFips
  BY PaddingHolds DEF PaddingIsFips, Of
<1> QED BY <1>1, <1>2, <1>3, <1>4, <1>5 DEF ArtifactsAreOfTheProject

-----------------------------------------------------------------------------
(* What the run enumerates of these is among the inputs they hold for.     *)
LcovKeys == {"SF", "LF", "LH", "BRF", "BRH", "end"}

LEMMA LcovLinesAreLines == LcovLines \subseteq Seq(LcovLine(LcovKeys))
<1> DEFINE V == LcovLine(LcovKeys)
           line(key, value) == <<[key |-> key, value |-> value]>>
           maybe(key, values) == {<<>>} \cup {line(key, v) : v \in values}
<1>1. \A key \in LcovKeys, values \in SUBSET Nat : maybe(key, values) \subseteq Seq(V)
  <2>1. ASSUME NEW key \in LcovKeys, NEW v \in Nat PROVE line(key, v) \in Seq(V)
    <3>1. [key |-> key, value |-> v] \in V
      BY DEF LcovLine
    <3> QED BY <3>1
  <2>2. <<>> \in Seq(V)
    OBVIOUS
  <2> HIDE DEF V, line
  <2> QED BY <2>1, <2>2
<1>2. LcovRecords = {FlattenSeq(<<start, lf, lh, brf, brh, end>>) :
            start \in maybe("SF", {0}), lf \in maybe("LF", {4}), lh \in maybe("LH", {3, 4}),
            brf \in maybe("BRF", {4}), brh \in maybe("BRH", {3, 4}), end \in maybe("end", {0})}
  BY DEF LcovRecords
<1> HIDE DEF V, line, maybe
<1>3. /\ maybe("SF", {0}) \subseteq Seq(V) /\ maybe("LF", {4}) \subseteq Seq(V)
      /\ maybe("LH", {3, 4}) \subseteq Seq(V) /\ maybe("BRF", {4}) \subseteq Seq(V)
      /\ maybe("BRH", {3, 4}) \subseteq Seq(V) /\ maybe("end", {0}) \subseteq Seq(V)
  BY <1>1 DEF LcovKeys
<1>4. ASSUME NEW a \in Seq(V), NEW b \in Seq(V), NEW c \in Seq(V), NEW d \in Seq(V),
             NEW e \in Seq(V), NEW f \in Seq(V)
      PROVE  FlattenSeq(<<a, b, c, d, e, f>>) \in Seq(V)
  <2>1. <<a, b, c, d, e, f>> \in [1..6 -> Seq(V)]
    OBVIOUS
  <2> QED BY <2>1, FlattenHas, 6 \in Nat
<1>5. LcovRecords \subseteq Seq(V)
  <2> SUFFICES ASSUME NEW r \in LcovRecords PROVE r \in Seq(V)
    OBVIOUS
  <2>1. PICK start \in maybe("SF", {0}), lf \in maybe("LF", {4}), lh \in maybe("LH", {3, 4}),
             brf \in maybe("BRF", {4}), brh \in maybe("BRH", {3, 4}), end \in maybe("end", {0}) :
             r = FlattenSeq(<<start, lf, lh, brf, brh, end>>)
    BY <1>2
  <2> QED BY <1>3, <1>4, <2>1
<1>6. BoundedSeq(LcovRecords, 2) \subseteq Seq(Seq(V))
  BY <1>5, BoundedIsSeq, 2 \in Nat, Zenon
<1>7. ASSUME NEW records \in Seq(Seq(V)) PROVE FlattenSeq(records) \in Seq(V)
  <2> DEFINE S == Seq(V)
  <2>1. records \in Seq(S)
    OBVIOUS
  <2> HIDE DEF S
  <2>2. Len(records) \in Nat /\ records \in [1..Len(records) -> S]
    BY <2>1, SeqIsFunction
  <2> QED BY <2>2, FlattenHas, Zenon DEF S
<1> QED BY <1>6, <1>7 DEF LcovLines, V

LEMMA McdcIsOfPairs == McdcRecords \subseteq Seq(Seq(Nat \X Nat))
<1>1. {0, 2} \X {0, 1} \subseteq Nat \X Nat
  OBVIOUS
<1>2. BoundedSeq({0, 2} \X {0, 1}, 2) \subseteq Seq(Nat \X Nat)
  BY <1>1, BoundedIsSeq, 2 \in Nat, Zenon
<1>3. BoundedSeq(BoundedSeq({0, 2} \X {0, 1}, 2), 2) \subseteq Seq(Seq(Nat \X Nat))
  BY <1>2, BoundedIsSeq, 2 \in Nat, Zenon
<1> QED BY <1>3 DEF McdcRecords

Mentioned == {Function("", "f"), Function("A", "f"), Function("", "g")}
LEMMA SourceLinesAreLines == SourceLines \subseteq Seq(SourceLine(Mentioned))
<1> DEFINE f == Function("", "f")  af == Function("A", "f")  g == Function("", "g")
           S == Seq(Mentioned)
<1>1. f \in Mentioned /\ af \in Mentioned /\ g \in Mentioned
  BY DEF Mentioned
<1> HIDE DEF f, af, g
<1>2. /\ <<>> \in S /\ <<f>> \in S /\ <<g>> \in S /\ <<f, g>> \in S
      /\ <<af>> \in S /\ <<af, f>> \in S
  BY <1>1
<1> HIDE DEF S
<1>3. \A indented \in BOOLEAN, is \in FU!LineKinds, calls \in S :
          [indented |-> indented, is |-> is, calls |-> calls] \in SourceLine(Mentioned)
  BY DEF SourceLine, S
<1>4. {"code", "tag", "comment", "blank"} = FU!LineKinds
  BY DEF FU!LineKinds
<1>5. LineForms \subseteq SourceLine(Mentioned)
  BY <1>2, <1>3, <1>4 DEF LineForms, f, af, g
<1> QED BY <1>5, BoundedIsSeq, 4 \in Nat, Zenon DEF SourceLines

DepNames == {"nlohmann_json", "catch2", "Catch2"}
LEMMA CMakeIsOfMarks == BoundedSeq(CMakeMarks, 4) \subseteq Seq(Mark(DepNames)) /\ "none" \notin DepNames
<1> DEFINE tags == {<<>>, <<3, 9, 1>>, <<3, 10, 5>>, <<2, 13, 7>>, <<3, 11, 0>>}
<1>1. tags \subseteq Versions \cup {<<>>}
  BY DEF Versions
<1>2. {[declares |-> n] : n \in DepNames} \subseteq [declares : DepNames]
  OBVIOUS
<1>3. \A T : {[tag |-> t] : t \in T} \subseteq [tag : T]
  OBVIOUS
<1>4. CMakeMarks = {[declares |-> n] : n \in DepNames} \cup {[tag |-> t] : t \in tags}
  BY DEF CMakeMarks, DepNames
<1> HIDE DEF tags
<1>5. [tag : tags] \subseteq [tag : Versions \cup {<<>>}]
  BY <1>1
<1>6. CMakeMarks \subseteq Mark(DepNames)
  BY <1>2, <1>3, <1>4, <1>5 DEF Mark
<1>7. BoundedSeq(CMakeMarks, 4) \subseteq Seq(Mark(DepNames))
  BY <1>6, BoundedIsSeq, 4 \in Nat, Zenon
<1> QED BY <1>7 DEF DepNames

LEMMA FilesAreOfComponents == \A files \in FileSets : ComponentNames(files)
<1> DEFINE named(f) == /\ f.component \notin {"cpfusa", "none", "iostream", "std::filesystem"}
                       /\ f.excluded \in BOOLEAN
<1>1. \A f \in Files : named(f)
  BY DEF Files
<1> HIDE DEF named
<1>2. \A files \in FileSets : \A f \in files : named(f)
  BY <1>1 DEF FileSets
<1> QED BY <1>2 DEF ComponentNames, named

InputsAreKnown ==
    /\ input.of = "gap" => input.value.standard \in GA!Standards
    /\ input.of = "standard" => input.value \in GA!Standards
    /\ input.of = "unece" => input.value.regulation \in {"r155", "r156", "both"}
    /\ input.of = "rating" => input.value.impact \in [1 .. 4 -> {"negligible", "moderate", "major", "critical"}]
    /\ input.of = "hara" =>
           /\ {"hara", "asil"} \subseteq DOMAIN input.value
           /\ input.value.hara.is = "read" => input.value.hara \in AHara(RunLabels)
    /\ input.of = "sources" => ProjectFields \subseteq DOMAIN input.value
    /\ input.of = "outcomes" => input.value \in Seq(Results)
    /\ input.of = "config" => input.value = [f \in ConfigFields |-> input.value[f]]
    /\ input.of = "findings" => input.value \in Seq(AFinding(RunLabels))
    /\ input.of = "lcov" => input.value \in Seq(LcovLine(LcovKeys))
    /\ input.of = "mcdc" => input.value \in Seq(Seq(Nat \X Nat))
    /\ input.of = "lines" => input.value \in Seq(SourceLine(Mentioned))
    /\ input.of = "files" => ComponentNames(input.value)
    /\ input.of = "cmake" => input.value \in Seq(Mark(DepNames))
    /\ input.of = "bytes" => input.value \in Nat

LEMMA InputIsKnown == Init => InputsAreKnown
<1> SUFFICES ASSUME Init PROVE InputsAreKnown
  OBVIOUS
<1>1. ASSUME NEW of, NEW values, input \in Inputs(of, values)
      PROVE  input.of = of /\ input.value \in values
  BY <1>1 DEF Inputs
<1>2. /\ input.of = "gap" => input.value \in GapProjects
      /\ input.of = "standard" => input.value \in GA!Standards
      /\ input.of = "unece" => input.value \in Unece
      /\ input.of = "rating" => input.value \in Ratings
      /\ input.of = "hara" => input.value \in HaraProjects
      /\ input.of = "sources" => input.value \in SourceProjects
      /\ input.of = "outcomes" => input.value \in Outcomes
      /\ input.of = "config" => input.value \in Configs
      /\ input.of = "findings" => input.value \in FindingLists
      /\ input.of = "lcov" => input.value \in LcovLines
      /\ input.of = "mcdc" => input.value \in McdcRecords
      /\ input.of = "lines" => input.value \in SourceLines
      /\ input.of = "files" => input.value \in FileSets
      /\ input.of = "cmake" => input.value \in BoundedSeq(CMakeMarks, 4)
      /\ input.of = "bytes" => input.value \in Lengths
  BY <1>1 DEF Init
<1>3. \A g \in GapProjects : g.standard \in GA!Standards
  BY DEF GapProjects
<1>4. \A u \in Unece : u.regulation \in {"r155", "r156", "both"}
  BY DEF Unece
<1>5. \A r \in Ratings : r.impact \in [1 .. 4 -> {"negligible", "moderate", "major", "critical"}]
  BY DEF Ratings
<1>6. \A p \in HaraProjects : {"hara", "asil"} \subseteq DOMAIN p /\ p.hara \in HaraFiles
  BY ProjectsHaveFields
<1>7. \A o \in Outcomes : o \in Seq(Results)
  BY OutcomesAreResults
<1>8. \A c \in Configs : c = [f \in ConfigFields |-> c[f]]
  BY DEF Configs, ConfigFields
<1>9. /\ input.of = "gap" => input.value.standard \in GA!Standards
      /\ input.of = "standard" => input.value \in GA!Standards
      /\ input.of = "unece" => input.value.regulation \in {"r155", "r156", "both"}
      /\ input.of = "rating" => input.value.impact \in [1 .. 4 -> {"negligible", "moderate", "major", "critical"}]
  BY <1>2, <1>3, <1>4, <1>5
<1>10. /\ input.of = "hara" =>
            /\ {"hara", "asil"} \subseteq DOMAIN input.value
            /\ input.value.hara.is = "read" => input.value.hara \in AHara(RunLabels)
       /\ input.of = "sources" => ProjectFields \subseteq DOMAIN input.value
       /\ input.of = "outcomes" => input.value \in Seq(Results)
       /\ input.of = "findings" => input.value \in Seq(AFinding(RunLabels))
  BY <1>2, <1>6, <1>7, HarasAreLabelled, ProjectsHaveFields, FindingsAreLabelled
<1>11. input.of = "config" => input.value = [f \in ConfigFields |-> input.value[f]]
  BY <1>2, <1>8, Zenon
<1>12. /\ input.of = "lcov" => input.value \in Seq(LcovLine(LcovKeys))
       /\ input.of = "mcdc" => input.value \in Seq(Seq(Nat \X Nat))
       /\ input.of = "lines" => input.value \in Seq(SourceLine(Mentioned))
       /\ input.of = "files" => ComponentNames(input.value)
       /\ input.of = "cmake" => input.value \in Seq(Mark(DepNames))
  BY <1>2, LcovLinesAreLines, McdcIsOfPairs, SourceLinesAreLines, FilesAreOfComponents, CMakeIsOfMarks
<1>13. input.of = "bytes" => input.value \in Nat
  BY <1>2 DEF Lengths
<1> QED BY <1>9, <1>10, <1>11, <1>12, <1>13 DEF InputsAreKnown

(* Ratings, gap reports, qualification, reports, coverage and artifacts    *)
(* are right before and after every report of the run.                     *)
THEOREM ReportsAreRight ==
    Spec => [](/\ RatingsFollowTheTables /\ GapsFollowTheEvidence
               /\ QualificationMeansTheRules /\ ReportsTellTheFindings
               /\ CoverageIsOfTheCode /\ ArtifactsAreOfTheProject)
<1> DEFINE Good == /\ RatingsFollowTheTables /\ GapsFollowTheEvidence
                   /\ QualificationMeansTheRules /\ ReportsTellTheFindings
                   /\ CoverageIsOfTheCode /\ ArtifactsAreOfTheProject
<1>1. ASSUME InputsAreKnown PROVE Good
  <2>1. RatingsFollowTheTables /\ GapsFollowTheEvidence
    BY <1>1, RatingsAreOfTheTables, GapReportsFollowTheEvidence DEF InputsAreKnown
  <2>2. QualificationMeansTheRules
    BY <1>1, HarasAreLabelled, QualificationIsOfTheRules, Zenon DEF InputsAreKnown
  <2>3. ReportsTellTheFindings
    BY <1>1, ReportsTellWhatWasFound, Zenon DEF InputsAreKnown
  <2>4. CoverageIsOfTheCode
    BY <1>1, CoverageIsAddedUp, Zenon DEF InputsAreKnown
  <2>5. ArtifactsAreOfTheProject
    BY <1>1, ArtifactsAreRight, CMakeIsOfMarks, Zenon DEF InputsAreKnown
  <2> QED BY <2>1, <2>2, <2>3, <2>4, <2>5
<1>2. InputsAreKnown /\ [Report]_<<input, reported>> => InputsAreKnown'
  BY DEF InputsAreKnown, Report
<1> QED BY <1>1, <1>2, InputIsKnown, PTL DEF Spec

=============================================================================
