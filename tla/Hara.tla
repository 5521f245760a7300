-------------------------------- MODULE Hara --------------------------------
(***************************************************************************)
(* The hazard analysis (src/src/hara/hara.cpp): .fusa-hara.json read,      *)
(* written and reported, and the ASIL of a risk rating.  The file has the  *)
(* shape the engine's rules read (module Engine).                          *)
(***************************************************************************)
EXTENDS Engine

(* The class of a text is its last digit; a text that is no class is taken *)
(* for the highest.                                                        *)
parse_severity(s) ==
    CASE s = "S0" -> 0 [] s = "S1" -> 1 [] s = "S2" -> 2 [] OTHER -> 3
parse_exposure(s) ==
    CASE s = "E0" -> 0 [] s = "E1" -> 1 [] s = "E2" -> 2 [] s = "E3" -> 3 [] OTHER -> 4
parse_controllability(s) ==
    CASE s = "C0" -> 0 [] s = "C1" -> 1 [] s = "C2" -> 2 [] OTHER -> 3

AsilNames == <<"ASIL-A", "ASIL-B", "ASIL-C", "ASIL-D">>

\* Slip: the classes of no risk are left to the sum.
AsilBySum(s, e, c) ==
    IF s + e + c <= 6 THEN "QM" ELSE AsilNames[s + e + c - 6]

determine_asil(s, e, c) ==
    IF 0 \in {s, e, c} \/ s + e + c <= 6 THEN "QM" ELSE AsilNames[s + e + c - 6]

-----------------------------------------------------------------------------
(* A HARA in memory.  Loading fills a hazard without a risk object with    *)
(* empty texts, and an asil field that is not there with QM.               *)

load_hazard(h) ==
    [h EXCEPT !.rated = h.risk /\ h.rated, !.risk = TRUE,
              !.asil = IF ~h.risk THEN "" ELSE IF h.asil = Absent THEN "QM" ELSE h.asil]

load_goal(g) == [g EXCEPT !.asil = IF @ = Absent THEN "QM" ELSE @]

load(file) ==
    IF file.is # "read" THEN file
    ELSE [file EXCEPT !.hazards = [i \in DOMAIN @ |-> load_hazard(@[i])],
                      !.goals = [i \in DOMAIN @ |-> load_goal(@[i])]]

\* What is saved, reported and hashed is the HARA in memory, each hazard with
\* a risk object.
\* Slip: the risk object is left out where nothing was rated.
ContentWithoutEmptyRisk(hara) ==
    [hara EXCEPT !.hazards = [i \in DOMAIN @ |-> [@[i] EXCEPT !.risk = @ /\ hara.hazards[i].rated]]]

content_json(hara) == hara

init(file) ==
    IF file.is # "missing" THEN file
    ELSE [is |-> "read", situations |-> {}, hazards |-> <<>>, goals |-> <<>>]

Ids(items) == {items[i].id : i \in DOMAIN items}
Count(items, Test(_)) == Cardinality({i \in DOMAIN items : Test(items[i])})
Total(numbers) == FoldLeft(LAMBDA n, x : n + x, 0, numbers)
Sum(items, Of(_)) == Total([i \in DOMAIN items |-> Of(items[i])])

\* Slip: references out of safety goals are not looked at.
CompletenessOfHazards(hara, requirements) ==
    [total_hazards |-> Len(hara.hazards),
     hazards_with_asil |-> Count(hara.hazards, LAMBDA h : h.asil # ""),
     hazards_with_safety_goal |-> Count(hara.hazards, LAMBDA h : h.goals # {}),
     safety_goals_with_fssr_refs |-> Count(hara.goals, LAMBDA g : g.fssr # {}),
     dangling_references |->
        Sum(hara.hazards, LAMBDA h : Cardinality(h.situations \ hara.situations)
                                     + Cardinality(h.goals \ Ids(hara.goals)))]

compute_completeness(hara, requirements) ==
    [total_hazards |-> Len(hara.hazards),
     hazards_with_asil |-> Count(hara.hazards, LAMBDA h : h.asil # ""),
     hazards_with_safety_goal |-> Count(hara.hazards, LAMBDA h : h.goals # {}),
     safety_goals_with_fssr_refs |-> Count(hara.goals, LAMBDA g : g.fssr # {}),
     dangling_references |->
        Sum(hara.hazards, LAMBDA h : Cardinality(h.situations \ hara.situations)
                                     + Cardinality(h.goals \ Ids(hara.goals)))
        + Sum(hara.goals, LAMBDA g : Cardinality(g.hazards \ Ids(hara.hazards))
                                     + Cardinality(g.fssr \ requirements))]

-----------------------------------------------------------------------------
(* Table 4 of ISO 26262-3 as it is printed, row by row: for S1 to S3 and    *)
(* E1 to E4, the levels for C1, C2, C3 (0 is QM, 1 to 4 are A to D).        *)
Table4 ==
    <<<<<<0, 0, 0>>, <<0, 0, 0>>, <<0, 0, 1>>, <<0, 1, 2>>>>,
      <<<<0, 0, 0>>, <<0, 0, 1>>, <<0, 1, 2>>, <<1, 2, 3>>>>,
      <<<<0, 0, 1>>, <<0, 1, 2>>, <<1, 2, 3>>, <<2, 3, 4>>>>>>

(* The level of a rating is the one Table 4 prints, no class of no risk     *)
(* gives anything but QM, and raising any one class never lowers the level. *)
AsilIsTable4 ==
    \A s \in 0 .. 3, e \in 0 .. 4, c \in 0 .. 3 :
        LET level == rank(determine_asil(s, e, c)) IN
        /\ level = IF 0 \in {s, e, c} THEN 0 ELSE Table4[s][e][c]
        /\ s < 3 => rank(determine_asil(s + 1, e, c)) >= level
        /\ e < 4 => rank(determine_asil(s, e + 1, c)) >= level
        /\ c < 3 => rank(determine_asil(s, e, c + 1)) >= level

(* The completeness block says what the file's references do: none dangles  *)
(* just if each one, in either direction and to the requirements, resolves. *)
NoneDangles(file, requirements) ==
    LET hara == load(file)
        hazards == {hara.hazards[i] : i \in DOMAIN hara.hazards}
        goals == {hara.goals[i] : i \in DOMAIN hara.goals}
    IN file.is = "read" =>
        (compute_completeness(hara, requirements).dangling_references = 0 <=>
            /\ \A h \in hazards : h.situations \subseteq hara.situations
                               /\ \A g \in h.goals : \E x \in goals : x.id = g
            /\ \A g \in goals : g.fssr \subseteq requirements
                             /\ \A h \in g.hazards : \E x \in hazards : x.id = h)

(* The engine's rules read the file, the report what was loaded of it: they *)
(* agree about missing safety goals; about a hazard's asil they agree once  *)
(* the file was saved by the tool, which gives every hazard a risk object,  *)
(* and HARA002 then sees every hazard that is not rated.  What was loaded,  *)
(* and so the content an attestation hashes, is stable under save and load. *)
RulesAgreeWithReport(p, requirements) ==
    LET hara == load(p.hara)
        c == compute_completeness(hara, requirements)
        saved == [p EXCEPT !.hara = content_json(hara)]
    IN p.hara.is = "read" =>
        /\ make_hara003(p) = Nothing <=> c.hazards_with_safety_goal = c.total_hazards
        /\ load(content_json(hara)) = hara
        /\ make_hara002(saved) = Nothing <=>
               \A i \in DOMAIN p.hara.hazards : p.hara.hazards[i].risk /\ p.hara.hazards[i].rated
        /\ UnderAllocationIsFound(saved)

=============================================================================
