-------------------------------- MODULE Tara --------------------------------
(***************************************************************************)
(* The TARA (src/src/tara/tara.cpp): the risk of a threat scenario out of  *)
(* how feasible the attack is and how bad its worst effect, and the        *)
(* catalogue of scenarios every project gets.                              *)
(***************************************************************************)
EXTENDS Naturals, Sequences, FiniteSets

\* Anything else ranks lowest.
feasibility_rank(f) == CASE f = "high" -> 3 [] f = "medium" -> 2 [] f = "low" -> 1 [] OTHER -> 0
impact_rank(i) == CASE i = "critical" -> 3 [] i = "major" -> 2 [] i = "moderate" -> 1 [] OTHER -> 0

\* An impact is <<safety, financial, operational, privacy>>.
\* Slip: the first axis that is worse than safety is taken for the worst.
FirstWorse(impact) ==
    LET worse == {a \in 2 .. 4 : impact_rank(impact[a]) > impact_rank(impact[1])}
    IN IF worse = {} THEN impact[1] ELSE impact[CHOOSE a \in worse : \A b \in worse : a <= b]

highest_impact(impact) ==
    LET worse(best, i) == IF impact_rank(i) > impact_rank(best) THEN i ELSE best
    IN worse(worse(worse(impact[1], impact[2]), impact[3]), impact[4])

\* By impact, then by feasibility, the lowest first.
kRiskTable ==
    <<<<"low", "low", "low", "low">>,
      <<"low", "low", "medium", "medium">>,
      <<"medium", "medium", "high", "high">>,
      <<"medium", "high", "critical", "critical">>>>

derive_risk(feasibility, impact) ==
    kRiskTable[impact_rank(highest_impact(impact)) + 1][feasibility_rank(feasibility) + 1]

default_scenarios ==
    LET s(asset, feasibility, impact) ==
            [asset |-> asset, feasibility |-> feasibility, impact |-> impact]
    IN <<s("release binary", "low", <<"major", "moderate", "moderate", "negligible">>),
         s("configuration", "medium", <<"major", "moderate", "negligible", "negligible">>),
         s("evidence", "low", <<"major", "moderate", "moderate", "negligible">>),
         s("dependencies", "very-low", <<"major", "moderate", "moderate", "negligible">>),
         s("qualification", "low", <<"major", "moderate", "negligible", "negligible">>),
         s("pipeline", "medium", <<"moderate", "negligible", "major", "negligible">>),
         s("annotations", "medium", <<"moderate", "negligible", "moderate", "negligible">>),
         s("waivers", "medium", <<"major", "negligible", "moderate", "negligible">>)>>

generate ==
    LET assets == Cardinality({default_scenarios[i].asset : i \in DOMAIN default_scenarios})
    IN [scenarios |-> [i \in DOMAIN default_scenarios |->
                            [rating |-> default_scenarios[i],
                             risk |-> derive_risk(default_scenarios[i].feasibility,
                                                  default_scenarios[i].impact)]],
        assets_analyzed |-> assets, assets_in_project |-> assets]

-----------------------------------------------------------------------------
Risks == <<"low", "medium", "high", "critical">>
RiskRank(risk) == CHOOSE r \in DOMAIN Risks : Risks[r] = risk

(* The risk is that of the worst of the four axes, whichever it is: a       *)
(* rating that is nowhere lower than another gets no lower a risk, moving   *)
(* an effect to another axis changes nothing, and an attack that is all but *)
(* impossible is never rated high.  A scenario of the catalogue is held to  *)
(* the same scale.                                                          *)
RiskFollowsTheWorst(feasibility, impact) ==
    LET risk == RiskRank(derive_risk(feasibility, impact))
        moved(a, b) == [impact EXCEPT ![a] = impact[b], ![b] = impact[a]]
        below(s) ==
            /\ feasibility_rank(s.rating.feasibility) <= feasibility_rank(feasibility)
            /\ \A a \in 1 .. 4 : \E b \in 1 .. 4 :
                   impact_rank(s.rating.impact[a]) <= impact_rank(impact[b])
    IN /\ \A f \in {"very-low", "low", "medium", "high"} :
              feasibility_rank(f) <= feasibility_rank(feasibility) =>
                  RiskRank(derive_risk(f, impact)) <= risk
       /\ \A a \in 1 .. 4, worse \in {"moderate", "major", "critical"} :
              impact_rank(impact[a]) <= impact_rank(worse) =>
                  RiskRank(derive_risk(feasibility, [impact EXCEPT ![a] = worse])) >= risk
       /\ \A a, b \in 1 .. 4 : RiskRank(derive_risk(feasibility, moved(a, b))) = risk
       /\ feasibility_rank(feasibility) = 0 => risk <= 2
       /\ \A i \in DOMAIN generate.scenarios :
              below(generate.scenarios[i]) => RiskRank(generate.scenarios[i].risk) <= risk

=============================================================================
