------------------------------ MODULE Coverage ------------------------------
(***************************************************************************)
(* The coverage command (src/src/coverage/coverage.cpp): add up the        *)
(* records of an lcov file, hold the shares against the thresholds of a    *)
(* design assurance level, and the same for MC/DC conditions.              *)
(***************************************************************************)
EXTENDS Naturals, Sequences, FiniteSets, SequencesExt

DALs == {"A", "B", "C", "D"}

\* Whatever is not a level is taken for the lowest.
parse_dal(text) == IF text \in {"A", "B", "C"} THEN text ELSE "D"

line_threshold(dal) == IF dal = "D" THEN 75 ELSE 100

\* Slip: levels B and C are exchanged.
BranchThresholdSwapped(dal) ==
    CASE dal \in {"A", "C"} -> 100 [] dal = "B" -> 75 [] OTHER -> 0

branch_threshold(dal) ==
    CASE dal \in {"A", "B"} -> 100 [] dal = "C" -> 75 [] OTHER -> 0

-----------------------------------------------------------------------------
(* A line of the file is [key, value]; value is 0 where it is no number.   *)

NoFile == [LF |-> 0, LH |-> 0, BRF |-> 0, BRH |-> 0]

\* Slip: a record counts as soon as the next one begins.
LcovStepOpen(s, line) ==
    CASE line.key = "SF" -> [in |-> TRUE, current |-> NoFile,
                             files |-> IF s.in THEN Append(s.files, s.current) ELSE s.files]
      [] line.key = "end" /\ s.in -> [s EXCEPT !.in = FALSE, !.files = Append(@, s.current)]
      [] s.in /\ line.key \in DOMAIN NoFile -> [s EXCEPT !.current[line.key] = line.value]
      [] OTHER -> s

\* A record counts when it ends; one that is cut short is dropped.
LcovStep(s, line) ==
    CASE line.key = "SF" -> [s EXCEPT !.in = TRUE, !.current = NoFile]
      [] line.key = "end" /\ s.in -> [s EXCEPT !.in = FALSE, !.files = Append(@, s.current)]
      [] s.in /\ line.key \in DOMAIN NoFile -> [s EXCEPT !.current[line.key] = line.value]
      [] OTHER -> s

FilesOf(lines) ==
    FoldLeft(LcovStep, [in |-> FALSE, current |-> NoFile, files |-> <<>>], lines).files

Total(numbers) == FoldLeft(LAMBDA n, x : n + x, 0, numbers)
Sum(files, key) == Total([i \in DOMAIN files |-> files[i][key]])

\* Slip: nothing found counts as everything hit.
ReachesIfAny(hit, total, threshold) == 100 * hit >= threshold * total

\* The share of nothing is 0.
Reaches(hit, total, threshold) ==
    IF total = 0 THEN threshold = 0 ELSE 100 * hit >= threshold * total

build_from_lcov(lines, dal) ==
    LET files == FilesOf(lines) IN
    [files |-> files,
     meets_dal |->
        /\ Reaches(Sum(files, "LH"), Sum(files, "LF"), line_threshold(dal))
        /\ \/ Reaches(Sum(files, "BRH"), Sum(files, "BRF"), branch_threshold(dal))
           \/ branch_threshold(dal) = 0]

\* A condition is a pair of counts, a record a sequence of conditions.
is_covered(c) == c[1] > 0 /\ c[2] > 0

\* Slip: one outcome is enough.
McdcEither(records, threshold) ==
    LET all == FlattenSeq(records)
        covered == {i \in DOMAIN all : all[i][1] > 0 \/ all[i][2] > 0}
    IN Reaches(Cardinality(covered), Len(all), threshold)

apply_mcdc(records, threshold) ==
    LET all == FlattenSeq(records)
        covered == {i \in DOMAIN all : is_covered(all[i])}
    IN Reaches(Cardinality(covered), Len(all), threshold)

-----------------------------------------------------------------------------
(* A level with full thresholds is met only if there is something to cover  *)
(* and every file whose record ends is covered to the last line and branch: *)
(* no file makes up for another, unless lcov reports more hit than found.   *)
FullMeansEveryFile(lines) ==
    \A dal \in {"A", "B"} :
        LET files == build_from_lcov(lines, dal).files
            ended == {i \in DOMAIN files : TRUE}
        IN /\ build_from_lcov(lines, dal).meets_dal
           /\ \A i \in ended : files[i].LH <= files[i].LF /\ files[i].BRH <= files[i].BRF
           => /\ \E i \in ended : files[i].LF > 0
              /\ \E i \in ended : files[i].BRF > 0
              /\ \A i \in ended : files[i].LH = files[i].LF /\ files[i].BRH = files[i].BRF
              /\ Len(files) <= Cardinality({i \in DOMAIN lines : lines[i].key = "end"})

(* What meets a level meets every lower one (DO-178C: A over B over C over  *)
(* D), a text that is no level included.                                    *)
Meets(lines, text) == build_from_lcov(lines, parse_dal(text)).meets_dal

LevelsAreOrdered(lines) ==
    /\ Meets(lines, "A") => Meets(lines, "B")
    /\ Meets(lines, "B") => Meets(lines, "C")
    /\ Meets(lines, "C") => Meets(lines, "DAL-X")

(* The MC/DC gate of 100 percent is met just if there are conditions and    *)
(* each was seen both true and false, in whatever record (REQ-COV004).      *)
McdcMeansBoth(records) ==
    apply_mcdc(records, 100) <=>
        /\ \E r \in DOMAIN records : records[r] # <<>>
        /\ \A r \in DOMAIN records : \A c \in DOMAIN records[r] :
                0 \notin {records[r][c][1], records[r][c][2]}

=============================================================================
