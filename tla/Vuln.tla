-------------------------------- MODULE Vuln --------------------------------
(***************************************************************************)
(* `cpfusa vuln` (src/src/vuln/vuln.cpp): the dependencies a CMake file    *)
(* declares, against the tool's own list of advisories.                    *)
(*                                                                         *)
(* A CMake file is a sequence of marks: [declares |-> a name], and a tag,  *)
(* [tag |-> <<x, y, z>>] or [tag |-> <<>>] for anything that is no version.*)
(***************************************************************************)
EXTENDS Naturals, Sequences, SequencesExt

known_advisories ==
    {[package |-> "nlohmann_json", max_version |-> <<3, 10, 5>>, cve_id |-> "CVE-2022-39189"],
     [package |-> "nlohmann_json", max_version |-> <<3, 11, 0>>, cve_id |-> "CVE-2023-20900"],
     [package |-> "catch2", max_version |-> <<3, 0, 0>>, cve_id |-> "CVE-2021-46560"]}

\* Slip: any lower part makes a version lower.
LessInAnyPart(a, b) == \E i \in 1 .. 3 : a[i] < b[i]

version_less(a, b) == \E i \in 1 .. 3 : a[i] < b[i] /\ \A j \in 1 .. i - 1 : a[j] = b[j]

(* A declaration takes the next tag that is a version, whoever it belongs   *)
(* to, and the search goes on behind that tag.                              *)
\* open is the name whose tag is looked for, or "none".
DepStep(s, m) ==
    CASE "declares" \in DOMAIN m /\ s.open = "none" -> [s EXCEPT !.open = m.declares]
      [] "tag" \in DOMAIN m /\ s.open # "none" /\ m.tag # <<>> ->
            [open |-> "none", deps |-> Append(s.deps, [name |-> s.open, version |-> m.tag])]
      [] OTHER -> s

parse_deps(marks) == FoldLeft(DepStep, [open |-> "none", deps |-> <<>>], marks).deps

\* FetchDeps.cmake first, then CMakeLists.txt.
scan(fetch, lists) ==
    LET deps == parse_deps(fetch) \o parse_deps(lists)
        of(d) == {a \in known_advisories : a.package = d.name /\ version_less(d.version, a.max_version)}
    IN [scanned |-> Len(deps),
        findings |-> UNION {{[dependency |-> deps[i].name, version |-> deps[i].version,
                              cve_id |-> a.cve_id] : a \in of(deps[i])} : i \in DOMAIN deps}]

-----------------------------------------------------------------------------
\* Every declaration is followed by its own tag, and the tag is a version.
Pinned(marks) ==
    /\ Len(marks) % 2 = 0
    /\ \A i \in DOMAIN marks :
           IF i % 2 = 1 THEN "declares" \in DOMAIN marks[i]
           ELSE "tag" \in DOMAIN marks[i] /\ marks[i].tag # <<>>

(* Of a file that pins every dependency to a version, each dependency is    *)
(* scanned at its own version; an advisory that holds for one holds for     *)
(* every earlier version of it, and an upgrade to the advisory's bound or   *)
(* beyond takes it away, also where a part of the version has two digits.   *)
UpgradesCloseAdvisories(marks) ==
    LET report == scan(marks, <<>>)
        number(v) == 10000 * v[1] + 100 * v[2] + v[3]
        n == Len(marks) \div 2
    IN Pinned(marks) =>
        /\ report.scanned = n
        /\ \A i \in 1 .. n, a \in known_advisories :
               a.package = marks[2 * i - 1].declares =>
                   (number(marks[2 * i].tag) < number(a.max_version) <=>
                        [dependency |-> a.package, version |-> marks[2 * i].tag, cve_id |-> a.cve_id]
                            \in report.findings)

=============================================================================
