----------------------------- MODULE Structure -----------------------------
(***************************************************************************)
(* What the tool says of a project's structure: how complex its functions  *)
(* are (src/src/comp/comp.cpp), which components depend on each other      *)
(* (src/src/coupling/coupling.cpp) and the diagram of them                 *)
(* (src/src/boundary/boundary.cpp).                                        *)
(*                                                                         *)
(* For comp a line is [sig, braces, branches]: the name the pattern for    *)
(* signatures finds on it or "", its braces in order and the number of     *)
(* branches on it.  For the other two a file is                            *)
(* [component, kind, excluded, lines] and a line [include, call], call the *)
(* namespace or "".  An include is [form, to]: "rooted" for "to/to.hpp",   *)
(* "relative" for "../to/to.hpp", "local" for "to.hpp", "bare" for <to>    *)
(* and "none" for a line without one.                                      *)
(***************************************************************************)
EXTENDS Integers, Sequences, FiniteSets, SequencesExt

Keywords == {"if", "else", "for", "while", "do", "switch", "catch", "return"}

Change(brace) == IF brace = "{" THEN 1 ELSE -1

\* Slip: the first closing brace ends a function.
ScanToFirst(depth, braces) ==
    [depth |-> depth, closed |-> \E i \in DOMAIN braces : braces[i] = "}"]

\* The depth after a line, or 0 from the first closing brace that reaches it.
Scan(depth, braces) ==
    FoldLeft(LAMBDA d, b : IF d.closed THEN d
                           ELSE [depth |-> d.depth + Change(b),
                                 closed |-> b = "}" /\ d.depth = 1],
             [depth |-> depth, closed |-> FALSE], braces)

Outside == [inside |-> FALSE, depth |-> 0, name |-> "", line |-> 0, branches |-> 0, out |-> <<>>]

\* A line of the signature opens a function at whatever depth it ends on, and its
\* own branches are not counted; a body ends on the brace that closes it.
extract_step(s, n, line) ==
    LET net == FoldLeft(LAMBDA d, b : d + Change(b), 0, line.braces)
        after == Scan(s.depth, line.braces)
        branches == s.branches + line.branches
    IN IF ~s.inside
       THEN IF line.sig \in {""} \cup Keywords THEN s
            ELSE [s EXCEPT !.inside = "{" \in ToSet(line.braces), !.depth = net,
                           !.name = line.sig, !.line = n, !.branches = 0]
       ELSE IF after.closed
            THEN [Outside EXCEPT !.out = Append(s.out, [line |-> s.line, name |-> s.name,
                                                        complexity |-> 1 + branches])]
            ELSE [s EXCEPT !.depth = after.depth, !.branches = branches]

extract_functions(lines) ==
    FoldLeft(LAMBDA s, n : extract_step(s, n, lines[n]), Outside, [n \in DOMAIN lines |-> n]).out

analyse_comp(lines, threshold) ==
    LET functions == extract_functions(lines)
        over == SelectSeq(functions, LAMBDA f : f.complexity > threshold)
    IN [results |-> functions, total_functions |-> Len(functions), violations |-> Len(over)]

-----------------------------------------------------------------------------
\* The component an include names is the first part of its path; with a point in
\* it ("..", or a header of the own directory) it is none.
Target(include) == IF include.form \in {"rooted", "bare"} THEN include.to ELSE "none"

\* Slip: calls of the own namespace are edges too.
CalleeOrOwn(file, call) == call \notin {"", "std", "fs"}

Callee(file, call) == call \notin {"", "std", "fs", file.component}

Scanned(files, kinds) == {f \in files : f.kind \in kinds /\ ~f.excluded}

\* One edge for each pair of components.
analyse_coupling(files) ==
    LET scanned == Scanned(files, {"cpp", "cxx"})
        includes == UNION {{<<f.component, Target(l.include)>> : l \in f.lines} : f \in scanned}
        data == {e \in includes : e[2] \notin {e[1], "cpfusa", "none"}}
        control ==
            UNION {{<<f.component, l.call>> : l \in {x \in f.lines : Callee(f, x.call)}} : f \in scanned}
    IN [data_edges |-> data, control_edges |-> control,
        data_count |-> Cardinality(data), control_count |-> Cardinality(control)]

-----------------------------------------------------------------------------
(* The pattern of the diagram allows no point in an include: it sees only a *)
(* header without an extension, and of the external ones only <filesystem>. *)

\* The component's name is looked for anywhere in the header's.
Lies(component, header) == component = header \/ <<component, header>> = <<"io", "iostream">>

scan_boundary(files) ==
    LET scanned == Scanned(files, {"cpp", "cxx", "hpp"})
        headers(f) == {l.include.to : l \in {x \in f.lines : x.include.form = "bare"}}
        internal == {f.component : f \in scanned}
        external ==
            {<<f.component, "std::filesystem">> : f \in {x \in scanned : "filesystem" \in headers(x)}}
        siblings == {f.component : f \in Scanned(files, {"cpp"})} \X internal
    IN [nodes |-> {[id |-> n, is_external |-> FALSE] : n \in internal}
                  \cup {[id |-> e[2], is_external |-> TRUE] : e \in external},
        edges |-> external \cup
            {e \in siblings :
                /\ e[1] # e[2]
                /\ \E f \in Scanned(files, {"cpp"}) :
                       f.component = e[1] /\ \E h \in headers(f) : Lies(e[2], h)}]

-----------------------------------------------------------------------------
(* A file as it is usually laid out: braces balance, outside of functions   *)
(* there are none, and no function begins and ends on one line.             *)
LaidOut(lines) ==
    LET some(i, k) == FoldLeft(LAMBDA d, b : d + Change(b), 0, SubSeq(lines[i].braces, 1, k))
        net(i) == some(i, Len(lines[i].braces))
        depth(i) == FoldLeft(LAMBDA d, j : d + net(j), 0, [j \in 1 .. i |-> j])
    IN /\ depth(Len(lines)) = 0
       /\ \A i \in DOMAIN lines :
              IF depth(i - 1) = 0
              THEN lines[i].braces = <<>> \/ (lines[i].sig \notin {""} \cup Keywords /\ net(i) = 1)
              ELSE depth(i) >= 0 /\ (depth(i) > 0 =>
                       \A k \in DOMAIN lines[i].braces : depth(i - 1) + some(i, k) > 0)

(* In such a file every function is measured once, under its own name, with *)
(* the branches between its signature and the brace that closes it; one is  *)
(* reported just if it has as many branches as the threshold allows or more.*)
MeasuresEveryFunction(lines, threshold) ==
    LET net(i) == FoldLeft(LAMBDA d, b : d + Change(b), 0, lines[i].braces)
        depth(i) == FoldLeft(LAMBDA d, j : d + net(j), 0, [j \in 1 .. i |-> j])
        starts == {i \in DOMAIN lines : depth(i - 1) = 0 /\ depth(i) > 0}
        body(i) == {j \in DOMAIN lines : i < j /\ \A k \in i .. j - 1 : depth(k) > 0}
        branches(i) == MapThenSumSet(LAMBDA j : lines[j].branches, body(i))
        report == analyse_comp(lines, threshold)
    IN LaidOut(lines) =>
        /\ ToSet(report.results) =
                {[line |-> i, name |-> lines[i].sig, complexity |-> 1 + branches(i)] : i \in starts}
        /\ report.total_functions = Cardinality(starts)
        /\ report.violations = Cardinality({i \in starts : branches(i) >= threshold})

(* The two accounts of the dependencies agree where both can see: an edge   *)
(* of the diagram between two components is a data edge of the coupling     *)
(* report, to the component or to a header its name lies in; every edge of  *)
(* the report starts at a node of the diagram and none at its own end; and  *)
(* a source that is excluded is in neither.                                 *)
AccountsAgree(files) ==
    LET coupling == analyse_coupling(files)
        diagram == scan_boundary(files)
        internal == {n.id : n \in {x \in diagram.nodes : ~x.is_external}}
        kept == {f \in files : ~f.excluded}
    IN /\ \A e \in diagram.edges : e[2] \in internal =>
              \E d \in coupling.data_edges : d[1] = e[1] /\ Lies(e[2], d[2])
       /\ \A e \in coupling.data_edges \cup coupling.control_edges : e[1] \in internal \ {e[2]}
       /\ analyse_coupling(kept) = coupling /\ scan_boundary(kept) = diagram

=============================================================================
