------------------------------ MODULE MCTrace ------------------------------
(* Trace with three ids, one of them unknown to the file, sources in and    *)
(* out of scope, and the shapes of requirement the formats trip over.       *)
EXTENDS Trace

MCTexts ==
    {"A", "B", "C", "T", "U", "a", "b", "two", "lines", "ASIL-B", "cybersecurity", "QM",
     Safety, NoText, Comma, Escaped(Comma), Lines, Quoted, Angled}

A == Requirement("A", Comma, "cybersecurity", NoText, NoText)
B == Requirement("B", Angled, Safety, "ASIL-B", "A")
C == Requirement("C", NoText, NoText, "ASIL-B", "B")
Commas == Requirement(Comma, Quoted, "QM", Comma, Comma)

MCFiles == {Missing, Torn, Listed(<<A>>), Listed(<<B, A>>), Listed(<<A, B, C>>),
            Listed(<<A, A>>), Listed(<<Requirement(NoText, Lines, Safety, NoText, NoText), A>>),
            Listed(<<Commas, B>>), Listed(<<Requirement("B", Quoted, Safety, Lines, NoText)>>)}

MCTables ==
    {<<<<"B", "T", Safety, NoText, "A">>, <<>>, <<NoText, "T">>, <<"B", "U">>>>,
     <<<<"C", "a", "b", "QM", NoText, "A">>>>,
     export_csv(<<A, Requirement("B", Lines, Safety, NoText, "A")>>)}

Tag(id, test, dir) == [id |-> id, test |-> test, path |-> <<dir, "f.cpp">>]

MCTagSets ==
    SUBSET {Tag("A", FALSE, "src"), Tag("A", TRUE, "src"), Tag("B", FALSE, "src"),
            Tag("B", TRUE, "src"), Tag("C", TRUE, "src"), Tag("B", FALSE, "src2"),
            Tag("A", FALSE, "build")}

MCSourceDirs == {<<"src">>, <<"build">>}
MCExcluded == {<<"build", "f.cpp">>}

=============================================================================
