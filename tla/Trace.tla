------------------------------- MODULE Trace -------------------------------
(***************************************************************************)
(* Requirements and their traceability (src/src/trace/trace.cpp): the file *)
(* .fusa-reqs.json, `req import` and `req export`, and `trace`, which      *)
(* matches the //fusa:req and //fusa:test tags of the sources in scope     *)
(* with the requirements and gates on the shares that are tagged.          *)
(*                                                                         *)
(* A text is empty, plain, or has a comma, a line break, a quote or an      *)
(* angle bracket, which the formats trip over; description and standard go *)
(* the way of the title.                                                   *)
(***************************************************************************)
EXTENDS Naturals, Sequences, FiniteSets, SequencesExt

CONSTANTS
    Texts,          \* what the fields of a requirement or of a CSV row may hold
    Files,          \* what .fusa-reqs.json may hold at first
    Tables,         \* the CSV files people import: sequences of rows of fields
    TagSets,        \* what the sources may be tagged with
    SourceDirs,     \* sourceDirs of .fusa.json, as paths
    Excluded,       \* the paths that an exclude pattern matches
    HighAsil        \* TRUE when the project is ASIL-C or ASIL-D

NoText == ""
Comma == "a,b"
Lines == "two lines"
Quoted == "a\"b"
Angled == "a<b"
Safety == "safety"
Escaped(text) == IF text = Comma THEN "a;b" ELSE text

VARIABLES
    file,           \* .fusa-reqs.json: missing, torn, or a list of requirements
    tags,           \* the tags in the sources
    pc,             \* where `req import` is
    mem,            \* the requirements it has in memory
    known           \* observed only: what people wrote or an import acknowledged

vars == <<file, tags, pc, mem, known>>

Requirement(id, title, severity, asil, parent) ==
    [id |-> id, title |-> title, severity |-> severity, asil |-> asil, parent |-> parent]

Requirements == [id : Texts, title : Texts, severity : Texts, asil : Texts, parent : Texts]
RequirementFiles == [kind : {"missing", "torn", "list"}, reqs : Seq(Requirements)]

Missing == [kind |-> "missing", reqs |-> <<>>]
Torn == [kind |-> "torn", reqs |-> <<>>]
Listed(reqs) == [kind |-> "list", reqs |-> reqs]

ASSUME TextsAssumption == {NoText, Comma, Escaped(Comma), Safety, "a"} \subseteq Texts
ASSUME FilesAssumption == Files \subseteq RequirementFiles
ASSUME TagsAssumption == \A T \in TagSets : \A t \in T : t.test \in BOOLEAN
ASSUME TablesAssumption == Tables \subseteq Seq(Seq(Texts))

-----------------------------------------------------------------------------
(* Importing and exporting.                                                *)

IdsOf(reqs) == {reqs[i].id : i \in DOMAIN reqs}

\* Slip: the ids of the table itself are not remembered.
AddUnlessLoaded(reqs, r) ==
    IF r.id = NoText THEN reqs ELSE Append(reqs, r)

AddNew(reqs, r) ==
    IF r.id = NoText \/ r.id \in IdsOf(reqs) THEN reqs ELSE Append(reqs, r)

\* Fields are id, title, severity, ASIL and, after the last comma that counts,
\* the parent.
FromRow(row) ==
    LET field(n) == IF n > Len(row) THEN NoText ELSE row[n] IN
    Requirement(field(1), field(2), IF field(3) = NoText THEN Safety ELSE field(3), field(4),
                IF Len(row) > 5 THEN Comma ELSE field(5))

import_csv(rows, reqs) ==
    LET read[n \in 0..Len(rows)] ==
            IF n = 0 THEN reqs ELSE AddNew(read[n - 1], FromRow(rows[n]))
    IN read[Len(rows)]

\* Slip: commas are written as they are.
CellVerbatim(rows, text) ==
    Front(rows) \o (IF text = Comma THEN <<Last(rows) \o <<"a", "b">>>>
                    ELSE <<Append(Last(rows), text)>>)

\* A comma in a cell is replaced, a line break ends the row.
Cell(rows, text) ==
    Front(rows) \o (IF text = Lines THEN <<Append(Last(rows), "two"), <<"lines">>>>
                    ELSE <<Append(Last(rows), Escaped(text))>>)

CsvRows(r) ==
    Cell(Cell(Cell(Cell(Cell(<< <<>> >>, r.id), r.title), r.severity), r.asil), r.parent)

export_csv(reqs) == FlattenSeq([i \in DOMAIN reqs |-> CsvRows(reqs[i])])

\* XML is written and read line by line, and nothing in it is escaped: what the
\* importers see of an attribute ends at a quote, and what they see of an element
\* has no angle bracket.
Attribute(text) ==
    CASE text = Quoted -> "a" [] text = Lines -> NoText [] OTHER -> text
Element(text) == IF text \in {Lines, Angled} THEN NoText ELSE text

\* A line of ReqIF opens an object, closes it, or has a value; an empty value is
\* not recognised as one.
ReqIfLine(opens, text, closes) ==
    [opens |-> opens, closes |-> closes,
     values |-> IF Attribute(text) = NoText THEN <<>> ELSE <<Attribute(text)>>]

export_doors(reqs) ==
    FlattenSeq([i \in DOMAIN reqs |->
        <<ReqIfLine(TRUE, NoText, FALSE), ReqIfLine(FALSE, reqs[i].id, FALSE),
          ReqIfLine(FALSE, reqs[i].title, FALSE), ReqIfLine(FALSE, reqs[i].asil, FALSE),
          ReqIfLine(FALSE, NoText, TRUE)>>])

FromValues(vals) ==
    Requirement(vals[1], IF Len(vals) > 1 THEN vals[2] ELSE vals[1], Safety, NoText, NoText)

DoorsStep(s, line) ==
    LET inside == s.inside \/ line.opens
        vals == (IF line.opens THEN <<>> ELSE s.vals)
                \o (IF inside THEN line.values ELSE <<>>)
        closing == inside /\ line.closes
    IN [inside |-> inside /\ ~closing,
        vals |-> IF closing THEN <<>> ELSE vals,
        reqs |-> IF closing /\ vals # <<>> THEN AddNew(s.reqs, FromValues(vals)) ELSE s.reqs]

import_doors(lines, reqs) ==
    FoldLeft(DoorsStep, [inside |-> FALSE, vals |-> <<>>, reqs |-> reqs], lines).reqs

\* A line of Polarion XML opens the item of an id, gives a title, or closes it.
ItemLine(id, title, closes) ==
    [opens |-> Attribute(id), title |-> Element(title), closes |-> closes]

export_polarion(reqs) ==
    FlattenSeq([i \in DOMAIN reqs |->
        <<ItemLine(reqs[i].id, NoText, FALSE), ItemLine(NoText, reqs[i].title, FALSE),
          ItemLine(NoText, NoText, TRUE)>>])

\* Slip: the title of an item is left over for the next one.
PolarionStepKeepsTitle(s, line) ==
    LET id == IF s.id = NoText THEN line.opens ELSE s.id
        title == IF s.title # NoText THEN s.title ELSE line.title
        closing == id # NoText /\ line.closes
    IN [id |-> IF closing THEN NoText ELSE id,
        title |-> title,
        reqs |-> IF ~closing THEN s.reqs
                 ELSE AddNew(s.reqs, Requirement(id, IF title = NoText THEN id ELSE title,
                                                 Safety, NoText, NoText))]

PolarionStep(s, line) ==
    LET id == IF s.id = NoText THEN line.opens ELSE s.id
        title == IF id # NoText /\ line.title # NoText THEN line.title
                 ELSE IF s.id = NoText THEN NoText ELSE s.title
        closing == id # NoText /\ line.closes
    IN [id |-> IF closing THEN NoText ELSE id,
        title |-> IF closing THEN NoText ELSE title,
        reqs |-> IF ~closing THEN s.reqs
                 ELSE AddNew(s.reqs, Requirement(id, IF title = NoText THEN id ELSE title,
                                                 Safety, NoText, NoText))]

import_polarion(lines, reqs) ==
    FoldLeft(PolarionStep, [id |-> NoText, title |-> NoText, reqs |-> reqs], lines).reqs

-----------------------------------------------------------------------------
(* The matrix.                                                             *)

under_source_dirs(path, dirs) ==
    dirs = {} \/ \E d \in dirs : IsPrefix(d, path)

scan_annotations ==
    {t \in tags : under_source_dirs(t.path, SourceDirs) /\ t.path \notin Excluded}

\* The requirements that have a tag of the kind, by their places in the list.
Having(reqs, test) ==
    {i \in DOMAIN reqs : \E t \in scan_annotations : t.id = reqs[i].id /\ t.test = test}

Dangling(reqs) == {t \in scan_annotations : t.test /\ t.id \notin IdsOf(reqs)}

HLRs(reqs) == {reqs[i].id : i \in {j \in DOMAIN reqs : reqs[j].parent = NoText}}
Children(reqs, h) == {i \in DOMAIN reqs : reqs[i].parent # NoText /\ reqs[i].parent = h}

\* Slip: a low-level requirement may have any requirement as its parent.
ViolationsOfUnknown(reqs) ==
    {reqs[i].id : i \in {j \in DOMAIN reqs :
        reqs[j].parent # NoText /\ reqs[j].parent \notin IdsOf(reqs)}}
    \cup {h \in HLRs(reqs) : Children(reqs, h) = {}}

hlr_violations(reqs) ==
    {reqs[i].id : i \in {j \in DOMAIN reqs :
        reqs[j].parent # NoText /\ reqs[j].parent \notin HLRs(reqs)}}
    \cup {h \in HLRs(reqs) : Children(reqs, h) = {}}

Tagged(r) == {t \in scan_annotations : t.id = r.id}

Cyber(r) == r.severity = "cybersecurity"

\* Slip: the severity of the requirement decides the kind of all its tags.
RenderJsonBySeverity(reqs) ==
    UNION {{[id |-> r.id, path |-> t.path, kind |-> IF Cyber(r) THEN "sec-test" ELSE "impl"] :
                t \in Tagged(r)} : r \in ToSet(reqs)}

\* The entries of tags[] in the JSON document.
render_json(reqs) ==
    UNION {{[id |-> r.id, path |-> t.path,
             kind |-> IF ~t.test THEN "impl" ELSE IF Cyber(r) THEN "sec-test" ELSE "test"] :
                t \in Tagged(r)} : r \in ToSet(reqs)}

\* The requirements `trace --gaps` shows.
render_matrix(reqs, gaps) ==
    {i \in DOMAIN reqs : ~gaps \/ i \notin Having(reqs, FALSE) \cap Having(reqs, TRUE)}

Below(count, total, percent) == total > 0 /\ percent > 0 /\ 100 * count < percent * total

\* Slip: a file that does not parse counts as one without requirements.
load_requirementsLenient == [ok |-> TRUE, reqs |-> file.reqs]

load_requirements == [ok |-> file.kind # "torn", reqs |-> file.reqs]

\* What the options ask for: shares in percent, and the hierarchy.
Options == [annotated : {0, 50, 100}, tested : {0, 100}, strict : BOOLEAN]

\* The exit code, and whether the matrix is printed before it.
Outcome(exit, printed) == [exit |-> exit, printed |-> printed]

trace(opts) ==
    LET reqs == load_requirements.reqs
        total == Len(reqs)
        refused == \/ ~load_requirements.ok
                   \/ Below(Cardinality(Having(reqs, FALSE)), total, opts.annotated)
                   \/ Below(Cardinality(Having(reqs, TRUE)), total, opts.tested)
        broken == hlr_violations(reqs) # {} /\ (opts.strict \/ HighAsil)
    IN IF refused THEN Outcome(1, FALSE) ELSE Outcome(IF broken THEN 1 ELSE 0, TRUE)

-----------------------------------------------------------------------------
Init ==
    /\ file \in Files
    /\ tags \in TagSets
    /\ pc = "idle"
    /\ mem = <<>>
    /\ known = {file.reqs[i] : i \in DOMAIN file.reqs}

\* A list that cannot be read ends the import before it has begun.
ImportLoad(table) ==
    /\ pc = "idle"
    /\ load_requirements.ok
    /\ mem' = import_csv(table, load_requirements.reqs)
    /\ pc' = "open"
    /\ UNCHANGED <<file, tags, known>>

\* save_requirements: std::ofstream truncates the file; or it cannot be opened.
SaveOpen ==
    /\ pc = "open"
    /\ \/ file' = Torn /\ pc' = "write" /\ UNCHANGED mem
       \/ pc' = "idle" /\ mem' = <<>> /\ UNCHANGED file
    /\ UNCHANGED <<tags, known>>

\* Slip: what only some requirements have is not written back.
SaveBriefly ==
    /\ pc = "write"
    /\ file' = Listed([i \in DOMAIN mem |-> [mem[i] EXCEPT !.parent = NoText]])
    /\ known' = known \cup ToSet(mem)
    /\ pc' = "idle"
    /\ mem' = <<>>
    /\ UNCHANGED tags

\* The list is written, and the import is acknowledged.
Save ==
    /\ pc = "write"
    /\ file' = Listed(mem)
    /\ known' = known \cup ToSet(mem)
    /\ pc' = "idle"
    /\ mem' = <<>>
    /\ UNCHANGED tags

\* Nobody looks whether all of it was written.
SaveCutShort ==
    /\ pc = "write"
    /\ file' = Torn
    /\ known' = known \cup ToSet(mem)
    /\ pc' = "idle"
    /\ mem' = <<>>
    /\ UNCHANGED tags

Crash ==
    /\ pc # "idle"
    /\ pc' = "idle"
    /\ mem' = <<>>
    /\ UNCHANGED <<file, tags, known>>

\* Somebody writes the file anew, or restores it, between two commands.
Edit(f) ==
    /\ pc = "idle"
    /\ file' = f
    /\ known' = ToSet(f.reqs)
    /\ UNCHANGED <<tags, pc, mem>>

Next ==
    \/ \E table \in Tables : ImportLoad(table)
    \/ SaveOpen \/ Save \/ SaveCutShort \/ Crash
    \/ \E f \in Files : Edit(f)

Spec == Init /\ [][Next]_vars

-----------------------------------------------------------------------------
TypeOK ==
    /\ file \in RequirementFiles
    /\ tags \in TagSets
    /\ pc \in {"idle", "open", "write"}
    /\ mem \in Seq(Requirements)
    /\ known \subseteq Requirements

(* Whatever import died or failed, the file has what people wrote and the   *)
(* imports acknowledged, as it was and nothing else, or it cannot be read   *)
(* at all (save_requirements truncates before it writes, and a write that   *)
(* was cut short is acknowledged).                                          *)
KnownIsKept == file.kind # "torn" => known = ToSet(file.reqs)

\* An import under way is about to write all that is known.
ImportKeepsKnown == pc # "idle" => known \subseteq ToSet(mem)

RequirementsInv == TypeOK /\ KnownIsKept /\ ImportKeepsKnown

(* A trace that passes with --req-coverage 100 has found an implementation  *)
(* tag in the sources in scope for every requirement ever acknowledged: no  *)
(* import that died half way lets a gate pass on fewer.                     *)
GateCoversKnown ==
    \A opts \in Options :
        opts.annotated = 100 /\ trace(opts).exit = 0 =>
            \A r \in known : \E t \in scan_annotations : t.id = r.id /\ ~t.test

(* An id is twice in the file, or in what is written next, only if people   *)
(* wrote it twice, whatever table is imported into whatever file            *)
(* (REQ-REQ001).                                                            *)
Distinct(reqs) == Cardinality(IdsOf(reqs)) = Len(reqs)

Twice(reqs) ==
    {reqs[i].id : i \in {k \in DOMAIN reqs : \E j \in DOMAIN reqs : j < k /\ reqs[j].id = reqs[k].id}}

WrittenTwice == UNION {Twice(f.reqs) : f \in Files}

TwiceByPeople == Twice(file.reqs) \cup Twice(mem) \subseteq WrittenTwice

(* A strict trace that passes has a two-level hierarchy in which each lower *)
(* requirement has a parent without a parent, and nothing is childless      *)
(* (REQ-HLR002, REQ-HLR003).                                                *)
StrictMeansHierarchy ==
    \A opts \in Options :
        opts.strict /\ trace(opts).exit = 0 =>
            \A r \in known :
                IF r.parent = NoText
                  THEN \E c \in known : c.parent = r.id
                  ELSE \E p \in known : p.id = r.parent /\ p.parent = NoText

\* The ids that have tags of these kinds in the JSON document.
Shown(reqs, kinds) == {e.id : e \in {x \in render_json(reqs) : x.kind \in kinds}}

(* When ids are distinct the counts, the tags in the JSON document and the  *)
(* gaps in the text agree, and no test tag in scope is dropped: it is shown *)
(* with its requirement or as dangling (REQ-TRACE013, REQ-TRACE019).        *)
ReportsAgree ==
    LET reqs == file.reqs
        impl == Shown(reqs, {"impl"})
        test == Shown(reqs, {"test", "sec-test"})
    IN Distinct(reqs) =>
        /\ Cardinality(impl) = Cardinality(Having(reqs, FALSE))
        /\ Cardinality(test) = Cardinality(Having(reqs, TRUE))
        /\ Len(reqs) - Cardinality(render_matrix(reqs, TRUE)) = Cardinality(impl \cap test)
        /\ {t \in scan_annotations : t.test} =
            Dangling(reqs) \cup {t \in scan_annotations : \E e \in render_json(reqs) :
                                    e.id = t.id /\ e.path = t.path /\ e.kind # "impl" /\ t.test}

(* What one format exports it imports again: CSV every field, its commas    *)
(* replaced, ReqIF and Polarion the ids and titles (REQ-REQ002,             *)
(* REQ-TRACE008, REQ-TRACE009).  It takes ids that stay distinct, and no    *)
(* text that the format loses.                                              *)
Replaced(reqs) ==
    [i \in DOMAIN reqs |->
        Requirement(Escaped(reqs[i].id), Escaped(reqs[i].title), Escaped(reqs[i].severity),
                    Escaped(reqs[i].asil), Escaped(reqs[i].parent))]

CsvKeeps(reqs) ==
    /\ Distinct(Replaced(reqs))
    /\ \A i \in DOMAIN reqs :
        /\ NoText \notin {reqs[i].id, reqs[i].severity}
        /\ Lines \notin {reqs[i].id, reqs[i].title, reqs[i].severity, reqs[i].asil, reqs[i].parent}

DoorsKeeps(reqs) ==
    /\ Distinct(reqs)
    /\ \A i \in DOMAIN reqs : {reqs[i].id, reqs[i].title} \cap {NoText, Lines, Quoted} = {}

PolarionKeeps(reqs) ==
    /\ Distinct(reqs)
    /\ \A i \in DOMAIN reqs : /\ reqs[i].id \notin {NoText, Lines, Quoted}
                             /\ reqs[i].title \notin {NoText, Lines, Angled}

Named(reqs) == [i \in DOMAIN reqs |-> <<reqs[i].id, reqs[i].title>>]

RoundTrips ==
    LET reqs == file.reqs IN
    /\ CsvKeeps(reqs) => import_csv(export_csv(reqs), <<>>) = Replaced(reqs)
    /\ DoorsKeeps(reqs) => Named(import_doors(export_doors(reqs), <<>>)) = Named(reqs)
    /\ PolarionKeeps(reqs) => Named(import_polarion(export_polarion(reqs), <<>>)) = Named(reqs)

=============================================================================
