------------------------------- MODULE Impact -------------------------------
(***************************************************************************)
(* `cpfusa impact` (src/src/impact/impact.cpp): the files that differ      *)
(* between two revisions, the requirements they implement and the evidence *)
(* they leave behind.                                                      *)
(*                                                                         *)
(* A path is a sequence of pieces of text, so that one can lie in another. *)
(* A requirement is [id, implementations], each of these [object, file]:   *)
(* an object with a file, or a plain text.                                 *)
(***************************************************************************)
EXTENDS Naturals, Sequences, FiniteSets, SequencesExt

LiesIn(text, piece) ==
    \E i \in 1 .. Len(text) + 1 :
        /\ i + Len(piece) - 1 <= Len(text)
        /\ SubSeq(text, i, i + Len(piece) - 1) = piece

-----------------------------------------------------------------------------
OrHead(ref) == IF ref = "" THEN "HEAD" ELSE ref

\* What git is asked to compare: with no ref at all, HEAD and the working tree.
Compared(from, to) == IF from = "" /\ to = "" THEN <<"HEAD">> ELSE <<OrHead(from), OrHead(to)>>

\* diff gives the lines of git for what it is asked.  A binary file has no counts
\* and is dropped; a ref outside Safe is not passed on.
parse_git_diff(from, to, diff, Safe) ==
    IF ~{OrHead(from), OrHead(to)} \subseteq Safe THEN <<>>
    ELSE LET text == SelectSeq(diff[Compared(from, to)], LAMBDA l : ~l.binary)
         IN [i \in DOMAIN text |-> text[i].path]

Touches(file, changed) ==
    \E i \in DOMAIN changed : LiesIn(changed[i], file) \/ LiesIn(file, changed[i])

\* Slip: the search goes on when a file of the requirement was found.
EveryTouched(req, changed) ==
    LET hits == SelectSeq(req.implementations, LAMBDA impl : Touches(impl.file, changed))
    IN [i \in DOMAIN hits |-> [req_id |-> req.id, file |-> hits[i].file]]

\* The first of a requirement's files that a changed one lies in, or lies in it.
FirstTouched(req, changed) ==
    LET hits == SelectSeq(req.implementations, LAMBDA impl : Touches(impl.file, changed))
    IN IF hits = <<>> THEN <<>> ELSE <<[req_id |-> req.id, file |-> hits[1].file]>>

\* A text where an object is expected throws out of the loop over requirements,
\* unless one of the requirement's files was found before it.
Throws(req, changed) ==
    \E i \in DOMAIN req.implementations :
        /\ ~req.implementations[i].object
        /\ \A j \in 1 .. i - 1 : ~Touches(req.implementations[j].file, changed)

\* What is read before it throws is kept.
impacted_reqs(reqs, changed) ==
    LET bad == {i \in DOMAIN reqs : Throws(reqs[i], changed)}
        read == IF bad = {} THEN reqs
                ELSE SubSeq(reqs, 1, (CHOOSE i \in bad : \A j \in bad : i <= j) - 1)
    IN FlattenSeq([i \in DOMAIN read |-> FirstTouched(read[i], changed)])

artifacts == {".fusa-evidence.json", "cyber-report.json", "fmea.json", "tara.json", "sbom.json"}

analyse(from, to, diff, Safe, reqs, files) ==
    LET changed == parse_git_diff(from, to, diff, Safe)
    IN [changed_files |-> changed, impacted_reqs |-> impacted_reqs(reqs, changed),
        stale_artifacts |-> [a \in artifacts |-> changed # <<>> /\ a \in files]]

-----------------------------------------------------------------------------
(* Of requirements that name their files as objects, each one with a file   *)
(* that changed is reported once, in the order of the registry, and each    *)
(* reported one has a file that a change touches.  The report of a longer   *)
(* diff has everything the shorter one's has; when nothing changed, nothing *)
(* is impacted or stale.                                                    *)
ImpactIsComplete(from, to, diff, Safe, reqs, files) ==
    LET report == analyse(from, to, diff, Safe, reqs, files)
        ids == [i \in DOMAIN report.impacted_reqs |-> report.impacted_reqs[i].req_id]
        changed == ToSet(report.changed_files)
        all == [r \in DOMAIN diff |-> diff[r] \o <<[path |-> <<"src/", "new.cpp">>, binary |-> FALSE]>>]
        longer == analyse(from, to, all, Safe, reqs, files)
        objects == \A i \in DOMAIN reqs : \A j \in DOMAIN reqs[i].implementations :
                       reqs[i].implementations[j].object
    IN /\ objects =>
            /\ \A i \in DOMAIN reqs :
                   (\E j \in DOMAIN reqs[i].implementations :
                        reqs[i].implementations[j].file \in changed) => reqs[i].id \in ToSet(ids)
            /\ ids = SelectSeq([i \in DOMAIN reqs |-> reqs[i].id], LAMBDA id : id \in ToSet(ids))
            /\ ToSet(ids) \subseteq
                    {longer.impacted_reqs[i].req_id : i \in DOMAIN longer.impacted_reqs}
       /\ changed = {} => ids = <<>> /\ \A a \in artifacts : ~report.stale_artifacts[a]

=============================================================================
