----------------------------- MODULE AuditPack -----------------------------
(***************************************************************************)
(* The audit-pack command (src/src/auditpack/auditpack.cpp): hash every    *)
(* evidence file that is present, write the list as manifest.json into the *)
(* directory for temporary files, which all commands of the machine share, *)
(* remove the old archive, and let the external zip command put the        *)
(* evidence and then manifest.json into a new one.                         *)
(*                                                                         *)
(* A file's content is a version, 0 when the file is absent; a hash and a  *)
(* size are represented by the version they were computed from.            *)
(***************************************************************************)
EXTENDS Naturals

CONSTANTS
    Packs,          \* the audit-pack commands, each of a project of its own
    Names,          \* names of evidence files
    MaxVersion,     \* bound: contents a file may have
    Faults          \* TRUE when zip may fail, commands may die and files change

VersionAssumption == MaxVersion \in Nat \ {0}

Versions == 0 .. MaxVersion
Contents == [Names -> Versions]
Empty == [n \in Names |-> 0]

NoManifest == [kind |-> "none"]
CutShort == [kind |-> "cut"]
Manifest(p, l) == [kind |-> "manifest", of |-> p, files |-> l]
Manifests == [kind : {"manifest"}, of : Packs, files : Contents] \cup {NoManifest, CutShort}

NoArchive == [there |-> FALSE, files |-> Empty, manifest |-> NoManifest]
Archives == [there : BOOLEAN, files : Contents, manifest : Manifests]

VARIABLES
    files,          \* the evidence of each command's project
    archive,        \* audit-pack.zip of each command's project
    temp,           \* manifest.json in the directory for temporary files
    pc,             \* where each command is
    todo,           \* the files it has listed and not hashed yet
    listed,         \* what it has hashed
    changed,        \* observed only: its project's evidence changed since its start
    alone           \* observed only: no other command ran since its start

vars == <<files, archive, temp, pc, todo, listed, changed, alone>>

Places == {"idle", "hash", "open", "fill", "clean", "zip", "add", "look", "done"}

TypeOK ==
    /\ files \in [Packs -> Contents]
    /\ archive \in [Packs -> Archives]
    /\ temp \in Manifests
    /\ pc \in [Packs -> Places]
    /\ todo \in [Packs -> SUBSET Names]
    /\ listed \in [Packs -> Contents]
    /\ changed \in [Packs -> BOOLEAN]
    /\ alone \in [Packs -> BOOLEAN]

Init ==
    /\ files \in [Packs -> Contents]
    /\ archive = [p \in Packs |-> NoArchive]
    /\ temp = NoManifest
    /\ pc = [p \in Packs |-> "idle"]
    /\ todo = [p \in Packs |-> {}]
    /\ listed = [p \in Packs |-> Empty]
    /\ changed = [p \in Packs |-> FALSE]
    /\ alone = [p \in Packs |-> FALSE]

Resting(p) == pc[p] \in {"idle", "done"}
Goto(p, place) == pc' = [pc EXCEPT ![p] = place]
At(p, place) == pc[p] = place

\* The command ends without a result, and what it had in memory is gone.
Quit(p) ==
    /\ Goto(p, "idle")
    /\ todo' = [todo EXCEPT ![p] = {}]
    /\ listed' = [listed EXCEPT ![p] = Empty]

-----------------------------------------------------------------------------
(* The projects: a file is written anew or removed, before, between and,   *)
(* if things go wrong, during the commands.                                *)

Change(p, n, v) ==
    /\ Faults \/ Resting(p)
    /\ v # files[p][n]
    /\ files' = [files EXCEPT ![p] = [@ EXCEPT ![n] = v]]
    /\ changed' = [changed EXCEPT ![p] = TRUE]
    /\ UNCHANGED <<archive, temp, pc, todo, listed, alone>>

-----------------------------------------------------------------------------
(* The external zip command.                                               *)

\* zip adds to an archive that exists and replaces what it already has.
Added(a, names, contents) ==
    [there |-> TRUE,
     files |-> [n \in Names |-> IF n \in names THEN contents[n] ELSE a.files[n]],
     manifest |-> a.manifest]

-----------------------------------------------------------------------------
(* The command.                                                            *)

\* list_present_evidence_files.
Start(p) ==
    /\ Resting(p)
    /\ Goto(p, "hash")
    /\ todo' = [todo EXCEPT ![p] = {n \in Names : files[p][n] # 0}]
    /\ listed' = [listed EXCEPT ![p] = Empty]
    /\ changed' = [changed EXCEPT ![p] = FALSE]
    /\ alone' = [q \in Packs |-> Resting(q) /\ (q = p \/ alone[q])
                                /\ (q = p => \A r \in Packs : Resting(r))]
    /\ UNCHANGED <<files, archive, temp>>

Hash(p, n) ==
    /\ At(p, "hash")
    /\ n \in todo[p]
    /\ files[p][n] # 0
    /\ todo' = [todo EXCEPT ![p] = @ \ {n}]
    /\ listed' = [listed EXCEPT ![p] = [@ EXCEPT ![n] = files[p][n]]]
    /\ UNCHANGED <<files, archive, temp, pc, changed, alone>>

\* file_size throws for a file that has gone, and nobody catches it.
HashGone(p) ==
    /\ At(p, "hash")
    /\ \E n \in todo[p] : files[p][n] = 0
    /\ Quit(p)
    /\ UNCHANGED <<files, archive, temp, changed, alone>>

HashDone(p) ==
    /\ At(p, "hash")
    /\ todo[p] = {}
    /\ Goto(p, "open")
    /\ UNCHANGED <<files, archive, temp, todo, listed, changed, alone>>

\* Opening manifest.json truncates it; its text arrives when it is closed.
OpenManifest(p) ==
    /\ At(p, "open")
    /\ Goto(p, "fill")
    /\ temp' = CutShort
    /\ UNCHANGED <<files, archive, todo, listed, changed, alone>>

FillManifest(p) ==
    /\ At(p, "fill")
    /\ Goto(p, "clean")
    /\ temp' = Manifest(p, listed[p])
    /\ UNCHANGED <<files, archive, todo, listed, changed, alone>>

\* Slip: the old archive is kept.
CleanNothing(p) ==
    /\ At(p, "clean")
    /\ Goto(p, IF listed[p] = Empty THEN "add" ELSE "zip")
    /\ UNCHANGED <<files, archive, temp, todo, listed, changed, alone>>

Clean(p) ==
    /\ At(p, "clean")
    /\ archive' = [archive EXCEPT ![p] = NoArchive]
    /\ Goto(p, IF listed[p] = Empty THEN "add" ELSE "zip")
    /\ UNCHANGED <<files, temp, todo, listed, changed, alone>>

\* zip reads the listed files as they are now and warns of those that have gone.
Zip(p) ==
    LET named == {n \in Names : listed[p][n] # 0}
        found == {n \in named : files[p][n] # 0}
    IN
    /\ At(p, "zip")
    /\ found # {}
    /\ archive' = [archive EXCEPT ![p] = Added(@, found, files[p])]
    /\ Goto(p, "add")
    /\ UNCHANGED <<files, temp, todo, listed, changed, alone>>

\* zip is not installed, cannot write, or has nothing to do.
ZipFails(p) ==
    /\ At(p, "zip")
    /\ Faults
    /\ Quit(p)
    /\ UNCHANGED <<files, archive, temp, changed, alone>>

\* Slip: a relative output path means another file from the temporary directory.
AddManifestElsewhere(p) ==
    /\ At(p, "add")
    /\ Goto(p, "look")
    /\ UNCHANGED <<files, archive, temp, todo, listed, changed, alone>>

AddManifest(p) ==
    /\ At(p, "add")
    /\ archive' = [archive EXCEPT ![p] =
                    [there |-> TRUE, files |-> @.files, manifest |-> temp]]
    /\ Goto(p, "look")
    /\ UNCHANGED <<files, temp, todo, listed, changed, alone>>

\* The archive stays, with the evidence and without a manifest.
AddManifestFails(p) ==
    /\ At(p, "add")
    /\ Faults
    /\ Quit(p)
    /\ UNCHANGED <<files, archive, temp, changed, alone>>

Look(p) ==
    /\ At(p, "look")
    /\ archive[p].there
    /\ Goto(p, "done")
    /\ UNCHANGED <<files, archive, temp, todo, listed, changed, alone>>

Crash(p) ==
    /\ Faults
    /\ ~Resting(p)
    /\ Quit(p)
    /\ UNCHANGED <<files, archive, temp, changed, alone>>

Command(p) ==
    \/ Start(p)
    \/ \E n \in Names : Hash(p, n)
    \/ HashGone(p) \/ HashDone(p)
    \/ OpenManifest(p) \/ FillManifest(p) \/ Clean(p)
    \/ Zip(p) \/ ZipFails(p) \/ AddManifest(p) \/ AddManifestFails(p)
    \/ Look(p) \/ Crash(p)

Next ==
    \E p \in Packs :
        \/ \E n \in Names, v \in Versions : Change(p, n, v)
        \/ Command(p)

Spec == Init /\ [][Next]_vars

-----------------------------------------------------------------------------
(* A successful pack of a project that nobody changed meanwhile holds      *)
(* exactly the evidence as it was (REQ-AUDIT001): nothing of an older      *)
(* archive, nothing missing, whatever failed or died before.               *)
PackedAsIs(p) ==
    archive[p].files = listed[p] /\ archive[p].files = files[p]

PackComplete ==
    \A p \in Packs : At(p, "done") /\ ~changed[p] => PackedAsIs(p)

(* The manifest inside an archive that was reported as written lists the   *)
(* files and hashes its own command computed (REQ-AUDIT002).               *)
HasOwn(p) == archive[p].manifest = Manifest(p, listed[p])

OwnManifest == \A p \in Packs : At(p, "done") => HasOwn(p)

(* So it does when no other command of the machine ran meanwhile, whatever *)
(* failed or died before and whatever manifest.json was lying about.       *)
AloneOwnManifest == \A p \in Packs : At(p, "done") /\ alone[p] => HasOwn(p)

(* While nobody changes the project, the list in memory is that of the     *)
(* files hashed so far, and the archive holds what has been put there.     *)
EvidenceFollows ==
    \A p \in Packs : ~changed[p] =>
        /\ At(p, "hash") =>
               \A n \in Names :
                   /\ n \in todo[p] => files[p][n] # 0
                   /\ listed[p][n] = IF n \in todo[p] THEN 0 ELSE files[p][n]
        /\ pc[p] \notin {"idle", "hash"} => listed[p] = files[p]
        /\ At(p, "zip") => archive[p].files = Empty
        /\ pc[p] \in {"add", "look", "done"} => archive[p].files = listed[p]

(* A command that is alone finds its own list in the shared manifest.json  *)
(* from the moment it has filled it, and then in its archive.              *)
ManifestFollows ==
    \A p \in Packs : alone[p] =>
        /\ ~Resting(p) => \A q \in Packs \ {p} : Resting(q)
        /\ pc[p] \in {"clean", "zip", "add"} => temp = Manifest(p, listed[p])
        /\ pc[p] \in {"look", "done"} => HasOwn(p)

Inv == TypeOK /\ PackComplete /\ EvidenceFollows

=============================================================================
