------------------------------ MODULE Release ------------------------------
(***************************************************************************)
(* The release command (src/src/release/release.cpp and its callback in    *)
(* src/src/cmd/cli.cpp): regenerate some artifacts when --full is given,   *)
(* hash every evidence file that is present, then write the SBOM, the      *)
(* provenance and the manifest of hashes, beside the evidence or in        *)
(* --output-dir.  People and other commands may change the evidence at any *)
(* time.                                                                   *)
(*                                                                         *)
(* A hash is represented by whether it is that of the file as it is now:   *)
(* rewriting a file makes every recorded hash of it stale.                 *)
(***************************************************************************)
EXTENDS Naturals

CONSTANTS
    Inputs,         \* evidence files the release only reads
    Regenerated,    \* the files of tara, fmea and safety-case
    Faults          \* TRUE when the command may die and writes may fail

\* The files the command writes itself; all are among the evidence files.
Outputs == {"sbom.json", "provenance.json", "artifact-manifest.json"}
EvidenceFiles == Inputs \cup Regenerated \cup Outputs

NamesAssumption ==
    Inputs \cap Regenerated = {} /\ (Inputs \cup Regenerated) \cap Outputs = {}

VARIABLES
    present,        \* the evidence files in the project directory
    pc,             \* where the command is
    beside,         \* TRUE when it writes into the project directory
    todo,           \* the files it still has to regenerate or to hash
    hashes,         \* the manifest in its memory
    manifest,       \* the manifest it has written, beside or elsewhere
    touched         \* observed only: somebody else changed a file since its start

vars == <<present, pc, beside, todo, hashes, manifest, touched>>

Listings == [EvidenceFiles -> {"unlisted", "current", "stale"}]
Nothing == [n \in EvidenceFiles |-> "unlisted"]

TypeOK ==
    /\ present \subseteq EvidenceFiles
    /\ pc \in {"idle", "full", "list", "hash", "sbom", "provenance", "manifest", "done"}
    /\ beside \in BOOLEAN
    /\ todo \subseteq EvidenceFiles
    /\ hashes \in Listings
    /\ manifest \in Listings
    /\ touched \in BOOLEAN

Init ==
    /\ present \in SUBSET EvidenceFiles
    /\ pc = "idle"
    /\ beside = TRUE
    /\ todo = {}
    /\ hashes = Nothing
    /\ manifest = Nothing
    /\ touched = FALSE

\* What the hashes in a listing are once the files in S have changed.
Outdated(listing, S) ==
    [n \in EvidenceFiles |-> IF n \in S /\ listing[n] = "current" THEN "stale" ELSE listing[n]]

\* The files in S are written anew in the project directory.
Rewrite(S) ==
    /\ present' = present \cup S
    /\ hashes' = Outdated(hashes, S)
    /\ manifest' = Outdated(manifest, S)

-----------------------------------------------------------------------------
(* People and other commands.                                              *)

Change(n) ==
    /\ Rewrite({n})
    /\ touched' = TRUE
    /\ UNCHANGED <<pc, beside, todo>>

Remove(n) ==
    /\ n \in present
    /\ present' = present \ {n}
    /\ hashes' = Outdated(hashes, {n})
    /\ manifest' = Outdated(manifest, {n})
    /\ touched' = TRUE
    /\ UNCHANGED <<pc, beside, todo>>

-----------------------------------------------------------------------------
(* The command.                                                            *)

Start(full, here) ==
    /\ pc \in {"idle", "done"}
    /\ pc' = IF full THEN "full" ELSE "list"
    /\ beside' = here
    /\ todo' = IF full THEN Regenerated ELSE {}
    /\ hashes' = Nothing
    /\ touched' = FALSE
    /\ UNCHANGED <<present, manifest>>

\* generate() may fail, and then nothing is written: release goes on.
Regenerate(n) ==
    /\ pc = "full"
    /\ n \in todo
    /\ todo' = todo \ {n}
    /\ Rewrite({n}) \/ UNCHANGED <<present, hashes, manifest>>
    /\ UNCHANGED <<pc, beside, touched>>

FullDone ==
    /\ pc = "full"
    /\ todo = {}
    /\ pc' = "list"
    /\ UNCHANGED <<present, beside, todo, hashes, manifest, touched>>

\* list_present_evidence_files: the names first, the contents one by one later.
List ==
    /\ pc = "list"
    /\ todo' = present
    /\ pc' = "hash"
    /\ UNCHANGED <<present, beside, hashes, manifest, touched>>

\* Slip: the hash that the manifest written before has of a file is kept.
HashOnce(n) ==
    /\ pc = "hash"
    /\ n \in todo
    /\ todo' = todo \ {n}
    /\ hashes' = [hashes EXCEPT ![n] =
                    IF manifest[n] = "unlisted" THEN "current" ELSE manifest[n]]
    /\ UNCHANGED <<present, pc, beside, manifest, touched>>

\* A file that has gone meanwhile hashes as the empty file.
Hash(n) ==
    /\ pc = "hash"
    /\ n \in todo
    /\ todo' = todo \ {n}
    /\ hashes' = [hashes EXCEPT ![n] = IF n \in present THEN "current" ELSE "stale"]
    /\ UNCHANGED <<present, pc, beside, manifest, touched>>

HashDone ==
    /\ pc = "hash"
    /\ todo = {}
    /\ pc' = "sbom"
    /\ UNCHANGED <<present, beside, todo, hashes, manifest, touched>>

\* One of the outputs is written, or the stream fails and nobody looks.
WriteOutput(name) ==
    IF beside
      THEN Rewrite({name}) \/ (Faults /\ UNCHANGED <<present, hashes, manifest>>)
      ELSE UNCHANGED <<present, hashes, manifest>>

WriteSbom ==
    /\ pc = "sbom"
    /\ WriteOutput("sbom.json")
    /\ pc' = "provenance"
    /\ UNCHANGED <<beside, todo, touched>>

WriteProvenance ==
    /\ pc = "provenance"
    /\ WriteOutput("provenance.json")
    /\ pc' = "manifest"
    /\ UNCHANGED <<beside, todo, touched>>

\* Slip: entries of the manifest written before are kept.
WriteManifestMerged ==
    LET own == IF beside THEN {"artifact-manifest.json"} ELSE {} IN
    /\ pc = "manifest"
    /\ pc' = "done"
    /\ present' = present \cup own
    /\ manifest' = Outdated([n \in EvidenceFiles |-> IF hashes[n] = "unlisted" THEN manifest[n]
                                             ELSE hashes[n]], own)
    /\ hashes' = Nothing
    /\ UNCHANGED <<beside, todo, touched>>

\* Writing the manifest beside the evidence makes its hash of itself stale.
WriteManifest ==
    LET own == IF beside THEN {"artifact-manifest.json"} ELSE {} IN
    /\ pc = "manifest"
    /\ pc' = "done"
    /\ present' = present \cup own
    /\ manifest' = Outdated(hashes, own)
    /\ hashes' = Nothing
    /\ UNCHANGED <<beside, todo, touched>>

\* The manifest is cut short and lists nothing.  Nobody looks at the stream,
\* and the command reports success; pc is "done" only when all was written.
WriteManifestFails ==
    /\ Faults
    /\ pc = "manifest"
    /\ pc' = "idle"
    /\ manifest' = Nothing
    /\ hashes' = Nothing
    /\ present' = IF beside THEN present \cup {"artifact-manifest.json"} ELSE present
    /\ UNCHANGED <<beside, todo, touched>>

Crash ==
    /\ Faults
    /\ pc \notin {"idle", "done"}
    /\ pc' = "idle"
    /\ todo' = {}
    /\ hashes' = Nothing
    /\ UNCHANGED <<present, beside, manifest, touched>>

Command ==
    \/ \E full, here \in BOOLEAN : Start(full, here)
    \/ \E n \in Regenerated : Regenerate(n)
    \/ FullDone \/ List
    \/ \E n \in EvidenceFiles : Hash(n)
    \/ HashDone \/ WriteSbom \/ WriteProvenance
    \/ WriteManifest \/ WriteManifestFails \/ Crash

Next ==
    \/ \E n \in Inputs \cup Regenerated : Change(n) \/ Remove(n)
    \/ Command

Spec == Init /\ [][Next]_vars

-----------------------------------------------------------------------------
(* The manifest of a release during and after which nobody else changed    *)
(* the evidence pins every file that is not its own output: each one       *)
(* present is listed with the hash it has, also those --full regenerated,  *)
(* whatever earlier releases died or failed.                               *)
Pins(S) ==
    pc = "done" /\ ~touched =>
        \A n \in S : manifest[n] = IF n \in present THEN "current" ELSE "unlisted"

EvidencePinned == Pins(Inputs \cup Regenerated)

(* The manifest pins all evidence files (REQ-RELEASE006), those that the   *)
(* release writes among them.                                              *)
OutputsPinned == Pins(Outputs)

(* So it is because the listing in the command's memory is, at every step,  *)
(* that of the evidence hashed so far: the command itself never outdates a   *)
(* hash of the evidence it has just taken.                                   *)
HashesFollow ==
    /\ pc \in {"full", "list"} => hashes = Nothing
    /\ pc = "hash" /\ ~touched =>
           \A n \in Inputs \cup Regenerated :
               /\ n \in todo => n \in present
               /\ hashes[n] = IF n \in present /\ n \notin todo THEN "current" ELSE "unlisted"
    /\ pc \in {"sbom", "provenance", "manifest"} /\ ~touched =>
           \A n \in Inputs \cup Regenerated :
               hashes[n] = IF n \in present THEN "current" ELSE "unlisted"

Inv == TypeOK /\ HashesFollow

=============================================================================
