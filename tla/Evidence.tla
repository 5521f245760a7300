------------------------------ MODULE Evidence ------------------------------
(***************************************************************************)
(* The commands over the evidence files, one component at a time: part     *)
(* says which, and the variables of the others are off.                    *)
(***************************************************************************)
EXTENDS Trace

CONSTANTS
    Inputs, Regenerated,        \* the evidence files of release
    Tests, Starred,             \* the tests of verify
    Packs, Names, MaxVersion,   \* the commands and files of audit-pack
    Faults                      \* TRUE when commands may die and writes may fail

VARIABLES
    part,
    present, beside, todo, hashes, manifest, touched,       \* release
    outcome, lines, tail, evidence, report,                 \* verify
    files, archive, temp, listed, changed, alone            \* audit-pack

RE == INSTANCE Release
VE == INSTANCE Verify
AU == INSTANCE AuditPack

ASSUME PartsAssumption ==
    RE!NamesAssumption /\ VE!TestsAssumption /\ VE!StarredAssumption /\ AU!VersionAssumption

\* What the components have besides pc, and todo where two of them use it.
ReleaseVars == <<present, beside, hashes, manifest, touched>>
VerifyVars == <<outcome, lines, tail, evidence, report>>
PackVars == <<files, archive, temp, listed, changed, alone>>
TraceVars == <<file, tags, mem, known>>
evidenceVars == <<part, pc, todo, ReleaseVars, VerifyVars, PackVars, TraceVars>>

Off == "off"
ReleaseOff ==
    present = Off /\ beside = Off /\ hashes = Off /\ manifest = Off /\ touched = Off
VerifyOff == outcome = Off /\ lines = Off /\ tail = Off /\ evidence = Off /\ report = Off
PackOff ==
    files = Off /\ archive = Off /\ temp = Off /\ listed = Off /\ changed = Off /\ alone = Off
TraceOff == file = Off /\ tags = Off /\ mem = Off /\ known = Off

EvidenceInit ==
    \/ part = "release" /\ RE!Init /\ VerifyOff /\ PackOff /\ TraceOff
    \/ part = "verify" /\ VE!Init /\ todo = Off /\ ReleaseOff /\ PackOff /\ TraceOff
    \/ part = "audit-pack" /\ AU!Init /\ ReleaseOff /\ VerifyOff /\ TraceOff
    \/ part = "trace" /\ Init /\ todo = Off /\ ReleaseOff /\ VerifyOff /\ PackOff

EvidenceNext ==
    /\ UNCHANGED part
    /\ \/ part = "release" /\ RE!Next /\ UNCHANGED <<VerifyVars, PackVars, TraceVars>>
       \/ part = "verify" /\ VE!Next /\ UNCHANGED <<todo, ReleaseVars, PackVars, TraceVars>>
       \/ part = "audit-pack" /\ AU!Next /\ UNCHANGED <<ReleaseVars, VerifyVars, TraceVars>>
       \/ part = "trace" /\ Next /\ UNCHANGED <<todo, ReleaseVars, VerifyVars, PackVars>>

EvidenceSpec == EvidenceInit /\ [][EvidenceNext]_evidenceVars

\* The bookkeeping of every component: its types, and what it rests on.
EvidenceInv ==
    /\ part = "release" => RE!Inv
    /\ part = "verify" => VE!Inv
    /\ part = "audit-pack" => AU!Inv
    /\ part = "trace" => RequirementsInv

\* A release that nobody disturbed pins the evidence it was made from.
EvidencePinned == part = "release" => RE!EvidencePinned

\* verify succeeds in spite of a failure only where the pattern hides it behind
\* a pass or ctest died, and its bundle says nothing but what that run printed.
VerdictIsOfTheRun == part = "verify" => VE!AllRedIsRefused /\ VE!BundleIsOfTheRun

\* A command that packs alone packs the manifest it has computed.
AloneOwnManifest == part = "audit-pack" => AU!ManifestFollows /\ AU!AloneOwnManifest

\* What a gate of trace lets pass is covered, an import makes no id twice, the
\* strict gate means the hierarchy, and all reports tell the same.
GatesMeanTheirWord ==
    part = "trace" => GateCoversKnown /\ TwiceByPeople /\ StrictMeansHierarchy /\ ReportsAgree

\* What is exported and imported again is the same requirements.
TraceRoundTrips == part = "trace" => RoundTrips

=============================================================================
