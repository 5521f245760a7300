# Verification of cpp-FuSa

cpp-FuSa (`src/`) is a functional-safety toolkit for C++: a command-line program,
`cpfusa`, whose subcommands check a project and produce the evidence files that a
safety assessment asks for, and a small header-only runtime (watchdog, heartbeat,
safe state) that the project's own program may use.  This directory holds TLA+
models of its parts, TLC configurations that check them, and proofs checked with TLAPS.

Paths below are relative to the repository (`src/` is its root here, so the sources
are in `src/src/<module>/`).

## 1. Inventory

| Part | State | Operations | What is hard |
|---|---|---|---|
| `runtime/watchdog.hpp` | `alive_`, `kicked_`, a mutex, a condition variable, the monitor thread | constructor, `kick`, destructor, `monitor` | kicks, timeouts, spurious wake-ups and destruction in every order; lost wake-ups |
| `runtime/heartbeat.hpp` | atomic beat counter, `running_`, a mutex and condition variable | constructor, `beat`, destructor, `monitor` | atomics changed outside the lock, a check between two waits, a verdict racing the destructor |
| `runtime/safe_state.hpp` | an armed flag, an atomic flag | `commit`, destructor, `set`, `clear` | order of commit and scope exit |
| `quality`, and the callbacks of `tara`, `fmea`, `safety_case`, `sas` | one JSON file each, with an attestation object | generate, carry the attestation over, rewrite the file, gate | read-modify-write of files without a lock; two serialisations of one document that must hash equal |
| `disposition` | `.fusa-dispositions.json`, a log of decisions | add, list, show, and the lookup in `gated_exit_code` | lost updates, torn files that read as empty, old file formats, first-match lookup |
| `release` | `sbom.json`, `provenance.json`, `artifact-manifest.json` | `build_*`, `hash_artifacts`, `write_all`, `--full` | hashes of files that the same command rewrites; order |
| `auditpack` | the archive, a temporary manifest | `pack` | a temporary file shared by all processes, an external program that appends, partial failure |
| `verify` | `.fusa-evidence.json` | `run_ctest`, `parse_ctest_output`, `write_evidence` | trusting another program's output, its death, stale evidence |
| `engine` | a list of rules | `run`, `run_ids`, the rules | reading evidence others write |
| `pr`, `metrics` | append logs (`.fusa-problems.json`, `.fusa-metrics.json`) | load, add, save | the same as `disposition`; ids taken from the log's length |
| `hara` | `.fusa-hara.json` | init, show, check, ASIL determination | the table's boundaries, completeness, the gate |
| `hooks`, `sign` | `.git/hooks/pre-commit`; key and signature files | install, remove; keygen, sign, verify | sequences with other people's files |
| `trace`, `coverage`, `qualify`, `impact`, `diff`, `boundary`, `coupling`, `comp`, `sci` | none: they compute a report from files | analyse, render | numeric edges, identity of items, thresholds |
| `iso26262`, `iec61508`, `do178`, `iso21434`, `iec62443`, `unece`, `slsa`, `misra` | none: gap reports | assess | the mapping of present evidence to a status |
| `lint`, `analyze`, `vuln` | none, but scanners that carry a state from line to line | text in, findings out | the scope a line is in, found by counting braces; versions compared part by part |
| `report`, `badge` | none | findings in, documents and an exit code out | the same findings told in several formats |
| `cyber`, `ast`, `fix`, `template` | none | text in, findings or text out | patterns over text, not behaviour |
| `config`, `cmd` | `.fusa.json`; options | load, defaults, dispatch | exit codes |

The parts do not share memory.  They interact through the files in the project
directory: a command reads what earlier commands and people wrote, and each command
rewrites its own file in place (`std::ofstream`, which truncates first) without a lock
and mostly without looking at the stream's state.  People edit the same files by hand:
reviewers write attestations, and dispositions can be written with an editor.  In a
continuous-integration setting several commands run at once.  These are the
interleavings, crashes and partial failures the models are about.  The runtime is the
only multi-threaded code.

What makes each part correct:

* Watchdog: the handler never runs while kicks arrive in time, a silence is always
  noticed, and after the destructor nothing runs.
* Heartbeat: "alive" is said at most once per beat, "missed" only after a whole silent
  period, and at most one verdict is given after destruction has begun.
* Attested artifacts: a gate accepts repetitive content only on a genuine independent
  review of exactly that content; a review survives regeneration.
* Disposition log: a finding passes only when the last decision on its rule waives it.
* Release and audit pack: what the manifest says is what the files are.
* Verify: the bundle is the summary of the run, and a run whose every line tells of a
  failure is not green.  That success means that no test failed (REQ-VERIFY003) is what
  the code says and does not do.
* Requirements: what is exported is imported again where the format can carry it, and a gate of `trace` that
  passes means what its name says.
* Growing logs, hooks, signatures: what was acknowledged stays, numbers are unique, other
  people's hooks are left alone, a verdict is of what was signed.
* The analyses: each agrees with the definition of what it computes (a standard's table, the
  grammar of comments, a digest's padding, the function a line is in).

## 2. Modules

| Module | Models | Checked by | Proved in |
|---|---|---|---|
| `DeadlineTimer` | what a watchdog promises, without threads (abstract) | as `ImplementsTimer` in `watchdog` | `Watchdog_proofs` (safety part) |
| `Watchdog` | `runtime/watchdog.hpp` | `watchdog` | `Watchdog_proofs` |
| `Heartbeat` | `runtime/heartbeat.hpp` | `heartbeat` | `Heartbeat_proofs` |
| `Attestation` | regeneration, attestation and gating of tara, fmea, safety-case, sas; `release --full` | `attest` through `MCAttestation`; `attest_release` | `Attestation_proofs` |
| `DispositionLog` | `disposition add` and the exit code of check, lint, analyze | `disposition` through `MCDispositionLog` | `DispositionLog_proofs` |
| `Records` | `pr add`, `metrics record`, `hooks`, `sign` | `records` | `Records_proofs` |
| `Release` | `release` | `evidence` through `Evidence`; `release_outputs` | `Evidence_proofs` |
| `Verify` | `verify` and the VERIFY002 rule | `evidence`; `verify_starred` | `Evidence_proofs` |
| `AuditPack` | `audit-pack` | `evidence` | `Evidence_proofs` |
| `Trace` | `req import`, `req export`, `trace` and its gates | `evidence`, with the instances of `MCTrace` | `Evidence_proofs` |
| `Evidence` | the four commands above side by side, and their properties | `evidence` through `MCEvidence` | `Evidence_proofs` |
| `FuncCoverage` | `trace --func-coverage`: comments, headers, tags | `analyses` | `Analyses_proofs` (tags) |
| `Engine` | the thirteen rules, `run`, `run_ids`, and the qualification suite | `analyses` | `Analyses_proofs` |
| `Hara` | `.fusa-hara.json`, the ASIL of a rating, the completeness report | `analyses`; `hara_norisk` | `Analyses_proofs` |
| `Gap` | the gap reports of the seven standards and regulations | `analyses` | `Analyses_proofs` |
| `Findings` | `.fusa.json`, report formats, exit code, badge, diff, metrics' counts | `analyses`; `report_readers` | `Analyses_proofs` |
| `Coverage` | lcov totals, thresholds by level, MC/DC | `analyses` | `Analyses_proofs` |
| `Quality` | SHA-256's blocks, the fingerprint's normal form, the scans for stubs | `analyses`, through `Fmea` | |
| `Fmea` | the rows of the FMEA, their ratings, its summary | `analyses` | |
| `Tara` | the risk of a threat, the catalogue | `analyses` | `Analyses_proofs` |
| `Argument` | safety case, accomplishment summary, configuration index | `analyses` | `Analyses_proofs` |
| `Impact` | which diff, which files, which requirements and evidence | `analyses` | |
| `Structure` | `comp`, `coupling`, `boundary` | `analyses` | `Analyses_proofs` (`coupling`, `boundary`) |
| `Vuln` | declarations, versions, advisories | `analyses` | `Analyses_proofs` |
| `Scanners` | the rules of `lint` and passes of `analyze` that count braces | `analyses` | |
| `FoldLemmas` | nothing: lemmas about the folds of the community modules and about texts in blocks, for the proofs | | itself |

Each module names its variables after the members or files they stand for, has one
action per handler or per step that another process or thread can see between, and
ends with its properties.  A definition whose comment starts with "Slip" is a plausible
mistake in the operation below it.  No behaviour uses it; it is there so that every
property can be shown to notice something.  Variables marked "observed only" record
history for the properties and never guard a step.

The modules from `FuncCoverage` on in this table have no variables: the code they model
computes a report from what it reads, in one go.  They are operators from the input to what the
program says of it.  A sequence is walked with the folds of the community modules, as the code
walks it with a loop and a few locals.

### Watchdog and DeadlineTimer

`mon` is the monitor's place in `monitor()` (in "top" and "handler" it holds `mu_`),
`pc` each kicker's place in `kick()`, `owner` the destructor's.  A critical section of
`kick()` or `~Watchdog()` is one step because it contains nothing but an assignment.
`wait_for` with a predicate is a loop: the monitor may be notified, time out, or wake
spuriously, then takes the mutex, looks at the predicate and sleeps again.  `elapsed`
counts towards the deadline that `wait_for` fixed at its start; `quiet` counts, for the
properties only, since the last kick took effect.  Both stop at `Timeout`, since
longer silences are not told apart.

`DeadlineTimer` has no threads: it is armed, kicked, it expires, it is cancelled.
The watchdog implements it with `quiet` as the timer's age.

### Heartbeat

`beats`, `prev` and `running` are the members; `mon` is the place in the loop: enter,
wait, re-check of `running`, read of the counter, sample, handler.  `beat()` and
`running_.store` happen outside the mutex, as in the code.  `MaxBeats` bounds the
counter; the code's counter is 64 bits wide, and its overflow is not modelled.

### Attestation

A command is generate, carry, truncate, write, gate.  Contents are compared as the code
compares their hashes (SHA-256 is taken to be injective), and `Hashed` and `Written` keep
apart the two serialisations the code makes: the document whose hash is compared, and the
document that `write()` puts in the file from a configuration of its own.  People may
edit the sources, the attestation and the waiver of FUSA-STUB001 at any time
(`EditDuringRuns`), commands may die and writes may fail (`Faults`).  The option
`--min-coverage` is left at its default of 0, with which it does not gate.

### DispositionLog

`disposition add` loads the file, changes the log in memory, truncates, writes.
Reading covers both keys of the file, the legacy entries, unknown words and an entry
of the wrong type that ends the loop.  The gate is a pure read, so it is an operator
(`gated_exit_code`) and the properties speak of it in every state.  `recorded` and
`latest` are history.

### Records

`pr add` and `metrics record` share their shape: load, truncate, write.  The number of a
report is the length of the log that was read plus one.  A snapshot has no number in the
file; its place stands for its time.  `hooks install` and `remove` look at the hook and
write or delete it in a second step; a failed installation leaves an empty hook, which
has no marker.  `sign` reads the file and the key, then writes; `sign --verify` reads,
then compares.  A signature is the pair it is computed from, and `keygen` is one of the
changes of the key.  People close reports, replace the hook, edit the target and the key.
A log that is in `spoilt` promises nothing but unique numbers.

### Release

A hash is "current" or "stale" with respect to the file as it is now: rewriting a file
makes recorded hashes stale.  That is all the properties tell apart.  `hashes` is the
manifest in memory, `manifest` the one last written.  `pc = "done"` means that the
manifest was written in full; the code prints success in the other case too.

### AuditPack

A file's content is a version, 0 for an absent file; a hash is the version it was taken
of.  `temp` is `<temporary directory>/manifest.json`, which every process of the
machine shares.  The zip program is external: it adds to an archive that exists,
replaces entries it already has, reads the files as they are when it runs, and may fail.

### Verify

`lines` is what ctest printed of each test.  `Starred` is the set of statuses that
ctest prints glued to the dots (`....***Failed`), which the pattern of
`parse_ctest_output` does not match.  ctest stars every failure and every skip and no
pass, so both runs have `{"failed", "skipped"}`; the assumption is only that it never
stars a pass.  When no line matches, the code reads ctest's own count of failures, which
is how a run of nothing but failures is noticed.  ctest may die half way, and its exit
status is ignored, as in the code.

### Trace

`file` is `.fusa-reqs.json`: missing, torn, or a list.  `req import` reads it, merges a table,
truncates, writes, and may die.  The formats are sequences of rows or lines, so that a text
with a comma, a line break, a quote or an angle bracket does to them what it does in the code.
CSV has all five fields, severity among them ("safety" where the cell is empty); a comma is
replaced in each of them, and a line break ends the row.  ReqIF and Polarion XML are written
and read line by line and unescaped: an attribute ends at its first quote, and an element with
an angle bracket is not seen.  They carry ids and titles.  Nobody looks whether the list was
written in full (`SaveCutShort`), and the import is acknowledged all the same. `trace` is a
read of the file and the tags in the sources that are in scope; `Texts` is what the fields of a
requirement or a cell of a table may hold, any set in the proofs.  Its gates (the shares of
implemented and of tested requirements, the hierarchy of `--strict`) are operators that the
properties read in every state.

### Engine, Hara, Gap, Findings

A project is a record of what its rules can see of it.  `Engine` runs its list of rules with
the catch-all of the code: a rule that throws has no findings.  The qualification suite runs
every built-in case against the engine's own rules.  `Gap` has one table per standard: a
row stands for objectives with the same levels and the same evidence.  `Findings` keeps
what each format says of a list of findings, so that formats can be compared.

### The analyses of text

A text is cut only as far as the code's patterns cut it.  `FuncCoverage` has three levels: the
characters that begin or end a comment or literal, the statements of a header, the lines of a
source.  A line of a source is what it is (a tag, a comment, code), whether it is indented, and
the names it has before a parenthesis, qualified or not, because the tag of a function is
looked for above the first line in column 0 that mentions its name.  For `Structure` and
`Scanners` a line is its braces and the words the patterns look for, in order.  Each module
holds, beside the translation, the definition it is compared with: comments by the grammar,
functions by matching braces (`Blocks`), FIPS 180-4's padding, Table 4 of ISO 26262-3 by its
cells, and so on.

## 3. What the runs show

Passing runs:

| Run | Instance | Shows |
|---|---|---|
| `watchdog` | 2 kickers, timeout 3, fair | no early expiry, no handler after cancellation, no lost wake-up; silences are reported, `kick()` and the destructor return, and the abstract timer is implemented with its liveness |
| `heartbeat` | period 2, 4 beats, fair | `AliveIsEarned`, `AtMostOneLateVerdict`, `NoFalseAlarm`, `OneVerdictPerPeriod`, and the two liveness properties |
| `attest` | 2 commands, 1 artifact, 2 bodies, every fault and edit | the gate is sound (`GateSound`); while nothing interferes, attestations are kept (`CalmKeeps`) and no gate fails a document that was reviewed (`CalmHonours`, an action property) |
| `disposition` | 2 commands, 2 rules, 3 initial files, faults | no waiver nobody asked for (`NoInventedWaiver`); while commands run one at a time the gate obeys the last acknowledged decision (`SoloGateObeysLatest`); when nothing failed either, a waiver holds until it is replaced (`SoundWaiverHolds`) |
| `records` | 2 invocations, the 4 topics, 5 invocations and edits | numbers are unique whatever happens (`Inv`); an undisturbed log keeps what was acknowledged (`CalmLogKeeps`); verdicts are of what was signed (`VerdictIsOfTheSignature`); foreign hooks are left (`ForeignHookIsLeft`) |
| `evidence` | see below | release, verify, audit-pack and trace |
| `analyses` | see below | the analyses agree with their definitions |

Runs that find a disagreement between the code and what the repository says of it:

| Run | Violated | What happens |
|---|---|---|
| `attest_release` | `AttestationKept` | `release --full` regenerates tara, fmea and safety-case without carrying the attestation over |
| `release_outputs` | `OutputsPinned` | the manifest lists the three files the release itself writes with their old hashes; the repository's own `artifact-manifest.json` shows it |
| `verify_starred` | `SuccessIsGreen` | failing tests are dropped from ctest's output; one passing test is enough for success |
| `hara_norisk` | `UnderAllocationIsFound` | one hazard without a risk object makes HARA005 (and HARA002) throw, and the catch-all drops what they have to say of all the others |
| `report_readers` | `ReadersCountAsTheReport` | `badge --report` and `metrics` look for severities in lower case, and no report has them |

### The evidence run

`Evidence` puts side by side four components that share no variable but `pc` and `todo`.  `part` says
which one a behaviour is of, and the variables of the others are off.  So it is not a
product: its states are the sum of the four.

| Part | Instance | Properties |
|---|---|---|
| release | 1 input, 1 regenerated file, the 3 outputs, faults, `--full` or not, beside the evidence or elsewhere | `EvidenceInv`, `EvidencePinned` |
| verify | 3 tests, faults, failures and skips starred as ctest does | `EvidenceInv` (with `NeverRecorded`: no bundle ever lets VERIFY002 fire), `VerdictIsOfTheRun`: success in spite of a failure needs a line that the pattern knows, or a ctest that died (`AllRedIsRefused`), and the bundle is of the run just ended (`BundleIsOfTheRun`) |
| audit-pack | 2 projects, 1 name, versions up to 2, faults | `EvidenceInv` (with `PackComplete`), `AloneOwnManifest` |
| trace | 3 ids, 9 files, 3 tables to import, 7 tags in and out of scope, imports that die | `EvidenceInv`, `GatesMeanTheirWord`, `TraceRoundTrips` |

`GatesMeanTheirWord` stands for four: a gate that passes covers at least the requirements people wrote
or an import acknowledged (`GateCoversKnown`); an id is in the file twice only if people wrote
it twice (`TwiceByPeople`); a strict trace that passes means a hierarchy of two levels
without orphans (`StrictMeansHierarchy`); and counts, JSON document and gaps agree, with no
test tag in scope dropped (`ReportsAgree`).  `EvidenceInv` says of the file that what is
known is in it as long as it can be read.

### The analyses run

Every initial state of `MCAnalyses` is one input of one analysis, and its one step is the
report.  Each of its properties is a conjunction, by subject:

| Property | Says |
|---|---|
| `RatingsFollowTheTables` | the ASIL of a hazard is Table 4's and rises with each class; a threat's risk is that of its worst impact, in whatever order |
| `QualificationMeansTheRules` | a project's level is compared with its worst hazard; rules and HARA report agree, and a dangling reference is found; the suite notices a rule of its own cases that stops firing; files out of scope do not count; the hash tells outcomes apart |
| `GapsFollowTheEvidence` | more evidence never opens a gap, a higher level never asks for less, all evidence leaves just what is assessed by hand, both regulations are told |
| `ReportsTellTheFindings` | saved settings of language "cpp" are read back, formats agree on counts and exit code, a waiver takes out its rule and nothing else, diff sees new places |
| `CoverageIsOfTheCode` | a tag is spent on one line, and on one function where a line names one and no comment names any, what meets a level meets the next lower one, full coverage means every file, MC/DC means both outcomes |
| `ArtifactsAreOfTheProject` | support rests on what is cited and what is cited is indexed, coupling and boundary agree, an upgrade closes the advisory, what is hashed is padded as FIPS 180-4 says |
| `ScansFollowTheText` | comments are the grammar's, public declarations are counted, throws are blamed on the destructor they are in, recursion and a switch's own default are seen, a suppression is of its line, limits are of a body, every function is measured, fingerprints are of words, the FMEA's summary counts its rows and its own scan finds placeholders just for deny-listed names, impact names all that is touched |

### History variables

A property such as "the gate obeys the last decision" is false when two commands race or a
write is cut short, and the model contains both.  Rather than run the model once more
without them, a variable that only observes is added:

* `calm` of `MCAttestation`: no command has died, no write has failed, nobody has edited
  a file while a command was running, no two commands have overlapped and no full release
  has run.
* `solo` and `sound` of `MCDispositionLog`: no two commands have overlapped; no command
  has died and no write has failed.
* `alone` and `changed` of `AuditPack`, `touched` of `Release`: another pack has not run, or
  somebody else has changed the project's evidence, since this command began.
* `spoilt` of `Records`: the topics in which steps came across each other or a write failed.
* `acked`, `signed`, `verdict` of `Records` and `known` of `Trace`: what people were told.

Each of them is turned on or off by a step and never guards one, so the properties that are
conditional on them still range over all behaviours, including what is left on disk by
earlier ones.

### Bounds, and why they are enough

* Two actors (kickers, commands, packs): the races are between one read-modify-write and
  another, and a third actor repeats the role of the second.  The theorems hold for any number.
* Timeouts of 2 or 3 ticks: 2 is the least at which "some time, but not enough" is a state;
  3 gives two such states.  The proofs hold for every timeout.
* Two findings of different rules tell "this rule" and "another rule" apart; a rule has
  one finding, since the gate's lookup is by rule.  The log is at first a file in the
  present format, with entries that disagree, an unknown word and an entry without a
  rule; one in the old format that a value of the wrong type cuts short; or missing.
* One or two file names and versions up to 2 tell absent, old and changed apart.
* `MaxBeats = 4` lets a beat fall into each of four consecutive places of the loop.
* `verify` has three tests so that passed, failed and skipped can occur in one run.
* `MaxRuns = 5` of `Records` lets two invocations overlap after a third has acknowledged
  something, with two edits between; the theorems hold for every bound.
* `Trace`: three requirements in a chain (parent, child, grandchild), one the file does not
  know, a duplicate, an empty id, and a tag of each kind in and out of scope.
* `Engine` and `Hara`: up to two hazards and two goals; a rule compares a hazard with a goal, the
  project or a report, and two hazards tell "some" from "every".
* `Gap`: nothing, one or two files of a standard's evidence, and the same left out of
  everything; a row asks for at most two files at a time.  The regulations: every subset.
* `Findings`: lists of up to three of five findings; reports of diff are pairs of them.
* Texts for comments: up to five of seven characters, enough for a literal with an escape in
  it or a comment in a literal.  Headers: up to five of eight statements, so nesting to
  two levels with one access label.  Sources: up to four lines of
  eleven forms (tags, comments and code, indented or not, with one name, two or none).
* lcov: up to two records, each with any of its lines missing.  MC/DC: two records of two.
* SHA-256: every length from 0 to 129 bytes, past the second block's edge at 55, 56, 63, 64,
  119, 120, 127 and 128.
* Messages up to four of five kinds of character; compared with those up to three.
* FMEA: up to three declarations.  Safety case: every subset of the cited files, with
  nothing or everything of the others.
* `comp`: up to five lines, enough for a function in a scope, two in a row, and one that
  ends on its signature line.  Scanned files: up to five lines whose braces balance.
* CMake files: up to four marks.

### Fairness

Only `watchdog` and `heartbeat` use fairness.  The monitor thread, when it is not
asleep, and a destructor that has begun are run by the scheduler (weak fairness);
the steady clock advances (weak fairness of `Tick`); the user's handler returns, which
the classes require of it.  `mu_` of the watchdog is contended, and the monitor holds it
only for short sections separated by whole timeouts, so a thread that wants it again and
again while it is free gets it: strong fairness of the two locking steps.  Nothing
obliges a thread to kick, a task to beat, an owner to destroy, or a wait to wake
spuriously.  The command models have no liveness properties: a command runs to its end
or dies, and nothing in the repository retries.

## 4. What is proved

All proofs are checked by TLAPS without omitted steps, for every value of the constants that
satisfies the named assumptions.

* `Watchdog_proofs` (any set of kickers; `TimeoutAssumption`: the timeout is positive,
  as the constructor enforces): `Inv` is inductive.  It says that a sleeping monitor
  that was not kicked has counted no more than the true silence, that the handler runs
  only at a full silence of a live object, how `alive_` follows the destructor, and that a
  waiter whose predicate holds has been or is about to be notified.  `NoPrematureExpiry`,
  `CancelIsFinal` and `NoLostWakeup` follow.  `ImplementsSafeTimer` maps each step to a
  step or a stutter of `DeadlineTimer`.
* `Heartbeat_proofs` (every natural `Period` and `MaxBeats`): the invariant relates the counter of
  credited beats to the sample the monitor holds, and the clock since the last wait to
  the clocks since the last beat and the last verdict.  From it: `AliveIsEarned`,
  `AtMostOneLateVerdict` and the action properties `NoFalseAlarm` and
  `OneVerdictPerPeriod`.
* `Attestation_proofs` (any commands, artifacts and bodies): every independent review
  in a file or in a command's memory was made by a person of that artifact and content.
  A gate can only accept on such a review, so `GateSound` follows.  The strengthening
  is needed because the carried attestation is a copy that outlives the file.  The converse
  needs a calm behaviour, and `CalmFollows`: the attestation last put in a file is in the
  file, or in the hands of the one command that is rewriting it, from before it empties the
  file until it has gated.  `CalmKeeps` follows for all artifacts; `CalmHonours` under two
  hypotheses on the constants, both of which the code needs: no FMEA among the
  artifacts, and `--dir` spelled canonically.  Otherwise the document that is hashed is
  not the one that is written, and TLC finds the counterexample.
* `DispositionLog_proofs` (any commands, rules, findings and initial file): every
  entry in the file, or in a log in memory, was recorded; reading, adding and saving keep
  that.  `NoInventedWaiver` follows.  `DecisionsFollow` relates the file to the decisions
  while commands run one at a time: the file waives no rule whose last acknowledged decision is not
  a waiver and, when nothing has failed, waives each one whose is, unless it has just been
  truncated; the log of the one command under way decides the command's own rule
  as it was told, and every other as was acknowledged.  What the lookup finds is the first
  entry of a rule, so the lemmas about `add`, and about a prefix of the log that a value of the wrong type
  leaves, argue by least indices.  `SoloGateObeysLatest` and `SoundWaiverHolds` follow.
* `Records_proofs` (any invocations, topics and bound), with an inductive invariant for
  each of four questions.  Numbers: the list an invocation is about to write is
  numbered, not only the file.  Hooks: who is about to touch the hook found one it may
  touch, unless its owner has put another in its place.  Logs (`LogFollows`): while nothing
  came across, at most one invocation holds the log, before it truncates its list contains
  the file's, and after it everything acknowledged is in its hands.  Signatures
  (`SignatureFollows`): who is signing or verifying has read what the files hold, and the
  signature file is what is known of it.  `CalmLogKeeps`, `VerdictIsOfTheSignature` and
  `ForeignHookIsLeft` follow.
* `Evidence_proofs` (any evidence files, tests, commands, names, versions, texts, requirement
  files, tables, tags and source directories; the assumptions say that outputs are no
  inputs, tests are finite, versions are naturals, and give types).  For `release`, `HashesFollow`
  says that at each step the listing in memory is that of the evidence hashed so far, so that a hash is
  taken after the regeneration and never outdated by the command itself.  For `verify`,
  `WrittenIsGreen` says that what is about to be written, or has been, is the summary of the run and
  counts no failure.  For `audit-pack`, `EvidenceFollows` relates list, files and archive at
  each place of a command whose project is left alone, and `ManifestFollows` says that a
  command that is alone finds its own list in the shared file from the moment it has
  filled it.  `IInv` is their conjunction, each for its part, with `TraceInv`;
  `EvidenceInv`, `EvidencePinned`, `AloneOwnManifest` and `GatesMeanTheirWord` follow.
  `VerdictIsOfTheRun` follows for any statuses that ctest stars except "passed":
  either every test printed a failure, and then what is summarised counts one, or the
  success had a line to rest on or no counts to read.  `verify_starred` shows that no more
  than that holds.
  For `trace`, `ImportKeeps`: an import of any table into any requirements
  returns requirements, with all of those there were, and makes no id occur twice that
  did not.  The rows are read by a recursive function.  The library's induction
  is out of the provers' reach, but were there a row after which the claim fails there would be a first
  one, since `<` on the naturals is well-founded (`UpTo`); so the step from one row to
  the next is enough.  `TraceInv` adds to the types: what people wrote or an import acknowledged is in
  the file as long as it can be read, and an import that is about to write has all of it in
  memory; the rest of `GatesMeanTheirWord` follows from it state by state, by counting
  the places of a list against its ids.
  `ExportsComeBack`: for requirements in any number whose ids are distinct and stay so, CSV
  brings every field back with its commas replaced, if ids and severities are not empty and
  no text has a line break (`CsvKeeps`); DOORS and Polarion bring ids and titles back, if they
  are not empty and have neither a line break nor what ends them early, a quote in an
  attribute, an angle bracket in an element (`DoorsKeeps`, `PolarionKeeps`).  Writer and reader walk lines
  with folds; the proof follows the runs of both side by side.
* `FoldLemmas`, which `Evidence_proofs` and `Analyses_proofs` rest on: how often the folds of
  the community modules go round, and what they hold after each element (a run); what follows
  of a run by the least element at which a claim fails; sums, sets and concatenations along a
  sequence; and where the places of a text are once it is cut into blocks of 64 and padded.
* `Analyses_proofs`: for every input, where the run has bounded ones.
  * `GapReportsFollowTheEvidence`: for any set of files a gap report follows the evidence; the
    tables of the standards are split into their rows, and a lemma says which evidence each
    row can count.
  * `RatingsAreOfTheTables`: the ASIL is a sum of points, compared with Table 4 cell
    by cell; the risk depends on the worst of four impacts and on the feasibility only, and rises
    with both.
  * `QualificationIsOfTheRules`, for hazard files and results of any length: the
    hazard that decides `HARA005` is followed along the list, and the suite's count against
    the cases that were noticed.
  * `ReportsTellWhatWasFound`, for any configuration and any findings: a configuration of
    language "cpp" is loaded as it was saved, and the counts of SARIF, summary, badge and exit
    code are sums along one list.
  * `CoverageIsAddedUp`, for lcov files, condition records and source lines of any length:
    a record adds no more to what is reached than to what there is, so equal totals leave no
    record short.  A tag is told by the line that it stands above, so it is spent on
    one line whatever the lines mention; that it is of one function needs the hypothesis
    that a line names at most one and comments name none.
  * `ArtifactsAreRight`, for any evidence; for any files whose components are named neither
    like the tool's own include directory (`cpfusa`) nor like a library's header, nor `none`,
    the model's mark for no include; for any CMake file whose dependencies are not called
    `none` and whose versions have parts below 100, so that the number by which the property
    compares two versions spells their parts; and for a file of any length, whose bytes are
    followed into blocks of 64, with one or two at the end for the mark, the zeros and the length.
  * `ReportsAreRight` adds that what the run enumerates meets these hypotheses, and with
    it that the six hold before and after each report.

Only model-checked: all liveness (`ExpiryDetected`, `KickReturns`, `SilenceDetected`,
`DestroyCompletes`, the liveness half of `ImplementsTimer`), because fairness and ENABLED
are out of the prover's reach; and `ScansFollowTheText`: its scanners select and sort with
operators as parameters (`SelectSeq`, `SortSeq`), which no installed prover can
instantiate, or call themselves along a text whose shape is the data.  Its bounds are above.

## 5. What is not modelled

* `misra` and `fix` print fixed tables, `template` writes fixed files, `cyber` looks for one
  pattern on each line, `ast` visits the tree of libclang.  `safe_state.hpp` is an
  assignment per operation.
* A handler that calls `kick()` or destroys its own watchdog; a heartbeat with a
  negative period (the theorems include a period of zero, the run does not); overflow of
  the 64-bit beat counter.
* Lost updates between two `disposition add` or two `req import` commands do happen.  They
  are behaviours of the model, and no property forbids them.
* In `release` and `audit-pack`: SBOM contents and formats, the creation of directories,
  and the bytes of SHA-256 (its compression of a block is a function of the block).
* In `verify`: which build directory is found (a missing one is an error), and numbers that
  appear in a test's own output.
* In `lint` and `analyze`: the rules that are one pattern on one line, two of which stand
  for the rest, and `clang-tidy` and `cppcheck`.
* HTML, Markdown, text layouts and the parsing of options.
* Parts that are modelled but for an operation that only prints are "partly" in
  `PROJECT.json`, with a note.

### Facts met on the way

Each was found while translating and is in the model unless it is about a detail the model
abstracts from.  None has a run of its own.

*Commands and files.*  With `--dir .` the `projectRoot` in `tara.json` differs from the one
that is hashed.  `fmea.json` as written lacks the `standard` that was hashed
(`fmea.cpp:352`, `quality.hpp:94-98`), so a review pinned to the file is stale at once.  A
disposition that names one fingerprint waives every finding of its rule.  A failing `verify`
writes no bundle, so VERIFY002 never fires on one it wrote.  Two packs at once exchange or tear
`<temp>/manifest.json` (`auditpack.cpp:230`, `.fusa-reqs.json:566`).  Two imports at once
lose one.  A gate of `trace` that fails does not print the artefact (`trace.hpp`: "MUST NOT
suppress").  A missing `.fusa-reqs.json` passes every gate.  A failed hook installation
leaves an empty hook that `install` then refuses as foreign, and installing over an own
hook drops what its user added.  `metrics`, `hooks` and `sign` report success for files that
were not written.  `.fusa.json`'s `strict` is ignored by `check`, its `language` is not
saved: `load` makes it "cpp", so what REQ-CFG004 claims holds for that language only.  The
one caller of `save` is `init`, with the defaults, whose language it is, so no command
meets the other case.  And a configuration without a version loads as 0.1.0, so FUSA003 is
silent.

*Requirements.*  A text with a line break makes a phantom requirement in CSV, a comma comes
back as a semicolon, a quote or an angle bracket cuts a text short in the XML formats; an empty
title does not survive DOORS; `req import --format` is ignored, so the DOORS and Polarion
importers cannot be reached from the command line.  Overloads share the tag of the first
definition.  The line taken for a definition is the first in column 0 that has the name before
a parenthesis (`trace.cpp:197-213`, REQ-TRACE018): a comment or a call counts, and where a line
mentions two functions one tag is credited to both.  A nested struct in a private section
counts as public, and comment stripping loses track after a string that ends in an escaped
backslash.

*Engine, qualification, standards.*  FUSA005 on a directory named CHANGELOG.md aborts the
whole run (REQ-ENG002); rules run in the order of registration, not of their ids
(REQ-ENG001), and there are thirteen, not five (REQ-ENG004).  COUP003 and ISO26262002 never
fire for the standard ids that `init` writes.  The suite cannot notice FUSA003 and FUSA004
firing always, nor anything of the eight rules it has no case for (REQ-QUALIFY001), and a
badge "independently-qualified" is given with failures too.  `do178` always exits 1 and takes
lower-case levels for D; objective 7.9 of IEC 61508-3 has no evidence; `unece` for both
stops at gaps in R155, and with `--output` keeps R156 only; `iec62443` and `slsa` never
gate.  An lcov record without `end_of_record` is dropped; an unknown level is D.  `diff`
ignores a change of severity in place.

*Artifacts.*  `impact` throws on an implementation that is a text (`impact.cpp:158`; the
form is used in `tests/test_impact.cpp:136`) and drops the rest (REQ-IMPACT002); a ref
it does not know changes nothing; `--from v1` compares v1 with HEAD.  `coupling` sees no
edge in `"../x/x.hpp"` and one in `<vector>` (REQ-COUPLING002); `boundary` matches no
include with a dot (REQ-BOUNDARY001, 003).  In `comp` and `analyze` a function that ends on its
signature line takes the next one under its own name.  `Catch2` is not the advisory's
`catch2`, and a declaration without a tag takes the next one's.  "Memory leak" is rated
lowest by a case-sensitive search, and FMEA ids are given before an unstable sort, in the
order of the directory.  In the safety case, G2 rests on a file that neither index
lists, Sn2 and Sn3 are never consulted, and G1 is never supported.

*Lint.*  A destructor that is only declared opens LINT015's scope, so the throw of the next
inline function is blamed on it, against `lint.cpp:466-474` ("never misattributed").
LINT008 looks at functions in column 0 without a qualified name, and at the first call on
a line.  For LINT013 the default of a nested or a later switch counts.  Suppression of a
whole file is honoured by some rules only, and NOLINT of any kind silences all but two.

## 6. Plan

1. Proofs: the parts of `ScansFollowTheText` that neither select nor sort (a throw is in its
   destructor, a suppression is of its line), by the runs of their folds.
2. A pipeline: check, verify, tara, release and audit-pack over one project directory, with
   an abstract specification of what an audit pack promises.
3. The counts of requirements and cyber findings in `metrics`; the SBOM of `release`.
