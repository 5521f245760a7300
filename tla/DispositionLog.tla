--------------------------- MODULE DispositionLog ---------------------------
(***************************************************************************)
(* The waiver log .fusa-dispositions.json (src/src/disposition): commands  *)
(* `disposition add` load it whole, change it in memory and rewrite it in  *)
(* place; `check`, `lint` and `analyze` decide their exit code from it     *)
(* (gated_exit_code in src/src/cmd/cli.cpp).  There is no lock, and a file *)
(* that does not parse reads as an empty log.                              *)
(***************************************************************************)
EXTENDS Naturals, Sequences

CONSTANTS
    Procs,          \* the command invocations that may run at one time
    Rules,          \* rule ids
    Prints,         \* fingerprints of findings
    Findings,       \* findings the passes may report: [rule, print, severity]
    InitialFiles,   \* what the file may hold at first
    Faults          \* TRUE when commands may die and writes may fail

NoRule == ""        \* an entry without ruleId
NoPrint == ""       \* an entry without fingerprint

Statuses == {"accepted", "deferred", "rejected"}
Waivers == {"accepted", "deferred"}
\* What the text of a status, or of the action in an old file, may be.
Words == Statuses \cup {"accept", "fix", "other"}

Entries == [rule : Rules \cup {NoRule}, print : Prints \cup {NoPrint}, status : Statuses]
Logs == Seq(Entries)
RawEntries == [rule : Rules \cup {NoRule}, print : Prints \cup {NoPrint}, status : Words]

\* The entries are under today's key, the old one, or none the code knows; rest
\* is what follows an entry with a value of the wrong type, on which
\* json::value throws.
Files == [key : {"none", "dispositions", "entries"},
          entries : Seq(RawEntries), rest : Seq(RawEntries)]

\* The file is missing, or its text does not parse.
Unreadable == [key |-> "none", entries |-> <<>>, rest |-> <<>>]

ASSUME RulesAssumption == NoRule \notin Rules
ASSUME FindingsAssumption ==
    Findings \subseteq [rule : Rules, print : Prints, severity : {"ERROR", "WARNING", "INFO"}]
ASSUME FilesAssumption == InitialFiles \subseteq Files

VARIABLES
    file,           \* .fusa-dispositions.json
    pc,             \* where each invocation is
    log,            \* the log an invocation has in memory
    entry,          \* the entry an invocation adds
    recorded,       \* observed only: every entry somebody wrote or asked for
    latest          \* observed only: the last decision per rule

vars == <<file, pc, log, entry, recorded, latest>>

-----------------------------------------------------------------------------
(* Reading and changing a log.                                             *)

\* Slip: a text that is no status is kept.
ParseStatusVerbatim(word) == word

parse_status(word) == IF word \in {"deferred", "rejected"} THEN word ELSE "accepted"

parse_canonical_entry(e) ==
    [rule |-> e.rule, print |-> e.print, status |-> parse_status(e.status)]

parse_legacy_entry(e) ==
    [rule |-> e.rule, print |-> NoPrint,
     status |-> IF e.status = "fix" THEN "deferred" ELSE "accepted"]

Parsed(key, es) ==
    CASE key = "dispositions" -> [i \in 1..Len(es) |-> parse_canonical_entry(es[i])]
      [] key = "entries" -> [i \in 1..Len(es) |-> parse_legacy_entry(es[i])]
      [] OTHER -> <<>>

\* The exception ends the loop and is swallowed: what was read so far is the log.
load(f) == Parsed(f.key, f.entries)

Saved(l) == [key |-> "dispositions", entries |-> l, rest |-> <<>>]

\* The places of a rule's entries, and the first of them.
Of(l, rule) == {i \in 1..Len(l) : l[i].rule = rule}
IsFirst(l, i) == \A j \in 1..(i - 1) : l[j].rule # l[i].rule

\* Slip: the new entry is put behind the old one.
AddAppends(l, e) == Append(l, e)

add(l, e) ==
    IF Of(l, e.rule) = {}
      THEN Append(l, e)
      ELSE [i \in 1..Len(l) |-> IF i \in Of(l, e.rule) /\ IsFirst(l, i) THEN e ELSE l[i]]

\* The set of the entry found: empty when the rule has none.
find_by_rule(l, rule) == {l[i] : i \in {k \in Of(l, rule) : IsFirst(l, k)}}

Gating(f, strict) == f.severity = "ERROR" \/ (strict /\ f.severity = "WARNING")

\* Slip: any entry for the rule waives the finding.
WaivedByAnyEntry(l, f) == find_by_rule(l, f.rule) # {}

Waived(l, f) == \E e \in find_by_rule(l, f.rule) : e.status \in Waivers

gated_exit_code(findings, strict, l) ==
    IF \A f \in findings : Gating(f, strict) => Waived(l, f) THEN 0 ELSE 1

-----------------------------------------------------------------------------
NoEntry == [rule |-> NoRule, print |-> NoPrint, status |-> "rejected"]

\* The decision for a rule, if any, in a file read to its last entry.
Decision(f, rule) ==
    {e.status : e \in find_by_rule(Parsed(f.key, f.entries \o f.rest), rule)}

Init ==
    /\ file \in InitialFiles
    /\ pc = [p \in Procs |-> "idle"]
    /\ log = [p \in Procs |-> <<>>]
    /\ entry = [p \in Procs |-> NoEntry]
    /\ recorded = {load(file)[i] : i \in 1..Len(load(file))}
    /\ latest = [r \in Rules |-> Decision(file, r)]

\* The invocation is over, and its local variables with it.
Over(p) ==
    /\ pc' = [pc EXCEPT ![p] = "idle"]
    /\ log' = [log EXCEPT ![p] = <<>>]
    /\ entry' = [entry EXCEPT ![p] = NoEntry]

\* `disposition add` reads the log and adds its entry to what it read.
AddLoad(p, rule, status) ==
    LET e == [rule |-> rule, print |-> NoPrint, status |-> status] IN
    /\ pc[p] = "idle"
    /\ log' = [log EXCEPT ![p] = add(load(file), e)]
    /\ entry' = [entry EXCEPT ![p] = e]
    /\ recorded' = recorded \cup {e}
    /\ pc' = [pc EXCEPT ![p] = "open"]
    /\ UNCHANGED <<file, latest>>

\* std::ofstream f(path) truncates the file.
AddOpen(p) ==
    /\ pc[p] = "open"
    /\ file' = Unreadable
    /\ pc' = [pc EXCEPT ![p] = "write"]
    /\ UNCHANGED <<log, entry, recorded, latest>>

\* Slip: the command reports success all the same.
AddOpenFailsUnnoticed(p) ==
    /\ Faults
    /\ pc[p] = "open"
    /\ latest' = [latest EXCEPT ![entry[p].rule] = {entry[p].status}]
    /\ Over(p)
    /\ UNCHANGED <<file, recorded>>

\* The file cannot be opened: the command says so and exits 1.
AddOpenFails(p) ==
    /\ Faults
    /\ pc[p] = "open"
    /\ Over(p)
    /\ UNCHANGED <<file, recorded, latest>>

\* The command writes its log and reports "Disposition added".  Over the text of
\* another command that wrote since this one truncated the file, a longer text
\* may leave a tail that does not parse; and the state of the stream is not
\* looked at after the write.
AddWrite(p) ==
    /\ pc[p] = "write"
    /\ \/ file' = Saved(log[p])
       \/ (Faults \/ file # Unreadable) /\ file' = Unreadable
    /\ latest' = [latest EXCEPT ![entry[p].rule] = {entry[p].status}]
    /\ Over(p)
    /\ UNCHANGED recorded

Crash(p) ==
    /\ Faults
    /\ pc[p] # "idle"
    /\ Over(p)
    /\ UNCHANGED <<file, recorded, latest>>

Command(p) ==
    \/ \E r \in Rules, s \in Statuses : AddLoad(p, r, s)
    \/ AddOpen(p) \/ AddOpenFails(p) \/ AddWrite(p) \/ Crash(p)

Next == \E p \in Procs : Command(p)

Spec == Init /\ [][Next]_vars

-----------------------------------------------------------------------------
\* What check, lint or analyze would exit with now; they read the log once.
Gate(findings, strict) == gated_exit_code(findings, strict, load(file))

\* A gate that exits 0 lets a finding pass that had to be waived.
Passes(f, findings, strict) ==
    f \in findings /\ Gating(f, strict) /\ Gate(findings, strict) = 0

Resting == \A p \in Procs : pc[p] = "idle"

TypeOK ==
    /\ file \in Files
    /\ pc \in [Procs -> {"idle", "open", "write"}]
    /\ log \in [Procs -> Logs]
    /\ entry \in [Procs -> Entries]
    /\ recorded \subseteq Entries
    /\ latest \in [Rules -> SUBSET Statuses]

(* A gate that lets a finding pass has a waiver of its rule that somebody  *)
(* wrote or asked for: no interleaving of commands that load, truncate and *)
(* write, and no torn file, turns a rejection or nothing into a waiver.    *)
NoInventedWaiver ==
    \A F \in SUBSET Findings, strict \in BOOLEAN, f \in Findings :
        Passes(f, F, strict) =>
            \E e \in recorded : e.rule = f.rule /\ e.status \in Waivers

(* When commands run one at a time a gate lets a finding pass only if the  *)
(* last decision acknowledged for its rule is a waiver, whatever commands  *)
(* died and whatever writes failed in between: a rejection stays.          *)
GateObeysLatest ==
    \A F \in SUBSET Findings, strict \in BOOLEAN, f \in Findings :
        Resting /\ Passes(f, F, strict) => latest[f.rule] \cap Waivers # {}

(* When moreover nothing fails a waiver holds from the command that        *)
(* acknowledged it on: the gate fails only for a finding not waived.       *)
WaiverHolds ==
    \A F \in SUBSET Findings, strict \in BOOLEAN :
        Resting /\ Gate(F, strict) = 1 =>
            \E f \in F : Gating(f, strict) /\ latest[f.rule] \cap Waivers = {}

(* The inductive invariant behind NoInventedWaiver.                        *)
Remembered(l) == \A i \in 1..Len(l) : l[i] \in recorded

Inv ==
    /\ TypeOK
    /\ Remembered(load(file))
    /\ \A p \in Procs : pc[p] # "idle" => Remembered(log[p])
    /\ NoInventedWaiver

=============================================================================
