------------------------------ MODULE Records ------------------------------
(***************************************************************************)
(* The files that commands read, change and rewrite in place:              *)
(* .fusa-problems.json (src/src/pr) and .fusa-metrics.json                 *)
(* (src/src/metrics), which only grow; the pre-commit hook, which is       *)
(* somebody else's unless it has the tool's marker (src/src/hooks); and    *)
(* <file>.sig beside a signed file (src/src/sign).  Several invocations    *)
(* may run at one time, people edit the same files, there is no lock, and  *)
(* a command that dies leaves what it had written.                         *)
(***************************************************************************)
EXTENDS Naturals, Sequences, SequencesExt

CONSTANTS
    Procs,          \* the invocations that may run at one time
    Topics,         \* the files in use: of "pr", "metrics", "hook", "sign"
    MaxRuns         \* bound: invocations and edits in a behaviour

Logs == Topics \cap {"pr", "metrics"}

VARIABLES
    logs,           \* the two growing files
    hook,           \* .git/hooks/pre-commit
    target, key,    \* what the file to sign and the key file hold
    sig,            \* the signature file
    proc,           \* each invocation: where it is and what it has read
    begun,          \* invocations and edits so far
    acked,          \* observed only: what commands said they had recorded
    signed,         \* observed only: what the signature must be for, when known
    verdict,        \* observed only: the last verdict of sign --verify
    spoilt          \* observed only: the topics in which two steps came across

vars == <<logs, hook, target, key, sig, proc, begun, acked, signed, verdict, spoilt>>

-----------------------------------------------------------------------------
(* Files.                                                                  *)

Missing == [is |-> "missing", list |-> <<>>]
Torn == [is |-> "torn", list |-> <<>>]
File(list) == [is |-> "read", list |-> list]

\* What is missing or does not parse is an empty log.
load(f) == f.list

\* Slip: a report is numbered from 0.
NumberedFromZero(l) == Len(l)

new_id(l) == Len(l) + 1

\* A report or snapshot: its number, the invocation it is of, and its status.
Entry(l) == [id |-> new_id(l), of |-> begun, closed |-> FALSE]

\* An empty hook, which a failed installation leaves, has no marker.
Hooks == {"no git", "none", "ours", "empty", "theirs"}

Contents == {"c", "d"}
Keys == {"k", "l", "malformed"}
NoPair == <<"none", "none">>

Idle == [at |-> "idle", topic |-> "none", list |-> <<>>, pair |-> NoPair, stale |-> FALSE]

Init ==
    /\ logs = [f \in Logs |-> Missing]
    /\ hook \in IF "hook" \in Topics THEN Hooks ELSE {"none"}
    /\ target = "c" /\ key = "k" /\ sig = NoPair
    /\ proc = [p \in Procs |-> Idle]
    /\ begun = 0
    /\ acked = {} /\ signed = {} /\ verdict = "none" /\ spoilt = {}

\* Another invocation is between reading and writing.
Busy(p, topic) == \E q \in Procs \ {p} : proc[q].topic = topic

Begin(p, topic, step) ==
    /\ begun < MaxRuns /\ topic \in Topics /\ proc[p].at = "idle"
    /\ begun' = begun + 1
    /\ proc' = [proc EXCEPT ![p] = step]
    /\ spoilt' = IF Busy(p, topic) THEN spoilt \cup {topic} ELSE spoilt

Finish(p) == proc' = [proc EXCEPT ![p] = Idle]

\* Somebody edits a file of the topic: what invocations have read of it is stale.
Edit(topic) ==
    /\ begun < MaxRuns /\ topic \in Topics
    /\ begun' = begun + 1
    /\ proc' = [p \in Procs |-> [proc[p] EXCEPT !.stale = @ \/ proc[p].topic = topic]]
    /\ spoilt' = IF \E p \in Procs : proc[p].topic = topic THEN spoilt \cup {topic} ELSE spoilt

-----------------------------------------------------------------------------
(* pr add and metrics record.                                              *)

\* Slip: a log that is there is begun anew.
AddAnew(l, e) == <<e>>

add(l, e) == Append(l, e)

RecordLoad(p, f) ==
    /\ Begin(p, f, [Idle EXCEPT !.at = "open", !.topic = f,
                                !.list = add(load(logs[f]), Entry(load(logs[f])))])
    /\ UNCHANGED <<logs, hook, target, key, sig, acked, signed, verdict>>

\* std::ofstream truncates the file.
SaveOpen(p) ==
    LET f == proc[p].topic IN
    /\ proc[p].at = "open"
    /\ logs' = [logs EXCEPT ![f] = Torn]
    /\ proc' = [proc EXCEPT ![p].at = "write"]
    /\ UNCHANGED <<hook, target, key, sig, begun, acked, signed, verdict, spoilt>>

\* The file cannot be opened: `pr add` exits 1, `metrics record` says nothing of it.
SaveRefused(p) ==
    LET f == proc[p].topic IN
    /\ proc[p].at = "open"
    /\ acked' = IF f = "metrics" THEN acked \cup {<<f, Last(proc[p].list)>>} ELSE acked
    /\ spoilt' = IF f = "metrics" THEN spoilt \cup {f} ELSE spoilt
    /\ Finish(p)
    /\ UNCHANGED <<logs, hook, target, key, sig, begun, signed, verdict>>

\* Where another has written since this one truncated, the longer text sticks out.
SaveWrite(p) ==
    LET f == proc[p].topic IN
    /\ proc[p].at = "write"
    /\ \E left \in {File(proc[p].list)} \cup (IF logs[f] = Torn THEN {} ELSE {Torn}) :
            logs' = [logs EXCEPT ![f] = left]
    /\ acked' = acked \cup {<<f, Last(proc[p].list)>>}
    /\ Finish(p)
    /\ UNCHANGED <<hook, target, key, sig, begun, signed, verdict, spoilt>>

\* No command closes a report: people do, in the file.
PeopleClose ==
    /\ Edit("pr")
    /\ \E i \in DOMAIN logs["pr"].list :
        LET e == logs["pr"].list[i] IN
        /\ ~e.closed
        /\ logs' = [logs EXCEPT !["pr"].list[i].closed = TRUE]
        /\ acked' = (acked \ {<<"pr", e>>}) \cup {<<"pr", [e EXCEPT !.closed = TRUE]>>}
    /\ UNCHANGED <<hook, target, key, sig, signed, verdict>>

-----------------------------------------------------------------------------
(* hooks install and hooks remove.                                         *)

\* Slip: any hook that is there is taken for the tool's.
ReplacesWhatIsThere(h) == h # "no git"

may_install(h) == h \in {"none", "ours"}

InstallCheck(p) ==
    /\ may_install(hook)
    /\ Begin(p, "hook", [Idle EXCEPT !.at = "install", !.topic = "hook"])
    /\ UNCHANGED <<logs, hook, target, key, sig, acked, signed, verdict>>

\* The hook is written, or cannot be, or is cut off, and nothing is said of it.
InstallWrite(p) ==
    /\ proc[p].at = "install"
    /\ hook' \in {hook, "ours", "empty"}
    /\ Finish(p)
    /\ UNCHANGED <<logs, target, key, sig, begun, acked, signed, verdict, spoilt>>

RemoveCheck(p) ==
    /\ hook = "ours"
    /\ Begin(p, "hook", [Idle EXCEPT !.at = "remove", !.topic = "hook"])
    /\ UNCHANGED <<logs, hook, target, key, sig, acked, signed, verdict>>

RemoveDelete(p) ==
    /\ proc[p].at = "remove"
    /\ hook' = "none"
    /\ Finish(p)
    /\ UNCHANGED <<logs, target, key, sig, begun, acked, signed, verdict, spoilt>>

PeopleHook ==
    /\ hook # "no git"
    /\ Edit("hook")
    /\ hook' \in {"none", "theirs"} \ {hook}
    /\ UNCHANGED <<logs, target, key, sig, acked, signed, verdict>>

-----------------------------------------------------------------------------
(* sign and sign --verify.  A signature is the pair of the content and the  *)
(* key it was made from.                                                   *)

\* Slip: what a signature is made from is not the key's content but its length.
MacOfLength(content, k) == <<content, "key">>

hmac_file(content, k) == <<content, k>>

\* A key file that is not 64 hexadecimal digits ends the command.
SignRead(p) ==
    /\ key # "malformed"
    /\ Begin(p, "sign", [Idle EXCEPT !.at = "sign", !.topic = "sign",
                                     !.pair = hmac_file(target, key)])
    /\ UNCHANGED <<logs, hook, target, key, sig, acked, signed, verdict>>

\* The signature is written, or is left as it was and nothing is said of it, or
\* the command dies over the file it has truncated.
SignWrite(p) ==
    /\ proc[p].at = "sign"
    /\ \E done \in {sig, <<"torn", "torn">>, proc[p].pair} :
        /\ sig' = done
        /\ signed' = CASE done = proc[p].pair /\ ~proc[p].stale -> {<<target, key>>}
                       [] done = sig -> signed
                       [] OTHER -> {}
    /\ verdict' = "none"
    /\ Finish(p)
    /\ UNCHANGED <<logs, hook, target, key, begun, acked, spoilt>>

VerifyRead(p) ==
    /\ key # "malformed" /\ sig # NoPair
    /\ Begin(p, "sign", [Idle EXCEPT !.at = "verify", !.topic = "sign",
                                     !.pair = hmac_file(target, key)])
    /\ UNCHANGED <<logs, hook, target, key, sig, acked, signed, verdict>>

VerifyCompare(p) ==
    /\ proc[p].at = "verify"
    /\ verdict' = IF sig = proc[p].pair THEN "valid" ELSE "invalid"
    /\ Finish(p)
    /\ UNCHANGED <<logs, hook, target, key, sig, begun, acked, signed, spoilt>>

PeopleTarget ==
    /\ Edit("sign")
    /\ \/ target' \in Contents \ {target} /\ UNCHANGED key
       \/ key' \in Keys \ {key} /\ UNCHANGED target
    /\ verdict' = "none"
    /\ UNCHANGED <<logs, hook, sig, acked, signed>>

-----------------------------------------------------------------------------
\* An invocation dies.  It spoils a log only if it had begun to write.
Crash(p) ==
    /\ proc[p].at # "idle"
    /\ spoilt' = IF proc[p].at = "write" THEN spoilt \cup {proc[p].topic} ELSE spoilt
    /\ Finish(p)
    /\ UNCHANGED <<logs, hook, target, key, sig, begun, acked, signed, verdict>>

Next ==
    \/ \E p \in Procs :
        \/ \E f \in Logs : RecordLoad(p, f)
        \/ SaveOpen(p) \/ SaveRefused(p) \/ SaveWrite(p)
        \/ InstallCheck(p) \/ InstallWrite(p) \/ RemoveCheck(p) \/ RemoveDelete(p)
        \/ SignRead(p) \/ SignWrite(p) \/ VerifyRead(p) \/ VerifyCompare(p)
        \/ Crash(p)
    \/ PeopleClose \/ PeopleHook \/ PeopleTarget

Spec == Init /\ [][Next]_vars

-----------------------------------------------------------------------------
(* Properties.                                                             *)

Places == {"idle", "open", "write", "install", "remove", "sign", "verify"}
Entries == [id : Nat, of : Nat, closed : BOOLEAN]
Steps ==
    [at : Places, topic : Topics \cup {"none"}, list : Seq(Entries),
     pair : (Contents \X Keys) \cup {NoPair}, stale : BOOLEAN]

TypeOK ==
    /\ logs \in [Logs -> [is : {"missing", "torn", "read"}, list : Seq(Entries)]]
    /\ hook \in Hooks
    /\ target \in Contents /\ key \in Keys
    /\ proc \in [Procs -> Steps]
    /\ begun \in Nat

(* The number of a report is its place in the log, in every log that can be *)
(* read, whatever invocations overlapped, died or began over a torn file:   *)
(* no log ever holds two reports of one number (pr add's size() + 1).       *)
Numbered(l) == \A i \in DOMAIN l : l[i].id = i

LogIsNumbered == \A f \in Logs : Numbered(logs[f].list)

(* It is so because what an invocation is about to write is numbered too;  *)
(* and one that is about to change the hook has seen one it may change, or  *)
(* somebody has put another in its place since.                             *)
Inv ==
    /\ TypeOK
    /\ LogIsNumbered
    /\ \A p \in Procs : Numbered(proc[p].list)
    /\ \A p \in Procs : proc[p].at \in {"install", "remove"} =>
            proc[p].topic = "hook" /\ (hook = "theirs" => proc[p].stale)

(* As long as nothing came between the reading and the writing of a log and *)
(* no write of it died or failed unnoticed, every report and snapshot that  *)
(* was acknowledged is in it, a closed one closed, or is on its way there.  *)
CalmLogKeeps ==
    \A f \in Logs \ spoilt : \A a \in acked :
        a[1] = f =>
            \/ a[2] \in Range(logs[f].list)
            \/ \E p \in Procs : proc[p].at = "write" /\ proc[p].topic = f
                                   /\ a[2] \in Range(proc[p].list)

(* A hook of somebody else is not touched by install and remove, in any     *)
(* order and after any failure, but for one that was put there after the    *)
(* command had looked ("Don't overwrite a non-cpfusa hook").                *)
ForeignHookIsLeft ==
    [][hook = "theirs" /\ hook' # hook =>
        \/ begun' # begun
        \/ \E p \in Procs : proc[p].topic = "hook" /\ proc[p].stale /\ proc'[p] = Idle]_vars

(* The verdict is "valid" just if the last signature that was written whole *)
(* is of what the file and the key file hold now, as long as nothing came   *)
(* between the steps of one signing or verification (REQ-SIGN004, 005).     *)
VerdictIsOfTheSignature ==
    "sign" \notin spoilt /\ verdict # "none" =>
        (verdict = "valid" <=> signed = {<<target, key>>})

=============================================================================
