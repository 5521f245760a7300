--------------------------- MODULE Records_proofs ---------------------------
(***************************************************************************)
(* Proofs about module Records, for any number of invocations, any bound   *)
(* and any choice of topics: what the logs are numbered with, and that the *)
(* hook of somebody else is left alone.                                    *)
(***************************************************************************)
EXTENDS Records, SequenceTheorems, TLAPS

(* A numbered log stays one when add() puts the next report at its end.    *)
LEMMA AddNumbers ==
    ASSUME NEW l \in Seq(Entries), Numbered(l), begun \in Nat
    PROVE  /\ add(l, Entry(l)) \in Seq(Entries)
           /\ Numbered(add(l, Entry(l)))
<1>1. Entry(l) \in Entries /\ Entry(l).id = Len(l) + 1
  BY DEF Entry, new_id, Entries
<1>2. Append(l, Entry(l)) \in Seq(Entries) /\ DOMAIN Append(l, Entry(l)) = 1..(Len(l) + 1)
  BY <1>1
<1>3. ASSUME NEW i \in 1..(Len(l) + 1)
      PROVE  Append(l, Entry(l))[i].id = i
  <2>1. CASE i = Len(l) + 1
    BY <1>1, <2>1
  <2>2. CASE i # Len(l) + 1
    <3>1. i \in 1..Len(l)
      BY <2>2
    <3>2. Append(l, Entry(l))[i] = l[i] /\ l[i].id = i
      BY <3>1, <1>1 DEF Numbered
    <3>. QED
      BY <3>2
  <2>. QED
    BY <2>1, <2>2
<1>. QED
  BY <1>2, <1>3 DEF add, Numbered

(* Closing a report, which people do in the file, does not renumber it.    *)
LEMMA ClosingKeepsNumbers ==
    ASSUME NEW l \in Seq(Entries), Numbered(l), NEW i \in DOMAIN l
    PROVE  LET m == [l EXCEPT ![i].closed = TRUE]
           IN m \in Seq(Entries) /\ Numbered(m)
<1> DEFINE e == [l[i] EXCEPT !.closed = TRUE]
           m == [l EXCEPT ![i] = e]
<1>1. l[i] \in Entries /\ i \in 1..Len(l)
  OBVIOUS
<1>2. e \in Entries /\ e.id = l[i].id
  BY <1>1 DEF Entries
<1>3. m \in Seq(Entries) /\ DOMAIN m = DOMAIN l
  BY <1>1, <1>2
<1>4. \A j \in DOMAIN l : m[j].id = j
  BY <1>1, <1>2, <1>3 DEF Numbered
<1>. QED
  BY <1>3, <1>4 DEF Numbered

-----------------------------------------------------------------------------
(* An invocation that ends is idle and has read nothing.                   *)
LEMMA IdleIsFine ==
    Idle \in Steps /\ Numbered(Idle.list) /\ Idle.at = "idle"
BY DEF Idle, Steps, Places, Numbered, NoPair

THEOREM Initially == Init => Inv
<1> SUFFICES ASSUME Init PROVE Inv
  OBVIOUS
<1> USE DEF Init
<1>1. logs \in [Logs -> [is : {"missing", "torn", "read"}, list : Seq(Entries)]]
  BY DEF Missing
<1>2. hook \in Hooks
  BY DEF Hooks
<1>3. target \in Contents /\ key \in Keys /\ begun \in Nat
  BY DEF Contents, Keys
<1>4. proc \in [Procs -> Steps] /\ \A p \in Procs : proc[p] = Idle
  BY IdleIsFine
<1>5. LogIsNumbered
  BY DEF LogIsNumbered, Numbered, Missing
<1>. QED
  BY <1>1, <1>2, <1>3, <1>4, <1>5, IdleIsFine DEF Inv, TypeOK

(* One invocation takes a step to s; the logs and people's files are typed *)
(* and numbered, and the hook is not somebody else's where it was not.     *)
LEMMA OneMoves ==
    ASSUME Inv, NEW p \in Procs, NEW s \in Steps,
           proc' = [proc EXCEPT ![p] = s],
           Numbered(s.list),
           s.at \in {"install", "remove"} => s.topic = "hook" /\ hook # "theirs",
           logs' \in [Logs -> [is : {"missing", "torn", "read"}, list : Seq(Entries)]],
           \A f \in Logs : Numbered(logs'[f].list),
           hook' \in {hook} \cup (Hooks \ {"theirs"}),
           UNCHANGED <<target, key>>, begun' \in Nat
    PROVE  Inv'
<1>1. proc' \in [Procs -> Steps]
  BY DEF Inv, TypeOK
<1>2. TypeOK'
  BY <1>1 DEF Inv, TypeOK, Hooks
<1>3. LogIsNumbered'
  BY DEF LogIsNumbered
<1>4. \A q \in Procs : q # p => proc'[q] = proc[q]
  BY DEF Inv, TypeOK
<1>5. proc'[p] = s
  BY DEF Inv, TypeOK
<1>6. hook' = "theirs" => hook = "theirs"
  BY DEF Hooks
<1>7. \A q \in Procs : Numbered(proc'[q].list)
  BY <1>4, <1>5 DEF Inv
<1>8. \A q \in Procs : proc'[q].at \in {"install", "remove"} =>
            proc'[q].topic = "hook" /\ (hook' = "theirs" => proc'[q].stale)
  BY <1>4, <1>5, <1>6 DEF Inv
<1>. QED
  BY <1>2, <1>3, <1>7, <1>8 DEF Inv

(* The same for a step that ends the invocation.                           *)
LEMMA OneEnds ==
    ASSUME Inv, NEW p \in Procs, Finish(p),
           logs' \in [Logs -> [is : {"missing", "torn", "read"}, list : Seq(Entries)]],
           \A f \in Logs : Numbered(logs'[f].list),
           hook' \in {hook} \cup (Hooks \ {"theirs"}),
           UNCHANGED <<target, key, begun>>
    PROVE  Inv'
<1>1. proc' = [proc EXCEPT ![p] = Idle] /\ begun' \in Nat
  BY DEF Finish, Inv, TypeOK
<1>. QED
  BY <1>1, IdleIsFine, OneMoves

-----------------------------------------------------------------------------
(* Every operation preserves the invariant.                                *)

LEMMA LogsAreNumbered ==
    ASSUME Inv
    PROVE  /\ logs \in [Logs -> [is : {"missing", "torn", "read"}, list : Seq(Entries)]]
           /\ \A f \in Logs : logs[f].list \in Seq(Entries) /\ Numbered(logs[f].list)
           /\ \A p \in Procs : proc[p] \in Steps /\ proc[p].list \in Seq(Entries)
                                 /\ Numbered(proc[p].list)
BY DEF Inv, TypeOK, LogIsNumbered, Steps

\* What pr add and metrics record do: they append, and write or truncate.
LEMMA RecordStep ==
    ASSUME Inv, NEW p \in Procs,
           \/ \E f \in Logs : RecordLoad(p, f)
           \/ SaveOpen(p) \/ SaveRefused(p) \/ SaveWrite(p)
    PROVE  Inv'
<1>a. /\ logs \in [Logs -> [is : {"missing", "torn", "read"}, list : Seq(Entries)]]
      /\ \A f \in Logs : logs[f].list \in Seq(Entries) /\ Numbered(logs[f].list)
      /\ proc[p] \in Steps /\ proc[p].list \in Seq(Entries) /\ Numbered(proc[p].list)
  BY LogsAreNumbered
<1>0. begun \in Nat /\ hook \in Hooks /\ Logs \subseteq Topics
  BY DEF Inv, TypeOK, Logs
<1>1. ASSUME NEW f \in Logs, RecordLoad(p, f) PROVE Inv'
  <2> DEFINE l == logs[f].list
             s == [Idle EXCEPT !.at = "open", !.topic = f, !.list = add(l, Entry(l))]
  <2>1. add(l, Entry(l)) \in Seq(Entries) /\ Numbered(add(l, Entry(l)))
    BY <1>0, <1>a, AddNumbers
  <2>2. s \in Steps /\ s.list = add(l, Entry(l)) /\ s.at = "open"
    BY <1>0, <2>1 DEF Steps, Places, Idle
  <2>3. proc' = [proc EXCEPT ![p] = s]
    <3>1. load(logs[f]) = l
      BY DEF load
    <3>2. Begin(p, f, [Idle EXCEPT !.at = "open", !.topic = f,
                                   !.list = add(load(logs[f]), Entry(load(logs[f])))])
      BY <1>1, Zenon DEF RecordLoad
    <3>3. Begin(p, f, s)
      BY <3>1, <3>2, Zenon
    <3> HIDE DEF s
    <3>. QED
      BY <3>3, Zenon DEF Begin
  <2>4. begun' = begun + 1 /\ UNCHANGED <<logs, hook, target, key>>
    BY <1>1, Zenon DEF RecordLoad, Begin
  <2>5. begun' \in Nat
    BY <1>0, <2>4
  <2>6. Numbered(s.list)
    BY <2>1, <2>2, Zenon
  <2> HIDE DEF l, s
  <2>. QED
    BY <1>a, <1>0, <2>2, <2>3, <2>4, <2>5, <2>6, OneMoves
<1>2. CASE SaveOpen(p)
  <2> DEFINE f == proc[p].topic
             s == [proc[p] EXCEPT !.at = "write"]
  <2>1. s \in Steps /\ s.list = proc[p].list /\ s.at = "write"
    BY <1>a DEF Steps, Places
  <2>2. proc' = [proc EXCEPT ![p] = s]
    BY <1>2 DEF SaveOpen
  <2>3. logs' = [logs EXCEPT ![f] = Torn] /\ UNCHANGED <<hook, target, key, begun>>
    BY <1>2 DEF SaveOpen
  <2>4. Torn \in [is : {"missing", "torn", "read"}, list : Seq(Entries)] /\ Numbered(Torn.list)
    BY DEF Torn, Numbered
  <2>5. /\ logs' \in [Logs -> [is : {"missing", "torn", "read"}, list : Seq(Entries)]]
        /\ \A g \in Logs : Numbered(logs'[g].list)
    BY <1>a, <2>3, <2>4
  <2> HIDE DEF f, s
  <2>. QED
    BY <1>a, <1>0, <2>1, <2>2, <2>3, <2>5, OneMoves
<1>3. CASE SaveRefused(p)
  <2>1. Finish(p) /\ UNCHANGED <<logs, hook, target, key, begun>>
    BY <1>3 DEF SaveRefused
  <2>. QED
    BY <1>a, <2>1, OneEnds
<1>4. CASE SaveWrite(p)
  <2> DEFINE f == proc[p].topic
  <2>1. Finish(p) /\ UNCHANGED <<hook, target, key, begun>>
    BY <1>4 DEF SaveWrite
  <2>2. PICK left \in {File(proc[p].list), Torn} : logs' = [logs EXCEPT ![f] = left]
    BY <1>4 DEF SaveWrite
  <2>3. /\ left \in [is : {"missing", "torn", "read"}, list : Seq(Entries)]
        /\ Numbered(left.list)
    <3>1. CASE left = File(proc[p].list)
      BY <1>a, <3>1 DEF File
    <3>2. CASE left = Torn
      BY <3>2 DEF Torn, Numbered
    <3>. QED
      BY <2>2, <3>1, <3>2
  <2>4. /\ logs' \in [Logs -> [is : {"missing", "torn", "read"}, list : Seq(Entries)]]
        /\ \A g \in Logs : Numbered(logs'[g].list)
    BY <1>a, <2>2, <2>3
  <2>. QED
    BY <2>1, <2>4, OneEnds
<1>. QED
  BY <1>1, <1>2, <1>3, <1>4

\* People edit a file: every invocation stays where it is.
LEMMA PeopleStep ==
    ASSUME Inv, NEW topic,
           proc' = [p \in Procs |-> [proc[p] EXCEPT !.stale = @ \/ proc[p].topic = topic]],
           logs' \in [Logs -> [is : {"missing", "torn", "read"}, list : Seq(Entries)]],
           \A f \in Logs : Numbered(logs'[f].list),
           hook' \in Hooks, hook' = hook \/ topic = "hook",
           target' \in Contents, key' \in Keys, begun' = begun + 1
    PROVE  Inv'
<1>1. ASSUME NEW p \in Procs
      PROVE  /\ proc'[p] \in Steps
             /\ proc'[p].at = proc[p].at /\ proc'[p].topic = proc[p].topic
             /\ proc'[p].list = proc[p].list
             /\ proc[p].stale \/ proc[p].topic = topic => proc'[p].stale
  <2>1. proc[p] \in Steps
    BY DEF Inv, TypeOK
  <2>2. proc'[p] = [proc[p] EXCEPT !.stale = proc[p].stale \/ proc[p].topic = topic]
    OBVIOUS
  <2>3. PICK stale \in BOOLEAN : /\ stale <=> (proc[p].stale \/ proc[p].topic = topic)
                                 /\ proc'[p] = [proc[p] EXCEPT !.stale = stale]
    BY <2>2, Zenon
  <2>. QED
    BY <2>1, <2>3 DEF Steps
<1>2. TypeOK'
  <2>1. proc' = [p \in Procs |-> proc'[p]]
    OBVIOUS
  <2>2. proc' \in [Procs -> Steps]
    BY <1>1, <2>1, Zenon
  <2>3. begun \in Nat
    BY DEF Inv, TypeOK
  <2>4. begun' \in Nat
    BY <2>3
  <2>. QED
    BY <2>2, <2>4, Zenon DEF TypeOK
<1>3. LogIsNumbered'
  BY DEF LogIsNumbered
<1>4. \A p \in Procs : Numbered(proc'[p].list)
  BY <1>1 DEF Inv
<1>5. ASSUME NEW p \in Procs, proc'[p].at \in {"install", "remove"}
      PROVE  proc'[p].topic = "hook" /\ (hook' = "theirs" => proc'[p].stale)
  <2>1. proc[p].topic = "hook" /\ (hook = "theirs" => proc[p].stale)
    BY <1>1, <1>5 DEF Inv
  <2>. QED
    BY <2>1, <1>1
<1>. QED
  BY <1>2, <1>3, <1>4, <1>5 DEF Inv

\* A person closes a report.
LEMMA PeopleCloseStep ==
    ASSUME Inv, PeopleClose
    PROVE  Inv'
<1>1. PICK i \in DOMAIN logs["pr"].list :
        logs' = [logs EXCEPT !["pr"].list[i].closed = TRUE]
  BY Zenon DEF PeopleClose
<1> DEFINE m == [logs["pr"].list EXCEPT ![i].closed = TRUE]
<1>2. "pr" \in Logs
  BY DEF PeopleClose, Edit, Logs
<1>3. m \in Seq(Entries) /\ Numbered(m)
  BY <1>2, LogsAreNumbered, ClosingKeepsNumbers
<1>4. logs' = [logs EXCEPT !["pr"] = [logs["pr"] EXCEPT !.list = m]]
  BY <1>1, Zenon
<1> HIDE DEF m
<1>5. /\ logs' \in [Logs -> [is : {"missing", "torn", "read"}, list : Seq(Entries)]]
      /\ \A f \in Logs : Numbered(logs'[f].list)
  BY <1>2, <1>3, <1>4, LogsAreNumbered
<1>6. proc' = [q \in Procs |-> [proc[q] EXCEPT !.stale = @ \/ proc[q].topic = "pr"]]
  BY Zenon DEF PeopleClose, Edit
<1>7. UNCHANGED <<hook, target, key>> /\ begun' = begun + 1
  BY Zenon DEF PeopleClose, Edit
<1>8. hook \in Hooks /\ target \in Contents /\ key \in Keys
  BY DEF Inv, TypeOK
<1>. QED
  BY <1>5, <1>6, <1>7, <1>8, PeopleStep

\* A person changes the hook, or the file to sign or its key.
LEMMA PeopleOtherStep ==
    ASSUME Inv, PeopleHook \/ PeopleTarget
    PROVE  Inv'
<1>0. hook \in Hooks /\ target \in Contents /\ key \in Keys
  BY DEF Inv, TypeOK
<1>1. CASE PeopleHook
  <2>1. /\ proc' = [q \in Procs |-> [proc[q] EXCEPT !.stale = @ \/ proc[q].topic = "hook"]]
        /\ begun' = begun + 1 /\ UNCHANGED <<logs, target, key>>
    BY <1>1, Zenon DEF PeopleHook, Edit
  <2>2. hook' \in Hooks
    BY <1>1 DEF PeopleHook, Hooks
  <2>. QED
    BY <1>0, <2>1, <2>2, LogsAreNumbered, PeopleStep
<1>2. CASE PeopleTarget
  <2>1. /\ proc' = [q \in Procs |-> [proc[q] EXCEPT !.stale = @ \/ proc[q].topic = "sign"]]
        /\ begun' = begun + 1 /\ UNCHANGED <<logs, hook>>
    BY <1>2, Zenon DEF PeopleTarget, Edit
  <2>2. target' \in Contents /\ key' \in Keys
    BY <1>0, <1>2 DEF PeopleTarget
  <2>. QED
    BY <1>0, <2>1, <2>2, LogsAreNumbered, PeopleStep
<1>. QED
  BY <1>1, <1>2

\* Installing and removing the hook, signing and verifying, and dying.
LEMMA OtherStep ==
    ASSUME Inv, NEW p \in Procs,
           \/ InstallCheck(p) \/ InstallWrite(p) \/ RemoveCheck(p) \/ RemoveDelete(p)
           \/ SignRead(p) \/ SignWrite(p) \/ VerifyRead(p) \/ VerifyCompare(p)
           \/ Crash(p)
    PROVE  Inv'
<1>0. hook \in Hooks /\ target \in Contents /\ key \in Keys /\ begun \in Nat
  BY DEF Inv, TypeOK
<1>b. <<>> \in Seq(Entries)
  OBVIOUS
<1>1. ASSUME NEW s \in Steps, NEW topic, Begin(p, topic, s), s.list = <<>>,
             s.at \in {"install", "remove"} => s.topic = "hook" /\ hook # "theirs",
             UNCHANGED <<logs, hook, target, key>>
      PROVE  Inv'
  <2>1. proc' = [proc EXCEPT ![p] = s] /\ begun' = begun + 1
    BY <1>1, Zenon DEF Begin
  <2>2. Numbered(s.list)
    BY <1>1 DEF Numbered
  <2>3. begun' \in Nat
    BY <1>0, <2>1
  <2>. QED
    BY <1>0, <1>1, <2>1, <2>2, <2>3, LogsAreNumbered, OneMoves
<1>2. ASSUME Finish(p), UNCHANGED <<logs, target, key, begun>>,
             hook' \in {hook, "ours", "empty", "none"}
      PROVE  Inv'
  BY <1>2, LogsAreNumbered, OneEnds DEF Hooks
<1>3. CASE InstallCheck(p)
  <2> DEFINE s == [Idle EXCEPT !.at = "install", !.topic = "hook"]
  <2>1. Begin(p, "hook", s) /\ UNCHANGED <<logs, hook, target, key>>
    BY <1>3, Zenon DEF InstallCheck
  <2>2. hook # "theirs"
    BY <1>3 DEF InstallCheck, may_install
  <2>3. "hook" \in Topics
    BY <2>1, Zenon DEF Begin
  <2>4. s \in Steps /\ s.list = <<>> /\ s.topic = "hook"
    BY <1>b, <2>3 DEF Steps, Places, Idle
  <2> HIDE DEF s
  <2>. QED
    BY <1>1, <2>1, <2>2, <2>4
<1>4. CASE RemoveCheck(p)
  <2> DEFINE s == [Idle EXCEPT !.at = "remove", !.topic = "hook"]
  <2>1. Begin(p, "hook", s) /\ UNCHANGED <<logs, hook, target, key>>
    BY <1>4, Zenon DEF RemoveCheck
  <2>2. hook # "theirs"
    BY <1>4 DEF RemoveCheck
  <2>3. "hook" \in Topics
    BY <2>1, Zenon DEF Begin
  <2>4. s \in Steps /\ s.list = <<>> /\ s.topic = "hook"
    BY <1>b, <2>3 DEF Steps, Places, Idle
  <2> HIDE DEF s
  <2>. QED
    BY <1>1, <2>1, <2>2, <2>4
<1>5. ASSUME NEW at \in {"sign", "verify"},
             Begin(p, "sign", [Idle EXCEPT !.at = at, !.topic = "sign", !.pair = hmac_file(target, key)]),
             UNCHANGED <<logs, hook, target, key>>
      PROVE  Inv'
  <2> DEFINE s == [Idle EXCEPT !.at = at, !.topic = "sign", !.pair = hmac_file(target, key)]
  <2>1. "sign" \in Topics
    BY <1>5, Zenon DEF Begin
  <2>2. hmac_file(target, key) \in Contents \X Keys
    BY <1>0 DEF hmac_file
  <2>3. s \in Steps /\ s.list = <<>> /\ s.at \notin {"install", "remove"}
    BY <1>5, <1>b, <2>1, <2>2 DEF Steps, Places, Idle
  <2>4. Begin(p, "sign", s)
    BY <1>5
  <2> HIDE DEF s
  <2>. QED
    BY <1>1, <1>5, <2>3, <2>4
<1>6. CASE SignRead(p)
  BY <1>5, <1>6, Zenon DEF SignRead
<1>7. CASE VerifyRead(p)
  BY <1>5, <1>7, Zenon DEF VerifyRead
<1>8. CASE InstallWrite(p)
  BY <1>2, <1>8 DEF InstallWrite
<1>9. CASE RemoveDelete(p)
  BY <1>2, <1>9 DEF RemoveDelete
<1>10. CASE SignWrite(p) \/ VerifyCompare(p) \/ Crash(p)
  BY <1>2, <1>10, Zenon DEF SignWrite, VerifyCompare, Crash
<1>. QED
  BY <1>3, <1>4, <1>6, <1>7, <1>8, <1>9, <1>10

-----------------------------------------------------------------------------
(* The invariant: in every log that can be read the number of a report is   *)
(* its place, whichever invocations overlapped, failed or died.             *)
THEOREM Invariance == Spec => []Inv
<1>1. Inv /\ [Next]_vars => Inv'
  <2> SUFFICES ASSUME Inv, [Next]_vars PROVE Inv'
    OBVIOUS
  <2>1. ASSUME NEW p \in Procs,
               \/ \E f \in Logs : RecordLoad(p, f)
               \/ SaveOpen(p) \/ SaveRefused(p) \/ SaveWrite(p)
        PROVE  Inv'
    BY <2>1, RecordStep
  <2>2. ASSUME NEW p \in Procs,
               \/ InstallCheck(p) \/ InstallWrite(p) \/ RemoveCheck(p) \/ RemoveDelete(p)
               \/ SignRead(p) \/ SignWrite(p) \/ VerifyRead(p) \/ VerifyCompare(p)
               \/ Crash(p)
        PROVE  Inv'
    BY <2>2, OtherStep
  <2>3. CASE PeopleClose \/ PeopleHook \/ PeopleTarget
    BY <2>3, PeopleCloseStep, PeopleOtherStep
  <2>4. CASE UNCHANGED vars
    BY <2>4 DEF vars, Inv, TypeOK, LogIsNumbered
  <2>. QED
    BY <2>1, <2>2, <2>3, <2>4, Zenon DEF Next
<1>. QED
  BY Initially, <1>1, PTL DEF Spec

(* No log that can be read holds two reports of one number.                *)
THEOREM NumbersAreUnique ==
    Spec => [](\A f \in Logs : \A i, j \in DOMAIN logs[f].list :
                    logs[f].list[i].id = logs[f].list[j].id => i = j)
<1>1. Inv => \A f \in Logs : \A i, j \in DOMAIN logs[f].list :
                    logs[f].list[i].id = logs[f].list[j].id => i = j
  BY DEF Inv, LogIsNumbered, Numbered
<1>. QED
  BY Invariance, <1>1, PTL

(* A foreign hook is touched only by its owner, or by a command that had    *)
(* looked before it was put there.                                          *)
THEOREM ForeignHooksAreLeft == Spec => ForeignHookIsLeft
<1> DEFINE Left == hook = "theirs" /\ hook' # hook =>
                    \/ begun' # begun
                    \/ \E p \in Procs : proc[p].topic = "hook" /\ proc[p].stale /\ proc'[p] = Idle
<1>1. Inv /\ [Next]_vars => Left \/ UNCHANGED vars
  <2> SUFFICES ASSUME Inv, Next, hook = "theirs", hook' # hook, begun' = begun
               PROVE  \E p \in Procs : proc[p].topic = "hook" /\ proc[p].stale /\ proc'[p] = Idle
    BY Zenon
  <2>1. ASSUME NEW p \in Procs, proc[p].at \in {"install", "remove"}, Finish(p)
        PROVE  proc[p].topic = "hook" /\ proc[p].stale /\ proc'[p] = Idle
    BY <2>1 DEF Inv, TypeOK, Finish
  <2>2. ASSUME NEW p \in Procs, InstallWrite(p) \/ RemoveDelete(p)
        PROVE  proc[p].at \in {"install", "remove"} /\ Finish(p)
    BY <2>2, Zenon DEF InstallWrite, RemoveDelete
  <2>3. ~PeopleClose /\ ~PeopleHook /\ ~PeopleTarget
    <3>1. begun \in Nat
      BY DEF Inv, TypeOK
    <3>2. begun' # begun + 1
      BY <3>1
    <3>. QED
      BY <3>2, Zenon DEF PeopleClose, PeopleHook, PeopleTarget, Edit
  <2>4. ASSUME NEW p \in Procs,
               \/ \E f \in Logs : RecordLoad(p, f)
               \/ SaveOpen(p) \/ SaveRefused(p) \/ SaveWrite(p)
               \/ InstallCheck(p) \/ RemoveCheck(p)
               \/ SignRead(p) \/ SignWrite(p) \/ VerifyRead(p) \/ VerifyCompare(p)
               \/ Crash(p)
        PROVE  FALSE
    BY <2>4, Zenon DEF RecordLoad, SaveOpen, SaveRefused, SaveWrite, InstallCheck, RemoveCheck,
        SignRead, SignWrite, VerifyRead, VerifyCompare, Crash
  <2>. QED
    BY <2>1, <2>2, <2>3, <2>4, Zenon DEF Next
<1>. QED
  BY Invariance, <1>1, PTL DEF Spec, ForeignHookIsLeft

-----------------------------------------------------------------------------
(* Signing.  As long as no two steps of it came across each other, who is  *)
(* in the midst of it has read what the files hold now, and what is known  *)
(* of the signature file is what it holds.                                 *)

Signing(p) == proc[p].at \in {"sign", "verify"}

SignatureFollows ==
    "sign" \notin spoilt =>
        /\ \A p \in Procs : Signing(p) =>
               proc[p].topic = "sign" /\ ~proc[p].stale /\ proc[p].pair = <<target, key>>
        /\ \/ signed = {} /\ sig \in {NoPair, <<"torn", "torn">>}
           \/ signed = {sig} /\ sig \in Contents \X Keys
        /\ verdict # "none" => (verdict = "valid" <=> signed = {<<target, key>>})

(* What is neither signing nor an edit of what is signed keeps it.         *)
LEMMA OthersKeepSignature ==
    ASSUME SignatureFollows, "sign" \notin spoilt' => "sign" \notin spoilt,
           UNCHANGED <<target, key, sig, signed, verdict>>,
           "sign" \notin spoilt' => \A p \in Procs : Signing(p)' =>
               /\ Signing(p) /\ proc'[p].topic = proc[p].topic
               /\ proc'[p].pair = proc[p].pair /\ (proc'[p].stale => proc[p].stale)
    PROVE  SignatureFollows'
BY DEF SignatureFollows

\* A command that is not signing moves, or one that is ends.
LEMMA OneKeepsSignature ==
    ASSUME Inv, SignatureFollows, NEW p \in Procs, NEW s,
           proc' = [proc EXCEPT ![p] = s], s.at \notin {"sign", "verify"},
           spoilt \subseteq spoilt', UNCHANGED <<target, key, sig, signed, verdict>>
    PROVE  SignatureFollows'
<1>1. proc'[p] = s /\ \A q \in Procs : q # p => proc'[q] = proc[q]
  BY DEF Inv, TypeOK
<1>2. \A q \in Procs : Signing(q)' => proc'[q] = proc[q]
  BY <1>1 DEF Signing
<1>3. \A q \in Procs : Signing(q)' => Signing(q)
  BY <1>2 DEF Signing
<1>. QED
  BY <1>2, <1>3, OthersKeepSignature

(* An edit makes stale what has been read of its topic, and spoils that.   *)
LEMMA EditKeeps ==
    ASSUME Inv, NEW topic, Edit(topic)
    PROVE  /\ spoilt \subseteq spoilt'
           /\ \A p \in Procs :
                  /\ proc'[p].at = proc[p].at /\ proc'[p].topic = proc[p].topic
                  /\ proc'[p].pair = proc[p].pair /\ proc'[p].list = proc[p].list
                  /\ proc[p].topic # topic => (proc'[p].stale => proc[p].stale)
                  /\ proc[p].topic = topic => topic \in spoilt'
<1>1. spoilt \subseteq spoilt' /\ \A p \in Procs : proc[p].topic = topic => topic \in spoilt'
  BY Zenon DEF Edit
<1>2. ASSUME NEW p \in Procs
      PROVE  /\ proc'[p].at = proc[p].at /\ proc'[p].topic = proc[p].topic
             /\ proc'[p].pair = proc[p].pair /\ proc'[p].list = proc[p].list
             /\ proc[p].topic # topic => (proc'[p].stale => proc[p].stale)
  <2>1. proc[p] \in Steps
    BY DEF Inv, TypeOK
  <2>2. proc'[p] = [proc[p] EXCEPT !.stale = proc[p].stale \/ proc[p].topic = topic]
    BY Zenon DEF Edit
  <2>3. PICK stale \in BOOLEAN : /\ stale <=> (proc[p].stale \/ proc[p].topic = topic)
                                 /\ proc'[p] = [proc[p] EXCEPT !.stale = stale]
    BY <2>2, Zenon
  <2>. QED
    BY <2>1, <2>3 DEF Steps
<1>. QED
  BY <1>1, <1>2

LEMMA PeopleKeepSignature ==
    ASSUME Inv, SignatureFollows, PeopleClose \/ PeopleHook \/ PeopleTarget
    PROVE  SignatureFollows'
<1>1. ASSUME NEW topic \in {"pr", "hook"}, Edit(topic),
             UNCHANGED <<target, key, sig, signed, verdict>>
      PROVE  SignatureFollows'
  <2>1. ASSUME "sign" \notin spoilt', NEW p \in Procs, Signing(p)'
        PROVE  /\ Signing(p) /\ proc'[p].topic = proc[p].topic
               /\ proc'[p].pair = proc[p].pair /\ (proc'[p].stale => proc[p].stale)
    <3>1. Signing(p)
      BY <1>1, <2>1, EditKeeps DEF Signing
    <3>2. "sign" \notin spoilt
      BY <1>1, <2>1, EditKeeps
    <3>3. proc[p].topic = "sign"
      BY <3>1, <3>2 DEF SignatureFollows
    <3>. QED
      BY <1>1, <3>1, <3>3, EditKeeps
  <2>2. spoilt \subseteq spoilt'
    BY <1>1, EditKeeps
  <2>. QED
    BY <1>1, <2>1, <2>2, OthersKeepSignature
<1>2. CASE PeopleClose
  BY <1>1, <1>2, Zenon DEF PeopleClose
<1>3. CASE PeopleHook
  BY <1>1, <1>3, Zenon DEF PeopleHook
<1>4. CASE PeopleTarget
  <2>1. Edit("sign") /\ verdict' = "none" /\ sig' = sig /\ signed' = signed
    BY <1>4, Zenon DEF PeopleTarget
  <2>2. ASSUME "sign" \notin spoilt', NEW p \in Procs PROVE ~Signing(p)'
    <3>1. "sign" \notin spoilt /\ proc[p].topic # "sign" /\ proc'[p].at = proc[p].at
      BY <2>1, <2>2, EditKeeps
    <3>. QED
      BY <3>1 DEF SignatureFollows, Signing
  <2>3. spoilt \subseteq spoilt'
    BY <2>1, EditKeeps
  <2>. QED
    BY <2>1, <2>2, <2>3 DEF SignatureFollows
<1>. QED
  BY <1>2, <1>3, <1>4

\* Reading what is signed, and writing or comparing the signature.
LEMMA SigningStep ==
    ASSUME Inv, SignatureFollows, NEW p \in Procs,
           SignRead(p) \/ SignWrite(p) \/ VerifyRead(p) \/ VerifyCompare(p)
    PROVE  SignatureFollows'
<1>0. target \in Contents /\ key \in Keys
  BY DEF Inv, TypeOK
<1>1. ASSUME NEW at \in {"sign", "verify"},
             Begin(p, "sign", [Idle EXCEPT !.at = at, !.topic = "sign", !.pair = hmac_file(target, key)]),
             UNCHANGED <<target, key, sig, signed, verdict>>
      PROVE  SignatureFollows'
  <2> DEFINE s == [Idle EXCEPT !.at = at, !.topic = "sign", !.pair = hmac_file(target, key)]
  <2>1. s.topic = "sign" /\ ~s.stale /\ s.pair = <<target, key>>
    BY DEF Idle, hmac_file
  <2>2. Begin(p, "sign", s)
    BY <1>1
  <2> HIDE DEF s
  <2>3. proc' = [proc EXCEPT ![p] = s] /\ spoilt \subseteq spoilt'
    BY <2>2, Zenon DEF Begin
  <2>4. proc'[p] = s /\ \A q \in Procs : q # p => proc'[q] = proc[q]
    BY <2>3 DEF Inv, TypeOK
  <2>5. ASSUME "sign" \notin spoilt, NEW q \in Procs, Signing(q)'
        PROVE  proc'[q].topic = "sign" /\ ~proc'[q].stale /\ proc'[q].pair = <<target, key>>
    <3>1. CASE q = p
      BY <2>1, <2>4, <3>1
    <3>2. CASE q # p
      <4>1. proc'[q] = proc[q] /\ Signing(q)
        BY <2>4, <2>5, <3>2 DEF Signing
      <4>. QED
        BY <2>5, <4>1 DEF SignatureFollows
    <3>. QED
      BY <3>1, <3>2
  <2>. QED
    BY <1>1, <2>3, <2>5 DEF SignatureFollows
<1>2. CASE SignRead(p)
  BY <1>1, <1>2, Zenon DEF SignRead
<1>3. CASE VerifyRead(p)
  BY <1>1, <1>3, Zenon DEF VerifyRead
<1>4. ASSUME Finish(p), UNCHANGED <<target, key, spoilt>>
      PROVE  /\ \A q \in Procs : Signing(q)' => Signing(q) /\ proc'[q] = proc[q]
  <2>1. proc' = [proc EXCEPT ![p] = Idle]
    BY <1>4, Zenon DEF Finish
  <2>2. Idle.at = "idle"
    BY DEF Idle
  <2>3. proc'[p] = Idle /\ \A q \in Procs : q # p => proc'[q] = proc[q]
    BY <2>1 DEF Inv, TypeOK
  <2>. QED
    BY <2>2, <2>3 DEF Signing
<1>5. ASSUME "sign" \notin spoilt, Signing(p)
      PROVE  ~proc[p].stale /\ proc[p].pair = <<target, key>>
  BY <1>5 DEF SignatureFollows
<1>6. CASE SignWrite(p)
  <2>1. Finish(p) /\ UNCHANGED <<target, key, spoilt>> /\ Signing(p) /\ verdict' = "none"
    BY <1>6, Zenon DEF SignWrite, Signing
  <2>2. ASSUME "sign" \notin spoilt
        PROVE  \/ signed' = {} /\ sig' \in {NoPair, <<"torn", "torn">>}
               \/ signed' = {sig'} /\ sig' \in Contents \X Keys
    <3>1. PICK done \in {sig, <<"torn", "torn">>, proc[p].pair} :
            /\ sig' = done
            /\ signed' = CASE done = proc[p].pair /\ ~proc[p].stale -> {<<target, key>>}
                           [] done = sig -> signed
                           [] OTHER -> {}
      BY <1>6, Zenon DEF SignWrite
    <3>2. ~proc[p].stale /\ proc[p].pair = <<target, key>>
      BY <2>1, <2>2, <1>5
    <3>3. CASE done = <<target, key>>
      <4>1. signed' = {<<target, key>>}
        <5>1. done = proc[p].pair /\ ~proc[p].stale
          BY <3>2, <3>3
        <5>2. done = sig => sig = <<target, key>>
          BY <3>3
        <5>3. sig = <<target, key>> => signed = {<<target, key>>}
          BY <1>0, <2>2 DEF SignatureFollows, NoPair, Contents, Keys
        <5>. QED
          BY <3>1, <5>1, <5>2, <5>3
      <4>. QED
        BY <1>0, <3>1, <3>3, <4>1
    <3>4. CASE done # <<target, key>> /\ done = sig
      <4>1. signed' = signed
        BY <3>1, <3>2, <3>4
      <4>. QED
        BY <2>2, <3>1, <3>4, <4>1 DEF SignatureFollows
    <3>5. CASE done # <<target, key>> /\ done # sig
      <4>1. signed' = {} /\ done = <<"torn", "torn">>
        BY <3>1, <3>2, <3>5
      <4>. QED
        BY <3>1, <4>1
    <3>. QED
      BY <3>3, <3>4, <3>5
  <2>. QED
    BY <1>4, <2>1, <2>2 DEF SignatureFollows
<1>7. CASE VerifyCompare(p)
  <2>1. /\ Finish(p) /\ UNCHANGED <<target, key, sig, signed, spoilt>> /\ Signing(p)
        /\ verdict' = IF sig = proc[p].pair THEN "valid" ELSE "invalid"
    BY <1>7, Zenon DEF VerifyCompare, Signing
  <2>2. ASSUME "sign" \notin spoilt PROVE verdict' = "valid" <=> signed = {<<target, key>>}
    <3>1. proc[p].pair = <<target, key>>
      BY <2>1, <2>2, <1>5
    <3>2. \/ signed = {} /\ sig \in {NoPair, <<"torn", "torn">>}
          \/ signed = {sig}
      BY <2>2 DEF SignatureFollows
    <3>3. <<target, key>> \notin {NoPair, <<"torn", "torn">>}
      BY <1>0 DEF NoPair, Contents, Keys
    <3>4. sig = <<target, key>> <=> signed = {<<target, key>>}
      BY <3>2, <3>3, Zenon
    <3>. QED
      BY <2>1, <3>1, <3>4
  <2>. QED
    BY <1>4, <2>1, <2>2 DEF SignatureFollows
<1>. QED
  BY <1>2, <1>3, <1>6, <1>7

LEMMA CommandKeepsSignature ==
    ASSUME Inv, SignatureFollows, NEW p \in Procs,
           \/ \E f \in Logs : RecordLoad(p, f)
           \/ SaveOpen(p) \/ SaveRefused(p) \/ SaveWrite(p)
           \/ InstallCheck(p) \/ InstallWrite(p) \/ RemoveCheck(p) \/ RemoveDelete(p)
           \/ Crash(p)
    PROVE  SignatureFollows'
<1>0. Idle.at = "idle"
  BY DEF Idle
<1>1. ASSUME NEW topic, NEW s, Begin(p, topic, s), s.at \notin {"sign", "verify"},
             UNCHANGED <<target, key, sig, signed, verdict>>
      PROVE  SignatureFollows'
  <2>1. proc' = [proc EXCEPT ![p] = s] /\ spoilt \subseteq spoilt'
    BY <1>1, Zenon DEF Begin
  <2>. QED
    BY <1>1, <2>1, OneKeepsSignature
<1>2. ASSUME Finish(p), spoilt \subseteq spoilt', UNCHANGED <<target, key, sig, signed, verdict>>
      PROVE  SignatureFollows'
  <2>1. proc' = [proc EXCEPT ![p] = Idle]
    BY <1>2, Zenon DEF Finish
  <2>. QED
    BY <1>0, <1>2, <2>1, OneKeepsSignature
<1>3. ASSUME NEW f \in Logs, RecordLoad(p, f) PROVE SignatureFollows'
  <2> DEFINE s == [Idle EXCEPT !.at = "open", !.topic = f,
                               !.list = add(load(logs[f]), Entry(load(logs[f])))]
  <2>1. s.at = "open"
    BY DEF Idle
  <2>2. Begin(p, f, s) /\ UNCHANGED <<target, key, sig, signed, verdict>>
    BY <1>3, Zenon DEF RecordLoad
  <2> HIDE DEF s
  <2>. QED
    BY <1>1, <2>1, <2>2
<1>4. CASE SaveOpen(p)
  <2> DEFINE s == [proc[p] EXCEPT !.at = "write"]
  <2>1. s.at = "write"
    BY DEF Inv, TypeOK, Steps
  <2>2. proc' = [proc EXCEPT ![p] = s] /\ UNCHANGED <<target, key, sig, signed, verdict, spoilt>>
    BY <1>4 DEF SaveOpen
  <2> HIDE DEF s
  <2>. QED
    BY <2>1, <2>2, OneKeepsSignature
<1>5. CASE SaveRefused(p) \/ SaveWrite(p) \/ InstallWrite(p) \/ RemoveDelete(p) \/ Crash(p)
  BY <1>2, <1>5, Zenon DEF SaveRefused, SaveWrite, InstallWrite, RemoveDelete, Crash
<1>6. ASSUME NEW at \in {"install", "remove"}, Begin(p, "hook", [Idle EXCEPT !.at = at, !.topic = "hook"]),
             UNCHANGED <<target, key, sig, signed, verdict>>
      PROVE  SignatureFollows'
  <2> DEFINE s == [Idle EXCEPT !.at = at, !.topic = "hook"]
  <2>1. s.at = at
    BY DEF Idle
  <2>2. Begin(p, "hook", s)
    BY <1>6
  <2> HIDE DEF s
  <2>. QED
    BY <1>1, <1>6, <2>1, <2>2
<1>7. CASE InstallCheck(p) \/ RemoveCheck(p)
  BY <1>6, <1>7, Zenon DEF InstallCheck, RemoveCheck
<1>. QED
  BY <1>3, <1>4, <1>5, <1>7

(* Verification says "valid" just if the last signature that was written   *)
(* whole is of what the file and the key file hold now, for any number of  *)
(* invocations, as long as no two steps of signing came across.            *)
THEOREM VerdictsAreOfTheSignature == Spec => []VerdictIsOfTheSignature
<1>1. Init => SignatureFollows
  BY DEF Init, SignatureFollows, Signing, Idle
<1>2. Inv /\ SignatureFollows /\ [Next]_vars => SignatureFollows'
  <2> SUFFICES ASSUME Inv, SignatureFollows, [Next]_vars PROVE SignatureFollows'
    OBVIOUS
  <2>1. ASSUME NEW p \in Procs,
               SignRead(p) \/ SignWrite(p) \/ VerifyRead(p) \/ VerifyCompare(p)
        PROVE  SignatureFollows'
    BY <2>1, SigningStep
  <2>2. ASSUME NEW p \in Procs,
               \/ \E f \in Logs : RecordLoad(p, f)
               \/ SaveOpen(p) \/ SaveRefused(p) \/ SaveWrite(p)
               \/ InstallCheck(p) \/ InstallWrite(p) \/ RemoveCheck(p) \/ RemoveDelete(p)
               \/ Crash(p)
        PROVE  SignatureFollows'
    BY <2>2, CommandKeepsSignature
  <2>3. CASE PeopleClose \/ PeopleHook \/ PeopleTarget
    BY <2>3, PeopleKeepSignature
  <2>4. CASE UNCHANGED vars
    BY <2>4 DEF vars, SignatureFollows, Signing
  <2>. QED
    BY <2>1, <2>2, <2>3, <2>4, Zenon DEF Next
<1>3. SignatureFollows => VerdictIsOfTheSignature
  BY DEF SignatureFollows, VerdictIsOfTheSignature
<1>. QED
  BY Invariance, <1>1, <1>2, <1>3, PTL DEF Spec

-----------------------------------------------------------------------------
(* The growing logs.  As long as nothing came between the steps of a save, *)
(* one invocation at most is about to save a log, it has read what the log *)
(* holds, and what was acknowledged is in the log or in its hands.         *)

LogFollows(f) ==
    f \notin spoilt =>
        /\ \A p, q \in Procs : proc[p].topic = f /\ proc[q].topic = f => p = q
        /\ \A a \in acked : a[1] = f => a = <<f, a[2]>>
        /\ \A p \in Procs : proc[p].topic = f =>
               /\ proc[p].at \in {"open", "write"} /\ proc[p].list # <<>>
               /\ proc[p].at = "open" => Range(logs[f].list) \subseteq Range(proc[p].list)
               /\ proc[p].at = "write" =>
                      /\ logs[f] = Torn
                      /\ \A a \in acked : a[1] = f => a[2] \in Range(proc[p].list)
        /\ (\A p \in Procs : proc[p].topic = f => proc[p].at # "write") =>
               \A a \in acked : a[1] = f => a[2] \in Range(logs[f].list)

LEMMA AppendKeeps ==
    ASSUME NEW l \in Seq(Entries), NEW e \in Entries
    PROVE  /\ Range(l) \subseteq Range(add(l, e)) /\ add(l, e) # <<>>
<1>1. /\ Len(Append(l, e)) = Len(l) + 1 /\ Len(l) \in Nat
      /\ \A i \in 1..Len(l) : Append(l, e)[i] = l[i]
  OBVIOUS
<1>2. DOMAIN l = 1..Len(l) /\ DOMAIN Append(l, e) = 1..(Len(l) + 1)
  OBVIOUS
<1>3. Range(l) \subseteq Range(Append(l, e))
  BY <1>1, <1>2 DEF Range
<1>4. Append(l, e) # <<>>
  BY <1>1
<1>. QED
  BY <1>3, <1>4 DEF add

LEMMA LastIsIn ==
    ASSUME NEW l \in Seq(Entries), l # <<>>
    PROVE  Last(l) \in Range(l)
<1>1. Len(l) \in DOMAIN l
  OBVIOUS
<1>. QED
  BY <1>1 DEF Last, Range

\* What does not concern the log keeps it.
LEMMA OthersKeepLog ==
    ASSUME NEW f \in Logs, LogFollows(f), f \notin spoilt' => f \notin spoilt,
           logs'[f] = logs[f], \A a \in acked' : a[1] = f => a \in acked,
           f \notin spoilt' => \A p \in Procs :
               /\ proc'[p].topic = f => /\ proc[p].topic = f /\ proc'[p].at = proc[p].at
                                        /\ proc'[p].list = proc[p].list
               /\ proc[p].topic = f /\ proc[p].at = "write" =>
                      proc'[p].topic = f /\ proc'[p].at = "write"
    PROVE  LogFollows(f)'
BY DEF LogFollows

\* A command begins, ends or goes on in what is not the saving of the log.
LEMMA OneKeepsLog ==
    ASSUME Inv, NEW f \in Logs, LogFollows(f), NEW p \in Procs, NEW s,
           proc' = [proc EXCEPT ![p] = s], s.topic # f,
           proc[p].topic = f /\ proc[p].at = "write" => f \in spoilt',
           spoilt \subseteq spoilt', logs'[f] = logs[f],
           \A a \in acked' : a[1] = f => a \in acked
    PROVE  LogFollows(f)'
<1>1. proc'[p] = s /\ \A q \in Procs : q # p => proc'[q] = proc[q]
  BY DEF Inv, TypeOK
<1>2. ASSUME f \notin spoilt', NEW q \in Procs
      PROVE  /\ proc'[q].topic = f => proc'[q] = proc[q]
             /\ proc[q].topic = f /\ proc[q].at = "write" => proc'[q] = proc[q]
  BY <1>1, <1>2
<1>3. f \notin spoilt' => f \notin spoilt
  OBVIOUS
<1> HIDE DEF LogFollows
<1>4. f \notin spoilt' => \A q \in Procs :
               /\ proc'[q].topic = f => /\ proc[q].topic = f /\ proc'[q].at = proc[q].at
                                        /\ proc'[q].list = proc[q].list
               /\ proc[q].topic = f /\ proc[q].at = "write" =>
                      proc'[q].topic = f /\ proc'[q].at = "write"
  BY <1>2
<1>. QED
  BY <1>3, <1>4, OthersKeepLog

\* pr add and metrics record.
LEMMA RecordKeepsLogs ==
    ASSUME Inv, NEW f \in Logs, LogFollows(f), NEW p \in Procs,
           \/ \E g \in Logs : RecordLoad(p, g)
           \/ SaveOpen(p) \/ SaveRefused(p) \/ SaveWrite(p)
    PROVE  LogFollows(f)'
<1>0. /\ logs \in [Logs -> [is : {"missing", "torn", "read"}, list : Seq(Entries)]]
      /\ logs[f].list \in Seq(Entries) /\ proc[p] \in Steps /\ proc[p].list \in Seq(Entries)
      /\ begun \in Nat /\ f # "none"
  BY LogsAreNumbered DEF Inv, TypeOK, Logs
<1>i. Idle.topic = "none" /\ Idle.at = "idle"
  BY DEF Idle
<1>1. ASSUME NEW g \in Logs, RecordLoad(p, g) PROVE LogFollows(f)'
  <2> DEFINE l == logs[g].list
             s == [Idle EXCEPT !.at = "open", !.topic = g, !.list = add(l, Entry(l))]
  <2>1. s.at = "open" /\ s.topic = g /\ s.list = add(l, Entry(l))
    BY DEF Idle
  <2>2. Begin(p, g, s) /\ UNCHANGED <<logs, acked>>
    BY <1>1, Zenon DEF RecordLoad, load
  <2> HIDE DEF s
  <2>3. /\ proc' = [proc EXCEPT ![p] = s] /\ proc[p].at = "idle" /\ spoilt \subseteq spoilt'
        /\ g \notin spoilt' => \A q \in Procs : q # p => proc[q].topic # g
    BY <2>2, Zenon DEF Begin, Busy
  <2>4. CASE g # f
    BY <2>1, <2>2, <2>3, <2>4, OneKeepsLog
  <2>5. CASE g = f
    <3>1. Entry(l) \in Entries
      BY <1>0, <2>5 DEF Entry, new_id, Entries
    <3>2. Range(l) \subseteq Range(s.list) /\ s.list # <<>>
      BY <1>0, <2>1, <2>5, <3>1, AppendKeeps
    <3>3. proc'[p] = s /\ \A q \in Procs : q # p => proc'[q] = proc[q]
      BY <2>3 DEF Inv, TypeOK
    <3> SUFFICES ASSUME f \notin spoilt' PROVE LogFollows(f)'
      BY DEF LogFollows
    <3>4. \A q \in Procs : proc'[q].topic = f => q = p
      BY <2>3, <2>5, <3>3
    <3>5. f \notin spoilt /\ \A q \in Procs : proc[q].topic # f
      <4>1. f \notin spoilt
        BY <2>3
      <4>2. proc[p].topic # f
        BY <2>3, <4>1 DEF LogFollows
      <4>. QED
        BY <2>3, <2>5, <4>1, <4>2
    <3>6. \A a \in acked : a[1] = f => a[2] \in Range(logs[f].list) /\ a = <<f, a[2]>>
      BY <3>5 DEF LogFollows
    <3>. QED
      BY <2>1, <2>2, <2>5, <3>2, <3>3, <3>4, <3>6 DEF LogFollows
  <2>. QED
    BY <2>4, <2>5
<1>2. CASE SaveOpen(p)
  <2> DEFINE s == [proc[p] EXCEPT !.at = "write"]
  <2>1. s.at = "write" /\ s.topic = proc[p].topic /\ s.list = proc[p].list
    BY <1>0 DEF Steps
  <2>2. /\ proc' = [proc EXCEPT ![p] = s] /\ proc[p].at = "open"
        /\ logs' = [logs EXCEPT ![proc[p].topic] = Torn] /\ UNCHANGED <<acked, spoilt>>
    BY <1>2 DEF SaveOpen
  <2> HIDE DEF s
  <2>3. CASE proc[p].topic # f
    <3>1. logs'[f] = logs[f]
      BY <1>0, <2>2, <2>3
    <3>. QED
      BY <2>1, <2>2, <2>3, <3>1, OneKeepsLog
  <2>4. CASE proc[p].topic = f
    <3>1. proc'[p] = s /\ \A q \in Procs : q # p => proc'[q] = proc[q]
      BY <2>2 DEF Inv, TypeOK
    <3>2. logs'[f] = Torn
      BY <1>0, <2>2, <2>4
    <3> SUFFICES ASSUME f \notin spoilt PROVE LogFollows(f)'
      BY <2>2 DEF LogFollows
    <3>3. \A q \in Procs : proc'[q].topic = f <=> q = p
      BY <2>1, <2>4, <3>1 DEF LogFollows
    <3>4. proc[p].list # <<>> /\ Range(logs[f].list) \subseteq Range(proc[p].list)
      BY <2>2, <2>4 DEF LogFollows
    <3>5. \A q \in Procs : proc[q].topic = f => proc[q].at # "write"
      BY <2>2, <2>4 DEF LogFollows
    <3>6. \A a \in acked : a[1] = f => a[2] \in Range(logs[f].list) /\ a = <<f, a[2]>>
      BY <3>5 DEF LogFollows
    <3>. QED
      BY <2>1, <2>2, <3>1, <3>2, <3>3, <3>4, <3>6 DEF LogFollows
  <2>. QED
    BY <2>3, <2>4
<1>3. CASE SaveRefused(p)
  <2>1. /\ proc' = [proc EXCEPT ![p] = Idle] /\ proc[p].at = "open" /\ logs' = logs
        /\ spoilt' = IF proc[p].topic = "metrics" THEN spoilt \cup {proc[p].topic} ELSE spoilt
        /\ acked' = IF proc[p].topic = "metrics"
                      THEN acked \cup {<<proc[p].topic, Last(proc[p].list)>>} ELSE acked
    BY <1>3, Zenon DEF SaveRefused, Finish
  <2>2. CASE proc[p].topic = "metrics" /\ f = "metrics"
    BY <2>1, <2>2 DEF LogFollows
  <2>3. CASE ~(proc[p].topic = "metrics" /\ f = "metrics")
    <3>1. \A a \in acked' : a[1] = f => a \in acked
      BY <2>1, <2>3
    <3>2. spoilt \subseteq spoilt'
      BY <2>1
    <3>. QED
      BY <1>0, <1>i, <2>1, <3>1, <3>2, OneKeepsLog
  <2>. QED
    BY <2>2, <2>3
<1>4. CASE SaveWrite(p)
  <2>1. /\ proc' = [proc EXCEPT ![p] = Idle] /\ proc[p].at = "write" /\ spoilt' = spoilt
        /\ acked' = acked \cup {<<proc[p].topic, Last(proc[p].list)>>}
    BY <1>4, Zenon DEF SaveWrite, Finish
  <2>2. PICK left : /\ logs' = [logs EXCEPT ![proc[p].topic] = left]
                    /\ logs[proc[p].topic] = Torn => left = File(proc[p].list)
    BY <1>4 DEF SaveWrite
  <2>3. CASE proc[p].topic # f
    <3>1. logs'[f] = logs[f]
      BY <1>0, <2>2, <2>3
    <3>2. \A a \in acked' : a[1] = f => a \in acked
      BY <2>1, <2>3
    <3>. QED
      BY <1>0, <1>i, <2>1, <2>3, <3>1, <3>2, OneKeepsLog
  <2>4. CASE proc[p].topic = f
    <3>1. proc'[p] = Idle /\ \A q \in Procs : q # p => proc'[q] = proc[q]
      BY <2>1 DEF Inv, TypeOK
    <3> SUFFICES ASSUME f \notin spoilt PROVE LogFollows(f)'
      BY <2>1 DEF LogFollows
    <3>2. \A q \in Procs : proc'[q].topic # f
      BY <1>0, <1>i, <2>4, <3>1 DEF LogFollows
    <3>3. /\ logs[f] = Torn /\ proc[p].list # <<>>
          /\ \A a \in acked : a[1] = f => a[2] \in Range(proc[p].list)
      BY <2>1, <2>4 DEF LogFollows
    <3>4. logs'[f].list = proc[p].list
      BY <1>0, <2>2, <2>4, <3>3 DEF File
    <3>5. Last(proc[p].list) \in Range(proc[p].list)
      BY <1>0, <3>3, LastIsIn
    <3>6. \A a \in acked' : a[1] = f => a[2] \in Range(logs'[f].list)
      BY <2>1, <3>3, <3>4, <3>5
    <3>7. \A a \in acked' : a[1] = f => a = <<f, a[2]>>
      BY <2>1, <2>4 DEF LogFollows
    <3>. QED
      BY <3>2, <3>6, <3>7 DEF LogFollows
  <2>. QED
    BY <2>3, <2>4
<1>. QED
  BY <1>1, <1>2, <1>3, <1>4

\* People edit the files.
LEMMA PeopleKeepLogs ==
    ASSUME Inv, NEW f \in Logs, LogFollows(f), PeopleClose \/ PeopleHook \/ PeopleTarget
    PROVE  LogFollows(f)'
<1>1. ASSUME NEW topic, Edit(topic), logs'[f] = logs[f],
             \A a \in acked' : a[1] = f => a \in acked
      PROVE  LogFollows(f)'
  <2>1. spoilt \subseteq spoilt' /\ \A p \in Procs :
            /\ proc'[p].at = proc[p].at /\ proc'[p].topic = proc[p].topic
            /\ proc'[p].list = proc[p].list
    BY <1>1, EditKeeps
  <2>. QED
    BY <1>1, <2>1, OthersKeepLog
<1>2. CASE PeopleHook \/ PeopleTarget
  <2>1. UNCHANGED <<logs, acked>> /\ (Edit("hook") \/ Edit("sign"))
    BY <1>2, Zenon DEF PeopleHook, PeopleTarget
  <2>. QED
    BY <1>1, <2>1
<1>3. CASE PeopleClose
  <2>1. Edit("pr") /\ "pr" \in Logs
    BY <1>3 DEF PeopleClose, Edit, Logs
  <2> DEFINE l == logs["pr"].list
  <2>2. PICK i \in DOMAIN l :
            /\ logs' = [logs EXCEPT !["pr"].list[i].closed = TRUE]
            /\ acked' = (acked \ {<<"pr", l[i]>>}) \cup {<<"pr", [l[i] EXCEPT !.closed = TRUE]>>}
    BY <1>3, Zenon DEF PeopleClose
  <2> DEFINE e == [l[i] EXCEPT !.closed = TRUE]
             m == [l EXCEPT ![i] = e]
  <2>3. logs' = [logs EXCEPT !["pr"] = [logs["pr"] EXCEPT !.list = m]]
    BY <2>2, Zenon
  <2>4. acked' = (acked \ {<<"pr", l[i]>>}) \cup {<<"pr", e>>}
    BY <2>2
  <2>5. l \in Seq(Entries)
    BY <2>1, LogsAreNumbered
  <2> HIDE DEF e, l
  <2>6. /\ logs \in [Logs -> [is : {"missing", "torn", "read"}, list : Seq(Entries)]]
    BY LogsAreNumbered
  <2>7. CASE f # "pr"
    <3>1. logs'[f] = logs[f]
      BY <2>3, <2>6, <2>7
    <3>2. \A a \in acked' : a[1] = f => a \in acked
      BY <2>4, <2>7
    <3>. QED
      BY <1>1, <2>1, <3>1, <3>2
  <2>8. CASE f = "pr"
    <3> SUFFICES ASSUME f \notin spoilt' PROVE LogFollows(f)'
      BY DEF LogFollows
    <3>1. f \notin spoilt /\ \A q \in Procs : proc[q].topic # f /\ proc'[q].topic # f
      BY <2>1, <2>8, EditKeeps
    <3>2. \A a \in acked : a[1] = f => a[2] \in Range(l)
      BY <2>8, <3>1 DEF LogFollows, l
    <3>3. logs'[f].list = m
      BY <2>1, <2>3, <2>6, <2>8
    <3>4. DOMAIN m = DOMAIN l /\ m[i] = e /\ \A j \in DOMAIN l : j # i => m[j] = l[j]
      BY <2>2
    <3> HIDE DEF m
    <3>5. e \in Range(m) /\ \A x \in Range(l) : x = l[i] \/ x \in Range(m)
      BY <2>2, <3>4 DEF Range
    <3>6. \A a \in acked' : a[1] = f => a[2] \in Range(m)
      <4>1. ASSUME NEW a \in acked', a[1] = f PROVE a[2] \in Range(m)
        <5>1. CASE a = <<"pr", e>>
          BY <3>5, <5>1
        <5>2. CASE a # <<"pr", e>>
          <6>1. a \in acked /\ a # <<"pr", l[i]>>
            BY <2>4, <4>1, <5>2
          <6>2. a[2] \in Range(l)
            BY <3>2, <4>1, <6>1
          <6>3. a = <<f, a[2]>>
            BY <3>1, <4>1, <6>1 DEF LogFollows
          <6>4. a[2] # l[i]
            BY <2>8, <6>1, <6>3
          <6>. QED
            BY <3>5, <6>2, <6>4
        <5>. QED
          BY <5>1, <5>2
      <4>. QED
        BY <4>1
    <3>7. \A a \in acked' : a[1] = f => a = <<f, a[2]>>
      BY <2>4, <2>8, <3>1 DEF LogFollows
    <3>. QED
      BY <3>1, <3>3, <3>6, <3>7 DEF LogFollows
  <2>. QED
    BY <2>7, <2>8
<1>. QED
  BY <1>2, <1>3

\* The hook, the signature, and dying.
LEMMA OtherKeepsLogs ==
    ASSUME Inv, NEW f \in Logs, LogFollows(f), NEW p \in Procs,
           \/ InstallCheck(p) \/ InstallWrite(p) \/ RemoveCheck(p) \/ RemoveDelete(p)
           \/ SignRead(p) \/ SignWrite(p) \/ VerifyRead(p) \/ VerifyCompare(p)
           \/ Crash(p)
    PROVE  LogFollows(f)'
<1>0. Idle.topic = "none" /\ f \notin {"none", "hook", "sign"}
  BY DEF Idle, Logs
<1>1. ASSUME NEW s, s.topic # f, NEW topic, Begin(p, topic, s), UNCHANGED <<logs, acked>>
      PROVE  LogFollows(f)'
  <2>1. proc' = [proc EXCEPT ![p] = s] /\ proc[p].at = "idle" /\ spoilt \subseteq spoilt'
    BY <1>1, Zenon DEF Begin
  <2>. QED
    BY <1>1, <2>1, OneKeepsLog
<1>2. ASSUME NEW at, Begin(p, "hook", [Idle EXCEPT !.at = at, !.topic = "hook"]),
             UNCHANGED <<logs, acked>>
      PROVE  LogFollows(f)'
  <2> DEFINE s == [Idle EXCEPT !.at = at, !.topic = "hook"]
  <2>1. s.topic # f
    BY <1>0 DEF Idle
  <2>2. Begin(p, "hook", s)
    BY <1>2
  <2> HIDE DEF s
  <2>. QED
    BY <1>1, <1>2, <2>1, <2>2
<1>3. ASSUME NEW at, Begin(p, "sign", [Idle EXCEPT !.at = at, !.topic = "sign",
                                                  !.pair = hmac_file(target, key)]),
             UNCHANGED <<logs, acked>>
      PROVE  LogFollows(f)'
  <2> DEFINE s == [Idle EXCEPT !.at = at, !.topic = "sign", !.pair = hmac_file(target, key)]
  <2>1. s.topic # f
    BY <1>0 DEF Idle
  <2>2. Begin(p, "sign", s)
    BY <1>3
  <2> HIDE DEF s
  <2>. QED
    BY <1>1, <1>3, <2>1, <2>2
<1>4. CASE InstallCheck(p) \/ RemoveCheck(p)
  BY <1>2, <1>4, Zenon DEF InstallCheck, RemoveCheck
<1>5. CASE SignRead(p) \/ VerifyRead(p)
  BY <1>3, <1>5, Zenon DEF SignRead, VerifyRead
<1>6. CASE InstallWrite(p) \/ RemoveDelete(p) \/ SignWrite(p) \/ VerifyCompare(p) \/ Crash(p)
  <2>1. proc' = [proc EXCEPT ![p] = Idle] /\ UNCHANGED <<logs, acked>>
    BY <1>6, Zenon DEF InstallWrite, RemoveDelete, SignWrite, VerifyCompare, Crash, Finish
  <2>2. CASE Crash(p)
    <3>1. /\ spoilt \subseteq spoilt'
          /\ proc[p].at = "write" => proc[p].topic \in spoilt'
      BY <2>2 DEF Crash
    <3>. QED
      BY <1>0, <2>1, <3>1, OneKeepsLog
  <2>3. CASE ~Crash(p)
    <3>1. proc[p].at # "write" /\ spoilt' = spoilt
      BY <1>6, <2>3 DEF InstallWrite, RemoveDelete, SignWrite, VerifyCompare
    <3>. QED
      BY <1>0, <2>1, <3>1, OneKeepsLog
  <2>. QED
    BY <2>2, <2>3
<1>. QED
  BY <1>4, <1>5, <1>6

(* As long as nothing came between the reading and the writing of a log,   *)
(* every report and snapshot that was acknowledged is in it or on its way, *)
(* for any number of invocations.                                          *)
THEOREM AcknowledgedIsKept == Spec => []CalmLogKeeps
<1> DEFINE Follow == \A f \in Logs : LogFollows(f)
<1>1. Init => Follow
  BY DEF Init, LogFollows, Idle, Logs
<1>2. Inv /\ Follow /\ [Next]_vars => Follow'
  <2> SUFFICES ASSUME Inv, Follow, [Next]_vars, NEW f \in Logs PROVE LogFollows(f)'
    OBVIOUS
  <2>0. LogFollows(f)
    OBVIOUS
  <2> HIDE DEF Follow
  <2>1. ASSUME NEW p \in Procs,
               \/ \E g \in Logs : RecordLoad(p, g)
               \/ SaveOpen(p) \/ SaveRefused(p) \/ SaveWrite(p)
        PROVE  LogFollows(f)'
    BY <2>0, <2>1, RecordKeepsLogs
  <2>2. ASSUME NEW p \in Procs,
               \/ InstallCheck(p) \/ InstallWrite(p) \/ RemoveCheck(p) \/ RemoveDelete(p)
               \/ SignRead(p) \/ SignWrite(p) \/ VerifyRead(p) \/ VerifyCompare(p)
               \/ Crash(p)
        PROVE  LogFollows(f)'
    BY <2>0, <2>2, OtherKeepsLogs
  <2>3. CASE PeopleClose \/ PeopleHook \/ PeopleTarget
    BY <2>0, <2>3, PeopleKeepLogs
  <2>4. CASE UNCHANGED vars
    BY <2>0, <2>4 DEF vars, LogFollows
  <2>. QED
    BY <2>1, <2>2, <2>3, <2>4, Zenon DEF Next
<1>3. Follow => CalmLogKeeps
  <2> SUFFICES ASSUME Follow, NEW f \in Logs \ spoilt, NEW a \in acked, a[1] = f,
                      a[2] \notin Range(logs[f].list)
               PROVE  \E p \in Procs : proc[p].at = "write" /\ proc[p].topic = f
                                          /\ a[2] \in Range(proc[p].list)
    BY DEF CalmLogKeeps
  <2>1. PICK p \in Procs : proc[p].topic = f /\ proc[p].at = "write"
    BY DEF LogFollows
  <2>. QED
    BY <2>1 DEF LogFollows
<1> HIDE DEF Follow
<1>. QED
  BY Invariance, <1>1, <1>2, <1>3, PTL DEF Spec

=============================================================================
