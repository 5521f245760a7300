----------------------- MODULE DispositionLog_proofs -----------------------
(***************************************************************************)
(* Proof, for any number of invocations, rules and findings and whatever   *)
(* the file held at first, that no interleaving, crash or failed write     *)
(* makes a gate waive a finding that nobody waived; and that while they run *)
(* one at a time a gate obeys the last decision that was acknowledged.     *)
(***************************************************************************)
EXTENDS MCDispositionLog, WellFoundedInduction, TLAPS

(* Parsing the entries of a file yields a log of well-formed entries.      *)
LEMMA ParsedIsLog ==
    ASSUME NEW key, NEW es \in Seq(RawEntries)
    PROVE  Parsed(key, es) \in Logs
<1>1. ASSUME NEW i \in 1..Len(es)
      PROVE  /\ parse_canonical_entry(es[i]) \in Entries
             /\ parse_legacy_entry(es[i]) \in Entries
  <2>1. es[i] \in RawEntries
    OBVIOUS
  <2>2. /\ es[i].rule \in Rules \cup {NoRule}
        /\ es[i].print \in Prints \cup {NoPrint}
    BY <2>1 DEF RawEntries
  <2>3. parse_status(es[i].status) \in Statuses
    BY DEF parse_status, Statuses
  <2> QED BY <2>2, <2>3 DEF parse_canonical_entry, parse_legacy_entry, Entries, Statuses
<1>2. Len(es) \in Nat
  OBVIOUS
<1>3. \A n \in Nat : \A f : f \in [1..n -> Entries] => f \in Seq(Entries)
  OBVIOUS
<1> QED BY <1>1, <1>2, <1>3 DEF Parsed, Logs

LEMMA LoadIsLog ==
    ASSUME NEW f \in Files
    PROVE  load(f) \in Logs
<1>1. f.entries \in Seq(RawEntries)
  BY DEF Files
<1> QED BY <1>1, ParsedIsLog DEF load

(* Adding keeps a log a log, and brings in nothing but the new entry.      *)
LEMMA AddKeeps ==
    ASSUME NEW l \in Logs, NEW e \in Entries
    PROVE  /\ add(l, e) \in Logs
           /\ \A i \in 1..Len(add(l, e)) :
                add(l, e)[i] = e \/ \E j \in 1..Len(l) : add(l, e)[i] = l[j]
<1>1. CASE Of(l, e.rule) = {}
  <2>1. add(l, e) = Append(l, e)
    BY <1>1 DEF add
  <2> QED BY <2>1 DEF Logs
<1>2. CASE Of(l, e.rule) # {}
  <2> DEFINE g == [i \in 1..Len(l) |->
                     IF i \in Of(l, e.rule) /\ IsFirst(l, i) THEN e ELSE l[i]]
  <2>1. add(l, e) = g
    BY <1>2 DEF add
  <2>2. Len(l) \in Nat /\ \A i \in 1..Len(l) : l[i] \in Entries
    BY DEF Logs
  <2>3. g \in [1..Len(l) -> Entries]
    BY <2>2
  <2>4. g \in Seq(Entries) /\ Len(g) = Len(l)
    BY <2>2, <2>3
  <2> QED BY <2>1, <2>4 DEF Logs
<1> QED BY <1>1, <1>2

(* What a command saves is what the next one loads.                        *)
LEMMA LoadSaved ==
    ASSUME NEW l \in Logs
    PROVE  Saved(l) \in Files /\ load(Saved(l)) = l
<1>0. l \in Seq(Entries) /\ Len(l) \in Nat /\ \A i \in 1..Len(l) : l[i] \in Entries
  BY DEF Logs
<1>1. l \in Seq(RawEntries) /\ <<>> \in Seq(RawEntries)
  <2>1. Entries \subseteq RawEntries
    BY DEF Entries, RawEntries, Words
  <2>2. \A n \in Nat : l \in [1..n -> RawEntries] => l \in Seq(RawEntries)
    OBVIOUS
  <2>3. l \in [1..Len(l) -> RawEntries]
    BY <1>0, <2>1
  <2>4. l \in Seq(RawEntries)
    BY <1>0, <2>2, <2>3
  <2>5. <<>> \in Seq(RawEntries)
    OBVIOUS
  <2> QED BY <2>4, <2>5
<1>2. ASSUME NEW i \in 1..Len(l)
      PROVE  parse_canonical_entry(l[i]) = l[i]
  <2>1. l[i] \in Entries
    BY <1>0
  <2>2. l[i] = [rule |-> l[i].rule, print |-> l[i].print, status |-> l[i].status]
    BY <2>1 DEF Entries
  <2>3. parse_status(l[i].status) = l[i].status
    BY <2>1 DEF Entries, Statuses, parse_status
  <2> QED BY <2>2, <2>3 DEF parse_canonical_entry
<1>3. load(Saved(l)) = [i \in 1..Len(l) |-> l[i]]
  BY <1>2 DEF load, Saved, Parsed
<1> QED BY <1>1, <1>3 DEF Saved, Files, Logs

LEMMA LoadUnreadable ==
    Unreadable \in Files /\ load(Unreadable) = <<>>
BY DEF Unreadable, Files, load, Parsed

(* What a gate lets pass, it lets pass by an entry of the log it read.     *)
LEMMA PassesByEntry ==
    ASSUME NEW l, NEW F, NEW strict, NEW f \in F, Gating(f, strict),
           gated_exit_code(F, strict, l) = 0
    PROVE  \E i \in 1..Len(l) : l[i].rule = f.rule /\ l[i].status \in Waivers
<1>1. Waived(l, f)
  BY DEF gated_exit_code
<1> QED BY <1>1 DEF Waived, find_by_rule, Of

LEMMA InitInv == Init => Inv
<1> SUFFICES ASSUME Init PROVE Inv
  OBVIOUS
<1>1. file \in Files
  BY FilesAssumption DEF Init
<1>2. load(file) \in Logs
  BY <1>1, LoadIsLog
<1>3. recorded \subseteq Entries /\ Remembered(load(file))
  BY <1>2 DEF Init, Logs, Remembered
<1>4. ASSUME NEW r \in Rules
      PROVE  Decision(file, r) \subseteq Statuses
  <2> DEFINE l == Parsed(file.key, file.entries \o file.rest)
  <2>1. file.entries \o file.rest \in Seq(RawEntries)
    BY <1>1 DEF Files
  <2>2. l \in Logs
    BY <2>1, ParsedIsLog
  <2>3. \A i \in 1..Len(l) : l[i].status \in Statuses
    <3>1. \A i \in 1..Len(l) : l[i] \in Entries
      BY <2>2 DEF Logs
    <3> QED BY <3>1 DEF Entries
  <2> HIDE DEF l
  <2> QED BY <2>3 DEF Decision, find_by_rule, Of, l
<1>5. NoEntry \in Entries /\ <<>> \in Logs
  BY DEF NoEntry, Entries, Statuses, Logs
<1>6. TypeOK
  BY <1>1, <1>3, <1>4, <1>5 DEF Init, TypeOK
<1>7. NoInventedWaiver
  BY <1>3, PassesByEntry DEF NoInventedWaiver, Remembered, Passes, Gate
<1> QED BY <1>3, <1>6, <1>7 DEF Inv, Init

LEMMA OverKeepsTypes ==
    ASSUME TypeOK, NEW p \in Procs, Over(p)
    PROVE  /\ pc' \in [Procs -> {"idle", "open", "write"}]
           /\ log' \in [Procs -> Logs]
           /\ entry' \in [Procs -> Entries]
           /\ \A q \in Procs : pc'[q] # "idle" => pc[q] # "idle" /\ log'[q] = log[q]
<1>1. NoEntry \in Entries /\ <<>> \in Logs
  BY DEF NoEntry, Entries, Statuses, Logs
<1> QED BY <1>1 DEF Over, TypeOK

LEMMA NextInv == Inv /\ [Next]_vars => Inv'
<1> SUFFICES ASSUME Inv, [Next]_vars PROVE Inv'
  OBVIOUS
<1>0. TypeOK /\ load(file) \in Logs
  BY LoadIsLog DEF Inv, TypeOK
<1>a. Remembered(load(file))' => NoInventedWaiver'
  BY PassesByEntry DEF NoInventedWaiver, Remembered, Passes, Gate
<1>1. ASSUME NEW p \in Procs, NEW r \in Rules, NEW s \in Statuses, AddLoad(p, r, s)
      PROVE  Inv'
  <2> DEFINE e == [rule |-> r, print |-> NoPrint, status |-> s]
  <2>1. e \in Entries
    BY DEF Entries
  <2>2. /\ add(load(file), e) \in Logs
        /\ \A i \in 1..Len(add(load(file), e)) :
              \/ add(load(file), e)[i] = e
              \/ \E j \in 1..Len(load(file)) : add(load(file), e)[i] = load(file)[j]
    BY <1>0, <2>1, AddKeeps
  <2>3. /\ log' = [log EXCEPT ![p] = add(load(file), e)]
        /\ recorded' = recorded \cup {e}
        /\ entry' = [entry EXCEPT ![p] = e]
        /\ pc[p] = "idle" /\ pc' = [pc EXCEPT ![p] = "open"]
        /\ file' = file /\ latest' = latest
    BY <1>1 DEF AddLoad
  <2> HIDE DEF e
  <2>4. TypeOK'
    BY <1>0, <2>1, <2>2, <2>3 DEF TypeOK
  <2>5. Remembered(load(file))'
    BY <2>3 DEF Inv, Remembered
  <2>6. \A q \in Procs : pc'[q] # "idle" => Remembered(log[q])'
    <3>1. Remembered(log[p])'
      <4>1. log'[p] = add(load(file), e)
        BY <1>0, <2>3 DEF TypeOK
      <4> QED BY <2>2, <2>3, <4>1 DEF Inv, Remembered
    <3>2. ASSUME NEW q \in Procs, q # p, pc'[q] # "idle"
          PROVE  Remembered(log[q])'
      <4>1. log'[q] = log[q] /\ pc[q] # "idle"
        BY <1>0, <2>3, <3>2 DEF TypeOK
      <4> QED BY <2>3, <4>1 DEF Inv, Remembered
    <3> QED BY <3>1, <3>2
  <2> QED BY <2>4, <2>5, <2>6, <1>a DEF Inv
<1>2. ASSUME NEW p \in Procs, AddOpen(p)
      PROVE  Inv'
  <2>1. /\ file' = Unreadable /\ pc' = [pc EXCEPT ![p] = "write"] /\ pc[p] = "open"
        /\ log' = log /\ entry' = entry /\ recorded' = recorded /\ latest' = latest
    BY <1>2 DEF AddOpen
  <2>2. TypeOK'
    BY <1>0, <2>1, LoadUnreadable DEF TypeOK
  <2>3. Remembered(load(file))'
    <3>1. load(file)' = <<>>
      BY <2>1, LoadUnreadable
    <3> QED BY <3>1 DEF Remembered
  <2>4. \A q \in Procs : pc'[q] # "idle" => Remembered(log[q])'
    <3>1. \A q \in Procs : pc'[q] # "idle" => pc[q] # "idle"
      BY <1>0, <2>1 DEF TypeOK
    <3> QED BY <2>1, <3>1 DEF Inv, Remembered
  <2> QED BY <2>2, <2>3, <2>4, <1>a DEF Inv
<1>3. ASSUME NEW p \in Procs, Over(p), file' = file, recorded' = recorded, latest' = latest
      PROVE  Inv'
  <2>1. /\ pc' \in [Procs -> {"idle", "open", "write"}]
        /\ log' \in [Procs -> Logs] /\ entry' \in [Procs -> Entries]
        /\ \A q \in Procs : pc'[q] # "idle" => pc[q] # "idle" /\ log'[q] = log[q]
    BY <1>0, <1>3, OverKeepsTypes
  <2>2. TypeOK'
    BY <1>0, <1>3, <2>1 DEF TypeOK
  <2>3. Remembered(load(file))'
    BY <1>3 DEF Inv, Remembered
  <2>4. \A q \in Procs : pc'[q] # "idle" => Remembered(log[q])'
    BY <1>3, <2>1 DEF Inv, Remembered
  <2> QED BY <2>2, <2>3, <2>4, <1>a DEF Inv
<1>4. ASSUME NEW p \in Procs, AddWrite(p)
      PROVE  Inv'
  <2>1. /\ pc[p] = "write" /\ Over(p) /\ recorded' = recorded
        /\ latest' = [latest EXCEPT ![entry[p].rule] = {entry[p].status}]
        /\ file' = Saved(log[p]) \/ file' = Unreadable
    BY <1>4 DEF AddWrite
  <2>2. /\ pc' \in [Procs -> {"idle", "open", "write"}]
        /\ log' \in [Procs -> Logs] /\ entry' \in [Procs -> Entries]
        /\ \A q \in Procs : pc'[q] # "idle" => pc[q] # "idle" /\ log'[q] = log[q]
    BY <1>0, <2>1, OverKeepsTypes
  <2>3. log[p] \in Logs /\ Remembered(log[p])
    BY <1>0, <2>1 DEF TypeOK, Inv
  <2>4. file' \in Files /\ Remembered(load(file))'
    <3>1. CASE file' = Saved(log[p])
      BY <2>1, <2>3, <3>1, LoadSaved DEF Remembered
    <3>2. CASE file' = Unreadable
      <4>1. load(file)' = <<>>
        BY <3>2, LoadUnreadable
      <4> QED BY <3>2, <4>1, LoadUnreadable DEF Remembered
    <3> QED BY <2>1, <3>1, <3>2
  <2>5. latest' \in [Rules -> SUBSET Statuses]
    <3>1. entry[p].status \in Statuses /\ latest \in [Rules -> SUBSET Statuses]
      BY <1>0 DEF TypeOK, Entries
    <3> QED BY <2>1, <3>1
  <2>6. TypeOK'
    BY <1>0, <2>1, <2>2, <2>4, <2>5 DEF TypeOK
  <2>7. \A q \in Procs : pc'[q] # "idle" => Remembered(log[q])'
    BY <2>1, <2>2 DEF Inv, Remembered
  <2> QED BY <2>4, <2>6, <2>7, <1>a DEF Inv
<1>5. CASE UNCHANGED vars
  <2>1. TypeOK'
    BY <1>0, <1>5 DEF TypeOK, vars
  <2>2. Remembered(load(file))'
    BY <1>5 DEF Inv, Remembered, vars
  <2>3. \A q \in Procs : pc'[q] # "idle" => Remembered(log[q])'
    BY <1>5 DEF Inv, Remembered, vars
  <2> QED BY <2>1, <2>2, <2>3, <1>a DEF Inv
<1>6. ASSUME NEW p \in Procs, AddOpenFails(p) \/ Crash(p)
      PROVE  Inv'
  BY <1>3, <1>6 DEF AddOpenFails, Crash
<1> QED BY <1>1, <1>2, <1>4, <1>5, <1>6 DEF Next, Command

(* The invariant holds in every reachable state.                           *)
THEOREM Invariance == Spec => []Inv
BY InitInv, NextInv, PTL DEF Spec

(* A gate lets a finding pass only by a waiver of its rule that somebody   *)
(* wrote in the file or asked a command to add, however many commands      *)
(* load, truncate, write, fail and die at a time.                          *)
THEOREM WaiversAreNotInvented == Spec => []NoInventedWaiver
<1>1. Inv => NoInventedWaiver
  BY DEF Inv
<1> QED BY <1>1, Invariance, PTL

-----------------------------------------------------------------------------
(* A set of naturals that has a member has a least one.                    *)
LEMMA LeastMember ==
    ASSUME NEW S \in SUBSET Nat, S # {}
    PROVE  \E m \in S : \A k \in S : m <= k
<1>1. PICK m \in S : \A k \in S : ~ (<<k, m>> \in OpToRel(<, Nat))
  BY NatLessThanWellFounded, WFMin
<1>2. ASSUME NEW k \in S
      PROVE  m <= k
  <2>1. ~ (k < m)
    BY <1>1 DEF OpToRel
  <2> QED BY <2>1
<1> QED BY <1>2

(* A rule that has entries has a first one.                                *)
LEMMA FirstEntry ==
    ASSUME NEW l \in Logs, NEW r, Of(l, r) # {}
    PROVE  \E i \in Of(l, r) : IsFirst(l, i)
<1>1. Of(l, r) \in SUBSET Nat
  BY DEF Of
<1>2. PICK m \in Of(l, r) : \A k \in Of(l, r) : m <= k
  BY <1>1, LeastMember
<1>3. IsFirst(l, m)
  <2> SUFFICES ASSUME NEW j \in 1..(m - 1), l[j].rule = r PROVE FALSE
    BY <1>2 DEF IsFirst, Of
  <2>1. Len(l) \in Nat /\ m \in 1..Len(l)
    BY <1>2 DEF Logs, Of
  <2>2. j \in Of(l, r)
    BY <2>1 DEF Of
  <2> QED BY <1>2, <2>1, <2>2
<1> QED BY <1>2, <1>3

(* Adding decides the rule of the new entry by it and leaves the others to *)
(* what decided them.                                                      *)
LEMMA AddDecides ==
    ASSUME NEW l \in Logs, NEW e \in Entries
    PROVE  /\ find_by_rule(add(l, e), e.rule) = {e}
           /\ \A r : r # e.rule => find_by_rule(add(l, e), r) = find_by_rule(l, r)
<1>0. Len(l) \in Nat /\ l \in Seq(Entries)
  BY DEF Logs
<1>1. CASE Of(l, e.rule) = {}
  <2> DEFINE k == Append(l, e)
  <2>1. add(l, e) = k
    BY <1>1 DEF add
  <2>2. /\ Len(k) = Len(l) + 1
        /\ \A i \in 1..Len(l) : k[i] = l[i]
        /\ k[Len(l) + 1] = e
    BY <1>0
  <2>3. \A i \in 1..Len(l) : l[i].rule # e.rule
    BY <1>1 DEF Of
  <2> HIDE DEF k
  <2>4. Of(k, e.rule) = {Len(l) + 1}
    BY <1>0, <2>2, <2>3 DEF Of
  <2>5. IsFirst(k, Len(l) + 1)
    BY <1>0, <2>2, <2>3 DEF IsFirst
  <2>6. find_by_rule(k, e.rule) = {e}
    BY <2>2, <2>4, <2>5 DEF find_by_rule
  <2>7. ASSUME NEW r, r # e.rule
        PROVE  find_by_rule(k, r) = find_by_rule(l, r)
    <3>1. Of(k, r) = Of(l, r)
      BY <1>0, <2>2, <2>7 DEF Of
    <3>2. \A i \in Of(l, r) : k[i] = l[i] /\ (IsFirst(k, i) <=> IsFirst(l, i))
      BY <1>0, <2>2 DEF Of, IsFirst
    <3> QED BY <3>1, <3>2 DEF find_by_rule
  <2> QED BY <2>1, <2>6, <2>7
<1>2. CASE Of(l, e.rule) # {}
  <2> DEFINE k == [i \in 1..Len(l) |->
                     IF i \in Of(l, e.rule) /\ IsFirst(l, i) THEN e ELSE l[i]]
  <2>1. add(l, e) = k
    BY <1>2 DEF add
  <2>2. \A i \in 1..Len(l) :
           k[i] = IF i \in Of(l, e.rule) /\ IsFirst(l, i) THEN e ELSE l[i]
    OBVIOUS
  <2>3. Len(k) = Len(l)
    BY <1>0
  <2> HIDE DEF k
  <2>4. \A i \in 1..Len(l) : k[i].rule = l[i].rule
    BY <2>2 DEF Of
  <2>5. /\ \A r : Of(k, r) = Of(l, r)
        /\ \A i \in 1..Len(l) : IsFirst(k, i) <=> IsFirst(l, i)
    <3>1. \A i \in 1..Len(l) : \A j \in 1..(i - 1) : j \in 1..Len(l)
      BY <1>0
    <3> QED BY <2>3, <2>4, <3>1 DEF Of, IsFirst
  <2>6. find_by_rule(k, e.rule) = {e}
    <3>1. PICK i \in Of(l, e.rule) : IsFirst(l, i)
      BY <1>2, FirstEntry
    <3>2. \A j \in Of(l, e.rule) : j \in 1..Len(l)
      BY DEF Of
    <3>3. \A x \in find_by_rule(k, e.rule) : x = e
      BY <2>2, <2>5, <3>2 DEF find_by_rule
    <3>4. e \in find_by_rule(k, e.rule)
      BY <2>2, <2>5, <3>1, <3>2 DEF find_by_rule
    <3> QED BY <3>3, <3>4
  <2>7. ASSUME NEW r, r # e.rule
        PROVE  find_by_rule(k, r) = find_by_rule(l, r)
    <3>1. \A j \in Of(l, r) : j \in 1..Len(l) /\ j \notin Of(l, e.rule)
      BY <2>7 DEF Of
    <3>2. \A j \in Of(l, r) : k[j] = l[j] /\ (IsFirst(k, j) <=> IsFirst(l, j))
      BY <2>2, <2>5, <3>1
    <3> QED BY <2>5, <3>2 DEF find_by_rule
  <2> QED BY <2>1, <2>6, <2>7
<1> QED BY <1>1, <1>2

(* What the first entries of a file decide, the whole file decides: what a *)
(* value of the wrong type hides can only decide rules they do not.        *)
LEMMA PrefixDecides ==
    ASSUME NEW key, NEW es \in Seq(RawEntries), NEW rest \in Seq(RawEntries), NEW r
    PROVE  find_by_rule(Parsed(key, es), r) \subseteq find_by_rule(Parsed(key, es \o rest), r)
<1> DEFINE l == Parsed(key, es)
           k == Parsed(key, es \o rest)
<1>1. /\ Len(es) \in Nat /\ Len(rest) \in Nat
      /\ Len(es \o rest) = Len(es) + Len(rest)
      /\ \A i \in 1..Len(es) : (es \o rest)[i] = es[i]
  OBVIOUS
<1>2. CASE key \in {"dispositions", "entries"}
  <2>1. /\ Len(l) = Len(es) /\ Len(k) = Len(es) + Len(rest)
        /\ \A i \in 1..Len(es) : k[i] = l[i]
    BY <1>1, <1>2 DEF Parsed
  <2> HIDE DEF l, k
  <2>2. ASSUME NEW i \in Of(l, r)
        PROVE  i \in Of(k, r) /\ k[i] = l[i] /\ (IsFirst(k, i) <=> IsFirst(l, i))
    <3>1. i \in 1..Len(es) /\ l[i].rule = r
      BY <2>1 DEF Of
    <3>2. i \in 1..Len(k) /\ k[i] = l[i]
      BY <1>1, <2>1, <3>1
    <3>3. \A j \in 1..(i - 1) : k[j] = l[j]
      BY <1>1, <2>1, <3>1
    <3>4. IsFirst(k, i) <=> IsFirst(l, i)
      BY <3>2, <3>3 DEF IsFirst
    <3> QED BY <3>1, <3>2, <3>4 DEF Of
  <2> QED BY <2>2 DEF find_by_rule, l, k
<1>3. CASE key \notin {"dispositions", "entries"}
  BY <1>3 DEF Parsed
<1> QED BY <1>2, <1>3

(* The empty log decides nothing.                                          *)
LEMMA NothingWaives == \A r : ~ Waives(load(Unreadable), r)
BY LoadUnreadable DEF Waives, find_by_rule, Of

LEMMA MCInitFollows == MCInit => DecisionsFollow
<1> SUFFICES ASSUME MCInit PROVE DecisionsFollow
  OBVIOUS
<1>1. file \in Files /\ \A p \in Procs : pc[p] = "idle"
  BY FilesAssumption DEF MCInit, Init
<1>2. file.entries \in Seq(RawEntries) /\ file.rest \in Seq(RawEntries)
  BY <1>1 DEF Files
<1>3. ASSUME NEW r \in Rules, Waives(load(file), r)
      PROVE  Acknowledged(r)
  <2>1. PICK e \in find_by_rule(load(file), r) : e.status \in Waivers
    BY <1>3 DEF Waives
  <2>2. e \in find_by_rule(Parsed(file.key, file.entries \o file.rest), r)
    BY <1>2, <2>1, PrefixDecides DEF load
  <2>3. e.status \in latest[r]
    BY <2>2 DEF MCInit, Init, Decision
  <2> QED BY <2>1, <2>3 DEF Acknowledged
<1>4. ASSUME sound, NEW r \in Rules, Acknowledged(r)
      PROVE  Waives(load(file), r)
  <2>1. file.rest = <<>>
    BY <1>4 DEF MCInit
  <2>2. file.entries \o file.rest = file.entries
    BY <1>2, <2>1
  <2>3. latest[r] = {e.status : e \in find_by_rule(load(file), r)}
    BY <2>2 DEF MCInit, Init, Decision, load
  <2> QED BY <1>4, <2>3 DEF Acknowledged, Waives
<1>5. AtMostOne
  BY <1>1 DEF AtMostOne
<1> QED BY <1>1, <1>3, <1>4, <1>5 DEF DecisionsFollow

LEMMA MCNextFollows ==
    Inv /\ DecisionsFollow /\ [MCNext]_<<vars, solo, sound>> => DecisionsFollow'
<1> DEFINE Obeys == \A r \in Rules : Waives(load(file), r) => Acknowledged(r)
           Holds == sound /\ (\A p \in Procs : pc[p] # "write") =>
                       \A r \in Rules : Acknowledged(r) => Waives(load(file), r)
           Drafts == \A p \in Procs : pc[p] # "idle" => Drafted(p)
<1>0. /\ DecisionsFollow <=> (solo => AtMostOne /\ Obeys /\ Holds /\ Drafts)
      /\ DecisionsFollow' <=> (solo' => AtMostOne' /\ Obeys' /\ Holds' /\ Drafts')
  BY Zenon DEF DecisionsFollow
<1> HIDE DEF Obeys, Holds, Drafts
<1>1. CASE UNCHANGED <<vars, solo, sound>>
  BY <1>1, Zenon DEF DecisionsFollow, AtMostOne, Acknowledged, Drafted, Waives, vars
<1>2. ASSUME Inv, DecisionsFollow, MCNext, solo'
      PROVE  AtMostOne' /\ Obeys' /\ Holds' /\ Drafts'
  <2>1. solo /\ AtMostOne'
    BY <1>2, Zenon DEF MCNext
  <2>2. AtMostOne /\ Obeys /\ Holds /\ Drafts
    BY <1>0, <1>2, <2>1
  <2>3. TypeOK /\ load(file) \in Logs
    BY <1>2, LoadIsLog DEF Inv, TypeOK
  <2>4. ASSUME NEW p \in Procs, pc[p] # "idle",
               \A q \in Procs : pc'[q] # "idle" => pc[q] # "idle" /\ q # p
        PROVE  Drafts'
    BY <2>2, <2>4 DEF AtMostOne, Drafts
  <2>5. ASSUME NEW p \in Procs, Over(p)
        PROVE  \A q \in Procs : pc'[q] # "idle" => pc[q] # "idle" /\ q # p
    BY <2>3, <2>5 DEF TypeOK, Over
  <2>6. ASSUME NEW p \in Procs, NEW r \in Rules, NEW s \in Statuses,
               AddLoad(p, r, s), sound' = sound
        PROVE  Obeys' /\ Holds' /\ Drafts'
    <3> DEFINE e == [rule |-> r, print |-> NoPrint, status |-> s]
    <3>1. /\ pc[p] = "idle" /\ pc' = [pc EXCEPT ![p] = "open"]
          /\ log' = [log EXCEPT ![p] = add(load(file), e)]
          /\ entry' = [entry EXCEPT ![p] = e]
          /\ file' = file /\ latest' = latest
      BY <2>6 DEF AddLoad
    <3>2. pc'[p] = "open" /\ log'[p] = add(load(file), e) /\ entry'[p] = e
      BY <2>3, <3>1 DEF TypeOK
    <3>3. \A q \in Procs : q # p => pc[q] = "idle" /\ pc'[q] = "idle"
      BY <2>1, <2>3, <3>1, <3>2 DEF AtMostOne, TypeOK
    <3>4. e \in Entries /\ e.rule = r
      BY DEF Entries
    <3> HIDE DEF e
    <3>5. /\ find_by_rule(log'[p], r) = {e}
          /\ \A t \in Rules \ {r} : Waives(log'[p], t) <=> Waives(load(file), t)
      BY <2>3, <3>2, <3>4, AddDecides DEF Waives
    <3>6. \A t \in Rules : Acknowledged(t)' <=> Acknowledged(t)
      BY <3>1 DEF Acknowledged
    <3>7. Obeys'
      BY <2>2, <3>1, <3>6, Zenon DEF Obeys, Waives
    <3>8. \A q \in Procs : pc[q] # "write"
      BY <3>1, <3>3
    <3>9. sound => \A t \in Rules : Acknowledged(t) => Waives(load(file), t)
      BY <2>2, <3>8, Zenon DEF Holds
    <3>10. Holds'
      BY <2>6, <3>1, <3>6, <3>9, Zenon DEF Holds, Waives
    <3>11. Drafted(p)'
      <4>1. /\ \A t \in Rules \ {r} : Waives(log'[p], t) => Acknowledged(t)
            /\ sound => \A t \in Rules \ {r} : Acknowledged(t) => Waives(log'[p], t)
        BY <2>2, <3>5, <3>9, Zenon DEF Obeys
      <4> QED BY <2>6, <3>2, <3>4, <3>5, <3>6, <4>1 DEF Drafted, Waives
    <3> QED BY <3>3, <3>7, <3>10, <3>11 DEF Drafts
  <2>7. ASSUME NEW p \in Procs, AddOpen(p), sound' = sound
        PROVE  Obeys' /\ Holds' /\ Drafts'
    <3>1. /\ file' = Unreadable /\ pc[p] = "open" /\ pc' = [pc EXCEPT ![p] = "write"]
          /\ log' = log /\ entry' = entry /\ latest' = latest
      BY <2>7 DEF AddOpen
    <3>2. pc'[p] = "write" /\ \A q \in Procs : pc'[q] # "idle" => q = p
      BY <2>1, <2>3, <3>1 DEF AtMostOne, TypeOK
    <3>3. Obeys'
      BY <3>1, NothingWaives, Zenon DEF Obeys, Waives
    <3>4. Holds'
      BY <3>2, Zenon DEF Holds
    <3>5. Drafted(p)
      BY <2>2, <3>1 DEF Drafts
    <3>6. Drafted(p)'
      BY <2>7, <3>1, <3>5 DEF Drafted, Waives, Acknowledged
    <3> QED BY <3>2, <3>3, <3>4, <3>6 DEF Drafts
  <2>8. ASSUME NEW p \in Procs, AddWrite(p), sound' = (sound /\ file' # Unreadable)
        PROVE  Obeys' /\ Holds' /\ Drafts'
    <3>1. /\ pc[p] = "write" /\ Over(p)
          /\ latest' = [latest EXCEPT ![entry[p].rule] = {entry[p].status}]
          /\ file' = Saved(log[p]) \/ file' = Unreadable
      BY <2>8 DEF AddWrite
    <3>2. Drafted(p)
      BY <2>2, <3>1 DEF Drafts
    <3>3. log[p] \in Logs /\ latest \in [Rules -> SUBSET Statuses]
      BY <2>3 DEF TypeOK
    <3>4. PICK own \in Rules : own = entry[p].rule /\ find_by_rule(log[p], own) = {entry[p]}
      BY <3>2 DEF Drafted
    <3>5. Waives(log[p], own) <=> Acknowledged(own)'
      BY <3>1, <3>3, <3>4 DEF Waives, Acknowledged
    <3>6. \A t \in Rules \ {own} : Acknowledged(t)' <=> Acknowledged(t)
      BY <3>1, <3>3, <3>4 DEF Acknowledged
    <3>7. /\ \A t \in Rules : Waives(log[p], t) => Acknowledged(t)'
          /\ sound => \A t \in Rules : Acknowledged(t)' => Waives(log[p], t)
      BY <3>2, <3>4, <3>5, <3>6, Zenon DEF Drafted
    <3>8. CASE file' = Saved(log[p])
      <4>1. load(file)' = log[p]
        BY <3>3, <3>8, LoadSaved
      <4>2. \A t : Waives(load(file), t)' <=> Waives(log[p], t)
        BY <4>1 DEF Waives
      <4>3. sound' => sound
        BY <2>8, Zenon
      <4> QED BY <2>4, <2>5, <3>1, <3>7, <4>2, <4>3, Zenon DEF Obeys, Holds
    <3>9. CASE file' = Unreadable
      <4>1. \A t : ~ Waives(load(file), t)'
        BY <3>9, NothingWaives, Zenon DEF Waives
      <4>2. ~ sound'
        BY <2>8, <3>9, Zenon
      <4> QED BY <2>4, <2>5, <3>1, <4>1, <4>2, Zenon DEF Obeys, Holds
    <3> QED BY <3>1, <3>8, <3>9
  <2>9. ASSUME NEW p \in Procs, AddOpenFails(p) \/ Crash(p), sound' = FALSE
        PROVE  Obeys' /\ Holds' /\ Drafts'
    <3>1. pc[p] # "idle" /\ Over(p) /\ file' = file /\ latest' = latest
      BY <2>9 DEF AddOpenFails, Crash
    <3>2. Obeys'
      BY <2>2, <3>1, Zenon DEF Obeys, Waives, Acknowledged
    <3>3. Holds'
      BY <2>9, Zenon DEF Holds
    <3> QED BY <2>4, <2>5, <3>1, <3>2, <3>3
  <2> QED BY <1>2, <2>1, <2>6, <2>7, <2>8, <2>9, Zenon DEF MCNext
<1> QED BY <1>0, <1>1, <1>2, Zenon

(* The record of overlaps and failures only watches.                       *)
LEMMA MCNextIsNext == [MCNext]_<<vars, solo, sound>> => [Next]_vars
<1>1. MCNext => Next
  BY Zenon DEF MCNext, Next, Command
<1> QED BY <1>1 DEF vars

THEOREM DecisionsAreFollowed == MCSpec => [](Inv /\ DecisionsFollow)
<1>1. MCInit => Inv /\ DecisionsFollow
  BY InitInv, MCInitFollows DEF MCInit
<1>2. Inv /\ DecisionsFollow /\ [MCNext]_<<vars, solo, sound>> => (Inv /\ DecisionsFollow)'
  BY MCNextIsNext, NextInv, MCNextFollows
<1> QED BY <1>1, <1>2, PTL DEF MCSpec

(* A rule that the log does not decide to waive is not waived.             *)
LEMMA WaivedByRule ==
    ASSUME NEW l, NEW f
    PROVE  Waived(l, f) <=> Waives(l, f.rule)
BY DEF Waived, Waives

(* While commands run one at a time a gate lets a finding pass only by a   *)
(* waiver that was acknowledged last for its rule, whatever commands died  *)
(* and whatever writes failed in between.                                  *)
THEOREM LatestIsObeyed == MCSpec => []SoloGateObeysLatest
<1>1. Inv /\ DecisionsFollow => SoloGateObeysLatest
  <2> SUFFICES ASSUME DecisionsFollow, solo,
                      NEW F \in SUBSET Findings, NEW strict \in BOOLEAN,
                      NEW f \in Findings, Passes(f, F, strict)
               PROVE  latest[f.rule] \cap Waivers # {}
    BY Zenon DEF SoloGateObeysLatest, GateObeysLatest
  <2>1. f.rule \in Rules
    BY FindingsAssumption
  <2>2. Waived(load(file), f)
    BY DEF Passes, Gate, gated_exit_code
  <2>3. Acknowledged(f.rule)
    BY <2>1, <2>2, WaivedByRule, Zenon DEF DecisionsFollow
  <2> QED BY <2>3 DEF Acknowledged
<1> QED BY <1>1, DecisionsAreFollowed, PTL

(* When moreover nothing has failed a waiver holds from the command that   *)
(* acknowledged it on.                                                     *)
THEOREM WaiversHold == MCSpec => []SoundWaiverHolds
<1>1. Inv /\ DecisionsFollow => SoundWaiverHolds
  <2> SUFFICES ASSUME DecisionsFollow, solo, sound, Resting,
                      NEW F \in SUBSET Findings, NEW strict \in BOOLEAN,
                      Gate(F, strict) = 1
               PROVE  \E f \in F : Gating(f, strict) /\ latest[f.rule] \cap Waivers = {}
    BY Zenon DEF SoundWaiverHolds, WaiverHolds
  <2>1. PICK f \in F : Gating(f, strict) /\ ~ Waived(load(file), f)
    BY DEF Gate, gated_exit_code
  <2>2. f.rule \in Rules
    BY FindingsAssumption
  <2>3. \A p \in Procs : pc[p] # "write"
    BY DEF Resting
  <2>4. ~ Acknowledged(f.rule)
    BY <2>1, <2>2, <2>3, WaivedByRule, Zenon DEF DecisionsFollow
  <2> QED BY <2>1, <2>4 DEF Acknowledged
<1> QED BY <1>1, DecisionsAreFollowed, PTL

=============================================================================
