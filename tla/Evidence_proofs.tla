--------------------------- MODULE Evidence_proofs ---------------------------
(***************************************************************************)
(* Proofs about module Evidence: of trace for any requirement files, CSV   *)
(* tables and tags, of release, verify and audit-pack for any evidence     *)
(* files, tests and commands, and then of all the components that the      *)
(* module puts side by side.  A recursive function and a fold are unfolded *)
(* by the least number where what is claimed of them would fail.           *)
(***************************************************************************)
EXTENDS Evidence, FoldLemmas, FiniteSetTheorems, TLAPS

-----------------------------------------------------------------------------
(* Importing.                                                              *)

LEMMA RowIsRequirement ==
    ASSUME NEW row \in Seq(Texts)
    PROVE  FromRow(row) \in Requirements
<1> DEFINE field(n) == IF n > Len(row) THEN NoText ELSE row[n]
<1>1. ASSUME NEW n \in Nat \ {0}
      PROVE  field(n) \in Texts
  <2>1. CASE n > Len(row)
    BY <2>1, TextsAssumption
  <2>2. CASE ~ (n > Len(row))
    BY <2>2
  <2> QED BY <2>1, <2>2
<1>2. /\ field(1) \in Texts /\ field(2) \in Texts /\ field(3) \in Texts
      /\ field(4) \in Texts /\ field(5) \in Texts
  BY <1>1
<1>3. Comma \in Texts /\ Safety \in Texts
  BY TextsAssumption
<1>4. FromRow(row) = Requirement(field(1), field(2),
                                 IF field(3) = NoText THEN Safety ELSE field(3), field(4),
                                 IF Len(row) > 5 THEN Comma ELSE field(5))
  BY DEF FromRow
<1> HIDE DEF field
<1> QED BY <1>2, <1>3, <1>4 DEF Requirement, Requirements

(* A requirement that is added brings no id in twice and loses none.       *)
LEMMA AddNewKeeps ==
    ASSUME NEW reqs \in Seq(Requirements), NEW r \in Requirements
    PROVE  /\ AddNew(reqs, r) \in Seq(Requirements)
           /\ ToSet(reqs) \subseteq ToSet(AddNew(reqs, r))
           /\ Twice(AddNew(reqs, r)) = Twice(reqs)
<1>1. CASE AddNew(reqs, r) = reqs
  BY <1>1
<1>2. CASE AddNew(reqs, r) # reqs
  <2> DEFINE new == Append(reqs, r)
  <2>1. AddNew(reqs, r) = new /\ r.id \notin IdsOf(reqs)
    BY <1>2 DEF AddNew
  <2>2. /\ new \in Seq(Requirements) /\ Len(reqs) \in Nat
        /\ DOMAIN reqs = 1..Len(reqs) /\ DOMAIN new = 1..(Len(reqs) + 1)
        /\ \A i \in 1..Len(reqs) : new[i] = reqs[i]
        /\ new[Len(reqs) + 1] = r
    OBVIOUS
  <2> HIDE DEF new
  <2>3. ToSet(reqs) \subseteq ToSet(new)
    BY <2>2 DEF ToSet
  <2>4. \A j \in 1..Len(reqs) : reqs[j].id # r.id
    BY <2>1, <2>2 DEF IdsOf
  <2>5. {k \in DOMAIN new : \E j \in DOMAIN new : j < k /\ new[j].id = new[k].id}
          = {k \in DOMAIN reqs : \E j \in DOMAIN reqs : j < k /\ reqs[j].id = reqs[k].id}
    BY <2>2, <2>4
  <2>6. Twice(new) = Twice(reqs)
    BY <2>2, <2>5 DEF Twice
  <2> QED BY <2>1, <2>2, <2>3, <2>6
<1> QED BY <1>1, <1>2

(* The first rows of a table can be read one after the other.              *)
Reads(rows, reqs, m, read) ==
    /\ read \in [0..m -> Seq(Requirements)]
    /\ read[0] = reqs
    /\ \A n \in 1..m : read[n] = AddNew(read[n - 1], FromRow(rows[n]))

LEMMA RowsAreRead ==
    ASSUME NEW rows \in Seq(Seq(Texts)), NEW reqs \in Seq(Requirements)
    PROVE  \E read : Reads(rows, reqs, Len(rows), read)
<1> DEFINE S == {m \in Nat : \E read : Reads(rows, reqs, m, read)}
<1>0. Len(rows) \in Nat
  OBVIOUS
<1>1. 0 \in S
  <2>1. Reads(rows, reqs, 0, [n \in 0..0 |-> reqs])
    BY DEF Reads
  <2> QED BY <2>1
<1>2. ASSUME NEW m \in 1..Len(rows), m - 1 \in S
      PROVE  m \in S
  <2>1. PICK read : Reads(rows, reqs, m - 1, read)
    BY <1>2
  <2>2. /\ read \in [0..(m - 1) -> Seq(Requirements)] /\ read[0] = reqs
        /\ \A n \in 1..(m - 1) : read[n] = AddNew(read[n - 1], FromRow(rows[n]))
    BY <2>1 DEF Reads
  <2> DEFINE next == AddNew(read[m - 1], FromRow(rows[m]))
             more == [n \in 0..m |-> IF n = m THEN next ELSE read[n]]
  <2>3. next \in Seq(Requirements)
    <3>1. read[m - 1] \in Seq(Requirements) /\ rows[m] \in Seq(Texts)
      BY <2>2
    <3> QED BY <3>1, RowIsRequirement, AddNewKeeps
  <2> HIDE DEF next
  <2>4. /\ more[m] = next
        /\ \A n \in 0..(m - 1) : more[n] = read[n]
        /\ more \in [0..m -> Seq(Requirements)]
    BY <2>2, <2>3
  <2> HIDE DEF more
  <2>5. ASSUME NEW n \in 1..m
        PROVE  more[n] = AddNew(more[n - 1], FromRow(rows[n]))
    <3>1. CASE n = m
      BY <2>4, <3>1 DEF next
    <3>2. CASE n # m
      <4>1. n \in 1..(m - 1) /\ n \in 0..(m - 1) /\ n - 1 \in 0..(m - 1)
        BY <3>2
      <4> QED BY <2>2, <2>4, <4>1
    <3> QED BY <3>1, <3>2
  <2>6. more[0] = reqs
    BY <2>2, <2>4
  <2>7. Reads(rows, reqs, m, more)
    BY <2>4, <2>5, <2>6 DEF Reads
  <2> QED BY <2>7
<1> HIDE DEF S
<1>3. Len(rows) \in S
  <2>1. \A m \in 1..Len(rows) : m - 1 \in S => m \in S
    BY <1>2
  <2>2. \A m \in 0..Len(rows) : m \in S
    BY <1>0, <1>1, <2>1, UpTo, Zenon
  <2> QED BY <1>0, <2>2
<1> QED BY <1>3 DEF S

LEMMA ImportReads ==
    ASSUME NEW rows \in Seq(Seq(Texts)), NEW reqs \in Seq(Requirements)
    PROVE  \E read : /\ Reads(rows, reqs, Len(rows), read)
                     /\ import_csv(rows, reqs) = read[Len(rows)]
<1> DEFINE step(f) == [n \in 0..Len(rows) |->
                        IF n = 0 THEN reqs ELSE AddNew(f[n - 1], FromRow(rows[n]))]
           chosen == CHOOSE f : f = step(f)
<1>0. Len(rows) \in Nat
  OBVIOUS
<1>1. PICK read : Reads(rows, reqs, Len(rows), read)
  BY RowsAreRead
<1>2. read = step(read)
  BY <1>0, <1>1 DEF Reads
<1>3. chosen = step(chosen)
  BY <1>2
<1>4. import_csv(rows, reqs) = chosen[Len(rows)]
  BY DEF import_csv
<1> HIDE DEF chosen
<1>5. \A n \in 0..Len(rows) :
           chosen[n] = IF n = 0 THEN reqs ELSE AddNew(chosen[n - 1], FromRow(rows[n]))
  BY <1>3, Zenon
<1> DEFINE S == {n \in Nat : chosen[n] = read[n]}
<1>6. 0 \in S
  BY <1>0, <1>1, <1>5 DEF Reads
<1>7. ASSUME NEW m \in 1..Len(rows), m - 1 \in S
      PROVE  m \in S
  <2>1. m \in 0..Len(rows) /\ m # 0
    OBVIOUS
  <2> QED BY <1>1, <1>5, <1>7, <2>1 DEF Reads
<1> HIDE DEF S
<1>8. Len(rows) \in S
  <2>1. \A m \in 1..Len(rows) : m - 1 \in S => m \in S
    BY <1>7
  <2>2. \A m \in 0..Len(rows) : m \in S
    BY <1>0, <1>6, <2>1, UpTo, Zenon
  <2> QED BY <1>0, <2>2
<1> QED BY <1>1, <1>4, <1>8 DEF S

(* An import keeps what there was, and brings no id in twice.              *)
THEOREM ImportKeeps ==
    ASSUME NEW rows \in Seq(Seq(Texts)), NEW reqs \in Seq(Requirements)
    PROVE  /\ import_csv(rows, reqs) \in Seq(Requirements)
           /\ ToSet(reqs) \subseteq ToSet(import_csv(rows, reqs))
           /\ Twice(import_csv(rows, reqs)) = Twice(reqs)
<1>0. Len(rows) \in Nat
  OBVIOUS
<1>1. PICK read : /\ Reads(rows, reqs, Len(rows), read)
                  /\ import_csv(rows, reqs) = read[Len(rows)]
  BY ImportReads
<1> DEFINE S == {n \in 0..Len(rows) :
                   ToSet(reqs) \subseteq ToSet(read[n]) /\ Twice(read[n]) = Twice(reqs)}
<1>2. 0 \in S
  BY <1>0, <1>1 DEF Reads
<1>3. ASSUME NEW m \in 1..Len(rows), m - 1 \in S
      PROVE  m \in S
  <2>1. read[m - 1] \in Seq(Requirements)
    <3>1. m - 1 \in 0..Len(rows)
      BY <1>0
    <3>2. read \in [0..Len(rows) -> Seq(Requirements)]
      BY <1>1 DEF Reads
    <3> HIDE DEF S
    <3> QED BY <3>1, <3>2
  <2>2. FromRow(rows[m]) \in Requirements
    <3>1. rows[m] \in Seq(Texts)
      BY <1>0
    <3> QED BY <3>1, RowIsRequirement
  <2>3. read[m] = AddNew(read[m - 1], FromRow(rows[m]))
    BY <1>1 DEF Reads
  <2>4. /\ ToSet(read[m - 1]) \subseteq ToSet(read[m])
        /\ Twice(read[m]) = Twice(read[m - 1])
    BY <2>1, <2>2, <2>3, AddNewKeeps
  <2> QED BY <1>3, <2>4
<1> HIDE DEF S
<1>4. Len(rows) \in S
  <2>1. \A m \in 1..Len(rows) : m - 1 \in S => m \in S
    BY <1>3
  <2>2. \A m \in 0..Len(rows) : m \in S
    BY <1>0, <1>2, <2>1, UpTo, Zenon
  <2> QED BY <1>0, <2>2
<1> QED BY <1>0, <1>1, <1>4 DEF Reads, S

-----------------------------------------------------------------------------
(* The file.                                                               *)

TraceInv == RequirementsInv /\ TwiceByPeople

LEMMA NothingTwice ==
    /\ <<>> \in Seq(Requirements)
    /\ Twice(<<>>) = {}
BY DEF Twice

(* What is written twice in a file of people's is written twice.           *)
LEMMA PeoplesOwn ==
    ASSUME NEW f \in Files
    PROVE  f \in RequirementFiles /\ f.reqs \in Seq(Requirements)
           /\ Twice(f.reqs) \subseteq WrittenTwice
BY FilesAssumption DEF RequirementFiles, WrittenTwice

LEMMA MembersAreRequirements ==
    ASSUME NEW reqs \in Seq(Requirements)
    PROVE  ToSet(reqs) \subseteq Requirements
BY DEF ToSet

THEOREM TraceInitially == Init => TraceInv
<1> SUFFICES ASSUME Init PROVE TraceInv
  OBVIOUS
<1>1. file \in Files /\ tags \in TagSets /\ pc = "idle" /\ mem = <<>> /\ known = ToSet(file.reqs)
  BY DEF Init, ToSet
<1>2. file \in RequirementFiles /\ file.reqs \in Seq(Requirements)
      /\ Twice(file.reqs) \subseteq WrittenTwice
  BY <1>1, PeoplesOwn
<1>3. TypeOK
  BY <1>1, <1>2, MembersAreRequirements, NothingTwice DEF TypeOK
<1>4. TwiceByPeople
  BY <1>1, <1>2, NothingTwice DEF TwiceByPeople
<1> QED BY <1>1, <1>3, <1>4 DEF TraceInv, RequirementsInv, KnownIsKept, ImportKeepsKnown

LEMMA TraceNextPreserves ==
    ASSUME TraceInv, [Next]_vars
    PROVE  TraceInv'
<1>0. TypeOK /\ KnownIsKept /\ ImportKeepsKnown /\ TwiceByPeople
  BY DEF TraceInv, RequirementsInv
<1>a. file.reqs \in Seq(Requirements) /\ mem \in Seq(Requirements)
  BY <1>0 DEF TypeOK, RequirementFiles
<1>1. ASSUME NEW table \in Tables, ImportLoad(table)
      PROVE  TraceInv'
  <2>1. /\ pc = "idle" /\ pc' = "open" /\ file' = file /\ tags' = tags /\ known' = known
        /\ file.kind # "torn" /\ mem' = import_csv(table, file.reqs)
    BY <1>1 DEF ImportLoad, load_requirements
  <2>2. table \in Seq(Seq(Texts))
    BY TablesAssumption
  <2>3. /\ mem' \in Seq(Requirements)
        /\ ToSet(file.reqs) \subseteq ToSet(mem')
        /\ Twice(mem') = Twice(file.reqs)
    BY <1>a, <2>1, <2>2, ImportKeeps
  <2>4. TypeOK'
    BY <1>0, <2>1, <2>3 DEF TypeOK
  <2>5. KnownIsKept' /\ ImportKeepsKnown'
    BY <1>0, <2>1, <2>3 DEF KnownIsKept, ImportKeepsKnown
  <2>6. TwiceByPeople'
    BY <1>0, <2>1, <2>3 DEF TwiceByPeople
  <2> QED BY <2>4, <2>5, <2>6 DEF TraceInv, RequirementsInv
<1>2. ASSUME SaveOpen PROVE TraceInv'
  <2>1. CASE file' = Torn /\ pc' = "write" /\ UNCHANGED mem
    <3>1. Torn \in RequirementFiles /\ Torn.kind = "torn" /\ Twice(Torn.reqs) = {}
      BY NothingTwice DEF Torn, RequirementFiles
    <3>2. pc = "open" /\ tags' = tags /\ known' = known
      BY <1>2 DEF SaveOpen
    <3>3. TypeOK'
      BY <1>0, <2>1, <3>1, <3>2 DEF TypeOK
    <3>4. KnownIsKept' /\ ImportKeepsKnown'
      BY <1>0, <2>1, <3>1, <3>2 DEF KnownIsKept, ImportKeepsKnown
    <3>5. TwiceByPeople'
      BY <1>0, <2>1, <3>1 DEF TwiceByPeople
    <3> QED BY <3>3, <3>4, <3>5 DEF TraceInv, RequirementsInv
  <2>2. CASE pc' = "idle" /\ mem' = <<>> /\ UNCHANGED file
    <3>1. tags' = tags /\ known' = known
      BY <1>2 DEF SaveOpen
    <3> QED BY <1>0, <2>2, <3>1, NothingTwice
            DEF TraceInv, RequirementsInv, TypeOK, KnownIsKept, ImportKeepsKnown, TwiceByPeople
  <2> QED BY <1>2, <2>1, <2>2 DEF SaveOpen
<1>3. ASSUME Save PROVE TraceInv'
  <2>1. /\ pc = "write" /\ pc' = "idle" /\ mem' = <<>> /\ tags' = tags
        /\ file' = Listed(mem) /\ known' = known \cup ToSet(mem)
    BY <1>3 DEF Save
  <2>2. /\ file' \in RequirementFiles /\ file'.reqs = mem
    BY <1>a, <2>1 DEF Listed, RequirementFiles
  <2>3. known' = ToSet(mem)
    BY <1>0, <2>1 DEF ImportKeepsKnown
  <2>4. TypeOK'
    BY <1>0, <1>a, <2>1, <2>2, <2>3, NothingTwice, MembersAreRequirements DEF TypeOK
  <2>5. KnownIsKept' /\ ImportKeepsKnown'
    BY <2>1, <2>2, <2>3 DEF KnownIsKept, ImportKeepsKnown
  <2>6. TwiceByPeople'
    BY <1>0, <2>1, <2>2, NothingTwice DEF TwiceByPeople
  <2> QED BY <2>4, <2>5, <2>6 DEF TraceInv, RequirementsInv
<1>7. ASSUME SaveCutShort PROVE TraceInv'
  <2>1. /\ pc = "write" /\ pc' = "idle" /\ mem' = <<>> /\ tags' = tags
        /\ file' = Torn /\ known' = known \cup ToSet(mem)
    BY <1>7 DEF SaveCutShort
  <2>2. Torn \in RequirementFiles /\ Torn.kind = "torn" /\ Twice(Torn.reqs) = {}
    BY NothingTwice DEF Torn, RequirementFiles
  <2>3. known' = ToSet(mem)
    BY <1>0, <2>1 DEF ImportKeepsKnown
  <2>4. TypeOK'
    BY <1>0, <1>a, <2>1, <2>2, <2>3, NothingTwice, MembersAreRequirements DEF TypeOK
  <2>5. KnownIsKept' /\ ImportKeepsKnown'
    BY <2>1, <2>2 DEF KnownIsKept, ImportKeepsKnown
  <2>6. TwiceByPeople'
    BY <2>1, <2>2, NothingTwice DEF TwiceByPeople
  <2> QED BY <2>4, <2>5, <2>6 DEF TraceInv, RequirementsInv
<1>4. ASSUME Crash PROVE TraceInv'
  <2>1. pc' = "idle" /\ mem' = <<>> /\ file' = file /\ tags' = tags /\ known' = known
    BY <1>4 DEF Crash
  <2> QED BY <1>0, <2>1, NothingTwice
          DEF TraceInv, RequirementsInv, TypeOK, KnownIsKept, ImportKeepsKnown, TwiceByPeople
<1>5. ASSUME NEW f \in Files, Edit(f)
      PROVE  TraceInv'
  <2>1. /\ pc = "idle" /\ pc' = pc /\ mem' = mem /\ tags' = tags
        /\ file' = f /\ known' = ToSet(f.reqs)
    BY <1>5 DEF Edit
  <2>2. /\ f \in RequirementFiles /\ f.reqs \in Seq(Requirements)
        /\ Twice(f.reqs) \subseteq WrittenTwice
    BY PeoplesOwn
  <2>3. TypeOK'
    BY <1>0, <2>1, <2>2, MembersAreRequirements DEF TypeOK
  <2>4. KnownIsKept' /\ ImportKeepsKnown'
    BY <2>1 DEF KnownIsKept, ImportKeepsKnown
  <2>5. TwiceByPeople'
    BY <1>0, <2>1, <2>2 DEF TwiceByPeople
  <2> QED BY <2>3, <2>4, <2>5 DEF TraceInv, RequirementsInv
<1>6. CASE UNCHANGED vars
  BY <1>0, <1>6 DEF vars, TraceInv, RequirementsInv, TypeOK, KnownIsKept, ImportKeepsKnown,
                    TwiceByPeople
<1> QED BY <1>1, <1>2, <1>3, <1>4, <1>5, <1>6, <1>7 DEF Next

(* The file always has what people wrote and imports acknowledged, unless  *)
(* it cannot be read at all; no import makes an id twice.                  *)
THEOREM TraceInvariance == Spec => []TraceInv
<1>1. TraceInv /\ [Next]_vars => TraceInv'
  BY TraceNextPreserves
<1> QED BY TraceInitially, <1>1, PTL DEF Spec

-----------------------------------------------------------------------------
(* The gates.                                                              *)

(* What a trace has found out when it passes.                              *)
LEMMA PassedTrace ==
    ASSUME NEW opts \in Options, trace(opts).exit = 0
    PROVE  /\ file.kind # "torn"
           /\ ~ Below(Cardinality(Having(file.reqs, FALSE)), Len(file.reqs), opts.annotated)
           /\ opts.strict => hlr_violations(file.reqs) = {}
<1> DEFINE refused == \/ ~ load_requirements.ok
                      \/ Below(Cardinality(Having(load_requirements.reqs, FALSE)),
                               Len(load_requirements.reqs), opts.annotated)
                      \/ Below(Cardinality(Having(load_requirements.reqs, TRUE)),
                               Len(load_requirements.reqs), opts.tested)
           broken == hlr_violations(load_requirements.reqs) # {} /\ (opts.strict \/ HighAsil)
<1>1. trace(opts) = IF refused THEN Outcome(1, FALSE)
                    ELSE Outcome(IF broken THEN 1 ELSE 0, TRUE)
  BY DEF trace
<1>2. Outcome(1, FALSE).exit = 1 /\ Outcome(1, TRUE).exit = 1
  BY DEF Outcome
<1> HIDE DEF refused, broken
<1>3. ~ refused /\ ~ broken
  <2>1. ASSUME refused PROVE FALSE
    <3>1. trace(opts) = Outcome(1, FALSE)
      BY <1>1, <2>1, Zenon
    <3>2. trace(opts).exit = 1
      BY <1>2, <3>1, Zenon
    <3> QED BY <3>2
  <2>2. ASSUME ~ refused, broken PROVE FALSE
    <3>1. trace(opts) = Outcome(1, TRUE)
      BY <1>1, <2>2, Zenon
    <3>2. trace(opts).exit = 1
      BY <1>2, <3>1, Zenon
    <3> QED BY <3>2
  <2> QED BY <2>1, <2>2
<1>4. load_requirements.ok = (file.kind # "torn") /\ load_requirements.reqs = file.reqs
  BY DEF load_requirements
<1>5. (opts.strict \/ HighAsil) => hlr_violations(load_requirements.reqs) = {}
  BY <1>3 DEF broken
<1>6. load_requirements.ok /\ ~ Below(Cardinality(Having(load_requirements.reqs, FALSE)),
                                     Len(load_requirements.reqs), opts.annotated)
  BY <1>3 DEF refused
<1> QED BY <1>4, <1>5, <1>6

LEMMA PlacesAreCounted ==
    ASSUME NEW reqs \in Seq(Requirements)
    PROVE  /\ DOMAIN reqs = 1..Len(reqs) /\ Len(reqs) \in Nat
           /\ IsFiniteSet(DOMAIN reqs) /\ Cardinality(DOMAIN reqs) = Len(reqs)
<1>1. DOMAIN reqs = 1..Len(reqs) /\ Len(reqs) \in Nat
  OBVIOUS
<1>2. IsFiniteSet(1..Len(reqs)) /\ Cardinality(1..Len(reqs)) = Len(reqs)
  BY <1>1, FS_Interval
<1> QED BY <1>1, <1>2

(* A trace that passes with 100 percent asked for has found a tag for each *)
(* requirement that people wrote or an import acknowledged.                *)
LEMMA KnownIsCovered == TraceInv => GateCoversKnown
<1> SUFFICES ASSUME TraceInv, NEW opts \in Options, opts.annotated = 100,
                    trace(opts).exit = 0, NEW r \in known
             PROVE  \E t \in scan_annotations : t.id = r.id /\ ~ t.test
  BY DEF GateCoversKnown
<1> DEFINE reqs == file.reqs
           had == Having(reqs, FALSE)
<1>1. /\ file.kind # "torn"
      /\ ~ Below(Cardinality(had), Len(reqs), 100)
  BY PassedTrace
<1>2. reqs \in Seq(Requirements)
  BY DEF TraceInv, RequirementsInv, TypeOK, RequirementFiles
<1>3. r \in ToSet(reqs)
  BY <1>1 DEF TraceInv, RequirementsInv, KnownIsKept
<1> HIDE DEF reqs
<1>4. PICK i \in DOMAIN reqs : reqs[i] = r
  BY <1>3 DEF ToSet
<1>5. had \in SUBSET (DOMAIN reqs) /\ \A k \in had :
            \E t \in scan_annotations : t.id = reqs[k].id /\ t.test = FALSE
  BY DEF Having
<1> HIDE DEF had
<1>6. Cardinality(had) \in Nat /\ Cardinality(had) <= Len(reqs)
  BY <1>2, <1>5, PlacesAreCounted, FS_Subset, FS_CardinalityType
<1>7. Len(reqs) > 0
  BY <1>2, <1>4, PlacesAreCounted
<1>8. Cardinality(had) = Len(reqs)
  BY <1>1, <1>2, <1>6, <1>7 DEF Below
<1>9. had = DOMAIN reqs
  BY <1>2, <1>5, <1>8, PlacesAreCounted, FS_Subset
<1> QED BY <1>4, <1>5, <1>9

(* A strict trace that passes has a two-level hierarchy of the known       *)
(* requirements.                                                           *)
LEMMA HierarchyOfTheKnown == TraceInv => StrictMeansHierarchy
<1> SUFFICES ASSUME TraceInv, NEW opts \in Options, opts.strict,
                    trace(opts).exit = 0, NEW r \in known
             PROVE  IF r.parent = NoText
                      THEN \E c \in known : c.parent = r.id
                      ELSE \E p \in known : p.id = r.parent /\ p.parent = NoText
  BY DEF StrictMeansHierarchy
<1> DEFINE reqs == file.reqs
<1>1. file.kind # "torn" /\ hlr_violations(reqs) = {}
  BY PassedTrace
<1>2. known = ToSet(reqs)
  BY <1>1 DEF TraceInv, RequirementsInv, KnownIsKept
<1> HIDE DEF reqs
<1>3. \A i \in DOMAIN reqs : reqs[i] \in known
  BY <1>2 DEF ToSet
<1>4. PICK i \in DOMAIN reqs : reqs[i] = r
  BY <1>2 DEF ToSet
<1>5. \A h \in HLRs(reqs) : Children(reqs, h) # {}
  BY <1>1 DEF hlr_violations
<1>6. \A j \in DOMAIN reqs : reqs[j].parent # NoText => reqs[j].parent \in HLRs(reqs)
  BY <1>1 DEF hlr_violations
<1>7. CASE r.parent = NoText
  <2>1. r.id \in HLRs(reqs)
    BY <1>4, <1>7 DEF HLRs
  <2>2. PICK k \in DOMAIN reqs : reqs[k].parent = r.id
    BY <1>5, <2>1 DEF Children
  <2> QED BY <1>3, <1>7, <2>2
<1>8. CASE r.parent # NoText
  <2>1. r.parent \in HLRs(reqs)
    BY <1>4, <1>6, <1>8
  <2>2. PICK k \in DOMAIN reqs : reqs[k].parent = NoText /\ reqs[k].id = r.parent
    BY <2>1 DEF HLRs
  <2> QED BY <1>3, <1>8, <2>2
<1> QED BY <1>7, <1>8

-----------------------------------------------------------------------------
(* The reports.                                                            *)

(* Where ids are distinct, an id stands for one place in the list.         *)
LEMMA IdsAreOfOne ==
    ASSUME NEW reqs \in Seq(Requirements), Distinct(reqs)
    PROVE  \A i, j \in DOMAIN reqs : reqs[i].id = reqs[j].id => i = j
<1> DEFINE ids == [i \in DOMAIN reqs |-> reqs[i].id]
<1>1. ids \in Surjection(DOMAIN reqs, IdsOf(reqs))
  BY DEF Surjection, IdsOf
<1>2. Cardinality(IdsOf(reqs)) = Cardinality(DOMAIN reqs)
  BY PlacesAreCounted DEF Distinct
<1>3. ids \in Injection(DOMAIN reqs, IdsOf(reqs))
  <2> HIDE DEF ids
  <2> QED BY <1>1, <1>2, PlacesAreCounted, FS_Surjection
<1> QED BY <1>3 DEF Injection, IsInjective

IdsAt(reqs, places) == {reqs[i].id : i \in places}

LEMMA AsManyIds ==
    ASSUME NEW reqs \in Seq(Requirements), Distinct(reqs), NEW places \in SUBSET (DOMAIN reqs)
    PROVE  Cardinality(IdsAt(reqs, places)) = Cardinality(places)
<1> DEFINE ids == [i \in places |-> reqs[i].id]
<1>1. \A i, j \in places : reqs[i].id = reqs[j].id => i = j
  BY IdsAreOfOne
<1>2. ids \in Bijection(places, IdsAt(reqs, places))
  BY <1>1 DEF Bijection, Injection, Surjection, IsInjective, IdsAt
<1>3. ExistsBijection(places, IdsAt(reqs, places))
  BY <1>2 DEF ExistsBijection
<1>4. IsFiniteSet(places)
  BY PlacesAreCounted, FS_Subset
<1> QED BY <1>3, <1>4, FS_Bijection

KindOf(r, t) == IF ~ t.test THEN "impl" ELSE IF Cyber(r) THEN "sec-test" ELSE "test"

(* An entry of the document is of a requirement and a tag that names it.   *)
LEMMA EntriesOfTheDocument ==
    ASSUME NEW reqs
    PROVE  \A e : e \in render_json(reqs) <=>
                     \E r \in ToSet(reqs), t \in scan_annotations :
                         t.id = r.id /\ e = [id |-> r.id, path |-> t.path, kind |-> KindOf(r, t)]
BY DEF render_json, Tagged, KindOf

HasTag(reqs, id, test) ==
    \E i \in DOMAIN reqs, t \in scan_annotations :
        t.id = reqs[i].id /\ id = t.id /\ t.test = test

(* The ids that the document shows with tags are those that have tags.     *)
LEMMA ShownAreHad ==
    ASSUME NEW reqs, \A t \in scan_annotations : t.test \in BOOLEAN
    PROVE  /\ Shown(reqs, {"impl"}) = IdsAt(reqs, Having(reqs, FALSE))
           /\ Shown(reqs, {"test", "sec-test"}) = IdsAt(reqs, Having(reqs, TRUE))
<1>1. \A r : \A t \in scan_annotations : KindOf(r, t) \in {"impl"} <=> t.test = FALSE
  BY DEF KindOf
<1>2. \A r : \A t \in scan_annotations :
          KindOf(r, t) \in {"test", "sec-test"} <=> t.test = TRUE
  BY DEF KindOf
<1>3. \A x : x \in Shown(reqs, {"impl"}) <=> HasTag(reqs, x, FALSE)
  <2> SUFFICES ASSUME NEW x
               PROVE  x \in Shown(reqs, {"impl"}) <=> HasTag(reqs, x, FALSE)
    OBVIOUS
  <2>1. ASSUME NEW i \in DOMAIN reqs, NEW t \in scan_annotations,
               t.id = reqs[i].id, x = t.id, t.test = FALSE
        PROVE  x \in Shown(reqs, {"impl"})
    <3> DEFINE e == [id |-> reqs[i].id, path |-> t.path, kind |-> KindOf(reqs[i], t)]
    <3>1. e \in render_json(reqs)
      BY <2>1, EntriesOfTheDocument DEF ToSet
    <3>2. e.id = x /\ e.kind = KindOf(reqs[i], t)
      BY <2>1
    <3>3. e.kind \in {"impl"}
      BY <1>1, <2>1, <3>2
    <3> HIDE DEF e
    <3> QED BY <3>1, <3>2, <3>3 DEF Shown
  <2>2. ASSUME x \in Shown(reqs, {"impl"})
        PROVE  HasTag(reqs, x, FALSE)
    <3>1. PICK e \in render_json(reqs) : e.kind \in {"impl"} /\ x = e.id
      BY <2>2 DEF Shown
    <3>2. PICK r \in ToSet(reqs), t \in scan_annotations :
              t.id = r.id /\ e = [id |-> r.id, path |-> t.path, kind |-> KindOf(r, t)]
      BY <3>1, EntriesOfTheDocument
    <3>3. KindOf(r, t) \in {"impl"} /\ x = r.id
      BY <3>1, <3>2
    <3>4. t.test = FALSE
      BY <1>1, <3>3
    <3>5. PICK i \in DOMAIN reqs : reqs[i] = r
      BY <3>2 DEF ToSet
    <3> QED BY <3>2, <3>3, <3>4, <3>5 DEF HasTag
  <2> QED BY <2>1, <2>2 DEF HasTag
<1>4. \A x : x \in Shown(reqs, {"test", "sec-test"}) <=> HasTag(reqs, x, TRUE)
  <2> SUFFICES ASSUME NEW x
               PROVE  x \in Shown(reqs, {"test", "sec-test"}) <=> HasTag(reqs, x, TRUE)
    OBVIOUS
  <2>1. ASSUME NEW i \in DOMAIN reqs, NEW t \in scan_annotations,
               t.id = reqs[i].id, x = t.id, t.test = TRUE
        PROVE  x \in Shown(reqs, {"test", "sec-test"})
    <3> DEFINE e == [id |-> reqs[i].id, path |-> t.path, kind |-> KindOf(reqs[i], t)]
    <3>1. e \in render_json(reqs)
      BY <2>1, EntriesOfTheDocument DEF ToSet
    <3>2. e.id = x /\ e.kind = KindOf(reqs[i], t)
      BY <2>1
    <3>3. e.kind \in {"test", "sec-test"}
      BY <1>2, <2>1, <3>2
    <3> HIDE DEF e
    <3> QED BY <3>1, <3>2, <3>3 DEF Shown
  <2>2. ASSUME x \in Shown(reqs, {"test", "sec-test"})
        PROVE  HasTag(reqs, x, TRUE)
    <3>1. PICK e \in render_json(reqs) : e.kind \in {"test", "sec-test"} /\ x = e.id
      BY <2>2 DEF Shown
    <3>2. PICK r \in ToSet(reqs), t \in scan_annotations :
              t.id = r.id /\ e = [id |-> r.id, path |-> t.path, kind |-> KindOf(r, t)]
      BY <3>1, EntriesOfTheDocument
    <3>3. KindOf(r, t) \in {"test", "sec-test"} /\ x = r.id
      BY <3>1, <3>2
    <3>4. t.test = TRUE
      BY <1>2, <3>3
    <3>5. PICK i \in DOMAIN reqs : reqs[i] = r
      BY <3>2 DEF ToSet
    <3> QED BY <3>2, <3>3, <3>4, <3>5 DEF HasTag
  <2> QED BY <2>1, <2>2 DEF HasTag
<1>5. ASSUME NEW b
      PROVE  \A x : x \in IdsAt(reqs, Having(reqs, b)) <=> HasTag(reqs, x, b)
  BY DEF IdsAt, Having, HasTag
<1>6. Shown(reqs, {"impl"}) = IdsAt(reqs, Having(reqs, FALSE))
  BY <1>3, <1>5
<1>7. Shown(reqs, {"test", "sec-test"}) = IdsAt(reqs, Having(reqs, TRUE))
  BY <1>4, <1>5
<1> QED BY <1>6, <1>7

(* When ids are distinct the counts, the document and the gaps agree, and  *)
(* no test tag in scope is dropped.                                        *)
LEMMA ReportsAreOfOne == TraceInv => ReportsAgree
<1> DEFINE reqs == file.reqs
           had == Having(reqs, FALSE)
           tested == Having(reqs, TRUE)
           impl == Shown(reqs, {"impl"})
           test == Shown(reqs, {"test", "sec-test"})
           shown == {t \in scan_annotations : \E e \in render_json(reqs) :
                        e.id = t.id /\ e.path = t.path /\ e.kind # "impl" /\ t.test}
<1> SUFFICES ASSUME TraceInv, Distinct(reqs)
             PROVE  /\ Cardinality(impl) = Cardinality(had)
                    /\ Cardinality(test) = Cardinality(tested)
                    /\ Len(reqs) - Cardinality(render_matrix(reqs, TRUE))
                          = Cardinality(impl \cap test)
                    /\ {t \in scan_annotations : t.test} = Dangling(reqs) \cup shown
  BY DEF ReportsAgree
<1>1. reqs \in Seq(Requirements) /\ tags \in TagSets
  BY DEF TraceInv, RequirementsInv, TypeOK, RequirementFiles
<1>2. \A t \in scan_annotations : t.test \in BOOLEAN
  BY <1>1, TagsAssumption DEF scan_annotations
<1>3. had \in SUBSET (DOMAIN reqs) /\ tested \in SUBSET (DOMAIN reqs)
  BY DEF Having
<1>4. impl = IdsAt(reqs, had) /\ test = IdsAt(reqs, tested)
  BY <1>2, ShownAreHad
<1>5. render_matrix(reqs, TRUE) = DOMAIN reqs \ (had \cap tested)
  BY DEF render_matrix
<1>6. {t \in scan_annotations : t.test} = Dangling(reqs) \cup shown
  <2>1. ASSUME NEW t \in scan_annotations, t.test, t.id \in IdsOf(reqs)
        PROVE  t \in shown
    <3>1. PICK i \in DOMAIN reqs : reqs[i].id = t.id
      BY <2>1 DEF IdsOf
    <3>2. reqs[i] \in ToSet(reqs)
      BY DEF ToSet
    <3> DEFINE e == [id |-> reqs[i].id, path |-> t.path, kind |-> KindOf(reqs[i], t)]
    <3>3. e \in render_json(reqs)
      <4> HIDE DEF reqs
      <4> QED BY <3>1, <3>2, EntriesOfTheDocument
    <3>4. e.id = t.id /\ e.path = t.path /\ e.kind # "impl"
      BY <2>1, <3>1 DEF KindOf
    <3> QED BY <2>1, <3>3, <3>4
  <2> QED BY <2>1 DEF Dangling
<1> HIDE DEF reqs, had, tested, impl, test, shown
<1>7. Cardinality(impl) = Cardinality(had) /\ Cardinality(test) = Cardinality(tested)
  BY <1>1, <1>3, <1>4, AsManyIds
<1>8. impl \cap test = IdsAt(reqs, had \cap tested)
  <2>1. \A i, j \in DOMAIN reqs : reqs[i].id = reqs[j].id => i = j
    BY <1>1, IdsAreOfOne
  <2> QED BY <1>3, <1>4, <2>1 DEF IdsAt
<1> DEFINE both == had \cap tested
<1>9. both \in SUBSET (DOMAIN reqs)
  BY <1>3
<1> HIDE DEF both
<1>10. Cardinality(IdsAt(reqs, both)) = Cardinality(both)
  BY <1>1, <1>9, AsManyIds
<1>11. DOMAIN reqs \cap both = both
  BY <1>9
<1>12. /\ Cardinality(DOMAIN reqs \ both) = Cardinality(DOMAIN reqs) - Cardinality(both)
       /\ Cardinality(both) \in Nat /\ Len(reqs) \in Nat
       /\ Cardinality(DOMAIN reqs) = Len(reqs)
  <2>1. IsFiniteSet(both)
    BY <1>1, <1>9, PlacesAreCounted, FS_Subset
  <2>2. /\ IsFiniteSet(DOMAIN reqs) /\ Cardinality(DOMAIN reqs) = Len(reqs)
        /\ Len(reqs) \in Nat
    BY <1>1, PlacesAreCounted
  <2>3. Cardinality(DOMAIN reqs \ both) = Cardinality(DOMAIN reqs) - Cardinality(DOMAIN reqs \cap both)
    BY <2>1, <2>2, FS_Difference
  <2>4. Cardinality(both) \in Nat
    BY <2>1, FS_CardinalityType
  <2> QED BY <1>11, <2>2, <2>3, <2>4
<1>13. Len(reqs) - Cardinality(render_matrix(reqs, TRUE)) = Cardinality(impl \cap test)
  <2>1. Cardinality(render_matrix(reqs, TRUE)) = Cardinality(DOMAIN reqs \ both)
    BY <1>5 DEF both
  <2>2. Cardinality(impl \cap test) = Cardinality(both)
    BY <1>8, <1>10 DEF both
  <2> DEFINE k == Cardinality(both)
             n == Len(reqs)
  <2>3. Cardinality(DOMAIN reqs \ both) = n - k /\ k \in Nat /\ n \in Nat
    BY <1>12
  <2> HIDE DEF k, n
  <2>4. n - (n - k) = k
    BY <2>3
  <2> QED BY <2>1, <2>2, <2>3, <2>4, Zenon DEF k, n
<1> QED BY <1>6, <1>7, <1>13

-----------------------------------------------------------------------------
(* Round trips.                                                            *)

FirstOf(rs, m) == [i \in 1..m |-> rs[i]]

(* Requirements with ids, no id twice.                                     *)
Addable(rs, n) ==
    /\ \A i \in 1..n : rs[i].id # NoText
    /\ \A i, j \in 1..n : rs[i].id = rs[j].id => i = j

(* Added one by one to none, they are the list they come from.             *)
LEMMA FirstGrows ==
    ASSUME NEW rs, NEW n \in Nat, Addable(rs, n), NEW m \in 1..n
    PROVE  AddNew(FirstOf(rs, m - 1), rs[m]) = FirstOf(rs, m)
<1> DEFINE old == FirstOf(rs, m - 1)
<1>1. m - 1 \in Nat /\ m \in Nat
  OBVIOUS
<1>2. DOMAIN old = 1..(m - 1) /\ \A i \in 1..(m - 1) : i \in 1..n /\ i # m /\ old[i] = rs[i]
  BY <1>1 DEF FirstOf
<1>3. Len(old) = m - 1
  BY <1>1 DEF FirstOf
<1> HIDE DEF old
<1>4. rs[m].id # NoText /\ rs[m].id \notin IdsOf(old)
  BY <1>2 DEF Addable, IdsOf
<1>5. AddNew(old, rs[m]) = Append(old, rs[m])
  BY <1>4 DEF AddNew
<1>6. Append(old, rs[m]) = FirstOf(rs, m)
  <2> DEFINE V == {rs[i] : i \in 1..n}
             new == Append(old, rs[m])
  <2>1. rs[m] \in V
    OBVIOUS
  <2>2. \A i \in 1..(m - 1) : old[i] \in V
    BY <1>2
  <2> HIDE DEF V
  <2>3. old \in Seq(V)
    <3>1. old = [i \in 1..(m - 1) |-> old[i]]
      BY DEF old, FirstOf
    <3> QED BY <1>1, <2>2, <3>1
  <2>4. /\ new \in Seq(V) /\ Len(new) = Len(old) + 1 /\ new[Len(old) + 1] = rs[m]
        /\ \A i \in 1..Len(old) : new[i] = old[i]
    BY <2>1, <2>3
  <2> HIDE DEF new
  <2>5. Len(new) = m /\ \A i \in 1..m : new[i] = rs[i]
    BY <1>1, <1>2, <1>3, <2>4
  <2>6. new = [i \in 1..m |-> rs[i]]
    BY <2>4, <2>5
  <2> QED BY <2>6 DEF FirstOf, new
<1> QED BY <1>5, <1>6 DEF old

(* Rows that each are of one requirement are read as these.                *)
LEMMA TableIsRead ==
    ASSUME NEW rows, NEW rs, NEW n \in Nat, Len(rows) = n, Addable(rs, n),
           \A k \in 1..n : FromRow(rows[k]) = rs[k]
    PROVE  import_csv(rows, <<>>) = FirstOf(rs, n)
<1> DEFINE body(f) == [m \in 0..Len(rows) |->
                         IF m = 0 THEN <<>> ELSE AddNew(f[m - 1], FromRow(rows[m]))]
           chosen == CHOOSE f : f = body(f)
           read == [m \in 0..n |-> FirstOf(rs, m)]
           S == {m \in 0..n : chosen[m] = FirstOf(rs, m)}
<1>1. FirstOf(rs, 0) = <<>>
  BY DEF FirstOf
<1>2. read = body(read)
  <2>1. \A m \in 0..n : m # 0 => m \in 1..n /\ m - 1 \in 0..n
    OBVIOUS
  <2>2. \A m \in 1..n : AddNew(FirstOf(rs, m - 1), FromRow(rows[m])) = FirstOf(rs, m)
    BY FirstGrows
  <2>3. \A m \in 0..n : FirstOf(rs, m) =
           IF m = 0 THEN <<>> ELSE AddNew(read[m - 1], FromRow(rows[m]))
    BY <1>1, <2>1, <2>2
  <2> QED BY <2>3
<1>3. chosen = body(chosen)
  BY <1>2
<1>4. import_csv(rows, <<>>) = chosen[Len(rows)]
  BY DEF import_csv
<1> HIDE DEF chosen
<1>5. \A m \in 0..n : chosen[m] = IF m = 0 THEN <<>> ELSE AddNew(chosen[m - 1], FromRow(rows[m]))
  BY <1>3, Zenon
<1>6. 0 \in S
  BY <1>1, <1>5
<1>7. ASSUME NEW m \in 1..n, m - 1 \in S PROVE m \in S
  <2>1. m \in 0..n /\ m # 0
    OBVIOUS
  <2>2. chosen[m - 1] = FirstOf(rs, m - 1)
    BY <1>7
  <2>3. chosen[m] = AddNew(FirstOf(rs, m - 1), rs[m])
    BY <1>5, <2>1, <2>2
  <2> QED BY <2>1, <2>3, FirstGrows
<1> HIDE DEF S
<1>8. \A m \in 0..n : m \in S
  BY <1>6, <1>7, UpTo, Zenon
<1> QED BY <1>4, <1>8 DEF S

(* A cell that is of one line is added to the one row there is.            *)
LEMMA CellIsAdded ==
    ASSUME NEW row, NEW text, text # Lines
    PROVE  Cell(<<row>>, text) = <<Append(row, Escaped(text))>>
<1>1. Front(<<row>>) = <<>> /\ Last(<<row>>) = row
  BY DEF Front, Last
<1> DEFINE new == Append(row, Escaped(text))
<1>2. Cell(<<row>>, text) = Front(<<row>>) \o <<Append(Last(<<row>>), Escaped(text))>>
  BY DEF Cell
<1>3. Cell(<<row>>, text) = <<>> \o <<new>>
  BY <1>1, <1>2
<1> HIDE DEF new
<1>4. <<>> \o <<new>> = <<new>>
  OBVIOUS
<1> QED BY <1>3, <1>4 DEF new

RowOf(a, b, c, d, e) == Append(Append(Append(Append(Append(<<>>, a), b), c), d), e)
CsvRow(r) ==
    RowOf(Escaped(r.id), Escaped(r.title), Escaped(r.severity), Escaped(r.asil), Escaped(r.parent))
FromCsv(r) ==
    Requirement(Escaped(r.id), Escaped(r.title), Escaped(r.severity), Escaped(r.asil), Escaped(r.parent))

LEMMA RowOfOneLine ==
    ASSUME NEW r, Lines \notin {r.id, r.title, r.severity, r.asil, r.parent}
    PROVE  CsvRows(r) = <<CsvRow(r)>>
<1>1. /\ r.id # Lines /\ r.title # Lines /\ r.severity # Lines
      /\ r.asil # Lines /\ r.parent # Lines
  OBVIOUS
<1> DEFINE r1 == Append(<<>>, Escaped(r.id))
           r2 == Append(r1, Escaped(r.title))
           r3 == Append(r2, Escaped(r.severity))
           r4 == Append(r3, Escaped(r.asil))
           r5 == Append(r4, Escaped(r.parent))
<1>2. r5 = CsvRow(r)
  BY Zenon DEF CsvRow, RowOf
<1> HIDE DEF r1, r2, r3, r4, r5
<1>3. Cell(<< <<>> >>, r.id) = <<r1>>
  BY <1>1, CellIsAdded, Zenon DEF r1
<1>4. Cell(<<r1>>, r.title) = <<r2>> /\ Cell(<<r2>>, r.severity) = <<r3>>
  BY <1>1, CellIsAdded, Zenon DEF r2, r3
<1>5. Cell(<<r3>>, r.asil) = <<r4>> /\ Cell(<<r4>>, r.parent) = <<r5>>
  BY <1>1, CellIsAdded, Zenon DEF r4, r5
<1> QED BY <1>2, <1>3, <1>4, <1>5, Zenon DEF CsvRows

(* One more cell.                                                          *)
LEMMA OneMoreCell ==
    ASSUME NEW row \in Seq(Texts), NEW text \in Texts, NEW new, new = Append(row, text)
    PROVE  /\ new \in Seq(Texts) /\ Len(new) = Len(row) + 1 /\ new[Len(row) + 1] = text
           /\ \A i \in 1..Len(row) : new[i] = row[i]
OBVIOUS

HasCells(row, a, b, c, d, e) ==
    Len(row) = 5 /\ row[1] = a /\ row[2] = b /\ row[3] = c /\ row[4] = d /\ row[5] = e

LEMMA FiveCells ==
    ASSUME NEW a \in Texts, NEW b \in Texts, NEW c \in Texts, NEW d \in Texts, NEW e \in Texts
    PROVE  HasCells(RowOf(a, b, c, d, e), a, b, c, d, e)
<1> DEFINE row == RowOf(a, b, c, d, e)
<1> HIDE DEF row
<1>1. PICK r1, r2, r3, r4 :
          /\ r1 = Append(<<>>, a) /\ r2 = Append(r1, b) /\ r3 = Append(r2, c) /\ r4 = Append(r3, d)
          /\ row = Append(r4, e)
  BY Zenon DEF row, RowOf
<1>2. r1 \in Seq(Texts) /\ Len(r1) = 1 /\ r1[1] = a
  BY <1>1
<1>3. r2 \in Seq(Texts) /\ Len(r2) = 2 /\ r2[1] = a /\ r2[2] = b
  BY <1>1, <1>2, OneMoreCell
<1>4. r3 \in Seq(Texts) /\ Len(r3) = 3 /\ r3[1] = a /\ r3[2] = b /\ r3[3] = c
  BY <1>1, <1>3, OneMoreCell
<1>5. r4 \in Seq(Texts) /\ Len(r4) = 4 /\ r4[1] = a /\ r4[2] = b /\ r4[3] = c /\ r4[4] = d
  BY <1>1, <1>4, OneMoreCell
<1>6. Len(row) = 5 /\ row[1] = a /\ row[2] = b /\ row[3] = c /\ row[4] = d /\ row[5] = e
  BY <1>1, <1>5, OneMoreCell
<1> QED BY <1>6, Zenon DEF row, HasCells

LEMMA EscapedAreTexts ==
    ASSUME NEW r \in Requirements
    PROVE  /\ Escaped(r.id) \in Texts /\ Escaped(r.title) \in Texts /\ Escaped(r.severity) \in Texts
           /\ Escaped(r.asil) \in Texts /\ Escaped(r.parent) \in Texts
<1>1. \A t \in Texts : Escaped(t) \in Texts
  BY TextsAssumption DEF Escaped
<1> QED BY <1>1 DEF Requirements

LEMMA CsvRowIsRead ==
    ASSUME NEW r \in Requirements, r.severity # NoText
    PROVE  FromRow(CsvRow(r)) = FromCsv(r)
<1>1. PICK row, a, b, c, d, e :
        /\ a = Escaped(r.id) /\ b = Escaped(r.title) /\ c = Escaped(r.severity)
        /\ d = Escaped(r.asil) /\ e = Escaped(r.parent) /\ row = RowOf(a, b, c, d, e)
  OBVIOUS
<1>2. row = CsvRow(r) /\ FromCsv(r) = Requirement(a, b, c, d, e)
  BY <1>1, Zenon DEF CsvRow, FromCsv
<1>3. a \in Texts /\ b \in Texts /\ c \in Texts /\ d \in Texts /\ e \in Texts
  BY <1>1, EscapedAreTexts
<1>4. HasCells(row, a, b, c, d, e)
  BY <1>1, <1>3, FiveCells, Zenon
<1>5. c # NoText
  BY <1>1 DEF Escaped, NoText
<1>6. FromRow(row) = Requirement(a, b, c, d, e)
  BY <1>4, <1>5 DEF FromRow, HasCells
<1> QED BY <1>2, <1>6, Zenon

(* Requirements of texts of one line, whose ids are distinct with commas   *)
(* replaced, come back from CSV as they were but for the commas.           *)
THEOREM CsvRoundTrips ==
    ASSUME NEW reqs \in Seq(Requirements), CsvKeeps(reqs)
    PROVE  import_csv(export_csv(reqs), <<>>) = Replaced(reqs)
<1> DEFINE n == Len(reqs)
           row(i) == CsvRow(reqs[i])
           rows == [i \in 1..n |-> <<row(i)>>]
           rs == [i \in 1..n |-> FromCsv(reqs[i])]
           Rows == {row(i) : i \in 1..n}
           start == [k \in 0..n |-> k]
           out == export_csv(reqs)
<1>1. n \in Nat /\ DOMAIN reqs = 1..n /\ \A i \in 1..n : reqs[i] \in Requirements
  OBVIOUS
<1>2. out = FlattenSeq(rows)
  <2>1. \A i \in 1..n : CsvRows(reqs[i]) = <<row(i)>>
    BY <1>1, RowOfOneLine DEF CsvKeeps
  <2> QED BY <1>1, <2>1 DEF export_csv
<1>3. Len(out) = n /\ \A k \in 1..n : out[k] = row(k)
  <2>1. CASE n = 0
    <3>1. rows = <<>>
      BY <2>1
    <3> QED BY <1>2, <2>1, <3>1 DEF FlattenSeq
  <2>2. CASE n # 0
    <3>1. n \in Nat \ {0}
      BY <1>1, <2>2
    <3>2. \A k \in 1..n : rows[k] = <<row(k)>> /\ Len(rows[k]) = 1 /\ rows[k][1] = row(k)
      OBVIOUS
    <3>3. rows \in [1..n -> Seq(Rows)]
      OBVIOUS
    <3>4. start \in [0..n -> Nat] /\ start[0] = 0
          /\ \A k \in 1..n : start[k] = start[k - 1] + Len(rows[k])
      BY <1>1, <3>2
    <3>5. start[n] = n /\ \A k \in 1..n : start[k - 1] = k - 1
      BY <1>1
    <3> HIDE DEF start, rows, row, Rows, n
    <3>6. FlattenSeq(rows) \in Seq(Rows) /\ Len(FlattenSeq(rows)) = start[n]
          /\ \A k \in 1..n : HasFrom(FlattenSeq(rows), start[k - 1], rows[k])
      BY <3>1, <3>3, <3>4, FlattenPlaces
    <3>7. \A k \in 1..n : FlattenSeq(rows)[k] = row(k)
      <4> TAKE k \in 1..n
      <4>1. 1 \in 1..Len(rows[k]) /\ start[k - 1] + 1 = k
        BY <1>1, <3>2, <3>5
      <4> QED BY <3>2, <3>6, <4>1 DEF HasFrom
    <3> QED BY <1>2, <3>5, <3>6, <3>7
  <2> QED BY <2>1, <2>2
<1>4. \A k \in 1..n : FromRow(out[k]) = rs[k]
  <2>1. \A k \in 1..n : reqs[k].severity # NoText
    BY <1>1 DEF CsvKeeps
  <2>2. \A k \in 1..n : FromRow(row(k)) = FromCsv(reqs[k])
    BY <2>1, CsvRowIsRead
  <2> QED BY <1>3, <2>2
<1>5. rs = Replaced(reqs) /\ DOMAIN rs = 1..n /\ FirstOf(rs, n) = rs
  BY <1>1 DEF Replaced, FromCsv, FirstOf
<1>6. Addable(rs, n)
  <2>1. rs \in Seq(Requirements) /\ Len(rs) = n
    <3>1. \A i \in 1..n : FromCsv(reqs[i]) \in Requirements
      BY <1>1, EscapedAreTexts DEF FromCsv, Requirement, Requirements
    <3> QED BY <1>1, <3>1
  <2>2. \A i \in 1..n : rs[i].id # NoText
    BY <1>1 DEF FromCsv, Requirement, CsvKeeps, Escaped, NoText
  <2>3. Distinct(rs)
    BY <1>5 DEF CsvKeeps
  <2> HIDE DEF rs, n
  <2>4. \A i, j \in 1..n : rs[i].id = rs[j].id => i = j
    BY <1>1, <1>5, <2>1, <2>3, IdsAreOfOne
  <2> QED BY <2>2, <2>4 DEF Addable
<1> HIDE DEF out, rs, n
<1>7. import_csv(out, <<>>) = FirstOf(rs, n)
  BY <1>1, <1>3, <1>4, <1>6, TableIsRead
<1> QED BY <1>5, <1>7, Zenon DEF out

(* What a fold of doors lines goes through.                                *)
DoorsLines == [opens : BOOLEAN, values : Seq(Texts), closes : BOOLEAN]
DoorsStates == [inside : BOOLEAN, vals : Seq(Texts), reqs : Seq(Requirements)]

Outside(reqs) == [inside |-> FALSE, vals |-> <<>>, reqs |-> reqs]
Inside(vals, reqs) == [inside |-> TRUE, vals |-> vals, reqs |-> reqs]

DoorsState(inside, vals, reqs) == [inside |-> inside, vals |-> vals, reqs |-> reqs]

LEMMA AddNewIsSeq ==
    ASSUME NEW reqs \in Seq(Requirements), NEW r \in Requirements
    PROVE  AddNew(reqs, r) \in Seq(Requirements)
BY AddNewKeeps

LEMMA ValuesAreRequirement ==
    ASSUME NEW vals \in Seq(Texts), vals # <<>>
    PROVE  FromValues(vals) \in Requirements
<1>1. Len(vals) \in Nat /\ Len(vals) # 0 /\ \A i \in 1..Len(vals) : vals[i] \in Texts
  OBVIOUS
<1>2. vals[1] \in Texts /\ (Len(vals) > 1 => vals[2] \in Texts)
  BY <1>1
<1>3. (IF Len(vals) > 1 THEN vals[2] ELSE vals[1]) \in Texts
  BY <1>2
<1>4. Safety \in Texts /\ NoText \in Texts
  BY TextsAssumption
<1> QED BY <1>2, <1>3, <1>4 DEF FromValues, Requirement, Requirements

LEMMA DoorsStepIsState ==
    ASSUME NEW s \in DoorsStates, NEW line \in DoorsLines
    PROVE  DoorsStep(s, line) \in DoorsStates
<1> DEFINE inside == s.inside \/ line.opens
           vals == (IF line.opens THEN <<>> ELSE s.vals)
                   \o (IF inside THEN line.values ELSE <<>>)
           closing == inside /\ line.closes
           reqs == IF closing /\ vals # <<>> THEN AddNew(s.reqs, FromValues(vals)) ELSE s.reqs
<1>1. s.vals \in Seq(Texts) /\ line.values \in Seq(Texts) /\ s.reqs \in Seq(Requirements)
  BY DEF DoorsStates, DoorsLines
<1>2. <<>> \in Seq(Texts)
  OBVIOUS
<1>3. vals \in Seq(Texts)
  <2>1. (IF line.opens THEN <<>> ELSE s.vals) \in Seq(Texts)
    BY <1>1, <1>2, Zenon
  <2>2. (IF inside THEN line.values ELSE <<>>) \in Seq(Texts)
    BY <1>1, <1>2, Zenon
  <2> QED BY <2>1, <2>2
<1>4. DoorsStep(s, line) = DoorsState(inside /\ ~closing, IF closing THEN <<>> ELSE vals, reqs)
  BY DEF DoorsStep, DoorsState
<1> HIDE DEF vals
<1>5. reqs \in Seq(Requirements)
  BY <1>1, <1>3, ValuesAreRequirement, AddNewIsSeq, Zenon
<1>6. (IF closing THEN <<>> ELSE vals) \in Seq(Texts)
  BY <1>2, <1>3, Zenon
<1>7. (inside /\ ~closing) \in BOOLEAN
  OBVIOUS
<1> HIDE DEF reqs, inside, closing
<1>8. DoorsState(inside /\ ~closing, IF closing THEN <<>> ELSE vals, reqs) \in DoorsStates
  BY <1>5, <1>6, <1>7 DEF DoorsState, DoorsStates
<1> QED BY <1>4, <1>8

LEMMA DoorsRuns ==
    ASSUME NEW n \in Nat, NEW written \in [1..n -> DoorsLines]
    PROVE  \E run \in [0..n -> DoorsStates] :
             /\ run[0] = Outside(<<>>)
             /\ run[n].reqs = import_doors(written, <<>>)
             /\ \A k \in 1..n : run[k] = DoorsStep(run[k - 1], written[k])
<1> DEFINE base == Outside(<<>>)
           body(f) == [s \in SUBSET (1..n) |->
                         IF s = {} THEN base ELSE DoorsStep(f[s \ {Max(s)}], written[Max(s)])]
           chosen == CHOOSE f : f = body(f)
           step == [k \in 1..n |-> [v \in DoorsStates |-> DoorsStep(v, written[k])]]
<1>1. step \in [1..n -> [DoorsStates -> DoorsStates]]
  BY DoorsStepIsState
<1>0. base \in DoorsStates
  BY DEF Outside, DoorsStates
<1>2. import_doors(written, <<>>) = chosen[1..n].reqs
  BY DEF import_doors, FoldLeft, MapThenFoldSet, Outside
<1> HIDE DEF base
<1>3. PICK f \in [SUBSET (1..n) -> DoorsStates] : Folds(f, n, base, step)
  <2> HIDE DEF step
  <2> QED BY <1>0, <1>1, FoldExists
<1>4. \A s \in SUBSET (1..n) : s # {} => Max(s) \in 1..n
  BY LastPlace
<1>5. f = body(f)
  <2>1. \A s \in SUBSET (1..n) : s # {} => f[s \ {Max(s)}] \in DoorsStates
    BY <1>3
  <2>2. \A s \in SUBSET (1..n) :
            f[s] = IF s = {} THEN base ELSE DoorsStep(f[s \ {Max(s)}], written[Max(s)])
    BY <1>3, <1>4, <2>1 DEF Folds
  <2> QED BY <1>3, <2>2
<1>6. chosen = body(chosen)
  BY <1>5
<1> HIDE DEF chosen
<1>7. FoldsIn(DoorsStates, chosen, n, base, step)
  BY <1>4, <1>6 DEF FoldsIn
<1> HIDE DEF step
<1>8. RunsThrough(DoorsStates, chosen, n, base, step)
  BY <1>0, <1>1, <1>7, FoldRuns, Zenon
<1>9. PICK run \in [0..n -> DoorsStates] : Runs(run, n, base, step) /\ run[n] = chosen[1..n]
  BY <1>8 DEF RunsThrough
<1>10. ASSUME NEW k \in 1..n PROVE run[k] = DoorsStep(run[k - 1], written[k])
  <2>1. run[k] = step[k][run[k - 1]] /\ run[k - 1] \in DoorsStates
    BY <1>9 DEF Runs
  <2> QED BY <2>1 DEF step
<1>11. run[0] = base
  BY <1>9 DEF Runs
<1> QED BY <1>2, <1>9, <1>10, <1>11 DEF base

LEMMA DoorsStepIs ==
    ASSUME NEW s, NEW line, s.inside \/ line.opens,
           NEW vals, vals = (IF line.opens THEN <<>> ELSE s.vals) \o line.values
    PROVE  /\ ~line.closes => DoorsStep(s, line) = Inside(vals, s.reqs)
           /\ line.closes /\ vals # <<>> =>
                  DoorsStep(s, line) = Outside(AddNew(s.reqs, FromValues(vals)))
<1> DEFINE values == (IF line.opens THEN <<>> ELSE s.vals)
                     \o (IF s.inside \/ line.opens THEN line.values ELSE <<>>)
           closing == (s.inside \/ line.opens) /\ line.closes
<1>1. DoorsStep(s, line) =
          [inside |-> (s.inside \/ line.opens) /\ ~closing,
           vals |-> IF closing THEN <<>> ELSE values,
           reqs |-> IF closing /\ values # <<>> THEN AddNew(s.reqs, FromValues(values)) ELSE s.reqs]
  BY DEF DoorsStep
<1>2. values = vals /\ (closing <=> line.closes)
  BY Zenon
<1> HIDE DEF values, closing
<1>3. ASSUME ~line.closes PROVE DoorsStep(s, line) = Inside(vals, s.reqs)
  <2>1. ((s.inside \/ line.opens) /\ ~closing) = TRUE
    BY <1>2, <1>3
  <2>2. ~closing
    BY <1>2, <1>3
  <2> QED BY <1>1, <1>2, <2>1, <2>2, Zenon DEF Inside
<1>4. ASSUME line.closes, vals # <<>>
      PROVE  DoorsStep(s, line) = Outside(AddNew(s.reqs, FromValues(vals)))
  <2>1. ((s.inside \/ line.opens) /\ ~closing) = FALSE
    BY <1>2, <1>4
  <2>2. closing
    BY <1>2, <1>4
  <2> QED BY <1>1, <1>2, <1>4, <2>1, <2>2, Zenon DEF Outside
<1> QED BY <1>3, <1>4

Opening == [opens |-> TRUE, values |-> <<>>, closes |-> FALSE]
Valued(values) == [opens |-> FALSE, values |-> values, closes |-> FALSE]
Closing == [opens |-> FALSE, values |-> <<>>, closes |-> TRUE]

LEMMA DoorsStepCases ==
    ASSUME NEW old, NEW vals \in Seq(Texts), NEW more \in Seq(Texts)
    PROVE  /\ DoorsStep(Outside(old), Opening) = Inside(<<>>, old)
           /\ DoorsStep(Inside(vals, old), Valued(more)) = Inside(vals \o more, old)
           /\ vals # <<>> =>
                  DoorsStep(Inside(vals, old), Closing) = Outside(AddNew(old, FromValues(vals)))
<1>1. <<>> \o <<>> = <<>> /\ vals \o <<>> = vals
  OBVIOUS
<1>2. DoorsStep(Outside(old), Opening) = Inside(<<>>, old)
  <2> DEFINE s == Outside(old)
             line == Opening
  <2>1. s.reqs = old /\ line.opens /\ line.values = <<>> /\ ~line.closes
    BY DEF Outside, Opening
  <2> HIDE DEF s, line
  <2>2. <<>> = (IF line.opens THEN <<>> ELSE s.vals) \o line.values
    BY <1>1, <2>1, Zenon
  <2> QED BY <2>1, <2>2, DoorsStepIs, Zenon DEF s, line
<1>3. DoorsStep(Inside(vals, old), Valued(more)) = Inside(vals \o more, old)
  <2> DEFINE s == Inside(vals, old)
             line == Valued(more)
  <2>1. s.inside /\ s.vals = vals /\ s.reqs = old /\ ~line.opens /\ line.values = more /\ ~line.closes
    BY DEF Inside, Valued
  <2> HIDE DEF s, line
  <2>2. vals \o more = (IF line.opens THEN <<>> ELSE s.vals) \o line.values
    BY <2>1, Zenon
  <2> QED BY <2>1, <2>2, DoorsStepIs, Zenon DEF s, line
<1>4. ASSUME vals # <<>>
      PROVE  DoorsStep(Inside(vals, old), Closing) = Outside(AddNew(old, FromValues(vals)))
  <2> DEFINE s == Inside(vals, old)
             line == Closing
  <2>1. s.inside /\ s.vals = vals /\ s.reqs = old /\ ~line.opens /\ line.values = <<>> /\ line.closes
    BY DEF Inside, Closing
  <2> HIDE DEF s, line
  <2>2. vals = (IF line.opens THEN <<>> ELSE s.vals) \o line.values
    BY <1>1, <2>1, Zenon
  <2>3. DoorsStep(s, line) = Outside(AddNew(s.reqs, FromValues(vals)))
    BY <1>4, <2>1, <2>2, DoorsStepIs
  <2> QED BY <2>1, <2>3, Zenon DEF s, line
<1> QED BY <1>2, <1>3, <1>4

LEMMA PairIsJoined ==
    ASSUME NEW a \in Texts, NEW b \in Texts
    PROVE  <<>> \o <<a>> = <<a>> /\ <<a>> \o <<b>> = <<a, b>>
<1>1. <<a>> \in Seq(Texts) /\ <<b>> \in Seq(Texts) /\ <<a, b>> \in Seq(Texts)
      /\ Len(<<a>>) = 1 /\ <<a>>[1] = a /\ Len(<<b>>) = 1 /\ <<b>>[1] = b
      /\ Len(<<a, b>>) = 2 /\ <<a, b>>[1] = a /\ <<a, b>>[2] = b
  OBVIOUS
<1> DEFINE s == <<a>>
           t == <<b>>
           u == <<a, b>>
<1> HIDE DEF s, t, u
<1>2. <<>> \o s = s
  BY <1>1 DEF s
<1>3. /\ s \o t \in Seq(Texts) /\ Len(s \o t) = 2 /\ (s \o t)[1] = a /\ (s \o t)[2] = b
      /\ u \in Seq(Texts) /\ Len(u) = 2 /\ u[1] = a /\ u[2] = b
  BY <1>1 DEF s, t, u
<1>4. Alike(s \o t, u)
  BY <1>3 DEF Alike
<1>5. s \o t = u
  BY <1>3, <1>4, AlikeIsSame
<1> QED BY <1>2, <1>5 DEF s, t, u

(* The five lines of a requirement add it to those before.                 *)
Bare(r) == Requirement(r.id, r.title, Safety, NoText, NoText)

DoorsOf(r) ==
    <<ReqIfLine(TRUE, NoText, FALSE), ReqIfLine(FALSE, r.id, FALSE),
      ReqIfLine(FALSE, r.title, FALSE), ReqIfLine(FALSE, r.asil, FALSE),
      ReqIfLine(FALSE, NoText, TRUE)>>

LEMMA AttributesAreTexts ==
    ASSUME NEW text \in Texts
    PROVE  Attribute(text) \in Texts /\ Element(text) \in Texts
BY TextsAssumption DEF Attribute, Element

LEMMA DoorsOfOne ==
    ASSUME NEW r \in Requirements, {r.id, r.title} \cap {NoText, Lines, Quoted} = {}, NEW old
    PROVE  \A s1, s2, s3, s4, s5 :
             /\ s1 = DoorsStep(Outside(old), DoorsOf(r)[1])
             /\ s2 = DoorsStep(s1, DoorsOf(r)[2])
             /\ s3 = DoorsStep(s2, DoorsOf(r)[3])
             /\ s4 = DoorsStep(s3, DoorsOf(r)[4])
             /\ s5 = DoorsStep(s4, DoorsOf(r)[5])
             => s5 = Outside(AddNew(old, Bare(r)))
<1> DEFINE id == <<r.id>>
           title == <<r.title>>
           both == <<r.id, r.title>>
           rest == IF Attribute(r.asil) = NoText THEN <<>> ELSE <<Attribute(r.asil)>>
           vals == both \o rest
<1>1. /\ DoorsOf(r)[1] = Opening /\ DoorsOf(r)[2] = Valued(id) /\ DoorsOf(r)[3] = Valued(title)
      /\ DoorsOf(r)[4] = Valued(rest) /\ DoorsOf(r)[5] = Closing
  <2>1. /\ Attribute(r.id) = r.id /\ Attribute(r.title) = r.title /\ Attribute(NoText) = NoText
        /\ r.id # NoText /\ r.title # NoText
    BY DEF Attribute, NoText, Lines, Quoted
  <2> QED BY <2>1 DEF DoorsOf, ReqIfLine, Opening, Valued, Closing
<1>2. r.id \in Texts /\ r.title \in Texts /\ Attribute(r.asil) \in Texts
  BY AttributesAreTexts DEF Requirements
<1>3. /\ rest \in Seq(Texts) /\ <<>> \in Seq(Texts) /\ both \in Seq(Texts)
      /\ id \in Seq(Texts) /\ title \in Seq(Texts)
  BY <1>2
<1>4. <<>> \o id = id /\ id \o title = both
  BY <1>2, PairIsJoined
<1> HIDE DEF rest
<1>5. vals \in Seq(Texts) /\ vals # <<>> /\ Len(vals) > 1 /\ vals[1] = r.id /\ vals[2] = r.title
  BY <1>2, <1>3
<1> HIDE DEF id, title, both, vals
<1>6. FromValues(vals) = Bare(r)
  BY <1>5 DEF FromValues, Bare
<1>7. DoorsStep(Outside(old), Opening) = Inside(<<>>, old)
  BY <1>3, DoorsStepCases, Zenon
<1>8. DoorsStep(Inside(<<>>, old), Valued(id)) = Inside(id, old)
  <2>1. DoorsStep(Inside(<<>>, old), Valued(id)) = Inside(<<>> \o id, old)
    BY <1>3, DoorsStepCases, Zenon
  <2> QED BY <1>4, <2>1, Zenon
<1>9. DoorsStep(Inside(id, old), Valued(title)) = Inside(both, old)
  BY <1>3, <1>4, DoorsStepCases, Zenon
<1>10. DoorsStep(Inside(both, old), Valued(rest)) = Inside(vals, old)
  <2>1. DoorsStep(Inside(both, old), Valued(rest)) = Inside(both \o rest, old)
    BY <1>3, DoorsStepCases, Zenon
  <2> QED BY <2>1, Zenon DEF vals
<1>11. DoorsStep(Inside(vals, old), Closing) = Outside(AddNew(old, Bare(r)))
  BY <1>3, <1>5, <1>6, DoorsStepCases, Zenon
<1> QED BY <1>1, <1>7, <1>8, <1>9, <1>10, <1>11, Zenon
-----------------------------------------------------------------------------
LEMMA DoorsOfAreLines ==
    ASSUME NEW r \in Requirements
    PROVE  DoorsOf(r) \in Seq(DoorsLines) /\ Len(DoorsOf(r)) = 5
<1>1. \A o, c \in BOOLEAN, v \in Texts : ReqIfLine(o, v, c) \in DoorsLines
  <2>1. \A v \in Texts : (IF v = NoText THEN <<>> ELSE <<v>>) \in Seq(Texts)
    OBVIOUS
  <2>2. \A o, c \in BOOLEAN, v \in Texts :
            ReqIfLine(o, v, c).values \in Seq(Texts)
    <3>1. \A v \in Texts :
              (IF Attribute(v) = NoText THEN <<>> ELSE <<Attribute(v)>>) \in Seq(Texts)
      BY <2>1, AttributesAreTexts
    <3> QED BY <3>1 DEF ReqIfLine
  <2>3. \A o, c \in BOOLEAN, v \in Texts :
            ReqIfLine(o, v, c) = [opens |-> o, closes |-> c, values |-> ReqIfLine(o, v, c).values]
    BY DEF ReqIfLine
  <2> QED BY <2>2, <2>3 DEF DoorsLines
<1>2. r.id \in Texts /\ r.title \in Texts /\ r.asil \in Texts /\ NoText \in Texts
  BY TextsAssumption DEF Requirements
<1>3. /\ ReqIfLine(TRUE, NoText, FALSE) \in DoorsLines
      /\ ReqIfLine(FALSE, r.id, FALSE) \in DoorsLines
      /\ ReqIfLine(FALSE, r.title, FALSE) \in DoorsLines
      /\ ReqIfLine(FALSE, r.asil, FALSE) \in DoorsLines
      /\ ReqIfLine(FALSE, NoText, TRUE) \in DoorsLines
  BY <1>1, <1>2
<1>4. \A a, b, c, d, e \in DoorsLines :
          <<a, b, c, d, e>> \in Seq(DoorsLines) /\ Len(<<a, b, c, d, e>>) = 5
  OBVIOUS
<1> QED BY <1>3, <1>4, Zenon DEF DoorsOf

(* What is exported with ids and titles comes back with them.              *)
Bares(reqs) == [i \in DOMAIN reqs |-> Bare(reqs[i])]

LEMMA BaresAreNamed ==
    ASSUME NEW reqs \in Seq(Requirements), Distinct(reqs), \A i \in DOMAIN reqs : reqs[i].id # NoText
    PROVE  /\ Addable(Bares(reqs), Len(reqs))
           /\ FirstOf(Bares(reqs), Len(reqs)) = Bares(reqs) /\ FirstOf(Bares(reqs), 0) = <<>>
           /\ Named(Bares(reqs)) = Named(reqs)
           /\ \A i \in 1..Len(reqs) : reqs[i] \in Requirements /\ Bares(reqs)[i] = Bare(reqs[i])
<1>1. Len(reqs) \in Nat /\ DOMAIN reqs = 1..Len(reqs) /\ \A i \in 1..Len(reqs) : reqs[i] \in Requirements
  OBVIOUS
<1>2. \A i \in 1..Len(reqs) : /\ Bares(reqs)[i] = Bare(reqs[i])
                              /\ Bares(reqs)[i].id = reqs[i].id
                              /\ Bares(reqs)[i].title = reqs[i].title
  BY <1>1 DEF Bares, Bare, Requirement
<1>3. Addable(Bares(reqs), Len(reqs))
  BY <1>1, <1>2, IdsAreOfOne DEF Addable
<1>4. FirstOf(Bares(reqs), Len(reqs)) = Bares(reqs) /\ FirstOf(Bares(reqs), 0) = <<>>
  BY <1>1, <1>2 DEF FirstOf, Bares
<1>5. DOMAIN Bares(reqs) = 1..Len(reqs)
  BY <1>1 DEF Bares
<1>6. Named(Bares(reqs)) = Named(reqs)
  BY <1>1, <1>2, <1>5 DEF Named
<1> QED BY <1>1, <1>2, <1>3, <1>4, <1>6

THEOREM DoorsRoundTrips ==
    ASSUME NEW reqs \in Seq(Requirements), DoorsKeeps(reqs)
    PROVE  Named(import_doors(export_doors(reqs), <<>>)) = Named(reqs)
<1> DEFINE n == Len(reqs)
           seqs == [i \in 1..n |-> DoorsOf(reqs[i])]
           rs == Bares(reqs)
           start == [k \in 0..n |-> 5 * k]
           out == export_doors(reqs)
<1>1. n \in Nat /\ DOMAIN reqs = 1..n
  OBVIOUS
<1>2. /\ Addable(rs, n) /\ FirstOf(rs, n) = rs /\ FirstOf(rs, 0) = <<>> /\ Named(rs) = Named(reqs)
      /\ \A i \in 1..n : reqs[i] \in Requirements /\ rs[i] = Bare(reqs[i])
  BY BaresAreNamed DEF DoorsKeeps
<1>3. out = FlattenSeq(seqs)
  BY <1>1 DEF export_doors, DoorsOf
<1>4. seqs \in [1..n -> Seq(DoorsLines)] /\ \A k \in 1..n : seqs[k] = DoorsOf(reqs[k]) /\ Len(seqs[k]) = 5
  BY <1>2, DoorsOfAreLines
<1>5. start \in [0..n -> Nat] /\ start[0] = 0
      /\ \A k \in 1..n : start[k] = start[k - 1] + Len(seqs[k])
  <2>1. \A k \in 1..n : start[k] = 5 * k /\ start[k - 1] = 5 * (k - 1) /\ 5 * k = 5 * (k - 1) + 5
    BY <1>1
  <2>2. start \in [0..n -> Nat] /\ start[0] = 0
    BY <1>1
  <2> HIDE DEF start, seqs, n
  <2>3. \A k \in 1..n : start[k] = start[k - 1] + Len(seqs[k])
    BY <1>4, <2>1
  <2> QED BY <2>2, <2>3
<1>6. /\ out \in Seq(DoorsLines) /\ Len(out) = 5 * n
      /\ \A k \in 1..n : HasFrom(out, 5 * (k - 1), DoorsOf(reqs[k]))
  <2>1. CASE n = 0
    <3>1. seqs = <<>>
      BY <2>1
    <3> QED BY <1>3, <2>1, <3>1 DEF FlattenSeq
  <2>2. CASE n # 0
    <3>1. n \in Nat \ {0} /\ start[n] = 5 * n /\ \A k \in 1..n : start[k - 1] = 5 * (k - 1)
      BY <1>1, <2>2
    <3> HIDE DEF start, seqs, n
    <3>2. FlattenSeq(seqs) \in Seq(DoorsLines) /\ Len(FlattenSeq(seqs)) = start[n]
          /\ \A k \in 1..n : HasFrom(FlattenSeq(seqs), start[k - 1], seqs[k])
      BY <1>4, <1>5, <3>1, FlattenPlaces
    <3> QED BY <1>3, <1>4, <3>1, <3>2, Zenon
  <2> QED BY <2>1, <2>2
<1> HIDE DEF out, seqs, start, rs
<1>7. 5 * n \in Nat /\ out \in [1..(5 * n) -> DoorsLines]
  BY <1>1, <1>6
<1>8. PICK run \in [0..(5 * n) -> DoorsStates] :
             /\ run[0] = Outside(<<>>)
             /\ run[5 * n].reqs = import_doors(out, <<>>)
             /\ \A k \in 1..(5 * n) : run[k] = DoorsStep(run[k - 1], out[k])
  BY <1>7, DoorsRuns, Zenon
<1> DEFINE S == {m \in 0..n : run[5 * m] = Outside(FirstOf(rs, m))}
<1>9. 0 \in S
  BY <1>1, <1>2, <1>8
<1>10. ASSUME NEW m \in 1..n, m - 1 \in S PROVE m \in S
  <2> DEFINE b == 5 * (m - 1)
             r == reqs[m]
             old == FirstOf(rs, m - 1)
  <2>1. /\ b \in Nat /\ b + 5 = 5 * m /\ m \in 0..n
        /\ \A j \in 1..5 : b + j \in 1..(5 * n)
        /\ b + 1 - 1 = b /\ b + 2 - 1 = b + 1 /\ b + 3 - 1 = b + 2 /\ b + 4 - 1 = b + 3 /\ b + 5 - 1 = b + 4
    BY <1>1
  <2>2. run[b] = Outside(old)
    BY <1>10
  <2> HIDE DEF b, old
  <2>3. \A j \in 1..5 : out[b + j] = DoorsOf(r)[j]
    <3>1. HasFrom(out, b, DoorsOf(r)) /\ Len(DoorsOf(r)) = 5
      BY <1>2, <1>6, DoorsOfAreLines DEF b
    <3> QED BY <3>1 DEF HasFrom
  <2>4. ASSUME NEW j \in 1..5 PROVE run[b + j] = DoorsStep(run[b + j - 1], DoorsOf(r)[j])
    <3> DEFINE k == b + j
    <3>1. k \in 1..(5 * n)
      BY <2>1
    <3>2. out[k] = DoorsOf(r)[j]
      BY <2>3
    <3>3. k - 1 = b + j - 1
      BY <2>1
    <3> HIDE DEF k, n
    <3>4. run[k] = DoorsStep(run[k - 1], out[k])
      BY <1>8, <3>1
    <3>5. run[k] = DoorsStep(run[b + j - 1], DoorsOf(r)[j])
      BY <3>2, <3>3, <3>4
    <3> QED BY <3>5 DEF k
  <2>5. /\ run[b + 1] = DoorsStep(Outside(old), DoorsOf(r)[1])
        /\ run[b + 2] = DoorsStep(run[b + 1], DoorsOf(r)[2])
        /\ run[b + 3] = DoorsStep(run[b + 2], DoorsOf(r)[3])
        /\ run[b + 4] = DoorsStep(run[b + 3], DoorsOf(r)[4])
        /\ run[b + 5] = DoorsStep(run[b + 4], DoorsOf(r)[5])
    BY <2>1, <2>2, <2>4
  <2>6. /\ r \in Requirements /\ rs[m] = Bare(r)
        /\ {r.id, r.title} \cap {NoText, Lines, Quoted} = {}
    BY <1>1, <1>2 DEF DoorsKeeps
  <2>7. run[b + 5] = Outside(AddNew(old, Bare(r)))
    BY <2>5, <2>6, DoorsOfOne
  <2>8. AddNew(old, rs[m]) = FirstOf(rs, m)
    BY <1>1, <1>2, FirstGrows, Zenon DEF old
  <2> QED BY <2>1, <2>6, <2>7, <2>8
<1> HIDE DEF S
<1>11. \A m \in 0..n : m \in S
  BY <1>1, <1>9, <1>10, UpTo, Zenon
<1>12. run[5 * n] = Outside(rs)
  BY <1>1, <1>2, <1>11 DEF S
<1>13. import_doors(out, <<>>) = rs
  BY <1>8, <1>12 DEF Outside
<1> QED BY <1>2, <1>13 DEF out
-----------------------------------------------------------------------------
(* What a fold of Polarion lines goes through.                             *)
PolarionLines == [opens : Texts, title : Texts, closes : BOOLEAN]
PolarionStates == [id : Texts, title : Texts, reqs : Seq(Requirements)]

Item(id, title, reqs) == [id |-> id, title |-> title, reqs |-> reqs]

(* A line that does not close goes on with the item, one that does adds it. *)
IdAfter(s, line) == IF s.id = NoText THEN line.opens ELSE s.id
TitleAfter(s, line) ==
    IF IdAfter(s, line) # NoText /\ line.title # NoText THEN line.title
    ELSE IF s.id = NoText THEN NoText ELSE s.title
Entitled(id, title) == Requirement(id, IF title = NoText THEN id ELSE title, Safety, NoText, NoText)

LEMMA PolarionStepIs ==
    ASSUME NEW s, NEW line
    PROVE  PolarionStep(s, line) =
               IF IdAfter(s, line) # NoText /\ line.closes
               THEN Item(NoText, NoText, AddNew(s.reqs, Entitled(IdAfter(s, line), TitleAfter(s, line))))
               ELSE Item(IdAfter(s, line), TitleAfter(s, line), s.reqs)
<1> DEFINE id == IdAfter(s, line)
           title == TitleAfter(s, line)
<1>1. PolarionStep(s, line) =
          [id |-> IF id # NoText /\ line.closes THEN NoText ELSE id,
           title |-> IF id # NoText /\ line.closes THEN NoText ELSE title,
           reqs |-> IF ~ (id # NoText /\ line.closes) THEN s.reqs
                    ELSE AddNew(s.reqs, Entitled(id, title))]
  BY Zenon DEF PolarionStep, IdAfter, TitleAfter, Entitled
<1> HIDE DEF id, title
<1>2. PolarionStep(s, line) = IF id # NoText /\ line.closes
                              THEN Item(NoText, NoText, AddNew(s.reqs, Entitled(id, title)))
                              ELSE Item(id, title, s.reqs)
  BY <1>1, Zenon DEF Item
<1> QED BY <1>2 DEF id, title

LEMMA PolarionStepIsState ==
    ASSUME NEW s \in PolarionStates, NEW line \in PolarionLines
    PROVE  PolarionStep(s, line) \in PolarionStates
<1> DEFINE id == IdAfter(s, line)
           title == TitleAfter(s, line)
           new == Entitled(id, title)
<1>1. /\ s.id \in Texts /\ s.title \in Texts /\ s.reqs \in Seq(Requirements)
      /\ line.opens \in Texts /\ line.title \in Texts /\ NoText \in Texts /\ Safety \in Texts
  BY TextsAssumption DEF PolarionStates, PolarionLines
<1>2. id \in Texts /\ title \in Texts
  BY <1>1, Zenon DEF IdAfter, TitleAfter
<1>3. \/ PolarionStep(s, line) = Item(id, title, s.reqs)
      \/ PolarionStep(s, line) = Item(NoText, NoText, AddNew(s.reqs, new))
  BY PolarionStepIs
<1> HIDE DEF id, title
<1>4. new \in Requirements
  BY <1>1, <1>2 DEF Entitled, Requirement, Requirements
<1> HIDE DEF new
<1>5. AddNew(s.reqs, new) \in Seq(Requirements)
  BY <1>1, <1>4, AddNewIsSeq
<1> QED BY <1>1, <1>2, <1>3, <1>5 DEF Item, PolarionStates

LEMMA PolarionRuns ==
    ASSUME NEW n \in Nat, NEW written \in [1..n -> PolarionLines]
    PROVE  \E run \in [0..n -> PolarionStates] :
             /\ run[0] = Item(NoText, NoText, <<>>)
             /\ run[n].reqs = import_polarion(written, <<>>)
             /\ \A k \in 1..n : run[k] = PolarionStep(run[k - 1], written[k])
<1> DEFINE base == Item(NoText, NoText, <<>>)
           body(f) == [s \in SUBSET (1..n) |->
                         IF s = {} THEN base ELSE PolarionStep(f[s \ {Max(s)}], written[Max(s)])]
           chosen == CHOOSE f : f = body(f)
           step == [k \in 1..n |-> [v \in PolarionStates |-> PolarionStep(v, written[k])]]
<1>1. step \in [1..n -> [PolarionStates -> PolarionStates]]
  BY PolarionStepIsState
<1>0. base \in PolarionStates
  BY TextsAssumption DEF Item, PolarionStates
<1>2. import_polarion(written, <<>>) = chosen[1..n].reqs
  BY DEF import_polarion, FoldLeft, MapThenFoldSet, Item
<1> HIDE DEF base
<1>3. PICK f \in [SUBSET (1..n) -> PolarionStates] : Folds(f, n, base, step)
  <2> HIDE DEF step
  <2> QED BY <1>0, <1>1, FoldExists
<1>4. \A s \in SUBSET (1..n) : s # {} => Max(s) \in 1..n
  BY LastPlace
<1>5. f = body(f)
  <2>1. \A s \in SUBSET (1..n) : s # {} => f[s \ {Max(s)}] \in PolarionStates
    BY <1>3
  <2>2. \A s \in SUBSET (1..n) :
            f[s] = IF s = {} THEN base ELSE PolarionStep(f[s \ {Max(s)}], written[Max(s)])
    BY <1>3, <1>4, <2>1 DEF Folds
  <2> QED BY <1>3, <2>2
<1>6. chosen = body(chosen)
  BY <1>5
<1> HIDE DEF chosen
<1>7. FoldsIn(PolarionStates, chosen, n, base, step)
  BY <1>4, <1>6 DEF FoldsIn
<1> HIDE DEF step
<1>8. RunsThrough(PolarionStates, chosen, n, base, step)
  BY <1>0, <1>1, <1>7, FoldRuns, Zenon
<1>9. PICK run \in [0..n -> PolarionStates] : Runs(run, n, base, step) /\ run[n] = chosen[1..n]
  BY <1>8 DEF RunsThrough
<1>10. ASSUME NEW k \in 1..n PROVE run[k] = PolarionStep(run[k - 1], written[k])
  <2>1. run[k] = step[k][run[k - 1]] /\ run[k - 1] \in PolarionStates
    BY <1>9 DEF Runs
  <2> QED BY <2>1 DEF step
<1>11. run[0] = base
  BY <1>9 DEF Runs
<1> QED BY <1>2, <1>9, <1>10, <1>11 DEF base

(* The three lines of a requirement add it to those before.                *)
PolarionOf(r) ==
    <<ItemLine(r.id, NoText, FALSE), ItemLine(NoText, r.title, FALSE), ItemLine(NoText, NoText, TRUE)>>

LEMMA PolarionOfAreLines ==
    ASSUME NEW r \in Requirements
    PROVE  PolarionOf(r) \in Seq(PolarionLines) /\ Len(PolarionOf(r)) = 3
<1>1. r.id \in Texts /\ r.title \in Texts /\ NoText \in Texts
  BY TextsAssumption DEF Requirements
<1>2. \A a, b \in Texts, c \in BOOLEAN : ItemLine(a, b, c) \in PolarionLines
  BY AttributesAreTexts DEF ItemLine, PolarionLines
<1>3. /\ ItemLine(r.id, NoText, FALSE) \in PolarionLines
      /\ ItemLine(NoText, r.title, FALSE) \in PolarionLines
      /\ ItemLine(NoText, NoText, TRUE) \in PolarionLines
  BY <1>1, <1>2
<1>4. \A a, b, c \in PolarionLines :
          <<a, b, c>> \in Seq(PolarionLines) /\ Len(<<a, b, c>>) = 3
  OBVIOUS
<1> QED BY <1>3, <1>4, Zenon DEF PolarionOf

LEMMA PolarionOfOne ==
    ASSUME NEW r \in Requirements, NEW old,
           r.id \notin {NoText, Lines, Quoted}, r.title \notin {NoText, Lines, Angled}
    PROVE  \A s1, s2, s3 :
             /\ s1 = PolarionStep(Item(NoText, NoText, old), PolarionOf(r)[1])
             /\ s2 = PolarionStep(s1, PolarionOf(r)[2])
             /\ s3 = PolarionStep(s2, PolarionOf(r)[3])
             => s3 = Item(NoText, NoText, AddNew(old, Bare(r)))
<1>1. ASSUME NEW id, NEW title
      PROVE  Item(id, title, old).id = id /\ Item(id, title, old).title = title
             /\ Item(id, title, old).reqs = old
  BY DEF Item
<1> DEFINE one == PolarionOf(r)[1]
           two == PolarionOf(r)[2]
           three == PolarionOf(r)[3]
<1>2. /\ one.opens = r.id /\ one.title = NoText /\ ~one.closes
      /\ two.opens = NoText /\ two.title = r.title /\ ~two.closes
      /\ three.opens = NoText /\ three.title = NoText /\ three.closes
      /\ r.id # NoText /\ r.title # NoText
  <2>1. /\ Attribute(r.id) = r.id /\ Element(r.title) = r.title
        /\ Attribute(NoText) = NoText /\ Element(NoText) = NoText
    BY DEF Attribute, Element, NoText, Lines, Quoted, Angled
  <2> QED BY <2>1 DEF PolarionOf, ItemLine
<1> HIDE DEF one, two, three
<1>3. PolarionStep(Item(NoText, NoText, old), one) = Item(r.id, NoText, old)
  <2> DEFINE s == Item(NoText, NoText, old)
  <2>1. s.id = NoText /\ s.title = NoText /\ s.reqs = old
    BY <1>1
  <2> HIDE DEF s
  <2>2. IdAfter(s, one) = r.id /\ TitleAfter(s, one) = NoText
    BY <1>2, <2>1 DEF IdAfter, TitleAfter
  <2>3. PolarionStep(s, one) = Item(r.id, NoText, old)
    BY <1>2, <2>1, <2>2, PolarionStepIs
  <2> QED BY <2>3 DEF s
<1>4. PolarionStep(Item(r.id, NoText, old), two) = Item(r.id, r.title, old)
  <2> DEFINE s == Item(r.id, NoText, old)
  <2>1. s.id = r.id /\ s.title = NoText /\ s.reqs = old
    BY <1>1
  <2> HIDE DEF s
  <2>2. IdAfter(s, two) = r.id /\ TitleAfter(s, two) = r.title
    BY <1>2, <2>1 DEF IdAfter, TitleAfter
  <2>3. PolarionStep(s, two) = Item(r.id, r.title, old)
    BY <1>2, <2>1, <2>2, PolarionStepIs
  <2> QED BY <2>3 DEF s
<1>5. PolarionStep(Item(r.id, r.title, old), three) = Item(NoText, NoText, AddNew(old, Bare(r)))
  <2> DEFINE s == Item(r.id, r.title, old)
  <2>1. s.id = r.id /\ s.title = r.title /\ s.reqs = old
    BY <1>1
  <2> HIDE DEF s
  <2>2. IdAfter(s, three) = r.id /\ TitleAfter(s, three) = r.title
    BY <1>2, <2>1 DEF IdAfter, TitleAfter
  <2>3. PolarionStep(s, three) = Item(NoText, NoText, AddNew(old, Entitled(r.id, r.title)))
    BY <1>2, <2>1, <2>2, PolarionStepIs
  <2>4. Entitled(r.id, r.title) = Bare(r)
    BY Zenon DEF Entitled, Bare
  <2> QED BY <2>3, <2>4 DEF s
<1> QED BY <1>3, <1>4, <1>5, Zenon DEF one, two, three

THEOREM PolarionRoundTrips ==
    ASSUME NEW reqs \in Seq(Requirements), PolarionKeeps(reqs)
    PROVE  Named(import_polarion(export_polarion(reqs), <<>>)) = Named(reqs)
<1> DEFINE n == Len(reqs)
           seqs == [i \in 1..n |-> PolarionOf(reqs[i])]
           rs == Bares(reqs)
           start == [k \in 0..n |-> 3 * k]
           out == export_polarion(reqs)
           Between(done) == Item(NoText, NoText, done)
<1>1. n \in Nat /\ DOMAIN reqs = 1..n
  OBVIOUS
<1>2. /\ Addable(rs, n) /\ FirstOf(rs, n) = rs /\ FirstOf(rs, 0) = <<>> /\ Named(rs) = Named(reqs)
      /\ \A i \in 1..n : reqs[i] \in Requirements /\ rs[i] = Bare(reqs[i])
  BY BaresAreNamed DEF PolarionKeeps
<1>3. out = FlattenSeq(seqs)
  BY <1>1 DEF export_polarion, PolarionOf
<1>4. seqs \in [1..n -> Seq(PolarionLines)]
      /\ \A k \in 1..n : seqs[k] = PolarionOf(reqs[k]) /\ Len(seqs[k]) = 3
  BY <1>2, PolarionOfAreLines
<1>5. start \in [0..n -> Nat] /\ start[0] = 0
      /\ \A k \in 1..n : start[k] = start[k - 1] + Len(seqs[k])
  <2>1. \A k \in 1..n : start[k] = 3 * k /\ start[k - 1] = 3 * (k - 1) /\ 3 * k = 3 * (k - 1) + 3
    BY <1>1
  <2>2. start \in [0..n -> Nat] /\ start[0] = 0
    BY <1>1
  <2> HIDE DEF start, seqs, n
  <2>3. \A k \in 1..n : start[k] = start[k - 1] + Len(seqs[k])
    BY <1>4, <2>1
  <2> QED BY <2>2, <2>3
<1>6. /\ out \in Seq(PolarionLines) /\ Len(out) = 3 * n
      /\ \A k \in 1..n : HasFrom(out, 3 * (k - 1), PolarionOf(reqs[k]))
  <2>1. CASE n = 0
    <3>1. seqs = <<>>
      BY <2>1
    <3> QED BY <1>3, <2>1, <3>1 DEF FlattenSeq
  <2>2. CASE n # 0
    <3>1. n \in Nat \ {0} /\ start[n] = 3 * n /\ \A k \in 1..n : start[k - 1] = 3 * (k - 1)
      BY <1>1, <2>2
    <3> HIDE DEF start, seqs, n
    <3>2. FlattenSeq(seqs) \in Seq(PolarionLines) /\ Len(FlattenSeq(seqs)) = start[n]
          /\ \A k \in 1..n : HasFrom(FlattenSeq(seqs), start[k - 1], seqs[k])
      BY <1>4, <1>5, <3>1, FlattenPlaces
    <3> QED BY <1>3, <1>4, <3>1, <3>2, Zenon
  <2> QED BY <2>1, <2>2
<1> HIDE DEF out, seqs, start, rs
<1>7. 3 * n \in Nat /\ out \in [1..(3 * n) -> PolarionLines]
  BY <1>1, <1>6
<1>8. PICK run \in [0..(3 * n) -> PolarionStates] :
             /\ run[0] = Between(<<>>)
             /\ run[3 * n].reqs = import_polarion(out, <<>>)
             /\ \A k \in 1..(3 * n) : run[k] = PolarionStep(run[k - 1], out[k])
  BY <1>7, PolarionRuns, Zenon
<1> DEFINE S == {m \in 0..n : run[3 * m] = Between(FirstOf(rs, m))}
<1>9. 0 \in S
  BY <1>1, <1>2, <1>8
<1>10. ASSUME NEW m \in 1..n, m - 1 \in S PROVE m \in S
  <2> DEFINE b == 3 * (m - 1)
             r == reqs[m]
             old == FirstOf(rs, m - 1)
  <2>1. /\ b \in Nat /\ b + 3 = 3 * m /\ m \in 0..n
        /\ \A j \in 1..3 : b + j \in 1..(3 * n)
        /\ b + 1 - 1 = b /\ b + 2 - 1 = b + 1 /\ b + 3 - 1 = b + 2
    BY <1>1
  <2>2. run[b] = Between(old)
    BY <1>10
  <2> HIDE DEF b, old, Between
  <2>3. \A j \in 1..3 : out[b + j] = PolarionOf(r)[j]
    <3>1. HasFrom(out, b, PolarionOf(r)) /\ Len(PolarionOf(r)) = 3
      BY <1>2, <1>6, PolarionOfAreLines DEF b
    <3> QED BY <3>1 DEF HasFrom
  <2>4. ASSUME NEW j \in 1..3 PROVE run[b + j] = PolarionStep(run[b + j - 1], PolarionOf(r)[j])
    <3> DEFINE k == b + j
    <3>1. k \in 1..(3 * n)
      BY <2>1
    <3>2. out[k] = PolarionOf(r)[j]
      BY <2>3
    <3>3. k - 1 = b + j - 1
      BY <2>1
    <3> HIDE DEF k, n
    <3>4. run[k] = PolarionStep(run[k - 1], out[k])
      BY <1>8, <3>1
    <3>5. run[k] = PolarionStep(run[b + j - 1], PolarionOf(r)[j])
      BY <3>2, <3>3, <3>4
    <3> QED BY <3>5 DEF k
  <2>5. /\ run[b + 1] = PolarionStep(Between(old), PolarionOf(r)[1])
        /\ run[b + 2] = PolarionStep(run[b + 1], PolarionOf(r)[2])
        /\ run[b + 3] = PolarionStep(run[b + 2], PolarionOf(r)[3])
    BY <2>1, <2>2, <2>4
  <2>6. /\ r \in Requirements /\ rs[m] = Bare(r)
        /\ r.id \notin {NoText, Lines, Quoted} /\ r.title \notin {NoText, Lines, Angled}
    BY <1>1, <1>2 DEF PolarionKeeps
  <2>7. run[b + 3] = Between(AddNew(old, Bare(r)))
    BY <2>5, <2>6, PolarionOfOne DEF Between
  <2>8. AddNew(old, rs[m]) = FirstOf(rs, m)
    BY <1>1, <1>2, FirstGrows, Zenon DEF old
  <2> QED BY <2>1, <2>6, <2>7, <2>8 DEF Between
<1> HIDE DEF S
<1>11. \A m \in 0..n : m \in S
  BY <1>1, <1>9, <1>10, UpTo, Zenon
<1>12. run[3 * n] = Between(rs)
  BY <1>1, <1>2, <1>11 DEF S
<1>13. import_polarion(out, <<>>) = rs
  BY <1>8, <1>12 DEF Item
<1> QED BY <1>2, <1>13 DEF out

(* In whatever state the file is, what is in it makes the round trips.     *)
LEMMA FileRoundTrips == TraceInv => RoundTrips
<1> SUFFICES ASSUME TraceInv PROVE RoundTrips
  OBVIOUS
<1>1. file.reqs \in Seq(Requirements)
  BY DEF TraceInv, RequirementsInv, TypeOK, RequirementFiles
<1>2. CsvKeeps(file.reqs) => import_csv(export_csv(file.reqs), <<>>) = Replaced(file.reqs)
  BY <1>1, CsvRoundTrips, Zenon
<1>3. DoorsKeeps(file.reqs) => Named(import_doors(export_doors(file.reqs), <<>>)) = Named(file.reqs)
  BY <1>1, DoorsRoundTrips, Zenon
<1>4. PolarionKeeps(file.reqs) =>
          Named(import_polarion(export_polarion(file.reqs), <<>>)) = Named(file.reqs)
  BY <1>1, PolarionRoundTrips, Zenon
<1> QED BY <1>2, <1>3, <1>4, Zenon DEF RoundTrips

(* Whatever imports do and people edit: what a gate lets pass is covered,   *)
(* no import makes an id twice, a strict trace means the hierarchy, and     *)
(* the counts, the document and the gaps tell the same.                     *)
THEOREM TraceMeansItsWord ==
    Spec => [](GateCoversKnown /\ TwiceByPeople /\ StrictMeansHierarchy /\ ReportsAgree)
<1>1. TraceInv => TwiceByPeople
  BY DEF TraceInv
<1> QED BY TraceInvariance, KnownIsCovered, HierarchyOfTheKnown, ReportsAreOfOne, <1>1, PTL

-----------------------------------------------------------------------------
(* Release *)
Released == Inputs \cup Regenerated

(* A listing stays one when files change, and keeps what it has of others. *)
LEMMA OutdatedListing ==
    ASSUME NEW l \in RE!Listings, NEW S
    PROVE  /\ RE!Outdated(l, S) \in RE!Listings
           /\ \A n \in RE!EvidenceFiles \ S : RE!Outdated(l, S)[n] = l[n]
           /\ l = RE!Nothing => RE!Outdated(l, S) = RE!Nothing
<1>1. \A n \in RE!EvidenceFiles : l[n] \in {"unlisted", "current", "stale"}
  BY DEF RE!Listings
<1>2. RE!Outdated(l, S) \in RE!Listings
  BY <1>1 DEF RE!Outdated, RE!Listings
<1>3. \A n \in RE!EvidenceFiles \ S : RE!Outdated(l, S)[n] = l[n]
  BY DEF RE!Outdated
<1>4. ASSUME l = RE!Nothing PROVE RE!Outdated(l, S) = RE!Nothing
  <2>1. \A n \in RE!EvidenceFiles : l[n] = "unlisted"
    BY <1>4 DEF RE!Nothing
  <2>. QED
    BY <2>1 DEF RE!Outdated, RE!Nothing
<1>. QED
  BY <1>2, <1>3, <1>4

(* Nothing lists nothing.                                                  *)
LEMMA NothingIsListed ==
    RE!Nothing \in RE!Listings /\ \A n \in RE!EvidenceFiles : RE!Nothing[n] = "unlisted"
BY DEF RE!Nothing, RE!Listings

(* The outputs are not among the evidence that must be pinned.             *)
LEMMA OutputsAreOthers ==
    ASSUME RE!NamesAssumption
    PROVE  Released \subseteq RE!EvidenceFiles \ RE!Outputs
BY DEF RE!NamesAssumption, Released, RE!EvidenceFiles

-----------------------------------------------------------------------------
THEOREM ReleaseInitially == RE!Init => RE!Inv /\ RE!EvidencePinned
BY NothingIsListed DEF RE!Init, RE!Inv, RE!TypeOK, RE!HashesFollow, RE!EvidencePinned, RE!Pins, RE!EvidenceFiles

(* Writing an output, or failing to, leaves the evidence and its hashes.   *)
LEMMA OutputsLeaveEvidence ==
    ASSUME RE!NamesAssumption, RE!TypeOK, NEW name \in RE!Outputs, RE!WriteOutput(name)
    PROVE  /\ present' \subseteq RE!EvidenceFiles /\ hashes' \in RE!Listings /\ manifest' \in RE!Listings
           /\ \A n \in Released :
                  /\ n \in present' <=> n \in present
                  /\ hashes'[n] = hashes[n]
                  /\ manifest'[n] = manifest[n]
<1>1. name \in RE!EvidenceFiles /\ Released \subseteq RE!EvidenceFiles \ {name}
  BY OutputsAreOthers DEF RE!EvidenceFiles
<1>2. CASE RE!Rewrite({name})
  <2>1. hashes \in RE!Listings /\ manifest \in RE!Listings
    BY DEF RE!TypeOK
  <2>. QED
    BY <1>1, <1>2, <2>1, OutdatedListing DEF RE!Rewrite, RE!TypeOK
<1>3. CASE UNCHANGED <<present, hashes, manifest>>
  BY <1>3 DEF RE!TypeOK
<1>. QED
  BY <1>2, <1>3 DEF RE!WriteOutput

(* Every step keeps the invariant and what it is for.                      *)
LEMMA ReleaseNextPreserves ==
    ASSUME RE!NamesAssumption, RE!Inv, RE!EvidencePinned, [RE!Next]_RE!vars
    PROVE  RE!Inv' /\ RE!EvidencePinned'
<1> USE DEF RE!Inv
<1>0. hashes \in RE!Listings /\ manifest \in RE!Listings /\ present \subseteq RE!EvidenceFiles /\ todo \subseteq RE!EvidenceFiles
  BY DEF RE!TypeOK
<1>1. ASSUME NEW n \in Inputs \cup Regenerated, RE!Change(n) PROVE RE!Inv' /\ RE!EvidencePinned'
  <2>1. hashes' \in RE!Listings /\ manifest' \in RE!Listings /\ (hashes = RE!Nothing => hashes' = RE!Nothing)
    BY <1>0, <1>1, OutdatedListing DEF RE!Change, RE!Rewrite
  <2>2. present' \subseteq RE!EvidenceFiles
    BY <1>0, <1>1 DEF RE!Change, RE!Rewrite, RE!EvidenceFiles
  <2>3. RE!TypeOK'
    BY <1>1, <2>1, <2>2 DEF RE!Change, RE!TypeOK
  <2>. QED
    BY <1>1, <2>1, <2>3 DEF RE!Change, RE!HashesFollow, RE!EvidencePinned, RE!Pins
<1>2. ASSUME NEW n \in Inputs \cup Regenerated, RE!Remove(n) PROVE RE!Inv' /\ RE!EvidencePinned'
  <2>1. hashes' \in RE!Listings /\ manifest' \in RE!Listings /\ (hashes = RE!Nothing => hashes' = RE!Nothing)
    BY <1>0, <1>2, OutdatedListing DEF RE!Remove
  <2>2. present' \subseteq RE!EvidenceFiles
    BY <1>0, <1>2 DEF RE!Remove
  <2>3. RE!TypeOK'
    BY <1>2, <2>1, <2>2 DEF RE!Remove, RE!TypeOK
  <2>. QED
    BY <1>2, <2>1, <2>3 DEF RE!Remove, RE!HashesFollow, RE!EvidencePinned, RE!Pins
<1>3. ASSUME NEW full \in BOOLEAN, NEW here \in BOOLEAN, RE!Start(full, here)
      PROVE  RE!Inv' /\ RE!EvidencePinned'
  <2>1. RE!TypeOK'
    BY <1>0, <1>3, NothingIsListed DEF RE!Start, RE!TypeOK, RE!EvidenceFiles
  <2>2. RE!HashesFollow' /\ RE!EvidencePinned'
    BY <1>3 DEF RE!Start, RE!HashesFollow, RE!EvidencePinned, RE!Pins
  <2>. QED
    BY <2>1, <2>2
<1>4. ASSUME NEW n \in Regenerated, RE!Regenerate(n) PROVE RE!Inv' /\ RE!EvidencePinned'
  <2>1. /\ hashes' \in RE!Listings /\ manifest' \in RE!Listings /\ (hashes = RE!Nothing => hashes' = RE!Nothing)
        /\ present' \subseteq RE!EvidenceFiles
    BY <1>0, <1>4, OutdatedListing DEF RE!Regenerate, RE!Rewrite, RE!EvidenceFiles
  <2>2. RE!TypeOK' /\ pc = "full" /\ pc' = "full"
    BY <1>0, <1>4, <2>1 DEF RE!Regenerate, RE!TypeOK
  <2>. QED
    BY <2>1, <2>2 DEF RE!HashesFollow, RE!EvidencePinned, RE!Pins
<1>5. CASE RE!FullDone
  BY <1>5 DEF RE!FullDone, RE!TypeOK, RE!HashesFollow, RE!EvidencePinned, RE!Pins
<1>6. CASE RE!List
  <2>1. RE!TypeOK' /\ pc' = "hash" /\ RE!EvidencePinned'
    BY <1>0, <1>6 DEF RE!List, RE!TypeOK, RE!EvidencePinned, RE!Pins
  <2>2. hashes' = RE!Nothing /\ todo' = present /\ present' = present
    BY <1>6 DEF RE!List, RE!HashesFollow
  <2>3. \A n \in Inputs \cup Regenerated : hashes'[n] = "unlisted"
    BY <2>2, NothingIsListed DEF RE!EvidenceFiles
  <2>. QED
    BY <2>1, <2>2, <2>3 DEF RE!HashesFollow
<1>7. ASSUME NEW n \in RE!EvidenceFiles, RE!Hash(n) PROVE RE!Inv' /\ RE!EvidencePinned'
  <2>1. RE!TypeOK' /\ pc = "hash" /\ pc' = "hash"
    BY <1>0, <1>7 DEF RE!Hash, RE!TypeOK, RE!Listings
  <2>2. /\ todo' = todo \ {n} /\ present' = present /\ touched' = touched
        /\ \A m \in RE!EvidenceFiles : hashes'[m] = IF m # n THEN hashes[m]
                                         ELSE IF n \in present THEN "current" ELSE "stale"
        /\ n \in todo
    BY <1>0, <1>7 DEF RE!Hash, RE!Listings
  <2>3. Inputs \cup Regenerated \subseteq RE!EvidenceFiles
    BY DEF RE!EvidenceFiles
  <2>4. RE!HashesFollow'
    BY <2>1, <2>2, <2>3 DEF RE!HashesFollow
  <2>. QED
    BY <2>1, <2>4 DEF RE!EvidencePinned, RE!Pins
<1>8. CASE RE!HashDone
  BY <1>8 DEF RE!HashDone, RE!TypeOK, RE!HashesFollow, RE!EvidencePinned, RE!Pins
<1>9. CASE RE!WriteSbom \/ RE!WriteProvenance
  <2>1. PICK name \in RE!Outputs : RE!WriteOutput(name)
    BY <1>9 DEF RE!WriteSbom, RE!WriteProvenance, RE!Outputs
  <2>2. /\ pc \in {"sbom", "provenance"} /\ pc' \in {"provenance", "manifest"}
        /\ UNCHANGED <<beside, todo, touched>>
    BY <1>9 DEF RE!WriteSbom, RE!WriteProvenance
  <2>3. RE!TypeOK'
    BY <2>1, <2>2, OutputsLeaveEvidence DEF RE!TypeOK
  <2>4. RE!HashesFollow'
    BY <2>1, <2>2, OutputsLeaveEvidence DEF RE!HashesFollow, Released
  <2>. QED
    BY <2>2, <2>3, <2>4 DEF RE!EvidencePinned, RE!Pins
<1>10. CASE RE!WriteManifest
  <2> DEFINE own == IF beside THEN {"artifact-manifest.json"} ELSE {}
  <2>1. /\ pc = "manifest" /\ pc' = "done" /\ present' = present \cup own
        /\ manifest' = RE!Outdated(hashes, own) /\ hashes' = RE!Nothing
        /\ UNCHANGED <<beside, todo, touched>>
    BY <1>10 DEF RE!WriteManifest
  <2>2. own \subseteq RE!Outputs /\ own \subseteq RE!EvidenceFiles
    BY DEF RE!Outputs, RE!EvidenceFiles
  <2>3. Released \subseteq RE!EvidenceFiles \ own
    BY <2>2, OutputsAreOthers
  <2> HIDE DEF own
  <2>4. manifest' \in RE!Listings /\ \A n \in Released : manifest'[n] = hashes[n]
    BY <1>0, <2>1, <2>3, OutdatedListing
  <2>5. \A n \in Released : n \in present' <=> n \in present
    BY <2>1, <2>3
  <2>6. RE!TypeOK'
    BY <1>0, <2>1, <2>2, <2>4, NothingIsListed DEF RE!TypeOK
  <2>7. RE!EvidencePinned'
    BY <2>1, <2>4, <2>5 DEF RE!HashesFollow, RE!EvidencePinned, RE!Pins, Released
  <2>. QED
    BY <2>1, <2>6, <2>7 DEF RE!HashesFollow
<1>11. CASE RE!WriteManifestFails
  <2>1. RE!TypeOK'
    BY <1>0, <1>11, NothingIsListed DEF RE!WriteManifestFails, RE!TypeOK, RE!EvidenceFiles, RE!Outputs
  <2>. QED
    BY <1>11, <2>1 DEF RE!WriteManifestFails, RE!HashesFollow, RE!EvidencePinned, RE!Pins
<1>12. CASE RE!Crash
  BY <1>0, <1>12, NothingIsListed DEF RE!Crash, RE!TypeOK, RE!HashesFollow, RE!EvidencePinned, RE!Pins
<1>13. CASE UNCHANGED RE!vars
  BY <1>13 DEF RE!vars, RE!TypeOK, RE!HashesFollow, RE!EvidencePinned, RE!Pins
<1>. QED
  BY <1>1, <1>2, <1>3, <1>4, <1>5, <1>6, <1>7, <1>8, <1>9, <1>10, <1>11, <1>12, <1>13
     DEF RE!Next, RE!Command

(* At every step of a release that nobody disturbs its listing is that of  *)
(* the evidence hashed so far, whatever earlier releases died or failed.   *)
THEOREM ReleaseInvariance ==
    ASSUME RE!NamesAssumption
    PROVE  RE!Spec => []RE!Inv
<1>1. RE!Inv /\ RE!EvidencePinned /\ [RE!Next]_RE!vars => (RE!Inv /\ RE!EvidencePinned)'
  BY ReleaseNextPreserves
<1>. QED
  BY ReleaseInitially, <1>1, PTL DEF RE!Spec

(* The manifest of an undisturbed release pins all the evidence that is    *)
(* not an output of its own, also what --full regenerated.                 *)
THEOREM UndisturbedReleasePins ==
    ASSUME RE!NamesAssumption
    PROVE  RE!Spec => []RE!EvidencePinned
<1>1. RE!Inv /\ RE!EvidencePinned /\ [RE!Next]_RE!vars => (RE!Inv /\ RE!EvidencePinned)'
  BY ReleaseNextPreserves
<1>. QED
  BY ReleaseInitially, <1>1, PTL DEF RE!Spec

-----------------------------------------------------------------------------
(* Verify *)
(* Counting in the instance of Verify is counting.                         *)
LEMMA SameSize ==
    ASSUME NEW S
    PROVE  (VE!IsFiniteSet(S) <=> IsFiniteSet(S)) /\ VE!Cardinality(S) = Cardinality(S)
BY DEF VE!IsFiniteSet, IsFiniteSet, VE!Cardinality, Cardinality

(* How many tests have a status, and that none means none.                 *)
LEMMA HavingCounts ==
    ASSUME VE!TestsAssumption, NEW r, NEW s
    PROVE  /\ IsFiniteSet({t \in Tests : r[t] = s})
           /\ VE!Having(r, s) \in VE!Count
           /\ VE!Having(r, s) = 0 <=> \A t \in Tests : r[t] # s
<1> DEFINE T == {t \in Tests : r[t] = s}
<1>1. IsFiniteSet(T) /\ Cardinality(T) <= Cardinality(Tests)
  BY FS_Subset, SameSize DEF VE!TestsAssumption
<1>2. Cardinality(T) \in Nat /\ Cardinality(Tests) \in Nat
  BY <1>1, FS_CardinalityType, SameSize DEF VE!TestsAssumption
<1>3. Cardinality(T) = 0 <=> T = {}
  BY <1>1, FS_EmptySet
<1>. QED
  BY <1>1, <1>2, <1>3, SameSize DEF VE!Having, VE!Count

(* The three counts of a summary add up to the tests that have a result.   *)
LEMMA CountsAddUp ==
    ASSUME VE!TestsAssumption, NEW r \in VE!Lines
    PROVE  /\ VE!Having(r, "passed") + VE!Having(r, "failed") + VE!Having(r, "skipped")
                  = Cardinality({t \in Tests : r[t] # VE!NotRun})
           /\ Cardinality({t \in Tests : r[t] # VE!NotRun}) \in VE!Count
<1> DEFINE P == {t \in Tests : r[t] = "passed"}
           F == {t \in Tests : r[t] = "failed"}
           S == {t \in Tests : r[t] = "skipped"}
           R == {t \in Tests : r[t] # VE!NotRun}
<1>1. IsFiniteSet(P) /\ IsFiniteSet(F) /\ IsFiniteSet(S)
  BY HavingCounts
<1>2. P \cap F = {} /\ (P \cup F) \cap S = {}
  OBVIOUS
<1>3. R = (P \cup F) \cup S
  BY DEF VE!Lines, VE!Statuses, VE!NotRun
<1>4. R \subseteq Tests
  OBVIOUS
<1>5. Cardinality(R) <= Cardinality(Tests) /\ IsFiniteSet(R)
  BY <1>4, FS_Subset, SameSize DEF VE!TestsAssumption
<1>6. Cardinality(P) \in Nat /\ Cardinality(F) \in Nat /\ Cardinality(S) \in Nat
  BY <1>1, FS_CardinalityType
<1>7. Cardinality(R) \in Nat /\ Cardinality(Tests) \in Nat
  BY <1>5, FS_CardinalityType, SameSize DEF VE!TestsAssumption
<1> HIDE DEF P, F, S, R
<1>8. IsFiniteSet(P \cup F) /\ Cardinality(P \cup F) = Cardinality(P) + Cardinality(F)
  <2>1. /\ IsFiniteSet(P \cup F)
        /\ Cardinality(P \cup F) = Cardinality(P) + Cardinality(F) - Cardinality(P \cap F)
    BY <1>1, FS_Union
  <2>2. Cardinality(P \cap F) = 0
    BY <1>2, FS_EmptySet
  <2>. QED
    BY <1>6, <2>1, <2>2
<1>9. Cardinality(R) = Cardinality(P \cup F) + Cardinality(S)
  <2>1. Cardinality((P \cup F) \cup S)
            = Cardinality(P \cup F) + Cardinality(S) - Cardinality((P \cup F) \cap S)
    BY <1>1, <1>8, FS_Union
  <2>2. Cardinality((P \cup F) \cap S) = 0
    BY <1>2, FS_EmptySet
  <2>. QED
    BY <1>3, <1>6, <1>8, <2>1, <2>2
<1>10. Cardinality(R) = Cardinality(P) + Cardinality(F) + Cardinality(S) /\ Cardinality(R) \in VE!Count
  BY <1>5, <1>6, <1>7, <1>8, <1>9, SameSize DEF VE!Count
<1>. QED
  BY <1>10, SameSize DEF P, F, S, R, VE!Having

(* The summary of any output is a bundle.                                  *)
LEMMA SummaryIsABundle ==
    ASSUME VE!TestsAssumption, NEW out \in VE!Lines, NEW ended \in BOOLEAN
    PROVE  VE!Summarised(out, ended) \in VE!Bundles
<1> DEFINE results == VE!parse_ctest_output(out)
           none == \A t \in Tests : results[t] = VE!NotRun
           failed == IF none /\ ended THEN VE!Having(out, "failed") ELSE VE!Having(results, "failed")
           passed == VE!Having(results, "passed")
           skipped == VE!Having(results, "skipped")
<1>1. results \in VE!Lines
  BY DEF VE!parse_ctest_output, VE!Lines
<1>2. failed \in VE!Count /\ passed \in VE!Count /\ skipped \in VE!Count
  BY HavingCounts
<1>3. passed + failed + skipped \in VE!Count
  <2>1. CASE none /\ ended
    <3>1. \A t \in Tests : results[t] # "passed" /\ results[t] # "skipped"
      BY <2>1 DEF VE!NotRun
    <3>2. passed = 0 /\ skipped = 0
      BY <3>1, HavingCounts
    <3> HIDE DEF passed, skipped, failed
    <3>3. passed + failed + skipped = failed
      BY <1>2, <3>2 DEF VE!Count
    <3>. QED
      BY <1>2, <3>3
  <2>2. CASE ~(none /\ ended)
    <3>1. failed = VE!Having(results, "failed")
      BY <2>2
    <3>. QED
      BY <1>1, <3>1, CountsAddUp
  <2>. QED
    BY <2>1, <2>2
<1>4. VE!Summarised(out, ended) =
          [kind |-> "bundle", results |-> results, passed |-> passed, failed |-> failed,
           skipped |-> skipped, total |-> passed + failed + skipped]
  BY DEF VE!Summarised
<1> HIDE DEF results, passed, failed, skipped
<1>. QED
  BY <1>1, <1>2, <1>3, <1>4 DEF VE!Bundles

(* A summary without failures is of an output without failures, but where  *)
(* the pattern does not know them and another line is known, or the counts *)
(* are missing.                                                            *)
LEMMA FailuresAreHidden ==
    ASSUME VE!TestsAssumption, NEW out \in VE!Lines, NEW ended \in BOOLEAN,
           VE!Summarised(out, ended).failed = 0, NEW t \in Tests, out[t] = "failed"
    PROVE  /\ "failed" \in Starred
           /\ ended => \E u \in Tests : out[u] \notin Starred \cup {VE!NotRun}
<1> DEFINE results == VE!parse_ctest_output(out)
           none == \A u \in Tests : results[u] = VE!NotRun
<1>1. IF none /\ ended THEN VE!Having(out, "failed") = 0 ELSE VE!Having(results, "failed") = 0
  BY DEF VE!Summarised
<1>2. ~(VE!Having(out, "failed") = 0)
  BY HavingCounts
<1>3. ~(none /\ ended) /\ VE!Having(results, "failed") = 0
  BY <1>1, <1>2
<1>4. results[t] # "failed"
  BY <1>3, HavingCounts
<1>5. "failed" \in Starred
  BY <1>4 DEF VE!parse_ctest_output
<1>6. ASSUME ended PROVE \E u \in Tests : out[u] \notin Starred \cup {VE!NotRun}
  <2>1. PICK u \in Tests : results[u] # VE!NotRun
    BY <1>3, <1>6
  <2>. QED
    BY <2>1 DEF VE!parse_ctest_output
<1>. QED
  BY <1>5, <1>6

(* The pattern makes nothing up, and it knows what passed.                 *)
LEMMA ParsedIsPrinted ==
    ASSUME VE!StarredAssumption, NEW out \in VE!Lines
    PROVE  /\ VE!parse_ctest_output(out) \in VE!Lines
           /\ \A t \in Tests : VE!parse_ctest_output(out)[t] \in {out[t], VE!NotRun}
           /\ {t \in Tests : VE!parse_ctest_output(out)[t] = "passed"} = {t \in Tests : out[t] = "passed"}
<1>1. "passed" \notin Starred /\ "passed" # VE!NotRun
  BY DEF VE!StarredAssumption, VE!NotRun
<1>2. \A t \in Tests : VE!parse_ctest_output(out)[t] = IF out[t] \in Starred THEN VE!NotRun ELSE out[t]
  BY DEF VE!parse_ctest_output
<1>3. VE!parse_ctest_output(out) \in VE!Lines
  BY DEF VE!parse_ctest_output, VE!Lines
<1>. QED
  BY <1>1, <1>2, <1>3

(* What a summary without failures says of its output.                     *)
LEMMA SummaryIsOfTheOutput ==
    ASSUME VE!TestsAssumption, VE!StarredAssumption, NEW out \in VE!Lines, NEW ended \in BOOLEAN,
           NEW b, b = VE!Summarised(out, ended), b.failed = 0
    PROVE  /\ \A t \in Tests : b.results[t] \in {out[t], VE!NotRun}
           /\ b.passed = Cardinality({t \in Tests : out[t] = "passed"})
           /\ b.total = Cardinality({t \in Tests : b.results[t] # VE!NotRun})
<1> DEFINE results == VE!parse_ctest_output(out)
           none == \A t \in Tests : results[t] = VE!NotRun
           n(s) == VE!Having(results, s)
<1>1. /\ b.results = results /\ b.passed = n("passed")
      /\ b.failed = IF none /\ ended THEN VE!Having(out, "failed") ELSE n("failed")
      /\ b.total = n("passed") + b.failed + n("skipped")
  BY DEF VE!Summarised
<1>2. n("failed") = 0
  <2>1. CASE none
    <3>1. VE!NotRun # "failed"
      BY DEF VE!NotRun
    <3>2. \A t \in Tests : results[t] # "failed"
      BY <2>1, <3>1
    <3>. QED
      BY <3>2, HavingCounts
  <2>2. CASE ~none
    <3>1. b.failed = n("failed")
      BY <1>1, <2>2
    <3>. QED
      BY <3>1
  <2>. QED
    BY <2>1, <2>2
<1>3. n("passed") + n("failed") + n("skipped") = Cardinality({t \in Tests : results[t] # VE!NotRun})
  BY ParsedIsPrinted, CountsAddUp
<1>4. n("passed") = Cardinality({t \in Tests : out[t] = "passed"})
  BY ParsedIsPrinted, SameSize DEF VE!Having
<1>5. b.total = n("passed") + n("failed") + n("skipped")
  BY <1>1, <1>2
<1>. QED
  BY <1>1, <1>3, <1>4, <1>5, ParsedIsPrinted

-----------------------------------------------------------------------------
THEOREM VerifyInitially == VE!TestsAssumption /\ VE!Init => VE!Inv
<1> SUFFICES ASSUME VE!TestsAssumption, VE!Init PROVE VE!Inv
  OBVIOUS
<1>1. [t \in Tests |-> VE!NotRun] \in VE!Lines
  BY DEF VE!Lines
<1>. QED
  BY <1>1 DEF VE!Init, VE!Inv, VE!TypeOK, VE!NeverRecorded, VE!make_verify002, VE!WrittenIsGreen, VE!NoEvidence

(* Every step keeps it, by what the step assigns.                          *)
LEMMA VerifyNextPreserves ==
    ASSUME VE!TestsAssumption, VE!Inv, [VE!Next]_VE!vars
    PROVE  VE!Inv'
<1> USE DEF VE!Inv
<1>0. [t \in Tests |-> VE!NotRun] \in VE!Lines /\ lines \in VE!Lines /\ tail \in BOOLEAN
  BY DEF VE!Lines, VE!TypeOK
<1>1. ASSUME NEW t \in Tests, NEW status \in VE!Statuses, VE!Edit(t, status) PROVE VE!Inv'
  <2>1. VE!TypeOK'
    BY <1>1 DEF VE!Edit, VE!TypeOK
  <2>. QED
    BY <1>1, <2>1 DEF VE!Edit, VE!NeverRecorded, VE!make_verify002, VE!WrittenIsGreen
<1>2. CASE VE!NoBuildDir \/ VE!Start
  <2>1. VE!TypeOK' /\ report' \in {"none", "error"} /\ pc' # "write" /\ evidence' = evidence
    BY <1>0, <1>2 DEF VE!NoBuildDir, VE!Start, VE!TypeOK
  <2>. QED
    BY <2>1 DEF VE!NeverRecorded, VE!make_verify002, VE!WrittenIsGreen
<1>3. ASSUME NEW t \in Tests, VE!Execute(t) PROVE VE!Inv'
  <2>1. outcome[t] \in VE!Statuses
    BY DEF VE!TypeOK
  <2>2. lines' \in VE!Lines
    BY <1>0, <1>3, <2>1 DEF VE!Execute, VE!Lines
  <2>3. VE!TypeOK' /\ pc = "ctest" /\ pc' = "ctest" /\ report' = report /\ evidence' = evidence
    BY <1>3, <2>2 DEF VE!Execute, VE!TypeOK
  <2>. QED
    BY <2>3 DEF VE!NeverRecorded, VE!make_verify002, VE!WrittenIsGreen
<1>4. CASE VE!CtestEnds \/ VE!CtestDies
  <2>1. tail' \in BOOLEAN
    BY <1>0, <1>4, Zenon DEF VE!CtestEnds, VE!CtestDies
  <2>2. VE!TypeOK' /\ pc = "ctest" /\ pc' = "parse" /\ report' = report /\ evidence' = evidence
    BY <1>4, <2>1 DEF VE!CtestEnds, VE!CtestDies, VE!TypeOK
  <2>. QED
    BY <2>2 DEF VE!NeverRecorded, VE!make_verify002, VE!WrittenIsGreen
<1>5. CASE VE!Parse
  <2>1. /\ VE!TypeOK' /\ evidence' = evidence /\ report' # "success"
        /\ lines' = lines /\ tail' = tail
        /\ pc' = "write" => ~(VE!Summarised(lines, tail).failed > 0)
    BY <1>5 DEF VE!Parse, VE!TypeOK
  <2>2. VE!Summarised(lines, tail).failed \in Nat
    BY <1>0, SummaryIsABundle, FS_CardinalityType DEF VE!Bundles, VE!Count, VE!TestsAssumption
  <2>. QED
    BY <2>1, <2>2 DEF VE!NeverRecorded, VE!make_verify002, VE!WrittenIsGreen
<1>6. CASE VE!write_evidence
  <2>1. VE!Summarised(lines, tail) \in VE!Bundles /\ VE!Summarised(lines, tail).failed = 0
    BY <1>0, <1>6, SummaryIsABundle DEF VE!write_evidence, VE!WrittenIsGreen
  <2>2. /\ evidence' = VE!Summarised(lines, tail) /\ lines' = lines /\ tail' = tail
        /\ pc' = "idle" /\ report' = "success" /\ outcome' = outcome
    BY <1>6 DEF VE!write_evidence
  <2>3. VE!TypeOK'
    BY <2>1, <2>2 DEF VE!TypeOK
  <2>. QED
    BY <2>1, <2>2, <2>3 DEF VE!NeverRecorded, VE!make_verify002, VE!WrittenIsGreen
<1>7. CASE VE!WriteFails
  <2>1. /\ evidence' = VE!Torn /\ lines' = lines /\ tail' = tail /\ outcome' = outcome
        /\ pc = "write" /\ pc' = "idle" /\ report' = "success"
    BY <1>7 DEF VE!WriteFails
  <2>. QED
    BY <2>1 DEF VE!TypeOK, VE!NeverRecorded, VE!make_verify002, VE!WrittenIsGreen, VE!Torn
<1>8. CASE VE!Crash
  <2>1. /\ evidence' \in {evidence, VE!Torn} /\ lines' = lines /\ tail' = tail
        /\ outcome' = outcome /\ pc' = "idle" /\ report' = "none"
    BY <1>8 DEF VE!Crash
  <2>. QED
    BY <2>1 DEF VE!TypeOK, VE!NeverRecorded, VE!make_verify002, VE!WrittenIsGreen, VE!Torn
<1>9. CASE UNCHANGED VE!vars
  BY <1>9 DEF VE!vars, VE!TypeOK, VE!NeverRecorded, VE!make_verify002, VE!WrittenIsGreen
<1>. QED
  BY <1>1, <1>2, <1>3, <1>4, <1>5, <1>6, <1>7, <1>8, <1>9 DEF VE!Next

(* For any tests and any form of ctest's output: what verify writes is the *)
(* summary of the run, and no bundle of its records a failure, so the      *)
(* VERIFY002 rule never fires on one.                                      *)
THEOREM VerifyInvariance ==
    ASSUME VE!TestsAssumption
    PROVE  VE!Spec => []VE!Inv
<1>1. VE!Inv /\ [VE!Next]_VE!vars => VE!Inv'
  BY VerifyNextPreserves
<1>. QED
  BY VerifyInitially, <1>1, PTL DEF VE!Spec

(* Whatever statuses the pattern misses: a success in spite of a failed    *)
(* test has one of a missed status, and either another test whose line is  *)
(* known or no counts of ctest's.                                          *)
LEMMA AllRedRuns ==
    ASSUME VE!TestsAssumption, VE!Inv
    PROVE  VE!AllRedIsRefused
<1> SUFFICES ASSUME report = "success", NEW t \in Tests, lines[t] = "failed"
             PROVE  /\ "failed" \in Starred
                    /\ tail => \E u \in Tests : lines[u] \notin Starred \cup {VE!NotRun}
  BY DEF VE!AllRedIsRefused
<1>1. lines \in VE!Lines /\ tail \in BOOLEAN /\ VE!Summarised(lines, tail).failed = 0
  BY DEF VE!Inv, VE!TypeOK, VE!WrittenIsGreen
<1>. QED
  BY <1>1, FailuresAreHidden

(* A bundle that was not cut short says nothing that ctest did not print,  *)
(* misses no pass, and its counts are those of its results.                *)
LEMMA BundleMeansTheRun ==
    ASSUME VE!TestsAssumption, VE!StarredAssumption, VE!Inv
    PROVE  VE!BundleIsOfTheRun
<1> SUFFICES ASSUME report = "success", evidence.kind = "bundle"
             PROVE  /\ \A t \in Tests : evidence.results[t] \in {lines[t], VE!NotRun}
                    /\ evidence.passed = Cardinality({t \in Tests : lines[t] = "passed"})
                    /\ evidence.failed = 0
                    /\ evidence.total = Cardinality({t \in Tests : evidence.results[t] # VE!NotRun})
  BY SameSize DEF VE!BundleIsOfTheRun
<1>1. /\ evidence = VE!Summarised(lines, tail) /\ evidence.failed = 0
      /\ lines \in VE!Lines /\ tail \in BOOLEAN
  BY DEF VE!Inv, VE!TypeOK, VE!WrittenIsGreen, VE!Torn
<1>. QED
  BY <1>1, SummaryIsOfTheOutput

-----------------------------------------------------------------------------
(* AuditPack *)
(* What is typed of every command.                                         *)
LEMMA Typed ==
    ASSUME AU!TypeOK, NEW p \in Packs
    PROVE  /\ files[p] \in AU!Contents /\ archive[p] \in AU!Archives /\ listed[p] \in AU!Contents
           /\ archive[p].files \in AU!Contents /\ archive[p].manifest \in AU!Manifests
           /\ todo[p] \in SUBSET Names /\ pc[p] \in AU!Places
BY DEF AU!TypeOK, AU!Archives

LEMMA NothingPacked ==
    ASSUME AU!VersionAssumption
    PROVE  /\ AU!Empty \in AU!Contents /\ AU!NoManifest \in AU!Manifests /\ AU!CutShort \in AU!Manifests
           /\ AU!NoArchive \in AU!Archives /\ AU!NoArchive.files = AU!Empty
           /\ \A p \in Packs, l \in AU!Contents : AU!Manifest(p, l) \in AU!Manifests
BY DEF AU!VersionAssumption, AU!Empty, AU!Contents, AU!Versions, AU!NoManifest, AU!CutShort, AU!Manifests,
       AU!NoArchive, AU!Archives, AU!Manifest

-----------------------------------------------------------------------------
THEOREM AuditPackInitially == AU!VersionAssumption /\ AU!Init => AU!Inv /\ AU!ManifestFollows
<1> SUFFICES ASSUME AU!VersionAssumption, AU!Init PROVE AU!Inv /\ AU!ManifestFollows
  OBVIOUS
<1>1. AU!TypeOK
  BY NothingPacked, Zenon DEF AU!Init, AU!TypeOK, AU!Places
<1>2. \A p \in Packs : pc[p] = "idle" /\ ~alone[p]
  BY DEF AU!Init
<1>. QED
  BY <1>1, <1>2 DEF AU!Inv, AU!PackComplete, AU!EvidenceFollows, AU!ManifestFollows, AU!At

-----------------------------------------------------------------------------
(* Types.                                                                  *)

LEMMA ChangeTyped ==
    ASSUME AU!TypeOK, NEW p \in Packs, NEW n \in Names, NEW v \in AU!Versions, AU!Change(p, n, v)
    PROVE  AU!TypeOK'
<1>1. [files[p] EXCEPT ![n] = v] \in AU!Contents
  BY Typed DEF AU!Contents
<1>2. files' \in [Packs -> AU!Contents]
  BY <1>1 DEF AU!Change, AU!TypeOK
<1>3. changed' \in [Packs -> BOOLEAN]
  BY DEF AU!Change, AU!TypeOK
<1>. QED
  BY <1>2, <1>3 DEF AU!Change, AU!TypeOK

LEMMA QuitTyped ==
    ASSUME AU!VersionAssumption, AU!TypeOK, NEW p \in Packs, AU!Quit(p)
    PROVE  /\ pc' \in [Packs -> AU!Places] /\ todo' \in [Packs -> SUBSET Names]
           /\ listed' \in [Packs -> AU!Contents]
BY NothingPacked DEF AU!Quit, AU!Goto, AU!TypeOK, AU!Places

LEMMA CommandTyped ==
    ASSUME AU!VersionAssumption, AU!TypeOK, NEW p \in Packs, AU!Command(p)
    PROVE  AU!TypeOK'
<1>0. /\ files[p] \in AU!Contents /\ archive[p] \in AU!Archives /\ listed[p] \in AU!Contents
      /\ archive[p].files \in AU!Contents /\ archive[p].manifest \in AU!Manifests
      /\ todo[p] \in SUBSET Names
  BY Typed
<1>1. CASE AU!Start(p)
  <2>1. pc' \in [Packs -> AU!Places] /\ todo' \in [Packs -> SUBSET Names]
    BY <1>1 DEF AU!Start, AU!Goto, AU!TypeOK, AU!Places
  <2>2. listed' \in [Packs -> AU!Contents]
    BY <1>1, NothingPacked DEF AU!Start, AU!TypeOK
  <2>3. changed' \in [Packs -> BOOLEAN]
    BY <1>1 DEF AU!Start, AU!TypeOK
  <2>4. alone' \in [Packs -> BOOLEAN]
    BY <1>1, Zenon DEF AU!Start
  <2>. QED
    BY <1>1, <2>1, <2>2, <2>3, <2>4 DEF AU!Start, AU!TypeOK
<1>2. ASSUME NEW n \in Names, AU!Hash(p, n) PROVE AU!TypeOK'
  <2>1. [listed[p] EXCEPT ![n] = files[p][n]] \in AU!Contents
    BY <1>0 DEF AU!Contents
  <2>2. listed' \in [Packs -> AU!Contents] /\ todo' \in [Packs -> SUBSET Names]
    BY <1>0, <1>2, <2>1 DEF AU!Hash, AU!TypeOK
  <2>. QED
    BY <1>2, <2>2 DEF AU!Hash, AU!TypeOK
<1>3. CASE AU!HashGone(p) \/ AU!ZipFails(p) \/ AU!AddManifestFails(p) \/ AU!Crash(p)
  <2>1. AU!Quit(p) /\ UNCHANGED <<files, archive, temp, changed, alone>>
    BY <1>3 DEF AU!HashGone, AU!ZipFails, AU!AddManifestFails, AU!Crash
  <2>. QED
    BY <2>1, QuitTyped DEF AU!TypeOK
<1>4. CASE AU!HashDone(p) \/ AU!Look(p)
  BY <1>4 DEF AU!HashDone, AU!Look, AU!Goto, AU!TypeOK, AU!Places
<1>5. CASE AU!OpenManifest(p) \/ AU!FillManifest(p)
  <2>1. temp' \in AU!Manifests
    BY <1>0, <1>5, NothingPacked DEF AU!OpenManifest, AU!FillManifest
  <2>. QED
    BY <1>5, <2>1 DEF AU!OpenManifest, AU!FillManifest, AU!Goto, AU!TypeOK, AU!Places
<1>6. CASE AU!Clean(p)
  <2>1. archive' \in [Packs -> AU!Archives]
    BY <1>6, NothingPacked DEF AU!Clean, AU!TypeOK
  <2>2. pc' \in [Packs -> AU!Places]
    BY <1>6 DEF AU!Clean, AU!Goto, AU!TypeOK, AU!Places
  <2>. QED
    BY <1>6, <2>1, <2>2 DEF AU!Clean, AU!TypeOK
<1>7. CASE AU!Zip(p)
  <2>1. \A S : AU!Added(archive[p], S, files[p]) \in AU!Archives
    <3>1. ASSUME NEW S
          PROVE  [n \in Names |-> IF n \in S THEN files[p][n] ELSE archive[p].files[n]] \in AU!Contents
      BY <1>0 DEF AU!Contents
    <3>. QED
      BY <1>0, <3>1 DEF AU!Added, AU!Archives
  <2>2. archive' \in [Packs -> AU!Archives]
    BY <1>7, <2>1 DEF AU!Zip, AU!TypeOK
  <2>. QED
    BY <1>7, <2>2 DEF AU!Zip, AU!Goto, AU!TypeOK, AU!Places
<1>8. CASE AU!AddManifest(p)
  <2>1. [there |-> TRUE, files |-> archive[p].files, manifest |-> temp] \in AU!Archives
    BY <1>0 DEF AU!Archives, AU!TypeOK
  <2>2. archive' \in [Packs -> AU!Archives]
    BY <1>8, <2>1 DEF AU!AddManifest, AU!TypeOK
  <2>. QED
    BY <1>8, <2>2 DEF AU!AddManifest, AU!Goto, AU!TypeOK, AU!Places
<1>. QED
  BY <1>1, <1>2, <1>3, <1>4, <1>5, <1>6, <1>7, <1>8 DEF AU!Command

-----------------------------------------------------------------------------
(* A step of one command leaves the other projects, and what the others    *)
(* have in memory, as they are.                                            *)
LEMMA OthersRest ==
    ASSUME AU!TypeOK, NEW p \in Packs, NEW q \in Packs, p # q,
           AU!Command(p) \/ \E n \in Names, v \in AU!Versions : AU!Change(p, n, v)
    PROVE  /\ files'[q] = files[q] /\ archive'[q] = archive[q] /\ pc'[q] = pc[q]
           /\ todo'[q] = todo[q] /\ listed'[q] = listed[q] /\ changed'[q] = changed[q]
BY DEF AU!TypeOK, AU!Command, AU!Change, AU!Start, AU!Hash, AU!HashGone, AU!HashDone, AU!OpenManifest, AU!FillManifest,
       AU!Clean, AU!Zip, AU!ZipFails, AU!AddManifest, AU!AddManifestFails, AU!Look, AU!Crash, AU!Quit, AU!Goto

(* What a project and its archive follow, for one command.                 *)
Follows(p) ==
    ~changed[p] =>
        /\ AU!At(p, "hash") =>
               \A n \in Names :
                   /\ n \in todo[p] => files[p][n] # 0
                   /\ listed[p][n] = IF n \in todo[p] THEN 0 ELSE files[p][n]
        /\ pc[p] \notin {"idle", "hash"} => listed[p] = files[p]
        /\ AU!At(p, "zip") => archive[p].files = AU!Empty
        /\ pc[p] \in {"add", "look", "done"} => archive[p].files = listed[p]

LEMMA CommandFollows ==
    ASSUME AU!VersionAssumption, AU!TypeOK, NEW p \in Packs, Follows(p), AU!Command(p)
    PROVE  Follows(p)'
<1>0. /\ files[p] \in AU!Contents /\ listed[p] \in AU!Contents
      /\ archive[p].files \in AU!Contents /\ todo[p] \in SUBSET Names
  BY Typed
<1>1. CASE AU!Start(p)
  <2>1. /\ pc'[p] = "hash" /\ todo'[p] = {n \in Names : files[p][n] # 0}
        /\ listed'[p] = AU!Empty /\ files' = files
    BY <1>1 DEF AU!Start, AU!Goto, AU!TypeOK
  <2>. QED
    BY <2>1 DEF Follows, AU!At, AU!Empty
<1>2. ASSUME NEW n \in Names, AU!Hash(p, n) PROVE Follows(p)'
  <2>1. /\ pc[p] = "hash" /\ pc' = pc /\ files' = files /\ changed' = changed
        /\ todo'[p] = todo[p] \ {n} /\ listed'[p] = [listed[p] EXCEPT ![n] = files[p][n]]
    BY <1>2 DEF AU!Hash, AU!At, AU!TypeOK
  <2>2. \A m \in Names : listed'[p][m] = IF m = n THEN files[p][n] ELSE listed[p][m]
    BY <1>0, <2>1 DEF AU!Contents
  <2>. QED
    BY <2>1, <2>2 DEF Follows, AU!At
<1>3. CASE AU!HashGone(p) \/ AU!ZipFails(p) \/ AU!AddManifestFails(p) \/ AU!Crash(p)
  <2>1. pc'[p] = "idle"
    BY <1>3 DEF AU!HashGone, AU!ZipFails, AU!AddManifestFails, AU!Crash, AU!Quit, AU!Goto, AU!TypeOK
  <2>. QED
    BY <2>1 DEF Follows, AU!At
<1>4. CASE AU!HashDone(p)
  <2>1. /\ pc[p] = "hash" /\ todo[p] = {} /\ pc'[p] = "open"
        /\ UNCHANGED <<files, listed, changed>>
    BY <1>4 DEF AU!HashDone, AU!At, AU!Goto, AU!TypeOK
  <2>2. ASSUME ~changed[p] PROVE listed[p] = files[p]
    <3>1. \A n \in Names : listed[p][n] = files[p][n]
      BY <2>1, <2>2 DEF Follows, AU!At
    <3>. QED
      BY <1>0, <3>1 DEF AU!Contents
  <2>. QED
    BY <2>1, <2>2 DEF Follows, AU!At
<1>5. CASE AU!OpenManifest(p) \/ AU!FillManifest(p)
  <2>1. /\ pc[p] \in {"open", "fill"} /\ pc'[p] \in {"fill", "clean"}
        /\ UNCHANGED <<files, listed, changed>>
    BY <1>5 DEF AU!OpenManifest, AU!FillManifest, AU!At, AU!Goto, AU!TypeOK
  <2>. QED
    BY <2>1 DEF Follows, AU!At
<1>6. CASE AU!Clean(p)
  <2>1. /\ pc[p] = "clean" /\ pc'[p] = IF listed[p] = AU!Empty THEN "add" ELSE "zip"
        /\ archive'[p] = AU!NoArchive /\ UNCHANGED <<files, listed, changed>>
    BY <1>6 DEF AU!Clean, AU!At, AU!Goto, AU!TypeOK
  <2>. QED
    BY <2>1, NothingPacked DEF Follows, AU!At
<1>7. CASE AU!Zip(p)
  <2> DEFINE named == {n \in Names : listed[p][n] # 0}
             found == {n \in named : files[p][n] # 0}
  <2>1. /\ pc[p] = "zip" /\ pc'[p] = "add" /\ archive'[p] = AU!Added(archive[p], found, files[p])
        /\ UNCHANGED <<files, listed, changed>>
    BY <1>7 DEF AU!Zip, AU!At, AU!Goto, AU!TypeOK
  <2>2. archive'[p].files =
            [n \in Names |-> IF n \in found THEN files[p][n] ELSE archive[p].files[n]]
    BY <2>1 DEF AU!Added
  <2>3. ASSUME ~changed[p] PROVE archive'[p].files = listed[p]
    <3>1. listed[p] = files[p] /\ archive[p].files = AU!Empty
      BY <2>1, <2>3 DEF Follows, AU!At
    <3>2. \A n \in Names : (IF n \in found THEN files[p][n] ELSE archive[p].files[n]) = files[p][n]
      BY <3>1 DEF AU!Empty
    <3>. QED
      BY <1>0, <2>2, <3>1, <3>2 DEF AU!Contents
  <2>. QED
    BY <2>1, <2>3 DEF Follows, AU!At
<1>8. CASE AU!AddManifest(p)
  <2>1. /\ pc[p] = "add" /\ pc'[p] = "look" /\ archive'[p].files = archive[p].files
        /\ UNCHANGED <<files, listed, changed>>
    BY <1>8 DEF AU!AddManifest, AU!At, AU!Goto, AU!TypeOK
  <2>. QED
    BY <2>1 DEF Follows, AU!At
<1>9. CASE AU!Look(p)
  <2>1. /\ pc[p] = "look" /\ pc'[p] = "done" /\ UNCHANGED <<files, archive, listed, changed>>
    BY <1>9 DEF AU!Look, AU!At, AU!Goto, AU!TypeOK
  <2>. QED
    BY <2>1 DEF Follows, AU!At
<1>. QED
  BY <1>1, <1>2, <1>3, <1>4, <1>5, <1>6, <1>7, <1>8, <1>9 DEF AU!Command

-----------------------------------------------------------------------------
(* Every step keeps the invariant.                                         *)
LEMMA AuditPackNextPreserves ==
    ASSUME AU!VersionAssumption, AU!Inv, [AU!Next]_AU!vars
    PROVE  AU!Inv'
<1> USE DEF AU!Inv
<1>1. ASSUME NEW p \in Packs, NEW n \in Names, NEW v \in AU!Versions, AU!Change(p, n, v) PROVE AU!Inv'
  <2>1. AU!TypeOK'
    BY <1>1, ChangeTyped
  <2>2. changed'[p]
    BY <1>1 DEF AU!Change, AU!TypeOK
  <2>3. \A q \in Packs : Follows(q)'
    <3>1. ASSUME NEW q \in Packs PROVE Follows(q)'
      BY <1>1, <2>2, OthersRest DEF Follows, AU!At, AU!EvidenceFollows
    <3>. QED
      BY <3>1
  <2>. QED
    BY <2>1, <2>3 DEF AU!EvidenceFollows, Follows, AU!PackComplete, AU!PackedAsIs, AU!At
<1>2. ASSUME NEW p \in Packs, AU!Command(p) PROVE AU!Inv'
  <2>1. AU!TypeOK'
    BY <1>2, CommandTyped
  <2>2. Follows(p)'
    BY <1>2, CommandFollows DEF AU!EvidenceFollows, Follows
  <2>3. \A q \in Packs : Follows(q)'
    <3>1. ASSUME NEW q \in Packs, q # p PROVE Follows(q)'
      BY <1>2, <3>1, OthersRest DEF Follows, AU!At, AU!EvidenceFollows
    <3>. QED
      BY <2>2, <3>1
  <2>. QED
    BY <2>1, <2>3 DEF AU!EvidenceFollows, Follows, AU!PackComplete, AU!PackedAsIs, AU!At
<1>3. CASE UNCHANGED AU!vars
  BY <1>3 DEF AU!vars, AU!TypeOK, AU!EvidenceFollows, AU!PackComplete, AU!PackedAsIs, AU!At
<1>. QED
  BY <1>1, <1>2, <1>3 DEF AU!Next

(* A command that is alone is alone with manifest.json.                    *)
LEMMA ManifestPreserved ==
    ASSUME AU!TypeOK, AU!ManifestFollows, [AU!Next]_AU!vars
    PROVE  AU!ManifestFollows'
<1> DEFINE Kept(q) ==
        alone[q] =>
            /\ ~AU!Resting(q) => \A r \in Packs \ {q} : AU!Resting(r)
            /\ pc[q] \in {"clean", "zip", "add"} => temp = AU!Manifest(q, listed[q])
            /\ pc[q] \in {"look", "done"} => AU!HasOwn(q)
<1>1. ASSUME NEW p \in Packs, NEW n \in Names, NEW v \in AU!Versions, AU!Change(p, n, v)
      PROVE  AU!ManifestFollows'
  BY <1>1 DEF AU!Change, AU!ManifestFollows, AU!Resting, AU!HasOwn
<1>2. ASSUME NEW p \in Packs, AU!Command(p) PROVE AU!ManifestFollows'
  <2>1. CASE AU!Start(p)
    <3>1. /\ pc' = [pc EXCEPT ![p] = "hash"] /\ AU!Resting(p) /\ UNCHANGED <<archive, temp>>
          /\ \A q \in Packs : alone'[q] => AU!Resting(q) /\ (q = p => \A r \in Packs : AU!Resting(r))
                                           /\ (q # p => alone[q])
      BY <2>1, Zenon DEF AU!Start, AU!Goto
    <3>2. pc'[p] = "hash" /\ \A q \in Packs : q # p => pc'[q] = pc[q] /\ listed'[q] = listed[q]
      BY <2>1, <3>1, OthersRest, <1>2 DEF AU!TypeOK
    <3>3. ASSUME NEW q \in Packs, alone'[q] PROVE Kept(q)'
      BY <3>1, <3>2, <3>3 DEF AU!ManifestFollows, AU!Resting, AU!HasOwn
    <3>. QED
      BY <3>3 DEF AU!ManifestFollows
  <2>2. CASE ~AU!Start(p)
    <3>1. alone' = alone /\ ~AU!Resting(p)
      BY <1>2, <2>2 DEF AU!Command, AU!Hash, AU!HashGone, AU!HashDone, AU!OpenManifest, AU!FillManifest,
             AU!Clean, AU!Zip, AU!ZipFails, AU!AddManifest, AU!AddManifestFails, AU!Look, AU!Crash, AU!At, AU!Resting
    <3>2. ASSUME NEW q \in Packs, q # p, alone[q] PROVE Kept(q)'
      <4>1. AU!Resting(q)
        BY <3>1, <3>2 DEF AU!ManifestFollows
      <4>2. pc'[q] = pc[q] /\ archive'[q] = archive[q] /\ listed'[q] = listed[q]
        BY <1>2, <3>2, OthersRest
      <4>. QED
        BY <3>2, <4>1, <4>2 DEF AU!ManifestFollows, AU!Resting, AU!HasOwn
    <3>3. ASSUME alone[p] PROVE Kept(p)'
      <4>1. \A r \in Packs \ {p} : AU!Resting(r)'
        BY <1>2, <3>1, <3>3, OthersRest DEF AU!ManifestFollows, AU!Resting
      <4>2. /\ pc'[p] \in {"clean", "zip", "add"} => temp' = AU!Manifest(p, listed'[p])
            /\ pc'[p] \in {"look", "done"} => AU!HasOwn(p)'
        <5>1. CASE \E n \in Names : AU!Hash(p, n)
          BY <5>1 DEF AU!Hash, AU!At
        <5>2. CASE AU!HashGone(p) \/ AU!ZipFails(p) \/ AU!AddManifestFails(p) \/ AU!Crash(p)
          BY <5>2 DEF AU!HashGone, AU!ZipFails, AU!AddManifestFails, AU!Crash, AU!Quit, AU!Goto, AU!TypeOK
        <5>3. CASE AU!HashDone(p) \/ AU!OpenManifest(p)
          BY <5>3 DEF AU!HashDone, AU!OpenManifest, AU!Goto, AU!TypeOK
        <5>4. CASE AU!FillManifest(p)
          BY <5>4 DEF AU!FillManifest, AU!Goto, AU!TypeOK
        <5>5. CASE AU!Clean(p) \/ AU!Zip(p)
          BY <3>3, <5>5 DEF AU!Clean, AU!Zip, AU!At, AU!Goto, AU!TypeOK, AU!ManifestFollows
        <5>6. CASE AU!AddManifest(p)
          <6>1. pc[p] = "add" /\ pc'[p] = "look" /\ archive'[p].manifest = temp /\ listed' = listed
            BY <5>6 DEF AU!AddManifest, AU!At, AU!Goto, AU!TypeOK
          <6>. QED
            BY <3>3, <6>1 DEF AU!ManifestFollows, AU!HasOwn
        <5>7. CASE AU!Look(p)
          BY <3>3, <5>7 DEF AU!Look, AU!At, AU!Goto, AU!TypeOK, AU!ManifestFollows, AU!HasOwn
        <5>. QED
          BY <1>2, <2>2, <5>1, <5>2, <5>3, <5>4, <5>5, <5>6, <5>7 DEF AU!Command
      <4>. QED
        BY <4>1, <4>2
    <3>4. \A q \in Packs : Kept(q)'
      BY <3>1, <3>2, <3>3
    <3>. QED
      BY <3>4 DEF AU!ManifestFollows
  <2>. QED
    BY <2>1, <2>2
<1>3. CASE UNCHANGED AU!vars
  BY <1>3 DEF AU!vars, AU!ManifestFollows, AU!Resting, AU!HasOwn
<1>. QED
  BY <1>1, <1>2, <1>3 DEF AU!Next

-----------------------------------------------------------------------------
(* While nobody changes a project, the list in its command's memory and    *)
(* the archive follow the evidence, and a pack that is done is complete,   *)
(* whatever failed or died before and whatever an older archive held.      *)
THEOREM AuditPackInvariance ==
    ASSUME AU!VersionAssumption
    PROVE  AU!Spec => [](AU!Inv /\ AU!ManifestFollows)
<1>1. AU!Inv /\ AU!ManifestFollows /\ [AU!Next]_AU!vars => (AU!Inv /\ AU!ManifestFollows)'
  BY AuditPackNextPreserves, ManifestPreserved DEF AU!Inv
<1>. QED
  BY AuditPackInitially, <1>1, PTL DEF AU!Spec

-----------------------------------------------------------------------------
(* The commands side by side.                                              *)

(* What each component keeps, while it is the one that runs.               *)
IInv ==
    /\ part = "release" => RE!Inv /\ RE!EvidencePinned
    /\ part = "verify" => VE!Inv
    /\ part = "audit-pack" => AU!Inv /\ AU!ManifestFollows
    /\ part = "trace" => TraceInv

LEMMA EvidenceInitially == EvidenceInit => IInv
<1>1. ASSUME part = "release", RE!Init PROVE IInv
  BY <1>1, ReleaseInitially DEF IInv
<1>2. ASSUME part = "verify", VE!Init PROVE IInv
  BY <1>2, VerifyInitially, PartsAssumption DEF IInv
<1>3. ASSUME part = "audit-pack", AU!Init PROVE IInv
  BY <1>3, AuditPackInitially, PartsAssumption DEF IInv
<1>4. ASSUME part = "trace", Init PROVE IInv
  BY <1>4, TraceInitially DEF IInv
<1>. QED
  BY <1>1, <1>2, <1>3, <1>4 DEF EvidenceInit

(* A step of the whole is a step of the part that runs, or none of it.     *)
LEMMA StepsAreOfTheirPart ==
    ASSUME [EvidenceNext]_evidenceVars
    PROVE  /\ part' = part
           /\ part = "release" => [RE!Next]_RE!vars
           /\ part = "verify" => [VE!Next]_VE!vars
           /\ part = "audit-pack" => [AU!Next]_AU!vars
           /\ part = "trace" => [Next]_vars
<1>1. CASE UNCHANGED evidenceVars
  BY <1>1 DEF evidenceVars, ReleaseVars, VerifyVars, PackVars, TraceVars,
              RE!vars, VE!vars, AU!vars, vars
<1>2. CASE EvidenceNext
  BY <1>2 DEF EvidenceNext
<1>. QED
  BY <1>1, <1>2

LEMMA EvidenceNextPreserves ==
    ASSUME IInv, [EvidenceNext]_evidenceVars
    PROVE  IInv'
<1>1. part' = part
  BY StepsAreOfTheirPart
<1>2. ASSUME part = "release" PROVE IInv'
  <2>1. (RE!Inv /\ RE!EvidencePinned)'
    BY <1>2, StepsAreOfTheirPart, ReleaseNextPreserves, PartsAssumption DEF IInv
  <2>. QED
    BY <1>1, <1>2, <2>1 DEF IInv
<1>3. ASSUME part = "verify" PROVE IInv'
  <2>1. VE!Inv'
    BY <1>3, StepsAreOfTheirPart, VerifyNextPreserves, PartsAssumption DEF IInv
  <2>. QED
    BY <1>1, <1>3, <2>1 DEF IInv
<1>4. ASSUME part = "audit-pack" PROVE IInv'
  <2>1. AU!Inv /\ AU!ManifestFollows /\ AU!TypeOK /\ [AU!Next]_AU!vars
    BY <1>4, StepsAreOfTheirPart DEF IInv, AU!Inv
  <2>2. AU!Inv' /\ AU!ManifestFollows'
    BY <2>1, AuditPackNextPreserves, ManifestPreserved, PartsAssumption
  <2>. QED
    BY <1>1, <1>4, <2>2 DEF IInv
<1>5. ASSUME part = "trace" PROVE IInv'
  <2>1. TraceInv'
    BY <1>5, StepsAreOfTheirPart, TraceNextPreserves DEF IInv
  <2>. QED
    BY <1>1, <1>5, <2>1 DEF IInv
<1>. QED
  BY <1>1, <1>2, <1>3, <1>4, <1>5 DEF IInv

(* Every component keeps its bookkeeping.                                  *)
THEOREM EvidenceInvariance == EvidenceSpec => []IInv
<1>1. IInv /\ [EvidenceNext]_evidenceVars => IInv'
  BY EvidenceNextPreserves
<1>. QED
  BY EvidenceInitially, <1>1, PTL DEF EvidenceSpec

(* The hashes are of files that are there, no bundle records what was not  *)
(* run, a pack that is done is complete, and what is known is in the file. *)
THEOREM EvidenceIsKept == EvidenceSpec => []EvidenceInv
<1>1. IInv => EvidenceInv
  BY DEF IInv, EvidenceInv, TraceInv
<1>. QED
  BY EvidenceInvariance, <1>1, PTL

(* The manifest of an undisturbed release pins all the evidence that is    *)
(* there, whatever evidence files there are and whichever is regenerated.  *)
THEOREM ReleasesPinTheirEvidence == EvidenceSpec => []EvidencePinned
<1>1. IInv => EvidencePinned
  BY DEF IInv, EvidencePinned
<1>. QED
  BY EvidenceInvariance, <1>1, PTL

(* For any tests and whatever lines the pattern misses, those of failures  *)
(* in particular: verify succeeds in spite of a failure only where a known *)
(* line or a dead ctest hides it, and the bundle it leaves is of that run. *)
THEOREM VerdictsAreOfTheRun == EvidenceSpec => []VerdictIsOfTheRun
<1>1. IInv => VerdictIsOfTheRun
  BY AllRedRuns, BundleMeansTheRun, PartsAssumption DEF IInv, VerdictIsOfTheRun
<1>. QED
  BY EvidenceInvariance, <1>1, PTL

(* However many commands share the one file for it: a command that no      *)
(* other overlapped packs the manifest it has computed.                    *)
THEOREM AlonePacksItsOwn == EvidenceSpec => []AloneOwnManifest
<1>1. AU!ManifestFollows => AU!AloneOwnManifest
  BY DEF AU!ManifestFollows, AU!AloneOwnManifest, AU!At
<1>2. IInv => AloneOwnManifest
  BY <1>1 DEF IInv, AloneOwnManifest
<1>. QED
  BY EvidenceInvariance, <1>2, PTL

(* For any requirement files, tables and tags: what a gate of trace lets   *)
(* pass is covered, imports make no id twice, the strict gate means the    *)
(* hierarchy, and all reports tell the same.                               *)
THEOREM GatesAreTrue == EvidenceSpec => []GatesMeanTheirWord
<1>1. IInv => GatesMeanTheirWord
  BY KnownIsCovered, HierarchyOfTheKnown, ReportsAreOfOne
  DEF IInv, GatesMeanTheirWord, TraceInv
<1>. QED
  BY EvidenceInvariance, <1>1, PTL

(* For any requirements, however many, whose ids stay distinct and whose   *)
(* texts the format does not lose: CSV brings every field back, the commas *)
(* replaced, ReqIF and Polarion bring ids and titles back.                 *)
THEOREM ExportsComeBack == EvidenceSpec => []TraceRoundTrips
<1>1. IInv => TraceRoundTrips
  BY FileRoundTrips DEF IInv, TraceRoundTrips
<1>. QED
  BY EvidenceInvariance, <1>1, PTL

=============================================================================
