------------------------- MODULE Attestation_proofs -------------------------
(* The gate of the evidence artifacts is sound for any number of concurrent *)
(* commands, any artifacts and any contents, with crashes, failed writes    *)
(* and edits at any moment; and as long as nothing interferes attestations  *)
(* are kept and honoured.                                                   *)
EXTENDS MCAttestation, TLAPS

USE ArtifactsAssumption, BodiesAssumption, DirsAssumption
USE DEF DirForms

(* The documents the commands hash and write are contents.                  *)
LEMMA ContentsClosed ==
  ASSUME NEW a, NEW b \in Bodies, NEW dir \in DirForms
  PROVE  Hashed(a, b) \in Contents /\ Written(a, b, dir) \in Contents
  BY DEF Hashed, Written, TaraJson, FmeaJson, SafetyCaseJson, SasJson, Contents

(* What is carried forward is an attestation, and comes from the file.      *)
LEMMA CarriedIsAtt ==
  ASSUME NEW f \in {Absent, Torn} \cup Docs
  PROVE  carry_forward(f) \in Atts
  BY DEF Absent, Torn, Docs, carry_forward, Atts

(* `release --full` finds its next artifact whenever one is left.           *)
LEMMA FirstIsMember ==
  ASSUME NEW S \in SUBSET Artifacts, S # {}
  PROVE  First(S) \in S
  <1>1. \A a \in S : ReleaseRank(a) \in {1, 2, 3}
    BY DEF ReleaseRank
  <1>2. \E a \in S : \A b \in S : ReleaseRank(a) <= ReleaseRank(b)
    <2>1. CASE \E a \in S : ReleaseRank(a) = 1
      BY <1>1, <2>1
    <2>2. CASE (\E a \in S : ReleaseRank(a) = 2) /\ \A a \in S : ReleaseRank(a) # 1
      BY <1>1, <2>2
    <2>3. CASE \A a \in S : ReleaseRank(a) = 3
      BY <2>3
    <2> QED
      BY <1>1, <2>1, <2>2, <2>3
  <1> QED
    BY <1>2 DEF First

LEMMA NextIsArtifact ==
  ASSUME NEW n, After(n) # {}
  PROVE  First(After(n)) \in Artifacts
  <1>1. After(n) \in SUBSET Artifacts
    BY DEF After, Released
  <1> QED
    BY <1>1, FirstIsMember

(* The invariant holds before the first command.                            *)
LEMMA InitInv == Init => Inv
  <1> SUFFICES ASSUME Init PROVE Inv
    OBVIOUS
  <1>1. NoRun \in Runs /\ NoRun.att = NoAtt
    BY DEF NoRun, Runs, Atts
  <1>2. TypeOK
    <2>1. waived \in BOOLEAN
      BY Zenon DEF Init
    <2> QED
      BY <1>1, <2>1 DEF Init, TypeOK, Atts
  <1>3. ReviewsGenuine
    BY <1>1 DEF Init, ReviewsGenuine, Genuine, carry_forward, Absent, NoAtt
  <1>4. GateSound /\ Locals
    BY DEF Init, GateSound, Locals, NoRun
  <1> QED
    BY <1>2, <1>3, <1>4 DEF Inv

(* Edits of the project and of the disposition, and the reviews themselves, *)
(* only add to what has been reviewed.                                      *)
LEMMA PeopleInv == Inv /\ People => Inv'
  <1> SUFFICES ASSUME Inv, People PROVE Inv'
    OBVIOUS
  <1> USE DEF Inv, TypeOK, GateSound, ReviewsGenuine, Genuine, Locals
  <1>1. ASSUME NEW a \in Artifacts, NEW b \in Bodies, EditProject(a, b)
        PROVE  Inv'
    BY <1>1 DEF EditProject
  <1>2. CASE Dispose
    BY <1>2 DEF Dispose
  <1>3. ASSUME NEW a \in Artifacts, NEW att,
               att \in {Heuristic} \cup
                 [status : {"reviewed"}, independent : BOOLEAN,
                  hash : IF disk[a].file = "whole"
                           THEN {disk[a].content} ELSE {}],
               Attest(a, att)
        PROVE  Inv'
    <2>1. disk[a] \in Docs
      BY <1>3 DEF Attest, Absent, Torn
    <2>2. att \in Atts
      BY <1>3, <2>1 DEF Atts, ReviewedAtts, Docs
    <2>3. disk'[a] = [disk[a] EXCEPT !.att = att] /\ disk'[a] \in Docs
          /\ \A c \in Artifacts : c # a => disk'[c] = disk[c]
      BY <1>3, <2>1, <2>2 DEF Attest, Docs
    <2>4. reviews \subseteq reviews' /\ reviews' \subseteq Artifacts \X Contents
      BY <1>3, <2>1 DEF Attest, Docs
    <2>5. TypeOK'
      BY <1>3, <2>2, <2>3, <2>4 DEF Attest
    <2>6. Genuine(a, carry_forward(disk[a]))'
      BY <1>3, <2>1, <2>3 DEF Attest, carry_forward, Docs, Heuristic
    <2>7. ASSUME NEW c \in Artifacts
          PROVE  Genuine(c, carry_forward(disk[c]))'
      <3>1. CASE c = a
        BY <3>1, <2>6
      <3>2. CASE c # a
        <4>1. carry_forward(disk'[c]) = carry_forward(disk[c])
          BY <3>2, <2>3
        <4> QED
          BY <4>1, <2>4
      <3> QED
        BY <3>1, <3>2
    <2> QED
      BY <1>3, <2>4, <2>5, <2>7 DEF Attest
  <1> QED
    BY <1>1, <1>2, <1>3 DEF People

(* The steps of a command: what it carries comes from the file, what it     *)
(* writes it has carried, and what it lets pass it has found valid.         *)
LEMMA CommandInv ==
  ASSUME Inv, NEW p \in Procs, Command(p)
  PROVE  Inv'
  <1> USE DEF Inv, TypeOK, GateSound, ReviewsGenuine, Genuine, Locals
  <1>0. run[p] \in Runs
    OBVIOUS
  <1>1. ASSUME NEW a \in Artifacts, NEW dir \in Dirs, NEW require \in BOOLEAN,
               StartRegenerate(p, a, dir, require)
        PROVE  Inv'
    <2>1. run' = [run EXCEPT ![p] = run'[p]] /\ run'[p] \in Runs
          /\ run'[p].att = NoAtt /\ run'[p].command = "regenerate"
      BY <1>1, <1>0 DEF StartRegenerate, Runs, Atts
    <2> QED
      BY <1>1, <2>1 DEF StartRegenerate, NoAtt
  <1>2. ASSUME NEW dir \in Dirs, StartRelease(p, dir)
        PROVE  Inv'
    <2>1. First(After(0)) \in Artifacts
      <3>1. After(0) # {}
        BY <1>2 DEF StartRelease
      <3> QED
        BY <3>1, NextIsArtifact
    <2>2. run' = [run EXCEPT ![p] = run'[p]] /\ run'[p] \in Runs
          /\ run'[p].att = NoAtt
      BY <1>2, <1>0, <2>1 DEF StartRelease, Runs, Atts
    <2> QED
      BY <1>2, <2>2 DEF StartRelease, NoAtt
  <1>3. CASE Generate(p)
    <2>1. run' = [run EXCEPT ![p] = run'[p]] /\ run'[p] \in Runs
          /\ run'[p].att = run[p].att /\ run'[p].art = run[p].art
          /\ run'[p].command = run[p].command
      BY <1>3, <1>0 DEF Generate, Runs
    <2> QED
      BY <1>3, <2>1 DEF Generate
  <1>4. CASE Carry(p)
    <2>1. carry_forward(disk[run[p].art]) \in Atts
      BY <1>0, CarriedIsAtt DEF Runs
    <2>2. run' = [run EXCEPT ![p] = run'[p]] /\ run'[p] \in Runs
          /\ run'[p].att = carry_forward(disk[run[p].art])
          /\ run'[p].art = run[p].art /\ run'[p].command = "regenerate"
      BY <1>4, <1>0, <2>1 DEF Carry, Runs
    <2> QED
      BY <1>4, <1>0, <2>2 DEF Carry, Runs
  <1>5. CASE Truncate(p)
    BY <1>5, <1>0 DEF Truncate, Torn, carry_forward, Runs, NoAtt
  <1>6. CASE Write(p)
    <2>1. NewDoc(run[p]) \in Docs /\ carry_forward(NewDoc(run[p])) = run[p].att
      BY <1>0, ContentsClosed DEF NewDoc, Docs, Runs, carry_forward
    <2>2. PICK f \in {NewDoc(run[p]), Torn} : disk' = [disk EXCEPT ![run[p].art] = f]
      BY <1>6 DEF Write
    <2>3. Genuine(run[p].art, carry_forward(f))
      BY <2>1, <2>2 DEF carry_forward, Torn, NoAtt
    <2> QED
      BY <1>6, <1>0, <2>1, <2>2, <2>3 DEF Write, Runs
  <1>7. CASE WriteFails(p)
    BY <1>7 DEF WriteFails
  <1>8. CASE Gate(p)
    <2>1. ASSUME verdict'[p] = "pass", run[p].require, run[p].body \in Repetitive
          PROVE  <<run[p].art, Hashed(run[p].art, run[p].body)>> \in reviews
      BY <1>8, <2>1 DEF Gate, Gates, is_valid_reviewed
    <2> QED
      BY <1>8, <2>1 DEF Gate
  <1>9. CASE ReleaseNext(p)
    <2> DEFINE rest == After(ReleaseRank(run[p].art))
    <2>1. CASE rest = {}
      BY <1>9, <2>1 DEF ReleaseNext
    <2>2. CASE rest # {}
      <3>1. First(rest) \in Artifacts
        BY <2>2, NextIsArtifact
      <3>2. run' = [run EXCEPT ![p] = run'[p]] /\ run'[p] \in Runs
            /\ run'[p].att = NoAtt /\ run'[p].command = "release"
        BY <1>9, <1>0, <2>2, <3>1 DEF ReleaseNext, Runs
      <3> QED
        BY <1>9, <3>2 DEF ReleaseNext, NoAtt
    <2> QED
      BY <2>1, <2>2
  <1>10. CASE Crash(p)
    BY <1>10 DEF Crash
  <1> HIDE DEF Inv, TypeOK, GateSound, ReviewsGenuine, Genuine, Locals
  <1> QED
    BY <1>1, <1>2, <1>3, <1>4, <1>5, <1>6, <1>7, <1>8, <1>9, <1>10 DEF Command

(* The invariant holds in every state of every run.                         *)
THEOREM Invariance == Spec => []Inv
  <1>1. Inv /\ UNCHANGED vars => Inv'
    BY DEF Inv, TypeOK, GateSound, ReviewsGenuine, Genuine, Locals, vars
  <1>2. Inv /\ [Next]_vars => Inv'
    BY <1>1, PeopleInv, CommandInv DEF Next
  <1> QED
    BY InitInv, <1>2, PTL DEF Spec

(* A gate that lets repetitive content pass has an independent review of    *)
(* exactly that content.                                                    *)
THEOREM GateIsSound == Spec => []GateSound
  <1>1. Inv => GateSound
    BY DEF Inv
  <1> QED
    BY Invariance, <1>1, PTL

-----------------------------------------------------------------------------
(* The conditions CalmFollows puts on one invocation.                       *)
Follows(p) ==
    /\ pc[p] # "idle" => run[p].command = "regenerate"
    /\ pc[p] = "write" => disk[run[p].art] = Torn
    /\ pc[p] \in {"truncate", "write", "gate"} /\ pinned[run[p].art] # NoAtt =>
           run[p].att = pinned[run[p].art]

LEMMA MCInitFollows == MCInit => CalmFollows
  BY DEF MCInit, Init, CalmFollows, Alone, Kept

(* A step of the one command under way.                                     *)
LEMMA ProceedFollows ==
  ASSUME Inv, CalmFollows, calm, Alone', NEW p \in Procs, Proceed(p)
  PROVE  CalmFollows'
  <1>0. TypeOK /\ Alone /\ Follows(p) /\ run[p] \in Runs
    BY DEF Inv, TypeOK, CalmFollows, Follows
  <1>1. \A a \in Artifacts : Kept(a) \/ \E q \in Procs : Rewriting(q, a)
    BY DEF CalmFollows
  <1>2. pinned' = pinned
    BY DEF Proceed, StartRegenerate, Generate, Carry, Truncate, Write, Gate, ReleaseNext
  <1>3. pc' = [pc EXCEPT ![p] = pc'[p]] /\ (pc[p] # "idle" \/ pc'[p] # "idle")
    BY <1>0 DEF TypeOK, Proceed, StartRegenerate, Generate, Carry, Truncate, Write,
                Gate, ReleaseNext
  <1>4. \A q \in Procs : q # p => pc[q] = "idle" /\ pc'[q] = "idle"
    BY <1>0, <1>3 DEF Alone, TypeOK
  <1>5. ASSUME \A a \in Artifacts : Kept(a)' \/ Rewriting(p, a)', Follows(p)'
        PROVE  CalmFollows'
    BY <1>4, <1>5 DEF CalmFollows, Follows
  <1>6. ASSUME NEW a \in Artifacts, ~ Rewriting(p, a)
        PROVE  Kept(a)
    BY <1>1, <1>4, <1>6 DEF Rewriting
  <1>7. ASSUME disk' = disk, pc[p] # "write"
        PROVE  \A a \in Artifacts : Kept(a)'
    BY <1>2, <1>6, <1>7 DEF Kept, Rewriting
  <1>8. ASSUME NEW a \in Artifacts, NEW dir \in Dirs, NEW require \in BOOLEAN,
               StartRegenerate(p, a, dir, require)
        PROVE  CalmFollows'
    <2>1. pc[p] = "idle" /\ pc'[p] = "generate" /\ disk' = disk
          /\ run'[p].command = "regenerate"
      BY <1>0, <1>8 DEF StartRegenerate, TypeOK, Runs
    <2> QED
      BY <1>5, <1>7, <2>1 DEF Follows
  <1>9. CASE Generate(p)
    <2>1. pc[p] = "generate" /\ pc'[p] = "carry" /\ disk' = disk
          /\ run'[p].command = "regenerate"
      BY <1>0, <1>9 DEF Generate, TypeOK, Runs, Follows
    <2> QED
      BY <1>5, <1>7, <2>1 DEF Follows
  <1>10. CASE Carry(p)
    <2>1. pc[p] = "carry" /\ pc'[p] = "truncate" /\ disk' = disk
          /\ run'[p].command = "regenerate" /\ run'[p].art = run[p].art
          /\ run'[p].att = carry_forward(disk[run[p].art])
      BY <1>0, <1>10 DEF Carry, TypeOK, Runs, Follows
    <2>2. run[p].art \in Artifacts /\ Kept(run[p].art)
      BY <1>0, <1>6, <2>1 DEF Runs, Rewriting
    <2>3. Follows(p)'
      BY <1>2, <2>1, <2>2 DEF Follows, Kept
    <2> QED
      BY <1>5, <1>7, <2>1, <2>3
  <1>11. CASE Truncate(p)
    <2>1. pc[p] = "truncate" /\ pc'[p] = "write" /\ run' = run
          /\ disk' = [disk EXCEPT ![run[p].art] = Torn]
      BY <1>0, <1>11 DEF Truncate, TypeOK
    <2>2. Follows(p)'
      BY <1>0, <1>2, <2>1 DEF Follows, TypeOK, Runs
    <2>3. ASSUME NEW a \in Artifacts
          PROVE  Kept(a)' \/ Rewriting(p, a)'
      <3>1. CASE a = run[p].art
        BY <2>1, <3>1 DEF Rewriting
      <3>2. CASE a # run[p].art
        <4>1. Kept(a) /\ disk'[a] = disk[a]
          BY <1>0, <1>6, <2>1, <3>2 DEF Rewriting, TypeOK
        <4> QED
          BY <1>2, <4>1 DEF Kept
      <3> QED
        BY <3>1, <3>2
    <2> QED
      BY <1>5, <2>2, <2>3
  <1>12. CASE Write(p)
    <2>1. pc[p] = "write" /\ pc'[p] = "gate" /\ run' = run
          /\ disk' = [disk EXCEPT ![run[p].art] = NewDoc(run[p])]
      BY <1>0, <1>12 DEF Write, TypeOK, Follows
    <2>2. Follows(p)'
      BY <1>0, <1>2, <2>1 DEF Follows, TypeOK, Runs
    <2>3. ASSUME NEW a \in Artifacts
          PROVE  Kept(a)'
      <3>1. CASE a = run[p].art
        <4>1. carry_forward(disk'[a]) = run[p].att
          BY <1>0, <2>1, <3>1 DEF carry_forward, NewDoc, TypeOK
        <4> QED
          BY <1>0, <1>2, <2>1, <3>1, <4>1 DEF Follows, Kept
      <3>2. CASE a # run[p].art
        <4>1. Kept(a) /\ disk'[a] = disk[a]
          BY <1>0, <1>6, <2>1, <3>2 DEF Rewriting, TypeOK
        <4> QED
          BY <1>2, <4>1 DEF Kept
      <3> QED
        BY <3>1, <3>2
    <2> QED
      BY <1>5, <2>2, <2>3
  <1>13. CASE Gate(p)
    <2>1. pc[p] = "gate" /\ pc'[p] = "idle" /\ disk' = disk
      BY <1>0, <1>13 DEF Gate, TypeOK
    <2> QED
      BY <1>5, <1>7, <2>1 DEF Follows
  <1>14. CASE ReleaseNext(p)
    BY <1>0, <1>14 DEF ReleaseNext, Follows
  <1> QED
    BY <1>8, <1>9, <1>10, <1>11, <1>12, <1>13, <1>14 DEF Proceed

(* A calm edit: no command is under way.                                    *)
LEMMA PeopleFollows ==
  ASSUME Inv, CalmFollows, calm, People, \A p \in Procs : pc[p] = "idle"
  PROVE  CalmFollows'
  <1>0. TypeOK /\ \A a \in Artifacts : Kept(a)
    BY DEF Inv, CalmFollows, Rewriting
  <1>1. pc' = pc
    BY DEF People, EditProject, Dispose, Attest
  <1>2. ASSUME NEW a \in Artifacts
        PROVE  Kept(a)'
    <2>1. CASE disk' = disk /\ pinned' = pinned
      BY <1>0, <2>1 DEF Kept
    <2>2. ASSUME NEW c \in Artifacts, NEW att, Attest(c, att)
          PROVE  Kept(a)'
      <3>1. disk[c] \in Docs
        BY <1>0, <2>2 DEF Attest, TypeOK, Absent, Torn
      <3>2. disk' = [disk EXCEPT ![c] = [disk[c] EXCEPT !.att = att]]
            /\ pinned' = [pinned EXCEPT ![c] = att]
        BY <2>2 DEF Attest
      <3>3. CASE a = c
        <4>1. carry_forward(disk'[a]) = att /\ pinned'[a] = att
          BY <1>0, <3>1, <3>2, <3>3 DEF carry_forward, Docs, TypeOK
        <4> QED
          BY <4>1 DEF Kept
      <3>4. CASE a # c
        <4>1. disk'[a] = disk[a] /\ pinned'[a] = pinned[a]
          BY <1>0, <3>2, <3>4 DEF TypeOK
        <4> QED
          BY <1>0, <4>1 DEF Kept
      <3> QED
        BY <3>3, <3>4
    <2> QED
      BY <2>1, <2>2 DEF People, EditProject, Dispose
  <1> QED
    BY <1>1, <1>2 DEF CalmFollows, Alone

LEMMA MCNextFollows ==
  Inv /\ CalmFollows /\ [MCNext]_<<vars, calm>> => CalmFollows'
  <1>1. CASE UNCHANGED <<vars, calm>>
    BY <1>1 DEF CalmFollows, Alone, Kept, Rewriting, vars
  <1>2. ASSUME Inv, CalmFollows, MCNext, ~ calm'
        PROVE  CalmFollows'
    BY <1>2, Zenon DEF CalmFollows
  <1>3. ASSUME Inv, CalmFollows, MCNext, calm'
        PROVE  CalmFollows'
    <2>1. CASE \E p \in Procs : Proceed(p) /\ calm /\ Alone'
      BY <1>3, <2>1, ProceedFollows
    <2>2. CASE People /\ calm /\ \A p \in Procs : pc[p] = "idle"
      BY <1>3, <2>2, PeopleFollows
    <2> QED
      BY <1>3, <2>1, <2>2, Zenon DEF MCNext
  <1> QED
    BY <1>1, <1>2, <1>3, Zenon

(* The record of what interferes only watches.                              *)
LEMMA MCNextIsNext == [MCNext]_<<vars, calm>> => [Next]_vars
  <1>1. MCNext => Next
    BY Zenon DEF MCNext, Next, Proceed, Disturb, Command
  <1> QED
    BY <1>1 DEF vars

THEOREM CalmInvariance == MCSpec => [](Inv /\ CalmFollows)
  <1>1. MCInit => Inv /\ CalmFollows
    BY InitInv, MCInitFollows DEF MCInit
  <1>2. Inv /\ UNCHANGED vars => Inv'
    BY DEF Inv, TypeOK, GateSound, ReviewsGenuine, Genuine, Locals, vars
  <1>3. Inv /\ [Next]_vars => Inv'
    BY <1>2, PeopleInv, CommandInv DEF Next
  <1>4. Inv /\ CalmFollows /\ [MCNext]_<<vars, calm>> => (Inv /\ CalmFollows)'
    BY <1>3, MCNextIsNext, MCNextFollows
  <1> QED
    BY <1>1, <1>4, PTL DEF MCSpec

(* As long as one command runs at a time, nothing is edited meanwhile and   *)
(* nothing fails, an attestation put in an artifact outlives every          *)
(* regeneration of any artifact.                                            *)
THEOREM AttestationsAreKept == MCSpec => []CalmKeeps
  <1>1. CalmFollows => CalmKeeps
    BY DEF CalmFollows, CalmKeeps, AttestationKept, Kept, Rewriting
  <1> QED
    BY <1>1, CalmInvariance, PTL

(* Then a pinned review is honoured too, of artifacts other than the FMEA   *)
(* and with --dir spelled canonically: only then is the document that is    *)
(* written the document that is hashed.                                     *)
THEOREM ReviewsAreHonoured ==
  ASSUME "fmea" \notin Artifacts, Dirs \subseteq {"canonical"}
  PROVE  MCSpec => CalmHonours
  <1> DEFINE Canonical == \A p \in Procs : run[p].dir = "canonical"
  <1>1. MCInit => Canonical
    <2>1. NoRun.dir = "canonical"
      BY DEF NoRun
    <2>2. MCInit => run = [p \in Procs |-> NoRun]
      BY Zenon DEF MCInit, Init
    <2> QED
      BY <2>1, <2>2
  <1>2. Inv /\ Canonical /\ [Next]_vars => Canonical'
    <2> SUFFICES ASSUME Inv, Canonical, [Next]_vars PROVE Canonical'
      OBVIOUS
    <2>0. run \in [Procs -> Runs]
      BY DEF Inv, TypeOK
    <2>1. ASSUME NEW p \in Procs, Command(p)
          PROVE  Canonical'
      <3>1. run' = run \/ (run' = [run EXCEPT ![p] = run'[p]] /\ run'[p].dir = "canonical")
        <4>1. run[p] \in Runs /\ run[p].dir = "canonical"
          BY <2>0
        <4>2. ASSUME NEW a \in Artifacts, NEW dir \in Dirs, NEW require \in BOOLEAN,
                     StartRegenerate(p, a, dir, require)
              PROVE  run' = [run EXCEPT ![p] = run'[p]] /\ run'[p].dir = "canonical"
          BY <2>0, <4>1, <4>2 DEF StartRegenerate, Runs
        <4>3. ASSUME NEW dir \in Dirs, StartRelease(p, dir)
              PROVE  run' = [run EXCEPT ![p] = run'[p]] /\ run'[p].dir = "canonical"
          BY <2>0, <4>1, <4>3 DEF StartRelease, Runs
        <4>4. CASE Generate(p)
          BY <2>0, <4>1, <4>4 DEF Generate, Runs
        <4>5. CASE Carry(p)
          BY <2>0, <4>1, <4>5 DEF Carry, Runs
        <4>6. CASE ReleaseNext(p)
          BY <2>0, <4>1, <4>6 DEF ReleaseNext, Runs
        <4>7. CASE Truncate(p) \/ Write(p) \/ WriteFails(p) \/ Gate(p) \/ Crash(p)
          BY <4>7 DEF Truncate, Write, WriteFails, Gate, Crash
        <4> QED
          BY <2>1, <4>2, <4>3, <4>4, <4>5, <4>6, <4>7 DEF Command
      <3> QED
        BY <2>0, <3>1
    <2>2. CASE run' = run
      BY <2>2
    <2> QED
      BY <2>1, <2>2 DEF Next, People, EditProject, Dispose, Attest, vars
  <1>3. ASSUME NEW a \in Artifacts, NEW b
        PROVE  Written(a, b, "canonical") = Hashed(a, b)
    BY <1>3 DEF Written, Hashed
  <1>4. ASSUME Inv, CalmFollows, Canonical, MCNext, calm', NEW p \in Procs,
               pc[p] = "gate", verdict'[p] = "fail", run[p].body \notin Placeholder
        PROVE  ~is_valid_reviewed(pinned[run[p].art],
                                  Written(run[p].art, run[p].body, run[p].dir))
    <2>0. TypeOK /\ run[p] \in Runs /\ verdict[p] = "none"
      BY <1>4 DEF Inv, TypeOK, Locals
    <2>1. calm /\ (People \/ \E q \in Procs : Proceed(q))
      BY <1>4, Zenon DEF MCNext
    <2>2. verdict' # verdict
      BY <1>4, <2>0
    <2>3. ~ People
      BY <2>2 DEF People, EditProject, Dispose, Attest
    <2>4. PICK q \in Procs : Proceed(q)
      BY <2>1, <2>3
    <2>5. Gate(q) \/ verdict'[q] = "none"
      BY <2>0, <2>2, <2>4 DEF Proceed, StartRegenerate, Generate, Carry, Truncate, Write,
                              ReleaseNext, TypeOK
    <2>6. q # p => verdict'[p] = verdict[p]
      BY <2>0, <2>4 DEF Proceed, StartRegenerate, Generate, Carry, Truncate, Write, Gate,
                        ReleaseNext, TypeOK
    <2>7. Gates(run[p])
      BY <1>4, <2>0, <2>5, <2>6 DEF Gate, TypeOK
    <2>8. ~is_valid_reviewed(run[p].att, Written(run[p].art, run[p].body, run[p].dir))
      BY <1>3, <1>4, <2>0, <2>7 DEF Gates, Runs
    <2>9. pinned[run[p].art] # NoAtt => run[p].att = pinned[run[p].art]
      BY <1>4, <2>1 DEF CalmFollows
    <2> QED
      BY <2>8, <2>9 DEF NoAtt, is_valid_reviewed
  <1> DEFINE Honours ==
        \A p \in Procs :
          calm' /\ pc[p] = "gate" /\ verdict'[p] = "fail" /\ run[p].body \notin Placeholder =>
              ~is_valid_reviewed(pinned[run[p].art],
                                 Written(run[p].art, run[p].body, run[p].dir))
  <1>5. Inv /\ CalmFollows /\ Canonical /\ [MCNext]_<<vars, calm>> => [Honours]_<<vars, calm>>
    BY <1>4, Zenon
  <1>6. Inv /\ Canonical /\ [MCNext]_<<vars, calm>> => Canonical'
    BY <1>2, MCNextIsNext
  <1> HIDE DEF Canonical
  <1> QED
    BY <1>1, <1>5, <1>6, CalmInvariance, PTL DEF MCSpec, CalmHonours

=============================================================================
