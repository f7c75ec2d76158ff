----------------------------- MODULE SftpProofs -----------------------------
(***************************************************************************)
(* Proofs about SftpFiles: nothing is lost, nothing is put in place half   *)
(* and nothing is left behind, for any number of files, of changes by      *)
(* other programs and of failing requests.                                 *)
(*                                                                         *)
(* None of the three is inductive.  That a replacement loses only what was *)
(* to be replaced rests on where the original is between two renames, and  *)
(* a name alone does not say that: so every name leads to a node of its    *)
(* own, and the backups of the files that are done, or not begun, are      *)
(* gone.  That a file is whole rests on the halves already read being      *)
(* those of the source as long as it looks as it did, and on looks being   *)
(* new whenever a change shows.                                            *)
(***************************************************************************)
EXTENDS SftpFiles, SequenceTheorems, TLAPS

----------------------------------------------------------------------------
(* The files *)

Sides == {"local", "remote"}
Content == {"old", "src", "part", "mine", "edit"} \X Nat
Halves == {c \in Seq(Content) : Len(c) = 2}
NodeT == [half : Halves, look : Nat]
(* Every name leads to one of the first k nodes, and no node has two names *)
Sound(F, k) ==
  /\ F \in [Sides -> [Names -> Nat]]
  /\ \A s \in Sides, n \in Names : F[s][n] <= k
  /\ \A s1, s2 \in Sides : \A n1, n2 \in Names :
       F[s1][n1] # 0 /\ F[s1][n1] = F[s2][n2] => s1 = s2 /\ n1 = n2

(* The names of the files differ from one another, also as sequences of a  *)
(* word and a number.                                                      *)
LEMMA Naming ==
  ASSUME Files \in Nat
  PROVE  /\ \A i \in 0..2 : Copy(i) \in Names
         /\ \A i \in 1..Files : Src(i) \in Names
         /\ \A i \in 0..Files : Part(i) \in Names /\ Backup(i) \in Names
         /\ Doc \in Names /\ Doc = Copy(0)
         /\ \A i, j \in Nat : Copy(i) # Src(j) /\ Copy(i) # Part(j) /\ Copy(i) # Backup(j) /\ Src(i) # Part(j)
                              /\ Src(i) # Backup(j) /\ Part(i) # Backup(j)
         /\ \A i, j \in Nat : i # j => Copy(i) # Copy(j) /\ Src(i) # Src(j) /\ Part(i) # Part(j) /\ Backup(i) # Backup(j)
         /\ \A i \in Nat : Part(i)[1] = "part" /\ Copy(i)[1] # "part" /\ Src(i)[1] # "part" /\ Backup(i)[1] # "part"
         /\ \A n \in Names : n[1] = "part" => \E i \in 0..Files : n = Part(i)
         /\ \A n \in Names : n[1] = "src" => n[2] \in 1..Files /\ n = Src(n[2])
<1>1. 0 \in 0..2
  OBVIOUS
<1> QED BY <1>1 DEF Names, Copy, Src, Part, Backup, Doc

(* Giving a name the next node, or none, keeps names apart.                *)
LEMMA PutSound ==
  ASSUME NEW L \in Nat, Sound(fs, L), NEW s \in Sides, NEW n \in Names
  PROVE  /\ \A x \in Nat : /\ Put(s, n, x) \in [Sides -> [Names -> Nat]]
                           /\ \A q \in Sides, m \in Names : Put(s, n, x)[q][m] = IF q = s /\ m = n THEN x ELSE fs[q][m]
         /\ Sound(Put(s, n, 0), L)
         /\ Sound(Put(s, n, L + 1), L + 1)
<1>1. fs \in [Sides -> [Names -> Nat]]
  BY DEF Sound
<1>2. ASSUME NEW x \in Nat
      PROVE  /\ Put(s, n, x) \in [Sides -> [Names -> Nat]]
             /\ \A q \in Sides, m \in Names : Put(s, n, x)[q][m] = IF q = s /\ m = n THEN x ELSE fs[q][m]
  BY <1>1, <1>2 DEF Put
<1>3. Sound(Put(s, n, 0), L)
  <2> DEFINE F == Put(s, n, 0)
  <2>1. /\ F \in [Sides -> [Names -> Nat]]
        /\ \A q \in Sides, m \in Names : F[q][m] = IF q = s /\ m = n THEN 0 ELSE fs[q][m]
    BY <1>2
  <2> HIDE DEF F
  <2>2. Sound(F, L)
    BY <2>1 DEF Sound
  <2> QED BY <2>2 DEF F
<1>4. Sound(Put(s, n, L + 1), L + 1)
  <2> DEFINE F == Put(s, n, L + 1)
  <2>1. /\ F \in [Sides -> [Names -> Nat]]
        /\ \A q \in Sides, m \in Names : F[q][m] = IF q = s /\ m = n THEN L + 1 ELSE fs[q][m]
    BY <1>2
  <2> HIDE DEF F
  <2>2. \A q \in Sides, m \in Names : fs[q][m] <= L /\ fs[q][m] \in Nat
    BY <1>1 DEF Sound
  <2>3. \A q \in Sides, m \in Names : F[q][m] <= L + 1
    BY <2>1, <2>2
  <2>4. \A s1, s2 \in Sides : \A n1, n2 \in Names :
           F[s1][n1] # 0 /\ F[s1][n1] = F[s2][n2] => s1 = s2 /\ n1 = n2
    BY <2>1, <2>2 DEF Sound
  <2>5. Sound(F, L + 1)
    BY <2>1, <2>3, <2>4 DEF Sound
  <2> QED BY <2>5 DEF F
<1> QED BY <1>2, <1>3, <1>4

(* A rename takes a node from one name to another and leaves every other   *)
(* name where it was.                                                      *)
LEMMA MoveSound ==
  ASSUME NEW L \in Nat, Sound(fs, L), NEW s \in Sides, NEW a \in Names, NEW b \in Names, a # b
  PROVE  /\ Move(s, a, b) \in [Sides -> [Names -> Nat]]
         /\ \A q \in Sides, m \in Names :
              Move(s, a, b)[q][m] = IF q = s /\ m = b THEN fs[s][a] ELSE IF q = s /\ m = a THEN 0 ELSE fs[q][m]
         /\ Sound(Move(s, a, b), L)
<1> DEFINE F == Move(s, a, b)
<1>1. fs \in [Sides -> [Names -> Nat]]
  BY DEF Sound
<1>2. /\ F \in [Sides -> [Names -> Nat]]
      /\ \A q \in Sides, m \in Names :
           F[q][m] = IF q = s /\ m = b THEN fs[s][a] ELSE IF q = s /\ m = a THEN 0 ELSE fs[q][m]
  <2> DEFINE G == [fs EXCEPT ![s][a] = 0]
  <2>1. G \in [Sides -> [Names -> Nat]] /\ \A q \in Sides, m \in Names : G[q][m] = IF q = s /\ m = a THEN 0 ELSE fs[q][m]
    BY <1>1
  <2>2. F = [G EXCEPT ![s][b] = fs[s][a]]
    BY DEF Move
  <2> HIDE DEF F, G
  <2>3. fs[s][a] \in Nat
    BY <1>1
  <2> QED BY <2>1, <2>2, <2>3
<1> HIDE DEF F
<1>3. \A q \in Sides, m \in Names : F[q][m] <= L
  BY <1>2 DEF Sound
<1>4. ASSUME NEW s1 \in Sides, NEW s2 \in Sides, NEW n1 \in Names, NEW n2 \in Names,
             F[s1][n1] # 0, F[s1][n1] = F[s2][n2]
      PROVE  s1 = s2 /\ n1 = n2
  <2>1. \A q1, q2 \in Sides : \A m1, m2 \in Names :
          fs[q1][m1] # 0 /\ fs[q1][m1] = fs[q2][m2] => q1 = q2 /\ m1 = m2
    BY DEF Sound
  <2> DEFINE old(q, m) == IF q = s /\ m = b THEN a ELSE m
  <2>2. \A q \in Sides, m \in Names : F[q][m] # 0 => fs[q][old(q, m)] = F[q][m] /\ ~(q = s /\ m = a)
    BY <1>2
  <2>3. old(s1, n1) \in Names /\ old(s2, n2) \in Names
    OBVIOUS
  <2>4. s1 = s2 /\ old(s1, n1) = old(s2, n2)
    BY <1>4, <2>1, <2>2, <2>3
  <2> QED BY <1>4, <2>2, <2>4
<1>5. Sound(F, L)
  BY <1>2, <1>3, <1>4 DEF Sound
<1> QED BY <1>2, <1>5 DEF F

(* What a removal or a move loses is what its destination led to           *)
LEMMA PutLoses ==
  ASSUME NEW L \in Nat, Sound(fs, L), NEW s \in Sides, NEW n \in Names, NEW x \in Nat, NEW c \in Lost(Put(s, n, x))
  PROVE  n[1] # "part" /\ fs[s][n] # 0 /\ c = node[fs[s][n]].half
<1> DEFINE F == Put(s, n, x)
<1>1. \A q \in Sides, m \in Names : F[q][m] = IF q = s /\ m = n THEN x ELSE fs[q][m]
  BY PutSound
<1> HIDE DEF F
<1>2. PICK q \in Sides, m \in Names : /\ m[1] # "part" /\ c = node[fs[q][m]].half /\ fs[q][m] # 0
                                      /\ \A q2 \in Sides, m2 \in Names : m2[1] # "part" => F[q2][m2] # fs[q][m]
  BY DEF Lost, F, Sides
<1> QED BY <1>1, <1>2

(* A rename to a name that is no temporary file loses at most what that    *)
(* name led to.                                                            *)
LEMMA MoveLoses ==
  ASSUME NEW L \in Nat, Sound(fs, L), NEW s \in Sides, NEW a \in Names, NEW b \in Names, a # b,
         b[1] # "part", NEW c \in Lost(Move(s, a, b))
  PROVE  fs[s][b] # 0 /\ c = node[fs[s][b]].half
<1> DEFINE F == Move(s, a, b)
<1>1. \A q \in Sides, m \in Names :
        F[q][m] = IF q = s /\ m = b THEN fs[s][a] ELSE IF q = s /\ m = a THEN 0 ELSE fs[q][m]
  BY MoveSound
<1> HIDE DEF F
<1>2. PICK q \in Sides, m \in Names : /\ m[1] # "part" /\ c = node[fs[q][m]].half /\ fs[q][m] # 0
                                      /\ \A q2 \in Sides, m2 \in Names : m2[1] # "part" => F[q2][m2] # fs[q][m]
  BY DEF Lost, F, Sides
<1>3. CASE q = s /\ m = a
  BY <1>1, <1>2, <1>3
<1>4. CASE q # s \/ m # a
  BY <1>1, <1>2, <1>4
<1> QED BY <1>3, <1>4

----------------------------------------------------------------------------
(* The inductive invariant *)

TPc == {"next", "start", "open", "copy", "verify", "commit", "link", "try", "rename", "exists",
        "backup", "place", "rollback", "clean", "drop", "result", "done"}
Outcome == {"none", "completed", "failed", "skipped"}
Batch == [pc : TPc, file : Nat \ {0}, files : 1..Files, look : Nat, h : Nat, tmp : Nat, read : Seq(Content),
          index : 0..2, placed : BOOLEAN, out : Outcome]
Document == [pc : {"closed", "editing", "backup", "verify", "place", "clean", "reread", "restore", "drop"},
             seen : Seq(Content), force : BOOLEAN, out : {"none", "conflict", "error", "saved"}]
Victim == [by : {"t", "d"}, content : Halves, placed : BOOLEAN]
Setting == dir \in {"up", "down"} /\ policy \in {"replace", "skip", "keepboth"}
SfTypes ==
  /\ Setting
  /\ node \in Seq(NodeT)
  /\ t \in Batch /\ d \in Document
  /\ results \in Seq(Outcome)
  /\ victims \in SUBSET Victim
  /\ cancel \in BOOLEAN /\ blind \in BOOLEAN /\ broken \in BOOLEAN
  /\ edits \in Nat /\ faults \in Nat

(* Looks that are given to changed files are new ones.                     *)
Nodes ==
  /\ Sound(fs, Len(node))
  /\ \A k \in 1..Len(node) : node[k].look < 3 + edits
  /\ t.look < 3 + edits

(* How far the batch is: its file, its results, and what belongs to the    *)
(* step.                                                                   *)
Course ==
  /\ t.file <= t.files + 1
  /\ t.pc \notin {"next", "done"} => t.file <= t.files
  /\ Len(results) = IF t.pc = "done" THEN t.files ELSE t.file - 1
  /\ t.pc \in {"copy", "verify"} => fs[To][PartT] = t.tmp /\ t.tmp # 0 /\ t.h \in 1..Len(node)
  /\ t.pc = "copy" => Len(t.read) <= 1
  /\ t.pc \in {"exists", "backup", "place", "rollback", "clean"} => policy = "replace"
  /\ t.pc \in {"try", "rename"} => dir = "up"
  /\ t.pc = "link" => dir = "down"
  /\ t.pc = "clean" => t.placed

(* Backups exist between two steps of a replacement only; while the        *)
(* original is one, its name is free, or what stands there locally is the  *)
(* edit of another program.                                                *)
Steps ==
  /\ \A i \in 1..Files :
       i > t.file \/ (i = t.file /\ t.pc \notin {"place", "rollback", "clean", "drop", "result"}) =>
         fs[To][Backup(i)] = 0
  /\ t.pc \in {"place", "rollback"} /\ dir = "down" /\ fs[To][BackupT] # 0 =>
       fs[To][Doc] = 0 \/ node[fs[To][Doc]].half[1][1] = "edit"

(* What the editor is about to remove is the version that was loaded.      *)
Saves ==
  /\ d.pc \in {"place", "clean"} /\ Here(BackupD) # 0 => d.force \/ node[Here(BackupD)].half = d.seen
  /\ \A x \in victims : x.by = "d" => d.pc \in {"closed", "reread"} /\ d.seen # <<>>
  /\ d.pc # "closed" => d.seen # <<>>

(* What names lead to is whole, and so is what the batch has copied as long*)
(* as its source looks as it did.                                          *)
IsWhole(k) == node[k].half[1] = node[k].half[2]
NamesWhole == \A s \in Sides, n \in Names : fs[s][n] # 0 /\ (n[1] = "part" => n = PartD) => IsWhole(fs[s][n])
BatchWhole ==
  /\ t.pc = "copy" =>
       /\ IsWhole(t.h)
       /\ node[t.h].look = t.look /\ Len(t.read) = 1 => t.read[1] = node[t.h].half[1]
  /\ t.pc = "verify" /\ node[t.h].look = t.look => IsWhole(t.tmp)
  /\ t.pc \in {"commit", "link", "try", "rename", "exists", "backup", "place"} /\ fs[To][PartT] # 0 =>
       IsWhole(fs[To][PartT])
Wholes == blind \/ (NamesWhole /\ BatchWhole)

(* A temporary file is there for its file only, and for a save.            *)
WithPart == {"copy", "verify", "commit", "link", "try", "rename", "exists", "backup", "place", "rollback", "drop"}
Tidy ==
  /\ broken => faults > 0
  /\ faults = 0 => \A s \in Sides, i \in 0..Files : fs[s][Part(i)] # 0 =>
       \/ i = 0 /\ s = "remote" /\ d.pc \in {"backup", "verify", "place", "restore", "drop"}
       \/ i = t.file /\ s = To /\ t.pc \in WithPart

IInv == SfTypes /\ Nodes /\ Course /\ Steps /\ Saves /\ Wholes /\ Tidy /\ NothingLost

----------------------------------------------------------------------------
(* The steps *)

(* The two ends                                                            *)
LEMMA Ends ==
  ASSUME dir \in {"up", "down"}
  PROVE  /\ To \in Sides /\ From \in Sides /\ To # From
         /\ dir = "down" => To = "local" /\ From = "remote" /\ Edited = Src(1)
         /\ dir = "up" => To = "remote" /\ From = "local" /\ Edited = Doc
         /\ dir' = dir => To' = To /\ From' = From /\ Edited' = Edited
BY DEF To, From, Edited, Sides, Doc, Src

(* After a lost connection a request has failed, and only a failing request*)
(* counts as one.                                                          *)
LEMMA Requests ==
  ASSUME NEW side, SfTypes, Tidy, Works(side) \/ Fails(side)
  PROVE  /\ broken' \in BOOLEAN /\ faults' \in Nat
         /\ broken' => faults' > 0
         /\ faults' = 0 => faults = 0
         /\ Fails(side) => faults' > 0
<1>1. CASE UNCHANGED <<faults, broken>> /\ (Fails(side) => broken)
  BY <1>1 DEF SfTypes, Tidy
<1>2. CASE faults' = faults + 1 /\ broken' \in {broken, broken \/ side = "remote"}
  <2>1. faults' \in Nat /\ faults' > 0
    BY <1>2 DEF SfTypes
  <2>2. broken' \in BOOLEAN
    <3>1. broken \in BOOLEAN /\ (broken \/ side = "remote") \in BOOLEAN
      BY DEF SfTypes
    <3>2. broken' = broken \/ broken' = (broken \/ side = "remote")
      BY <1>2
    <3> QED BY <3>1, <3>2
  <2> QED BY <2>1, <2>2
<1>3. CASE Works(side) /\ ~Fails(side)
  BY <1>1, <1>3 DEF Works
<1>4. CASE Fails(side)
  BY <1>1, <1>2, <1>4 DEF Fails
<1> QED BY <1>3, <1>4

(* A step that changes no file and nothing of the document                 *)
LEMMA QuietStep ==
  ASSUME IInv, UNCHANGED <<dir, policy, fs, node, victims, d, edits>>, t'.look < 3 + edits
  PROVE  Nodes' /\ Saves' /\ NothingLost' /\ (NamesWhole => NamesWhole')
<1>1. Nodes'
  BY DEF IInv, Nodes, Sound
<1>2. Saves'
  BY DEF IInv, Saves, Here
<1>3. NothingLost'
  BY DEF IInv, NothingLost
<1>4. NamesWhole => NamesWhole'
  BY DEF NamesWhole, IsWhole
<1> QED BY <1>1, <1>2, <1>3, <1>4

(* A step of the batch that touches no file keeps the invariant, as long as*)
(* it goes no further back than the step before it allows.                 *)
LEMMA QuietBatch ==
  ASSUME IInv, Files \in Nat, UNCHANGED <<dir, policy, fs, node, victims, d, edits>>,
         SfTypes', t'.look < 3 + edits, Course', blind => blind',
         ~blind' /\ BatchWhole => BatchWhole',
         t'.file = t.file \/ (t.pc = "result" /\ t'.pc = "next" /\ t'.file = t.file + 1),
         t'.pc \notin {"place", "rollback", "clean", "drop", "result"} /\ t'.file = t.file =>
             t.pc \notin {"place", "rollback", "clean", "drop", "result"},
         t'.pc = "place" => t.pc \in {"exists", "place"},
         t'.pc = "rollback" => t.pc \in {"place", "rollback"},
         broken' => faults' > 0, faults' = 0 => faults = 0,
         faults' = 0 /\ t.pc \in WithPart => t'.pc \in WithPart /\ t'.file = t.file
  PROVE  IInv'
<1>1. Nodes' /\ Saves' /\ NothingLost' /\ (NamesWhole => NamesWhole')
  BY QuietStep
<1>2. To' = To /\ To \in Sides /\ BackupT = Backup(t.file) /\ BackupT' = Backup(t'.file)
  BY Ends DEF IInv, SfTypes, Setting, BackupT
<1>3. t.file \in Nat /\ t'.file \in Nat /\ t.pc \in TPc
  BY DEF IInv, SfTypes, Batch
<1>4. Steps'
  <2>1. \A i \in 1..Files :
       i > t'.file \/ (i = t'.file /\ t'.pc \notin {"place", "rollback", "clean", "drop", "result"}) =>
         fs[To][Backup(i)] = 0
    BY <1>3 DEF IInv, Steps
  <2>2. ASSUME t'.pc \in {"place", "rollback"}, dir = "down", fs[To][BackupT'] # 0
        PROVE  fs[To][Doc] = 0 \/ node[fs[To][Doc]].half[1][1] = "edit"
    <3>1. t'.file = t.file /\ BackupT' = BackupT
      BY <1>2, <2>2
    <3>2. CASE t.pc = "exists"
      <4>0. t.file \in Nat \ {0} /\ t.files \in 1..Files /\ t.file <= t.files
        BY <3>2 DEF IInv, SfTypes, Batch, Course
      <4>1. t.file \in 1..Files
        BY <4>0
      <4>2. fs[To][Backup(t.file)] = 0
        BY <3>2, <4>1 DEF IInv, Steps
      <4> QED BY <1>2, <2>2, <3>1, <4>2
    <3>3. CASE t.pc \in {"place", "rollback"}
      BY <1>2, <2>2, <3>1, <3>3 DEF IInv, Steps
    <3> QED BY <2>2, <3>2, <3>3
  <2> QED BY <1>2, <2>1, <2>2 DEF Steps
<1>5. Wholes'
  <2>0. blind \in BOOLEAN /\ blind' \in BOOLEAN
    BY DEF IInv, SfTypes
  <2> QED BY <1>1, <2>0 DEF IInv, Wholes
<1>6. Tidy'
  BY <1>2 DEF IInv, Tidy
<1> QED BY <1>1, <1>4, <1>5, <1>6 DEF IInv

(* The top of the loop: after the last file, or a cancellation, every file *)
(* has its result.                                                         *)
LEMMA NextFileStep ==
  ASSUME IInv, Files \in Nat, NextFile
  PROVE  IInv'
<1>0. UNCHANGED <<dir, policy, fs, node, victims, d, edits, blind, cancel, faults, broken>> /\ t.pc = "next"
  BY DEF NextFile, Same
<1>1. CASE cancel \/ t.file > t.files
  <2> DEFINE rest == [i \in 1..(t.files + 1 - t.file) |-> "skipped"]
  <2>1. t' = [t EXCEPT !.pc = "done"] /\ results' = results \o rest
    BY <1>1 DEF NextFile, Goto
  <2>2. t.files \in Nat /\ t.file \in Nat /\ t.file <= t.files + 1 /\ Len(results) = t.file - 1 /\ results \in Seq(Outcome)
    BY <1>0 DEF IInv, SfTypes, Batch, Course
  <2>3. rest \in Seq(Outcome) /\ Len(rest) = t.files + 1 - t.file
    BY <2>2 DEF Outcome
  <2> HIDE DEF rest
  <2>4. results' \in Seq(Outcome) /\ Len(results') = t.files
    BY <2>1, <2>2, <2>3, ConcatProperties
  <2>5. SfTypes'
    BY <1>0, <2>1, <2>4 DEF IInv, SfTypes, Batch, TPc, Setting
  <2>6. t'.look < 3 + edits /\ t'.pc = "done" /\ t'.file = t.file /\ t'.files = t.files
    BY <2>1 DEF IInv, SfTypes, Nodes, Batch
  <2>7. Course'
    BY <2>2, <2>4, <2>6 DEF Course
  <2>8. BatchWhole'
    BY <2>6 DEF BatchWhole
  <2> QED BY <1>0, <2>5, <2>6, <2>7, <2>8, QuietBatch DEF IInv, Tidy, WithPart
<1>2. CASE ~(cancel \/ t.file > t.files)
  <2>1. t' = [t EXCEPT !.pc = "start"] /\ results' = results
    BY <1>2 DEF NextFile, Goto
  <2>2. t'.look < 3 + edits /\ t'.pc = "start" /\ t'.file = t.file /\ t'.files = t.files
    BY <2>1 DEF IInv, SfTypes, Nodes, Batch
  <2>3. SfTypes'
    BY <1>0, <2>1 DEF IInv, SfTypes, Batch, TPc, Setting
  <2>4. Course'
    BY <1>0, <1>2, <2>1, <2>2 DEF IInv, SfTypes, Batch, Course
  <2>5. BatchWhole'
    BY <2>2 DEF BatchWhole
  <2> QED BY <1>0, <2>2, <2>3, <2>4, <2>5, QuietBatch DEF IInv, Tidy, WithPart
<1> QED BY <1>1, <1>2

(* The batch gives the file up                                             *)
LEMMA GivesUp ==
  ASSUME IInv, Files \in Nat, UNCHANGED <<dir, policy, cancel, results, fs, node, victims, d, edits, blind>>,
         t' \in Batch, t'.file = t.file, t'.files = t.files, t'.look = t.look, t'.pc \in {"drop", "result"},
         t.pc \notin {"next", "done"}, t'.pc = "result" => t.pc \notin WithPart,
         broken' \in BOOLEAN, faults' \in Nat, broken' => faults' > 0, faults' = 0 => faults = 0
  PROVE  IInv'
<1>1. SfTypes'
  BY DEF IInv, SfTypes, Setting
<1>2. Course'
  BY DEF IInv, SfTypes, Course
<1>3. BatchWhole'
  BY DEF BatchWhole
<1>4. t'.look < 3 + edits
  BY DEF IInv, Nodes
<1> QED BY <1>1, <1>2, <1>3, <1>4, QuietBatch DEF WithPart

(* The look at the destination and at the source.                          *)
LEMMA StartStep ==
  ASSUME IInv, Files \in Nat, Start
  PROVE  IInv'
<1>0. /\ UNCHANGED <<dir, policy, cancel, results, fs, node, victims, d, edits, blind>> /\ t.pc = "start"
      /\ Works("remote") \/ Fails("remote")
  BY DEF Start, Same, world
<1>1. broken' \in BOOLEAN /\ faults' \in Nat /\ (broken' => faults' > 0) /\ (faults' = 0 => faults = 0)
  BY <1>0, Requests DEF IInv
<1>2. t \in Batch
  BY DEF IInv, SfTypes
<1>3. ASSUME NEW out \in {"skipped", "failed"}, t' = [t EXCEPT !.pc = "result", !.out = out]
      PROVE  IInv'
  <2>1. t' \in Batch /\ t'.file = t.file /\ t'.files = t.files /\ t'.look = t.look /\ t'.pc = "result"
    BY <1>2, <1>3 DEF Batch, TPc, Outcome
  <2> QED BY <1>0, <1>1, <2>1, GivesUp DEF WithPart
<1>4. ASSUME fs[From][Src(t.file)] # 0, t' = [t EXCEPT !.pc = "open", !.look = node[fs[From][Src(t.file)]].look]
      PROVE  IInv'
  <2> DEFINE k == fs[From][Src(t.file)]
  <2>1. t.file \in 1..Files
    <3>1. t.file \in Nat \ {0} /\ t.files \in 1..Files /\ t.file <= t.files
      BY <1>0 DEF IInv, SfTypes, Batch, Course
    <3> QED BY <3>1
  <2>2. k \in 1..Len(node)
    <3>1. From \in Sides /\ Src(t.file) \in Names
      BY <2>1, Ends, Naming DEF IInv, SfTypes, Setting
    <3>2. k \in Nat /\ k <= Len(node) /\ Len(node) \in Nat
      BY <3>1, LenProperties DEF IInv, SfTypes, Nodes, Sound
    <3> QED BY <1>4, <3>2
  <2> HIDE DEF k
  <2>3. node[k] \in NodeT /\ node[k].look < 3 + edits
    BY <2>2, ElementOfSeq DEF IInv, SfTypes, Nodes
  <2>4. t' = [t EXCEPT !.pc = "open", !.look = node[k].look]
    BY <1>4 DEF k
  <2>5. t' \in Batch /\ t'.file = t.file /\ t'.files = t.files /\ t'.look < 3 + edits /\ t'.pc = "open"
    BY <1>2, <2>3, <2>4 DEF Batch, TPc, NodeT
  <2>6. SfTypes'
    BY <1>0, <1>1, <2>5 DEF IInv, SfTypes, Setting
  <2>7. Course'
    BY <1>0, <2>5 DEF IInv, Course
  <2>8. BatchWhole'
    BY <2>5 DEF BatchWhole
  <2> QED BY <1>0, <1>1, <2>5, <2>6, <2>7, <2>8, QuietBatch DEF WithPart
<1> QED BY <1>0, <1>3, <1>4 DEF Start

(* The checks after the copy: a source that looks as it did was one        *)
(* version, unless a change hid behind the same look.                      *)
LEMMA VerifyStep ==
  ASSUME IInv, Files \in Nat, Verify
  PROVE  IInv'
<1>0. /\ UNCHANGED <<dir, policy, cancel, results, fs, node, victims, d, edits>> /\ t.pc = "verify"
      /\ Works("remote") \/ Fails("remote")
  BY DEF Verify, Same
<1>1. broken' \in BOOLEAN /\ faults' \in Nat /\ (broken' => faults' > 0) /\ (faults' = 0 => faults = 0)
  BY <1>0, Requests DEF IInv
<1>2. t \in Batch
  BY DEF IInv, SfTypes
<1>3. ASSUME blind' = blind, t' = [t EXCEPT !.pc = "drop", !.out = "failed"]
      PROVE  IInv'
  <2>1. t' \in Batch /\ t'.file = t.file /\ t'.files = t.files /\ t'.look = t.look /\ t'.pc = "drop"
    BY <1>2, <1>3 DEF Batch, TPc, Outcome
  <2> QED BY <1>0, <1>1, <1>3, <2>1, GivesUp DEF WithPart
<1>4. ASSUME Unchanged, Goto("commit"), blind' = (blind \/ Hidden)
      PROVE  IInv'
  <2>1. /\ t' \in Batch /\ t'.file = t.file /\ t'.files = t.files /\ t'.look = t.look /\ t'.pc = "commit"
        /\ t'.h = t.h /\ t'.tmp = t.tmp
    BY <1>2, <1>4 DEF Batch, TPc, Goto
  <2>2. SfTypes'
    <3>1. Hidden \in BOOLEAN
      BY DEF Hidden, NameAsBefore
    <3>2. blind' \in BOOLEAN
      BY <1>4, <3>1 DEF IInv, SfTypes
    <3> QED BY <1>0, <1>1, <2>1, <3>2 DEF IInv, SfTypes, Setting
  <2>3. Course'
    BY <1>0, <2>1 DEF IInv, Course
  <2>4. t'.look < 3 + edits
    BY <2>1 DEF IInv, Nodes
  <2>5. ASSUME ~blind', BatchWhole PROVE BatchWhole'
    <3>1. node[t.h].look = t.look
      BY <1>4, <2>5 DEF Unchanged, Hidden, NameAsBefore
    <3>2. IsWhole(t.tmp) /\ fs[To][PartT] = t.tmp
      BY <1>0, <2>5, <3>1 DEF BatchWhole, IInv, Course
    <3>3. To' = To /\ PartT' = PartT
      BY <1>0, <2>1, Ends DEF IInv, SfTypes, Setting, PartT
    <3>4. IsWhole(fs[To][PartT])'
      BY <1>0, <3>2, <3>3 DEF IsWhole
    <3> QED BY <2>1, <3>4 DEF BatchWhole
  <2>6. blind => blind'
    BY <1>4
  <2> QED BY <1>0, <1>1, <2>1, <2>2, <2>3, <2>4, <2>5, <2>6, QuietBatch DEF WithPart
<1> QED BY <1>3, <1>4 DEF Verify

(* What an end of the commit leaves of the batch.                          *)
LEMMA Ending ==
  ASSUME t \in Batch, NEW out \in {"completed", "failed", "skipped"}, Ended(out)
  PROVE  /\ t' \in Batch /\ t'.file = t.file /\ t'.files = t.files /\ t'.look = t.look /\ t'.h = t.h /\ t'.tmp = t.tmp
         /\ t'.pc = IF out = "completed" THEN "result" ELSE "drop"
BY DEF Ended, Batch, TPc, Outcome

(* A step from one pc of the commit to another                             *)
LEMMA CommitGoes ==
  ASSUME IInv, Files \in Nat, UNCHANGED <<dir, policy, cancel, results, fs, node, victims, d, edits, blind>>,
         t' \in Batch, t'.file = t.file, t'.files = t.files, t'.look = t.look,
         t.pc \in {"commit", "link", "try", "rename", "exists"},
         t'.pc \in {"link", "try", "rename", "exists", "backup", "place"},
         t'.pc = "link" => dir = "down", t'.pc \in {"try", "rename"} => dir = "up",
         t'.pc \in {"exists", "backup", "place"} => policy = "replace",
         t'.pc = "place" => t.pc = "exists",
         broken' \in BOOLEAN, faults' \in Nat, broken' => faults' > 0, faults' = 0 => faults = 0
  PROVE  IInv'
<1>1. SfTypes'
  BY DEF IInv, SfTypes, Setting
<1>2. Course'
  BY DEF IInv, Course
<1>3. BatchWhole => BatchWhole'
  <2>1. To' = To /\ PartT' = PartT
    BY Ends DEF IInv, SfTypes, Setting, PartT
  <2> QED BY <2>1 DEF BatchWhole, IsWhole
<1>4. t'.look < 3 + edits
  BY DEF IInv, Nodes
<1> QED BY <1>1, <1>2, <1>3, <1>4, QuietBatch DEF WithPart

(* A name that is taken: the next one is tried, or the file is given up.   *)
LEMMA TakenStep ==
  ASSUME IInv, Files \in Nat, UNCHANGED <<dir, policy, cancel, results, fs, node, victims, d, edits, blind>>,
         t.pc \in {"link", "try", "rename"}, Taken,
         broken' \in BOOLEAN, faults' \in Nat, broken' => faults' > 0, faults' = 0 => faults = 0
  PROVE  IInv'
<1>1. t \in Batch
  BY DEF IInv, SfTypes
<1>2. CASE Ended("skipped") \/ Ended("failed")
  <2>1. t' \in Batch /\ t'.file = t.file /\ t'.files = t.files /\ t'.look = t.look /\ t'.pc = "drop"
    BY <1>1, <1>2, Ending
  <2> QED BY <2>1, GivesUp
<1>3. CASE t.index # 2 /\ t' = [t EXCEPT !.index = @ + 1, !.pc = IF dir = "up" THEN "try" ELSE "link"]
  <2>1. t.index \in 0..2
    BY <1>1 DEF Batch
  <2>2. t.index + 1 \in 0..2
    BY <1>3, <2>1
  <2>3. /\ t' \in Batch /\ t'.file = t.file /\ t'.files = t.files /\ t'.look = t.look
        /\ t'.pc = IF dir = "up" THEN "try" ELSE "link"
    BY <1>1, <1>3, <2>2 DEF Batch, TPc
  <2>4. dir \in {"up", "down"}
    BY DEF IInv, SfTypes, Setting
  <2> QED BY <2>3, <2>4, CommitGoes
<1> QED BY <1>2, <1>3 DEF Taken

(* The commit begins with the steps of its policy.                         *)
LEMMA CommitBeginsStep ==
  ASSUME IInv, Files \in Nat, CommitBegins
  PROVE  IInv'
<1>1. t \in Batch /\ dir \in {"up", "down"}
  BY DEF IInv, SfTypes, Setting
<1>2. /\ UNCHANGED <<dir, policy, cancel, results, fs, node, victims, d, edits, blind, faults, broken>>
      /\ t.pc = "commit"
  BY DEF CommitBegins, Same, world
<1>3. /\ t' \in Batch /\ t'.file = t.file /\ t'.files = t.files /\ t'.look = t.look
      /\ t'.pc = IF policy = "replace" THEN "exists" ELSE IF dir = "up" THEN "try" ELSE "link"
  BY <1>1 DEF CommitBegins, Goto, Batch, TPc
<1>4. broken' \in BOOLEAN /\ faults' \in Nat /\ (broken' => faults' > 0)
  BY <1>2 DEF IInv, SfTypes, Tidy
<1> QED BY <1>1, <1>2, <1>3, <1>4, CommitGoes

(* The look before a rename on the server.                                 *)
LEMMA TryExistsStep ==
  ASSUME IInv, Files \in Nat, TryExists
  PROVE  IInv'
<1>0. t \in Batch /\ To \in Sides
  BY Ends DEF IInv, SfTypes, Setting
<1>1. /\ UNCHANGED <<dir, policy, cancel, results, fs, node, victims, d, edits, blind>> /\ t.pc = "try"
      /\ Works(To) \/ Fails(To)
  BY DEF TryExists, Same, world
<1>2. broken' \in BOOLEAN /\ faults' \in Nat /\ (broken' => faults' > 0) /\ (faults' = 0 => faults = 0)
  BY <1>1, Requests DEF IInv
<1>3. dir = "up"
  BY <1>1 DEF IInv, Course
<1>4. CASE Goto("rename")
  <2>1. t' \in Batch /\ t'.file = t.file /\ t'.files = t.files /\ t'.look = t.look /\ t'.pc = "rename"
    BY <1>0, <1>4 DEF Goto, Batch, TPc
  <2> QED BY <1>1, <1>2, <1>3, <2>1, CommitGoes
<1>5. CASE Taken
  BY <1>1, <1>2, <1>5, TakenStep
<1>6. CASE Ended("failed")
  <2>1. t' \in Batch /\ t'.file = t.file /\ t'.files = t.files /\ t'.look = t.look /\ t'.pc = "drop"
    BY <1>0, <1>6, Ending
  <2> QED BY <1>1, <1>2, <2>1, GivesUp
<1> QED BY <1>4, <1>5, <1>6 DEF TryExists

(* Replace looks whether there is a file to step aside.                    *)
LEMMA ReplaceLooksStep ==
  ASSUME IInv, Files \in Nat, ReplaceLooks
  PROVE  IInv'
<1>0. t \in Batch /\ To \in Sides
  BY Ends DEF IInv, SfTypes, Setting
<1>1. /\ UNCHANGED <<dir, policy, cancel, results, fs, node, victims, d, edits, blind>> /\ t.pc = "exists"
      /\ Works(To) \/ Fails(To)
  BY DEF ReplaceLooks, Same, world
<1>2. broken' \in BOOLEAN /\ faults' \in Nat /\ (broken' => faults' > 0) /\ (faults' = 0 => faults = 0)
  BY <1>1, Requests DEF IInv
<1>3. policy = "replace"
  BY <1>1 DEF IInv, Course
<1>4. ASSUME NEW pc \in {"place", "backup"}, Goto(pc) PROVE IInv'
  <2>1. t' \in Batch /\ t'.file = t.file /\ t'.files = t.files /\ t'.look = t.look /\ t'.pc = pc
    BY <1>0, <1>4 DEF Goto, Batch, TPc
  <2> QED BY <1>1, <1>2, <1>3, <2>1, CommitGoes
<1>5. CASE Ended("failed")
  <2>1. t' \in Batch /\ t'.file = t.file /\ t'.files = t.files /\ t'.look = t.look /\ t'.pc = "drop"
    BY <1>0, <1>5, Ending
  <2> QED BY <1>1, <1>2, <2>1, GivesUp
<1> QED BY <1>4, <1>5 DEF ReplaceLooks

(* A file has its result and the next one begins; its temporary file and   *)
(* its backup are gone, or a request has failed.                           *)
LEMMA ResultStep ==
  ASSUME IInv, Files \in Nat, Result
  PROVE  IInv'
<1>0. t \in Batch /\ results \in Seq(Outcome)
  BY DEF IInv, SfTypes
<1>1. /\ UNCHANGED <<dir, policy, cancel, fs, node, victims, d, edits, blind, faults, broken>> /\ t.pc = "result"
      /\ results' = Append(results, Status) /\ t' = Fresh(t.file + 1, t.files)
  BY DEF Result, Same
<1>2. Status \in Outcome
  BY <1>0 DEF Status, Batch, Outcome
<1>3. results' \in Seq(Outcome) /\ Len(results') = Len(results) + 1
  BY <1>0, <1>1, <1>2, AppendProperties
<1>4. /\ t' \in Batch /\ t'.file = t.file + 1 /\ t'.files = t.files /\ t'.look = 0 /\ t'.pc = "next"
      /\ t.file \in Nat /\ t.files \in Nat
  BY <1>0, <1>1 DEF Fresh, Batch, TPc, Outcome
<1>5. SfTypes'
  BY <1>1, <1>3, <1>4 DEF IInv, SfTypes, Setting
<1>6. Course'
  <2>1. t.file <= t.files /\ Len(results) = t.file - 1
    BY <1>1 DEF IInv, Course
  <2> QED BY <1>3, <1>4, <2>1 DEF Course
<1>7. BatchWhole'
  BY <1>4 DEF BatchWhole
<1>8. t'.look < 3 + edits
  BY <1>4 DEF IInv, SfTypes
<1>9. broken' => faults' > 0
  BY <1>1 DEF IInv, Tidy
<1> QED BY <1>1, <1>4, <1>5, <1>6, <1>7, <1>8, <1>9, QuietBatch DEF WithPart

(* The user cancels.                                                       *)
LEMMA CancelStep ==
  ASSUME IInv, Files \in Nat, Cancel
  PROVE  IInv'
<1>1. /\ UNCHANGED <<dir, policy, t, results, fs, node, victims, d, edits, blind, faults, broken>> /\ cancel' = TRUE
  BY DEF Cancel, Same
<1>2. SfTypes'
  BY <1>1 DEF IInv, SfTypes, Setting
<1>3. Course'
  BY <1>1, Ends DEF IInv, SfTypes, Setting, Course, PartT
<1>4. BatchWhole => BatchWhole'
  BY <1>1, Ends DEF IInv, SfTypes, Setting, BatchWhole, PartT, IsWhole
<1>5. t'.look < 3 + edits /\ (broken' => faults' > 0)
  BY <1>1 DEF IInv, Nodes, Tidy
<1> QED BY <1>1, <1>2, <1>3, <1>4, <1>5, QuietBatch DEF WithPart

(* What a move of the batch does to the names                              *)
LEMMA BatchMoves ==
  ASSUME IInv, Files \in Nat, UNCHANGED <<dir, policy, node, d, edits>>, t'.look = t.look,
         NEW a \in Names, NEW b \in Names, a # b, a # BackupD, b # BackupD, a # PartD, b[1] # "part",
         NEW p \in BOOLEAN, Becomes(Move(To, a, b), "t", p)
  PROVE  /\ \A s \in Sides, m \in Names :
              fs'[s][m] = IF s = To /\ m = b THEN fs[To][a] ELSE IF s = To /\ m = a THEN 0 ELSE fs[s][m]
         /\ Nodes' /\ Saves' /\ victims' \in SUBSET Victim
         /\ NamesWhole /\ (fs[To][a] # 0 => IsWhole(fs[To][a])) => NamesWhole'
         /\ fs[To][b] = 0 => NothingLost'
         /\ policy = "replace" /\ (p \/ (dir = "down" /\ node[fs[To][b]].half[1][1] = "edit")) => NothingLost'
<1>0. To \in Sides /\ To' = To
  BY Ends DEF IInv, SfTypes, Setting
<1>1. Sound(fs, Len(node)) /\ Len(node) \in Nat /\ node \in Seq(NodeT)
  BY LenProperties DEF IInv, Nodes, SfTypes
<1>2. fs' = Move(To, a, b) /\ victims' = victims \cup {[by |-> "t", content |-> c, placed |-> p] : c \in Lost(Move(To, a, b))}
  BY DEF Becomes
<1>3. /\ \A s \in Sides, m \in Names :
           fs'[s][m] = IF s = To /\ m = b THEN fs[To][a] ELSE IF s = To /\ m = a THEN 0 ELSE fs[s][m]
      /\ Sound(fs', Len(node))
  BY <1>0, <1>1, <1>2, MoveSound
<1>4. Nodes'
  BY <1>3 DEF IInv, Nodes
<1>5. \A c \in Lost(Move(To, a, b)) : fs[To][b] # 0 /\ c = node[fs[To][b]].half
  BY <1>0, <1>1, MoveLoses
<1>6. fs[To][b] # 0 => node[fs[To][b]] \in NodeT
  <2>1. fs[To][b] \in Nat /\ fs[To][b] <= Len(node)
    BY <1>0, <1>1 DEF Sound
  <2>2. fs[To][b] # 0 => fs[To][b] \in 1..Len(node)
    BY <1>1, <2>1
  <2> QED BY <1>1, <2>2, ElementOfSeq
<1>7. \A x \in victims' : x \in victims \/ (/\ x = [by |-> "t", content |-> node[fs[To][b]].half, placed |-> p]
                                            /\ fs[To][b] # 0)
  BY <1>2, <1>5
<1>8. victims' \in SUBSET Victim
  <2>1. \A x \in victims' : x \in Victim
    <3> TAKE x \in victims'
    <3>1. CASE x \in victims
      BY <3>1 DEF IInv, SfTypes
    <3>2. CASE x = [by |-> "t", content |-> node[fs[To][b]].half, placed |-> p] /\ fs[To][b] # 0
      BY <1>6, <3>2 DEF Victim, NodeT
    <3> QED BY <1>7, <3>1, <3>2
  <2> QED BY <2>1
<1>9. Saves'
  <2>1. "remote" \in Sides /\ BackupD \in Names
    BY Naming DEF Sides, BackupD
  <2>2. Here(BackupD)' = Here(BackupD)
    BY <1>3, <2>1 DEF Here
  <2>3. \A x \in victims' : x.by = "d" => x \in victims
    BY <1>7
  <2> QED BY <2>2, <2>3 DEF IInv, Saves
<1>10. ASSUME NamesWhole, fs[To][a] # 0 => IsWhole(fs[To][a]) PROVE NamesWhole'
  BY <1>0, <1>3, <1>10 DEF NamesWhole, IsWhole
<1>11. ASSUME fs[To][b] = 0 PROVE NothingLost'
  <2>1. \A x \in victims' : x \in victims
    BY <1>7, <1>11
  <2> QED BY <2>1 DEF IInv, NothingLost
<1>12. ASSUME policy = "replace", p \/ (dir = "down" /\ node[fs[To][b]].half[1][1] = "edit") PROVE NothingLost'
  <2> SUFFICES ASSUME NEW x \in victims'
               PROVE  /\ x.placed \/ (dir = "down" /\ x.content[1][1] = "edit")
                      /\ x.by = "t" => policy = "replace"
                      /\ x.by = "d" => d.force \/ x.content = d.seen
    BY DEF NothingLost
  <2>1. CASE x \in victims
    BY <2>1 DEF IInv, NothingLost
  <2>2. CASE x = [by |-> "t", content |-> node[fs[To][b]].half, placed |-> p]
    BY <1>12, <2>2
  <2> QED BY <1>7, <2>1, <2>2
<1> QED BY <1>3, <1>4, <1>8, <1>9, <1>10, <1>11, <1>12

(* And a removal                                                           *)
LEMMA BatchRemoves ==
  ASSUME IInv, Files \in Nat, UNCHANGED <<dir, policy, node, d, edits>>, t'.look = t.look,
         NEW n \in Names, n # BackupD,
         NEW p \in BOOLEAN, Becomes(Put(To, n, 0), "t", p)
  PROVE  /\ \A s \in Sides, m \in Names : fs'[s][m] = IF s = To /\ m = n THEN 0 ELSE fs[s][m]
         /\ Nodes' /\ Saves' /\ victims' \in SUBSET Victim
         /\ NamesWhole => NamesWhole'
         /\ n[1] = "part" => NothingLost'
         /\ policy = "replace" /\ p => NothingLost'
<1>0. To \in Sides /\ To' = To
  BY Ends DEF IInv, SfTypes, Setting
<1>1. Sound(fs, Len(node)) /\ Len(node) \in Nat /\ node \in Seq(NodeT)
  BY LenProperties DEF IInv, Nodes, SfTypes
<1>2. fs' = Put(To, n, 0) /\ victims' = victims \cup {[by |-> "t", content |-> c, placed |-> p] : c \in Lost(Put(To, n, 0))}
  BY DEF Becomes
<1>3. /\ \A s \in Sides, m \in Names : fs'[s][m] = IF s = To /\ m = n THEN 0 ELSE fs[s][m]
      /\ Sound(fs', Len(node))
  <2>1. 0 \in Nat
    OBVIOUS
  <2>2. /\ \A x \in Nat : \A q \in Sides, m \in Names : Put(To, n, x)[q][m] = IF q = To /\ m = n THEN x ELSE fs[q][m]
        /\ Sound(Put(To, n, 0), Len(node))
    BY <1>0, <1>1, PutSound
  <2>3. \A s \in Sides, m \in Names : Put(To, n, 0)[s][m] = IF s = To /\ m = n THEN 0 ELSE fs[s][m]
    BY <2>1, <2>2
  <2> QED BY <1>2, <2>2, <2>3
<1>4. Nodes'
  BY <1>3 DEF IInv, Nodes
<1>5. \A c \in Lost(Put(To, n, 0)) : n[1] # "part" /\ fs[To][n] # 0 /\ c = node[fs[To][n]].half
  BY <1>0, <1>1, PutLoses
<1>6. fs[To][n] # 0 => node[fs[To][n]] \in NodeT
  <2>1. fs[To][n] \in Nat /\ fs[To][n] <= Len(node)
    BY <1>0, <1>1 DEF Sound
  <2>2. fs[To][n] # 0 => fs[To][n] \in 1..Len(node)
    BY <1>1, <2>1
  <2> QED BY <1>1, <2>2, ElementOfSeq
<1>7. \A x \in victims' : x \in victims \/ (/\ x = [by |-> "t", content |-> node[fs[To][n]].half, placed |-> p]
                                            /\ fs[To][n] # 0 /\ n[1] # "part")
  BY <1>2, <1>5
<1>8. victims' \in SUBSET Victim
  <2>1. \A x \in victims' : x \in Victim
    <3> TAKE x \in victims'
    <3>1. CASE x \in victims
      BY <3>1 DEF IInv, SfTypes
    <3>2. CASE x = [by |-> "t", content |-> node[fs[To][n]].half, placed |-> p] /\ fs[To][n] # 0
      BY <1>6, <3>2 DEF Victim, NodeT
    <3> QED BY <1>7, <3>1, <3>2
  <2> QED BY <2>1
<1>9. Saves'
  <2>1. "remote" \in Sides /\ BackupD \in Names
    BY Naming DEF Sides, BackupD
  <2>2. Here(BackupD)' = Here(BackupD)
    BY <1>3, <2>1 DEF Here
  <2>3. \A x \in victims' : x.by = "d" => x \in victims
    BY <1>7
  <2> QED BY <2>2, <2>3 DEF IInv, Saves
<1>10. NamesWhole => NamesWhole'
  BY <1>0, <1>3 DEF NamesWhole, IsWhole
<1>11. ASSUME n[1] = "part" PROVE NothingLost'
  <2>1. \A x \in victims' : x \in victims
    BY <1>7, <1>11
  <2> QED BY <2>1 DEF IInv, NothingLost
<1>12. ASSUME policy = "replace", p PROVE NothingLost'
  <2> SUFFICES ASSUME NEW x \in victims'
               PROVE  /\ x.placed \/ (dir = "down" /\ x.content[1][1] = "edit")
                      /\ x.by = "t" => policy = "replace"
                      /\ x.by = "d" => d.force \/ x.content = d.seen
    BY DEF NothingLost
  <2>1. CASE x \in victims
    BY <2>1 DEF IInv, NothingLost
  <2>2. CASE x = [by |-> "t", content |-> node[fs[To][n]].half, placed |-> p]
    BY <1>12, <2>2
  <2> QED BY <1>7, <2>1, <2>2
<1> QED BY <1>3, <1>4, <1>8, <1>9, <1>10, <1>11, <1>12

(* The names a file of the batch uses are names, and differ from those of  *)
(* the editor.                                                             *)
LEMMA BatchNames ==
  ASSUME IInv, Files \in Nat, t.pc \notin {"next", "done"}
  PROVE  /\ t.file \in 1..Files /\ t.index \in 0..2
         /\ PartT \in Names /\ BackupT \in Names /\ Target \in Names /\ Doc \in Names /\ BackupD \in Names /\ PartD \in Names
         /\ PartT # PartD /\ PartT # BackupD /\ BackupT # BackupD /\ Target # BackupD /\ Doc # BackupD
         /\ PartT # BackupT /\ PartT # Target /\ PartT # Doc /\ BackupT # Doc /\ BackupT # PartD /\ Doc # PartD
         /\ PartT[1] = "part" /\ BackupT[1] # "part" /\ Target[1] # "part" /\ Doc[1] # "part"
         /\ \A i \in 0..Files : /\ Part(i) \in Names /\ Backup(i) \in Names
                                /\ Part(i) # BackupT /\ Part(i) # Target /\ Part(i) # Doc
                                /\ Backup(i) # PartT /\ Backup(i) # Target /\ Backup(i) # Doc
                                /\ i # t.file => Part(i) # PartT /\ Backup(i) # BackupT
<1>1. t.file \in Nat \ {0} /\ t.files \in 1..Files /\ t.file <= t.files /\ t.index \in 0..2
  BY DEF IInv, SfTypes, Batch, Course
<1>2. t.file \in 1..Files /\ t.file \in 0..Files /\ 0 \in 0..Files /\ t.file \in Nat
  BY <1>1
<1>3. \A i \in 0..Files : i \in Nat
  OBVIOUS
<1>4. \A i \in 0..2 : i \in Nat
  OBVIOUS
<1>5. PartT = Part(t.file) /\ BackupT = Backup(t.file) /\ Target = Copy(t.index) /\ PartD = Part(0) /\ BackupD = Backup(0)
      /\ Doc = Copy(0) /\ 0 \in 0..2
  BY Naming DEF PartT, BackupT, Target, PartD, BackupD
<1> QED BY <1>1, <1>2, <1>3, <1>4, <1>5, Naming

(* A rename of the batch leaves the backups and temporary files of the     *)
(* other files alone.                                                      *)
LEMMA BatchMoved ==
  ASSUME IInv, Files \in Nat, t.pc \in WithPart \cup {"clean"}, dir' = dir, d' = d, t'.file = t.file,
         NEW a \in {PartT, Doc, BackupT}, NEW b \in {Target, Doc, BackupT},
         \A s \in Sides, m \in Names :
              fs'[s][m] = IF s = To /\ m = b THEN fs[To][a] ELSE IF s = To /\ m = a THEN 0 ELSE fs[s][m],
         t'.pc \in {"place", "clean", "drop", "result"},
         t'.pc = "place" => fs'[To][Doc] = 0,
         broken' => faults' > 0, faults' = 0 => faults = 0,
         faults' = 0 /\ t'.pc \in {"result", "clean"} => fs'[To][PartT] = 0
  PROVE  Steps' /\ Tidy'
<1>0. To' = To /\ To \in Sides
  BY Ends DEF IInv, SfTypes, Setting
<1>1. t.pc \notin {"next", "done"}
  BY DEF WithPart
<1>2. t.file \in 1..Files /\ \A i \in 1..Files : i \in 0..Files
  BY <1>1, BatchNames
<1>3. Steps'
  <2>1. \A i \in 1..Files : i > t.file => fs'[To][Backup(i)] = 0
    <3> SUFFICES ASSUME NEW i \in 1..Files, i > t.file PROVE fs'[To][Backup(i)] = 0
      OBVIOUS
    <3>1. fs[To][Backup(i)] = 0 /\ i # t.file /\ i \in 0..Files
      BY <1>2 DEF IInv, Steps
    <3>2. Backup(i) \in Names /\ Backup(i) # a /\ Backup(i) # b
      BY <1>1, <3>1, BatchNames
    <3> QED BY <1>0, <3>1, <3>2
  <2> QED BY <1>0, <2>1 DEF Steps
<1>4. Tidy'
  <2> SUFFICES ASSUME faults' = 0, NEW s \in Sides, NEW i \in 0..Files, fs'[s][Part(i)] # 0
               PROVE  \/ i = 0 /\ s = "remote" /\ d.pc \in {"backup", "verify", "place", "restore", "drop"}
                      \/ i = t.file /\ s = To /\ t'.pc \in WithPart
    BY <1>0 DEF Tidy
  <2>1. Part(i) \in Names /\ Part(i) # b
    BY <1>1, BatchNames
  <2>2. fs[s][Part(i)] # 0
    BY <2>1
  <2>3. faults = 0
    OBVIOUS
  <2>4. CASE i = 0 /\ s = "remote" /\ d.pc \in {"backup", "verify", "place", "restore", "drop"}
    BY <2>4
  <2>5. CASE i = t.file /\ s = To
    <3>1. Part(i) = PartT
      BY <2>5 DEF PartT
    <3>2. t'.pc \notin {"result", "clean"}
      BY <2>5, <3>1
    <3> QED BY <2>5, <3>2 DEF WithPart
  <2> QED BY <2>2, <2>3, <2>4, <2>5 DEF IInv, Tidy
<1> QED BY <1>3, <1>4

(* The rest of the invariant after such a step                             *)
LEMMA BatchEnds ==
  ASSUME IInv, Files \in Nat, UNCHANGED <<dir, policy, cancel, results, node, d, edits, blind>>,
         t.pc \notin {"next", "done"},
         t' \in Batch, t'.file = t.file, t'.files = t.files, t'.look = t.look,
         t'.pc \in {"place", "clean", "drop", "result"},
         t'.pc \in {"place", "clean"} => policy = "replace", t'.pc = "clean" => t'.placed,
         t'.pc = "place" => (t.pc = "backup" /\ fs'[To][PartT] = fs[To][PartT]),
         broken' \in BOOLEAN, faults' \in Nat, victims' \in SUBSET Victim,
         Nodes', Saves', NothingLost', Steps', Tidy', NamesWhole /\ BatchWhole => NamesWhole'
  PROVE  IInv'
<1>0. To' = To /\ PartT' = PartT
  BY Ends DEF IInv, SfTypes, Setting, PartT
<1>1. SfTypes'
  BY DEF IInv, SfTypes, Setting
<1>2. Course'
  BY DEF IInv, Course
<1>3. BatchWhole => BatchWhole'
  BY <1>0 DEF BatchWhole, IsWhole
<1>4. Wholes'
  BY <1>3 DEF IInv, Wholes, SfTypes
<1> QED BY <1>1, <1>2, <1>4 DEF IInv

(* A local file takes a free name, or none (try_commit_local_noreplace).   *)
LEMMA LinkStep ==
  ASSUME IInv, Files \in Nat, Link
  PROVE  IInv'
<1>0. t \in Batch /\ To \in Sides
  BY Ends DEF IInv, SfTypes, Setting
<1>1. /\ UNCHANGED <<dir, policy, cancel, results, node, d, edits, blind>> /\ t.pc = "link"
      /\ Works(To) \/ Fails(To)
  BY DEF Link, world
<1>2. broken' \in BOOLEAN /\ faults' \in Nat /\ (broken' => faults' > 0) /\ (faults' = 0 => faults = 0)
  BY <1>1, Requests DEF IInv
<1>3. CASE fs[To][Target] = 0 /\ Becomes(Move(To, PartT, Target), "t", TRUE) /\ Ended("completed")
  <2>1. /\ t' \in Batch /\ t'.file = t.file /\ t'.files = t.files /\ t'.look = t.look /\ t'.pc = "result"
    BY <1>0, <1>3, Ending
  <2>2. /\ PartT \in Names /\ Target \in Names /\ PartT # Target /\ PartT # BackupD /\ Target # BackupD
        /\ PartT # PartD /\ Target[1] # "part"
    BY <1>1, BatchNames
  <2>3. /\ \A s \in Sides, m \in Names :
              fs'[s][m] = IF s = To /\ m = Target THEN fs[To][PartT] ELSE IF s = To /\ m = PartT THEN 0 ELSE fs[s][m]
        /\ Nodes' /\ Saves' /\ victims' \in SUBSET Victim /\ NothingLost'
        /\ NamesWhole /\ (fs[To][PartT] # 0 => IsWhole(fs[To][PartT])) => NamesWhole'
    BY <1>1, <1>3, <2>1, <2>2, BatchMoves
  <2>4. NamesWhole /\ BatchWhole => NamesWhole'
    BY <1>1, <2>3 DEF BatchWhole
  <2>5. fs'[To][PartT] = 0
    BY <1>0, <2>2, <2>3
  <2>6. Steps' /\ Tidy'
    BY <1>1, <1>2, <2>1, <2>3, <2>5, BatchMoved DEF WithPart
  <2> QED BY <1>1, <1>2, <2>1, <2>3, <2>4, <2>6, BatchEnds
<1>4. CASE Same /\ Taken
  BY <1>1, <1>2, <1>4, TakenStep DEF Same
<1>5. CASE Same /\ Ended("failed")
  <2>1. t' \in Batch /\ t'.file = t.file /\ t'.files = t.files /\ t'.look = t.look /\ t'.pc = "drop"
    BY <1>0, <1>5, Ending
  <2> QED BY <1>1, <1>2, <1>5, <2>1, GivesUp DEF Same
<1> QED BY <1>3, <1>4, <1>5 DEF Link

(* The rename on the server, which may have been done although it failed.  *)
LEMMA TryRenameStep ==
  ASSUME IInv, Files \in Nat, TryRename
  PROVE  IInv'
<1>0. t \in Batch /\ To \in Sides
  BY Ends DEF IInv, SfTypes, Setting
<1>1. /\ UNCHANGED <<dir, policy, cancel, results, node, d, edits, blind>> /\ t.pc = "rename"
      /\ Works(To) \/ Fails(To)
  BY DEF TryRename, world
<1>2. broken' \in BOOLEAN /\ faults' \in Nat /\ (broken' => faults' > 0) /\ (faults' = 0 => faults = 0)
  BY <1>1, Requests DEF IInv
<1>3. ASSUME NEW out \in {"completed", "failed"}, fs[To][Target] = 0,
             Becomes(Move(To, PartT, Target), "t", TRUE), Ended(out)
      PROVE  IInv'
  <2>1. /\ t' \in Batch /\ t'.file = t.file /\ t'.files = t.files /\ t'.look = t.look /\ t'.pc \in {"result", "drop"}
    BY <1>0, <1>3, Ending
  <2>2. /\ PartT \in Names /\ Target \in Names /\ PartT # Target /\ PartT # BackupD /\ Target # BackupD
        /\ PartT # PartD /\ Target[1] # "part"
    BY <1>1, BatchNames
  <2>3. /\ \A s \in Sides, m \in Names :
              fs'[s][m] = IF s = To /\ m = Target THEN fs[To][PartT] ELSE IF s = To /\ m = PartT THEN 0 ELSE fs[s][m]
        /\ Nodes' /\ Saves' /\ victims' \in SUBSET Victim /\ NothingLost'
        /\ NamesWhole /\ (fs[To][PartT] # 0 => IsWhole(fs[To][PartT])) => NamesWhole'
    BY <1>1, <1>3, <2>1, <2>2, BatchMoves
  <2>4. NamesWhole /\ BatchWhole => NamesWhole'
    BY <1>1, <2>3 DEF BatchWhole
  <2>5. fs'[To][PartT] = 0
    BY <1>0, <2>2, <2>3
  <2>6. Steps' /\ Tidy'
    BY <1>1, <1>2, <2>1, <2>3, <2>5, BatchMoved DEF WithPart
  <2> QED BY <1>1, <1>2, <2>1, <2>3, <2>4, <2>6, BatchEnds
<1>4. CASE Same /\ Taken
  BY <1>1, <1>2, <1>4, TakenStep DEF Same
<1>5. CASE Same /\ Ended("failed")
  <2>1. t' \in Batch /\ t'.file = t.file /\ t'.files = t.files /\ t'.look = t.look /\ t'.pc = "drop"
    BY <1>0, <1>5, Ending
  <2> QED BY <1>1, <1>2, <1>5, <2>1, GivesUp DEF Same
<1>6. MayMove(To, PartT, Target) => fs[To][Target] = 0
  <2>1. dir = "up"
    BY <1>1 DEF IInv, Course
  <2> QED BY <2>1 DEF MayMove, To
<1> QED BY <1>3, <1>4, <1>5, <1>6 DEF TryRename

(* The original steps aside.                                               *)
LEMMA StepAsideStep ==
  ASSUME IInv, Files \in Nat, StepAside
  PROVE  IInv'
<1>0. t \in Batch /\ To \in Sides
  BY Ends DEF IInv, SfTypes, Setting
<1>1. /\ UNCHANGED <<dir, policy, cancel, results, node, d, edits, blind>> /\ t.pc = "backup"
      /\ Works(To) \/ Fails(To)
  BY DEF StepAside, world
<1>2. broken' \in BOOLEAN /\ faults' \in Nat /\ (broken' => faults' > 0) /\ (faults' = 0 => faults = 0)
  BY <1>1, Requests DEF IInv
<1>3. CASE Becomes(Move(To, Doc, BackupT), "t", FALSE) /\ Goto("place")
  <2>1. /\ t' \in Batch /\ t'.file = t.file /\ t'.files = t.files /\ t'.look = t.look /\ t'.pc = "place"
    BY <1>0, <1>3 DEF Goto, Batch, TPc
  <2>2. /\ BackupT \in Names /\ Doc \in Names /\ Doc # BackupT /\ Doc # BackupD /\ BackupT # BackupD
        /\ Doc # PartD /\ BackupT[1] # "part" /\ t.file \in 1..Files /\ PartT \in Names /\ PartT # BackupT /\ PartT # Doc
        /\ Doc[1] # "part"
    BY <1>1, BatchNames
  <2>3. fs[To][BackupT] = 0 /\ policy = "replace"
    BY <1>1, <2>2 DEF IInv, Steps, Course, BackupT
  <2>4. /\ \A s \in Sides, m \in Names :
              fs'[s][m] = IF s = To /\ m = BackupT THEN fs[To][Doc] ELSE IF s = To /\ m = Doc THEN 0 ELSE fs[s][m]
        /\ Nodes' /\ Saves' /\ victims' \in SUBSET Victim /\ NothingLost'
        /\ NamesWhole /\ (fs[To][Doc] # 0 => IsWhole(fs[To][Doc])) => NamesWhole'
    BY ZenonT(60), <1>1, <1>3, <2>1, <2>2, <2>3, BatchMoves
  <2>5. NamesWhole => NamesWhole'
    BY <1>0, <2>2, <2>4 DEF NamesWhole
  <2>6. fs'[To][Doc] = 0 /\ fs'[To][PartT] = fs[To][PartT]
    BY <1>0, <2>2, <2>4
  <2>7. Steps' /\ Tidy'
    BY <1>1, <1>2, <2>1, <2>4, <2>6, BatchMoved DEF WithPart
  <2> QED BY <1>1, <1>2, <2>1, <2>3, <2>4, <2>5, <2>6, <2>7, BatchEnds
<1>4. CASE Same /\ Ended("failed")
  <2>1. t' \in Batch /\ t'.file = t.file /\ t'.files = t.files /\ t'.look = t.look /\ t'.pc = "drop"
    BY <1>0, <1>4, Ending
  <2> QED BY <1>1, <1>2, <1>4, <2>1, GivesUp DEF Same
<1> QED BY <1>3, <1>4 DEF StepAside

(* The new file takes the name; what stood there is lost only if it is the *)
(* edit of another program.                                                *)
LEMMA PlaceStep ==
  ASSUME IInv, Files \in Nat, Place
  PROVE  IInv'
<1>0. t \in Batch /\ To \in Sides
  BY Ends DEF IInv, SfTypes, Setting
<1>1. /\ UNCHANGED <<dir, policy, cancel, results, node, d, edits, blind>> /\ t.pc = "place"
      /\ Works(To) \/ Fails(To)
  BY DEF Place, world
<1>2. broken' \in BOOLEAN /\ faults' \in Nat /\ (broken' => faults' > 0) /\ (faults' = 0 => faults = 0)
  BY <1>1, Requests DEF IInv
<1>3. policy = "replace"
  BY <1>1 DEF IInv, Course
<1>4. CASE /\ Becomes(Move(To, PartT, Doc), "t", TRUE)
           /\ Ended("completed") \/ t' = [t EXCEPT !.pc = "clean", !.placed = TRUE]
  <2>1. /\ t' \in Batch /\ t'.file = t.file /\ t'.files = t.files /\ t'.look = t.look
        /\ t'.pc \in {"result", "clean"} /\ (t'.pc = "clean" => t'.placed)
    <3>1. CASE Ended("completed")
      BY <1>0, <3>1, Ending
    <3>2. CASE t' = [t EXCEPT !.pc = "clean", !.placed = TRUE]
      BY <1>0, <3>2 DEF Batch, TPc
    <3> QED BY <1>4, <3>1, <3>2
  <2>2. /\ PartT \in Names /\ Doc \in Names /\ PartT # Doc /\ PartT # BackupD /\ Doc # BackupD
        /\ PartT # PartD /\ Doc[1] # "part"
    BY <1>1, BatchNames
  <2>3. /\ \A s \in Sides, m \in Names :
              fs'[s][m] = IF s = To /\ m = Doc THEN fs[To][PartT] ELSE IF s = To /\ m = PartT THEN 0 ELSE fs[s][m]
        /\ Nodes' /\ Saves' /\ victims' \in SUBSET Victim /\ NothingLost'
        /\ NamesWhole /\ (fs[To][PartT] # 0 => IsWhole(fs[To][PartT])) => NamesWhole'
    BY ZenonT(60), <1>1, <1>3, <1>4, <2>1, <2>2, BatchMoves
  <2>4. NamesWhole /\ BatchWhole => NamesWhole'
    BY <1>1, <2>3 DEF BatchWhole
  <2>5. fs'[To][PartT] = 0
    BY <1>0, <2>2, <2>3
  <2>6. Steps' /\ Tidy'
    BY <1>1, <1>2, <2>1, <2>3, <2>5, BatchMoved DEF WithPart
  <2> QED BY <1>1, <1>2, <1>3, <2>1, <2>3, <2>4, <2>6, BatchEnds
<1>5. CASE Same /\ Ended("failed")
  <2>1. t' \in Batch /\ t'.file = t.file /\ t'.files = t.files /\ t'.look = t.look /\ t'.pc = "drop"
    BY <1>0, <1>5, Ending
  <2> QED BY <1>1, <1>2, <1>5, <2>1, GivesUp DEF Same
<1>6. CASE Same /\ Goto("rollback")
  <2>1. t' \in Batch /\ t'.file = t.file /\ t'.files = t.files /\ t'.look = t.look /\ t'.pc = "rollback"
    BY <1>0, <1>6 DEF Goto, Batch, TPc
  <2>2. SfTypes'
    BY <1>1, <1>2, <1>6, <2>1 DEF IInv, SfTypes, Setting, Same
  <2>3. Course'
    BY <1>1, <1>3, <2>1 DEF IInv, Course
  <2>4. BatchWhole'
    BY <2>1 DEF BatchWhole
  <2>5. t'.look < 3 + edits
    BY <2>1 DEF IInv, Nodes
  <2> QED BY <1>1, <1>2, <1>6, <2>1, <2>2, <2>3, <2>4, <2>5, QuietBatch DEF Same, WithPart
<1> QED BY <1>4, <1>5, <1>6 DEF Place

(* The original returns to its name, where nothing stands but, locally,    *)
(* what another program put there.                                         *)
LEMMA RollBackStep ==
  ASSUME IInv, Files \in Nat, RollBack
  PROVE  IInv'
<1>0. t \in Batch /\ To \in Sides
  BY Ends DEF IInv, SfTypes, Setting
<1>1. /\ UNCHANGED <<dir, policy, cancel, results, node, d, edits, blind>> /\ t.pc = "rollback"
      /\ Works(To) \/ Fails(To)
  BY DEF RollBack, world
<1>2. broken' \in BOOLEAN /\ faults' \in Nat /\ (broken' => faults' > 0) /\ (faults' = 0 => faults = 0)
  BY <1>1, Requests DEF IInv
<1>3. policy = "replace"
  BY <1>1 DEF IInv, Course
<1>4. t' \in Batch /\ t'.file = t.file /\ t'.files = t.files /\ t'.look = t.look /\ t'.pc = "drop"
  BY <1>0, Ending DEF RollBack
<1>5. CASE MayMove(To, BackupT, Doc) /\ Becomes(Move(To, BackupT, Doc), "t", FALSE)
  <2>2. /\ BackupT \in Names /\ Doc \in Names /\ BackupT # Doc /\ BackupT # BackupD /\ Doc # BackupD
        /\ BackupT # PartD /\ Doc[1] # "part" /\ BackupT[1] # "part"
    BY <1>1, BatchNames
  <2>3. fs[To][Doc] = 0 \/ (dir = "down" /\ node[fs[To][Doc]].half[1][1] = "edit")
    <3>1. fs[To][BackupT] # 0 /\ (To = "local" \/ fs[To][Doc] = 0)
      BY <1>5 DEF MayMove
    <3>2. To = "local" => dir = "down"
      BY Ends DEF IInv, SfTypes, Setting
    <3> QED BY <1>1, <3>1, <3>2 DEF IInv, Steps
  <2>4. /\ \A s \in Sides, m \in Names :
              fs'[s][m] = IF s = To /\ m = Doc THEN fs[To][BackupT] ELSE IF s = To /\ m = BackupT THEN 0 ELSE fs[s][m]
        /\ Nodes' /\ Saves' /\ victims' \in SUBSET Victim
        /\ NamesWhole /\ (fs[To][BackupT] # 0 => IsWhole(fs[To][BackupT])) => NamesWhole'
        /\ fs[To][Doc] = 0 => NothingLost'
        /\ policy = "replace" /\ (dir = "down" /\ node[fs[To][Doc]].half[1][1] = "edit") => NothingLost'
    <3>1. FALSE \in BOOLEAN
      OBVIOUS
    <3> QED BY <1>1, <1>4, <1>5, <2>2, <3>1, BatchMoves
  <2>5. NothingLost'
    BY <1>3, <2>3, <2>4
  <2>6. NamesWhole => NamesWhole'
    BY <1>0, <2>2, <2>4 DEF NamesWhole
  <2>7. Steps' /\ Tidy'
    BY <1>1, <1>2, <1>4, <2>4, BatchMoved DEF WithPart
  <2> QED BY <1>1, <1>2, <1>3, <1>4, <2>4, <2>5, <2>6, <2>7, BatchEnds
<1>6. CASE Same
  BY <1>1, <1>2, <1>4, <1>6, GivesUp DEF Same
<1> QED BY <1>5, <1>6 DEF RollBack

(* A removal by the batch leaves the other files alone.                    *)
LEMMA BatchRemoved ==
  ASSUME IInv, Files \in Nat, t.pc \in {"clean", "drop"}, dir' = dir, d' = d, t'.file = t.file, t'.pc = "result",
         NEW n \in {PartT, BackupT},
         \A s \in Sides, m \in Names : fs'[s][m] = IF s = To /\ m = n THEN 0 ELSE fs[s][m],
         broken' => faults' > 0, faults' = 0 => faults = 0, t.pc = "drop" => n = PartT
  PROVE  Steps' /\ Tidy'
<1>0. To' = To /\ To \in Sides
  BY Ends DEF IInv, SfTypes, Setting
<1>1. t.file \in 1..Files /\ \A i \in 1..Files : i \in 0..Files
  BY BatchNames
<1>2. \A i \in 0..Files : Part(i) \in Names /\ Backup(i) \in Names
  BY Naming
<1>3. Steps'
  <2>1. \A i \in 1..Files : i > t.file => fs'[To][Backup(i)] = 0
    BY <1>0, <1>1, <1>2 DEF IInv, Steps
  <2> QED BY <1>0, <2>1 DEF Steps
<1>4. Tidy'
  <2> SUFFICES ASSUME faults' = 0, NEW s \in Sides, NEW i \in 0..Files, fs'[s][Part(i)] # 0
               PROVE  i = 0 /\ s = "remote" /\ d.pc \in {"backup", "verify", "place", "restore", "drop"}
    BY DEF Tidy
  <2>1. fs[s][Part(i)] # 0 /\ faults = 0
    BY <1>2
  <2>2. ~(i = t.file /\ s = To /\ t.pc \in WithPart)
    <3> SUFFICES ASSUME i = t.file, s = To, t.pc \in WithPart PROVE FALSE
      OBVIOUS
    <3>1. n = Part(i)
      BY DEF WithPart, PartT
    <3> QED BY <1>2, <3>1
  <2> QED BY <2>1, <2>2 DEF IInv, Tidy
<1> QED BY <1>3, <1>4

(* The backup goes, once the new file is in place.                         *)
LEMMA CleanStep ==
  ASSUME IInv, Files \in Nat, Clean
  PROVE  IInv'
<1>0. t \in Batch /\ To \in Sides
  BY Ends DEF IInv, SfTypes, Setting
<1>1. /\ UNCHANGED <<dir, policy, cancel, results, node, d, edits, blind>> /\ t.pc = "clean"
      /\ Works(To) \/ Fails(To)
  BY DEF Clean, world
<1>2. broken' \in BOOLEAN /\ faults' \in Nat /\ (broken' => faults' > 0) /\ (faults' = 0 => faults = 0)
  BY <1>1, Requests DEF IInv
<1>3. policy = "replace" /\ t.placed
  BY <1>1 DEF IInv, Course
<1>4. t' \in Batch /\ t'.file = t.file /\ t'.files = t.files /\ t'.look = t.look /\ t'.pc = "result"
  BY <1>0, Ending DEF Clean
<1>5. CASE Becomes(Put(To, BackupT, 0), "t", t.placed)
  <2>1. BackupT \in Names /\ BackupT # BackupD
    BY <1>1, BatchNames
  <2>2. t.placed \in BOOLEAN
    BY <1>0 DEF Batch
  <2>3. /\ \A s \in Sides, m \in Names : fs'[s][m] = IF s = To /\ m = BackupT THEN 0 ELSE fs[s][m]
        /\ Nodes' /\ Saves' /\ victims' \in SUBSET Victim /\ (NamesWhole => NamesWhole') /\ NothingLost'
    BY <1>1, <1>3, <1>4, <1>5, <2>1, <2>2, BatchRemoves
  <2>4. Steps' /\ Tidy'
    BY <1>1, <1>2, <1>4, <2>3, BatchRemoved
  <2> QED BY <1>1, <1>2, <1>4, <2>3, <2>4, BatchEnds
<1>6. CASE Same
  BY <1>1, <1>2, <1>4, <1>6, GivesUp DEF Same, WithPart
<1> QED BY <1>5, <1>6 DEF Clean

(* The temporary file goes, or a request has failed.                       *)
LEMMA DropStep ==
  ASSUME IInv, Files \in Nat, Drop
  PROVE  IInv'
<1>0. t \in Batch /\ To \in Sides
  BY Ends DEF IInv, SfTypes, Setting
<1>1. /\ UNCHANGED <<dir, policy, cancel, results, node, d, edits, blind>> /\ t.pc = "drop"
      /\ Works(To) \/ Fails(To)
  BY DEF Drop, world
<1>2. broken' \in BOOLEAN /\ faults' \in Nat /\ (broken' => faults' > 0) /\ (faults' = 0 => faults = 0)
  BY <1>1, Requests DEF IInv
<1>4. t' \in Batch /\ t'.file = t.file /\ t'.files = t.files /\ t'.look = t.look /\ t'.pc = "result"
  BY <1>0 DEF Drop, Goto, Batch, TPc
<1>5. CASE Becomes(Put(To, PartT, 0), "t", FALSE)
  <2>1. PartT \in Names /\ PartT # BackupD /\ PartT[1] = "part" /\ FALSE \in BOOLEAN
    BY <1>1, BatchNames
  <2>3. /\ \A s \in Sides, m \in Names : fs'[s][m] = IF s = To /\ m = PartT THEN 0 ELSE fs[s][m]
        /\ Nodes' /\ Saves' /\ victims' \in SUBSET Victim /\ (NamesWhole => NamesWhole') /\ NothingLost'
    BY <1>1, <1>4, <1>5, <2>1, BatchRemoves
  <2>4. Steps' /\ Tidy'
    BY <1>1, <1>2, <1>4, <2>3, BatchRemoved
  <2> QED BY <1>1, <1>2, <1>4, <2>3, <2>4, BatchEnds
<1>6. CASE Fails(To) /\ Same
  <2>1. faults' > 0
    BY <1>6, Requests DEF IInv
  <2>2. SfTypes'
    BY <1>1, <1>2, <1>4, <1>6 DEF IInv, SfTypes, Setting, Same
  <2>3. Course'
    BY <1>1, <1>4 DEF IInv, Course
  <2>4. BatchWhole'
    BY <1>4 DEF BatchWhole
  <2>5. t'.look < 3 + edits
    BY <1>4 DEF IInv, Nodes
  <2> QED BY <1>1, <1>2, <1>4, <1>6, <2>1, <2>2, <2>3, <2>4, <2>5, QuietBatch DEF Same
<1> QED BY <1>5, <1>6 DEF Drop

(* Source and temporary file are opened: a new node that no other name     *)
(* leads to.                                                               *)
LEMMA OpenStep ==
  ASSUME IInv, Files \in Nat, Open
  PROVE  IInv'
<1>0. t \in Batch /\ To \in Sides /\ From \in Sides /\ To' = To /\ dir \in {"up", "down"}
  BY Ends DEF IInv, SfTypes, Setting, Open, world
<1>1. /\ UNCHANGED <<dir, policy, cancel, results, d, edits, blind>> /\ t.pc = "open"
      /\ Works("remote") \/ Fails("remote")
  BY DEF Open, world
<1>2. broken' \in BOOLEAN /\ faults' \in Nat /\ (broken' => faults' > 0) /\ (faults' = 0 => faults = 0)
  BY <1>1, Requests DEF IInv
<1>3. CASE Same /\ node' = node /\ t' = [t EXCEPT !.pc = "result", !.out = "failed"]
  <2>1. t' \in Batch /\ t'.file = t.file /\ t'.files = t.files /\ t'.look = t.look /\ t'.pc = "result"
    BY <1>0, <1>3 DEF Batch, TPc, Outcome
  <2> QED BY <1>1, <1>2, <1>3, <2>1, GivesUp DEF Same, WithPart
<1> DEFINE k == fs[From][Src(t.file)]
           L == Len(node)
           x == Whole(<<"part", t.file>>, 1)
<1>4. ASSUME k # 0, node' = Append(node, x), Becomes(Put(To, PartT, L + 1), "t", FALSE),
             t' = [t EXCEPT !.pc = "copy", !.h = k, !.tmp = L + 1, !.read = <<>>, !.index = 0,
                            !.placed = FALSE, !.look = IF dir = "up" THEN node[k].look ELSE @]
      PROVE  IInv'
  <2>1. /\ t.file \in 1..Files /\ PartT \in Names /\ PartT[1] = "part" /\ PartT # PartD /\ PartT # BackupD
        /\ Src(t.file) \in Names /\ Doc \in Names /\ PartT # Doc
    BY <1>1, BatchNames, Naming
  <2>2. Sound(fs, L) /\ L \in Nat /\ node \in Seq(NodeT)
    BY LenProperties DEF IInv, Nodes, SfTypes
  <2>3. k \in 1..L
    <3>1. k \in Nat /\ k <= L
      BY <1>0, <2>1, <2>2 DEF Sound
    <3> QED BY <1>4, <2>2, <3>1
  <2>4. x \in NodeT /\ x.look = 1
    <3>1. <<"part", t.file>> \in Content
      <4>1. t.file \in Nat
        BY <1>0 DEF Batch
      <4> QED BY <4>1 DEF Content
    <3> QED BY <3>1 DEF Whole, NodeT, Halves
  <2>5. /\ node' \in Seq(NodeT) /\ Len(node') = L + 1 /\ node'[L + 1] = x
        /\ \A j \in 1..L : node'[j] = node[j]
    BY <1>4, <2>2, <2>4, AppendProperties
  <2> HIDE DEF x
  <2>6. node[k] \in NodeT /\ node[k].look < 3 + edits
    BY <2>2, <2>3, ElementOfSeq DEF IInv, Nodes
  <2> HIDE DEF k, L
  <2>7. /\ t' \in Batch /\ t'.file = t.file /\ t'.files = t.files /\ t'.pc = "copy" /\ t'.h = k /\ t'.tmp = L + 1
        /\ t'.read = <<>> /\ t'.look < 3 + edits
    <3>1. k \in Nat /\ L + 1 \in Nat /\ node[k].look \in Nat /\ <<>> \in Seq(Content) /\ Len(<<>>) = 0
      BY <2>2, <2>3, <2>6 DEF NodeT
    <3>2. t.look < 3 + edits
      BY DEF IInv, Nodes
    <3> DEFINE y == IF dir = "up" THEN node[k].look ELSE t.look
    <3>3. y \in Nat /\ y < 3 + edits
      BY <1>0, <2>6, <3>1, <3>2 DEF Batch
    <3>4. t' = [t EXCEPT !.pc = "copy", !.h = k, !.tmp = L + 1, !.read = <<>>, !.index = 0,
                         !.placed = FALSE, !.look = y]
      BY <1>0, <1>4
    <3> HIDE DEF y
    <3>5. 0 \in 0..2 /\ FALSE \in BOOLEAN /\ "copy" \in TPc
      BY DEF TPc
    <3>6. t' \in Batch
      BY <1>0, <3>1, <3>3, <3>4, <3>5 DEF Batch
    <3>7. t'.file = t.file /\ t'.files = t.files /\ t'.pc = "copy" /\ t'.h = k /\ t'.tmp = L + 1
          /\ t'.read = <<>> /\ t'.look = y
      BY <1>0, <3>4 DEF Batch
    <3> QED BY <3>3, <3>6, <3>7
  <2>8. fs' = Put(To, PartT, L + 1) /\ victims' = victims
    <3>1. L + 1 \in Nat
      BY <2>2
    <3>2. Lost(Put(To, PartT, L + 1)) = {}
      BY <1>0, <2>1, <2>2, <3>1, PutLoses
    <3> QED BY <1>4, <3>2 DEF Becomes, L
  <2>9. /\ \A s \in Sides, m \in Names : fs'[s][m] = IF s = To /\ m = PartT THEN L + 1 ELSE fs[s][m]
        /\ Sound(fs', L + 1)
    <3>1. L + 1 \in Nat
      BY <2>2
    <3>2. /\ \A y \in Nat : \A q \in Sides, m \in Names :
                Put(To, PartT, y)[q][m] = IF q = To /\ m = PartT THEN y ELSE fs[q][m]
          /\ Sound(Put(To, PartT, L + 1), L + 1)
      BY <1>0, <2>1, <2>2, PutSound
    <3> QED BY <2>8, <3>1, <3>2
  <2>10. \A s \in Sides, m \in Names : fs[s][m] \in Nat /\ fs[s][m] <= L
    BY <2>2 DEF Sound
  <2>11. SfTypes'
    BY <1>1, <1>2, <2>5, <2>7, <2>8 DEF IInv, SfTypes, Setting
  <2>12. Nodes'
    <3>1. \A j \in 1..(L + 1) : node'[j].look < 3 + edits'
      <4>1. \A j \in 1..(L + 1) : j \in 1..L \/ j = L + 1
        BY <2>2
      <4>2. \A j \in 1..L : node[j].look < 3 + edits
        BY DEF IInv, Nodes, L
      <4>3. 1 < 3 + edits
        BY DEF IInv, SfTypes
      <4> QED BY <1>1, <2>4, <2>5, <4>1, <4>2, <4>3
    <3> QED BY <1>1, <2>5, <2>7, <2>9, <3>1 DEF Nodes
  <2>13. PartT' = PartT /\ BackupT' = BackupT
    BY <2>7 DEF PartT, BackupT
  <2>14. Course'
    <3>1. fs'[To'][PartT'] = t'.tmp /\ t'.tmp # 0 /\ t'.h \in 1..Len(node')
      BY <1>0, <2>1, <2>2, <2>3, <2>5, <2>7, <2>9, <2>13
    <3>2. Len(t'.read) <= 1
      BY <2>7
    <3> QED BY <1>1, <2>7, <3>1, <3>2 DEF IInv, Course
  <2>15. Steps'
    <3>1. ASSUME NEW i \in 1..Files, i > t.file \/ i = t.file PROVE fs'[To][Backup(i)] = 0
      <4>1. i \in 0..Files /\ fs[To][Backup(i)] = 0
        BY <1>1, <3>1 DEF IInv, Steps
      <4>2. Backup(i) \in Names /\ Backup(i) # PartT
        BY <1>1, <4>1, BatchNames
      <4> QED BY <1>0, <2>9, <4>1, <4>2
    <3> QED BY <1>0, <2>7, <3>1 DEF Steps
  <2>16. Saves'
    <3>1. "remote" \in Sides /\ BackupD \in Names
      BY Naming DEF Sides, BackupD
    <3>2. fs'["remote"][BackupD] = fs["remote"][BackupD]
      BY <2>1, <2>9, <3>1
    <3>3. fs["remote"][BackupD] # 0 => node'[fs["remote"][BackupD]] = node[fs["remote"][BackupD]]
      BY <2>2, <2>5, <2>10, <3>1
    <3> QED BY <1>1, <2>8, <3>2, <3>3 DEF IInv, Saves, Here
  <2>17. \A j \in 1..L : IsWhole(j) => IsWhole(j)'
    BY <2>5 DEF IsWhole
  <2>18. ASSUME NamesWhole PROVE NamesWhole' /\ BatchWhole'
    <3>1. NamesWhole'
      <4> SUFFICES ASSUME NEW s \in Sides, NEW m \in Names, fs'[s][m] # 0, m[1] = "part" => m = PartD
                   PROVE  IsWhole(fs[s][m])' /\ fs'[s][m] = fs[s][m]
        BY DEF NamesWhole, IsWhole, PartD
      <4>1. fs'[s][m] = fs[s][m]
        BY <2>1, <2>9
      <4>2. fs[s][m] \in 1..L
        BY <2>2, <2>10, <4>1
      <4>3. IsWhole(fs[s][m])
        BY <2>18, <4>1 DEF NamesWhole
      <4> QED BY <2>17, <4>1, <4>2, <4>3 DEF IsWhole
    <3>2. IsWhole(k)
      <4>1. Src(t.file)[1] # "part"
        BY <2>1, Naming
      <4> QED BY <1>0, <1>4, <2>1, <2>18, <4>1 DEF NamesWhole, k
    <3>3. IsWhole(t.h)'
      BY <2>3, <2>7, <2>17, <3>2 DEF IsWhole
    <3>4. Len(t'.read) = 0
      BY <2>7
    <3> QED BY <2>7, <3>1, <3>3, <3>4 DEF BatchWhole
  <2>19. Wholes'
    BY <1>1, <2>18 DEF IInv, Wholes
  <2>20. Tidy'
    <3> SUFFICES ASSUME faults' = 0, NEW s \in Sides, NEW i \in 0..Files, fs'[s][Part(i)] # 0
                 PROVE  \/ i = 0 /\ s = "remote" /\ d.pc \in {"backup", "verify", "place", "restore", "drop"}
                        \/ i = t.file /\ s = To
      BY <1>0, <1>1, <1>2, <2>7 DEF Tidy, WithPart
    <3>1. Part(i) \in Names
      BY Naming
    <3>2. CASE i = t.file /\ s = To
      BY <3>2
    <3>3. CASE i # t.file \/ s # To
      <4>1. fs'[s][Part(i)] = fs[s][Part(i)]
        BY <1>1, <2>9, <3>1, <3>3, BatchNames
      <4> QED BY <1>1, <1>2, <4>1 DEF IInv, Tidy
    <3> QED BY <3>2, <3>3
  <2>21. NothingLost'
    BY <1>1, <2>8 DEF IInv, NothingLost
  <2> QED BY <2>11, <2>12, <2>14, <2>15, <2>16, <2>19, <2>20, <2>21 DEF IInv
<1> QED BY <1>3, <1>4 DEF Open

(* A half is copied: as long as the source looks as it did, both halves are*)
(* of one version.                                                         *)
LEMMA CopyHalfStep ==
  ASSUME IInv, Files \in Nat, CopyHalf
  PROVE  IInv'
<1>0. t \in Batch /\ To \in Sides /\ To' = To /\ dir \in {"up", "down"}
  BY Ends DEF IInv, SfTypes, Setting, CopyHalf, world
<1>1. /\ UNCHANGED <<dir, policy, cancel, results, d, edits, blind, fs, victims>> /\ t.pc = "copy"
      /\ Works("remote") \/ Fails("remote") \/ UNCHANGED <<faults, broken>>
  BY DEF CopyHalf, world, Same
<1>2. broken' \in BOOLEAN /\ faults' \in Nat /\ (broken' => faults' > 0) /\ (faults' = 0 => faults = 0)
  <2>1. CASE UNCHANGED <<faults, broken>>
    BY <2>1 DEF IInv, SfTypes, Tidy
  <2> QED BY <1>1, <2>1, Requests DEF IInv
<1>3. CASE node' = node /\ t' = [t EXCEPT !.pc = "drop", !.out = "failed"]
  <2>1. t' \in Batch /\ t'.file = t.file /\ t'.files = t.files /\ t'.look = t.look /\ t'.pc = "drop"
    BY <1>0, <1>3 DEF Batch, TPc, Outcome
  <2> QED BY <1>1, <1>2, <1>3, <2>1, GivesUp DEF WithPart
<1> DEFINE L == Len(node)
           got == Append(t.read, node[t.h].half[Len(t.read) + 1])
<1>4. /\ node \in Seq(NodeT) /\ L \in Nat /\ Sound(fs, L) /\ t.h \in 1..L /\ fs[To][PartT] = t.tmp
      /\ t.tmp # 0 /\ t.read \in Seq(Content) /\ Len(t.read) \in Nat /\ Len(t.read) <= 1
  BY <1>0, <1>1, LenProperties DEF IInv, SfTypes, Nodes, Course, Batch
<1>5. node[t.h] \in NodeT
  BY <1>4, ElementOfSeq
<1>6. node[t.h].half[Len(t.read) + 1] \in Content
  <2>1. node[t.h].half \in Seq(Content) /\ Len(node[t.h].half) = 2
    BY <1>5 DEF NodeT, Halves
  <2>2. Len(t.read) + 1 \in 1..2
    BY <1>4
  <2> QED BY <2>1, <2>2, ElementOfSeq
<1>7. /\ got \in Seq(Content) /\ Len(got) = Len(t.read) + 1
      /\ got[Len(t.read) + 1] = node[t.h].half[Len(t.read) + 1]
      /\ Len(t.read) = 1 => got[1] = t.read[1]
  BY <1>4, <1>6, AppendProperties
<1> HIDE DEF got
<1>8. CASE Len(got) < 2 /\ t' = [t EXCEPT !.read = got] /\ node' = node
  <2>1. /\ t' \in Batch /\ t'.file = t.file /\ t'.files = t.files /\ t'.look = t.look /\ t'.pc = "copy"
        /\ t'.read = got /\ t'.h = t.h /\ t'.tmp = t.tmp
    BY <1>0, <1>1, <1>7, <1>8 DEF Batch
  <2>2. SfTypes'
    BY <1>1, <1>2, <1>8, <2>1 DEF IInv, SfTypes, Setting
  <2>3. PartT' = PartT
    BY <2>1 DEF PartT
  <2>4. Course'
    BY <1>0, <1>1, <1>4, <1>7, <1>8, <2>1, <2>3 DEF IInv, Course
  <2>5. BatchWhole => BatchWhole'
    <3>1. Len(t.read) = 0 /\ got[1] = node[t.h].half[1]
      BY <1>4, <1>7, <1>8
    <3> QED BY <1>1, <1>8, <2>1, <3>1 DEF BatchWhole, IsWhole
  <2>6. t'.look < 3 + edits
    BY <2>1 DEF IInv, Nodes
  <2> QED BY <1>1, <1>2, <1>8, <2>1, <2>2, <2>4, <2>5, <2>6, QuietBatch DEF WithPart
<1>9. ASSUME ~(Len(got) < 2), t' = [t EXCEPT !.read = got, !.pc = "verify"],
             node' = [node EXCEPT ![t.tmp].half = got]
      PROVE  IInv'
  <2>1. Len(t.read) = 1 /\ Len(got) = 2
    <3>1. Len(t.read) \in Nat /\ Len(t.read) <= 1
      BY <1>4
    <3>2. Len(got) = Len(t.read) + 1
      BY <1>7
    <3>3. ~(Len(got) < 2)
      BY <1>9
    <3> DEFINE n == Len(t.read)
               g == Len(got)
    <3>4. n \in Nat /\ n <= 1 /\ g = n + 1 /\ ~(g < 2)
      BY <3>1, <3>2, <3>3
    <3> HIDE DEF n, g
    <3>5. n = 1 /\ g = 2
      BY <3>4
    <3> QED BY <3>5 DEF n, g
  <2>2. /\ t' \in Batch /\ t'.file = t.file /\ t'.files = t.files /\ t'.look = t.look /\ t'.pc = "verify"
        /\ t'.read = got /\ t'.h = t.h /\ t'.tmp = t.tmp
    BY <1>0, <1>7, <1>9 DEF Batch, TPc
  <2>3. /\ t.file \in 1..Files /\ PartT \in Names /\ PartT[1] = "part" /\ PartT # PartD /\ PartT # BackupD
        /\ Doc \in Names /\ PartT # Doc /\ BackupT # PartT /\ BackupT \in Names
    BY <1>1, BatchNames
  <2>4. t.tmp \in 1..L
    <3>1. t.tmp \in Nat /\ t.tmp <= L
      BY <1>0, <1>4, <2>3 DEF Sound
    <3> QED BY <1>4, <3>1
  <2>5. node[t.tmp] \in NodeT
    BY <1>4, <2>4, ElementOfSeq
  <2> DEFINE z == [node[t.tmp] EXCEPT !.half = got]
  <2>6. z \in NodeT /\ z.half = got /\ z.look = node[t.tmp].look
    BY <1>7, <2>1, <2>5 DEF NodeT, Halves
  <2>7. /\ node' \in Seq(NodeT) /\ Len(node') = L /\ node'[t.tmp] = z
        /\ \A j \in 1..L : j # t.tmp => node'[j] = node[j]
    <3>1. node' = [node EXCEPT ![t.tmp] = z]
      BY <1>9
    <3> HIDE DEF z
    <3> QED BY <1>4, <2>4, <2>6, <3>1, ExceptSeq
  <2> HIDE DEF z, L
  <2>8. SfTypes'
    BY <1>1, <1>2, <2>2, <2>7 DEF IInv, SfTypes, Setting
  <2>9. Nodes'
    <3>1. \A j \in 1..L : node[j].look < 3 + edits
      BY DEF IInv, Nodes, L
    <3>2. \A j \in 1..L : node'[j].look < 3 + edits
      BY <2>4, <2>6, <2>7, <3>1
    <3>3. Sound(fs', L)
      BY <1>1, <1>4
    <3> QED BY <1>1, <2>2, <2>7, <3>2, <3>3 DEF IInv, Nodes
  <2>10. PartT' = PartT /\ BackupT' = BackupT
    BY <2>2 DEF PartT, BackupT
  <2>11. Course'
    BY <1>0, <1>1, <1>4, <2>2, <2>7, <2>10 DEF IInv, Course, L
  <2>12. Steps'
    BY <1>0, <1>1, <2>2 DEF IInv, Steps
  <2>13. \A s \in Sides, m \in Names : fs[s][m] = t.tmp => s = To /\ m = PartT
    BY <1>0, <1>4, <2>3 DEF Sound
  <2>14. \A s \in Sides, m \in Names : fs[s][m] # 0 => fs[s][m] \in 1..L
    <3>1. \A s \in Sides, m \in Names : fs[s][m] \in Nat /\ fs[s][m] <= L
      BY <1>4 DEF Sound
    <3> QED BY <1>4, <3>1
  <2>15. Saves'
    <3>1. "remote" \in Sides /\ BackupD \in Names
      BY Naming DEF Sides, BackupD
    <3>2. fs["remote"][BackupD] # 0 => node'[fs["remote"][BackupD]] = node[fs["remote"][BackupD]]
      BY <2>3, <2>7, <2>13, <2>14, <3>1
    <3> QED BY <1>1, <3>2 DEF IInv, Saves, Here
  <2>16. ASSUME NamesWhole, BatchWhole PROVE NamesWhole' /\ BatchWhole'
    <3>1. NamesWhole'
      <4> SUFFICES ASSUME NEW s \in Sides, NEW m \in Names, fs[s][m] # 0, m[1] = "part" => m = PartD
                   PROVE  node'[fs[s][m]] = node[fs[s][m]] /\ IsWhole(fs[s][m])
        BY <1>1 DEF NamesWhole, IsWhole, PartD
      <4> QED BY <2>3, <2>7, <2>13, <2>14, <2>16 DEF NamesWhole
    <3>2. ASSUME node'[t.h].look = t.look PROVE got[1] = got[2]
      <4>1. node[t.h].look = t.look
        BY <1>4, <2>6, <2>7, <3>2 DEF L
      <4>2. IsWhole(t.h) /\ t.read[1] = node[t.h].half[1]
        BY <1>1, <2>1, <2>16, <4>1 DEF BatchWhole
      <4> QED BY <1>7, <2>1, <4>2 DEF IsWhole
    <3>3. node'[t.h].look = t.look => IsWhole(t.tmp)'
      BY <2>2, <2>6, <2>7, <3>2 DEF IsWhole
    <3> QED BY <2>2, <3>1, <3>3 DEF BatchWhole
  <2>17. Wholes'
    BY <1>1, <2>16 DEF IInv, Wholes
  <2>18. Tidy'
    BY <1>0, <1>1, <1>2, <2>2 DEF IInv, Tidy, WithPart
  <2>19. NothingLost'
    BY <1>1 DEF IInv, NothingLost
  <2> QED BY <2>8, <2>9, <2>11, <2>12, <2>15, <2>17, <2>18, <2>19 DEF IInv
<1> QED BY <1>3, <1>8, <1>9 DEF CopyHalf, got

DTidy == {"backup", "verify", "place", "restore", "drop"}

(* The names the editor uses are names, and differ from those of the batch,*)
(* but for the document itself.                                            *)
LEMMA DocumentNames ==
  ASSUME IInv, Files \in Nat
  PROVE  /\ Edited \in Names /\ BackupD \in Names /\ PartD \in Names /\ "remote" \in Sides /\ "local" \in Sides
         /\ Edited # BackupD /\ Edited # PartD /\ BackupD # PartD
         /\ Edited[1] # "part" /\ BackupD[1] # "part" /\ PartD[1] = "part"
         /\ \A i \in 1..Files : /\ Part(i) \in Names /\ Part(i) # Edited /\ Part(i) # BackupD /\ Part(i) # PartD
                                /\ Backup(i) \in Names /\ Backup(i) # Edited /\ Backup(i) # BackupD /\ Backup(i) # PartD
         /\ Doc \in Names
         /\ t.pc \notin {"next", "done"} => t.file \in 1..Files
<1>1. t.files \in 1..Files /\ t.file \in Nat \ {0}
  BY DEF IInv, SfTypes, Batch
<1>2. 1 \in 1..Files /\ 0 \in 0..Files /\ 0 \in 0..2 /\ \A i \in 1..Files : i \in 0..Files /\ i \in Nat /\ i # 0
  BY <1>1
<1>3. Edited = Src(1) \/ Edited = Copy(0)
  BY Naming DEF Edited
<1>4. PartD = Part(0) /\ BackupD = Backup(0)
  BY DEF PartD, BackupD
<1>5. t.pc \notin {"next", "done"} => t.file \in 1..Files
  BY BatchNames
<1> QED BY <1>2, <1>3, <1>4, <1>5, Naming DEF Sides

(* The batch does not see what becomes of the names of the document        *)
LEMMA BesideBatch ==
  ASSUME IInv, Files \in Nat,
         UNCHANGED <<dir, policy, t, node, edits, blind, results>>,
         \A s \in Sides, m \in Names :
             s # "remote" \/ m \notin {Edited, BackupD, PartD} => fs'[s][m] = fs[s][m],
         Sound(fs', Len(node)), NamesWhole => NamesWhole'
  PROVE  Nodes' /\ Course' /\ Steps' /\ Wholes'
<1>0. To' = To /\ To \in Sides /\ (dir = "down" => To = "local") /\ PartT' = PartT /\ BackupT' = BackupT
  BY Ends DEF IInv, SfTypes, Setting, PartT, BackupT
<1>1. t.pc \notin {"next", "done"} => fs'[To][PartT] = fs[To][PartT] /\ fs'[To][BackupT] = fs[To][BackupT]
  BY <1>0, DocumentNames DEF PartT, BackupT
<1>2. Nodes'
  BY DEF IInv, Nodes
<1>3. Course'
  BY <1>0, <1>1 DEF IInv, Course
<1>4. Steps'
  <2>1. \A i \in 1..Files : fs'[To][Backup(i)] = fs[To][Backup(i)]
    BY <1>0, DocumentNames
  <2>2. dir = "down" => fs'[To][Doc] = fs[To][Doc]
    BY <1>0, DocumentNames
  <2> QED BY <1>0, <1>1, <2>1, <2>2 DEF IInv, Steps
<1>5. BatchWhole => BatchWhole'
  BY <1>0, <1>1 DEF BatchWhole, IsWhole
<1>6. Wholes'
  BY <1>5 DEF IInv, Wholes
<1> QED BY <1>2, <1>3, <1>4, <1>6

(* A step of the editor leaves the temporary files of the batch alone.     *)
LEMMA BesideTidy ==
  ASSUME IInv, Files \in Nat, dir' = dir, t' = t,
         \A s \in Sides, m \in Names :
             s # "remote" \/ m \notin {Edited, BackupD, PartD} => fs'[s][m] = fs[s][m],
         broken' => faults' > 0, faults' = 0 => faults = 0,
         faults' = 0 /\ fs'["remote"][PartD] # 0 => d'.pc \in DTidy
  PROVE  Tidy'
<1>0. To' = To
  BY Ends DEF IInv, SfTypes, Setting
<1> SUFFICES ASSUME faults' = 0, NEW s \in Sides, NEW i \in 0..Files, fs'[s][Part(i)] # 0
             PROVE  \/ i = 0 /\ s = "remote" /\ d'.pc \in DTidy
                    \/ i = t.file /\ s = To /\ t.pc \in WithPart
  BY <1>0 DEF Tidy, DTidy
<1>1. CASE i = 0 /\ s = "remote"
  BY <1>1 DEF PartD
<1>2. CASE i = 0 /\ s # "remote"
  <2>1. fs[s][Part(i)] # 0
    BY <1>2, DocumentNames DEF PartD
  <2> QED BY <1>2, <2>1 DEF IInv, Tidy
<1>3. CASE i # 0
  <2>1. i \in 1..Files
    BY <1>3
  <2>2. fs[s][Part(i)] # 0
    BY <2>1, DocumentNames
  <2> QED BY <1>3, <2>2 DEF IInv, Tidy
<1> QED BY <1>1, <1>2, <1>3

(* A step of the document that changes no file                             *)
LEMMA QuietDocument ==
  ASSUME IInv, Files \in Nat, UNCHANGED <<dir, policy, t, node, edits, blind, results, cancel, fs, victims>>,
         d' \in Document, broken' \in BOOLEAN, faults' \in Nat,
         broken' => faults' > 0, faults' = 0 => faults = 0, Saves',
         (\E x \in victims : x.by = "d") => d'.force = d.force /\ d'.seen = d.seen,
         faults' = 0 /\ d.pc \in DTidy => d'.pc \in DTidy
  PROVE  IInv'
<1>1. SfTypes'
  BY DEF IInv, SfTypes, Setting
<1>2. Sound(fs', Len(node)) /\ (NamesWhole => NamesWhole')
  BY DEF IInv, Nodes, NamesWhole, IsWhole, Sound
<1>3. Nodes' /\ Course' /\ Steps' /\ Wholes'
  BY <1>2, BesideBatch
<1>4. Tidy'
  <2>1. faults = 0 /\ fs["remote"][PartD] # 0 => d.pc \in DTidy
    <3>1. 0 \in 0..Files /\ "remote" \in Sides /\ ~(0 = t.file)
      BY DEF IInv, SfTypes, Batch, Sides
    <3> QED BY <3>1 DEF IInv, Tidy, DTidy, PartD
  <2> QED BY <2>1, BesideTidy
<1>5. NothingLost'
  BY DEF IInv, NothingLost
<1> QED BY <1>1, <1>3, <1>4, <1>5 DEF IInv

(* A move by the document, to a name that is free                          *)
LEMMA DocumentMoves ==
  ASSUME IInv, Files \in Nat, UNCHANGED <<dir, policy, t, node, edits, blind, results, cancel>>,
         NEW a \in {Edited, BackupD, PartD}, NEW b \in {Edited, BackupD}, a # b, NEW p \in BOOLEAN,
         MayMove("remote", a, b), Becomes(Move("remote", a, b), "d", p),
         d' \in Document, broken' \in BOOLEAN, faults' \in Nat,
         broken' => faults' > 0, faults' = 0 => faults = 0,
         d'.force = d.force, d'.seen = d.seen, d.pc # "closed",
         d'.pc \in {"place", "clean"} => fs'["remote"][BackupD] = fs["remote"][BackupD] /\ d.pc = "place",
         faults' = 0 /\ d.pc \in DTidy => d'.pc \in DTidy \/ a = PartD,
         d.pc \in DTidy, d'.pc # "closed"
  PROVE  IInv'
<1>0. /\ Edited \in Names /\ BackupD \in Names /\ PartD \in Names /\ "remote" \in Sides
      /\ Edited[1] # "part" /\ BackupD[1] # "part"
  BY DocumentNames
<1>1. Sound(fs, Len(node)) /\ Len(node) \in Nat /\ a \in Names /\ b \in Names /\ b[1] # "part"
  BY <1>0, LenProperties DEF IInv, Nodes, SfTypes
<1>2. fs["remote"][b] = 0 /\ fs' = Move("remote", a, b)
  BY DEF MayMove, Becomes
<1>3. /\ \A s \in Sides, m \in Names :
           fs'[s][m] = IF s = "remote" /\ m = b THEN fs["remote"][a] ELSE IF s = "remote" /\ m = a THEN 0 ELSE fs[s][m]
      /\ Sound(fs', Len(node))
  BY <1>0, <1>1, <1>2, MoveSound
<1>4. victims' = victims
  <2>1. Lost(Move("remote", a, b)) = {}
    BY <1>0, <1>1, <1>2, MoveLoses
  <2> QED BY <2>1 DEF Becomes
<1>5. NamesWhole => NamesWhole'
  <2>1. NamesWhole /\ fs["remote"][a] # 0 => IsWhole(fs["remote"][a])
    BY <1>0, <1>1 DEF NamesWhole
  <2> QED BY <1>0, <1>3, <2>1 DEF NamesWhole, IsWhole, PartD
<1>6. \A s \in Sides, m \in Names : s # "remote" \/ m \notin {Edited, BackupD, PartD} => fs'[s][m] = fs[s][m]
  BY <1>3
<1>7. Nodes' /\ Course' /\ Steps' /\ Wholes'
  BY <1>3, <1>5, <1>6, BesideBatch
<1>8. Tidy'
  <2>1. a = PartD => fs'["remote"][PartD] = 0
    BY <1>0, <1>3, DocumentNames
  <2> QED BY <1>6, <2>1, BesideTidy
<1>9. SfTypes'
  BY <1>4 DEF IInv, SfTypes, Setting
<1>10. Saves'
  BY <1>4 DEF IInv, Saves, Here, DTidy
<1>11. NothingLost'
  BY <1>4 DEF IInv, NothingLost
<1> QED BY <1>7, <1>8, <1>9, <1>10, <1>11 DEF IInv

(* The document is read.                                                   *)
LEMMA LoadStep ==
  ASSUME IInv, Files \in Nat, Load
  PROVE  IInv'
<1> DEFINE k == Here(Edited)
<1>1. /\ UNCHANGED <<dir, policy, t, node, edits, blind, results, cancel, fs, victims>>
      /\ d.pc = "closed" /\ d.seen = <<>> /\ k # 0 /\ Works("remote")
      /\ d' = [d EXCEPT !.pc = "editing", !.seen = node[k].half, !.out = "none"]
  BY DEF Load, Same, Editor, world
<1>2. broken' \in BOOLEAN /\ faults' \in Nat /\ (broken' => faults' > 0) /\ (faults' = 0 => faults = 0)
  BY <1>1, Requests DEF IInv
<1>3. node[k].half \in Seq(Content) /\ node[k].half # <<>>
  <2>1. Sound(fs, Len(node)) /\ Len(node) \in Nat /\ node \in Seq(NodeT) /\ Edited \in Names /\ "remote" \in Sides
    BY LenProperties, DocumentNames DEF IInv, Nodes, SfTypes
  <2>2. k \in Nat /\ k <= Len(node)
    BY <2>1 DEF Sound, Here
  <2>3. k \in 1..Len(node)
    BY <1>1, <2>1, <2>2
  <2>4. node[k] \in NodeT
    BY <2>1, <2>3, ElementOfSeq
  <2>5. node[k].half \in Seq(Content) /\ Len(node[k].half) = 2
    BY <2>4 DEF NodeT, Halves
  <2> QED BY <2>5, EmptySeq
<1> HIDE DEF k
<1>4. d' \in Document /\ d'.pc = "editing" /\ d'.seen = node[k].half
  BY <1>1, <1>3 DEF IInv, SfTypes, Document
<1>5. \A x \in victims : x.by # "d"
  BY <1>1 DEF IInv, Saves
<1>6. Saves'
  BY <1>1, <1>3, <1>4, <1>5 DEF Saves
<1> QED BY <1>1, <1>2, <1>4, <1>5, <1>6, QuietDocument DEF DTidy

(* The content that stepped aside is the one that was loaded, or the save  *)
(* is forced, or the original returns.                                     *)
LEMMA DVerifyStep ==
  ASSUME IInv, Files \in Nat, DVerify
  PROVE  IInv'
<1>1. /\ UNCHANGED <<dir, policy, t, node, edits, blind, results, cancel, fs, victims>>
      /\ d.pc = "verify" /\ (Works("remote") \/ Fails("remote"))
  BY DEF DVerify, Same, Editor, world
<1>2. broken' \in BOOLEAN /\ faults' \in Nat /\ (broken' => faults' > 0) /\ (faults' = 0 => faults = 0)
  BY <1>1, Requests DEF IInv
<1>3. d \in Document /\ d.seen # <<>> /\ \A x \in victims : x.by # "d"
  BY <1>1 DEF IInv, SfTypes, Saves
<1>4. /\ d' \in Document /\ d'.seen = d.seen /\ d'.force = d.force /\ d'.pc \in {"place", "restore"}
      /\ d'.pc = "place" => DVersionOk
  BY <1>3 DEF DVerify, DGoto, Document
<1>5. Saves'
  BY <1>1, <1>3, <1>4 DEF Saves, DVersionOk, Here
<1> QED BY <1>1, <1>2, <1>4, <1>5, QuietDocument DEF DTidy

(* The new version is read for the next save.                              *)
LEMMA DRereadStep ==
  ASSUME IInv, Files \in Nat, DReread
  PROVE  IInv'
<1>1. /\ UNCHANGED <<dir, policy, t, node, edits, blind, results, cancel, fs, victims>>
      /\ d.pc = "reread" /\ (Works("remote") \/ Fails("remote"))
  BY DEF DReread, Same, Editor, world
<1>2. broken' \in BOOLEAN /\ faults' \in Nat /\ (broken' => faults' > 0) /\ (faults' = 0 => faults = 0)
  BY <1>1, Requests DEF IInv
<1>3. d \in Document /\ d.seen # <<>>
  BY <1>1 DEF IInv, SfTypes, Saves
<1>4. d' \in Document /\ d'.seen = d.seen /\ d'.force = d.force /\ d'.pc = "closed"
  BY <1>3 DEF DReread, DEnds, Document
<1>5. Saves'
  BY <1>1, <1>3, <1>4 DEF Saves
<1> QED BY <1>1, <1>2, <1>4, <1>5, QuietDocument DEF DTidy

(* The original steps aside; the version under the name is the one to      *)
(* compare.                                                                *)
LEMMA DBackupStep ==
  ASSUME IInv, Files \in Nat, DBackup
  PROVE  IInv'
<1>1. /\ UNCHANGED <<dir, policy, t, node, edits, blind, results, cancel>>
      /\ d.pc = "backup" /\ (Works("remote") \/ Fails("remote"))
  BY DEF DBackup, Editor, world
<1>2. broken' \in BOOLEAN /\ faults' \in Nat /\ (broken' => faults' > 0) /\ (faults' = 0 => faults = 0)
  BY <1>1, Requests DEF IInv
<1>3. d \in Document /\ d.seen # <<>>
  BY <1>1 DEF IInv, SfTypes, Saves
<1>4. CASE /\ MayMove("remote", Edited, BackupD) /\ DGoto("verify")
           /\ Becomes(Move("remote", Edited, BackupD), "d", FALSE)
  <2>1. d' \in Document /\ d'.seen = d.seen /\ d'.force = d.force /\ d'.pc = "verify"
    BY <1>3, <1>4 DEF DGoto, Document
  <2>2. Edited # BackupD /\ FALSE \in BOOLEAN
    BY DocumentNames
  <2> QED BY <1>1, <1>2, <1>4, <2>1, <2>2, DocumentMoves DEF DTidy
<1>5. CASE Same /\ d' = [d EXCEPT !.pc = "drop", !.out = "error"]
  <2>1. d' \in Document /\ d'.seen = d.seen /\ d'.force = d.force /\ d'.pc = "drop"
    BY <1>3, <1>5 DEF Document
  <2>2. Saves'
    BY <1>1, <1>3, <1>5, <2>1 DEF IInv, Saves, Same
  <2> QED BY <1>1, <1>2, <1>5, <2>1, <2>2, QuietDocument DEF DTidy, Same
<1> QED BY <1>4, <1>5 DEF DBackup

(* The new version takes the name of the document.                         *)
LEMMA DPlaceStep ==
  ASSUME IInv, Files \in Nat, DPlace
  PROVE  IInv'
<1>1. /\ UNCHANGED <<dir, policy, t, node, edits, blind, results, cancel>>
      /\ d.pc = "place" /\ (Works("remote") \/ Fails("remote"))
  BY DEF DPlace, Editor, world
<1>2. broken' \in BOOLEAN /\ faults' \in Nat /\ (broken' => faults' > 0) /\ (faults' = 0 => faults = 0)
  BY <1>1, Requests DEF IInv
<1>3. d \in Document /\ d.seen # <<>>
  BY <1>1 DEF IInv, SfTypes, Saves
<1>4. CASE /\ MayMove("remote", PartD, Edited) /\ DGoto("clean")
           /\ Becomes(Move("remote", PartD, Edited), "d", TRUE)
  <2>1. d' \in Document /\ d'.seen = d.seen /\ d'.force = d.force /\ d'.pc = "clean"
    BY <1>3, <1>4 DEF DGoto, Document
  <2>2. Edited # PartD /\ TRUE \in BOOLEAN
    BY DocumentNames
  <2>3. fs'["remote"][BackupD] = fs["remote"][BackupD]
    <3>1. Sound(fs, Len(node)) /\ Len(node) \in Nat
      BY LenProperties DEF IInv, Nodes, SfTypes
    <3>2. \A s \in Sides, m \in Names : Move("remote", PartD, Edited)[s][m] =
             IF s = "remote" /\ m = Edited THEN fs["remote"][PartD] ELSE IF s = "remote" /\ m = PartD THEN 0 ELSE fs[s][m]
      <4>1. Edited \in Names /\ PartD \in Names /\ "remote" \in Sides /\ PartD # Edited
        BY DocumentNames
      <4>2. PICK r \in Sides : r = "remote"
        BY <4>1
      <4>3. \A s \in Sides, m \in Names : Move(r, PartD, Edited)[s][m] =
               IF s = r /\ m = Edited THEN fs[r][PartD] ELSE IF s = r /\ m = PartD THEN 0 ELSE fs[s][m]
        BY <3>1, <4>1, MoveSound
      <4> QED BY <4>2, <4>3
    <3>3. fs' = Move("remote", PartD, Edited)
      BY <1>4 DEF Becomes
    <3> QED BY <3>2, <3>3, DocumentNames
  <2> QED BY <1>1, <1>2, <1>4, <2>1, <2>2, <2>3, DocumentMoves DEF DTidy
<1>5. CASE Same /\ d' = [d EXCEPT !.pc = "restore", !.out = "error"]
  <2>1. d' \in Document /\ d'.seen = d.seen /\ d'.force = d.force /\ d'.pc = "restore"
    BY <1>3, <1>5 DEF Document
  <2>2. Saves'
    BY <1>1, <1>3, <1>5, <2>1 DEF IInv, Saves, Same
  <2> QED BY <1>1, <1>2, <1>5, <2>1, <2>2, QuietDocument DEF DTidy, Same
<1> QED BY <1>4, <1>5 DEF DPlace

(* The original returns, if its name is free.                              *)
LEMMA DRestoreStep ==
  ASSUME IInv, Files \in Nat, DRestore
  PROVE  IInv'
<1>1. /\ UNCHANGED <<dir, policy, t, node, edits, blind, results, cancel>>
      /\ d.pc = "restore" /\ (Works("remote") \/ Fails("remote"))
  BY DEF DRestore, Editor, world
<1>2. broken' \in BOOLEAN /\ faults' \in Nat /\ (broken' => faults' > 0) /\ (faults' = 0 => faults = 0)
  BY <1>1, Requests DEF IInv
<1>3. d \in Document /\ d.seen # <<>>
  BY <1>1 DEF IInv, SfTypes, Saves
<1>4. CASE /\ MayMove("remote", BackupD, Edited) /\ DGoto("drop")
           /\ Becomes(Move("remote", BackupD, Edited), "d", FALSE)
  <2>1. d' \in Document /\ d'.seen = d.seen /\ d'.force = d.force /\ d'.pc = "drop"
    BY <1>3, <1>4 DEF DGoto, Document
  <2>2. Edited # BackupD /\ FALSE \in BOOLEAN
    BY DocumentNames
  <2> QED BY <1>1, <1>2, <1>4, <2>1, <2>2, DocumentMoves DEF DTidy
<1>5. CASE Same /\ d' = [d EXCEPT !.pc = "drop", !.out = "error"]
  <2>1. d' \in Document /\ d'.seen = d.seen /\ d'.force = d.force /\ d'.pc = "drop"
    BY <1>3, <1>5 DEF Document
  <2>2. Saves'
    BY <1>1, <1>3, <1>5, <2>1 DEF IInv, Saves, Same
  <2> QED BY <1>1, <1>2, <1>5, <2>1, <2>2, QuietDocument DEF DTidy, Same
<1> QED BY <1>4, <1>5 DEF DRestore

(* A removal by the document                                               *)
LEMMA DocumentRemoves ==
  ASSUME IInv, Files \in Nat, UNCHANGED <<dir, policy, t, node, edits, blind, results, cancel>>,
         NEW n \in {BackupD, PartD}, NEW p \in BOOLEAN, Becomes(Put("remote", n, 0), "d", p),
         d' \in Document, broken' \in BOOLEAN, faults' \in Nat,
         broken' => faults' > 0, faults' = 0 => faults = 0,
         d'.force = d.force, d'.seen = d.seen, d.pc # "closed",
         n = BackupD => p /\ d.pc = "clean" /\ d'.pc = "reread",
         n = PartD => d.pc = "drop" /\ d'.pc = "closed"
  PROVE  IInv'
<1>0. /\ BackupD \in Names /\ PartD \in Names /\ "remote" \in Sides /\ PartD[1] = "part" /\ BackupD # PartD
  BY DocumentNames
<1>1. Sound(fs, Len(node)) /\ Len(node) \in Nat /\ n \in Names /\ node \in Seq(NodeT)
  BY <1>0, LenProperties DEF IInv, Nodes, SfTypes
<1>2. fs' = Put("remote", n, 0) /\ 0 \in Nat
  BY DEF Becomes
<1>3. /\ \A s \in Sides, m \in Names : fs'[s][m] = IF s = "remote" /\ m = n THEN 0 ELSE fs[s][m]
      /\ Sound(fs', Len(node))
  <2>1. PICK r \in Sides : r = "remote"
    BY <1>0
  <2>2. /\ \A q \in Sides, m \in Names : Put(r, n, 0)[q][m] = IF q = r /\ m = n THEN 0 ELSE fs[q][m]
        /\ Sound(Put(r, n, 0), Len(node))
    BY <1>1, <1>2, PutSound
  <2>3. fs' = Put(r, n, 0)
    BY <1>2, <2>1
  <2>4. /\ \A q \in Sides, m \in Names : fs'[q][m] = IF q = r /\ m = n THEN 0 ELSE fs[q][m]
        /\ Sound(fs', Len(node))
    BY <2>2, <2>3
  <2> QED BY <2>1, <2>4
<1>4. \A c \in Lost(Put("remote", n, 0)) : n = BackupD /\ fs["remote"][BackupD] # 0 /\ c = node[fs["remote"][BackupD]].half
  <2>1. \A c \in Lost(Put("remote", n, 0)) : n[1] # "part" /\ fs["remote"][n] # 0 /\ c = node[fs["remote"][n]].half
    BY <1>0, <1>1, <1>2, PutLoses
  <2> QED BY <1>0, <2>1
<1>5. fs["remote"][BackupD] # 0 => node[fs["remote"][BackupD]] \in NodeT
  <2>1. fs["remote"][BackupD] \in Nat /\ fs["remote"][BackupD] <= Len(node)
    BY <1>0, <1>1 DEF Sound
  <2>2. fs["remote"][BackupD] # 0 => fs["remote"][BackupD] \in 1..Len(node)
    BY <1>1, <2>1
  <2> QED BY <1>1, <2>2, ElementOfSeq
<1> DEFINE v == [by |-> "d", content |-> node[fs["remote"][BackupD]].half, placed |-> p]
<1>6. \A x \in victims' : x \in victims \/ (x = v /\ n = BackupD /\ fs["remote"][BackupD] # 0)
  BY <1>4 DEF Becomes
<1>7. NamesWhole => NamesWhole'
  BY <1>0, <1>3 DEF NamesWhole, IsWhole, PartD
<1>8. \A s \in Sides, m \in Names : s # "remote" \/ m \notin {Edited, BackupD, PartD} => fs'[s][m] = fs[s][m]
  BY <1>3
<1>9. Nodes' /\ Course' /\ Steps' /\ Wholes'
  BY <1>3, <1>7, <1>8, BesideBatch
<1>10. Tidy'
  <2>1. faults' = 0 => fs'["remote"][PartD] = 0
    <3>1. CASE n = PartD
      BY <1>0, <1>3, <3>1
    <3>2. CASE n = BackupD
      <4>1. 0 \in 0..Files /\ ~(0 = t.file) /\ d.pc \notin DTidy
        BY <3>2 DEF IInv, SfTypes, Batch, DTidy
      <4> QED BY <1>0, <1>3, <4>1 DEF IInv, Tidy, DTidy, PartD
    <3> QED BY <3>1, <3>2
  <2> QED BY <1>8, <2>1, BesideTidy
<1>11. SfTypes'
  <2>1. \A x \in victims' : x \in Victim
    <3> TAKE x \in victims'
    <3>1. CASE x \in victims
      BY <3>1 DEF IInv, SfTypes
    <3>2. CASE x = v /\ fs["remote"][BackupD] # 0
      BY <1>5, <3>2 DEF Victim, NodeT
    <3> QED BY <1>6, <3>1, <3>2
  <2> QED BY <2>1 DEF IInv, SfTypes, Setting
<1> HIDE DEF v
<1>12. Saves'
  <2>1. d.seen # <<>> /\ d'.pc \in {"reread", "closed"}
    BY DEF IInv, Saves
  <2>2. \A x \in victims' : x.by = "d" => d'.pc \in {"closed", "reread"} /\ d'.seen # <<>>
    BY <2>1
  <2> QED BY <2>1, <2>2 DEF Saves
<1>13. NothingLost'
  <2> SUFFICES ASSUME NEW x \in victims'
               PROVE  /\ x.placed \/ (dir = "down" /\ x.content[1][1] = "edit")
                      /\ x.by = "t" => policy = "replace"
                      /\ x.by = "d" => d.force \/ x.content = d.seen
    BY DEF NothingLost
  <2>1. CASE x \in victims
    BY <2>1 DEF IInv, NothingLost
  <2>2. CASE x = v /\ n = BackupD /\ fs["remote"][BackupD] # 0
    <3>1. d.force \/ node[fs["remote"][BackupD]].half = d.seen
      BY <2>2 DEF IInv, Saves, Here
    <3> QED BY <2>2, <3>1 DEF v
  <2> QED BY <1>6, <2>1, <2>2
<1> QED BY <1>9, <1>10, <1>11, <1>12, <1>13 DEF IInv

(* The version that was loaded, or overwritten by force, goes.             *)
LEMMA DCleanStep ==
  ASSUME IInv, Files \in Nat, DClean
  PROVE  IInv'
<1>1. /\ UNCHANGED <<dir, policy, t, node, edits, blind, results, cancel>>
      /\ d.pc = "clean" /\ (Works("remote") \/ Fails("remote"))
  BY DEF DClean, Editor, world
<1>2. broken' \in BOOLEAN /\ faults' \in Nat /\ (broken' => faults' > 0) /\ (faults' = 0 => faults = 0)
  BY <1>1, Requests DEF IInv
<1>3. d \in Document /\ d.seen # <<>>
  BY <1>1 DEF IInv, SfTypes, Saves
<1>4. d' \in Document /\ d'.seen = d.seen /\ d'.force = d.force /\ d'.pc = "reread"
  BY <1>3 DEF DClean, DGoto, Document
<1>5. CASE Becomes(Put("remote", BackupD, 0), "d", TRUE)
  <2>1. BackupD # PartD /\ TRUE \in BOOLEAN
    BY DocumentNames
  <2> QED BY <1>1, <1>2, <1>4, <1>5, <2>1, DocumentRemoves
<1>6. CASE Same
  <2>1. Saves'
    BY <1>1, <1>3, <1>4, <1>6 DEF IInv, Saves, Same
  <2> QED BY <1>1, <1>2, <1>4, <1>6, <2>1, QuietDocument DEF DTidy, Same
<1> QED BY <1>5, <1>6 DEF DClean

(* The temporary file of the editor goes.                                  *)
LEMMA DDropStep ==
  ASSUME IInv, Files \in Nat, DDrop
  PROVE  IInv'
<1>1. /\ UNCHANGED <<dir, policy, t, node, edits, blind, results, cancel>>
      /\ d.pc = "drop" /\ (Works("remote") \/ Fails("remote"))
  BY DEF DDrop, Editor, world
<1>2. broken' \in BOOLEAN /\ faults' \in Nat /\ (broken' => faults' > 0) /\ (faults' = 0 => faults = 0)
  BY <1>1, Requests DEF IInv
<1>3. d \in Document /\ d.seen # <<>>
  BY <1>1 DEF IInv, SfTypes, Saves
<1>4. d' \in Document /\ d'.seen = d.seen /\ d'.force = d.force /\ d'.pc = "closed"
  BY <1>3 DEF DDrop, DEnds, Document
<1>5. CASE Becomes(Put("remote", PartD, 0), "d", FALSE)
  <2>1. BackupD # PartD /\ FALSE \in BOOLEAN
    BY DocumentNames
  <2> QED BY <1>1, <1>2, <1>4, <1>5, <2>1, DocumentRemoves
<1>6. CASE Same /\ Fails("remote")
  <2>1. Saves'
    BY <1>1, <1>3, <1>4, <1>6 DEF IInv, Saves, Same
  <2>2. faults' > 0
    BY <1>6, Requests DEF IInv
  <2> QED BY <1>1, <1>2, <1>4, <1>6, <2>1, <2>2, QuietDocument DEF Same
<1> QED BY <1>5, <1>6 DEF DDrop

(* A file that is created                                                  *)
LEMMA NewNode ==
  ASSUME IInv, Files \in Nat, NEW s \in Sides, NEW n \in Names, NEW x \in NodeT,
         node' = Append(node, x), fs' = Put(s, n, Len(node) + 1), edits' \in Nat, edits <= edits',
         x.look < 3 + edits', t' = t, x.half[1] = x.half[2]
  PROVE  /\ \A q \in Sides, m \in Names : fs'[q][m] = IF q = s /\ m = n THEN Len(node) + 1 ELSE fs[q][m]
         /\ \A q \in Sides, m \in Names : fs[q][m] # 0 => fs[q][m] \in 1..Len(node)
         /\ node' \in Seq(NodeT) /\ Len(node') = Len(node) + 1 /\ Len(node) \in Nat
         /\ node'[Len(node) + 1] = x /\ \A j \in 1..Len(node) : node'[j] = node[j]
         /\ Nodes' /\ (NamesWhole => NamesWhole')
<1> DEFINE L == Len(node)
<1>1. Sound(fs, L) /\ L \in Nat /\ L + 1 \in Nat /\ node \in Seq(NodeT)
  BY LenProperties DEF IInv, Nodes, SfTypes
<1>2. /\ node' \in Seq(NodeT) /\ Len(node') = L + 1 /\ node'[L + 1] = x
      /\ \A j \in 1..L : node'[j] = node[j]
  BY <1>1, AppendProperties
<1>3. /\ \A q \in Sides, m \in Names : fs'[q][m] = IF q = s /\ m = n THEN L + 1 ELSE fs[q][m]
      /\ Sound(fs', L + 1)
  <2>1. /\ \A y \in Nat : \A q \in Sides, m \in Names : Put(s, n, y)[q][m] = IF q = s /\ m = n THEN y ELSE fs[q][m]
        /\ Sound(Put(s, n, L + 1), L + 1)
    BY <1>1, PutSound
  <2> QED BY <1>1, <2>1
<1>4. \A q \in Sides, m \in Names : fs[q][m] # 0 => fs[q][m] \in 1..L
  <2>1. \A q \in Sides, m \in Names : fs[q][m] \in Nat /\ fs[q][m] <= L
    BY <1>1 DEF Sound
  <2> QED BY <1>1, <2>1
<1>5. \A j \in 1..(L + 1) : node'[j].look < 3 + edits'
  <2> SUFFICES ASSUME NEW j \in 1..(L + 1) PROVE node'[j].look < 3 + edits'
    OBVIOUS
  <2>1. CASE j = L + 1
    BY <1>2, <2>1
  <2>2. CASE j \in 1..L
    <3>1. node[j] \in NodeT /\ node[j].look < 3 + edits /\ node'[j] = node[j]
      BY <1>1, <1>2, <2>2, ElementOfSeq DEF IInv, Nodes
    <3>2. edits \in Nat
      BY DEF IInv, SfTypes
    <3> QED BY <3>1, <3>2 DEF NodeT
  <2> QED BY <1>1, <2>1, <2>2
<1>6. t'.look < 3 + edits'
  <2>1. t.look \in Nat /\ t.look < 3 + edits /\ edits \in Nat
    BY DEF IInv, SfTypes, Batch, Nodes
  <2> QED BY <2>1
<1>7. Nodes'
  BY <1>2, <1>3, <1>5, <1>6 DEF Nodes
<1>8. ASSUME NamesWhole PROVE NamesWhole'
  <2> SUFFICES ASSUME NEW q \in Sides, NEW m \in Names, fs'[q][m] # 0, m[1] = "part" => m = PartD
               PROVE  node'[fs'[q][m]].half[1] = node'[fs'[q][m]].half[2]
    BY DEF NamesWhole, IsWhole, PartD
  <2>1. CASE q = s /\ m = n
    BY <1>2, <1>3, <2>1
  <2>2. CASE ~(q = s /\ m = n)
    <3>1. fs'[q][m] = fs[q][m] /\ fs[q][m] \in 1..L
      BY <1>3, <1>4, <2>2
    <3>2. IsWhole(fs[q][m])
      BY <1>8, <3>1 DEF NamesWhole
    <3> QED BY <1>2, <3>1, <3>2 DEF IsWhole
  <2> QED BY <2>1, <2>2
<1> QED BY <1>1, <1>2, <1>3, <1>4, <1>7, <1>8

(* The batch sees only its own names                                       *)
LEMMA Grown ==
  ASSUME IInv, Files \in Nat, UNCHANGED <<dir, policy, t, results, blind>>,
         Len(node') \in Nat, Len(node) <= Len(node'), \A j \in 1..Len(node) : node'[j] = node[j],
         Nodes', NamesWhole => NamesWhole',
         \A i \in 1..Files : fs'[To][Part(i)] = fs[To][Part(i)] /\ fs'[To][Backup(i)] = fs[To][Backup(i)],
         dir = "down" => \/ fs'[To][Doc] \in {fs[To][Doc], 0}
                         \/ node'[fs'[To][Doc]].half[1][1] = "edit"
  PROVE  Course' /\ Steps' /\ Wholes'
<1>0. To' = To /\ To \in Sides /\ (dir = "down" => To = "local") /\ PartT' = PartT /\ BackupT' = BackupT
  BY Ends DEF IInv, SfTypes, Setting, PartT, BackupT
<1>1. t.pc \notin {"next", "done"} => /\ fs'[To][PartT] = fs[To][PartT] /\ fs'[To][BackupT] = fs[To][BackupT]
                                      /\ PartT \in Names
  BY <1>0, BatchNames DEF PartT, BackupT
<1>2. \A q \in Sides, m \in Names : fs[q][m] # 0 => fs[q][m] \in 1..Len(node)
  <2>1. Len(node) \in Nat
    BY LenProperties DEF IInv, SfTypes
  <2>2. \A q \in Sides, m \in Names : fs[q][m] \in Nat /\ fs[q][m] <= Len(node)
    BY DEF IInv, Nodes, Sound
  <2> QED BY <2>1, <2>2
<1>3. Course'
  <2>1. Len(node) \in Nat
    BY LenProperties DEF IInv, SfTypes
  <2>2. t.pc \in {"copy", "verify"} => fs'[To][PartT] = t.tmp /\ t.tmp # 0 /\ t.h \in 1..Len(node')
    BY <1>1, <2>1 DEF IInv, Course
  <2> QED BY <1>0, <2>2 DEF IInv, Course
<1>4. Steps'
  <2>1. ASSUME t.pc \in {"place", "rollback"}, dir = "down", fs'[To][BackupT] # 0
        PROVE  fs'[To][Doc] = 0 \/ node'[fs'[To][Doc]].half[1][1] = "edit"
    <3>1. fs[To][Doc] = 0 \/ node[fs[To][Doc]].half[1][1] = "edit"
      BY <1>1, <2>1 DEF IInv, Steps
    <3>2. fs[To][Doc] # 0 => node'[fs[To][Doc]] = node[fs[To][Doc]]
      BY <1>0, <1>2, Naming
    <3> QED BY <2>1, <3>1, <3>2
  <2>2. \A i \in 1..Files :
       i > t.file \/ (i = t.file /\ t.pc \notin {"place", "rollback", "clean", "drop", "result"}) =>
         fs'[To][Backup(i)] = 0
    BY DEF IInv, Steps
  <2> QED BY <1>0, <2>1, <2>2 DEF Steps
<1>5. BatchWhole => BatchWhole'
  <2>1. t.pc \in {"copy", "verify"} => /\ node'[t.h] = node[t.h] /\ t.tmp \in 1..Len(node)
                                       /\ node'[t.tmp] = node[t.tmp]
    <3>1. t.pc \in {"copy", "verify"} => t.h \in 1..Len(node) /\ fs[To][PartT] = t.tmp /\ t.tmp # 0
      BY DEF IInv, Course
    <3> QED BY <1>0, <1>1, <1>2, <3>1
  <2>2. t.pc \notin {"next", "done"} /\ fs[To][PartT] # 0 => node'[fs[To][PartT]] = node[fs[To][PartT]]
    BY <1>0, <1>1, <1>2
  <2> QED BY <1>0, <1>1, <2>1, <2>2 DEF BatchWhole, IsWhole
<1>6. Wholes'
  BY <1>5 DEF IInv, Wholes
<1> QED BY <1>3, <1>4, <1>6

(* A save compares the version, then writes its temporary file.            *)
LEMMA SaveStep ==
  ASSUME IInv, Files \in Nat, Save
  PROVE  IInv'
<1>1. /\ UNCHANGED <<dir, policy, t, edits, blind, results, cancel>>
      /\ d.pc = "editing" /\ (Works("remote") \/ Fails("remote"))
  BY DEF Save, Editor, world
<1>2. broken' \in BOOLEAN /\ faults' \in Nat /\ (broken' => faults' > 0) /\ (faults' = 0 => faults = 0)
  BY <1>1, Requests DEF IInv
<1>3. d \in Document /\ d.seen # <<>> /\ \A x \in victims : x.by # "d"
  BY <1>1 DEF IInv, SfTypes, Saves
<1>4. ASSUME NEW out \in {"conflict", "error"}, DEnds(out), Same, node' = node
      PROVE  IInv'
  <2>1. d' \in Document /\ d'.seen = d.seen /\ d'.force = d.force /\ d'.pc = "closed"
    BY <1>3, <1>4 DEF DEnds, Document
  <2>2. Saves'
    BY <1>3, <1>4, <2>1 DEF Saves, Same
  <2> QED BY <1>1, <1>2, <1>3, <1>4, <2>1, <2>2, QuietDocument DEF DTidy, Same
<1> DEFINE y == Whole(<<"mine", 0>>, 2)
<1>5. ASSUME NEW force \in BOOLEAN, node' = Append(node, y), Becomes(Put("remote", PartD, Len(node) + 1), "d", FALSE),
             d' = [d EXCEPT !.pc = "backup", !.force = force]
      PROVE  IInv'
  <2>1. d' \in Document /\ d'.seen = d.seen /\ d'.force = force /\ d'.pc = "backup"
    BY <1>3, <1>5 DEF Document
  <2>2. y \in NodeT /\ y.look < 3 + edits' /\ y.half[1] = y.half[2]
    BY <1>1 DEF Whole, NodeT, Halves, Content, IInv, SfTypes
  <2> HIDE DEF y
  <2>3. /\ PartD \in Names /\ BackupD \in Names /\ "remote" \in Sides /\ PartD[1] = "part" /\ BackupD # PartD
        /\ Doc \in Names /\ Doc # PartD
        /\ \A i \in 1..Files : /\ Part(i) \in Names /\ Part(i) # PartD
                               /\ Backup(i) \in Names /\ Backup(i) # PartD
    <3>1. Doc[1] # "part" /\ 0 \in Nat
      BY Naming
    <3> QED BY <3>1, DocumentNames
  <2>4. PICK r \in Sides : r = "remote"
    BY <2>3
  <2>5. Sound(fs, Len(node)) /\ Len(node) \in Nat /\ Len(node) + 1 \in Nat
    BY LenProperties DEF IInv, SfTypes, Nodes
  <2>6. fs' = Put(r, PartD, Len(node) + 1) /\ victims' = victims
    <3>1. \A c \in Lost(Put(r, PartD, Len(node) + 1)) : PartD[1] # "part"
      BY <2>3, <2>5, PutLoses
    <3>2. Lost(Put("remote", PartD, Len(node) + 1)) = {}
      BY <2>3, <2>4, <3>1
    <3> QED BY <1>5, <2>4, <3>2 DEF Becomes
  <2>7. edits' \in Nat /\ edits <= edits'
    BY <1>1 DEF IInv, SfTypes
  <2>8. /\ \A q \in Sides, m \in Names : fs'[q][m] = IF q = r /\ m = PartD THEN Len(node) + 1 ELSE fs[q][m]
        /\ \A q \in Sides, m \in Names : fs[q][m] # 0 => fs[q][m] \in 1..Len(node)
        /\ node' \in Seq(NodeT) /\ Len(node') = Len(node) + 1 /\ Len(node) \in Nat
        /\ \A j \in 1..Len(node) : node'[j] = node[j]
        /\ Nodes' /\ (NamesWhole => NamesWhole')
    BY <1>1, <1>5, <2>2, <2>3, <2>6, <2>7, NewNode
  <2>9. Course' /\ Steps' /\ Wholes'
    <3>1. To \in Sides
      BY Ends DEF IInv, SfTypes, Setting
    <3>2. \A i \in 1..Files : fs'[To][Part(i)] = fs[To][Part(i)] /\ fs'[To][Backup(i)] = fs[To][Backup(i)]
      BY <2>3, <2>8, <3>1
    <3>3. fs'[To][Doc] = fs[To][Doc]
      BY <2>3, <2>8, <3>1
    <3>4. Len(node') \in Nat /\ Len(node) <= Len(node')
      BY <2>8
    <3> QED BY <1>1, <2>8, <3>2, <3>3, <3>4, Grown
  <2>10. SfTypes'
    BY <1>1, <1>2, <2>1, <2>6, <2>8 DEF IInv, SfTypes, Setting
  <2>11. Saves'
    BY <1>3, <2>1, <2>6 DEF Saves
  <2>12. Tidy'
    <3>1. \A s \in Sides, m \in Names : s # "remote" \/ m \notin {Edited, BackupD, PartD} => fs'[s][m] = fs[s][m]
      BY <2>4, <2>8
    <3> QED BY <1>1, <1>2, <2>1, <3>1, BesideTidy DEF DTidy
  <2>13. NothingLost'
    BY <1>1, <1>3, <2>6 DEF IInv, NothingLost
  <2> QED BY <2>8, <2>9, <2>10, <2>11, <2>12, <2>13 DEF IInv
<1> QED BY <1>4, <1>5 DEF Save

(* What another program can reach                                          *)
LEMMA Reach ==
  ASSUME IInv, Files \in Nat, NEW s \in Sides, NEW n \in {Doc, Src(1), Copy(1)}
  PROVE  /\ n \in Names /\ n[1] # "part" /\ n # BackupD
         /\ \A i \in 0..Files : Part(i) \in Names /\ Part(i) # n /\ Backup(i) \in Names /\ Backup(i) # n
         /\ BackupD \in Names /\ Doc \in Names /\ n # PartD
<1>1. t.files \in 1..Files
  BY DEF IInv, SfTypes, Batch
<1>2. 1 \in 1..Files /\ 0 \in 0..Files /\ 1 \in 0..2 /\ 0 \in 0..2 /\ \A i \in 0..Files : i \in Nat
  BY <1>1
<1>3. Doc = Copy(0) /\ BackupD = Backup(0) /\ PartD = Part(0)
  BY Naming DEF BackupD, PartD
<1> QED BY <1>2, <1>3, Naming

(* Another program keeps the invariant if what it leaves is sound and it   *)
(* does not touch the temporary files and the backup of the editor.        *)
LEMMA OthersLeave ==
  ASSUME IInv, Files \in Nat, Meddle, node' \in Seq(NodeT), blind' \in BOOLEAN,
         Nodes', Course', Steps', Wholes',
         Here(BackupD)' = Here(BackupD), Here(BackupD) # 0 => node'[Here(BackupD)].half = node[Here(BackupD)].half,
         \A s \in Sides, i \in 0..Files : fs'[s][Part(i)] = fs[s][Part(i)]
  PROVE  IInv'
<1>1. UNCHANGED <<dir, policy, cancel, t, results, d, victims, faults, broken>> /\ edits' = edits + 1
  BY DEF Meddle
<1>2. SfTypes'
  <2>1. edits' \in Nat
    BY <1>1 DEF IInv, SfTypes
  <2> QED BY <1>1, <2>1 DEF IInv, SfTypes, Setting
<1>3. Saves'
  BY <1>1 DEF IInv, Saves
<1>4. Tidy'
  <2>1. To' = To
    BY <1>1, Ends DEF IInv, SfTypes, Setting
  <2> QED BY <1>1, <2>1 DEF IInv, Tidy
<1>5. NothingLost'
  BY <1>1 DEF IInv, NothingLost
<1> QED BY <1>2, <1>3, <1>4, <1>5 DEF IInv

(* Another program creates a file.                                         *)
LEMMA NewFileStep ==
  ASSUME IInv, Files \in Nat, NEW s \in Sides, NEW n \in {Doc, Src(1)}, NewFile(s, n)
  PROVE  IInv'
<1> DEFINE y == Whole(<<"edit", edits>>, 3 + edits)
<1>1. /\ UNCHANGED <<dir, policy, cancel, t, results, d, victims, faults, broken, blind>> /\ edits' = edits + 1
      /\ node' = Append(node, y) /\ fs' = Put(s, n, Len(node) + 1) /\ fs[s][n] = 0
  BY DEF NewFile, Meddle
<1>2. edits \in Nat /\ edits' \in Nat /\ edits <= edits'
  BY <1>1 DEF IInv, SfTypes
<1>3. y \in NodeT /\ y.look < 3 + edits' /\ y.half[1] = y.half[2] /\ y.half[1][1] = "edit"
  BY <1>1, <1>2 DEF Whole, NodeT, Halves, Content
<1> HIDE DEF y
<1>4. /\ n \in Names /\ n[1] # "part" /\ n # BackupD /\ n # PartD
      /\ \A i \in 0..Files : Part(i) \in Names /\ Part(i) # n /\ Backup(i) \in Names /\ Backup(i) # n
      /\ BackupD \in Names /\ Doc \in Names
  BY Reach
<1>5. /\ \A q \in Sides, m \in Names : fs'[q][m] = IF q = s /\ m = n THEN Len(node) + 1 ELSE fs[q][m]
      /\ \A q \in Sides, m \in Names : fs[q][m] # 0 => fs[q][m] \in 1..Len(node)
      /\ node' \in Seq(NodeT) /\ Len(node') = Len(node) + 1 /\ Len(node) \in Nat
      /\ node'[Len(node) + 1] = y /\ \A j \in 1..Len(node) : node'[j] = node[j]
      /\ Nodes' /\ (NamesWhole => NamesWhole')
  BY <1>1, <1>2, <1>3, <1>4, NewNode
<1>6. To \in Sides /\ \A i \in 1..Files : i \in 0..Files
  BY Ends DEF IInv, SfTypes, Setting
<1>7. Course' /\ Steps' /\ Wholes'
  <2>1. \A i \in 1..Files : fs'[To][Part(i)] = fs[To][Part(i)] /\ fs'[To][Backup(i)] = fs[To][Backup(i)]
    BY <1>4, <1>5, <1>6
  <2>2. fs'[To][Doc] = fs[To][Doc] \/ node'[fs'[To][Doc]].half[1][1] = "edit"
    BY <1>3, <1>4, <1>5, <1>6
  <2>3. Len(node') \in Nat /\ Len(node) <= Len(node')
    BY <1>5
  <2> QED BY <1>1, <1>5, <2>1, <2>2, <2>3, Grown
<1>8. "remote" \in Sides
  BY DEF Sides
<1>9. Here(BackupD)' = Here(BackupD) /\ (Here(BackupD) # 0 => node'[Here(BackupD)].half = node[Here(BackupD)].half)
  BY <1>4, <1>5, <1>8 DEF Here
<1>10. \A q \in Sides, i \in 0..Files : fs'[q][Part(i)] = fs[q][Part(i)]
  BY <1>4, <1>5
<1>11. blind' \in BOOLEAN /\ Meddle
  BY <1>1 DEF IInv, SfTypes, NewFile
<1> QED BY <1>5, <1>7, <1>9, <1>10, <1>11, OthersLeave

(* Another program deletes a file: that is its own doing, nothing counts as*)
(* lost.                                                                   *)
LEMMA DeleteStep ==
  ASSUME IInv, Files \in Nat, NEW s \in Sides, NEW n \in {Doc, Src(1)}, Delete(s, n)
  PROVE  IInv'
<1>1. /\ UNCHANGED <<dir, policy, cancel, t, results, d, victims, faults, broken, blind, node>> /\ edits' = edits + 1
      /\ fs' = Put(s, n, 0)
  BY DEF Delete, Meddle
<1>2. edits \in Nat /\ edits' \in Nat /\ edits <= edits'
  BY <1>1 DEF IInv, SfTypes
<1>4. /\ n \in Names /\ n[1] # "part" /\ n # BackupD /\ n # PartD
      /\ \A i \in 0..Files : Part(i) \in Names /\ Part(i) # n /\ Backup(i) \in Names /\ Backup(i) # n
      /\ BackupD \in Names /\ Doc \in Names
  BY Reach
<1>5. /\ \A q \in Sides, m \in Names : fs'[q][m] = IF q = s /\ m = n THEN 0 ELSE fs[q][m]
      /\ Sound(fs', Len(node)) /\ Len(node) \in Nat /\ node \in Seq(NodeT)
  <2>1. Sound(fs, Len(node)) /\ Len(node) \in Nat /\ 0 \in Nat /\ node \in Seq(NodeT)
    BY LenProperties DEF IInv, SfTypes, Nodes
  <2>2. /\ \A y \in Nat : \A q \in Sides, m \in Names : Put(s, n, y)[q][m] = IF q = s /\ m = n THEN y ELSE fs[q][m]
        /\ Sound(Put(s, n, 0), Len(node))
    BY <1>4, <2>1, PutSound
  <2> QED BY <1>1, <2>1, <2>2
<1>6. Nodes'
  <2>1. \A j \in 1..Len(node) : node[j] \in NodeT /\ node[j].look < 3 + edits
    BY <1>5, ElementOfSeq DEF IInv, Nodes
  <2>2. \A j \in 1..Len(node) : node[j].look < 3 + edits'
    BY <1>1, <1>2, <2>1 DEF NodeT
  <2>3. t.look < 3 + edits'
    BY <1>1, <1>2 DEF IInv, SfTypes, Batch, Nodes
  <2> QED BY <1>1, <1>5, <2>2, <2>3 DEF Nodes
<1>7. NamesWhole => NamesWhole'
  BY <1>1, <1>5 DEF NamesWhole, IsWhole, PartD
<1>8. To \in Sides /\ \A i \in 1..Files : i \in 0..Files
  BY Ends DEF IInv, SfTypes, Setting
<1>9. Course' /\ Steps' /\ Wholes'
  <2>1. \A i \in 1..Files : fs'[To][Part(i)] = fs[To][Part(i)] /\ fs'[To][Backup(i)] = fs[To][Backup(i)]
    BY <1>4, <1>5, <1>8
  <2>2. fs'[To][Doc] \in {fs[To][Doc], 0}
    BY <1>4, <1>5, <1>8
  <2>3. Len(node') \in Nat /\ Len(node) <= Len(node') /\ \A j \in 1..Len(node) : node'[j] = node[j]
    BY <1>1, <1>5
  <2> QED BY <1>1, <1>6, <1>7, <2>1, <2>2, <2>3, Grown
<1>10. "remote" \in Sides
  BY DEF Sides
<1>11. Here(BackupD)' = Here(BackupD) /\ (Here(BackupD) # 0 => node'[Here(BackupD)].half = node[Here(BackupD)].half)
  BY <1>1, <1>4, <1>5, <1>10 DEF Here
<1>12. \A q \in Sides, i \in 0..Files : fs'[q][Part(i)] = fs[q][Part(i)]
  BY <1>4, <1>5
<1>13. blind' \in BOOLEAN /\ Meddle /\ node' \in Seq(NodeT)
  BY <1>1 DEF IInv, SfTypes, Delete
<1> QED BY <1>6, <1>9, <1>11, <1>12, <1>13, OthersLeave

(* Another program renames the document.                                   *)
LEMMA RenameStep ==
  ASSUME IInv, Files \in Nat, Rename
  PROVE  IInv'
<1>1. /\ UNCHANGED <<dir, policy, cancel, t, results, d, victims, faults, broken, blind, node>> /\ edits' = edits + 1
      /\ fs' = Move("remote", Edited, Copy(1)) /\ fs["remote"][Copy(1)] = 0
  BY DEF Rename, Meddle, MayMove
<1>2. edits \in Nat /\ edits' \in Nat /\ edits <= edits'
  BY <1>1 DEF IInv, SfTypes
<1>3. "remote" \in Sides /\ Edited \in {Doc, Src(1)} /\ Edited # Copy(1)
  <2>1. 0 \in Nat /\ 1 \in Nat
    OBVIOUS
  <2> QED BY <2>1, Naming DEF Edited, Sides
<1>4. \A n \in {Edited, Copy(1)} :
      /\ n \in Names /\ n[1] # "part" /\ n # BackupD /\ n # PartD
      /\ \A i \in 0..Files : Part(i) \in Names /\ Part(i) # n /\ Backup(i) \in Names /\ Backup(i) # n
      /\ BackupD \in Names /\ Doc \in Names
  BY <1>3, Reach
<1>5. /\ \A q \in Sides, m \in Names : fs'[q][m] = IF q = "remote" /\ m = Copy(1) THEN fs["remote"][Edited]
                                                   ELSE IF q = "remote" /\ m = Edited THEN 0 ELSE fs[q][m]
      /\ Sound(fs', Len(node)) /\ Len(node) \in Nat /\ node \in Seq(NodeT)
  <2>1. Sound(fs, Len(node)) /\ Len(node) \in Nat /\ 0 \in Nat /\ node \in Seq(NodeT)
    BY LenProperties DEF IInv, SfTypes, Nodes
  <2>2. PICK r \in Sides : r = "remote"
    BY <1>3
  <2>3. Edited \in Names /\ Copy(1) \in Names
    BY <1>4
  <2>4. /\ \A q \in Sides, m \in Names : Move(r, Edited, Copy(1))[q][m] =
              IF q = r /\ m = Copy(1) THEN fs[r][Edited] ELSE IF q = r /\ m = Edited THEN 0 ELSE fs[q][m]
        /\ Sound(Move(r, Edited, Copy(1)), Len(node))
    BY <1>3, <2>1, <2>3, MoveSound
  <2> QED BY <1>1, <2>1, <2>2, <2>4
<1>6. Nodes'
  <2>1. \A j \in 1..Len(node) : node[j] \in NodeT /\ node[j].look < 3 + edits
    BY <1>5, ElementOfSeq DEF IInv, Nodes
  <2>2. \A j \in 1..Len(node) : node[j].look < 3 + edits'
    BY <1>1, <1>2, <2>1 DEF NodeT
  <2>3. t.look < 3 + edits'
    BY <1>1, <1>2 DEF IInv, SfTypes, Batch, Nodes
  <2> QED BY <1>1, <1>5, <2>2, <2>3 DEF Nodes
<1>7. NamesWhole => NamesWhole'
  <2>1. NamesWhole /\ fs["remote"][Edited] # 0 => IsWhole(fs["remote"][Edited])
    BY <1>3, <1>4 DEF NamesWhole
  <2> QED BY <1>1, <1>5, <2>1 DEF NamesWhole, IsWhole, PartD
<1>8. To \in Sides /\ (\A i \in 1..Files : i \in 0..Files) /\ (dir = "down" => To = "local")
  BY Ends DEF IInv, SfTypes, Setting
<1>9. Course' /\ Steps' /\ Wholes'
  <2>1. \A i \in 1..Files : fs'[To][Part(i)] = fs[To][Part(i)] /\ fs'[To][Backup(i)] = fs[To][Backup(i)]
    BY <1>4, <1>5, <1>8
  <2>2. dir = "down" => fs'[To][Doc] \in {fs[To][Doc], 0}
    BY <1>4, <1>5, <1>8
  <2>3. Len(node') \in Nat /\ Len(node) <= Len(node') /\ \A j \in 1..Len(node) : node'[j] = node[j]
    BY <1>1, <1>5
  <2> QED BY <1>1, <1>6, <1>7, <2>1, <2>2, <2>3, Grown
<1>11. Here(BackupD)' = Here(BackupD) /\ (Here(BackupD) # 0 => node'[Here(BackupD)].half = node[Here(BackupD)].half)
  BY <1>1, <1>3, <1>4, <1>5 DEF Here
<1>12. \A q \in Sides, i \in 0..Files : fs'[q][Part(i)] = fs[q][Part(i)]
  BY <1>4, <1>5
<1>13. blind' \in BOOLEAN /\ Meddle /\ node' \in Seq(NodeT)
  BY <1>1 DEF IInv, SfTypes, Rename
<1> QED BY <1>6, <1>9, <1>11, <1>12, <1>13, OthersLeave

(* Another program edits a file in place, perhaps with the same size and   *)
(* time.                                                                   *)
LEMMA EditStep ==
  ASSUME IInv, Files \in Nat, NEW s \in Sides, NEW n \in {Doc, Src(1)}, EditInPlace(s, n)
  PROVE  IInv'
<1> DEFINE k == fs[s][n]
           L == Len(node)
<1>0. PICK same \in BOOLEAN :
        /\ node' = [node EXCEPT ![k] = Whole(<<"edit", edits>>, IF same THEN @.look ELSE 3 + edits)]
        /\ blind' = (blind \/ same)
  BY DEF EditInPlace
<1>1. /\ UNCHANGED <<dir, policy, cancel, t, results, d, victims, faults, broken, fs>> /\ edits' = edits + 1
      /\ k # 0 /\ Meddle
  BY DEF EditInPlace, Meddle
<1>2. edits \in Nat /\ edits' \in Nat /\ edits <= edits' /\ Sound(fs, L) /\ L \in Nat /\ node \in Seq(NodeT)
  BY <1>1, LenProperties DEF IInv, SfTypes, Nodes
<1>3. /\ n \in Names /\ n[1] # "part" /\ n # BackupD /\ n # PartD
      /\ \A i \in 0..Files : Part(i) \in Names /\ Part(i) # n /\ Backup(i) \in Names /\ Backup(i) # n
      /\ BackupD \in Names /\ Doc \in Names
  BY Reach
<1>4. k \in 1..L
  <2>1. k \in Nat /\ k <= L
    BY <1>2, <1>3 DEF Sound
  <2> QED BY <1>1, <1>2, <2>1
<1>5. node[k] \in NodeT /\ node[k].look < 3 + edits
  BY <1>2, <1>4, ElementOfSeq DEF IInv, Nodes
<1> DEFINE look == IF same THEN node[k].look ELSE 3 + edits
           y == Whole(<<"edit", edits>>, look)
<1>6. look \in Nat /\ look < 3 + edits' /\ (~same => look = 3 + edits)
  BY <1>1, <1>2, <1>5 DEF NodeT
<1>7. node' = [node EXCEPT ![k] = y]
  BY <1>0
<1> HIDE DEF look
<1>8. y \in NodeT /\ y.look = look /\ y.half[1] = y.half[2] /\ y.half[1][1] = "edit"
  BY <1>2, <1>6 DEF Whole, NodeT, Halves, Content
<1> HIDE DEF y, k
<1>9. /\ node' \in Seq(NodeT) /\ Len(node') = L /\ node'[k] = y
      /\ \A j \in 1..L : j # k => node'[j] = node[j]
  BY <1>2, <1>4, <1>7, <1>8, ExceptSeq
<1>10. \A q \in Sides, m \in Names : fs[q][m] = k => q = s /\ m = n
  BY <1>1, <1>2, <1>3 DEF Sound, k
<1>11. \A q \in Sides, m \in Names : fs[q][m] # 0 => fs[q][m] \in 1..L
  <2>1. \A q \in Sides, m \in Names : fs[q][m] \in Nat /\ fs[q][m] <= L
    BY <1>2 DEF Sound
  <2> QED BY <1>2, <2>1
<1>12. Nodes'
  <2>1. \A j \in 1..L : node[j] \in NodeT /\ node[j].look < 3 + edits
    BY <1>2, ElementOfSeq DEF IInv, Nodes
  <2>2. \A j \in 1..L : node'[j].look < 3 + edits'
    <3> SUFFICES ASSUME NEW j \in 1..L PROVE node'[j].look < 3 + edits'
      OBVIOUS
    <3>1. CASE j = k
      BY <1>6, <1>8, <1>9, <3>1
    <3>2. CASE j # k
      BY <1>1, <1>2, <1>9, <2>1, <3>2 DEF NodeT
    <3> QED BY <3>1, <3>2
  <2>3. t.look < 3 + edits'
    BY <1>1, <1>2 DEF IInv, SfTypes, Batch, Nodes
  <2> QED BY <1>1, <1>2, <1>9, <2>2, <2>3 DEF Nodes
<1>13. To' = To /\ To \in Sides /\ PartT' = PartT /\ BackupT' = BackupT /\ (\A i \in 1..Files : i \in 0..Files)
  BY <1>1, Ends DEF IInv, SfTypes, Setting, PartT, BackupT
<1>14. Course'
  BY <1>1, <1>9, <1>13 DEF IInv, Course
<1>15. Steps'
  <2>1. ASSUME t.pc \in {"place", "rollback"}, dir = "down", fs[To][BackupT] # 0
        PROVE  fs[To][Doc] = 0 \/ node'[fs[To][Doc]].half[1][1] = "edit"
    <3>1. fs[To][Doc] = 0 \/ node[fs[To][Doc]].half[1][1] = "edit"
      BY <2>1 DEF IInv, Steps
    <3>2. CASE fs[To][Doc] = k
      BY <1>8, <1>9, <3>2
    <3>3. CASE fs[To][Doc] # k
      BY <1>3, <1>9, <1>11, <1>13, <3>1, <3>3
    <3> QED BY <3>2, <3>3
  <2> QED BY <1>1, <1>13, <2>1 DEF IInv, Steps
<1>16. t.pc \notin {"next", "done"} => fs[To][PartT] # k
  BY <1>3, <1>10, <1>13, BatchNames DEF PartT
<1>17. ASSUME NamesWhole PROVE NamesWhole'
  <2> SUFFICES ASSUME NEW q \in Sides, NEW m \in Names, fs[q][m] # 0, m[1] = "part" => m = PartD
               PROVE  node'[fs[q][m]].half[1] = node'[fs[q][m]].half[2]
    BY <1>1 DEF NamesWhole, IsWhole, PartD
  <2>1. CASE fs[q][m] = k
    BY <1>8, <1>9, <2>1
  <2>2. CASE fs[q][m] # k
    <3>1. IsWhole(fs[q][m])
      BY <1>17 DEF NamesWhole
    <3> QED BY <1>9, <1>11, <2>2, <3>1 DEF IsWhole
  <2> QED BY <2>1, <2>2
<1>18. ASSUME ~blind', BatchWhole PROVE BatchWhole'
  <2>1. ~same /\ look = 3 + edits /\ t.look \in Nat /\ t.look < 3 + edits
    BY <1>0, <1>6, <1>18 DEF IInv, Nodes, SfTypes, Batch
  <2>2. t.pc \in {"copy", "verify"} /\ node'[t.h].look = t.look => t.h # k
    BY <1>2, <1>8, <1>9, <2>1
  <2>3. t.pc \in {"copy", "verify"} => t.h \in 1..L /\ fs[To][PartT] = t.tmp /\ t.tmp # 0
    BY DEF IInv, Course
  <2>4. t.pc \in {"copy", "verify"} => t.tmp \in 1..L /\ t.tmp # k
    BY <1>11, <1>13, <1>16, <2>3, BatchNames
  <2>5. t.pc = "copy" => IsWhole(t.h)'
    <3>1. CASE t.h = k
      BY <1>1, <1>8, <1>9, <3>1 DEF IsWhole
    <3>2. CASE t.h # k
      BY <1>1, <1>9, <1>18, <2>3, <3>2 DEF IsWhole, BatchWhole
    <3> QED BY <3>1, <3>2
  <2>6. t.pc = "copy" /\ node'[t.h].look = t.look /\ Len(t.read) = 1 => t.read[1] = node'[t.h].half[1]
    BY <1>9, <1>18, <2>2, <2>3 DEF BatchWhole
  <2>7. t.pc = "verify" /\ node'[t.h].look = t.look => IsWhole(t.tmp)'
    BY <1>1, <1>9, <1>18, <2>2, <2>3, <2>4 DEF BatchWhole, IsWhole
  <2>8. t.pc \in {"commit", "link", "try", "rename", "exists", "backup", "place"} /\ fs[To][PartT] # 0 =>
          IsWhole(fs[To][PartT])'
    <3>1. t.pc \notin {"next", "done"} /\ fs[To][PartT] # 0 => fs[To][PartT] \in 1..L /\ fs[To][PartT] # k
      BY <1>11, <1>13, <1>16, BatchNames
    <3> QED BY <1>1, <1>9, <1>13, <1>18, <3>1 DEF BatchWhole, IsWhole
  <2> QED BY <1>1, <1>13, <2>5, <2>6, <2>7, <2>8 DEF BatchWhole, IsWhole
<1>19. Wholes'
  <2>1. blind => blind'
    BY <1>0
  <2> QED BY <1>17, <1>18, <2>1 DEF IInv, Wholes
<1>20. "remote" \in Sides
  BY DEF Sides
<1>21. Here(BackupD)' = Here(BackupD) /\ (Here(BackupD) # 0 => node'[Here(BackupD)].half = node[Here(BackupD)].half)
  <2>1. fs["remote"][BackupD] # k
    BY <1>3, <1>10, <1>20
  <2> QED BY <1>1, <1>3, <1>9, <1>11, <1>20, <2>1 DEF Here
<1>22. blind' \in BOOLEAN
  BY <1>0 DEF IInv, SfTypes
<1> QED BY <1>1, <1>9, <1>12, <1>14, <1>15, <1>19, <1>21, <1>22, OthersLeave

(* At the start only the sources and, perhaps, the destination exist, and  *)
(* each leads to a node of its own.                                        *)
LEMMA SftpStarts ==
  ASSUME Files \in Nat, Init
  PROVE  IInv
<1>1. dir \in {"up", "down"} /\ policy \in {"replace", "skip", "keepboth"}
  BY DEF Init
<1>2. To \in Sides /\ From \in Sides /\ To # From
  BY <1>1, Ends
<1> DEFINE tail == [i \in 1..Files |-> Whole(<<"src", i>>, 0)]
           head == <<Whole(<<"old", 0>>, 0)>>
<1>3. \A c \in Content : Whole(c, 0) \in NodeT
  <2> SUFFICES ASSUME NEW c \in Content PROVE Whole(c, 0) \in NodeT
    OBVIOUS
  <2>1. <<c, c>> \in Seq(Content) /\ Len(<<c, c>>) = 2
    OBVIOUS
  <2> QED BY <2>1 DEF Whole, NodeT, Halves
<1>4. head \in Seq(NodeT) /\ Len(head) = 1 /\ head[1] = Whole(<<"old", 0>>, 0)
  BY <1>3 DEF Content
<1>5. tail \in Seq(NodeT) /\ Len(tail) = Files /\ \A i \in 1..Files : tail[i] = Whole(<<"src", i>>, 0)
  BY <1>3 DEF Content
<1>6. node = head \o tail
  BY DEF Init
<1> HIDE DEF tail, head
<1>7. /\ node \in Seq(NodeT) /\ Len(node) = Files + 1
      /\ node[1] = Whole(<<"old", 0>>, 0)
      /\ \A i \in 1..Files : node[i + 1] = Whole(<<"src", i>>, 0)
  <2>1. /\ node \in Seq(NodeT) /\ Len(node) = Files + 1
        /\ \A i \in 1..(Files + 1) : node[i] = IF i <= 1 THEN head[i] ELSE tail[i - 1]
    <3>1. /\ node \in Seq(NodeT) /\ Len(node) = Len(head) + Len(tail)
          /\ \A i \in 1..(Len(head) + Len(tail)) :
               node[i] = IF i <= Len(head) THEN head[i] ELSE tail[i - Len(head)]
      BY <1>4, <1>5, <1>6, ConcatProperties
    <3>2. Len(head) + Len(tail) = Files + 1 /\ Len(head) = 1
      BY <1>4, <1>5
    <3> QED BY <3>1, <3>2
  <2>2. node[1] = Whole(<<"old", 0>>, 0)
    BY <1>4, <2>1
  <2>3. ASSUME NEW i \in 1..Files PROVE node[i + 1] = Whole(<<"src", i>>, 0)
    <3>1. i + 1 \in 1..(Files + 1) /\ ~(i + 1 <= 1) /\ (i + 1) - 1 = i
      OBVIOUS
    <3> QED BY <1>5, <2>1, <3>1
  <2> QED BY <2>1, <2>2, <2>3
<1>8. \A k \in 1..(Files + 1) : node[k].look = 0 /\ IsWhole(k)
  <2> SUFFICES ASSUME NEW k \in 1..(Files + 1) PROVE node[k].look = 0 /\ node[k].half[1] = node[k].half[2]
    BY DEF IsWhole
  <2>1. CASE k = 1
    BY <1>7, <2>1 DEF Whole
  <2>2. CASE k # 1
    <3>1. k - 1 \in 1..Files /\ (k - 1) + 1 = k
      BY <2>2
    <3>2. node[k] = Whole(<<"src", k - 1>>, 0)
      BY <1>7, <3>1
    <3> QED BY <3>2 DEF Whole
  <2> QED BY <2>1, <2>2
<1>9. PICK there \in BOOLEAN :
        fs = [side \in Sides |-> [n \in Names |->
                CASE side = To /\ n = Doc /\ there -> 1
                  [] side = From /\ n[1] = "src" -> 1 + n[2]
                  [] OTHER -> 0]]
  BY DEF Init, Sides
<1>10. ASSUME NEW s \in Sides, NEW n \in Names
       PROVE  fs[s][n] = IF s = To /\ n = Doc /\ there THEN 1 ELSE IF s = From /\ n[1] = "src" THEN 1 + n[2] ELSE 0
  <2>1. CASE s = To /\ n = Doc /\ there
    <3>1. ~(s = From /\ n[1] = "src")
      BY <1>2, <2>1
    <3> QED BY <1>9, <2>1, <3>1
  <2>2. CASE ~(s = To /\ n = Doc /\ there) /\ s = From /\ n[1] = "src"
    BY <1>9, <2>2
  <2>3. CASE ~(s = To /\ n = Doc /\ there) /\ ~(s = From /\ n[1] = "src")
    BY <1>9, <2>3
  <2> QED BY <2>1, <2>2, <2>3
<1>11. \A n \in Names : n[1] = "src" => n[2] \in 1..Files /\ n = Src(n[2])
  BY Naming
<1>12. Sound(fs, Len(node))
  <2>1. fs \in [Sides -> [Names -> Nat]]
    <3>1. \A s \in Sides, n \in Names : fs[s][n] \in Nat
      <4> SUFFICES ASSUME NEW s \in Sides, NEW n \in Names PROVE fs[s][n] \in Nat
        OBVIOUS
      <4>1. CASE n[1] = "src"
        BY <1>10, <1>11, <4>1
      <4>2. CASE n[1] # "src"
        BY <1>10, <4>2
      <4> QED BY <4>1, <4>2
    <3>2. fs = [s \in Sides |-> [n \in Names |-> fs[s][n]]]
      BY <1>9
    <3> QED BY <3>1, <3>2
  <2>2. \A s \in Sides, n \in Names : fs[s][n] <= Len(node)
    <3> SUFFICES ASSUME NEW s \in Sides, NEW n \in Names PROVE fs[s][n] <= Files + 1
      BY <1>7
    <3>1. CASE n[1] = "src"
      BY <1>10, <1>11, <3>1
    <3>2. CASE n[1] # "src"
      BY <1>10, <3>2
    <3> QED BY <3>1, <3>2
  <2>3. ASSUME NEW s1 \in Sides, NEW s2 \in Sides, NEW n1 \in Names, NEW n2 \in Names,
               fs[s1][n1] # 0, fs[s1][n1] = fs[s2][n2]
        PROVE  s1 = s2 /\ n1 = n2
    <3>1. CASE s1 = To /\ n1 = Doc /\ there
      <4>1. fs[s2][n2] = 1
        BY <1>10, <2>3, <3>1
      <4>2. ~(s2 = From /\ n2[1] = "src") \/ (s2 = To /\ n2 = Doc /\ there)
        BY <1>10, <1>11, <4>1
      <4> QED BY <1>10, <3>1, <4>1, <4>2
    <3>2. CASE ~(s1 = To /\ n1 = Doc /\ there)
      <4>1. s1 = From /\ n1[1] = "src" /\ fs[s1][n1] = 1 + n1[2]
        BY <1>10, <2>3, <3>2
      <4>2. n1[2] \in 1..Files
        BY <1>11, <4>1
      <4>3. fs[s2][n2] # 1 /\ fs[s2][n2] # 0
        BY <2>3, <4>1, <4>2
      <4>4. s2 = From /\ n2[1] = "src" /\ fs[s2][n2] = 1 + n2[2]
        BY <1>10, <4>3
      <4>5. n2[2] \in 1..Files
        BY <1>11, <4>4
      <4>6. n1[2] = n2[2]
        BY <2>3, <4>1, <4>2, <4>4, <4>5
      <4> QED BY <1>11, <4>1, <4>4, <4>6
    <3> QED BY <3>1, <3>2
  <2> QED BY <2>1, <2>2, <2>3 DEF Sound
<1>13. PICK m \in 1..Files : t = Fresh(1, m)
  BY DEF Init
<1>14. /\ t.pc = "next" /\ t.file = 1 /\ t.files = m /\ t.look = 0 /\ t \in Batch
  BY <1>13 DEF Fresh, Batch, TPc, Outcome
<1>15. cancel = FALSE /\ results = <<>> /\ victims = {} /\ blind = FALSE /\ edits = 0 /\ faults = 0 /\ broken = FALSE
       /\ d = [pc |-> "closed", seen |-> <<>>, force |-> FALSE, out |-> "none"]
  BY DEF Init
<1>16. d \in Document /\ d.pc = "closed" /\ d.seen = <<>>
  BY <1>15 DEF Document
<1>17. SfTypes
  <2>1. results \in Seq(Outcome) /\ victims \in SUBSET Victim
    BY <1>15
  <2> QED BY <1>1, <1>7, <1>14, <1>15, <1>16, <2>1 DEF SfTypes, Setting
<1>18. Nodes
  BY <1>7, <1>8, <1>12, <1>14, <1>15 DEF Nodes
<1>19. Course
  BY <1>14, <1>15 DEF Course
<1>20. \A s \in Sides, i \in 0..Files : fs[s][Part(i)] = 0 /\ fs[s][Backup(i)] = 0
  <2> SUFFICES ASSUME NEW s \in Sides, NEW i \in 0..Files PROVE fs[s][Part(i)] = 0 /\ fs[s][Backup(i)] = 0
    OBVIOUS
  <2>1. Part(i) \in Names /\ Part(i) # Doc /\ Part(i)[1] # "src"
    BY Naming DEF Part, Doc
  <2>2. Backup(i) \in Names /\ Backup(i) # Doc /\ Backup(i)[1] # "src"
    BY Naming DEF Backup, Doc
  <2> QED BY <1>10, <2>1, <2>2
<1>21. Steps
  BY <1>2, <1>14, <1>20 DEF Steps
<1>22. Saves
  BY <1>15, <1>16 DEF Saves
<1>23. Wholes
  <2>1. NamesWhole
    BY <1>7, <1>8, <1>12 DEF NamesWhole, Sound
  <2>2. BatchWhole
    BY <1>14 DEF BatchWhole
  <2> QED BY <2>1, <2>2 DEF Wholes
<1>24. Tidy
  BY <1>15, <1>20 DEF Tidy
<1>25. NothingLost
  BY <1>15 DEF NothingLost
<1> QED BY <1>17, <1>18, <1>19, <1>21, <1>22, <1>23, <1>24, <1>25 DEF IInv

(* A step of something else.                                               *)
LEMMA Standing ==
  ASSUME IInv, UNCHANGED sfvars
  PROVE  IInv'
<1>1. UNCHANGED <<dir, policy, fs, node, cancel, lock, t, results, d, victims, blind, edits, faults, broken>>
  BY DEF sfvars
<1>2. SfTypes' /\ Nodes' /\ Course'
  BY <1>1 DEF IInv, SfTypes, Setting, Nodes, Sound, Course, To, PartT
<1>3. Steps' /\ Saves' /\ Tidy'
  BY <1>1 DEF IInv, Steps, Saves, Tidy, To, BackupT, Here
<1>4. Wholes' /\ NothingLost'
  BY <1>1 DEF IInv, Wholes, NamesWhole, BatchWhole, IsWhole, NothingLost, To, PartT
<1> QED BY <1>2, <1>3, <1>4 DEF IInv

(* The batch, the editor and the other programs, in any order.             *)
LEMMA EveryStep ==
  ASSUME IInv, Files \in Nat, [Next]_sfvars
  PROVE  IInv'
<1>1. CASE TransferRuns
  BY <1>1, NextFileStep, StartStep, OpenStep, CopyHalfStep, VerifyStep, CommitBeginsStep, LinkStep, TryExistsStep,
     TryRenameStep, ReplaceLooksStep, StepAsideStep, PlaceStep, RollBackStep, CleanStep, DropStep, ResultStep
     DEF TransferRuns
<1>2. CASE Cancel
  BY <1>2, CancelStep
<1>3. CASE Load
  BY <1>3, LoadStep
<1>4. CASE Save
  BY <1>4, SaveStep
<1>5. CASE SaveRuns
  BY <1>5, DBackupStep, DVerifyStep, DPlaceStep, DCleanStep, DRereadStep, DRestoreStep, DDropStep DEF SaveRuns
<1>6. CASE Others
  <2>1. CASE Rename
    BY <2>1, RenameStep
  <2>2. CASE \E side \in {"local", "remote"}, n \in {Doc, Src(1)} :
               EditInPlace(side, n) \/ NewFile(side, n) \/ Delete(side, n)
    <3>1. PICK s \in Sides, n \in {Doc, Src(1)} : EditInPlace(s, n) \/ NewFile(s, n) \/ Delete(s, n)
      BY <2>2 DEF Sides
    <3> QED BY <3>1, EditStep, NewFileStep, DeleteStep
  <2> QED BY <1>6, <2>1, <2>2 DEF Others
<1>7. CASE UNCHANGED sfvars
  BY <1>7, Standing
<1> QED BY <1>1, <1>2, <1>3, <1>4, <1>5, <1>6, <1>7 DEF Next

(* The invariant says what is promised.                                    *)
LEMMA Promised ==
  ASSUME IInv, Files \in Nat
  PROVE  NothingLost /\ WholeVersions /\ CleanEnd
<1>1. WholeVersions
  <2>1. PartD[1] = "part"
    BY Naming DEF PartD
  <2> QED BY <2>1 DEF IInv, Wholes, NamesWhole, IsWhole, WholeVersions, Sides
<1>2. CleanEnd
  <2> SUFFICES ASSUME t.pc = "done", d.pc \in {"closed", "editing"}
               PROVE  /\ Len(results) = t.files
                      /\ faults = 0 => \A s \in Sides : \A i \in 0..Files : fs[s][Part(i)] = 0
    BY DEF CleanEnd, Sides
  <2>1. Len(results) = t.files
    BY DEF IInv, Course
  <2> QED BY <2>1 DEF IInv, Tidy, WithPart
<1> QED BY <1>1, <1>2 DEF IInv

(* No content is lost that was not meant to be, what is put in place is one*)
(* version, and no temporary file is left, for any number of files, of     *)
(* changes by other programs and of failing requests (sftp_download,       *)
(* sftp_upload, commit_local_temp, commit_remote_temp,                     *)
(* commit_document_temp).                                                  *)
THEOREM SftpHolds ==
  ASSUME Files \in Nat
  PROVE  Spec => [](NothingLost /\ WholeVersions /\ CleanEnd)
<1>1. Init => IInv
  BY SftpStarts
<1>2. IInv /\ [Next]_sfvars => IInv'
  BY EveryStep
<1>3. IInv => NothingLost /\ WholeVersions /\ CleanEnd
  BY Promised
<1> QED BY <1>1, <1>2, <1>3, PTL DEF Spec
=============================================================================
