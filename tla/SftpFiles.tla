----------------------------- MODULE SftpFiles ------------------------------
(***************************************************************************)
(* Files written over SFTP: a batch of uploads or downloads                *)
(* (transfer/sftp_transfer.rs, transfer/ssh_file_service.rs) beside the    *)
(* document editor (transfer/sftp_document.rs) on the same server, while   *)
(* other programs change files at both ends and requests fail.             *)
(* A name leads to a node, a node has two halves, read one after the       *)
(* other, and a look: its size and time, which a change may leave the same.*)
(* All files of the batch have the same name at the destination, as files  *)
(* of several directories may have.                                        *)
(***************************************************************************)
EXTENDS Naturals, Sequences, FiniteSets

CONSTANTS Files,       \* files of the longest batch; the editor runs beside batches of one file
          MaxTrouble   \* changes made by others and failing requests (bound of the model)

VARIABLES dir,       \* "up" or "down"
          policy,    \* OverwritePolicy
          fs,        \* [side -> [name -> node, or 0]]
          node,      \* contents: [half, look]
          cancel,    \* cancel flag of the batch
          lock,      \* owner of the sftp_cache mutex across several requests
          t,         \* the batch: current file, its handle, temporary file, outcome
          results,   \* Vec<BatchFileResult>: the statuses
          d,         \* the document: version loaded, save in progress
          victims,   \* contents no name leads to any more, and whose doing it was
          blind,     \* somebody changed a file and kept its size and time
          edits, faults, broken    \* broken: the connection is lost

sfvars == <<dir, policy, fs, node, cancel, lock, t, results, d, victims, blind, edits, faults, broken>>
world == <<dir, policy, cancel, results, blind, edits>>

Doc == <<"doc", 0>>
Copy(i) == <<"doc", i>>       \* "name (i)"
Src(i) == <<"src", i>>
(* sibling artifacts have unique names: 0 is the editor's                  *)
Part(i) == <<"part", i>>
Backup(i) == <<"backup", i>>
PartT == Part(t.file)
BackupT == Backup(t.file)
PartD == Part(0)
BackupD == Backup(0)
Names == {Copy(i) : i \in 0..2} \cup {Src(i) : i \in 1..Files} \cup {Part(i) : i \in 0..Files}
         \cup {Backup(i) : i \in 0..Files}

From == IF dir = "up" THEN "local" ELSE "remote"
To == IF dir = "up" THEN "remote" ELSE "local"
(* the document being edited: the target of an upload, a source of a download *)
Edited == IF dir = "up" THEN Doc ELSE Src(1)
Whole(c, look) == [half |-> <<c, c>>, look |-> look]
Fresh(i, n) == [pc |-> "next", file |-> i, files |-> n, look |-> 0, h |-> 0, tmp |-> 0, read |-> <<>>, index |-> 0,
                placed |-> FALSE, out |-> "none"]

Init ==
    /\ dir \in {"up", "down"} /\ policy \in {"replace", "skip", "keepboth"}
    /\ node = <<Whole(<<"old", 0>>, 0)>> \o [i \in 1..Files |-> Whole(<<"src", i>>, 0)]
    /\ \E there \in BOOLEAN :
           fs = [side \in {"local", "remote"} |-> [n \in Names |->
                    CASE side = To /\ n = Doc /\ there -> 1
                      [] side = From /\ n[1] = "src" -> 1 + n[2]
                      [] OTHER -> 0]]
    /\ \E n \in 1..Files : t = Fresh(1, n)
    /\ cancel = FALSE /\ lock = "none" /\ results = <<>>
    /\ d = [pc |-> "closed", seen |-> <<>>, force |-> FALSE, out |-> "none"]
    /\ victims = {} /\ blind = FALSE /\ edits = 0 /\ faults = 0 /\ broken = FALSE

------------------------------------------------------------------------------
(* Requests.  One may fail, and every later one with it if the connection  *)
(* is lost.                                                                *)
Works(side) == ~(side = "remote" /\ broken) /\ UNCHANGED <<faults, broken>>
Fails(side) ==
    \/ side = "remote" /\ broken /\ UNCHANGED <<faults, broken>>
    \/ /\ edits + faults < MaxTrouble /\ faults' = faults + 1
       /\ broken' \in {broken, broken \/ side = "remote"}

Put(side, n, x) == [fs EXCEPT ![side][n] = x]
Move(side, a, b) == [fs EXCEPT ![side][a] = 0, ![side][b] = fs[side][a]]
(* rename replaces a local file; an SFTP server refuses to.                *)
MayMove(side, a, b) == fs[side][a] # 0 /\ (side = "local" \/ fs[side][b] = 0)

(* contents lost by a step to fs2 *)
Lost(fs2) ==
    LET kept(f) == {f[s][n] : s \in {"local", "remote"}, n \in {m \in Names : m[1] # "part"}}
    IN {node[x].half : x \in kept(fs) \ (kept(fs2) \cup {0})}
Becomes(fs2, by, placed) ==
    fs' = fs2 /\ victims' = victims \cup {[by |-> by, content |-> c, placed |-> placed] : c \in Lost(fs2)}
Same == UNCHANGED <<fs, victims>>

------------------------------------------------------------------------------
(* The batch *)

Goto(pc) == t' = [t EXCEPT !.pc = pc]
TFree == lock = "none"

(* send and receive, top of the loop: a cancelled batch skips the rest.    *)
NextFile ==
    /\ t.pc = "next"
    /\ IF cancel \/ t.file > t.files
       THEN /\ Goto("done")
            /\ results' = results \o [i \in 1..(t.files + 1 - t.file) |-> "skipped"]
       ELSE Goto("start") /\ UNCHANGED results
    /\ Same /\ UNCHANGED <<dir, policy, cancel, blind, edits, node, lock, d, faults, broken>>

(* resolve_local_destination, resolve_remote_destination, and the metadata *)
(* of the source                                                           *)
Start ==
    /\ t.pc = "start" /\ TFree
    /\ \/ /\ Works("remote")
          /\ CASE policy = "skip" /\ fs[To][Doc] # 0 -> t' = [t EXCEPT !.pc = "result", !.out = "skipped"]
               [] ~(policy = "skip" /\ fs[To][Doc] # 0) /\ fs[From][Src(t.file)] = 0 ->
                      t' = [t EXCEPT !.pc = "result", !.out = "failed"]
               [] OTHER -> t' = [t EXCEPT !.pc = "open", !.look = node[fs[From][Src(t.file)]].look]
       \/ Fails("remote") /\ t' = [t EXCEPT !.pc = "result", !.out = "failed"]
    /\ Same /\ UNCHANGED <<world, node, lock, d>>

(* The source and the temporary file are opened; of a local source the     *)
(* metadata are those of the open file.                                    *)
Open ==
    /\ t.pc = "open" /\ TFree
    /\ \/ /\ Works("remote") /\ fs[From][Src(t.file)] # 0
          /\ node' = Append(node, Whole(<<"part", t.file>>, 1))
          /\ Becomes(Put(To, PartT, Len(node) + 1), "t", FALSE)
          /\ LET h == fs[From][Src(t.file)]
             IN t' = [t EXCEPT !.pc = "copy", !.h = h, !.tmp = Len(node) + 1, !.read = <<>>, !.index = 0,
                               !.placed = FALSE, !.look = IF dir = "up" THEN node[h].look ELSE @]
       \/ /\ \/ Fails("remote")
             \/ fs[From][Src(t.file)] = 0 /\ Works("remote")
          /\ Same /\ UNCHANGED node
          /\ t' = [t EXCEPT !.pc = "result", !.out = "failed"]
    /\ UNCHANGED <<world, lock, d>>

(* the loop of sftp_download and sftp_upload *)
CopyHalf ==
    /\ t.pc = "copy"
    /\ \/ cancel /\ t' = [t EXCEPT !.pc = "drop", !.out = "failed"] /\ UNCHANGED <<node, faults, broken>>
       \/ ~cancel /\ Fails("remote") /\ t' = [t EXCEPT !.pc = "drop", !.out = "failed"] /\ UNCHANGED node
       \/ /\ ~cancel /\ Works("remote")
          /\ LET half == Append(t.read, node[t.h].half[Len(t.read) + 1])
             IN IF Len(half) < 2 THEN t' = [t EXCEPT !.read = half] /\ UNCHANGED node
                ELSE /\ t' = [t EXCEPT !.read = half, !.pc = "verify"]
                     /\ node' = [node EXCEPT ![t.tmp].half = half]
    /\ Same /\ UNCHANGED <<world, lock, d>>

(* The source must still look as it did: the open file of an upload, the   *)
(* name of a download.                                                     *)
NameAsBefore == fs[From][Src(t.file)] # 0 /\ node[fs[From][Src(t.file)]].look = t.look
Unchanged_Skipped == TRUE
Unchanged == IF dir = "up" THEN node[t.h].look = t.look ELSE NameAsBefore
(* The name of a download may lead back to the file that was looked at     *)
(* first while another one was opened and copied: a change that hid behind *)
(* the same size and time.                                                 *)
Hidden == NameAsBefore /\ node[t.h].look # t.look
Verify ==
    /\ t.pc = "verify" /\ TFree
    /\ \/ /\ Unchanged /\ ~cancel /\ Works("remote") /\ Goto("commit")
          /\ blind' = (blind \/ Hidden)
       \/ /\ ((~Unchanged \/ cancel) /\ Works("remote")) \/ Fails("remote")
          /\ t' = [t EXCEPT !.pc = "drop", !.out = "failed"] /\ UNCHANGED blind
    /\ Same /\ UNCHANGED <<dir, policy, cancel, results, edits, node, lock, d>>

(* commit_local_temp and commit_remote_temp.  The remote one keeps the     *)
(* mutex until it ends.                                                    *)
Target == Copy(t.index)
CommitBegins ==
    /\ t.pc = "commit" /\ TFree
    /\ lock' = IF dir = "up" THEN "t" ELSE lock
    /\ Goto(IF policy = "replace" THEN "exists" ELSE IF dir = "up" THEN "try" ELSE "link")
    /\ Same /\ UNCHANGED <<world, node, d, faults, broken>>

Ended_Locked(out) ==
    /\ t' = [t EXCEPT !.pc = IF out = "completed" THEN "result" ELSE "drop", !.out = out,
                      !.placed = out = "completed"]
    /\ UNCHANGED lock
Ended_Littered(out) ==
    /\ t' = [t EXCEPT !.pc = IF out = "failed" THEN "drop" ELSE "result", !.out = out,
                      !.placed = out = "completed"]
    /\ lock' = IF lock = "t" THEN "none" ELSE lock
Ended(out) ==
    /\ t' = [t EXCEPT !.pc = IF out = "completed" THEN "result" ELSE "drop", !.out = out,
                      !.placed = out = "completed"]
    /\ lock' = IF lock = "t" THEN "none" ELSE lock
(* a name that is taken: Skip gives up, KeepBoth tries the next            *)
Taken ==
    IF policy = "skip" THEN Ended("skipped")
    ELSE IF t.index = 2 THEN Ended("failed")
    ELSE t' = [t EXCEPT !.index = @ + 1, !.pc = IF dir = "up" THEN "try" ELSE "link"] /\ UNCHANGED lock

(* try_commit_local_noreplace: hard_link takes a free name or none         *)
Link ==
    /\ t.pc = "link"
    /\ \/ fs[To][Target] = 0 /\ Works(To) /\ Becomes(Move(To, PartT, Target), "t", TRUE) /\ Ended("completed")
       \/ fs[To][Target] # 0 /\ Works(To) /\ Same /\ Taken
       \/ Fails(To) /\ Same /\ Ended("failed")
    /\ UNCHANGED <<world, node, d>>

(* try_commit_remote_noreplace: a look before the rename, and one after a  *)
(* rename that failed                                                      *)
TryExists ==
    /\ t.pc = "try"
    /\ \/ fs[To][Target] = 0 /\ Works(To) /\ Goto("rename") /\ UNCHANGED lock
       \/ fs[To][Target] # 0 /\ Works(To) /\ Taken
       \/ Fails(To) /\ Ended("failed")
    /\ Same /\ UNCHANGED <<world, node, d>>
TryRename ==
    /\ t.pc = "rename"
    /\ \/ /\ MayMove(To, PartT, Target) /\ Works(To)
          /\ Becomes(Move(To, PartT, Target), "t", TRUE) /\ Ended("completed")
       \/ fs[To][Target] # 0 /\ Works(To) /\ Same /\ Taken
       \/ Fails(To) /\ Ended("failed") /\ (Same \/ (fs[To][Target] = 0 /\ Becomes(Move(To, PartT, Target), "t", TRUE)))
    /\ UNCHANGED <<world, node, d>>

(* Replace: the original steps aside, returns if the rename fails, and is  *)
(* removed only after it.                                                  *)
ReplaceLooks ==
    /\ t.pc = "exists"
    /\ \/ Works(To) /\ Goto(IF fs[To][Doc] = 0 THEN "place" ELSE "backup") /\ UNCHANGED lock
       \/ Fails(To) /\ Ended("failed")
    /\ Same /\ UNCHANGED <<world, node, d>>
StepAside ==
    /\ t.pc = "backup"
    /\ \/ MayMove(To, Doc, BackupT) /\ Works(To) /\ Becomes(Move(To, Doc, BackupT), "t", FALSE)
          /\ Goto("place") /\ UNCHANGED lock
       \/ /\ Fails(To) \/ (fs[To][Doc] = 0 /\ Works(To))
          /\ Ended("failed") /\ Same
    /\ UNCHANGED <<world, node, d>>
Place ==
    /\ t.pc = "place"
    /\ \/ MayMove(To, PartT, Doc) /\ Works(To) /\ Becomes(Move(To, PartT, Doc), "t", TRUE)
          /\ (IF fs[To][BackupT] = 0 THEN Ended("completed")
              ELSE t' = [t EXCEPT !.pc = "clean", !.placed = TRUE] /\ UNCHANGED lock)
       \/ /\ Fails(To) \/ (~MayMove(To, PartT, Doc) /\ Works(To))
          /\ Same
          /\ IF fs[To][BackupT] = 0 THEN Ended("failed") ELSE Goto("rollback") /\ UNCHANGED lock
    /\ UNCHANGED <<world, node, d>>
RollBack ==
    /\ t.pc = "rollback"
    /\ \/ MayMove(To, BackupT, Doc) /\ Works(To) /\ Becomes(Move(To, BackupT, Doc), "t", FALSE)
       \/ (Fails(To) \/ (~MayMove(To, BackupT, Doc) /\ Works(To))) /\ Same
    /\ Ended("failed") /\ UNCHANGED <<world, node, d>>
Clean ==
    /\ t.pc = "clean"
    /\ \/ Works(To) /\ Becomes(Put(To, BackupT, 0), "t", t.placed)
       \/ Fails(To) /\ Same
    /\ Ended("completed") /\ UNCHANGED <<world, node, d>>

(* the temporary file is removed, if that can be done                      *)
Drop ==
    /\ t.pc = "drop" /\ TFree
    /\ \/ Works(To) /\ Becomes(Put(To, PartT, 0), "t", FALSE)
       \/ Fails(To) /\ Same
    /\ Goto("result") /\ UNCHANGED <<world, node, lock, d>>

(* An error after the cancellation counts as skipped and ends the batch.   *)
Status == IF t.out = "failed" /\ cancel THEN "skipped" ELSE t.out
Result ==
    /\ t.pc = "result"
    /\ results' = Append(results, Status)
    /\ t' = Fresh(t.file + 1, t.files)
    /\ Same /\ UNCHANGED <<dir, policy, cancel, blind, edits, node, lock, d, faults, broken>>

TransferRuns ==
    \/ NextFile \/ Start \/ Open \/ CopyHalf \/ Verify \/ CommitBegins \/ Link \/ TryExists \/ TryRename
    \/ ReplaceLooks \/ StepAside \/ Place \/ RollBack \/ Clean \/ Drop \/ Result

Cancel ==
    /\ ~cancel /\ cancel' = TRUE
    /\ Same /\ UNCHANGED <<dir, policy, results, blind, edits, node, lock, t, d, faults, broken>>

------------------------------------------------------------------------------
(* The document editor.  Every request takes the mutex anew.               *)

DGoto(pc) == d' = [d EXCEPT !.pc = pc]
DEnds(out) == d' = [d EXCEPT !.pc = "closed", !.out = out]
Here(n) == fs["remote"][n]
Editor == lock = "none" /\ UNCHANGED <<world, lock, t>>

(* sftp_read_document_cmd: read_snapshot compares size and time before and *)
(* after the read.                                                         *)
Load ==
    /\ d.pc = "closed" /\ d.seen = <<>> /\ t.files = 1 /\ Here(Edited) # 0 /\ Works("remote")
    /\ d' = [d EXCEPT !.pc = "editing", !.seen = node[Here(Edited)].half, !.out = "none"]
    /\ Same /\ Editor /\ UNCHANGED node

(* sftp_save_document_cmd up to the temporary file                         *)
Save ==
    /\ d.pc = "editing"
    /\ \E force \in BOOLEAN :
        \/ /\ Here(Edited) # 0 /\ Works("remote")
           /\ IF ~force /\ node[Here(Edited)].half # d.seen
              THEN DEnds("conflict") /\ Same /\ UNCHANGED node
              ELSE /\ node' = Append(node, Whole(<<"mine", 0>>, 2))
                   /\ Becomes(Put("remote", PartD, Len(node) + 1), "d", FALSE)
                   /\ d' = [d EXCEPT !.pc = "backup", !.force = force]
        \/ /\ Fails("remote") \/ (Here(Edited) = 0 /\ Works("remote"))
           /\ DEnds("error") /\ Same /\ UNCHANGED node
    /\ Editor

(* commit_document_temp: the original steps aside, then its content is     *)
(* compared with the version that was loaded.                              *)
DBackup ==
    /\ d.pc = "backup"
    /\ \/ MayMove("remote", Edited, BackupD) /\ Works("remote")
          /\ Becomes(Move("remote", Edited, BackupD), "d", FALSE) /\ DGoto("verify")
       \/ /\ Fails("remote") \/ (Here(Edited) = 0 /\ Works("remote"))
          /\ Same /\ d' = [d EXCEPT !.pc = "drop", !.out = "error"]
    /\ Editor /\ UNCHANGED node
DVersionOk_Unchecked == TRUE
DVersionOk == d.force \/ node[Here(BackupD)].half = d.seen
DVerify ==
    /\ d.pc = "verify"
    /\ \/ Works("remote") /\ (IF DVersionOk THEN DGoto("place") ELSE d' = [d EXCEPT !.pc = "restore", !.out = "conflict"])
       \/ Fails("remote") /\ d' = [d EXCEPT !.pc = "restore", !.out = "error"]
    /\ Same /\ Editor /\ UNCHANGED node
(* set_metadata and the rename                                             *)
DPlace ==
    /\ d.pc = "place"
    /\ \/ MayMove("remote", PartD, Edited) /\ Works("remote")
          /\ Becomes(Move("remote", PartD, Edited), "d", TRUE) /\ DGoto("clean")
       \/ /\ Fails("remote") \/ (~MayMove("remote", PartD, Edited) /\ Works("remote"))
          /\ Same /\ d' = [d EXCEPT !.pc = "restore", !.out = "error"]
    /\ Editor /\ UNCHANGED node
DClean ==
    /\ d.pc = "clean"
    /\ \/ Works("remote") /\ Becomes(Put("remote", BackupD, 0), "d", TRUE)
       \/ Fails("remote") /\ Same
    /\ DGoto("reread") /\ Editor /\ UNCHANGED node
(* the new version for the next save                                       *)
DReread ==
    /\ d.pc = "reread"
    /\ \/ Here(Edited) # 0 /\ Works("remote") /\ d' = [d EXCEPT !.pc = "closed", !.out = "saved"]
       \/ (Fails("remote") \/ (Here(Edited) = 0 /\ Works("remote"))) /\ DEnds("error")
    /\ Same /\ Editor /\ UNCHANGED node
(* restore_document_backup; the temporary file goes either way.            *)
DRestore ==
    /\ d.pc = "restore"
    /\ \/ MayMove("remote", BackupD, Edited) /\ Works("remote")
          /\ Becomes(Move("remote", BackupD, Edited), "d", FALSE) /\ DGoto("drop")
       \/ /\ Fails("remote") \/ (~MayMove("remote", BackupD, Edited) /\ Works("remote"))
          /\ Same /\ d' = [d EXCEPT !.pc = "drop", !.out = "error"]
    /\ Editor /\ UNCHANGED node
DDrop ==
    /\ d.pc = "drop"
    /\ \/ Works("remote") /\ Becomes(Put("remote", PartD, 0), "d", FALSE)
       \/ Fails("remote") /\ Same
    /\ DEnds(d.out) /\ Editor /\ UNCHANGED node

SaveRuns == DBackup \/ DVerify \/ DPlace \/ DClean \/ DReread \/ DRestore \/ DDrop

------------------------------------------------------------------------------
(* Other programs, and the commands of the file browser                    *)

Spot(side, n) == <<side, n>> \in {<<To, Doc>>, <<From, Src(1)>>}
Meddle == edits + faults < MaxTrouble /\ edits' = edits + 1
          /\ UNCHANGED <<dir, policy, cancel, lock, t, results, d, victims, faults, broken>>
EditInPlace(side, n) ==
    /\ Spot(side, n) /\ fs[side][n] # 0 /\ Meddle
    /\ \E same \in BOOLEAN :
           /\ node' = [node EXCEPT ![fs[side][n]] = Whole(<<"edit", edits>>, IF same THEN @.look ELSE 3 + edits)]
           /\ blind' = (blind \/ same)
    /\ UNCHANGED fs
(* sftp_new_file: created only if the name is free                         *)
NewFile(side, n) ==
    /\ Spot(side, n) /\ fs[side][n] = 0 /\ Meddle
    /\ node' = Append(node, Whole(<<"edit", edits>>, 3 + edits))
    /\ fs' = Put(side, n, Len(node) + 1) /\ UNCHANGED blind
(* sftp_delete *)
Delete(side, n) ==
    /\ Spot(side, n) /\ fs[side][n] # 0 /\ Meddle
    /\ fs' = Put(side, n, 0) /\ UNCHANGED <<node, blind>>
(* sftp_rename *)
Rename ==
    /\ MayMove("remote", Edited, Copy(1)) /\ Meddle
    /\ fs' = Move("remote", Edited, Copy(1)) /\ UNCHANGED <<node, blind>>
Others == Rename \/ \E side \in {"local", "remote"}, n \in {Doc, Src(1)} :
                        EditInPlace(side, n) \/ NewFile(side, n) \/ Delete(side, n)

Next == TransferRuns \/ Cancel \/ Load \/ Save \/ SaveRuns \/ Others
Progress == TransferRuns \/ SaveRuns
Spec == Init /\ [][Next]_sfvars /\ WF_sfvars(TransferRuns) /\ WF_sfvars(SaveRuns)

------------------------------------------------------------------------------
(* No content disappears that was not meant to: a transfer destroys one    *)
(* only under Replace and once the new file is in place, a save only the   *)
(* version that was loaded, unless it is forced, and again after the new   *)
(* one took the name.  Whatever fails in between leaves the original under *)
(* its name or as a backup (commit_local_temp, commit_remote_temp,         *)
(* commit_document_temp).  Only a local file that another program creates  *)
(* while a replacement fails may go: the original returns over it.         *)
NothingLost ==
    \A x \in victims :
        /\ x.placed \/ (dir = "down" /\ x.content[1][1] = "edit")
        /\ x.by = "t" => policy = "replace"
        /\ x.by = "d" => d.force \/ x.content = d.seen

(* A file that was put in place is one version of its source, never half   *)
(* of one and half of another, unless a change hid behind the same size    *)
(* and time (the checks after the copy of sftp_download and sftp_upload).  *)
WholeVersions ==
    blind \/ \A side \in {"local", "remote"}, n \in {m \in Names : m[1] # "part"} :
                 fs[side][n] # 0 => node[fs[side][n]].half[1] = node[fs[side][n]].half[2]

(* Every path out of a transfer or a save removes its temporary file       *)
(* unless a request failed, and every file of the batch gets one result.   *)
CleanEnd ==
    t.pc = "done" /\ d.pc \in {"closed", "editing"} =>
        /\ Len(results) = t.files
        /\ faults = 0 => \A side \in {"local", "remote"} : \A i \in 0..Files : fs[side][Part(i)] = 0

(* Batches and saves end, whoever holds the mutex and whatever fails.      *)
Awaited == t.pc # "done" \/ d.pc \notin {"closed", "editing"}
Reached == ~Awaited
=============================================================================
