----------------------------- MODULE MountTest -----------------------------
(***************************************************************************)
(* The file system test of src/mount_main.c on the SD card: a fixed        *)
(* sequence of calls on a vfat volume, each with the answer it should get, *)
(* and a count of the answers that were others.                            *)
(*                                                                         *)
(* The volume is external and is what the calls promise: a call takes      *)
(* effect and answers at once, or fails with EIO and changes nothing.  The *)
(* test looks at every answer but those of close, readdir and closedir.    *)
(* When one of these fails, bytes of a file or lines of a listing are      *)
(* lost, and no name is; the run goes on, and `missed' tells.  The card    *)
(* outlives a run, the end of the run, and a cut of the power; the count   *)
(* is static, and outlives a run but not a reboot.  Only the names the     *)
(* test uses are modelled.  Configuration: CONFIG_EXAMPLES_MOUNT_DEVNAME   *)
(* is set, as in src/config-nuttx-12.8.0-smp.                              *)
(***************************************************************************)
EXTENDS Integers, Sequences, FiniteSets

CONSTANTS MaxRuns,    \* bound: runs of the program on one card
          MaxFaults   \* bound: calls that fail with EIO in one run, of those looked at

ASSUME BoundsAssumption == MaxRuns \in Nat /\ MaxFaults \in Nat

(* The names, by the constants of the code.                                *)
g_target    == "/mnt/fs"
g_mntdir    == "/mnt"
g_testdir1  == "TestDir"
g_testdir2  == "NewDir1"
g_testdir3  == "NewDir2"
g_testdir4  == "NewDir3"
g_testfile1 == "TestDir/TestFile.txt"
g_testfile2 == "TestDir/WrTest1.txt"
g_testfile3 == "NewDir1/WrTest2.txt"
g_testfile4 == "NewDir3/Renamed.txt"
g_testfilel == "WrTest1.txt"

DirNames  == {g_testdir1, g_testdir2, g_testdir3, g_testdir4}
FileNames == {g_testfile1, g_testfile2, g_testfile3, g_testfile4, g_testfilel}

DirOf == [f \in FileNames |->
            CASE f \in {g_testfile1, g_testfile2} -> g_testdir1
              [] f = g_testfile3 -> g_testdir2
              [] f = g_testfile4 -> g_testdir4
              [] f = g_testfilel -> g_target]

VARIABLES
  dirs,       \* the directories of the volume
  files,      \* its files
  mounted,    \* the volume is mounted on g_target
  g_nerrors,  \* the count of wrong answers
  next,       \* the call of the script that comes next; 0 when no run is going on
  faults,     \* the calls of this run that failed with EIO, of those looked at
  missed,     \* a close, readdir or closedir of this run has failed
  runs,       \* the runs so far
  found,      \* the directories this run found on the card
  before,     \* the count this run began with
  reported    \* the count the last run reported, -1 when it was cut or not mounted

card == <<dirs, files>>
mountVars == <<card, mounted, g_nerrors, next, faults, missed, runs, found, before,
               reported>>

Exists(p) == p \in dirs \union files \union {g_target, g_mntdir}
HasDir(p) == p \in FileNames => DirOf[p] \in dirs \union {g_target}
Inside(d) == {f \in FileNames : DirOf[f] = d}
Empty(d)  == Inside(d) \cap (dirs \union files) = {}

----------------------------------------------------------------------------
(* The volume: what each call answers, when the card works.                *)

Fails(e) == e # "OK"
First(e1, e2) == IF Fails(e1) THEN e1 ELSE e2
When(bad, e) == IF bad THEN e ELSE "OK"

StatErrno(p)   == When(~Exists(p), "ENOENT")
ReadErrno(p)   == First(StatErrno(p), When(p \in dirs, "EISDIR"))
CreateErrno(p) == First(When(~HasDir(p), "ENOENT"), When(p \in dirs, "EISDIR"))
MkdirErrno(p)  == First(When(Exists(p), "EEXIST"), When(~HasDir(p), "ENOENT"))
RmdirErrno(p)  == First(StatErrno(p), First(When(p \in files, "ENOTDIR"),
                                             When(~Empty(p), "ENOTEMPTY")))
UnlinkErrno(p) == First(StatErrno(p), When(p \in dirs, "EISDIR"))

\* A directory of the pseudo file system does not move into the volume.  What a
\* name that is taken does is left open: the move takes place, or EEXIST.
RenameErrnos(old, new) ==
  IF old = g_mntdir THEN {"EXDEV"}
  ELSE IF Fails(StatErrno(old)) \/ ~HasDir(new) THEN {"ENOENT"}
  ELSE IF Exists(new) THEN {"OK", "EEXIST"} ELSE {"OK"}

\* A call that would answer e answers r.
Answers(e, r) ==
  \/ r = e /\ UNCHANGED faults
  \/ r = "EIO" /\ faults < MaxFaults /\ faults' = faults + 1

Errnos == {"OK", "EIO", "ENOENT", "EEXIST", "ENOTDIR", "ENOTEMPTY", "EISDIR", "EXDEV"}

\* What the calls that answer r leave on the card.
AfterMkdir(p, r) ==
  /\ dirs' = IF Fails(r) THEN dirs ELSE dirs \union {p}
  /\ UNCHANGED files
AfterRemoval(p, r) ==
  /\ dirs' = IF Fails(r) THEN dirs ELSE dirs \ {p}
  /\ files' = IF Fails(r) THEN files ELSE files \ {p}
AfterRename(old, new, r) ==
  IF Fails(r) THEN UNCHANGED card
  ELSE LET gone == {old} \union Inside(old)
       IN  /\ dirs' = (dirs \ gone) \union (IF old \in dirs THEN {new} ELSE {})
           /\ files' = (files \ gone) \union (IF old \in files THEN {new} ELSE {})

----------------------------------------------------------------------------
(* The helpers of the test: a call, and the judgement of its answer.       *)

Judge(wrong) == g_nerrors' = g_nerrors + (IF wrong THEN 1 ELSE 0)

show_statfs(p) == \E r \in Errnos :
  Answers("OK", r) /\ Judge(Fails(r)) /\ UNCHANGED card

\* close answers nobody: what was opened may fail to close.
Closed(opened) == missed' \in {missed, missed \/ opened}

\* One opendir per directory; each that fails is counted and hides what is below
\* it, so that no more fail than the volume has directories.  A readdir that fails
\* ends its listing as the last entry does.
show_directories == \E k \in 0 .. MaxFaults - faults :
  /\ k <= 1 \/ k <= Cardinality(dirs)
  /\ faults' = faults + k /\ g_nerrors' = g_nerrors + k
  /\ Closed(TRUE)
  /\ UNCHANGED card

fail_read_open(p, e) == \E r \in Errnos :
  Answers(ReadErrno(p), r) /\ Judge(r # e) /\ Closed(~Fails(r)) /\ UNCHANGED card

\* open, read and close: the first two are judged.
read_test_file(p) == \E r \in Errnos :
  /\ Answers(ReadErrno(p), r) /\ Judge(Fails(r))
  /\ Closed(~Fails(ReadErrno(p)))
  /\ UNCHANGED card

\* open with O_CREAT and O_TRUNC, write and close: the file may be there, and the
\* write or the close fail.
write_test_file(p) == \E r \in Errnos :
  /\ Answers(CreateErrno(p), r) /\ Judge(Fails(r))
  /\ \/ ~Fails(CreateErrno(p)) /\ files' = files \union {p} /\ Closed(TRUE)
     \/ Fails(r) /\ UNCHANGED <<files, missed>>
  /\ UNCHANGED dirs

fail_mkdir(p, e) == \E r \in Errnos :
  Answers(MkdirErrno(p), r) /\ Judge(r # e) /\ AfterMkdir(p, r)

succeed_mkdir(p) == \E r \in Errnos :
  Answers(MkdirErrno(p), r) /\ Judge(Fails(r)) /\ AfterMkdir(p, r)

\* mutant: any failure will do.
fail_rmdir_any(p, e) == \E r \in Errnos :
  Answers(RmdirErrno(p), r) /\ Judge(~Fails(r)) /\ AfterRemoval(p, r)

fail_rmdir(p, e) == \E r \in Errnos :
  Answers(RmdirErrno(p), r) /\ Judge(r # e) /\ AfterRemoval(p, r)

succeed_rmdir(p) == \E r \in Errnos :
  Answers(RmdirErrno(p), r) /\ Judge(Fails(r)) /\ AfterRemoval(p, r)

fail_unlink(p, e) == \E r \in Errnos :
  Answers(UnlinkErrno(p), r) /\ Judge(r # e) /\ AfterRemoval(p, r)

succeed_unlink(p) == \E r \in Errnos :
  Answers(UnlinkErrno(p), r) /\ Judge(Fails(r)) /\ AfterRemoval(p, r)

fail_rename(old, new, e) == \E r \in Errnos, x \in RenameErrnos(old, new) :
  Answers(x, r) /\ Judge(r # e) /\ AfterRename(old, new, r)

succeed_rename(old, new) == \E r \in Errnos, x \in RenameErrnos(old, new) :
  Answers(x, r) /\ Judge(Fails(r)) /\ AfterRename(old, new, r)

\* What stat found is shown: mode, type, sizes and times, and nothing is changed.
show_stat == UNCHANGED card

fail_stat(p, e) == \E r \in Errnos :
  Answers(StatErrno(p), r) /\ Judge(r # e) /\ show_stat

succeed_stat(p) == \E r \in Errnos :
  Answers(StatErrno(p), r) /\ Judge(Fails(r)) /\ show_stat

----------------------------------------------------------------------------
(* The script of main: the calls between mount and umount, in their order. *)

Step(f, p)    == <<[call |-> f, path |-> p]>>
Wrong(f, p, e) == <<[call |-> f, path |-> p, errno |-> e]>>
Moved(f, p, q) == <<[call |-> f, path |-> p, new |-> q]>>
Shown         == Step("show_directories", g_mntdir)
Seen(p)       == Shown \o Step("succeed_stat", p) \o Step("show_statfs", p)

ScratchFile ==
  Step("write_test_file", g_testfilel) \o Step("read_test_file", g_testfilel)
    \o Step("succeed_unlink", g_testfilel)

TestDirFilled ==
  Step("succeed_mkdir", g_testdir1) \o Seen(g_testdir1)
    \o Step("write_test_file", g_testfile1) \o Seen(g_testfile1)
    \o Step("read_test_file", g_testfile1)
    \o Wrong("fail_stat", g_testfile2, "ENOENT")
    \o Step("write_test_file", g_testfile2) \o Seen(g_testfile2)
    \o Step("read_test_file", g_testfile2)

\* mutant: the first removal of a file is left out.
TestDirEmptied_kept ==
  Wrong("fail_rmdir", g_testfile1, "ENOTDIR")
    \o Wrong("fail_rmdir", g_testdir1, "ENOTEMPTY")
    \o Wrong("fail_unlink", g_testdir1, "EISDIR")
    \o Wrong("fail_mkdir", g_testfile2, "EEXIST")
    \o Step("succeed_unlink", g_testfile2) \o Shown
    \o Wrong("fail_stat", g_testfile2, "ENOENT")
    \o Wrong("fail_mkdir", g_testdir1, "EEXIST")
    \o Step("succeed_rmdir", g_testdir1) \o Shown
    \o Wrong("fail_stat", g_testdir1, "ENOENT")
TestDirEmptied ==
  Wrong("fail_rmdir", g_testfile1, "ENOTDIR")
    \o Wrong("fail_rmdir", g_testdir1, "ENOTEMPTY")
    \o Wrong("fail_unlink", g_testdir1, "EISDIR")
    \o Step("succeed_unlink", g_testfile1)
    \o Wrong("fail_stat", g_testfile1, "ENOENT") \o Shown
    \o Wrong("fail_read_open", g_testfile1, "ENOENT")
    \o Wrong("fail_rmdir", g_testdir1, "ENOTEMPTY")
    \o Wrong("fail_mkdir", g_testfile2, "EEXIST")
    \o Step("succeed_unlink", g_testfile2) \o Shown
    \o Wrong("fail_stat", g_testfile2, "ENOENT")
    \o Wrong("fail_mkdir", g_testdir1, "EEXIST")
    \o Step("succeed_rmdir", g_testdir1) \o Shown
    \o Wrong("fail_stat", g_testdir1, "ENOENT")

NewDirsMade ==
  Step("succeed_mkdir", g_testdir2) \o Seen(g_testdir2)
    \o Wrong("fail_mkdir", g_testdir2, "EEXIST")
    \o Wrong("fail_stat", g_testfile3, "ENOENT")
    \o Step("write_test_file", g_testfile3) \o Seen(g_testfile3)
    \o Step("read_test_file", g_testfile3)
    \o Wrong("fail_stat", g_testdir3, "ENOENT")
    \o Step("succeed_mkdir", g_testdir3) \o Seen(g_testdir3)

Renamed ==
  << [call |-> "fail_rename", path |-> g_mntdir, new |-> g_testdir4, errno |-> "EXDEV"],
     [call |-> "fail_rename", path |-> g_testdir4, new |-> g_testdir3, errno |-> "ENOENT"] >>
    \o Wrong("fail_stat", g_testdir4, "ENOENT")
    \o Moved("succeed_rename", g_testdir3, g_testdir4) \o Shown
    \o Wrong("fail_stat", g_testdir3, "ENOENT")
    \o Step("succeed_stat", g_testdir4) \o Step("show_statfs", g_testdir4)
    \o Wrong("fail_stat", g_testfile4, "ENOENT")
    \o Moved("succeed_rename", g_testfile3, g_testfile4) \o Shown
    \o Wrong("fail_stat", g_testfile3, "ENOENT")
    \o Step("succeed_stat", g_testfile4) \o Step("show_statfs", g_testfile4)
    \o Step("read_test_file", g_testfile4)

Script == ScratchFile \o TestDirFilled \o TestDirEmptied \o NewDirsMade \o Renamed

Do(s) ==
  \/ s.call = "show_directories" /\ show_directories
  \/ s.call = "read_test_file"   /\ read_test_file(s.path)
  \/ s.call = "write_test_file"  /\ write_test_file(s.path)
  \/ s.call = "fail_read_open"   /\ fail_read_open(s.path, s.errno)
  \/ /\ UNCHANGED missed
     /\ \/ s.call = "show_statfs"    /\ show_statfs(s.path)
        \/ s.call = "succeed_mkdir"  /\ succeed_mkdir(s.path)
        \/ s.call = "succeed_rmdir"  /\ succeed_rmdir(s.path)
        \/ s.call = "succeed_unlink" /\ succeed_unlink(s.path)
        \/ s.call = "succeed_rename" /\ succeed_rename(s.path, s.new)
        \/ s.call = "succeed_stat"   /\ succeed_stat(s.path)
        \/ s.call = "fail_mkdir"     /\ fail_mkdir(s.path, s.errno)
        \/ s.call = "fail_rmdir"     /\ fail_rmdir(s.path, s.errno)
        \/ s.call = "fail_unlink"    /\ fail_unlink(s.path, s.errno)
        \/ s.call = "fail_rename"    /\ fail_rename(s.path, s.new, s.errno)
        \/ s.call = "fail_stat"      /\ fail_stat(s.path, s.errno)

----------------------------------------------------------------------------
(* A run.                                                                  *)

\* The program starts.
Start ==
  /\ next = 0 /\ runs < MaxRuns
  /\ runs' = runs + 1
  /\ faults' = 0 /\ missed' = FALSE
  /\ found' = dirs
  /\ before' = g_nerrors
  /\ UNCHANGED <<card, g_nerrors>>

\* mount works; g_target is free.
Mount ==
  /\ Start
  /\ ~mounted /\ mounted' = TRUE
  /\ next' = 1
  /\ UNCHANGED reported

\* mount fails, on a card that does not work or a g_target that is taken: the
\* run ends with no count.
MountFails ==
  /\ Start
  /\ reported' = -1
  /\ UNCHANGED <<mounted, next>>

Call ==
  /\ next \in 1..Len(Script)
  /\ Do(Script[next])
  /\ next' = next + 1
  /\ UNCHANGED <<mounted, runs, found, before, reported>>

\* umount, the report and the end of the run.
Umount ==
  /\ next = Len(Script) + 1
  /\ \E r \in Errnos :
       /\ Answers("OK", r)
       /\ Judge(Fails(r))
       /\ mounted' = Fails(r)
  /\ reported' = g_nerrors'
  /\ next' = 0
  /\ UNCHANGED <<card, missed, runs, found, before>>

\* The power goes, between two calls or between two runs, and comes back.
PowerCut ==
  /\ mounted' = FALSE
  /\ g_nerrors' = 0
  /\ next' = 0
  /\ reported' = -1
  /\ UNCHANGED <<card, faults, missed, runs, found, before>>

MountInit ==
  /\ dirs = {} /\ files = {}
  /\ mounted = FALSE
  /\ g_nerrors = 0
  /\ next = 0 /\ faults = 0 /\ missed = FALSE /\ runs = 0
  /\ found = {} /\ before = 0
  /\ reported = -1

MountNext == Mount \/ MountFails \/ Call \/ Umount \/ PowerCut

MountSpec == MountInit /\ [][MountNext]_mountVars

----------------------------------------------------------------------------
(* Properties.                                                             *)

\* The type invariant; no file is outside of a directory.
MountTypeOK ==
  /\ dirs \subseteq DirNames \union FileNames
  /\ files \subseteq FileNames
  /\ dirs \cap files = {}
  /\ \A p \in dirs \union files : HasDir(p)
  /\ mounted \in BOOLEAN
  /\ g_nerrors \in Nat /\ before \in Nat
  /\ next \in 0..Len(Script)+1
  /\ faults \in 0..MaxFaults /\ missed \in BOOLEAN /\ runs \in 0..MaxRuns
  /\ found \subseteq DirNames \union FileNames
  /\ reported \in Nat \union {-1}

Ended == next = 0 /\ reported # -1

\* "%d errors reported": 0 is reported by the runs in which every call worked
\* whose answer the test looks at, on a card without a directory of the test, and
\* of a count that began at 0; and by no others.  A card that any run was on
\* before is not such a card.  Of close, readdir and closedir 0 says nothing:
\* AllReported.
ZeroMeansSound ==
  Ended => (reported = 0 <=> faults = 0 /\ before = 0 /\ found \cap DirNames = {})

\* What every state of mount_main.c owes: names, counts and the card stay sound,
\* and the count that is reported tells of the run.
Inv == MountTypeOK /\ ZeroMeansSound

\* Whatever an earlier run left where its power was cut or its calls failed, a
\* run in which every call works whose answer the test looks at, whatever close and
\* readdir answer, ends with the two new directories and the renamed file in place,
\* and without the test directory and the scratch file; but for a card on which a
\* failed write let fail_mkdir make a directory of a file's name: no run removes
\* that one.
CleansUp ==
  Ended /\ faults = 0 /\ found \cap FileNames = {} =>
    /\ {g_testdir2, g_testdir4} \subseteq dirs /\ g_testdir1 \notin dirs
    /\ g_testfile4 \in files /\ g_testfilel \notin files

\* "%d errors reported" after a sequence of writes, reads and listings: a run that
\* reports 0 has had no call that failed.  It does not hold: the answer of close,
\* where the bytes of a file reach the card, is dropped.
AllReported == Ended /\ reported = 0 => ~missed
=============================================================================
