------------------------------ MODULE MCInodes ------------------------------
(***************************************************************************)
(* Inodes and directories with two processes that create, link and remove  *)
(* files (names), with two that make directories and move into them        *)
(* (dirs), with one that does all of it (solo), and with one that meets a  *)
(* full inode cache (few).                                                 *)
(***************************************************************************)
EXTENDS Integers, TLC

CONSTANTS Procs, NoProc   \* as in Inodes

VARIABLES
  part,   \* which part of the system this behaviour is about
  inode, ref, valid, lock, cwd, file, pc, reg

RootFiles == {<<"/", "a">>, <<"/", "b">>}
OneFile == {<<"/", "a">>}
InDir == {<<"/", "d">>, <<"/", "d", "a">>}
Symmetry == Permutations(Procs)

Nam == INSTANCE Inodes WITH
  NINODES <- 3, NINODE <- 3, Names <- {"a", "b"}, Calls <- {"creat", "link", "unlink"},
  Paths <- RootFiles, Paths2 <- RootFiles
Drs == INSTANCE Inodes WITH
  NINODES <- 3, NINODE <- 3, Names <- {"a", "d"}, Calls <- {"creat", "mkdir", "chdir"},
  Paths <- InDir \cup {<<"..">>}, Paths2 <- OneFile
Solo == INSTANCE Inodes WITH
  Procs <- {"p1"}, NINODES <- 4, NINODE <- 4, Names <- {"a", "d"},
  Calls <- {"open", "creat", "mkdir", "link", "unlink"},
  Paths <- OneFile \cup InDir, Paths2 <- OneFile \cup InDir
Few == INSTANCE Inodes WITH
  Procs <- {"p1"}, NINODES <- 4, NINODE <- 2, Names <- {"a", "d"},
  Calls <- {"open", "creat", "mkdir", "chdir", "link", "unlink"},
  Paths <- OneFile \cup InDir, Paths2 <- OneFile \cup InDir

ASSUME InstanceAssumption ==
  /\ Nam!InodeAssumption /\ Drs!InodeAssumption /\ Solo!InodeAssumption
  /\ Few!InodeAssumption

allVars == <<part, inode, ref, valid, lock, cwd, file, pc, reg>>

Init ==
  \/ /\ part = "names" /\ Nam!Init
  \/ /\ part = "dirs" /\ Drs!Init
  \/ /\ part = "solo" /\ Solo!Init
  \/ /\ part = "few" /\ Few!Init

Next ==
  \/ part = "names" /\ Nam!Next /\ UNCHANGED part
  \/ part = "dirs" /\ Drs!Next /\ UNCHANGED part
  \/ part = "solo" /\ Solo!Next /\ UNCHANGED part
  \/ part = "few" /\ Few!Next /\ UNCHANGED part
  \/ part \in {"names", "solo", "few"} /\ UNCHANGED allVars   \* these may stop

Spec == Init /\ [][Next]_allVars

-----------------------------------------------------------------------------
(* sys_link, sys_unlink, create, iput: when no call runs, link counts are  *)
(* the numbers of names and reference counts the numbers of users, so      *)
(* every path through the calls gives back what it took.  (No process      *)
(* creates a name in a directory that another removes meanwhile: create    *)
(* does not ask whether its directory still has a name, and the new inode  *)
(* would be counted and out of reach.)                                     *)
CountsExact ==
  /\ part = "names" => Nam!LinkCounts /\ Nam!RefsBalanced
  /\ part = "dirs" => Drs!LinkCounts /\ Drs!RefsBalanced
  /\ part = "solo" => Solo!LinkCounts /\ Solo!RefsBalanced
  /\ part = "few" => Few!LinkCounts /\ Few!RefsBalanced

(* iput: no inode is freed under a process that uses it, as long as        *)
(* nobody works in a removed directory; and with one process, an inode     *)
(* without names or users is freed.                                        *)
InodesFreed ==
  /\ part = "names" => Nam!InUseKept
  /\ part = "solo" => Solo!InUseKept /\ Solo!OrphansFreed

(* ilock: no processes wait for each other while both create files and     *)
(* directories and move between them, as long as no second process removes *)
(* names and nobody links to ".".                                          *)
NoLockCycle ==
  /\ part = "dirs" => Drs!NoLockCycle
  /\ part = "solo" => Solo!NoLockCycle
=============================================================================
