----------------------------- MODULE FileTable -----------------------------
(***************************************************************************)
(* The table of open files (file.c) and the descriptors of the processes   *)
(* that share it through dup and fork (sysfile.c, pipe.c, proc.c).  A step *)
(* is one critical section of ftable.lock, or work on the process's own    *)
(* descriptors.                                                            *)
(***************************************************************************)
EXTENDS Naturals, FiniteSets

CONSTANTS Procs, NFILE, NOFILE

Min(S) == CHOOSE x \in S : \A y \in S : x =< y

Files == 1 .. NFILE
FDs == 0 .. NOFILE - 1
\* What the modules that instantiate this one assume of the constants.
TableAssumption ==
  NFILE \in Nat /\ NOFILE \in Nat /\ IsFiniteSet(Procs) /\ Procs # {}

VARIABLES
  ref, type,     \* struct file
  objs,          \* how many inode references and pipe ends are held
  ofile,         \* the descriptors of each process, 0 when closed
  alive,
  pc, loc        \* where a process is in a call, and its locals

vars == <<ref, type, objs, ofile, alive, pc, loc>>
table == <<ref, type, objs>>

initproc == CHOOSE p \in Procs : TRUE
NoLoc == [f0 |-> 0, f1 |-> 0, fd |-> 0, child |-> {}, k |-> "user"]
Init ==
  /\ ref = [f \in Files |-> 0] /\ type = [f \in Files |-> "none"] /\ objs = 0
  /\ ofile = [p \in Procs |-> [d \in FDs |-> 0]]
  /\ alive = {initproc}
  /\ pc = [p \in Procs |-> "user"] /\ loc = [p \in Procs |-> NoLoc]

At(p, l) == p \in alive /\ pc[p] = l
Goto(p, l, r) == /\ pc' = [pc EXCEPT ![p] = l]
                 /\ loc' = [loc EXCEPT ![p] = IF l = "user" THEN NoLoc ELSE r]
FreeFiles == {f \in Files : ref[f] = 0}
FreeFds(p) == {d \in FDs : ofile[p][d] = 0}

(* filealloc, with the field of the locals that gets the file.             *)
filealloc == Min(FreeFiles)
Take == ref' = [ref EXCEPT ![filealloc] = 1]

(* sys_open once it has an inode: a file, a descriptor, and last the type. *)
(* Without a file or a descriptor the inode is put.                        *)
Open(p) ==
  /\ At(p, "user") /\ FreeFiles # {} /\ Take /\ objs' = objs + 1
  /\ Goto(p, "fdalloc", [loc[p] EXCEPT !.f0 = filealloc])
  /\ UNCHANGED <<type, ofile, alive>>
OpenFd(p) ==
  /\ At(p, "fdalloc")
  /\ IF FreeFds(p) = {}
     THEN /\ ref' = [ref EXCEPT ![loc[p].f0] = 0] /\ objs' = objs - 1
          /\ Goto(p, "user", NoLoc) /\ UNCHANGED ofile
     ELSE /\ ofile' = [ofile EXCEPT ![p][Min(FreeFds(p))] = loc[p].f0]
          /\ Goto(p, "settype", loc[p]) /\ UNCHANGED <<ref, objs>>
  /\ UNCHANGED <<type, alive>>
SetType(p) ==
  /\ At(p, "settype") /\ type' = [type EXCEPT ![loc[p].f0] = "inode"]
  /\ Goto(p, "user", NoLoc) /\ UNCHANGED <<ref, objs, ofile, alive>>

(* pipealloc: two files and a page, or it gives back what it took.         *)
PipeFirst(p) ==
  /\ At(p, "user") /\ FreeFiles # {} /\ Take
  /\ Goto(p, "pipe2", [loc[p] EXCEPT !.f0 = filealloc])
  /\ UNCHANGED <<type, objs, ofile, alive>>
PipeSecond(p) ==
  /\ At(p, "pipe2")
  /\ \/ FreeFiles # {} /\ Take /\ Goto(p, "pipe3", [loc[p] EXCEPT !.f1 = filealloc])
     \/ /\ FreeFiles = {} /\ ref' = [ref EXCEPT ![loc[p].f0] = 0]
        /\ Goto(p, "user", NoLoc)
  /\ UNCHANGED <<type, objs, ofile, alive>>
PipePage(p) ==
  LET f == loc[p].f0
      g == loc[p].f1 IN
  /\ At(p, "pipe3")
  /\ \/ /\ type' = [type EXCEPT ![f] = "pipe", ![g] = "pipe"] /\ objs' = objs + 2
        /\ Goto(p, "pipefds", loc[p]) /\ UNCHANGED ref
     \/ /\ ref' = [ref EXCEPT ![f] = 0, ![g] = 0]
        /\ Goto(p, "user", NoLoc) /\ UNCHANGED <<type, objs>>
  /\ UNCHANGED <<ofile, alive>>

(* Faulty: the first descriptor stays when there is no second one.         *)
KeptFdsBoth(p) == IF FreeFds(p) = {} THEN ofile
                  ELSE [ofile EXCEPT ![p][Min(FreeFds(p))] = loc[p].f0]

(* The descriptors when sys_pipe has taken one but cannot get a second.    *)
KeptFds(p) == ofile

(* The descriptors of sys_pipe; if there are not two, both files close.    *)
PipeFds(p) ==
  /\ At(p, "pipefds")
  /\ IF Cardinality(FreeFds(p)) >= 2
     THEN LET d == Min(FreeFds(p))
              e == Min(FreeFds(p) \ {d}) IN
          /\ ofile' = [ofile EXCEPT ![p][d] = loc[p].f0, ![p][e] = loc[p].f1]
          /\ Goto(p, "user", NoLoc)
     ELSE ofile' = KeptFds(p) /\ Goto(p, "close", loc[p])
  /\ UNCHANGED <<table, alive>>

filedup(f) == ref' = [ref EXCEPT ![f] = @ + 1]

(* sys_dup: the descriptor first, then the count.                          *)
Dup(p, d) ==
  /\ At(p, "user") /\ ofile[p][d] # 0 /\ FreeFds(p) # {}
  /\ ofile' = [ofile EXCEPT ![p][Min(FreeFds(p))] = ofile[p][d]]
  /\ Goto(p, "filedup", [loc[p] EXCEPT !.f0 = ofile[p][d], !.fd = Min(FreeFds(p))])
  /\ UNCHANGED <<table, alive>>
DupCount(p) ==
  /\ At(p, "filedup") /\ filedup(loc[p].f0) /\ Goto(p, "user", NoLoc)
  /\ UNCHANGED <<type, objs, ofile, alive>>

(* sys_close: the descriptor is cleared first.                             *)
Close(p, d) ==
  /\ At(p, "user") /\ ofile[p][d] # 0
  /\ ofile' = [ofile EXCEPT ![p][d] = 0]
  /\ Goto(p, "close", [loc[p] EXCEPT !.f0 = ofile[p][d]])
  /\ UNCHANGED <<table, alive>>

(* Faulty: the object goes with the first close.                           *)
LastCloseNot(f) == TRUE

LastClose(f) == ref[f] = 1

(* After fileclose: the other file of sys_pipe, or back to the caller.     *)
Closed(p) == IF loc[p].f1 # 0
             THEN Goto(p, "close", [loc[p] EXCEPT !.f0 = loc[p].f1, !.f1 = 0])
             ELSE Goto(p, loc[p].k, [loc[p] EXCEPT !.f0 = 0])

(* Faulty: the type of the closed file stays.                              *)
filecloseStale(p) ==
  LET f == loc[p].f0 IN
  /\ At(p, "close") /\ ref' = [ref EXCEPT ![f] = @ - 1]
  /\ IF LastClose(f) /\ type[f] # "none" THEN Goto(p, "release", loc[p]) ELSE Closed(p)
  /\ UNCHANGED <<type, objs, ofile, alive>>

(* fileclose: drop the count; the last one empties the entry, then puts    *)
(* the inode or closes the pipe end without the lock.                      *)
fileclose(p) ==
  LET f == loc[p].f0 IN
  /\ At(p, "close") /\ ref' = [ref EXCEPT ![f] = @ - 1]
  /\ IF LastClose(f) /\ type[f] # "none" THEN Goto(p, "release", loc[p]) ELSE Closed(p)
  /\ type' = IF LastClose(f) THEN [type EXCEPT ![f] = "none"] ELSE type
  /\ UNCHANGED <<objs, ofile, alive>>
Release(p) ==
  /\ At(p, "release") /\ objs' = objs - 1 /\ Closed(p)
  /\ UNCHANGED <<ref, type, ofile, alive>>

(* fork: count the descriptors one by one into a child that does not run.  *)
Fork(p, q) ==
  /\ At(p, "user") /\ q \notin alive /\ \A r \in Procs : q \notin loc[r].child
  /\ Goto(p, "fork", [loc[p] EXCEPT !.child = {q}]) /\ UNCHANGED <<table, ofile, alive>>
ForkFd(p) ==
  LET d == loc[p].fd
      f == ofile[p][d] IN
  /\ At(p, "fork") /\ d < NOFILE
  /\ IF f = 0 THEN UNCHANGED <<ref, ofile>>
     ELSE /\ filedup(f)
          /\ ofile' = [q \in Procs |-> IF q \in loc[p].child
                                       THEN [ofile[q] EXCEPT ![d] = f] ELSE ofile[q]]
  /\ Goto(p, "fork", [loc[p] EXCEPT !.fd = d + 1]) /\ UNCHANGED <<type, objs, alive>>
ForkEnd(p) ==
  /\ At(p, "fork") /\ loc[p].fd = NOFILE
  /\ alive' = alive \cup loc[p].child
  /\ Goto(p, "user", NoLoc) /\ UNCHANGED <<table, ofile>>

(* exit: close the descriptors one by one.                                 *)
Exit(p) ==
  /\ At(p, "user") /\ p # initproc /\ Goto(p, "exit", [loc[p] EXCEPT !.k = "exit"])
  /\ UNCHANGED <<table, ofile, alive>>
ExitFd(p) ==
  LET d == loc[p].fd IN
  /\ At(p, "exit") /\ d < NOFILE
  /\ ofile' = [ofile EXCEPT ![p][d] = 0]
  /\ IF ofile[p][d] = 0 THEN Goto(p, "exit", [loc[p] EXCEPT !.fd = d + 1])
     ELSE Goto(p, "close", [loc[p] EXCEPT !.f0 = ofile[p][d]])
  /\ UNCHANGED <<table, alive>>
ExitEnd(p) ==
  /\ At(p, "exit") /\ loc[p].fd = NOFILE
  /\ alive' = alive \ {p} /\ Goto(p, "user", NoLoc) /\ UNCHANGED <<table, ofile>>

Next == \E p \in Procs :
  \/ Open(p) \/ OpenFd(p) \/ SetType(p)
  \/ PipeFirst(p) \/ PipeSecond(p) \/ PipePage(p) \/ PipeFds(p)
  \/ DupCount(p) \/ fileclose(p) \/ Release(p)
  \/ ForkFd(p) \/ ForkEnd(p) \/ Exit(p) \/ ExitFd(p) \/ ExitEnd(p)
  \/ \E d \in FDs : Dup(p, d) \/ Close(p, d)
  \/ \E q \in Procs : Fork(p, q)
Spec == Init /\ [][Next]_vars

-----------------------------------------------------------------------------
(* The steps of the calls, and what a call may have in its locals.         *)
Calls == {"user", "fdalloc", "settype", "pipe2", "pipe3", "pipefds", "filedup",
          "close", "release", "fork", "exit"}
Locals == [f0 : Files \cup {0}, f1 : Files \cup {0}, fd : 0 .. NOFILE,
           child : SUBSET Procs, k : {"user", "exit"}]

(* Type invariant.                                                         *)
TypeOK ==
  /\ ref \in [Files -> Nat] /\ type \in [Files -> {"none", "inode", "pipe"}]
  /\ objs \in Nat /\ ofile \in [Procs -> [FDs -> Files \cup {0}]] /\ alive \subseteq Procs
  /\ pc \in [Procs -> Calls] /\ loc \in [Procs -> Locals]


(* The types of an open file, and the steps at which a call holds an inode *)
(* reference or a pipe end that is not in the table.                       *)
Kinds == {"inode", "pipe"}
Holding == {"fdalloc", "settype", "release"}
Count(S, h, V) == Cardinality({x \in S : h[x] \in V})

(* Where a process holds a reference to a file: its descriptors o, except  *)
(* one that sys_dup has not counted yet, and, at l in the middle of a call *)
(* with the locals r, the files that have no descriptor yet or are about   *)
(* to be closed.                                                           *)
Places == Procs \X (0 .. NOFILE + 1)
Holds(l, r, o, k) ==
  IF k < NOFILE
  THEN IF l = "filedup" /\ k = r.fd THEN 0 ELSE o[k]
  ELSE IF k = NOFILE
  THEN IF l \in {"fdalloc", "pipe2", "pipe3", "pipefds", "close"} THEN r.f0 ELSE 0
  ELSE IF l \in {"pipe3", "pipefds", "close", "release"} THEN r.f1 ELSE 0
Held == [x \in Places |-> Holds(pc[x[1]], loc[x[1]], ofile[x[1]], x[2])]

(* The count of every file is the number of descriptors for it in all      *)
(* processes, up to what calls in progress have taken or are giving back:  *)
(* no open file is handed out again, no closed one stays taken, whichever  *)
(* step of open, pipe, dup or fork failed.                                 *)
RefsCountDescriptors == \A f \in Files : ref[f] = Count(Places, Held, {f})

(* Every inode reference and pipe end is released once, by the last close  *)
(* of its file.                                                            *)
ObjectsReleased ==
  objs = Count(Files, type, Kinds) + Count(Procs, pc, Holding)

(* A file that a running process can name has its type, unless its open    *)
(* call has not returned.                                                  *)
OpenFilesTyped ==
  \A p \in alive, d \in FDs : ofile[p][d] # 0 /\ pc[p] = "user" =>
    type[ofile[p][d]] # "none"

(* filealloc, filedup, fileclose: a file counts its descriptors, a file    *)
(* that a process can name has its type, and the inode or pipe end behind  *)
(* it is released once, by the last close.                                 *)
FilesCounted == RefsCountDescriptors /\ OpenFilesTyped /\ ObjectsReleased

(* The files of an open or pipe call that have no type yet: nobody else    *)
(* has a reference to them.                                                *)
NewFiles(l, r) ==
  IF l = "pipe3" THEN {r.f0, r.f1}
  ELSE IF l \in {"fdalloc", "settype", "pipe2"} THEN {r.f0} ELSE {}
Fresh ==
  \A p \in Procs : \A f \in NewFiles(pc[p], loc[p]) : ref[f] = 1 /\ type[f] = "none"
Typed ==
  /\ \A x \in Places : Held[x] # 0 =>
       type[Held[x]] # "none" \/ Held[x] \in NewFiles(pc[x[1]], loc[x[1]])
  /\ \A f \in Files : ref[f] = 0 => type[f] = "none"

(* The locals r of a process at l of one of its calls.                     *)
Local(l, r, o) ==
  /\ l = "user" => r = NoLoc
  /\ l \in {"fdalloc", "settype", "pipe2", "pipe3", "pipefds", "filedup", "close"} => r.f0 # 0
  /\ l \in {"pipe3", "pipefds"} => r.f1 # 0
  /\ l = "settype" => \E d \in FDs : o[d] = r.f0
  /\ l = "filedup" => /\ r.fd \in FDs /\ o[r.fd] = r.f0
                      /\ \E d \in FDs \ {r.fd} : o[d] = r.f0
  /\ l = "exit" => r.k = "exit"
  /\ r.k = "exit" => /\ l \in {"exit", "close", "release"} /\ r.f1 = 0
                     /\ \A d \in FDs : d < r.fd => o[d] = 0
  /\ l = "fork" <=> r.child # {}

(* A process that does not run has no descriptors, except for those that   *)
(* fork has copied so far.                                                 *)
Offspring ==
  /\ \A p, q \in Procs : loc[p].child \cap loc[q].child # {} => p = q
  /\ \A p \in Procs : loc[p].child \subseteq Procs \ alive
  /\ \A p \in Procs : \A q, r \in loc[p].child : q = r
  /\ \A q \in Procs \ alive :
       /\ pc[q] = "user"
       /\ \A d \in FDs : ofile[q][d] # 0 => \E p \in Procs : q \in loc[p].child /\ d < loc[p].fd

(* The inductive invariant behind FilesCounted.                            *)
TableInv ==
  /\ TypeOK /\ RefsCountDescriptors /\ ObjectsReleased
  /\ Fresh /\ Typed /\ Offspring /\ \A p \in Procs : Local(pc[p], loc[p], ofile[p])
=============================================================================
