------------------------------- MODULE Inodes -------------------------------
(***************************************************************************)
(* The inode cache and directories (fs.c) under the system calls that      *)
(* create, open, link and remove names (sysfile.c), run by several         *)
(* processes.  A step ends where a process may sleep or lets go of a lock. *)
(* The inode cache is write-through, so one copy of an inode stands for    *)
(* the cached one and the one on disk; an entry is known by its inumber.   *)
(***************************************************************************)
EXTENDS Naturals, Sequences, FiniteSets, FiniteSetsExt

CONSTANTS
  Procs, NoProc,
  NINODES,
  NINODE,        \* entries of the inode cache
  Names,         \* file names other than "." and ".."
  Calls,         \* the system calls made
  Paths, Paths2  \* their arguments, sequences of names; an absolute path
                 \* starts with "/"

Inums == 1 .. NINODES
ROOTINO == 1
\* What the modules that instantiate this one assume of the constants.
InodeAssumption ==
  NoProc \notin Procs /\ NINODES \in Nat \ {0} /\ NINODE \in Nat \ {0}

VARIABLES
  inode,         \* type, nlink; for a directory its entries and ".."
  ref, valid, lock,   \* the cache
  cwd, file,     \* the directory and the open file (or 0) of each process
  pc, reg        \* reg: the locals of the system call a process is in

vars == <<inode, ref, valid, lock, cwd, file, pc, reg>>

NoEntries == [n \in Names |-> 0]
FreeInode == [type |-> "none", nlink |-> 0, ent |-> NoEntries, dotdot |-> 0]
NoReg == [op |-> "none", a |-> <<>>, b |-> <<>>, par |-> FALSE, ok |-> "idle",
          bad |-> "idle", x |-> 0, ip |-> 0, y |-> 0, k |-> "idle"]

Init ==
  /\ inode = [i \in Inums |-> IF i = ROOTINO
                THEN [FreeInode EXCEPT !.type = "dir", !.nlink = 1, !.dotdot = 1]
                ELSE FreeInode]
  /\ cwd = [p \in Procs |-> ROOTINO] /\ file = [p \in Procs |-> 0]
  /\ ref = [i \in Inums |-> IF i = ROOTINO THEN Cardinality(Procs) ELSE 0]
  /\ valid = {} /\ lock = [i \in Inums |-> NoProc]
  /\ pc = [p \in Procs |-> "idle"] /\ reg = [p \in Procs |-> NoReg]

(* Call g (ilock or iput) on inode i and go on at label k, with the locals *)
(* r.  A call that is over forgets its locals.                             *)
Call(p, g, i, k, r) == /\ pc' = [pc EXCEPT ![p] = g]
                       /\ reg' = [reg EXCEPT ![p] = [r EXCEPT !.y = i, !.k = k]]
Goto(p, l, r) == /\ pc' = [pc EXCEPT ![p] = l]
                 /\ reg' = [reg EXCEPT ![p] = IF l = "idle" THEN NoReg ELSE r]
Return(p, l) == Goto(p, l, [reg[p] EXCEPT !.y = 0, !.k = "idle"])
WalkOk(p) == Goto(p, reg[p].ok, [reg[p] EXCEPT !.ok = "idle", !.bad = "idle", !.par = FALSE])
(* iget and idup; iget panics when it needs an entry and all are in use.   *)
Get(i) == ref' = [ref EXCEPT ![i] = @ + 1]
CacheFull(i) == ref[i] = 0 /\ Cardinality({j \in Inums : ref[j] > 0}) = NINODE
GetPanics(p) == Goto(p, "noentry", reg[p]) /\ UNCHANGED ref
iunlock(i) == lock' = [lock EXCEPT ![i] = NoProc]
Name(r) == r.a[1]

(* dirlookup; 0 when there is no such name.                                *)
Lookup(d, n) == CASE n = "." -> d
                  [] n = ".." -> inode[d].dotdot
                  [] OTHER -> inode[d].ent[n]

(* ilock: an inode that is read from disk must be allocated.               *)
ilock(p) ==
  LET i == reg[p].y IN
  /\ pc[p] = "ilock" /\ lock[i] = NoProc
  /\ lock' = [lock EXCEPT ![i] = p] /\ valid' = valid \cup {i}
  /\ Return(p, IF i \notin valid /\ inode[i].type = "none" THEN "panic" ELSE reg[p].k)
  /\ UNCHANGED <<inode, ref, cwd, file>>

(* Faulty: an inode without links is freed while others refer to it; an    *)
(* inode is freed only when nobody at all refers to it.                    *)
LastRefIgnored(i) == TRUE

LastRefZero(i) == ref[i] = 0

LastRef(i) == ref[i] = 1

(* iput: lock, see whether to free, free, unlock; then drop the reference. *)
iput(p) ==
  LET i == reg[p].y IN
  /\ pc[p] = "iput" /\ lock[i] = NoProc
  /\ IF i \in valid /\ inode[i].nlink = 0 /\ LastRef(i)
     THEN lock' = [lock EXCEPT ![i] = p] /\ Goto(p, "ifree", reg[p])
     ELSE UNCHANGED lock /\ Goto(p, "iunref", reg[p])
  /\ UNCHANGED <<inode, ref, valid, cwd, file>>
ifree(p) ==
  LET i == reg[p].y IN
  /\ pc[p] = "ifree" /\ inode' = [inode EXCEPT ![i] = FreeInode]
  /\ valid' = valid \ {i} /\ iunlock(i) /\ Goto(p, "iunref", reg[p])
  /\ UNCHANGED <<ref, cwd, file>>
iunref(p) ==
  LET i == reg[p].y IN
  /\ pc[p] = "iunref" /\ ref' = [ref EXCEPT ![i] = @ - 1]
  /\ valid' = IF ref[i] = 1 THEN valid \ {i} ELSE valid
  /\ Return(p, reg[p].k)
  /\ UNCHANGED <<inode, lock, cwd, file>>

(* namex: start at the root or the current directory.                      *)
Walk(p, path, par, ok, bad, r) ==
  LET abs == path # <<>> /\ Head(path) = "/"
      i == IF abs THEN ROOTINO ELSE cwd[p] IN
  IF CacheFull(i) THEN GetPanics(p)
  ELSE /\ Get(i)
       /\ Goto(p, "walk", [r EXCEPT !.a = IF abs THEN Tail(path) ELSE path,
                           !.par = par, !.ok = ok, !.bad = bad, !.x = i])
WalkEnd(p) ==
  LET r == reg[p] IN
  /\ pc[p] = "walk"
  /\ \/ r.a # <<>> /\ Call(p, "ilock", r.x, "look", r)
     \/ r.a = <<>> /\ r.par /\ Call(p, "iput", r.x, r.bad, r)
     \/ r.a = <<>> /\ ~r.par /\ WalkOk(p)
  /\ UNCHANGED <<inode, ref, valid, lock, cwd, file>>

GetNext(i) == Get(i)

(* One turn of namex's loop, the directory x locked.                       *)
Look(p) ==
  LET r == reg[p]
      n == Lookup(r.x, Name(r)) IN
  /\ pc[p] = "look"
  /\ IF inode[r.x].type # "dir" THEN iunlock(r.x) /\ Call(p, "iput", r.x, r.bad, r) /\ UNCHANGED ref
     ELSE IF r.par /\ Len(r.a) = 1 THEN iunlock(r.x) /\ WalkOk(p) /\ UNCHANGED ref
     ELSE IF n = 0 THEN iunlock(r.x) /\ Call(p, "iput", r.x, r.bad, r) /\ UNCHANGED ref
     ELSE IF CacheFull(n) THEN GetPanics(p) /\ UNCHANGED lock
     ELSE /\ GetNext(n) /\ iunlock(r.x)
          /\ Call(p, "iput", r.x, "walk", [r EXCEPT !.x = n, !.a = Tail(@)])
  /\ UNCHANGED <<inode, valid, cwd, file>>

-----------------------------------------------------------------------------
(* Entry of the system calls.                                              *)
Start(p, op, path, path2) ==
  LET r == [NoReg EXCEPT !.op = op, !.b = path2] IN
  /\ pc[p] = "idle" /\ (op \in {"open", "creat"} => file[p] = 0)
  /\ CASE op \in {"open", "chdir", "link"} -> Walk(p, path, FALSE, op, "idle", r)
       [] op \in {"creat", "mkdir"} -> Walk(p, path, TRUE, "create", "idle", r)
       [] op = "unlink" -> Walk(p, path, TRUE, op, "idle", r)
  /\ UNCHANGED <<inode, valid, lock, cwd, file>>

close(p) ==
  /\ pc[p] = "idle" /\ file[p] # 0
  /\ Call(p, "iput", file[p], "idle", NoReg) /\ file' = [file EXCEPT ![p] = 0]
  /\ UNCHANGED <<inode, ref, valid, lock, cwd>>

(* Calls that go on by locking the inode the walk returned.                *)
LockFound(p) ==
  LET r == reg[p] IN
  /\ \/ pc[p] = "open" /\ Call(p, "ilock", r.x, "fdalloc", [r EXCEPT !.ip = r.x])
     \/ pc[p] = "chdir" /\ Call(p, "ilock", r.x, "dircheck", r)
     \/ pc[p] = "link" /\ Call(p, "ilock", r.x, "addlink", [r EXCEPT !.ip = r.x])
     \/ pc[p] = "create" /\ Call(p, "ilock", r.x, "ialloc", r)
     \/ pc[p] = "unlink" /\ Call(p, "ilock", r.x, "victim", r)
     \/ pc[p] = "dirlink" /\ Call(p, "ilock", r.x, "addname", r)
     \/ pc[p] = "undo" /\ Call(p, "ilock", r.ip, "sublink", r)
  /\ UNCHANGED <<inode, ref, valid, lock, cwd, file>>

(* sys_open, ip locked: a directory opened for writing, or no descriptor,  *)
(* gives the inode back.                                                   *)
fdalloc(p) ==
  LET i == reg[p].ip IN
  /\ pc[p] = "fdalloc" /\ iunlock(i)
  /\ \/ Call(p, "iput", i, "idle", reg[p]) /\ UNCHANGED file
     \/ /\ file[p] = 0 /\ file' = [file EXCEPT ![p] = i]
        /\ Goto(p, "idle", reg[p])
  /\ UNCHANGED <<inode, ref, valid, cwd>>

(* sys_chdir, x locked: the old directory is given back, then replaced.    *)
chdir(p) ==
  LET r == reg[p] IN
  /\ pc[p] = "dircheck" /\ iunlock(r.x)
  /\ IF inode[r.x].type # "dir" THEN Call(p, "iput", r.x, "idle", r)
                                ELSE Call(p, "iput", cwd[p], "setcwd", r)
  /\ UNCHANGED <<inode, ref, valid, cwd, file>>
setcwd(p) ==
  /\ pc[p] = "setcwd" /\ cwd' = [cwd EXCEPT ![p] = reg[p].x]
  /\ Goto(p, "idle", reg[p])
  /\ UNCHANGED <<inode, ref, valid, lock, file>>

(* Faulty: the directory is given back while it is still locked.           *)
LeaveDirLocked(i) == UNCHANGED lock

LeaveDir(i) == iunlock(i)

(* create, the directory x locked: the name exists, or a new inode.        *)
ialloc(p) ==
  LET r == reg[p]
      n == Lookup(r.x, Name(r))
      free == {i \in Inums : inode[i].type = "none"} IN
  /\ pc[p] = "ialloc"
  /\ CASE n # 0 /\ CacheFull(n) -> GetPanics(p) /\ UNCHANGED <<inode, lock>>
       [] n # 0 /\ ~CacheFull(n) ->
            /\ Get(n) /\ LeaveDir(r.x) /\ UNCHANGED inode
            /\ Call(p, "iput", r.x, "exists", [r EXCEPT !.ip = n])
       [] n = 0 /\ free = {} -> Goto(p, "noinodes", r) /\ UNCHANGED <<inode, ref, lock>>
       [] OTHER ->
            /\ inode' = [inode EXCEPT ![Min(free)] = [FreeInode EXCEPT
                           !.type = IF r.op = "mkdir" THEN "dir" ELSE "file"]]
            /\ IF CacheFull(Min(free)) THEN GetPanics(p)
               ELSE /\ Get(Min(free))
                    /\ Call(p, "ilock", Min(free), "newname", [r EXCEPT !.ip = Min(free)])
            /\ UNCHANGED lock
  /\ UNCHANGED <<valid, cwd, file>>
exists(p) ==
  /\ pc[p] = "exists" /\ Call(p, "ilock", reg[p].ip, "reuse", reg[p])
  /\ UNCHANGED <<inode, ref, valid, lock, cwd, file>>
reuse(p) ==
  LET i == reg[p].ip IN
  /\ pc[p] = "reuse"
  /\ IF reg[p].op = "creat" /\ inode[i].type = "file"
     THEN Goto(p, "fdalloc", reg[p]) /\ UNCHANGED lock
     ELSE iunlock(i) /\ Call(p, "iput", i, "idle", reg[p])
  /\ UNCHANGED <<inode, ref, valid, cwd, file>>

(* create, x and the new inode locked: links and names; then x is let go.  *)
newname(p) ==
  LET r == reg[p]
      dir == r.op = "mkdir" IN
  /\ pc[p] = "newname"
  /\ inode' = [inode EXCEPT
       ![r.ip].nlink = 1, ![r.ip].dotdot = IF dir THEN r.x ELSE 0,
       ![r.x].nlink = IF dir THEN @ + 1 ELSE @, ![r.x].ent[Name(r)] = r.ip]
  /\ iunlock(r.x) /\ Call(p, "iput", r.x, IF dir THEN "made" ELSE "fdalloc", r)
  /\ UNCHANGED <<ref, valid, cwd, file>>
made(p) ==
  /\ pc[p] = "made" /\ iunlock(reg[p].ip) /\ Call(p, "iput", reg[p].ip, "idle", reg[p])
  /\ UNCHANGED <<inode, ref, valid, cwd, file>>

(* sys_unlink, the directory x locked.                                     *)
victim(p) ==
  LET r == reg[p]
      n == Lookup(r.x, Name(r)) IN
  /\ pc[p] = "victim"
  /\ IF Name(r) \in {".", ".."} \/ n = 0
     THEN iunlock(r.x) /\ Call(p, "iput", r.x, "idle", r) /\ UNCHANGED ref
     ELSE IF CacheFull(n) THEN GetPanics(p) /\ UNCHANGED lock
     ELSE Get(n) /\ Call(p, "ilock", n, "delname", [r EXCEPT !.ip = n]) /\ UNCHANGED lock
  /\ UNCHANGED <<inode, valid, cwd, file>>
delname(p) ==
  LET r == reg[p]
      dir == inode[r.ip].type = "dir" IN
  /\ pc[p] = "delname"
  /\ CASE inode[r.ip].nlink < 1 -> Goto(p, "panic", r) /\ UNCHANGED <<inode, lock>>
       [] inode[r.ip].nlink >= 1 /\ dir /\ inode[r.ip].ent # NoEntries ->
            iunlock(r.ip) /\ Call(p, "iput", r.ip, "notempty", r) /\ UNCHANGED inode
       [] OTHER ->
            /\ inode' = [inode EXCEPT ![r.x].ent[Name(r)] = 0,
                                      ![r.x].nlink = IF dir THEN @ - 1 ELSE @]
            /\ iunlock(r.x) /\ Call(p, "iput", r.x, "sublink", r)
  /\ UNCHANGED <<ref, valid, cwd, file>>
notempty(p) ==
  LET r == reg[p] IN
  /\ pc[p] = "notempty" /\ iunlock(r.x)
  /\ Call(p, "iput", r.x, IF r.op = "link" THEN "undo" ELSE "idle", r)
  /\ UNCHANGED <<inode, ref, valid, cwd, file>>

(* Faulty: sys_link does not take the link back.                           *)
sublinkNot(p) ==
  LET r == reg[p] IN
  /\ pc[p] = "sublink" /\ iunlock(r.ip)
  /\ inode' = [inode EXCEPT ![r.ip].nlink = IF r.op = "link" THEN @ ELSE @ - 1]
  /\ Call(p, "iput", r.ip, "idle", r)
  /\ UNCHANGED <<ref, valid, cwd, file>>

(* The link counts of sys_unlink and of sys_link's bad exit, ip locked.    *)
sublink(p) ==
  LET r == reg[p] IN
  /\ pc[p] = "sublink" /\ iunlock(r.ip)
  /\ inode' = [inode EXCEPT ![r.ip].nlink = @ - 1]
  /\ Call(p, "iput", r.ip, "idle", r)
  /\ UNCHANGED <<ref, valid, cwd, file>>

(* sys_link: count the link, find the new directory, write the name.       *)
addlink(p) ==
  LET r == reg[p] IN
  /\ pc[p] = "addlink" /\ iunlock(r.ip)
  /\ IF inode[r.ip].type = "dir"
     THEN Call(p, "iput", r.ip, "idle", r) /\ UNCHANGED <<inode, ref>>
     ELSE /\ inode' = [inode EXCEPT ![r.ip].nlink = @ + 1]
          /\ Walk(p, r.b, TRUE, "dirlink", "undo", r)
  /\ UNCHANGED <<valid, cwd, file>>
addname(p) ==
  LET r == reg[p]
      n == Lookup(r.x, Name(r)) IN
  /\ pc[p] = "addname"
  /\ IF n # 0 /\ CacheFull(n) THEN GetPanics(p) /\ UNCHANGED <<inode, lock>>
     ELSE IF n # 0
     THEN Get(n) /\ Call(p, "iput", n, "notempty", r) /\ UNCHANGED <<inode, lock>>
     ELSE /\ inode' = [inode EXCEPT ![r.x].ent[Name(r)] = r.ip]
          /\ iunlock(r.x) /\ Call(p, "iput", r.x, "linked", r) /\ UNCHANGED ref
  /\ UNCHANGED <<valid, cwd, file>>
(* Faulty: sys_link keeps its reference to the file.                       *)
linkedKeeps(p) ==
  /\ pc[p] = "linked" /\ Goto(p, "idle", reg[p])
  /\ UNCHANGED <<inode, ref, valid, lock, cwd, file>>

linked(p) ==
  /\ pc[p] = "linked" /\ Call(p, "iput", reg[p].ip, "idle", reg[p])
  /\ UNCHANGED <<inode, ref, valid, lock, cwd, file>>

Step(p) ==
  \/ \E op \in Calls, a \in Paths, b \in Paths2 :
       (op # "link" => b = CHOOSE c \in Paths2 : TRUE) /\ Start(p, op, a, b)
  \/ close(p) \/ ilock(p) \/ iput(p) \/ ifree(p) \/ iunref(p)
  \/ WalkEnd(p) \/ Look(p) \/ LockFound(p)
  \/ fdalloc(p) \/ chdir(p) \/ setcwd(p)
  \/ ialloc(p) \/ exists(p) \/ reuse(p) \/ newname(p) \/ made(p)
  \/ victim(p) \/ delname(p) \/ notempty(p) \/ sublink(p)
  \/ addlink(p) \/ addname(p) \/ linked(p)

(* A panic freezes every CPU.                                              *)
Next == /\ \A p \in Procs : pc[p] \notin {"panic", "noinodes", "noentry"}
        /\ \E p \in Procs : Step(p)
Spec == Init /\ [][Next]_vars

-----------------------------------------------------------------------------
(* Type invariant.                                                         *)
TypeOK ==
  /\ \A i \in Inums : /\ inode[i].type \in {"none", "dir", "file"}
                      /\ inode[i].nlink \in Nat
                      /\ inode[i].ent \in [Names -> Inums \cup {0}]
  /\ ref \in [Inums -> Nat] /\ valid \subseteq Inums
  /\ lock \in [Inums -> Procs \cup {NoProc}]
  /\ cwd \in [Procs -> Inums] /\ file \in [Procs -> Inums \cup {0}]

Quiet == \A p \in Procs : pc[p] = "idle"
Links(i) == {<<d, n>> \in Inums \X Names : inode[d].ent[n] = i}
Subdirs(d) == {n \in Names : inode[d].ent[n] # 0 /\ inode[inode[d].ent[n]].type = "dir"}

(* When no call is running, which is when the log commits, the link count  *)
(* of every inode is the number of its names (a directory counts its       *)
(* subdirectories as well), and a name leads to an allocated inode: this   *)
(* is what a crash leaves on disk.                                         *)
LinkCounts ==
  Quiet => \A i \in Inums :
    /\ inode[i].type = "file" => inode[i].nlink = Cardinality(Links(i))
    /\ inode[i].type = "none" => Links(i) = {}
    /\ inode[i].type = "dir" /\ inode[i].nlink > 0 =>
         inode[i].nlink = 1 + Cardinality(Subdirs(i))

(* When no call is running, an inode without names is one that somebody    *)
(* still has open: iput has freed the others.                              *)
OrphansFreed ==
  Quiet => \A i \in Inums :
    inode[i].type # "none" /\ inode[i].nlink = 0 => ref[i] > 0

(* When no call is running, the reference counts are those of the open     *)
(* files and current directories: every path through the calls, the failed *)
(* ones too, gives back what it took.                                      *)
RefsBalanced ==
  Quiet => \A i \in Inums : ref[i] = Cardinality({p \in Procs : file[p] = i})
                                     + Cardinality({p \in Procs : cwd[p] = i})

(* An inode that a process has open, works in or has locked is allocated   *)
(* and in the cache, and no process meets a panic: nothing is freed under  *)
(* its users.                                                              *)
InUseKept ==
  /\ \A p \in Procs : pc[p] # "panic"
  /\ \A p \in Procs : \A i \in {file[p], cwd[p]} \ {0} :
       inode[i].type # "none" /\ ref[i] > 0
  /\ \A i \in Inums : lock[i] # NoProc => ref[i] > 0

(* No set of processes waits for each other's inode locks.                 *)
WaitsFor(p) == IF pc[p] \in {"ilock", "iput"} THEN lock[reg[p].y] ELSE NoProc
NoLockCycle ==
  \A S \in (SUBSET Procs) \ {{}} : \E p \in S : WaitsFor(p) \notin S
=============================================================================
