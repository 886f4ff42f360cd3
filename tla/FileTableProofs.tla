-------------------------- MODULE FileTableProofs ---------------------------
(***************************************************************************)
(* Proofs about the table of open files, for every number of processes,    *)
(* files and descriptors: the count of a file is the number of references  *)
(* to it, whatever calls are in progress and wherever they fail.  The      *)
(* invariant behind it says which process is the only one to know a file   *)
(* that has no type yet, and what fork and exit have done so far.          *)
(***************************************************************************)
EXTENDS FileTableSteps

USE ZenonT(10), SMTT(20)

-----------------------------------------------------------------------------
(* fileclose, and the steps of fork and exit.                              *)

(* exit begins at the first descriptor.                                    *)
LEMMA ExitKeeps ==
  ASSUME Setting, TableInv, NEW p \in Procs, Exit(p)
  PROVE  TableInv'
<1>1. PICK s, q : s = loc[p] /\ q = ofile[p]
  OBVIOUS
<1>2. PICK r : r = [s EXCEPT !.k = "exit"]
  OBVIOUS
<1>3. p \in alive /\ pc[p] = "user"
  BY DEF Exit, At
<1>4. /\ s \in Locals /\ q \in [FDs -> Files \cup {0}] /\ Local("user", s, q)
      /\ ref \in [Files -> Nat] /\ type \in [Files -> {"none", "inode", "pipe"}]
      /\ objs \in Nat /\ TypeOK /\ RefsCountDescriptors /\ ObjectsReleased
  BY <1>1, <1>3, Before
<1>5. /\ s = NoLoc /\ r.k = "exit" /\ r.fd = 0 /\ r.f1 = 0 /\ r.child = {} /\ s.child = {}
      /\ r \in Locals
  BY <1>2, <1>4 DEF Local, Locals, NoLoc
<1>6. Moves(p, "exit", r, q)
  BY <1>1, <1>2, <1>4, SameFds DEF Exit, Goto, Moves
<1>7. ref' = ref /\ type' = type /\ objs' = objs /\ alive' = alive
  BY DEF Exit, table
<1>8. RefsCountDescriptors'
  <2>1. \A d \in FDs : Desc("exit", r, q, d) = Desc("user", s, q, d)
    BY DEF Desc
  <2>2. First("user", s) = 0 /\ Second("user", s) = 0
        /\ First("exit", r) = 0 /\ Second("exit", r) = 0
    BY <1>2, <1>5 DEF First, Second
  <2>3. \A h \in Files : ref'[h] + Is(0, h) + Is(0, h) = ref[h] + Is(0, h) + Is(0, h)
    BY <1>3, <1>4, <1>5, <1>7, FileNat DEF Is
  <2> QED
    BY <1>1, <1>3, <1>4, <1>6, <1>7, <2>1, <2>2, <2>3 DEF Setting, CountNoFd
<1>9. ObjectsReleased'
  <2>1. objs' + In("user", Holding) = objs + In("exit", Holding)
    BY <1>4, <1>7 DEF In, Holding
  <2> QED
    BY <1>3, <1>4, <1>6, <1>7, <2>1 DEF Setting, ObjectsSame
<1>10. After(p, "exit", r, q)
  <2>1. /\ \A d \in FDs : Fine(Desc("user", s, q, d), "user", s)
        /\ Fine(First("user", s), "user", s) /\ Fine(Second("user", s), "user", s)
    BY <1>1, <1>3 DEF Setting, OwnsIs
  <2>2. NewFiles("user", s) = {} /\ NewFiles("exit", r) = {}
    BY DEF NewFiles
  <2>3. \A d \in FDs : Kept(Desc("exit", r, q, d), "exit", r)
    BY <1>2, <1>3, <1>4, <1>5, <2>1, <2>2 DEF Fine, Kept, Desc
  <2>4. Kept(First("exit", r), "exit", r) /\ Kept(Second("exit", r), "exit", r)
    BY <1>2, <1>3, <1>5, <2>1, <2>2 DEF Fine, Kept, First, Second, Desc
  <2>5. \A h \in Files : ref'[h] = 0 => type'[h] = "none"
    BY <1>7 DEF TableInv, Typed
  <2> QED
    BY <1>7, <2>2, <2>3, <2>4, <2>5 DEF After
<1>11. Local("exit", r, q) /\ "exit" \in Calls /\ r \in Locals
  <2>1. \A d \in FDs : ~(d < 0)
    BY DEF FDs
  <2> QED
    BY <1>5, <2>1 DEF Local, Calls
<1> QED
  BY <1>1, <1>3, <1>4, <1>5, <1>6, <1>7, <1>8, <1>9, <1>10, <1>11 DEF Setting, Step

(* exit passes over a descriptor that is not open.                         *)
LEMMA ExitFdNone ==
  ASSUME Setting, TableInv, NEW p \in Procs, ExitFd(p), ofile[p][loc[p].fd] = 0
  PROVE  TableInv'
<1>1. PICK s, q, e : s = loc[p] /\ q = ofile[p] /\ e = loc[p].fd
  OBVIOUS
<1>2. PICK r, o : r = [s EXCEPT !.fd = e + 1] /\ o = [q EXCEPT ![e] = 0]
  OBVIOUS
<1>3. p \in alive /\ pc[p] = "exit" /\ e < NOFILE /\ q[e] = 0
  BY <1>1 DEF ExitFd, At
<1>4. /\ s \in Locals /\ q \in [FDs -> Files \cup {0}] /\ Local("exit", s, q)
      /\ ref \in [Files -> Nat] /\ type \in [Files -> {"none", "inode", "pipe"}]
      /\ objs \in Nat /\ TypeOK /\ RefsCountDescriptors /\ ObjectsReleased
  BY <1>1, <1>3, Before
<1>5. /\ e = s.fd /\ e \in FDs /\ o \in [FDs -> Files \cup {0}] /\ o[e] = 0
      /\ \A d \in FDs \ {e} : o[d] = q[d]
      /\ r \in Locals /\ r.child = {} /\ s.child = {} /\ r.k = "exit" /\ r.f1 = 0 /\ r.fd = e + 1
      /\ \A d \in FDs : d < e + 1 => o[d] = 0
  <2>1. e = s.fd /\ e \in FDs /\ s.child = {} /\ s.k = "exit" /\ s.f1 = 0
    BY <1>1, <1>3, <1>4 DEF Local, Locals, FDs, TableAssumption, Setting
  <2>2. o \in [FDs -> Files \cup {0}] /\ o[e] = 0 /\ \A d \in FDs \ {e} : o[d] = q[d]
    BY <1>2, <1>4, <2>1
  <2>3. \A d \in FDs : d < e + 1 => o[d] = 0
    BY <1>4, <2>1, <2>2 DEF Local, FDs, TableAssumption, Setting
  <2>5. e + 1 \in 0 .. NOFILE
    BY <2>1 DEF FDs, TableAssumption, Setting
  <2>4. r \in Locals /\ r.child = {} /\ r.k = "exit" /\ r.f1 = 0 /\ r.fd = e + 1
    BY <1>2, <1>3, <1>4, <2>1, <2>5 DEF Locals
  <2> QED
    BY <2>1, <2>2, <2>3, <2>4
<1>6. Moves(p, "exit", r, o)
  BY <1>1, <1>2, <1>4 DEF ExitFd, Goto, Moves, TypeOK
<1>7. ref' = ref /\ type' = type /\ objs' = objs /\ alive' = alive
  BY DEF ExitFd, table
<1>8. RefsCountDescriptors'
  <2>1. \A d \in FDs \ {e} : Desc("exit", r, o, d) = Desc("exit", s, q, d)
    BY <1>2, <1>4, <1>5 DEF Desc
  <2>2. /\ First("exit", s) = 0 /\ Second("exit", s) = 0 /\ Desc("exit", s, q, e) = 0
        /\ First("exit", r) = 0 /\ Second("exit", r) = 0 /\ Desc("exit", r, o, e) = 0
    BY <1>2, <1>3, <1>5 DEF First, Second, Desc
  <2>3. \A h \in Files : ref'[h] + Is(0, h) + Is(0, h) + Is(0, h)
                           = ref[h] + Is(0, h) + Is(0, h) + Is(0, h)
    BY <1>3, <1>4, <1>5, <1>7, FileNat DEF Is
  <2>4. /\ TypeOK /\ RefsCountDescriptors /\ ref' \in [Files -> Nat]
        /\ pc[p] = "exit" /\ loc[p] = s /\ ofile[p] = q /\ e \in FDs
    BY <1>1, <1>3, <1>4, <1>5, <1>7
  <2> QED
    BY ONLY Setting, p \in Procs, <1>6, <2>1, <2>2, <2>3, <2>4 DEF Setting, CountOneFd
<1>9. ObjectsReleased'
  <2>1. objs' + In("exit", Holding) = objs + In("exit", Holding)
    BY <1>4, <1>7 DEF In, Holding
  <2> QED
    BY <1>3, <1>4, <1>6, <1>7, <2>1 DEF Setting, ObjectsSame
<1>10. After(p, "exit", r, o)
  <2>1. /\ \A d \in FDs : Fine(Desc("exit", s, q, d), "exit", s)
        /\ Fine(First("exit", s), "exit", s) /\ Fine(Second("exit", s), "exit", s)
    BY <1>1, <1>3 DEF Setting, OwnsIs
  <2>2. NewFiles("exit", s) = {} /\ NewFiles("exit", r) = {}
    BY DEF NewFiles
  <2>3. \A d \in FDs : Kept(Desc("exit", r, o, d), "exit", r)
    BY <1>2, <1>3, <1>4, <1>5, <2>1, <2>2 DEF Fine, Kept, Desc
  <2>4. Kept(First("exit", r), "exit", r) /\ Kept(Second("exit", r), "exit", r)
    BY <1>2, <1>3, <1>5, <2>1, <2>2 DEF Fine, Kept, First, Second, Desc
  <2>5. \A h \in Files : ref'[h] = 0 => type'[h] = "none"
    BY <1>7 DEF TableInv, Typed
  <2> QED
    BY <1>7, <2>2, <2>3, <2>4, <2>5 DEF After
<1>11. Local("exit", r, o) /\ "exit" \in Calls /\ r \in Locals
  BY <1>5 DEF Local, Calls
<1> QED
  BY <1>1, <1>3, <1>4, <1>5, <1>6, <1>7, <1>8, <1>9, <1>10, <1>11 DEF Setting, Step

(* exit clears an open descriptor and goes on to close its file.           *)
LEMMA ExitFdOne ==
  ASSUME Setting, TableInv, NEW p \in Procs, ExitFd(p), ofile[p][loc[p].fd] # 0
  PROVE  TableInv'
<1>1. PICK s, q, e, f : s = loc[p] /\ q = ofile[p] /\ e = loc[p].fd /\ f = ofile[p][loc[p].fd]
  OBVIOUS
<1>2. PICK r, o : r = [s EXCEPT !.f0 = f] /\ o = [q EXCEPT ![e] = 0]
  OBVIOUS
<1>3. p \in alive /\ pc[p] = "exit" /\ e < NOFILE /\ f = q[e] /\ f # 0 /\ f \in Files
  <2>1. p \in alive /\ pc[p] = "exit" /\ e < NOFILE /\ f = q[e] /\ f # 0
    BY <1>1 DEF ExitFd, At
  <2>2. e \in FDs /\ q \in [FDs -> Files \cup {0}]
    BY <1>1, <2>1 DEF TableInv, TypeOK, Locals, FDs, TableAssumption, Setting
  <2> QED
    BY <2>1, <2>2
<1>4. /\ s \in Locals /\ q \in [FDs -> Files \cup {0}] /\ Local("exit", s, q)
      /\ ref \in [Files -> Nat] /\ type \in [Files -> {"none", "inode", "pipe"}]
      /\ objs \in Nat /\ TypeOK /\ RefsCountDescriptors /\ ObjectsReleased
  BY <1>1, <1>3, Before
<1>5. /\ e = s.fd /\ e \in FDs /\ o \in [FDs -> Files \cup {0}] /\ o[e] = 0
      /\ \A d \in FDs \ {e} : o[d] = q[d]
      /\ r \in Locals /\ r.child = {} /\ s.child = {} /\ r.k = "exit" /\ r.f1 = 0 /\ r.fd = e
      /\ \A d \in FDs : d < e => o[d] = 0
      /\ r.f0 = f
  <2>1. e = s.fd /\ e \in FDs /\ s.child = {} /\ s.k = "exit" /\ s.f1 = 0
    BY <1>1, <1>3, <1>4 DEF Local, Locals, FDs, TableAssumption, Setting
  <2>2. o \in [FDs -> Files \cup {0}] /\ o[e] = 0 /\ \A d \in FDs \ {e} : o[d] = q[d]
    BY <1>2, <1>4, <2>1
  <2>3. \A d \in FDs : d < e => o[d] = 0
    BY <1>4, <2>1, <2>2 DEF Local, FDs, TableAssumption, Setting
  <2>5. e \in 0 .. NOFILE
    BY <2>1 DEF FDs, TableAssumption, Setting
  <2>4. r \in Locals /\ r.child = {} /\ r.k = "exit" /\ r.f1 = 0 /\ r.fd = e
    BY <1>2, <1>3, <1>4, <2>1, <2>5 DEF Locals
  <2> QED
    BY <1>2, <1>4, <2>1, <2>2, <2>3, <2>4 DEF Locals
<1>6. Moves(p, "close", r, o)
  BY <1>1, <1>2, <1>3, <1>4 DEF ExitFd, Goto, Moves, TypeOK
<1>7. ref' = ref /\ type' = type /\ objs' = objs /\ alive' = alive
  BY DEF ExitFd, table
<1>8. RefsCountDescriptors'
  <2>1. \A d \in FDs \ {e} : Desc("close", r, o, d) = Desc("exit", s, q, d)
    BY <1>2, <1>4, <1>5 DEF Desc
  <2>2. /\ First("exit", s) = 0 /\ Second("exit", s) = 0 /\ Desc("exit", s, q, e) = f
        /\ First("close", r) = f /\ Second("close", r) = 0 /\ Desc("close", r, o, e) = 0
    BY <1>2, <1>3, <1>5 DEF First, Second, Desc
  <2>3. \A h \in Files : ref'[h] + Is(0, h) + Is(0, h) + Is(f, h)
                           = ref[h] + Is(f, h) + Is(0, h) + Is(0, h)
    BY <1>3, <1>4, <1>5, <1>7, FileNat DEF Is
  <2>4. /\ TypeOK /\ RefsCountDescriptors /\ ref' \in [Files -> Nat]
        /\ pc[p] = "exit" /\ loc[p] = s /\ ofile[p] = q /\ e \in FDs
    BY <1>1, <1>3, <1>4, <1>5, <1>7
  <2> QED
    BY ONLY Setting, p \in Procs, <1>6, <2>1, <2>2, <2>3, <2>4 DEF Setting, CountOneFd
<1>9. ObjectsReleased'
  <2>1. objs' + In("exit", Holding) = objs + In("close", Holding)
    BY <1>4, <1>7 DEF In, Holding
  <2> QED
    BY <1>3, <1>4, <1>6, <1>7, <2>1 DEF Setting, ObjectsSame
<1>10. After(p, "close", r, o)
  <2>1. /\ \A d \in FDs : Fine(Desc("exit", s, q, d), "exit", s)
        /\ Fine(First("exit", s), "exit", s) /\ Fine(Second("exit", s), "exit", s)
    BY <1>1, <1>3 DEF Setting, OwnsIs
  <2>2. NewFiles("exit", s) = {} /\ NewFiles("close", r) = {}
    BY DEF NewFiles
  <2>3. \A d \in FDs : Kept(Desc("close", r, o, d), "close", r)
    BY <1>2, <1>3, <1>4, <1>5, <2>1, <2>2 DEF Fine, Kept, Desc
  <2>4. Kept(First("close", r), "close", r) /\ Kept(Second("close", r), "close", r)
    BY <1>2, <1>3, <1>5, <2>1, <2>2 DEF Fine, Kept, First, Second, Desc
  <2>5. \A h \in Files : ref'[h] = 0 => type'[h] = "none"
    BY <1>7 DEF TableInv, Typed
  <2> QED
    BY <1>7, <2>2, <2>3, <2>4, <2>5 DEF After
<1>11. Local("close", r, o) /\ "close" \in Calls /\ r \in Locals
  BY <1>3, <1>5 DEF Local, Calls
<1> QED
  BY <1>1, <1>3, <1>4, <1>5, <1>6, <1>7, <1>8, <1>9, <1>10, <1>11 DEF Setting, Step

(* fileclose of the last reference: the entry is free for anyone at once.  *)
LEMMA CloseLast ==
  ASSUME Setting, TableInv, NEW p \in Procs, fileclose(p), ref[loc[p].f0] = 1
  PROVE  TableInv'
<1>1. PICK s, q, f, g : s = loc[p] /\ q = ofile[p] /\ f = loc[p].f0 /\ g = loc[p].f1
  OBVIOUS
<1>2. PICK r : r = s
  OBVIOUS
<1>3. p \in alive /\ pc[p] = "close" /\ ref[f] = 1
  BY <1>1 DEF fileclose, At
<1>4. /\ s \in Locals /\ q \in [FDs -> Files \cup {0}] /\ Local("close", s, q)
      /\ ref \in [Files -> Nat] /\ type \in [Files -> {"none", "inode", "pipe"}]
      /\ objs \in Nat /\ TypeOK /\ RefsCountDescriptors /\ ObjectsReleased
  BY <1>1, <1>3, Before
<1>5. /\ f = s.f0 /\ g = s.f1 /\ f \in Files /\ g \in Files \cup {0} /\ s.child = {}
      /\ First("close", s) = f /\ Second("close", s) = g
      /\ type[f] # "none" /\ (g # 0 => type[g] # "none") /\ ref[f] \in Nat /\ ref[f] >= 1 /\ Owns(p, f)
  <2>1. f = s.f0 /\ g = s.f1 /\ f \in Files /\ g \in Files \cup {0} /\ s.child = {}
    BY <1>1, <1>4 DEF Local, Locals
  <2>2. First("close", s) = f /\ Second("close", s) = g
    BY <2>1 DEF First, Second
  <2>3. Fine(f, "close", s) /\ Fine(g, "close", s) /\ Owns(p, f)
    BY <1>1, <1>3, <2>2 DEF Setting, OwnsIs
  <2>4. ref[f] \in Nat /\ ref[f] >= 1
    BY <1>4, <2>1, <2>3 DEF Owns, Setting, HeldCounts
  <2> QED
    BY <2>1, <2>2, <2>3, <2>4, FileNat DEF Fine, NewFiles
<1>6. Moves(p, "release", r, q)
  BY <1>1, <1>2, <1>3, <1>4, <1>5, SameFds DEF fileclose, LastClose, Goto, Moves
<1>7. /\ ref' = [ref EXCEPT ![f] = 0] /\ type' = [type EXCEPT ![f] = "none"]
      /\ objs' = objs /\ alive' = alive
      /\ ref' \in [Files -> Nat] /\ type' \in [Files -> {"none", "inode", "pipe"}]
  BY <1>1, <1>3, <1>4, <1>5 DEF fileclose, LastClose
<1>8. RefsCountDescriptors'
  <2>1. \A d \in FDs : Desc("release", r, q, d) = Desc("close", s, q, d)
    BY DEF Desc
  <2>2. First("close", s) = f /\ Second("close", s) = g
        /\ First("release", r) = 0 /\ Second("release", r) = g
    BY <1>2, <1>5 DEF First, Second
  <2>3. \A h \in Files : ref'[h] + Is(f, h) + Is(g, h) = ref[h] + Is(0, h) + Is(g, h)
    BY <1>3, <1>4, <1>5, <1>7, FileNat DEF Is
  <2> QED
    BY <1>1, <1>3, <1>4, <1>6, <1>7, <2>1, <2>2, <2>3 DEF Setting, CountNoFd
<1>9. ObjectsReleased'
  <2>1. PICK t : t = type[f]
    OBVIOUS
  <2>2. t \in Kinds
    BY <1>4, <1>5, <2>1 DEF Kinds
  <2>3. objs' + In("close", Holding) + In(t, Kinds)
          = objs + In("release", Holding) + In("none", Kinds)
    BY <1>4, <1>7, <2>2 DEF In, Holding, Kinds
  <2>4. Retyped(f, t, "none")
    BY <1>4, <1>5, <1>7, <2>1 DEF Same1, Retyped
  <2> QED
    BY <1>3, <1>4, <1>5, <1>6, <1>7, <2>3, <2>4 DEF Setting, ObjectsFile
<1>10. After(p, "release", r, q)
  <2>1. \A d \in FDs : Fine(Desc("close", s, q, d), "close", s)
    BY <1>1, <1>3 DEF Setting, OwnsIs
  <2>2. NewFiles("close", s) = {} /\ NewFiles("release", r) = {}
    BY DEF NewFiles
  <2>3. \A d \in FDs : Kept(Desc("release", r, q, d), "release", r)
    BY <2>1, <2>2 DEF Fine, Kept, Desc
  <2>4. Kept(First("release", r), "release", r) /\ Kept(Second("release", r), "release", r)
    BY <1>2, <1>4, <1>5 DEF Kept, First, Second, Locals
  <2>5. \A h \in Files : ref'[h] = 0 => type'[h] = "none"
    BY <1>3, <1>4, <1>5, <1>7 DEF TableInv, Typed
  <2>6. \A h \in Files : (ref'[h] = ref[h] /\ type'[h] = type[h]) \/ ref[h] = 0 \/ Owns(p, h)
    BY <1>4, <1>5, <1>7
  <2>7. \A h \in Files : type[h] # "none" /\ type'[h] = "none" => ref'[h] = 0
    BY <1>4, <1>5, <1>7
  <2> QED
    BY <2>2, <2>3, <2>4, <2>5, <2>6, <2>7 DEF After
<1>11. Local("release", r, q) /\ "release" \in Calls /\ r \in Locals
  BY <1>2, <1>4, <1>5 DEF Local, Calls
<1> QED
  BY <1>1, <1>3, <1>4, <1>5, <1>6, <1>7, <1>8, <1>9, <1>10, <1>11, <1>2 DEF Setting, Step

(* Where fileclose goes on: the other file of sys_pipe, or its caller.     *)
Goes(s, l, r) ==
  \/ s.f1 # 0 /\ l = "close" /\ r = [s EXCEPT !.f0 = s.f1, !.f1 = 0]
  \/ s.f1 = 0 /\ l = "user" /\ s.k = "user" /\ r = NoLoc
  \/ s.f1 = 0 /\ l = "exit" /\ s.k = "exit" /\ r = [s EXCEPT !.f0 = 0]

(* Wherever fileclose goes on, the call then holds the other file only.    *)
LEMMA GoesIs ==
  ASSUME TableAssumption, NEW s, NEW q, NEW l, NEW r, NEW m, s \in Locals,
         m \in {"close", "release"}, Local(m, s, q), Goes(s, l, r)
  PROVE  /\ r \in Locals /\ r.child = {} /\ l \in {"close", "user", "exit"}
         /\ First(l, r) = s.f1 /\ Second(l, r) = 0 /\ Local(l, r, q)
<1>1. s.child = {} /\ s.f1 \in Files \cup {0}
  BY DEF Local, Locals
<1>2. CASE s.f1 # 0 /\ l = "close" /\ r = [s EXCEPT !.f0 = s.f1, !.f1 = 0]
  <2>1. /\ r \in Locals /\ r.child = {} /\ r.f0 = s.f1 /\ r.f1 = 0
        /\ r.k = s.k /\ r.fd = s.fd
    BY <1>1, <1>2 DEF Locals
  <2> QED
    BY <1>2, <2>1 DEF First, Second, Local
<1>3. CASE s.f1 = 0 /\ l = "user" /\ r = NoLoc
  BY <1>3 DEF First, Second, Local, Locals, NoLoc, TableAssumption
<1>4. CASE s.f1 = 0 /\ l = "exit" /\ s.k = "exit" /\ r = [s EXCEPT !.f0 = 0]
  <2>1. /\ r \in Locals /\ r.child = {} /\ r.f1 = 0 /\ r.k = "exit" /\ r.fd = s.fd
    BY <1>1, <1>4 DEF Locals
  <2> QED
    BY <1>4, <2>1 DEF First, Second, Local
<1> QED
  BY <1>2, <1>3, <1>4 DEF Goes

(* Closed is one of those three moves.                                     *)
LEMMA ClosedGoes ==
  ASSUME TypeOK, NEW p \in Procs, Closed(p), ofile' = ofile, NEW s, s = loc[p]
  PROVE  \E l, r : Goes(s, l, r) /\ Moves(p, l, r, ofile[p])
<1>1. s.k \in {"user", "exit"}
  BY DEF TypeOK, Locals
<1>2. ofile' = [ofile EXCEPT ![p] = ofile[p]]
  BY SameFds
<1>3. CASE s.f1 # 0
  <2>1. Goes(s, "close", [s EXCEPT !.f0 = s.f1, !.f1 = 0])
    BY <1>3 DEF Goes
  <2>2. Moves(p, "close", [s EXCEPT !.f0 = s.f1, !.f1 = 0], ofile[p])
    BY <1>2, <1>3 DEF Closed, Goto, Moves
  <2> QED
    BY <2>1, <2>2
<1>4. CASE s.f1 = 0 /\ s.k = "user"
  <2>1. Goes(s, "user", NoLoc)
    BY <1>4 DEF Goes
  <2>2. Moves(p, "user", NoLoc, ofile[p])
    BY <1>2, <1>4 DEF Closed, Goto, Moves
  <2> QED
    BY <2>1, <2>2
<1>5. CASE s.f1 = 0 /\ s.k = "exit"
  <2>1. Goes(s, "exit", [s EXCEPT !.f0 = 0])
    BY <1>5 DEF Goes
  <2>2. Moves(p, "exit", [s EXCEPT !.f0 = 0], ofile[p])
    BY <1>2, <1>5 DEF Closed, Goto, Moves
  <2> QED
    BY <2>1, <2>2
<1> QED
  BY <1>1, <1>3, <1>4, <1>5

(* fileclose of a reference that is not the last one.                      *)
LEMMA CloseSome ==
  ASSUME Setting, TableInv, NEW p \in Procs, fileclose(p), ref[loc[p].f0] # 1
  PROVE  TableInv'
<1>1. PICK s, q, f, g : s = loc[p] /\ q = ofile[p] /\ f = loc[p].f0 /\ g = loc[p].f1
  OBVIOUS
<1>3. p \in alive /\ pc[p] = "close" /\ ref[f] # 1
  BY <1>1 DEF fileclose, At
<1>4. /\ s \in Locals /\ q \in [FDs -> Files \cup {0}] /\ Local("close", s, q)
      /\ ref \in [Files -> Nat] /\ type \in [Files -> {"none", "inode", "pipe"}]
      /\ objs \in Nat /\ TypeOK /\ RefsCountDescriptors /\ ObjectsReleased
  BY <1>1, <1>3, Before
<1>2. PICK l, r : Goes(s, l, r) /\ Moves(p, l, r, q)
  BY <1>1, <1>3, <1>4, ClosedGoes DEF fileclose, LastClose
<1>5. /\ f = s.f0 /\ g = s.f1 /\ f \in Files /\ g \in Files \cup {0} /\ s.child = {}
      /\ First("close", s) = f /\ Second("close", s) = g
      /\ type[f] # "none" /\ (g # 0 => type[g] # "none") /\ ref[f] \in Nat /\ ref[f] >= 1 /\ Owns(p, f)
  <2>1. f = s.f0 /\ g = s.f1 /\ f \in Files /\ g \in Files \cup {0} /\ s.child = {}
    BY <1>1, <1>4 DEF Local, Locals
  <2>2. First("close", s) = f /\ Second("close", s) = g
    BY <2>1 DEF First, Second
  <2>3. Fine(f, "close", s) /\ Fine(g, "close", s) /\ Owns(p, f)
    BY <1>1, <1>3, <2>2 DEF Setting, OwnsIs
  <2>4. ref[f] \in Nat /\ ref[f] >= 1
    BY <1>4, <2>1, <2>3 DEF Owns, Setting, HeldCounts
  <2> QED
    BY <2>1, <2>2, <2>3, <2>4, FileNat DEF Fine, NewFiles
<1>6. /\ r \in Locals /\ r.child = {} /\ l \in {"close", "user", "exit"}
      /\ First(l, r) = g /\ Second(l, r) = 0 /\ Local(l, r, q)
  BY <1>2, <1>4, <1>5, GoesIs DEF Setting
<1>7. /\ ref' = [ref EXCEPT ![f] = ref[f] - 1] /\ type' = type /\ objs' = objs /\ alive' = alive
      /\ ref' \in [Files -> Nat]
  BY <1>1, <1>3, <1>4, <1>5 DEF fileclose, LastClose
<1>8. RefsCountDescriptors'
  <2>1. \A d \in FDs : Desc(l, r, q, d) = Desc("close", s, q, d)
    BY <1>6 DEF Desc
  <2>2. \A h \in Files : ref'[h] + Is(f, h) + Is(g, h) = ref[h] + Is(g, h) + Is(0, h)
    BY <1>4, <1>5, <1>7, FileNat DEF Is
  <2> QED
    BY <1>1, <1>2, <1>3, <1>4, <1>5, <1>6, <1>7, <2>1, <2>2 DEF Setting, CountNoFd
<1>9. ObjectsReleased'
  <2>1. objs' + In("close", Holding) = objs + In(l, Holding)
    BY <1>4, <1>6, <1>7 DEF In, Holding
  <2> QED
    BY <1>2, <1>3, <1>4, <1>7, <2>1 DEF Setting, ObjectsSame
<1>10. After(p, l, r, q)
  <2>1. \A d \in FDs : Fine(Desc("close", s, q, d), "close", s)
    BY <1>1, <1>3 DEF Setting, OwnsIs
  <2>2. NewFiles("close", s) = {} /\ NewFiles(l, r) = {}
    BY <1>6 DEF NewFiles
  <2>3. \A d \in FDs : Kept(Desc(l, r, q, d), l, r)
    BY <1>6, <2>1, <2>2 DEF Fine, Kept, Desc
  <2>4. Kept(First(l, r), l, r) /\ Kept(Second(l, r), l, r)
    BY <1>5, <1>6 DEF Kept
  <2>5. \A h \in Files : ref'[h] = 0 => type'[h] = "none"
    BY <1>3, <1>4, <1>5, <1>7 DEF TableInv, Typed
  <2>6. \A h \in Files : (ref'[h] = ref[h] /\ type'[h] = type[h]) \/ ref[h] = 0 \/ Owns(p, h)
    BY <1>4, <1>5, <1>7
  <2> QED
    BY <1>7, <2>2, <2>3, <2>4, <2>5, <2>6 DEF After
<1> QED
  BY <1>1, <1>2, <1>3, <1>4, <1>5, <1>6, <1>7, <1>8, <1>9, <1>10 DEF Setting, Step, Calls

(* The end of fileclose, without the lock: the object goes.                *)
LEMMA ReleaseKeeps ==
  ASSUME Setting, TableInv, NEW p \in Procs, Release(p)
  PROVE  TableInv'
<1>1. PICK s, q, g : s = loc[p] /\ q = ofile[p] /\ g = loc[p].f1
  OBVIOUS
<1>3. p \in alive /\ pc[p] = "release"
  BY <1>1 DEF Release, At
<1>4. /\ s \in Locals /\ q \in [FDs -> Files \cup {0}] /\ Local("release", s, q)
      /\ ref \in [Files -> Nat] /\ type \in [Files -> {"none", "inode", "pipe"}]
      /\ objs \in Nat /\ TypeOK /\ RefsCountDescriptors /\ ObjectsReleased
  BY <1>1, <1>3, Before
<1>2. PICK l, r : Goes(s, l, r) /\ Moves(p, l, r, q)
  BY <1>1, <1>4, ClosedGoes DEF Release
<1>5. /\ g = s.f1 /\ g \in Files \cup {0} /\ s.child = {}
      /\ First("release", s) = 0 /\ Second("release", s) = g /\ (g # 0 => type[g] # "none")
  <2>1. g = s.f1 /\ g \in Files \cup {0} /\ s.child = {}
    BY <1>1, <1>4 DEF Local, Locals
  <2>2. First("release", s) = 0 /\ Second("release", s) = g
    BY <2>1 DEF First, Second
  <2>3. Fine(g, "release", s)
    BY <1>1, <1>3, <2>2 DEF Setting, OwnsIs
  <2> QED
    BY <2>1, <2>2, <2>3 DEF Fine, NewFiles
<1>6. /\ r \in Locals /\ r.child = {} /\ l \in {"close", "user", "exit"}
      /\ First(l, r) = g /\ Second(l, r) = 0 /\ Local(l, r, q)
  BY <1>2, <1>4, <1>5, GoesIs DEF Setting
<1>7. /\ ref' = ref /\ type' = type /\ objs' = objs - 1 /\ alive' = alive /\ objs' \in Nat
  <2>1. objs >= 1
    BY <1>3, <1>4 DEF Holding, Setting, ObjectsSome
  <2> QED
    BY <1>4, <2>1 DEF Release
<1>8. RefsCountDescriptors'
  <2>1. \A d \in FDs : Desc(l, r, q, d) = Desc("release", s, q, d)
    BY <1>6 DEF Desc
  <2>2. \A h \in Files : ref'[h] + Is(0, h) + Is(g, h) = ref[h] + Is(g, h) + Is(0, h)
    BY <1>4, <1>5, <1>7, FileNat DEF Is
  <2> QED
    BY <1>1, <1>2, <1>3, <1>4, <1>5, <1>6, <1>7, <2>1, <2>2 DEF Setting, CountNoFd
<1>9. ObjectsReleased'
  <2>1. objs' + In("release", Holding) = objs + In(l, Holding)
    BY <1>4, <1>6, <1>7 DEF In, Holding
  <2> QED
    BY <1>2, <1>3, <1>4, <1>7, <2>1 DEF Setting, ObjectsSame
<1>10. After(p, l, r, q)
  <2>1. \A d \in FDs : Fine(Desc("release", s, q, d), "release", s)
    BY <1>1, <1>3 DEF Setting, OwnsIs
  <2>2. NewFiles("release", s) = {} /\ NewFiles(l, r) = {}
    BY <1>6 DEF NewFiles
  <2>3. \A d \in FDs : Kept(Desc(l, r, q, d), l, r)
    BY <1>6, <2>1, <2>2 DEF Fine, Kept, Desc
  <2>4. Kept(First(l, r), l, r) /\ Kept(Second(l, r), l, r)
    BY <1>5, <1>6 DEF Kept
  <2>5. \A h \in Files : ref'[h] = 0 => type'[h] = "none"
    BY <1>7 DEF TableInv, Typed
  <2> QED
    BY <1>7, <2>2, <2>3, <2>4, <2>5 DEF After
<1> QED
  BY <1>1, <1>2, <1>3, <1>4, <1>5, <1>6, <1>7, <1>8, <1>9, <1>10 DEF Setting, Step, Calls

(* fork begins with a child that does not run and has no descriptors.      *)
LEMMA ForkKeeps ==
  ASSUME Setting, TableInv, NEW p \in Procs, NEW c \in Procs, Fork(p, c)
  PROVE  TableInv'
<1>1. PICK s, q : s = loc[p] /\ q = ofile[p]
  OBVIOUS
<1>2. PICK r : r = [s EXCEPT !.child = {c}]
  OBVIOUS
<1>3. p \in alive /\ pc[p] = "user" /\ c \notin alive /\ \A t \in Procs : c \notin loc[t].child
  BY DEF Fork, At
<1>4. /\ s \in Locals /\ q \in [FDs -> Files \cup {0}] /\ Local("user", s, q)
      /\ ref \in [Files -> Nat] /\ type \in [Files -> {"none", "inode", "pipe"}]
      /\ objs \in Nat /\ TypeOK /\ RefsCountDescriptors /\ ObjectsReleased
  BY <1>1, <1>3, Before
<1>5. /\ s = NoLoc /\ r.k = "user" /\ r.fd = 0 /\ r.f1 = 0 /\ r.child = {c} /\ s.child = {}
      /\ r \in Locals
  BY <1>2, <1>4 DEF Local, Locals, NoLoc
<1>6. Moves(p, "fork", r, q)
  BY <1>1, <1>2, <1>4, SameFds DEF Fork, Goto, Moves
<1>7. ref' = ref /\ type' = type /\ objs' = objs /\ alive' = alive
  BY DEF Fork, table
<1>8. RefsCountDescriptors'
  <2>1. \A d \in FDs : Desc("fork", r, q, d) = Desc("user", s, q, d)
    BY DEF Desc
  <2>2. First("user", s) = 0 /\ Second("user", s) = 0
        /\ First("fork", r) = 0 /\ Second("fork", r) = 0
    BY <1>2, <1>5 DEF First, Second
  <2>3. \A h \in Files : ref'[h] + Is(0, h) + Is(0, h) = ref[h] + Is(0, h) + Is(0, h)
    BY <1>3, <1>4, <1>5, <1>7, FileNat DEF Is
  <2> QED
    BY <1>1, <1>3, <1>4, <1>6, <1>7, <2>1, <2>2, <2>3 DEF Setting, CountNoFd
<1>9. ObjectsReleased'
  <2>1. objs' + In("user", Holding) = objs + In("fork", Holding)
    BY <1>4, <1>7 DEF In, Holding
  <2> QED
    BY <1>3, <1>4, <1>6, <1>7, <2>1 DEF Setting, ObjectsSame
<1>10. After(p, "fork", r, q)
  <2>1. /\ \A d \in FDs : Fine(Desc("user", s, q, d), "user", s)
        /\ Fine(First("user", s), "user", s) /\ Fine(Second("user", s), "user", s)
    BY <1>1, <1>3 DEF Setting, OwnsIs
  <2>2. NewFiles("user", s) = {} /\ NewFiles("fork", r) = {}
    BY DEF NewFiles
  <2>3. \A d \in FDs : Kept(Desc("fork", r, q, d), "fork", r)
    BY <1>2, <1>3, <1>4, <1>5, <2>1, <2>2 DEF Fine, Kept, Desc
  <2>4. Kept(First("fork", r), "fork", r) /\ Kept(Second("fork", r), "fork", r)
    BY <1>2, <1>3, <1>5, <2>1, <2>2 DEF Fine, Kept, First, Second, Desc
  <2>5. \A h \in Files : ref'[h] = 0 => type'[h] = "none"
    BY <1>7 DEF TableInv, Typed
  <2> QED
    BY <1>7, <2>2, <2>3, <2>4, <2>5 DEF After
<1>11. Local("fork", r, q) /\ "fork" \in Calls /\ r \in Locals
  BY <1>5 DEF Local, Calls
<1>12. Offspring' /\ alive' \subseteq Procs
  <2>1. /\ \A t \in Procs : t # p => pc'[t] = pc[t] /\ loc'[t] = loc[t] /\ ofile'[t] = ofile[t]
        /\ pc'[p] = "fork" /\ loc'[p] = r /\ ofile'[p] = q
    BY <1>4, <1>6, MovesIs
  <2>2. p \in Procs /\ p \in alive /\ loc[p] = s /\ ofile[p] = q /\ alive \subseteq Procs
    BY <1>1, <1>3, <1>4 DEF TypeOK
  <2>3. /\ \A i, j \in Procs : loc[i].child \cap loc[j].child # {} => i = j
        /\ \A i \in Procs : loc[i].child \subseteq Procs \ alive
        /\ \A i \in Procs : \A j, k \in loc[i].child : j = k
    BY DEF TableInv, Offspring
  <2>4. \A j \in Procs \ alive :
          /\ pc[j] = "user"
          /\ \A d \in FDs : ofile[j][d] # 0 =>
               \E i \in Procs : j \in loc[i].child /\ d < loc[i].fd
    BY DEF TableInv, Offspring
  <2>5. alive' \subseteq Procs
    BY <1>7, <2>2
  <2>6. \A t \in Procs : loc'[t].child = IF t = p THEN {c} ELSE loc[t].child
    BY <1>5, <2>1
  <2>7. \A i \in Procs : loc[i].child # {} => i # p /\ loc'[i].fd = loc[i].fd
    BY <1>5, <2>1, <2>2
  <2>8. /\ \A i, j \in Procs : loc'[i].child \cap loc'[j].child # {} => i = j
        /\ \A i \in Procs : loc'[i].child \subseteq Procs \ alive'
        /\ \A i \in Procs : \A j, k \in loc'[i].child : j = k
    BY <1>3, <1>7, <2>3, <2>6
  <2>9. \A j \in Procs \ alive' :
          /\ pc'[j] = "user"
          /\ \A d \in FDs : ofile'[j][d] # 0 =>
               \E i \in Procs : j \in loc'[i].child /\ d < loc'[i].fd
    BY <1>5, <1>7, <2>1, <2>2, <2>4, <2>6, <2>7
  <2> QED
    BY <1>7, <2>2, <2>5, <2>8, <2>9 DEF Offspring
<1> QED
  BY <1>1, <1>3, <1>4, <1>5, <1>6, <1>7, <1>8, <1>9, <1>10, <1>11, <1>12 DEF Setting,
     AnyStep

(* fork passes over a descriptor that is not open.                         *)
LEMMA ForkFdNone ==
  ASSUME Setting, TableInv, NEW p \in Procs, ForkFd(p), ofile[p][loc[p].fd] = 0
  PROVE  TableInv'
<1>1. PICK s, q, e : s = loc[p] /\ q = ofile[p] /\ e = loc[p].fd
  OBVIOUS
<1>2. PICK r : r = [s EXCEPT !.fd = e + 1]
  OBVIOUS
<1>3. p \in alive /\ pc[p] = "fork" /\ e < NOFILE
  BY <1>1 DEF ForkFd, At
<1>4. /\ s \in Locals /\ q \in [FDs -> Files \cup {0}] /\ Local("fork", s, q)
      /\ ref \in [Files -> Nat] /\ type \in [Files -> {"none", "inode", "pipe"}]
      /\ objs \in Nat /\ TypeOK /\ RefsCountDescriptors /\ ObjectsReleased
  BY <1>1, <1>3, Before
<1>5. /\ e \in Nat /\ r \in Locals /\ r.child = s.child /\ r.child # {} /\ r.k = "user" /\ r.fd = e + 1 /\ s.fd = e
  <2>1. s.child # {} /\ s.k = "user" /\ s.fd = e /\ e \in Nat
    BY <1>1, <1>4 DEF Local, Locals
  <2>2. e + 1 \in 0 .. NOFILE
    BY <1>3, <2>1 DEF TableAssumption, Setting
  <2> QED
    BY <1>2, <1>4, <2>1, <2>2 DEF Locals
<1>6. Moves(p, "fork", r, q)
  BY <1>1, <1>2, <1>4, SameFds DEF ForkFd, Goto, Moves
<1>7. ref' = ref /\ type' = type /\ objs' = objs /\ alive' = alive
  BY DEF ForkFd
<1>8. RefsCountDescriptors'
  <2>1. \A d \in FDs : Desc("fork", r, q, d) = Desc("fork", s, q, d)
    BY DEF Desc
  <2>2. First("fork", s) = 0 /\ Second("fork", s) = 0
        /\ First("fork", r) = 0 /\ Second("fork", r) = 0
    BY <1>2, <1>5 DEF First, Second
  <2>3. \A h \in Files : ref'[h] + Is(0, h) + Is(0, h) = ref[h] + Is(0, h) + Is(0, h)
    BY <1>3, <1>4, <1>5, <1>7, FileNat DEF Is
  <2> QED
    BY <1>1, <1>3, <1>4, <1>6, <1>7, <2>1, <2>2, <2>3 DEF Setting, CountNoFd
<1>9. ObjectsReleased'
  <2>1. objs' + In("fork", Holding) = objs + In("fork", Holding)
    BY <1>4, <1>7 DEF In, Holding
  <2> QED
    BY <1>3, <1>4, <1>6, <1>7, <2>1 DEF Setting, ObjectsSame
<1>10. After(p, "fork", r, q)
  <2>1. /\ \A d \in FDs : Fine(Desc("fork", s, q, d), "fork", s)
        /\ Fine(First("fork", s), "fork", s) /\ Fine(Second("fork", s), "fork", s)
    BY <1>1, <1>3 DEF Setting, OwnsIs
  <2>2. NewFiles("fork", s) = {} /\ NewFiles("fork", r) = {}
    BY DEF NewFiles
  <2>3. \A d \in FDs : Kept(Desc("fork", r, q, d), "fork", r)
    BY <1>2, <1>3, <1>4, <1>5, <2>1, <2>2 DEF Fine, Kept, Desc
  <2>4. Kept(First("fork", r), "fork", r) /\ Kept(Second("fork", r), "fork", r)
    BY <1>2, <1>3, <1>5, <2>1, <2>2 DEF Fine, Kept, First, Second, Desc
  <2>5. \A h \in Files : ref'[h] = 0 => type'[h] = "none"
    BY <1>7 DEF TableInv, Typed
  <2> QED
    BY <1>7, <2>2, <2>3, <2>4, <2>5 DEF After
<1>11. Local("fork", r, q) /\ "fork" \in Calls /\ r \in Locals
  BY <1>5 DEF Local, Calls
<1>12. Offspring' /\ alive' \subseteq Procs
  <2>1. /\ \A t \in Procs : t # p => pc'[t] = pc[t] /\ loc'[t] = loc[t] /\ ofile'[t] = ofile[t]
        /\ pc'[p] = "fork" /\ loc'[p] = r /\ ofile'[p] = q
    BY <1>4, <1>6, MovesIs
  <2>2. p \in Procs /\ p \in alive /\ loc[p] = s /\ ofile[p] = q /\ alive \subseteq Procs
    BY <1>1, <1>3, <1>4 DEF TypeOK
  <2>3. /\ \A i, j \in Procs : loc[i].child \cap loc[j].child # {} => i = j
        /\ \A i \in Procs : loc[i].child \subseteq Procs \ alive
        /\ \A i \in Procs : \A j, k \in loc[i].child : j = k
    BY DEF TableInv, Offspring
  <2>4. \A j \in Procs \ alive :
          /\ pc[j] = "user"
          /\ \A d \in FDs : ofile[j][d] # 0 =>
               \E i \in Procs : j \in loc[i].child /\ d < loc[i].fd
    BY DEF TableInv, Offspring
  <2>5. alive' \subseteq Procs
    BY <1>7, <2>2
  <2>6. \A t \in Procs : loc'[t].child = loc[t].child
    BY <1>5, <2>1, <2>2
  <2>7. \A i \in Procs : \A d \in FDs : d < loc[i].fd => d < loc'[i].fd
    BY <1>5, <2>1, <2>2, PlaceIs
  <2>8. /\ \A i, j \in Procs : loc'[i].child \cap loc'[j].child # {} => i = j
        /\ \A i \in Procs : loc'[i].child \subseteq Procs \ alive'
        /\ \A i \in Procs : \A j, k \in loc'[i].child : j = k
    BY <1>7, <2>3, <2>6
  <2>9. \A j \in Procs \ alive' :
          /\ pc'[j] = "user"
          /\ \A d \in FDs : ofile'[j][d] # 0 =>
               \E i \in Procs : j \in loc'[i].child /\ d < loc'[i].fd
    BY <1>7, <2>1, <2>2, <2>4, <2>6, <2>7
  <2> QED
    BY <1>7, <2>2, <2>5, <2>8, <2>9 DEF Offspring
<1> QED
  BY <1>1, <1>3, <1>4, <1>5, <1>6, <1>7, <1>8, <1>9, <1>10, <1>11, <1>12 DEF Setting,
     AnyStep

(* fork ends: the child runs with the descriptors it was given.            *)
LEMMA ForkEndKeeps ==
  ASSUME Setting, TableInv, NEW p \in Procs, ForkEnd(p)
  PROVE  TableInv'
<1>1. PICK s, q : s = loc[p] /\ q = ofile[p]
  OBVIOUS
<1>2. PICK r : r = NoLoc
  OBVIOUS
<1>3. p \in alive /\ pc[p] = "fork"
  BY <1>1 DEF ForkEnd, At
<1>4. /\ s \in Locals /\ q \in [FDs -> Files \cup {0}] /\ Local("fork", s, q)
      /\ ref \in [Files -> Nat] /\ type \in [Files -> {"none", "inode", "pipe"}]
      /\ objs \in Nat /\ TypeOK /\ RefsCountDescriptors /\ ObjectsReleased
  BY <1>1, <1>3, Before
<1>5. r.child = {} /\ s.child \subseteq Procs
  BY <1>2, <1>4 DEF NoLoc, Locals
<1>6. Moves(p, "user", r, q)
  BY <1>1, <1>2, <1>4, SameFds DEF ForkEnd, Goto, Moves
<1>7. ref' = ref /\ type' = type /\ objs' = objs /\ alive' = alive \cup s.child
  BY <1>1 DEF ForkEnd, table
<1>8. RefsCountDescriptors'
  <2>1. \A d \in FDs : Desc("user", r, q, d) = Desc("fork", s, q, d)
    BY DEF Desc
  <2>2. First("fork", s) = 0 /\ Second("fork", s) = 0
        /\ First("user", r) = 0 /\ Second("user", r) = 0
    BY <1>2, <1>5 DEF First, Second
  <2>3. \A h \in Files : ref'[h] + Is(0, h) + Is(0, h) = ref[h] + Is(0, h) + Is(0, h)
    BY <1>3, <1>4, <1>5, <1>7, FileNat DEF Is
  <2> QED
    BY <1>1, <1>3, <1>4, <1>6, <1>7, <2>1, <2>2, <2>3 DEF Setting, CountNoFd
<1>9. ObjectsReleased'
  <2>1. objs' + In("fork", Holding) = objs + In("user", Holding)
    BY <1>4, <1>7 DEF In, Holding
  <2> QED
    BY <1>3, <1>4, <1>6, <1>7, <2>1 DEF Setting, ObjectsSame
<1>10. After(p, "user", r, q)
  <2>1. /\ \A d \in FDs : Fine(Desc("fork", s, q, d), "fork", s)
        /\ Fine(First("fork", s), "fork", s) /\ Fine(Second("fork", s), "fork", s)
    BY <1>1, <1>3 DEF Setting, OwnsIs
  <2>2. NewFiles("fork", s) = {} /\ NewFiles("user", r) = {}
    BY DEF NewFiles
  <2>3. \A d \in FDs : Kept(Desc("user", r, q, d), "user", r)
    BY <1>2, <1>3, <1>4, <1>5, <2>1, <2>2 DEF Fine, Kept, Desc
  <2>4. Kept(First("user", r), "user", r) /\ Kept(Second("user", r), "user", r)
    BY <1>2, <1>3, <1>5, <2>1, <2>2 DEF Fine, Kept, First, Second, Desc
  <2>5. \A h \in Files : ref'[h] = 0 => type'[h] = "none"
    BY <1>7 DEF TableInv, Typed
  <2> QED
    BY <1>7, <2>2, <2>3, <2>4, <2>5 DEF After
<1>11. Local("user", r, q) /\ "user" \in Calls /\ r \in Locals
  BY <1>2, <1>3 DEF Local, NoLoc, Calls, Locals, TableAssumption, Setting
<1>12. Offspring' /\ alive' \subseteq Procs
  <2>1. /\ \A t \in Procs : t # p => pc'[t] = pc[t] /\ loc'[t] = loc[t] /\ ofile'[t] = ofile[t]
        /\ pc'[p] = "user" /\ loc'[p] = r /\ ofile'[p] = q
    BY <1>4, <1>6, MovesIs
  <2>2. p \in Procs /\ p \in alive /\ loc[p] = s /\ ofile[p] = q /\ alive \subseteq Procs
    BY <1>1, <1>3, <1>4 DEF TypeOK
  <2>3. /\ \A i, j \in Procs : loc[i].child \cap loc[j].child # {} => i = j
        /\ \A i \in Procs : loc[i].child \subseteq Procs \ alive
        /\ \A i \in Procs : \A j, k \in loc[i].child : j = k
    BY DEF TableInv, Offspring
  <2>4. \A j \in Procs \ alive :
          /\ pc[j] = "user"
          /\ \A d \in FDs : ofile[j][d] # 0 =>
               \E i \in Procs : j \in loc[i].child /\ d < loc[i].fd
    BY DEF TableInv, Offspring
  <2>5. alive' \subseteq Procs
    BY <1>5, <1>7, <2>2
  <2>6. \A t \in Procs : loc'[t].child = IF t = p THEN {} ELSE loc[t].child
    BY <1>5, <2>1
  <2>7. \A i \in Procs : i # p => loc'[i].fd = loc[i].fd
    BY <2>1
  <2>8. /\ \A i, j \in Procs : loc'[i].child \cap loc'[j].child # {} => i = j
        /\ \A i \in Procs : loc'[i].child \subseteq Procs \ alive'
        /\ \A i \in Procs : \A j, k \in loc'[i].child : j = k
    BY <1>7, <2>2, <2>3, <2>6
  <2>9. \A j \in Procs \ alive' :
          /\ pc'[j] = "user"
          /\ \A d \in FDs : ofile'[j][d] # 0 =>
               \E i \in Procs : j \in loc'[i].child /\ d < loc'[i].fd
    BY <1>7, <2>1, <2>2, <2>4, <2>6, <2>7
  <2> QED
    BY <1>7, <2>2, <2>5, <2>8, <2>9 DEF Offspring
<1> QED
  BY <1>1, <1>3, <1>4, <1>5, <1>6, <1>7, <1>8, <1>9, <1>10, <1>11, <1>12 DEF Setting,
     AnyStep

(* exit ends: the process has no descriptors left.                         *)
LEMMA ExitEndKeeps ==
  ASSUME Setting, TableInv, NEW p \in Procs, ExitEnd(p)
  PROVE  TableInv'
<1>1. PICK s, q : s = loc[p] /\ q = ofile[p]
  OBVIOUS
<1>2. PICK r : r = NoLoc
  OBVIOUS
<1>3. p \in alive /\ pc[p] = "exit" /\ s.fd = NOFILE
  BY <1>1 DEF ExitEnd, At
<1>4. /\ s \in Locals /\ q \in [FDs -> Files \cup {0}] /\ Local("exit", s, q)
      /\ ref \in [Files -> Nat] /\ type \in [Files -> {"none", "inode", "pipe"}]
      /\ objs \in Nat /\ TypeOK /\ RefsCountDescriptors /\ ObjectsReleased
  BY <1>1, <1>3, Before
<1>5. r.child = {} /\ s.child = {} /\ \A d \in FDs : q[d] = 0
  BY <1>2, <1>3, <1>4 DEF Local, NoLoc, FDs, TableAssumption, Setting
<1>6. Moves(p, "user", r, q)
  BY <1>1, <1>2, <1>4, SameFds DEF ExitEnd, Goto, Moves
<1>7. ref' = ref /\ type' = type /\ objs' = objs /\ alive' = alive \ {p}
  BY <1>1 DEF ExitEnd, table
<1>8. RefsCountDescriptors'
  <2>1. \A d \in FDs : Desc("user", r, q, d) = Desc("exit", s, q, d)
    BY DEF Desc
  <2>2. First("exit", s) = 0 /\ Second("exit", s) = 0
        /\ First("user", r) = 0 /\ Second("user", r) = 0
    BY <1>2, <1>5 DEF First, Second
  <2>3. \A h \in Files :
          ref'[h] + Is(First("exit", s), h) + Is(Second("exit", s), h)
            = ref[h] + Is(First("user", r), h) + Is(Second("user", r), h)
    BY <1>7, <2>2
  <2>4. ref' \in [Files -> Nat]
    BY <1>4, <1>7
  <2> QED
    BY <1>1, <1>3, <1>4, <1>6, <2>1, <2>3, <2>4 DEF Setting, CountNoFd
<1>9. ObjectsReleased'
  <2>1. objs' + In("exit", Holding) = objs + In("user", Holding)
    BY <1>4, <1>7 DEF In, Holding
  <2> QED
    BY <1>3, <1>4, <1>6, <1>7, <2>1 DEF Setting, ObjectsSame
<1>10. After(p, "user", r, q)
  <2>1. /\ \A d \in FDs : Fine(Desc("exit", s, q, d), "exit", s)
        /\ Fine(First("exit", s), "exit", s) /\ Fine(Second("exit", s), "exit", s)
    BY <1>1, <1>3 DEF Setting, OwnsIs
  <2>2. NewFiles("exit", s) = {} /\ NewFiles("user", r) = {}
    BY DEF NewFiles
  <2>3. \A d \in FDs : Kept(Desc("user", r, q, d), "user", r)
    BY <1>2, <1>3, <1>4, <1>5, <2>1, <2>2 DEF Fine, Kept, Desc
  <2>4. Kept(First("user", r), "user", r) /\ Kept(Second("user", r), "user", r)
    BY <1>2, <1>3, <1>5, <2>1, <2>2 DEF Fine, Kept, First, Second, Desc
  <2>5. \A h \in Files : ref'[h] = 0 => type'[h] = "none"
    BY <1>7 DEF TableInv, Typed
  <2> QED
    BY <1>7, <2>2, <2>3, <2>4, <2>5 DEF After
<1>11. Local("user", r, q) /\ "user" \in Calls /\ r \in Locals
  BY <1>2, <1>3 DEF Local, NoLoc, Calls, Locals, TableAssumption, Setting
<1>12. Offspring' /\ alive' \subseteq Procs
  <2>1. /\ \A t \in Procs : t # p => pc'[t] = pc[t] /\ loc'[t] = loc[t] /\ ofile'[t] = ofile[t]
        /\ pc'[p] = "user" /\ loc'[p] = r /\ ofile'[p] = q
    BY <1>4, <1>6, MovesIs
  <2>2. p \in Procs /\ p \in alive /\ loc[p] = s /\ ofile[p] = q /\ alive \subseteq Procs
    BY <1>1, <1>3, <1>4 DEF TypeOK
  <2>3. /\ \A i, j \in Procs : loc[i].child \cap loc[j].child # {} => i = j
        /\ \A i \in Procs : loc[i].child \subseteq Procs \ alive
        /\ \A i \in Procs : \A j, k \in loc[i].child : j = k
    BY DEF TableInv, Offspring
  <2>4. \A j \in Procs \ alive :
          /\ pc[j] = "user"
          /\ \A d \in FDs : ofile[j][d] # 0 =>
               \E i \in Procs : j \in loc[i].child /\ d < loc[i].fd
    BY DEF TableInv, Offspring
  <2>5. alive' \subseteq Procs
    BY <1>7, <2>2
  <2>6. \A t \in Procs : loc'[t].child = loc[t].child
    BY <1>5, <2>1, <2>2
  <2>7. \A i \in Procs : loc[i].child # {} => loc'[i].fd = loc[i].fd
    BY <1>5, <2>1, <2>2
  <2>8. /\ \A i, j \in Procs : loc'[i].child \cap loc'[j].child # {} => i = j
        /\ \A i \in Procs : loc'[i].child \subseteq Procs \ alive'
        /\ \A i \in Procs : \A j, k \in loc'[i].child : j = k
    BY <1>7, <2>3, <2>6
  <2>9. \A j \in Procs \ alive' :
          /\ pc'[j] = "user"
          /\ \A d \in FDs : ofile'[j][d] # 0 =>
               \E i \in Procs : j \in loc'[i].child /\ d < loc'[i].fd
    BY <1>5, <1>7, <2>1, <2>2, <2>4, <2>6, <2>7
  <2> QED
    BY <1>7, <2>2, <2>5, <2>8, <2>9 DEF Offspring
<1> QED
  BY <1>1, <1>3, <1>4, <1>5, <1>6, <1>7, <1>8, <1>9, <1>10, <1>11, <1>12 DEF Setting,
     AnyStep

(* fork copies an open descriptor: the child holds one place more.         *)
LEMMA ForkFdOne ==
  ASSUME Setting, TableInv, NEW p \in Procs, ForkFd(p), ofile[p][loc[p].fd] # 0
  PROVE  TableInv'
<1>1. PICK s, q, e, f : s = loc[p] /\ q = ofile[p] /\ e = loc[p].fd /\ f = q[e]
  OBVIOUS
<1>2. PICK r : r = [s EXCEPT !.fd = e + 1]
  OBVIOUS
<1>3. p \in alive /\ pc[p] = "fork" /\ e < NOFILE /\ f # 0
  BY <1>1 DEF ForkFd, At
<1>4. /\ s \in Locals /\ q \in [FDs -> Files \cup {0}] /\ Local("fork", s, q)
      /\ ref \in [Files -> Nat] /\ type \in [Files -> {"none", "inode", "pipe"}]
      /\ objs \in Nat /\ TypeOK /\ RefsCountDescriptors /\ ObjectsReleased
  BY <1>1, <1>3, Before
<1>5. /\ e \in FDs /\ f \in Files /\ s.child # {} /\ s.k = "user" /\ s.fd = e /\ e + 1 \in 0 .. NOFILE
  BY <1>1, <1>3, <1>4 DEF Local, Locals, FDs, TableAssumption, Setting
<1>6. /\ r \in Locals /\ r.child = s.child /\ r.k = "user" /\ r.fd = e + 1
  BY <1>2, <1>4, <1>5 DEF Locals
<1>7. PICK c \in Procs \ alive : s.child = {c}
  BY <1>1, <1>5 DEF TableInv, Offspring
<1>8. c # p /\ pc[c] = "user" /\ ofile[c][e] = 0 /\ ofile[c] \in [FDs -> Files \cup {0}]
  <2>1. \A t \in Procs : c \in loc[t].child => t = p
    BY <1>1, <1>7 DEF TableInv, Offspring
  <2>2. ofile[c][e] # 0 => \E t \in Procs : c \in loc[t].child /\ e < loc[t].fd
    BY <1>5, <1>7 DEF TableInv, Offspring
  <2>3. e \in Nat
    BY <1>5, PlaceIs
  <2> QED
    BY <1>1, <1>3, <1>4, <1>7, <2>1, <2>2, <2>3 DEF TableInv, Offspring, TypeOK
<1>9. PICK o : o = [ofile[c] EXCEPT ![e] = f]
  OBVIOUS
<1>10. o \in [FDs -> Files \cup {0}] /\ o[e] = f /\ \A d \in FDs \ {e} : o[d] = ofile[c][d]
  BY <1>5, <1>8, <1>9
<1>11. /\ pc' = pc /\ loc' = [loc EXCEPT ![p] = r] /\ ofile' = [ofile EXCEPT ![c] = o]
       /\ ref' = [ref EXCEPT ![f] = ref[f] + 1] /\ type' = type /\ objs' = objs /\ alive' = alive
  BY <1>1, <1>2, <1>3, <1>4, <1>7, <1>9 DEF ForkFd, filedup, Goto, TypeOK
<1>12. /\ \A t \in Procs : t # p => loc'[t] = loc[t]
       /\ \A t \in Procs : t # c => ofile'[t] = ofile[t]
       /\ loc'[p] = r /\ ofile'[c] = o
  BY <1>4, <1>7, <1>11 DEF TypeOK
<1>13. TypeOK'
  BY <1>4, <1>5, <1>6, <1>7, <1>10, <1>11 DEF TypeOK
<1>14. PICK x : x = <<c, e>>
  OBVIOUS
<1>15. x \in Places /\ Held[x] = 0 /\ Held'[x] = f
  <2>1. x \in Places /\ x[1] = c /\ x[2] = e /\ e < NOFILE
    BY <1>3, <1>5, <1>7, <1>14, PlaceIs
  <2> QED
    BY <1>8, <1>10, <1>11, <1>12, <2>1 DEF Held, Holds
<1>16. ASSUME NEW y \in Places, y # x PROVE Held'[y] = Held[y]
  <2>1. PICK t \in Procs, k \in 0 .. NOFILE + 1 : y = <<t, k>>
    BY PlaceIs
  <2>2. Held[y] = Holds(pc[t], loc[t], ofile[t], k) /\ Held'[y] = Holds(pc[t], loc'[t], ofile'[t], k)
    BY <1>11, <2>1 DEF Held
  <2>3. CASE t = c
    <3>1. k < NOFILE => k \in FDs \ {e}
      BY <1>14, <1>16, <2>1, <2>3 DEF FDs, TableAssumption, Setting
    <3> QED
      BY <1>8, <1>10, <1>12, <2>2, <2>3, <3>1 DEF Holds
  <2>4. CASE t = p
    BY <1>3, <1>8, <1>12, <2>2, <2>4 DEF Holds
  <2>5. CASE t # c /\ t # p
    BY <1>12, <2>2, <2>5
  <2> QED
    BY <2>3, <2>4, <2>5
<1>17. RefsCountDescriptors'
  <2> SUFFICES ASSUME NEW h \in Files PROVE ref'[h] = Count(Places, Held', {h})
    BY DEF RefsCountDescriptors
  <2>1. PICK H, G, V : H = Held /\ G = Held' /\ V = {h}
    OBVIOUS
  <2>2. Same1(Places, H, G, x)
    BY <1>16, <2>1 DEF Same1
  <2>3. /\ Count(Places, H, V) \in Nat /\ Count(Places, G, V) \in Nat
        /\ Count(Places, G, V) + Bit(H, x, V) = Count(Places, H, V) + Bit(G, x, V)
    BY <1>15, <2>2 DEF Setting, CountPlace
  <2>4. Bit(H, x, V) = 0 /\ Bit(G, x, V) = Is(f, h)
    BY <1>15, <2>1, FileNat DEF Bit, Is
  <2>5. ref[h] = Count(Places, H, V) /\ ref'[h] = ref[h] + Is(f, h) /\ Is(f, h) \in Nat
    BY <1>4, <1>5, <1>11, <2>1 DEF RefsCountDescriptors, Is
  <2>6. ref'[h] = Count(Places, G, V)
    BY <2>3, <2>4, <2>5
  <2> QED
    BY <2>1, <2>6
<1>18. ObjectsReleased'
  BY <1>4, <1>11 DEF ObjectsReleased
<1>19. type[f] # "none"
  <2>1. Desc("fork", s, q, e) = f
    BY <1>1 DEF Desc
  <2>2. Fine(f, "fork", s)
    BY <1>1, <1>3, <1>5, <2>1 DEF Setting, OwnsIs
  <2> QED
    BY <1>3, <2>2 DEF Fine, NewFiles
<1>20. \A t \in Procs : NewFiles(pc'[t], loc'[t]) = NewFiles(pc[t], loc[t])
  <2>1. ASSUME NEW t \in Procs, t = p PROVE NewFiles(pc'[t], loc'[t]) = NewFiles(pc[t], loc[t])
    BY <1>3, <1>11, <2>1 DEF NewFiles
  <2> QED
    BY <1>11, <1>12, <2>1
<1>21. Fresh'
  <2> SUFFICES ASSUME NEW t \in Procs, NEW h \in NewFiles(pc[t], loc[t])
               PROVE  ref'[h] = 1 /\ type'[h] = "none"
    BY <1>20 DEF Fresh
  <2>1. ref[h] = 1 /\ type[h] = "none" /\ h \in Files
    BY DEF TableInv, Fresh, Setting, AloneIs
  <2> QED
    BY <1>4, <1>5, <1>11, <1>19, <2>1
<1>22. Typed'
  <2>1. ASSUME NEW y \in Places, Held'[y] # 0
        PROVE  type'[Held'[y]] # "none" \/ Held'[y] \in NewFiles(pc'[y[1]], loc'[y[1]])
    <3>1. y[1] \in Procs
      BY DEF Places
    <3>2. CASE y = x
      BY <1>11, <1>15, <1>19, <3>2
    <3>3. CASE y # x
      BY <1>11, <1>16, <1>20, <2>1, <3>1, <3>3 DEF TableInv, Typed
    <3> QED
      BY <3>2, <3>3
  <2>2. \A h \in Files : ref'[h] = 0 => type'[h] = "none"
    BY <1>4, <1>5, <1>11 DEF TableInv, Typed
  <2> QED
    BY <2>1, <2>2 DEF Typed
<1>23. Offspring'
  <2>1. /\ \A i, j \in Procs : loc[i].child \cap loc[j].child # {} => i = j
        /\ \A i \in Procs : loc[i].child \subseteq Procs \ alive
        /\ \A i \in Procs : \A j, k \in loc[i].child : j = k
    BY DEF TableInv, Offspring
  <2>2. \A j \in Procs \ alive :
          /\ pc[j] = "user"
          /\ \A d \in FDs : ofile[j][d] # 0 =>
               \E i \in Procs : j \in loc[i].child /\ d < loc[i].fd
    BY DEF TableInv, Offspring
  <2>3. \A t \in Procs : loc'[t].child = loc[t].child
    BY <1>1, <1>6, <1>12
  <2>4. \A i \in Procs : \A d \in FDs : d < loc[i].fd => d < loc'[i].fd
    BY <1>1, <1>5, <1>6, <1>12, PlaceIs
  <2>5. ASSUME NEW j \in Procs, NEW d \in FDs, ofile'[j][d] # 0, ~(j = c /\ d = e)
        PROVE  ofile[j][d] # 0
    <3>1. CASE j = c
      BY <1>10, <1>12, <2>5, <3>1
    <3>2. CASE j # c
      BY <1>12, <2>5, <3>2
    <3> QED
      BY <3>1, <3>2
  <2>6. c \in loc'[p].child /\ e < loc'[p].fd
    BY <1>5, <1>6, <1>7, <1>12, PlaceIs
  <2>7. ASSUME NEW j \in Procs \ alive, NEW d \in FDs, ofile'[j][d] # 0
        PROVE  \E i \in Procs : j \in loc'[i].child /\ d < loc'[i].fd
    <3>1. CASE j = c /\ d = e
      BY <2>6, <3>1
    <3>2. CASE ofile[j][d] # 0
      BY <2>2, <2>3, <2>4, <3>2
    <3> QED
      BY <2>5, <2>7, <3>1, <3>2
  <2> QED
    BY <1>11, <2>1, <2>2, <2>3, <2>7 DEF Offspring
<1>24. \A t \in Procs : Local(pc'[t], loc'[t], ofile'[t])
  <2>1. Local("fork", r, q)
    BY <1>4, <1>5, <1>6 DEF Local
  <2>2. Local("user", loc[c], o)
    <3>1. Local("user", loc[c], ofile[c])
      BY <1>7, <1>8 DEF TableInv
    <3> QED
      BY <3>1 DEF Local, NoLoc
  <2>3. \A t \in Procs : Local(pc[t], loc[t], ofile[t])
    BY DEF TableInv
  <2> QED
    BY <1>1, <1>3, <1>7, <1>8, <1>11, <1>12, <2>1, <2>2, <2>3
<1> QED
  BY <1>13, <1>17, <1>18, <1>21, <1>22, <1>23, <1>24 DEF TableInv

(* Every step of every call keeps the invariant.                           *)
LEMMA NextTable ==
  ASSUME Setting, TableInv, [Next]_vars
  PROVE  TableInv'
<1>1. CASE UNCHANGED vars
  <2>1. UNCHANGED Held
    BY <1>1 DEF vars, Held
  <2> QED
    BY <1>1, <2>1 DEF vars, TableInv, TypeOK, RefsCountDescriptors, ObjectsReleased,
       Fresh, Typed, Offspring
<1>2. ASSUME NEW p \in Procs, Open(p) \/ OpenFd(p) \/ SetType(p) PROVE TableInv'
  BY <1>2, OpenKeeps, OpenFdNone, OpenFdOne, SetTypeKeeps
<1>3. ASSUME NEW p \in Procs, PipeFirst(p) \/ PipeSecond(p) \/ PipePage(p) \/ PipeFds(p)
      PROVE  TableInv'
  BY <1>3, PipeFirstKeeps, PipeSecondKeeps, PipePageKeeps, PipeFdsNone, PipeFdsTwo
<1>4. ASSUME NEW p \in Procs, DupCount(p) \/ fileclose(p) \/ Release(p) PROVE TableInv'
  BY <1>4, DupCountKeeps, CloseLast, CloseSome, ReleaseKeeps
<1>5. ASSUME NEW p \in Procs, ForkFd(p) \/ ForkEnd(p) \/ Exit(p) \/ ExitFd(p) \/ ExitEnd(p)
      PROVE  TableInv'
  BY <1>5, ForkFdNone, ForkFdOne, ForkEndKeeps, ExitKeeps, ExitFdNone, ExitFdOne, ExitEndKeeps
<1>6. ASSUME NEW p \in Procs, NEW d \in FDs, Dup(p, d) \/ Close(p, d) PROVE TableInv'
  BY <1>6, DupKeeps, CloseKeeps
<1>7. ASSUME NEW p \in Procs, NEW q \in Procs, Fork(p, q) PROVE TableInv'
  BY <1>7, ForkKeeps
<1> QED
  BY <1>1, <1>2, <1>3, <1>4, <1>5, <1>6, <1>7 DEF Next

(* The two sides of a count that loses, or gains, one.                     *)
LEMMA OneLess ==
  ASSUME NEW i \in Nat, NEW j, j = i - 1
  PROVE  j + 1 = i + 0
OBVIOUS

LEMMA OneMore ==
  ASSUME NEW i \in Nat, NEW j, j = i + 1
  PROVE  j + 0 = i + 1
OBVIOUS

-----------------------------------------------------------------------------
(* Counting is what the library knows of numbers and finite sets.          *)
INSTANCE FiniteSetTheorems
INSTANCE WellFoundedInduction

(* filealloc and fdalloc: a scan from below finds a free entry.            *)
LEMMA MinIn ==
  ASSUME NEW S \in SUBSET Nat, S # {}
  PROVE  Min(S) \in S
<1> DEFINE R == {s \in Nat \X Nat : s[1] < s[2]}
<1>1. IsWellFoundedOn(R, Nat)
  BY NatLessThanWellFounded DEF OpToRel
<1> HIDE DEF R
<1>2. PICK x \in S : \A y \in S : ~(<<y, x>> \in R)
  BY <1>1, WFMin
<1>3. ASSUME NEW y \in S PROVE x <= y
  <2>1. y < x => <<y, x>> \in R
    BY DEF R
  <2> QED
    BY <1>2, <2>1
<1> QED
  BY <1>3 DEF Min

(* A count when one entry of a function changes.                           *)
LEMMA OneEntry ==
  ASSUME NEW S, NEW H, NEW G, NEW V, NEW x, IsFiniteSet(S),
         x \in S, Same1(S, H, G, x)
  PROVE  /\ Count(S, H, V) \in Nat /\ Count(S, G, V) \in Nat
         /\ Count(S, G, V) + Bit(H, x, V)
              = Count(S, H, V) + Bit(G, x, V)
<1> DEFINE A == {y \in S : H[y] \in V}
           B == {y \in S : G[y] \in V}
<1>1. IsFiniteSet(A) /\ IsFiniteSet(B) /\ Cardinality(A) \in Nat /\ Cardinality(B) \in Nat
      /\ Count(S, H, V) = Cardinality(A) /\ Count(S, G, V) = Cardinality(B)
  BY FS_Subset, FS_CardinalityType DEF Count
<1>2. CASE H[x] \in V /\ G[x] \in V
  <2>1. A = B
    BY <1>2 DEF Same1
  <2> QED
    BY <1>1, <1>2, <2>1 DEF Bit
<1>3. CASE H[x] \in V /\ G[x] \notin V
  <2>1. B = A \ {x} /\ x \in A
    BY <1>3 DEF Same1
  <2>2. Cardinality(B) = Cardinality(A) - 1
    BY <1>1, <2>1, FS_RemoveElement
  <2> HIDE DEF A, B
  <2>3. Cardinality(B) + 1 = Cardinality(A) + 0
    BY <1>1, <2>2, OneLess
  <2> QED
    BY <1>1, <1>3, <2>3 DEF Bit, A, B
<1>4. CASE H[x] \notin V /\ G[x] \in V
  <2>1. B = A \cup {x} /\ x \notin A
    BY <1>4 DEF Same1
  <2>2. Cardinality(B) = Cardinality(A) + 1
    BY <1>1, <2>1, FS_AddElement
  <2> HIDE DEF A, B
  <2>3. Cardinality(B) + 0 = Cardinality(A) + 1
    BY <1>1, <2>2, OneMore
  <2> QED
    BY <1>1, <1>4, <2>3 DEF Bit, A, B
<1>5. CASE H[x] \notin V /\ G[x] \notin V
  <2>1. A = B
    BY <1>5 DEF Same1
  <2> QED
    BY <1>1, <1>5, <2>1 DEF Bit
<1> QED
  BY <1>2, <1>3, <1>4, <1>5

(* The files, and the places of all processes, are finitely many.          *)
LEMMA Finite ==
  ASSUME TableAssumption
  PROVE  IsFiniteSet(Places) /\ IsFiniteSet(Files) /\ IsFiniteSet(Procs)
<1>1. NOFILE + 1 \in Int /\ 0 \in Int /\ 1 \in Int /\ NFILE \in Int
  BY DEF TableAssumption
<1>2. IsFiniteSet(0 .. NOFILE + 1) /\ IsFiniteSet(1 .. NFILE)
  BY <1>1, FS_Interval
<1> QED
  BY <1>2, FS_Product DEF Places, Files, TableAssumption

(* Nothing is counted in an empty set, and one thing in a singleton.       *)
LEMMA Holding1 ==
  ASSUME NEW S, NEW H, NEW f, IsFiniteSet(S)
  PROVE  /\ (\E x \in S : H[x] = f) => Count(S, H, {f}) # 0
         /\ Count(S, H, {f}) = 1 => \A x, y \in S : H[x] = f /\ H[y] = f => x = y
<1> DEFINE A == {x \in S : H[x] \in {f}}
<1>1. IsFiniteSet(A) /\ Count(S, H, {f}) = Cardinality(A)
  BY FS_Subset DEF Count
<1>2. Cardinality(A) = 0 <=> A = {}
  BY <1>1, FS_EmptySet
<1>3. Cardinality(A) = 1 => \E x : A = {x}
  BY <1>1, FS_Singleton
<1>4. (\E x \in S : H[x] = f) => Count(S, H, {f}) # 0
  BY <1>1, <1>2
<1>5. Count(S, H, {f}) = 1 => \A x, y \in S : H[x] = f /\ H[y] = f => x = y
  <2> SUFFICES ASSUME Count(S, H, {f}) = 1, NEW x \in S, NEW y \in S, H[x] = f, H[y] = f
               PROVE  x = y
    OBVIOUS
  <2>1. x \in A /\ y \in A
    OBVIOUS
  <2>2. PICK z : A = {z}
    BY <1>1, <1>3
  <2> QED
    BY <2>1, <2>2
<1> QED
  BY <1>4, <1>5

(* All the facts hold.                                                     *)
LEMMA CountingHolds ==
  ASSUME TableAssumption
  PROVE  Counting
<1>1. MinFound
  BY MinIn DEF MinFound
<1>2. FinitePlaces
  BY Finite DEF FinitePlaces
<1>3. CountNumber
  BY FS_Subset, FS_CardinalityType DEF CountNumber, Count
<1>4. CountNone
  <2> SUFFICES ASSUME NEW S, NEW H, NEW V, \A x \in S : H[x] \notin V
               PROVE  Count(S, H, V) = 0
    BY DEF CountNone
  <2>1. {x \in S : H[x] \in V} = {}
    OBVIOUS
  <2> QED
    BY <2>1, FS_EmptySet DEF Count
<1>5. CountHolders
  BY Holding1 DEF CountHolders
<1>6. CountEntry
  BY OneEntry DEF CountEntry
<1>7. TwoMembers
  <2> SUFFICES ASSUME NEW S, Cardinality(S) >= 2 PROVE S # {} /\ \A x : S # {x}
    BY DEF TwoMembers
  <2>1. ASSUME S = {} PROVE FALSE
    <3>1. Cardinality(S) = 0
      BY <2>1, FS_EmptySet
    <3> QED
      BY <3>1
  <2>2. ASSUME NEW x, S = {x} PROVE FALSE
    <3>1. Cardinality(S) = 1
      BY <2>2, FS_Singleton
    <3> QED
      BY <3>1
  <2> QED
    BY <2>1, <2>2
<1> QED
  BY <1>1, <1>2, <1>3, <1>4, <1>5, <1>6, <1>7 DEF Counting

(* file.c and the descriptors of sysfile.c and proc.c: in every reachable  *)
(* state the count of a file is the number of references to it, a file     *)
(* that a process can name has its type, and the inode reference or the    *)
(* pipe end behind a file is released exactly once.                        *)
THEOREM FilesAreCounted ==
  ASSUME TableAssumption
  PROVE  Spec => []FilesCounted
<1>1. Init => TableInv
  BY InitTable, CountingHolds
<1>2. TableInv /\ [Next]_vars => TableInv'
  BY SettingHolds, CountingHolds, NextTable
<1>3. TableInv => FilesCounted
  BY TableHolds
<1> QED
  BY <1>1, <1>2, <1>3, PTL DEF Spec
=============================================================================
