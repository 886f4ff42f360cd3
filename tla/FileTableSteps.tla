--------------------------- MODULE FileTableSteps ---------------------------
(***************************************************************************)
(* The steps of open, pipe, dup and close on the table of open files keep  *)
(* the invariant TableInv.  The lemmas, one for each outcome of an action, *)
(* rest on the rules of FileTableRules, collected in Setting so that a     *)
(* proof sees only the rules it names.                                     *)
(***************************************************************************)
EXTENDS FileTableRules

USE ZenonT(10), SMTT(20)

-----------------------------------------------------------------------------
(* The rules: what a process at m of a call, with the locals s and the     *)
(* descriptors q, knows of the files it holds.                             *)
OwnsIs ==
  \A p, m, s, q :
    (TableInv /\ p \in Procs /\ pc[p] = m /\ loc[p] = s /\ ofile[p] = q) =>
      /\ \A d \in FDs : Owns(p, Desc(m, s, q, d)) /\ Fine(Desc(m, s, q, d), m, s)
      /\ Owns(p, First(m, s)) /\ Fine(First(m, s), m, s)
      /\ Owns(p, Second(m, s)) /\ Fine(Second(m, s), m, s)
AloneIs ==
  \A p, m, s, q, f :
    (/\ TableInv /\ p \in Procs /\ pc[p] = m /\ loc[p] = s /\ ofile[p] = q
     /\ f \in NewFiles(m, s))
    => Alone(m, s, q, f) /\ ref[f] = 1 /\ type[f] = "none" /\ f \in Files
HeldCounts ==
  RefsCountDescriptors => \A f \in Files, x \in Places : Held[x] = f => ref[f] >= 1 /\ ref[f] \in Nat

(* A free file, and a free descriptor or two, as the scans find them.      *)
FreeFile == FreeFiles # {} => filealloc \in Files /\ ref[filealloc] = 0
FreeFd ==
  \A p, q : FreeFds(p) # {} /\ ofile[p] = q =>
    Min(FreeFds(p)) \in FDs /\ q[Min(FreeFds(p))] = 0
TwoFreeFds ==
  \A p, q, d, e :
    (/\ ofile[p] = q /\ Cardinality(FreeFds(p)) >= 2 /\ d = Min(FreeFds(p))
     /\ e = Min(FreeFds(p) \ {d}))
    => d \in FDs /\ e \in FDs /\ d # e /\ q[d] = 0 /\ q[e] = 0

(* The counts after a step that changes none, one or two descriptors.      *)
CountNoFd ==
  \A p, l, r, o, m, s, q :
    (/\ TypeOK /\ RefsCountDescriptors /\ ref' \in [Files -> Nat] /\ p \in Procs
     /\ Moves(p, l, r, o) /\ pc[p] = m /\ loc[p] = s /\ ofile[p] = q
     /\ \A d \in FDs : Desc(l, r, o, d) = Desc(m, s, q, d)
     /\ \A f \in Files : ref'[f] + Is(First(m, s), f) + Is(Second(m, s), f)
                           = ref[f] + Is(First(l, r), f) + Is(Second(l, r), f))
    => RefsCountDescriptors'
CountOneFd ==
  \A p, l, r, o, m, s, q, e :
    (/\ TypeOK /\ RefsCountDescriptors /\ ref' \in [Files -> Nat] /\ p \in Procs
     /\ Moves(p, l, r, o) /\ pc[p] = m /\ loc[p] = s /\ ofile[p] = q /\ e \in FDs
     /\ \A d \in FDs \ {e} : Desc(l, r, o, d) = Desc(m, s, q, d)
     /\ \A f \in Files :
          ref'[f] + Is(First(m, s), f) + Is(Second(m, s), f) + Is(Desc(m, s, q, e), f)
            = ref[f] + Is(First(l, r), f) + Is(Second(l, r), f) + Is(Desc(l, r, o, e), f))
    => RefsCountDescriptors'
CountTwoFds ==
  \A p, l, r, o, m, s, q, e, g :
    (/\ TypeOK /\ RefsCountDescriptors /\ ref' \in [Files -> Nat] /\ p \in Procs
     /\ Moves(p, l, r, o) /\ pc[p] = m /\ loc[p] = s /\ ofile[p] = q
     /\ e \in FDs /\ g \in FDs /\ e # g
     /\ \A d \in FDs \ {e, g} : Desc(l, r, o, d) = Desc(m, s, q, d)
     /\ \A f \in Files :
          ref'[f] + Is(First(m, s), f) + Is(Second(m, s), f) + Is(Desc(m, s, q, e), f)
                  + Is(Desc(m, s, q, g), f)
            = ref[f] + Is(First(l, r), f) + Is(Second(l, r), f) + Is(Desc(l, r, o, e), f)
                     + Is(Desc(l, r, o, g), f))
    => RefsCountDescriptors'
CountPlace ==
  \A H, G, V, x :
    x \in Places /\ Same1(Places, H, G, x) =>
      /\ Count(Places, H, V) \in Nat /\ Count(Places, G, V) \in Nat
      /\ Count(Places, G, V) + Bit(H, x, V) = Count(Places, H, V) + Bit(G, x, V)

(* The objects after a step that changes the type of no file, one, or two. *)
ObjectsSame ==
  \A p, l, r, o, m :
    (/\ TypeOK /\ ObjectsReleased /\ p \in Procs /\ Moves(p, l, r, o) /\ pc[p] = m
     /\ type' = type /\ objs' \in Nat /\ objs' + In(m, Holding) = objs + In(l, Holding))
    => ObjectsReleased'
ObjectsFile ==
  \A p, l, r, o, m, f, t, u :
    (/\ TypeOK /\ ObjectsReleased /\ p \in Procs /\ Moves(p, l, r, o) /\ pc[p] = m
     /\ objs' \in Nat /\ f \in Files /\ Retyped(f, t, u)
     /\ objs' + In(m, Holding) + In(t, Kinds) = objs + In(l, Holding) + In(u, Kinds))
    => ObjectsReleased'
ObjectsPair ==
  \A p, l, r, o, m, f, g :
    (/\ TypeOK /\ ObjectsReleased /\ p \in Procs /\ Moves(p, l, r, o) /\ pc[p] = m
     /\ objs' \in Nat /\ f \in Files /\ g \in Files /\ f # g
     /\ Same2(Files, type, type', f, g) /\ type[f] = "none" /\ type[g] = "none"
     /\ type'[f] \in Kinds /\ type'[g] \in Kinds
     /\ objs' + In(m, Holding) = objs + In(l, Holding) + 2)
    => ObjectsReleased'
ObjectsSome ==
  \A p : TypeOK /\ ObjectsReleased /\ p \in Procs /\ pc[p] \in Holding => objs >= 1

(* The invariant after a step, and after one that is not of fork and does  *)
(* not end exit.                                                           *)
AnyStep ==
  \A p, l, r, o :
    (/\ TableInv /\ p \in alive /\ l \in Calls /\ r \in Locals
     /\ o \in [FDs -> Files \cup {0}] /\ Moves(p, l, r, o) /\ alive' \subseteq Procs
     /\ Offspring' /\ Local(l, r, o) /\ ref' \in [Files -> Nat]
     /\ type' \in [Files -> {"none", "inode", "pipe"}] /\ objs' \in Nat
     /\ RefsCountDescriptors' /\ ObjectsReleased' /\ After(p, l, r, o))
    => TableInv'
Step ==
  \A p, l, r, o :
    (/\ TableInv /\ p \in alive /\ l \in Calls /\ r \in Locals
     /\ o \in [FDs -> Files \cup {0}] /\ Moves(p, l, r, o) /\ alive' = alive
     /\ loc[p].child = {} /\ r.child = {} /\ Local(l, r, o) /\ ref' \in [Files -> Nat]
     /\ type' \in [Files -> {"none", "inode", "pipe"}] /\ objs' \in Nat
     /\ RefsCountDescriptors' /\ ObjectsReleased' /\ After(p, l, r, o))
    => TableInv'

Setting ==
  /\ TableAssumption /\ OwnsIs /\ AloneIs /\ HeldCounts /\ FreeFile /\ FreeFd /\ TwoFreeFds
  /\ CountNoFd /\ CountOneFd /\ CountTwoFds /\ CountPlace
  /\ ObjectsSame /\ ObjectsFile /\ ObjectsPair /\ ObjectsSome /\ AnyStep /\ Step

(* All the rules of Setting hold.                                          *)
LEMMA SettingHolds ==
  ASSUME Counting, TableAssumption
  PROVE  Setting
<1>1. OwnsIs
  BY OwnsIsRule DEF OwnsIs
<1>2. AloneIs
  BY AloneIsRule DEF AloneIs
<1>3. FreeFile
  BY FreeFileRule DEF FreeFile
<1>4. FreeFd
  BY FreeFdRule DEF FreeFd
<1>5. TwoFreeFds
  BY TwoFreeFdsRule DEF TwoFreeFds
<1>6. CountNoFd
  BY CountNoFdRule DEF CountNoFd
<1>7. CountOneFd
  BY CountOneFdRule DEF CountOneFd
<1>8. CountTwoFds
  BY CountTwoFdsRule DEF CountTwoFds
<1>9. ObjectsSame
  BY ObjectsSameRule DEF ObjectsSame
<1>10. ObjectsFile
  BY ObjectsFileRule DEF ObjectsFile
<1>11. ObjectsPair
  BY ObjectsPairRule DEF ObjectsPair
<1>12. ObjectsSome
  BY ObjectsSomeRule DEF ObjectsSome
<1>13. AnyStep
  BY AnyStepRule DEF AnyStep, Enters
<1>14. Step
  BY StepRule DEF Step, Enters
<1>15. HeldCounts
  BY Holders DEF HeldCounts
<1>16. CountPlace
  BY DEF CountPlace, Counting, FinitePlaces, CountEntry
<1> QED
  BY <1>1, <1>2, <1>3, <1>4, <1>5, <1>6, <1>7, <1>8, <1>9, <1>10, <1>11, <1>12, <1>13, <1>14, <1>15, <1>16 DEF Setting

-----------------------------------------------------------------------------
(* The places of a process: its descriptors, and two files of its call.    *)
LEMMA PlaceIs ==
  ASSUME Setting
  PROVE  /\ \A x \in Places : \E p \in Procs, k \in 0 .. NOFILE + 1 : x = <<p, k>>
         /\ \A k \in 0 .. NOFILE + 1 : k \in FDs \/ k = NOFILE \/ k = NOFILE + 1
         /\ \A p \in Procs : /\ \A d \in FDs : <<p, d>> \in Places
                             /\ <<p, NOFILE>> \in Places /\ <<p, NOFILE + 1>> \in Places
         /\ \A d \in FDs : d # NOFILE /\ d # NOFILE + 1 /\ d \in Nat
         /\ NOFILE # NOFILE + 1
BY PlaceKinds DEF Setting

(* Descriptors that stay as they are, written as a step of p.              *)
LEMMA SameFds ==
  ASSUME TypeOK, NEW p \in Procs, NEW q, ofile[p] = q, ofile' = ofile
  PROVE  ofile' = [ofile EXCEPT ![p] = q]
BY DEF TypeOK

(* What the invariant says before a step of p.                             *)
LEMMA Before ==
  ASSUME TableInv, NEW p, p \in alive, NEW m, NEW s, NEW q,
         pc[p] = m, loc[p] = s, ofile[p] = q
  PROVE  /\ p \in Procs /\ s \in Locals /\ q \in [FDs -> Files \cup {0}] /\ Local(m, s, q)
         /\ ref \in [Files -> Nat] /\ type \in [Files -> {"none", "inode", "pipe"}]
         /\ objs \in Nat /\ TypeOK /\ RefsCountDescriptors /\ ObjectsReleased
BY DEF TableInv, TypeOK

(* A step of p moves no other process.                                     *)
LEMMA MovesIs ==
  ASSUME TypeOK, NEW p \in Procs, NEW l, NEW r, NEW o, Moves(p, l, r, o)
  PROVE  /\ pc'[p] = l /\ loc'[p] = r /\ ofile'[p] = o
         /\ \A q \in Procs : q # p => pc'[q] = pc[q] /\ loc'[q] = loc[q] /\ ofile'[q] = ofile[q]
BY DEF TypeOK, Moves

-----------------------------------------------------------------------------
(* The actions, one lemma for each of their outcomes.                      *)

(* sys_open takes a file that was free, and an inode reference.            *)
LEMMA OpenKeeps ==
  ASSUME Setting, TableInv, NEW p \in Procs, Open(p)
  PROVE  TableInv'
<1>1. PICK s, q, f : s = loc[p] /\ q = ofile[p] /\ f = filealloc
  OBVIOUS
<1>2. PICK r : r = [s EXCEPT !.f0 = f]
  OBVIOUS
<1>3. p \in alive /\ pc[p] = "user" /\ f \in Files /\ ref[f] = 0
  BY <1>1 DEF Open, At, Setting, FreeFile
<1>4. /\ s \in Locals /\ q \in [FDs -> Files \cup {0}] /\ Local("user", s, q)
      /\ ref \in [Files -> Nat] /\ type \in [Files -> {"none", "inode", "pipe"}]
      /\ objs \in Nat /\ TypeOK /\ RefsCountDescriptors /\ ObjectsReleased
  BY <1>1, <1>3, Before
<1>5. Moves(p, "fdalloc", r, q)
  BY <1>1, <1>2, <1>4, SameFds DEF Open, Goto, Moves
<1>6. s = NoLoc /\ r \in Locals /\ r.f0 = f /\ r.child = {} /\ r.k = "user" /\ s.child = {}
  BY <1>2, <1>3, <1>4 DEF Local, Locals, NoLoc
<1>7. /\ ref' = [ref EXCEPT ![f] = 1] /\ type' = type /\ objs' = objs + 1 /\ alive' = alive
      /\ ref' \in [Files -> Nat] /\ objs' \in Nat
  BY <1>1, <1>3, <1>4 DEF Open, Take
<1>8. RefsCountDescriptors'
  <2>1. \A d \in FDs : Desc("fdalloc", r, q, d) = Desc("user", s, q, d)
    BY DEF Desc
  <2>2. First("user", s) = 0 /\ Second("user", s) = 0
        /\ First("fdalloc", r) = f /\ Second("fdalloc", r) = 0
    BY <1>6 DEF First, Second
  <2>3. \A g \in Files : ref'[g] + Is(0, g) + Is(0, g) = ref[g] + Is(f, g) + Is(0, g)
    BY <1>3, <1>4, <1>7, FileNat DEF Is
  <2> QED
    BY <1>1, <1>3, <1>4, <1>5, <1>7, <2>1, <2>2, <2>3 DEF Setting, CountNoFd
<1>9. ObjectsReleased'
  <2>1. objs' + In("user", Holding) = objs + In("fdalloc", Holding)
    BY <1>4, <1>7 DEF In, Holding
  <2> QED
    BY <1>3, <1>4, <1>5, <1>7, <2>1 DEF Setting, ObjectsSame
<1>10. After(p, "fdalloc", r, q)
  <2>1. \A d \in FDs : Fine(Desc("user", s, q, d), "user", s)
    BY <1>1, <1>3 DEF Setting, OwnsIs
  <2>2. \A d \in FDs : Kept(Desc("fdalloc", r, q, d), "fdalloc", r)
    BY <2>1 DEF Fine, Kept, Desc, NewFiles
  <2>3. Kept(First("fdalloc", r), "fdalloc", r) /\ Kept(Second("fdalloc", r), "fdalloc", r)
    BY DEF Kept, First, Second, NewFiles
  <2>4. type[f] = "none" /\ \A g \in Files : ref[g] = 0 => type[g] = "none"
    BY <1>3 DEF TableInv, Typed
  <2>5. \A g \in Files : ref'[g] = 0 => type'[g] = "none"
    BY <1>3, <1>4, <1>7, <2>4
  <2>6. \A g \in NewFiles("fdalloc", r) : ref'[g] = 1 /\ type'[g] = "none"
    BY <1>3, <1>4, <1>6, <1>7, <2>4 DEF NewFiles
  <2>7. \A g \in Files : (ref'[g] = ref[g] /\ type'[g] = type[g]) \/ ref[g] = 0 \/ Owns(p, g)
    BY <1>3, <1>4, <1>7
  <2> QED
    BY <1>7, <2>2, <2>3, <2>5, <2>6, <2>7 DEF After
<1>11. Local("fdalloc", r, q)
  BY <1>3, <1>6, FileNat DEF Local
<1>12. "fdalloc" \in Calls
  BY DEF Calls
<1> QED
  BY <1>1, <1>3, <1>4, <1>5, <1>6, <1>7, <1>8, <1>9, <1>10, <1>11, <1>12 DEF Setting, Step

(* sys_open without a free descriptor gives the file and the inode back.   *)
LEMMA OpenFdNone ==
  ASSUME Setting, TableInv, NEW p \in Procs, OpenFd(p), FreeFds(p) = {}
  PROVE  TableInv'
<1>1. PICK s, q, f : s = loc[p] /\ q = ofile[p] /\ f = loc[p].f0
  OBVIOUS
<1>2. PICK r : r = NoLoc
  OBVIOUS
<1>3. p \in alive /\ pc[p] = "fdalloc"
  BY DEF OpenFd, At
<1>4. /\ s \in Locals /\ q \in [FDs -> Files \cup {0}] /\ Local("fdalloc", s, q)
      /\ ref \in [Files -> Nat] /\ type \in [Files -> {"none", "inode", "pipe"}]
      /\ objs \in Nat /\ TypeOK /\ RefsCountDescriptors /\ ObjectsReleased
  BY <1>1, <1>3, Before
<1>5. /\ f = s.f0 /\ f \in Files /\ ref[f] = 1 /\ type[f] = "none" /\ Alone("fdalloc", s, q, f)
      /\ r.child = {} /\ s.child = {}
  <2>1. f \in NewFiles("fdalloc", s) /\ f = s.f0
    BY <1>1 DEF NewFiles
  <2> QED
    BY <1>1, <1>2, <1>3, <1>4, <2>1 DEF Local, NoLoc, Setting, AloneIs
<1>6. Moves(p, "user", r, q)
  BY <1>1, <1>2, <1>4, SameFds DEF OpenFd, Goto, Moves
<1>7. /\ ref' = [ref EXCEPT ![f] = 0] /\ type' = type /\ objs' = objs - 1 /\ alive' = alive
      /\ ref' \in [Files -> Nat] /\ objs' \in Nat
  <2>1. objs >= 1
    BY <1>3, <1>4 DEF Holding, Setting, ObjectsSome
  <2> QED
    BY <1>1, <1>4, <1>5, <2>1 DEF OpenFd
<1>8. RefsCountDescriptors'
  <2>1. \A d \in FDs : Desc("user", r, q, d) = Desc("fdalloc", s, q, d)
    BY DEF Desc
  <2>2. First("fdalloc", s) = f /\ Second("fdalloc", s) = 0
        /\ First("user", r) = 0 /\ Second("user", r) = 0
    BY <1>5 DEF First, Second
  <2>3. \A g \in Files : ref'[g] + Is(f, g) + Is(0, g) = ref[g] + Is(0, g) + Is(0, g)
    BY <1>4, <1>5, <1>7, FileNat DEF Is
  <2> QED
    BY <1>1, <1>3, <1>4, <1>6, <1>7, <2>1, <2>2, <2>3 DEF Setting, CountNoFd
<1>9. ObjectsReleased'
  <2>1. objs' + In("fdalloc", Holding) = objs + In("user", Holding)
    BY <1>4, <1>7 DEF In, Holding
  <2> QED
    BY <1>3, <1>4, <1>6, <1>7, <2>1 DEF Setting, ObjectsSame
<1>10. After(p, "user", r, q)
  <2>1. First("fdalloc", s) = f
    BY <1>5 DEF First
  <2>2. Owns(p, f) /\ \A d \in FDs : Fine(Desc("fdalloc", s, q, d), "fdalloc", s)
    BY <1>1, <1>3, <2>1 DEF Setting, OwnsIs
  <2>3. \A d \in FDs : Kept(Desc("user", r, q, d), "user", r)
    BY <1>5, <2>1, <2>2 DEF Fine, Kept, Desc, NewFiles, Alone
  <2>4. Kept(First("user", r), "user", r) /\ Kept(Second("user", r), "user", r)
    BY DEF Kept, First, Second
  <2>5. \A g \in Files : ref'[g] = 0 => type'[g] = "none"
    BY <1>4, <1>5, <1>7 DEF TableInv, Typed
  <2>6. \A g \in Files : (ref'[g] = ref[g] /\ type'[g] = type[g]) \/ ref[g] = 0 \/ Owns(p, g)
    BY <1>4, <1>5, <1>7, <2>2
  <2> QED
    BY <1>7, <2>3, <2>4, <2>5, <2>6 DEF After, NewFiles
<1>11. Local("user", r, q) /\ "user" \in Calls /\ r \in Locals
  BY <1>2, <1>3 DEF Local, NoLoc, Calls, Locals, TableAssumption, Setting
<1> QED
  BY <1>1, <1>3, <1>4, <1>5, <1>6, <1>7, <1>8, <1>9, <1>10, <1>11 DEF Setting, Step

(* fdalloc in sys_open: the reference moves from the call to a descriptor. *)
LEMMA OpenFdOne ==
  ASSUME Setting, TableInv, NEW p \in Procs, OpenFd(p), FreeFds(p) # {}
  PROVE  TableInv'
<1>1. PICK s, q, f, e : s = loc[p] /\ q = ofile[p] /\ f = loc[p].f0 /\ e = Min(FreeFds(p))
  OBVIOUS
<1>2. PICK r, o : r = s /\ o = [q EXCEPT ![e] = f]
  OBVIOUS
<1>3. p \in alive /\ pc[p] = "fdalloc" /\ e \in FDs /\ q[e] = 0
  BY <1>1 DEF OpenFd, At, Setting, FreeFd
<1>4. /\ s \in Locals /\ q \in [FDs -> Files \cup {0}] /\ Local("fdalloc", s, q)
      /\ ref \in [Files -> Nat] /\ type \in [Files -> {"none", "inode", "pipe"}]
      /\ objs \in Nat /\ TypeOK /\ RefsCountDescriptors /\ ObjectsReleased
  BY <1>1, <1>3, Before
<1>5. /\ f = s.f0 /\ f \in Files /\ ref[f] = 1 /\ type[f] = "none" /\ Alone("fdalloc", s, q, f)
      /\ r.child = {} /\ s.child = {} /\ o \in [FDs -> Files \cup {0}] /\ o[e] = f
      /\ \A d \in FDs \ {e} : o[d] = q[d]
  <2>1. f \in NewFiles("fdalloc", s) /\ f = s.f0
    BY <1>1 DEF NewFiles
  <2>2. f \in Files /\ ref[f] = 1 /\ type[f] = "none" /\ Alone("fdalloc", s, q, f)
    BY <1>1, <1>3, <1>4, <2>1 DEF Setting, AloneIs
  <2> QED
    BY <1>2, <1>3, <1>4, <2>1, <2>2 DEF Local
<1>6. Moves(p, "settype", r, o)
  BY <1>1, <1>2, <1>4 DEF OpenFd, Goto, Moves, TypeOK
<1>7. /\ ref' = ref /\ type' = type /\ objs' = objs /\ alive' = alive
  BY <1>1 DEF OpenFd
<1>8. RefsCountDescriptors'
  <2>1. \A d \in FDs \ {e} : Desc("settype", r, o, d) = Desc("fdalloc", s, q, d)
    BY <1>5 DEF Desc
  <2>2. First("fdalloc", s) = f /\ Second("fdalloc", s) = 0 /\ Desc("fdalloc", s, q, e) = 0
        /\ First("settype", r) = 0 /\ Second("settype", r) = 0 /\ Desc("settype", r, o, e) = f
    BY <1>3, <1>5 DEF First, Second, Desc
  <2>3. \A g \in Files : ref'[g] + Is(f, g) + Is(0, g) + Is(0, g)
                           = ref[g] + Is(0, g) + Is(0, g) + Is(f, g)
    BY <1>4, <1>5, <1>7, FileNat DEF Is
  <2> QED
    BY <1>1, <1>3, <1>4, <1>6, <1>7, <2>1, <2>2, <2>3 DEF Setting, CountOneFd
<1>9. ObjectsReleased'
  <2>1. objs' + In("fdalloc", Holding) = objs + In("settype", Holding)
    BY <1>4, <1>7 DEF In, Holding
  <2> QED
    BY <1>3, <1>4, <1>6, <1>7, <2>1 DEF Setting, ObjectsSame
<1>10. After(p, "settype", r, o)
  <2>1. NewFiles("settype", r) = {f} /\ NewFiles("fdalloc", s) = {f}
    BY <1>2, <1>5 DEF NewFiles
  <2>2. \A d \in FDs : Fine(Desc("fdalloc", s, q, d), "fdalloc", s)
    BY <1>1, <1>3 DEF Setting, OwnsIs
  <2>3. \A d \in FDs : Kept(Desc("settype", r, o, d), "settype", r)
    BY <1>5, <2>1, <2>2 DEF Fine, Kept, Desc
  <2>4. Kept(First("settype", r), "settype", r) /\ Kept(Second("settype", r), "settype", r)
    BY DEF Kept, First, Second
  <2>5. \A g \in Files : ref'[g] = 0 => type'[g] = "none"
    BY <1>7 DEF TableInv, Typed
  <2> QED
    BY <1>5, <1>7, <2>1, <2>3, <2>4, <2>5 DEF After
<1>11. Local("settype", r, o) /\ "settype" \in Calls /\ r \in Locals
  BY <1>2, <1>3, <1>4, <1>5, FileNat DEF Local, Calls
<1> QED
  BY <1>1, <1>3, <1>4, <1>5, <1>6, <1>7, <1>8, <1>9, <1>10, <1>11 DEF Setting, Step

(* The last step of sys_open: the file takes over the inode reference.     *)
LEMMA SetTypeKeeps ==
  ASSUME Setting, TableInv, NEW p \in Procs, SetType(p)
  PROVE  TableInv'
<1>1. PICK s, q, f : s = loc[p] /\ q = ofile[p] /\ f = loc[p].f0
  OBVIOUS
<1>2. PICK r : r = NoLoc
  OBVIOUS
<1>3. p \in alive /\ pc[p] = "settype"
  BY DEF SetType, At
<1>4. /\ s \in Locals /\ q \in [FDs -> Files \cup {0}] /\ Local("settype", s, q)
      /\ ref \in [Files -> Nat] /\ type \in [Files -> {"none", "inode", "pipe"}]
      /\ objs \in Nat /\ TypeOK /\ RefsCountDescriptors /\ ObjectsReleased
  BY <1>1, <1>3, Before
<1>5. /\ f = s.f0 /\ f \in Files /\ ref[f] = 1 /\ type[f] = "none"
      /\ r.child = {} /\ s.child = {} /\ Owns(p, f)
  <2>1. f \in NewFiles("settype", s) /\ f = s.f0
    BY <1>1 DEF NewFiles
  <2>2. PICK d \in FDs : q[d] = f
    BY <1>4, <2>1 DEF Local
  <2>3. Desc("settype", s, q, d) = f
    BY <2>2 DEF Desc
  <2>4. Owns(p, f)
    BY <1>1, <1>3, <2>3 DEF Setting, OwnsIs
  <2> QED
    BY <1>1, <1>2, <1>3, <1>4, <2>1, <2>4 DEF Local, NoLoc, Setting, AloneIs
<1>6. Moves(p, "user", r, q)
  BY <1>1, <1>2, <1>4, SameFds DEF SetType, Goto, Moves
<1>7. /\ ref' = ref /\ type' = [type EXCEPT ![f] = "inode"] /\ objs' = objs /\ alive' = alive
      /\ type' \in [Files -> {"none", "inode", "pipe"}]
  BY <1>1, <1>4 DEF SetType
<1>8. RefsCountDescriptors'
  <2>1. \A d \in FDs : Desc("user", r, q, d) = Desc("settype", s, q, d)
    BY DEF Desc
  <2>2. First("settype", s) = 0 /\ Second("settype", s) = 0
        /\ First("user", r) = 0 /\ Second("user", r) = 0
    BY DEF First, Second
  <2>3. \A g \in Files : ref'[g] + Is(0, g) + Is(0, g) = ref[g] + Is(0, g) + Is(0, g)
    BY <1>7
  <2> QED
    BY <1>1, <1>3, <1>4, <1>6, <1>7, <2>1, <2>2, <2>3 DEF Setting, CountNoFd
<1>9. ObjectsReleased'
  <2>1. objs' + In("settype", Holding) + In("none", Kinds)
          = objs + In("user", Holding) + In("inode", Kinds)
    BY <1>4, <1>7 DEF In, Holding, Kinds
  <2>2. Retyped(f, "none", "inode")
    BY <1>4, <1>5, <1>7 DEF Same1, Retyped
  <2> QED
    BY <1>3, <1>4, <1>5, <1>6, <1>7, <2>1, <2>2 DEF Setting, ObjectsFile
<1>10. After(p, "user", r, q)
  <2>1. NewFiles("settype", s) = {f} /\ NewFiles("user", r) = {}
    BY <1>5 DEF NewFiles
  <2>2. \A d \in FDs : Fine(Desc("settype", s, q, d), "settype", s)
    BY <1>1, <1>3 DEF Setting, OwnsIs
  <2>3. \A d \in FDs : Kept(Desc("user", r, q, d), "user", r)
    BY <1>4, <1>5, <1>7, <2>1, <2>2 DEF Fine, Kept, Desc
  <2>4. Kept(First("user", r), "user", r) /\ Kept(Second("user", r), "user", r)
    BY DEF Kept, First, Second
  <2>5. \A g \in Files : ref'[g] = 0 => type'[g] = "none"
    BY <1>4, <1>5, <1>7 DEF TableInv, Typed
  <2>6. \A g \in Files : (ref'[g] = ref[g] /\ type'[g] = type[g]) \/ ref[g] = 0 \/ Owns(p, g)
    BY <1>4, <1>5, <1>7
  <2>7. \A g \in Files : type[g] # "none" => type'[g] # "none"
    BY <1>4, <1>5, <1>7
  <2> QED
    BY <2>1, <2>3, <2>4, <2>5, <2>6, <2>7 DEF After
<1>11. Local("user", r, q) /\ "user" \in Calls /\ r \in Locals
  BY <1>2, <1>3 DEF Local, NoLoc, Calls, Locals, TableAssumption, Setting
<1> QED
  BY <1>1, <1>3, <1>4, <1>5, <1>6, <1>7, <1>8, <1>9, <1>10, <1>11 DEF Setting, Step

(* pipealloc takes its first file.                                         *)
LEMMA PipeFirstKeeps ==
  ASSUME Setting, TableInv, NEW p \in Procs, PipeFirst(p)
  PROVE  TableInv'
<1>1. PICK s, q, f : s = loc[p] /\ q = ofile[p] /\ f = filealloc
  OBVIOUS
<1>2. PICK r : r = [s EXCEPT !.f0 = f]
  OBVIOUS
<1>3. p \in alive /\ pc[p] = "user" /\ f \in Files /\ ref[f] = 0
  BY <1>1 DEF PipeFirst, At, Setting, FreeFile
<1>4. /\ s \in Locals /\ q \in [FDs -> Files \cup {0}] /\ Local("user", s, q)
      /\ ref \in [Files -> Nat] /\ type \in [Files -> {"none", "inode", "pipe"}]
      /\ objs \in Nat /\ TypeOK /\ RefsCountDescriptors /\ ObjectsReleased
  BY <1>1, <1>3, Before
<1>5. s = NoLoc /\ r \in Locals /\ r.f0 = f /\ r.child = {} /\ r.k = "user" /\ s.child = {}
  BY <1>2, <1>3, <1>4 DEF Local, Locals, NoLoc
<1>6. Moves(p, "pipe2", r, q)
  BY <1>1, <1>2, <1>4, SameFds DEF PipeFirst, Goto, Moves
<1>7. /\ ref' = [ref EXCEPT ![f] = 1] /\ type' = type /\ objs' = objs /\ alive' = alive
      /\ ref' \in [Files -> Nat]
  BY <1>1, <1>3, <1>4 DEF PipeFirst, Take
<1>8. RefsCountDescriptors'
  <2>1. \A d \in FDs : Desc("pipe2", r, q, d) = Desc("user", s, q, d)
    BY DEF Desc
  <2>2. First("user", s) = 0 /\ Second("user", s) = 0
        /\ First("pipe2", r) = f /\ Second("pipe2", r) = 0
    BY <1>2, <1>5 DEF First, Second
  <2>3. \A h \in Files : ref'[h] + Is(0, h) + Is(0, h) = ref[h] + Is(f, h) + Is(0, h)
    BY <1>3, <1>4, <1>5, <1>7, FileNat DEF Is
  <2> QED
    BY <1>1, <1>3, <1>4, <1>6, <1>7, <2>1, <2>2, <2>3 DEF Setting, CountNoFd
<1>9. ObjectsReleased'
  <2>1. objs' + In("user", Holding) = objs + In("pipe2", Holding)
    BY <1>4, <1>7 DEF In, Holding
  <2> QED
    BY <1>3, <1>4, <1>6, <1>7, <2>1 DEF Setting, ObjectsSame
<1>10. After(p, "pipe2", r, q)
  <2>1. \A d \in FDs : Fine(Desc("user", s, q, d), "user", s)
    BY <1>1, <1>3 DEF Setting, OwnsIs
  <2>2. \A d \in FDs : Kept(Desc("pipe2", r, q, d), "pipe2", r)
    BY <2>1 DEF Fine, Kept, Desc, NewFiles
  <2>3. Kept(First("pipe2", r), "pipe2", r) /\ Kept(Second("pipe2", r), "pipe2", r)
    BY DEF Kept, First, Second, NewFiles
  <2>4. type[f] = "none" /\ \A g \in Files : ref[g] = 0 => type[g] = "none"
    BY <1>3 DEF TableInv, Typed
  <2>5. \A g \in Files : ref'[g] = 0 => type'[g] = "none"
    BY <1>3, <1>4, <1>7, <2>4
  <2>6. \A g \in NewFiles("pipe2", r) : ref'[g] = 1 /\ type'[g] = "none"
    BY <1>3, <1>4, <1>5, <1>7, <2>4 DEF NewFiles
  <2>7. \A g \in Files : (ref'[g] = ref[g] /\ type'[g] = type[g]) \/ ref[g] = 0 \/ Owns(p, g)
    BY <1>3, <1>4, <1>7
  <2> QED
    BY <1>7, <2>2, <2>3, <2>5, <2>6, <2>7 DEF After
<1>11. Local("pipe2", r, q) /\ "pipe2" \in Calls /\ r \in Locals
  BY <1>3, <1>5, FileNat DEF Local, Calls
<1> QED
  BY <1>1, <1>3, <1>4, <1>5, <1>6, <1>7, <1>8, <1>9, <1>10, <1>11 DEF Setting, Step

(* pipealloc takes its second file, which is another one.                  *)
LEMMA PipeSecondOne ==
  ASSUME Setting, TableInv, NEW p \in Procs, PipeSecond(p), FreeFiles # {}
  PROVE  TableInv'
<1>1. PICK s, q, f, g : s = loc[p] /\ q = ofile[p] /\ f = loc[p].f0 /\ g = filealloc
  OBVIOUS
<1>2. PICK r : r = [s EXCEPT !.f1 = g]
  OBVIOUS
<1>3. p \in alive /\ pc[p] = "pipe2" /\ g \in Files /\ ref[g] = 0
  BY <1>1 DEF PipeSecond, At, Setting, FreeFile
<1>4. /\ s \in Locals /\ q \in [FDs -> Files \cup {0}] /\ Local("pipe2", s, q)
      /\ ref \in [Files -> Nat] /\ type \in [Files -> {"none", "inode", "pipe"}]
      /\ objs \in Nat /\ TypeOK /\ RefsCountDescriptors /\ ObjectsReleased
  BY <1>1, <1>3, Before
<1>5. /\ f = s.f0 /\ f \in Files /\ ref[f] = 1 /\ type[f] = "none" /\ f # g
      /\ r \in Locals /\ r.child = {} /\ s.child = {} /\ r.f0 = f /\ r.f1 = g /\ r.k # "exit"
  <2>1. f \in NewFiles("pipe2", s) /\ f = s.f0
    BY <1>1 DEF NewFiles
  <2>2. f \in Files /\ ref[f] = 1 /\ type[f] = "none"
    BY <1>1, <1>3, <1>4, <2>1 DEF Setting, AloneIs
  <2> QED
    BY <1>2, <1>3, <1>4, <2>1, <2>2 DEF Local, Locals
<1>6. Moves(p, "pipe3", r, q)
  BY <1>1, <1>2, <1>4, SameFds DEF PipeSecond, Goto, Moves
<1>7. /\ ref' = [ref EXCEPT ![g] = 1] /\ type' = type /\ objs' = objs /\ alive' = alive
      /\ ref' \in [Files -> Nat]
  BY <1>1, <1>3, <1>4 DEF PipeSecond, Take
<1>8. RefsCountDescriptors'
  <2>1. \A d \in FDs : Desc("pipe3", r, q, d) = Desc("pipe2", s, q, d)
    BY DEF Desc
  <2>2. First("pipe2", s) = f /\ Second("pipe2", s) = 0
        /\ First("pipe3", r) = f /\ Second("pipe3", r) = g
    BY <1>2, <1>5 DEF First, Second
  <2>3. \A h \in Files : ref'[h] + Is(f, h) + Is(0, h) = ref[h] + Is(f, h) + Is(g, h)
    BY <1>3, <1>4, <1>5, <1>7, FileNat DEF Is
  <2> QED
    BY <1>1, <1>3, <1>4, <1>6, <1>7, <2>1, <2>2, <2>3 DEF Setting, CountNoFd
<1>9. ObjectsReleased'
  <2>1. objs' + In("pipe2", Holding) = objs + In("pipe3", Holding)
    BY <1>4, <1>7 DEF In, Holding
  <2> QED
    BY <1>3, <1>4, <1>6, <1>7, <2>1 DEF Setting, ObjectsSame
<1>10. After(p, "pipe3", r, q)
  <2>1. NewFiles("pipe2", s) = {f} /\ NewFiles("pipe3", r) = {f, g}
    BY <1>5 DEF NewFiles
  <2>2. \A d \in FDs : Fine(Desc("pipe2", s, q, d), "pipe2", s)
    BY <1>1, <1>3 DEF Setting, OwnsIs
  <2>3. \A d \in FDs : Kept(Desc("pipe3", r, q, d), "pipe3", r)
    BY <2>1, <2>2 DEF Fine, Kept, Desc
  <2>4. Kept(First("pipe3", r), "pipe3", r) /\ Kept(Second("pipe3", r), "pipe3", r)
    BY <1>5, <2>1 DEF Kept, First, Second
  <2>5. type[g] = "none" /\ \A h \in Files : ref[h] = 0 => type[h] = "none"
    BY <1>3 DEF TableInv, Typed
  <2>6. \A h \in Files : ref'[h] = 0 => type'[h] = "none"
    BY <1>3, <1>4, <1>7, <2>5
  <2>7. \A h \in NewFiles("pipe3", r) : ref'[h] = 1 /\ type'[h] = "none"
    BY <1>3, <1>4, <1>5, <1>7, <2>1, <2>5
  <2>8. \A h \in Files : (ref'[h] = ref[h] /\ type'[h] = type[h]) \/ ref[h] = 0 \/ Owns(p, h)
    BY <1>3, <1>4, <1>7
  <2> QED
    BY <1>7, <2>3, <2>4, <2>6, <2>7, <2>8 DEF After
<1>11. Local("pipe3", r, q) /\ "pipe3" \in Calls /\ r \in Locals
  BY <1>3, <1>5, FileNat DEF Local, Calls
<1> QED
  BY <1>1, <1>3, <1>4, <1>5, <1>6, <1>7, <1>8, <1>9, <1>10, <1>11 DEF Setting, Step

(* pipealloc without a second file gives the first one back.               *)
LEMMA PipeSecondNone ==
  ASSUME Setting, TableInv, NEW p \in Procs, PipeSecond(p), FreeFiles = {}
  PROVE  TableInv'
<1>1. PICK s, q, f : s = loc[p] /\ q = ofile[p] /\ f = loc[p].f0
  OBVIOUS
<1>2. PICK r : r = NoLoc
  OBVIOUS
<1>3. p \in alive /\ pc[p] = "pipe2"
  BY DEF PipeSecond, At
<1>4. /\ s \in Locals /\ q \in [FDs -> Files \cup {0}] /\ Local("pipe2", s, q)
      /\ ref \in [Files -> Nat] /\ type \in [Files -> {"none", "inode", "pipe"}]
      /\ objs \in Nat /\ TypeOK /\ RefsCountDescriptors /\ ObjectsReleased
  BY <1>1, <1>3, Before
<1>5. /\ f = s.f0 /\ f \in Files /\ ref[f] = 1 /\ type[f] = "none" /\ Alone("pipe2", s, q, f)
      /\ r.child = {} /\ s.child = {}
  <2>1. f \in NewFiles("pipe2", s) /\ f = s.f0
    BY <1>1 DEF NewFiles
  <2> QED
    BY <1>1, <1>2, <1>3, <1>4, <2>1 DEF Local, NoLoc, Setting, AloneIs
<1>6. Moves(p, "user", r, q)
  BY <1>1, <1>2, <1>4, SameFds DEF PipeSecond, Goto, Moves
<1>7. /\ ref' = [ref EXCEPT ![f] = 0] /\ type' = type /\ objs' = objs /\ alive' = alive
      /\ ref' \in [Files -> Nat]
  BY <1>1, <1>4, <1>5 DEF PipeSecond
<1>8. RefsCountDescriptors'
  <2>1. \A d \in FDs : Desc("user", r, q, d) = Desc("pipe2", s, q, d)
    BY DEF Desc
  <2>2. First("pipe2", s) = f /\ Second("pipe2", s) = 0
        /\ First("user", r) = 0 /\ Second("user", r) = 0
    BY <1>2, <1>5 DEF First, Second
  <2>3. \A h \in Files : ref'[h] + Is(f, h) + Is(0, h) = ref[h] + Is(0, h) + Is(0, h)
    BY <1>3, <1>4, <1>5, <1>7, FileNat DEF Is
  <2> QED
    BY <1>1, <1>3, <1>4, <1>6, <1>7, <2>1, <2>2, <2>3 DEF Setting, CountNoFd
<1>9. ObjectsReleased'
  <2>1. objs' + In("pipe2", Holding) = objs + In("user", Holding)
    BY <1>4, <1>7 DEF In, Holding
  <2> QED
    BY <1>3, <1>4, <1>6, <1>7, <2>1 DEF Setting, ObjectsSame
<1>10. After(p, "user", r, q)
  <2>1. First("pipe2", s) = f
    BY <1>5 DEF First
  <2>2. Owns(p, f) /\ \A d \in FDs : Fine(Desc("pipe2", s, q, d), "pipe2", s)
    BY <1>1, <1>3, <2>1 DEF Setting, OwnsIs
  <2>3. \A d \in FDs : Kept(Desc("user", r, q, d), "user", r)
    BY <1>5, <2>1, <2>2 DEF Fine, Kept, Desc, NewFiles, Alone
  <2>4. Kept(First("user", r), "user", r) /\ Kept(Second("user", r), "user", r)
    BY DEF Kept, First, Second
  <2>5. \A g \in Files : ref'[g] = 0 => type'[g] = "none"
    BY <1>4, <1>5, <1>7 DEF TableInv, Typed
  <2>6. \A g \in Files : (ref'[g] = ref[g] /\ type'[g] = type[g]) \/ ref[g] = 0 \/ Owns(p, g)
    BY <1>4, <1>5, <1>7, <2>2
  <2> QED
    BY <1>7, <2>3, <2>4, <2>5, <2>6 DEF After, NewFiles
<1>11. Local("user", r, q) /\ "user" \in Calls /\ r \in Locals
  BY <1>2, <1>3 DEF Local, NoLoc, Calls, Locals, TableAssumption, Setting
<1> QED
  BY <1>1, <1>3, <1>4, <1>5, <1>6, <1>7, <1>8, <1>9, <1>10, <1>11 DEF Setting, Step

(* pipealloc with a page: both files become pipe ends.                     *)
LEMMA PipePageOne ==
  ASSUME Setting, TableInv, NEW p \in Procs, PipePage(p), ref' = ref
  PROVE  TableInv'
<1>1. PICK s, q, f, g : s = loc[p] /\ q = ofile[p] /\ f = loc[p].f0 /\ g = loc[p].f1
  OBVIOUS
<1>2. PICK r : r = s
  OBVIOUS
<1>3. p \in alive /\ pc[p] = "pipe3" /\ ref[f] = 1
  <2>1. p \in alive /\ pc[p] = "pipe3" /\ f \in NewFiles("pipe3", s)
    BY <1>1 DEF PipePage, At, NewFiles
  <2> QED
    BY <1>1, <2>1 DEF Setting, AloneIs
<1>4. /\ s \in Locals /\ q \in [FDs -> Files \cup {0}] /\ Local("pipe3", s, q)
      /\ ref \in [Files -> Nat] /\ type \in [Files -> {"none", "inode", "pipe"}]
      /\ objs \in Nat /\ TypeOK /\ RefsCountDescriptors /\ ObjectsReleased
  BY <1>1, <1>3, Before
<1>5. /\ f = s.f0 /\ g = s.f1 /\ f \in Files /\ g \in Files /\ f # g
      /\ ref[f] = 1 /\ ref[g] = 1 /\ type[f] = "none" /\ type[g] = "none"
      /\ Alone("pipe3", s, q, f) /\ Alone("pipe3", s, q, g)
      /\ First("pipe3", s) = f /\ Second("pipe3", s) = g
      /\ r.child = {} /\ s.child = {} /\ s.k # "exit"
  <2>1. f \in NewFiles("pipe3", s) /\ g \in NewFiles("pipe3", s) /\ f = s.f0 /\ g = s.f1
    BY <1>1 DEF NewFiles
  <2>2. f \in Files /\ ref[f] = 1 /\ type[f] = "none" /\ Alone("pipe3", s, q, f)
    BY <1>1, <1>3, <1>4, <2>1 DEF Setting, AloneIs
  <2>3. g \in Files /\ ref[g] = 1 /\ type[g] = "none" /\ Alone("pipe3", s, q, g)
    BY <1>1, <1>3, <1>4, <2>1 DEF Setting, AloneIs
  <2>4. First("pipe3", s) = f /\ Second("pipe3", s) = g
    BY <2>1 DEF First, Second
  <2> QED
    BY <1>2, <1>4, <2>1, <2>2, <2>3, <2>4 DEF Local, Alone, NoLoc
<1>6. Moves(p, "pipefds", r, q)
  BY <1>1, <1>2, <1>3, <1>4, <1>5, SameFds DEF PipePage, Goto, Moves
<1>7. /\ type' = [type EXCEPT ![f] = "pipe", ![g] = "pipe"] /\ objs' = objs + 2 /\ alive' = alive
      /\ type' \in [Files -> {"none", "inode", "pipe"}] /\ objs' \in Nat
  BY <1>1, <1>3, <1>4, <1>5 DEF PipePage
<1>8. RefsCountDescriptors'
  <2>1. \A d \in FDs : Desc("pipefds", r, q, d) = Desc("pipe3", s, q, d)
    BY DEF Desc
  <2>2. First("pipe3", s) = f /\ Second("pipe3", s) = g
        /\ First("pipefds", r) = f /\ Second("pipefds", r) = g
    BY <1>2, <1>5 DEF First, Second
  <2>3. \A h \in Files : ref'[h] + Is(f, h) + Is(g, h) = ref[h] + Is(f, h) + Is(g, h)
    BY <1>3, <1>4, <1>5, <1>7, FileNat DEF Is
  <2> QED
    BY <1>1, <1>3, <1>4, <1>6, <1>7, <2>1, <2>2, <2>3 DEF Setting, CountNoFd
<1>9. ObjectsReleased'
  <2>1. objs' + In("pipe3", Holding) = objs + In("pipefds", Holding) + 2
    BY <1>4, <1>7 DEF In, Holding
  <2>2. Same2(Files, type, type', f, g) /\ type'[f] \in Kinds /\ type'[g] \in Kinds
    BY <1>4, <1>5, <1>7 DEF Same2, Kinds
  <2> QED
    BY <1>3, <1>4, <1>5, <1>6, <1>7, <2>1, <2>2 DEF Setting, ObjectsPair
<1>10. After(p, "pipefds", r, q)
  <2>1. NewFiles("pipe3", s) = {f, g} /\ NewFiles("pipefds", r) = {}
    BY <1>5 DEF NewFiles
  <2>2. /\ \A d \in FDs : Fine(Desc("pipe3", s, q, d), "pipe3", s)
        /\ Owns(p, f) /\ Owns(p, g)
    BY <1>1, <1>3, <1>5 DEF Setting, OwnsIs
  <2>3. type'[f] # "none" /\ type'[g] # "none"
    BY <1>4, <1>5, <1>7
  <2>4. \A d \in FDs : Kept(Desc("pipefds", r, q, d), "pipefds", r)
    BY <2>1, <2>2, <2>3 DEF Fine, Kept, Desc
  <2>5. Kept(First("pipefds", r), "pipefds", r) /\ Kept(Second("pipefds", r), "pipefds", r)
    BY <1>2, <1>5, <2>3 DEF Kept, First, Second
  <2>6. \A h \in Files : ref'[h] = 0 => type'[h] = "none"
    BY <1>3, <1>4, <1>5, <1>7 DEF TableInv, Typed
  <2>7. \A h \in Files : (ref'[h] = ref[h] /\ type'[h] = type[h]) \/ ref[h] = 0 \/ Owns(p, h)
    BY <1>4, <1>5, <1>7, <2>2
  <2>8. \A h \in Files : type[h] # "none" => type'[h] # "none"
    BY <1>4, <1>5, <1>7
  <2> QED
    BY <2>1, <2>4, <2>5, <2>6, <2>7, <2>8 DEF After
<1>11. Local("pipefds", r, q) /\ "pipefds" \in Calls /\ r \in Locals
  BY <1>2, <1>4, <1>5, FileNat DEF Local, Calls
<1> QED
  BY <1>1, <1>3, <1>4, <1>5, <1>6, <1>7, <1>8, <1>9, <1>10, <1>11 DEF Setting, Step

(* pipealloc without a page gives both files back.                         *)
LEMMA PipePageNone ==
  ASSUME Setting, TableInv, NEW p \in Procs, PipePage(p), type' = type
  PROVE  TableInv'
<1>1. PICK s, q, f, g : s = loc[p] /\ q = ofile[p] /\ f = loc[p].f0 /\ g = loc[p].f1
  OBVIOUS
<1>2. PICK r : r = NoLoc
  OBVIOUS
<1>3. p \in alive /\ pc[p] = "pipe3" /\ type[f] = "none" /\ f \in Files
  <2>1. p \in alive /\ pc[p] = "pipe3" /\ f \in NewFiles("pipe3", s)
    BY <1>1 DEF PipePage, At, NewFiles
  <2> QED
    BY <1>1, <2>1 DEF Setting, AloneIs
<1>4. /\ s \in Locals /\ q \in [FDs -> Files \cup {0}] /\ Local("pipe3", s, q)
      /\ ref \in [Files -> Nat] /\ type \in [Files -> {"none", "inode", "pipe"}]
      /\ objs \in Nat /\ TypeOK /\ RefsCountDescriptors /\ ObjectsReleased
  BY <1>1, <1>3, Before
<1>5. /\ f = s.f0 /\ g = s.f1 /\ f \in Files /\ g \in Files /\ f # g
      /\ ref[f] = 1 /\ ref[g] = 1 /\ type[f] = "none" /\ type[g] = "none"
      /\ Alone("pipe3", s, q, f) /\ Alone("pipe3", s, q, g)
      /\ First("pipe3", s) = f /\ Second("pipe3", s) = g
      /\ r.child = {} /\ s.child = {} /\ s.k # "exit"
  <2>1. f \in NewFiles("pipe3", s) /\ g \in NewFiles("pipe3", s) /\ f = s.f0 /\ g = s.f1
    BY <1>1 DEF NewFiles
  <2>2. f \in Files /\ ref[f] = 1 /\ type[f] = "none" /\ Alone("pipe3", s, q, f)
    BY <1>1, <1>3, <1>4, <2>1 DEF Setting, AloneIs
  <2>3. g \in Files /\ ref[g] = 1 /\ type[g] = "none" /\ Alone("pipe3", s, q, g)
    BY <1>1, <1>3, <1>4, <2>1 DEF Setting, AloneIs
  <2>4. First("pipe3", s) = f /\ Second("pipe3", s) = g
    BY <2>1 DEF First, Second
  <2> QED
    BY <1>2, <1>4, <2>1, <2>2, <2>3, <2>4 DEF Local, Alone, NoLoc
<1>6. Moves(p, "user", r, q)
  BY <1>1, <1>2, <1>3, <1>4, <1>5, SameFds DEF PipePage, Goto, Moves
<1>7. /\ ref' = [ref EXCEPT ![f] = 0, ![g] = 0] /\ objs' = objs /\ alive' = alive
      /\ ref' \in [Files -> Nat]
  BY <1>1, <1>3, <1>4, <1>5 DEF PipePage
<1>8. RefsCountDescriptors'
  <2>1. \A d \in FDs : Desc("user", r, q, d) = Desc("pipe3", s, q, d)
    BY DEF Desc
  <2>2. First("pipe3", s) = f /\ Second("pipe3", s) = g
        /\ First("user", r) = 0 /\ Second("user", r) = 0
    BY <1>2, <1>5 DEF First, Second
  <2>3. \A h \in Files : ref'[h] + Is(f, h) + Is(g, h) = ref[h] + Is(0, h) + Is(0, h)
    BY <1>3, <1>4, <1>5, <1>7, FileNat DEF Is
  <2> QED
    BY <1>1, <1>3, <1>4, <1>6, <1>7, <2>1, <2>2, <2>3 DEF Setting, CountNoFd
<1>9. ObjectsReleased'
  <2>1. objs' + In("pipe3", Holding) = objs + In("user", Holding)
    BY <1>4, <1>7 DEF In, Holding
  <2> QED
    BY <1>3, <1>4, <1>6, <1>7, <2>1 DEF Setting, ObjectsSame
<1>10. After(p, "user", r, q)
  <2>1. NewFiles("pipe3", s) = {f, g} /\ NewFiles("user", r) = {}
    BY <1>5 DEF NewFiles
  <2>2. /\ \A d \in FDs : Fine(Desc("pipe3", s, q, d), "pipe3", s)
        /\ Owns(p, f) /\ Owns(p, g)
    BY <1>1, <1>3, <1>5 DEF Setting, OwnsIs
  <2>4. \A d \in FDs : Kept(Desc("user", r, q, d), "user", r)
    BY <1>5, <2>1, <2>2 DEF Fine, Kept, Desc, Alone
  <2>5. Kept(First("user", r), "user", r) /\ Kept(Second("user", r), "user", r)
    BY DEF Kept, First, Second
  <2>6. \A h \in Files : ref'[h] = 0 => type'[h] = "none"
    BY <1>3, <1>4, <1>5, <1>7 DEF TableInv, Typed
  <2>7. \A h \in Files : (ref'[h] = ref[h] /\ type'[h] = type[h]) \/ ref[h] = 0 \/ Owns(p, h)
    BY <1>4, <1>5, <1>7, <2>2
  <2> QED
    BY <1>7, <2>1, <2>4, <2>5, <2>6, <2>7 DEF After
<1>11. Local("user", r, q) /\ "user" \in Calls /\ r \in Locals
  BY <1>2, <1>3 DEF Local, NoLoc, Calls, Locals, TableAssumption, Setting
<1> QED
  BY <1>1, <1>3, <1>4, <1>5, <1>6, <1>7, <1>8, <1>9, <1>10, <1>11 DEF Setting, Step

(* sys_pipe without two free descriptors goes on to close both files.      *)
LEMMA PipeFdsNone ==
  ASSUME Setting, TableInv, NEW p \in Procs, PipeFds(p), ~(Cardinality(FreeFds(p)) >= 2)
  PROVE  TableInv'
<1>1. PICK s, q, f, g : s = loc[p] /\ q = ofile[p] /\ f = loc[p].f0 /\ g = loc[p].f1
  OBVIOUS
<1>2. PICK r : r = s
  OBVIOUS
<1>3. p \in alive /\ pc[p] = "pipefds"
  BY DEF PipeFds, At
<1>4. /\ s \in Locals /\ q \in [FDs -> Files \cup {0}] /\ Local("pipefds", s, q)
      /\ ref \in [Files -> Nat] /\ type \in [Files -> {"none", "inode", "pipe"}]
      /\ objs \in Nat /\ TypeOK /\ RefsCountDescriptors /\ ObjectsReleased
  BY <1>1, <1>3, Before
<1>5. f = s.f0 /\ g = s.f1 /\ s.child = {} /\ r.child = {}
  BY <1>1, <1>2, <1>4 DEF Local
<1>6. Moves(p, "close", r, q)
  BY <1>1, <1>2, <1>4, SameFds DEF PipeFds, KeptFds, Goto, Moves
<1>7. ref' = ref /\ type' = type /\ objs' = objs /\ alive' = alive
  BY DEF PipeFds, table
<1>8. RefsCountDescriptors'
  <2>1. \A d \in FDs : Desc("close", r, q, d) = Desc("pipefds", s, q, d)
    BY DEF Desc
  <2>2. First("pipefds", s) = f /\ Second("pipefds", s) = g
        /\ First("close", r) = f /\ Second("close", r) = g
    BY <1>2, <1>5 DEF First, Second
  <2>3. \A h \in Files : ref'[h] + Is(f, h) + Is(g, h) = ref[h] + Is(f, h) + Is(g, h)
    BY <1>3, <1>4, <1>5, <1>7, FileNat DEF Is
  <2> QED
    BY <1>1, <1>3, <1>4, <1>6, <1>7, <2>1, <2>2, <2>3 DEF Setting, CountNoFd
<1>9. ObjectsReleased'
  <2>1. objs' + In("pipefds", Holding) = objs + In("close", Holding)
    BY <1>4, <1>7 DEF In, Holding
  <2> QED
    BY <1>3, <1>4, <1>6, <1>7, <2>1 DEF Setting, ObjectsSame
<1>10. After(p, "close", r, q)
  <2>1. /\ \A d \in FDs : Fine(Desc("pipefds", s, q, d), "pipefds", s)
        /\ Fine(First("pipefds", s), "pipefds", s) /\ Fine(Second("pipefds", s), "pipefds", s)
    BY <1>1, <1>3 DEF Setting, OwnsIs
  <2>2. NewFiles("pipefds", s) = {} /\ NewFiles("close", r) = {}
    BY DEF NewFiles
  <2>3. \A d \in FDs : Kept(Desc("close", r, q, d), "close", r)
    BY <1>2, <1>3, <1>4, <1>5, <2>1, <2>2 DEF Fine, Kept, Desc
  <2>4. Kept(First("close", r), "close", r) /\ Kept(Second("close", r), "close", r)
    BY <1>2, <1>3, <1>5, <2>1, <2>2 DEF Fine, Kept, First, Second, Desc
  <2>5. \A h \in Files : ref'[h] = 0 => type'[h] = "none"
    BY <1>7 DEF TableInv, Typed
  <2> QED
    BY <1>7, <2>2, <2>3, <2>4, <2>5 DEF After
<1>11. Local("close", r, q) /\ "close" \in Calls /\ r \in Locals
  BY <1>2, <1>4 DEF Local, Calls
<1> QED
  BY <1>1, <1>3, <1>4, <1>5, <1>6, <1>7, <1>8, <1>9, <1>10, <1>11 DEF Setting, Step

(* sys_pipe: both references move to two different descriptors.            *)
LEMMA PipeFdsTwo ==
  ASSUME Setting, TableInv, NEW p \in Procs, PipeFds(p), Cardinality(FreeFds(p)) >= 2
  PROVE  TableInv'
<1>1. PICK s, q, f, g, e, i : s = loc[p] /\ q = ofile[p] /\ f = loc[p].f0 /\ g = loc[p].f1
                        /\ e = Min(FreeFds(p)) /\ i = Min(FreeFds(p) \ {e})
  OBVIOUS
<1>2. PICK r, o : r = NoLoc /\ o = [q EXCEPT ![e] = f, ![i] = g]
  OBVIOUS
<1>3. /\ p \in alive /\ pc[p] = "pipefds"
      /\ e \in FDs /\ i \in FDs /\ e # i /\ q[e] = 0 /\ q[i] = 0
  BY <1>1 DEF PipeFds, At, Setting, TwoFreeFds
<1>4. /\ s \in Locals /\ q \in [FDs -> Files \cup {0}] /\ Local("pipefds", s, q)
      /\ ref \in [Files -> Nat] /\ type \in [Files -> {"none", "inode", "pipe"}]
      /\ objs \in Nat /\ TypeOK /\ RefsCountDescriptors /\ ObjectsReleased
  BY <1>1, <1>3, Before
<1>5. /\ f = s.f0 /\ g = s.f1 /\ f \in Files /\ g \in Files
      /\ s.child = {} /\ r.child = {} /\ o \in [FDs -> Files \cup {0}] /\ o[e] = f /\ o[i] = g
      /\ \A d \in FDs \ {e, i} : o[d] = q[d]
  <2>1. f = s.f0 /\ g = s.f1 /\ f \in Files /\ g \in Files /\ s.child = {} /\ r.child = {}
    BY <1>1, <1>2, <1>4 DEF Local, Locals, NoLoc
  <2> QED
    BY <1>2, <1>3, <1>4, <2>1
<1>6. Moves(p, "user", r, o)
  <2>1. ofile' = [ofile EXCEPT ![p][e] = f, ![p][i] = g] /\ Goto(p, "user", NoLoc)
    BY <1>1 DEF PipeFds
  <2> QED
    BY <1>1, <1>2, <1>4, <2>1 DEF Goto, Moves, TypeOK
<1>7. ref' = ref /\ type' = type /\ objs' = objs /\ alive' = alive
  BY DEF PipeFds, table
<1>8. RefsCountDescriptors'
  <2>1. \A d \in FDs \ {e, i} : Desc("user", r, o, d) = Desc("pipefds", s, q, d)
    BY <1>5 DEF Desc
  <2>2. /\ First("pipefds", s) = f /\ Second("pipefds", s) = g
        /\ Desc("pipefds", s, q, e) = 0 /\ Desc("pipefds", s, q, i) = 0
        /\ First("user", r) = 0 /\ Second("user", r) = 0
        /\ Desc("user", r, o, e) = f /\ Desc("user", r, o, i) = g
    BY <1>3, <1>5 DEF First, Second, Desc
  <2>3. \A h \in Files : ref'[h] + Is(f, h) + Is(g, h) + Is(0, h) + Is(0, h)
                           = ref[h] + Is(0, h) + Is(0, h) + Is(f, h) + Is(g, h)
    BY <1>4, <1>7, FileNat DEF Is
  <2>4. /\ TypeOK /\ RefsCountDescriptors /\ ref' \in [Files -> Nat]
        /\ pc[p] = "pipefds" /\ loc[p] = s /\ ofile[p] = q
        /\ e \in FDs /\ i \in FDs /\ e # i
    BY <1>1, <1>3, <1>4, <1>5, <1>7
  <2> QED
    BY ONLY Setting, p \in Procs, <1>6, <2>1, <2>2, <2>3, <2>4 DEF Setting, CountTwoFds
<1>9. ObjectsReleased'
  <2>1. objs' + In("pipefds", Holding) = objs + In("user", Holding)
    BY <1>4, <1>7 DEF In, Holding
  <2> QED
    BY <1>3, <1>4, <1>6, <1>7, <2>1 DEF Setting, ObjectsSame
<1>10. After(p, "user", r, o)
  <2>1. /\ \A d \in FDs : Fine(Desc("pipefds", s, q, d), "pipefds", s)
        /\ Fine(First("pipefds", s), "pipefds", s) /\ Fine(Second("pipefds", s), "pipefds", s)
    BY <1>1, <1>3 DEF Setting, OwnsIs
  <2>2. NewFiles("pipefds", s) = {} /\ NewFiles("user", r) = {}
    BY DEF NewFiles
  <2>3. \A d \in FDs : Kept(Desc("user", r, o, d), "user", r)
    BY <1>2, <1>3, <1>4, <1>5, <2>1, <2>2 DEF Fine, Kept, Desc, First, Second
  <2>4. Kept(First("user", r), "user", r) /\ Kept(Second("user", r), "user", r)
    BY <1>2, <1>3, <1>5, <2>1, <2>2 DEF Fine, Kept, First, Second, Desc
  <2>5. \A h \in Files : ref'[h] = 0 => type'[h] = "none"
    BY <1>7 DEF TableInv, Typed
  <2> QED
    BY <1>7, <2>2, <2>3, <2>4, <2>5 DEF After
<1>11. Local("user", r, o) /\ "user" \in Calls /\ r \in Locals
  BY <1>2, <1>3 DEF Local, NoLoc, Calls, Locals, TableAssumption, Setting
<1> QED
  BY <1>1, <1>3, <1>4, <1>5, <1>6, <1>7, <1>8, <1>9, <1>10, <1>11 DEF Setting, Step

(* sys_dup, first part: the new descriptor is not counted yet.             *)
LEMMA DupKeeps ==
  ASSUME Setting, TableInv, NEW p \in Procs, NEW x \in FDs, Dup(p, x)
  PROVE  TableInv'
<1>1. PICK s, q, f, e : s = loc[p] /\ q = ofile[p] /\ f = ofile[p][x] /\ e = Min(FreeFds(p))
  OBVIOUS
<1>2. PICK r, o : r = [s EXCEPT !.f0 = f, !.fd = e] /\ o = [q EXCEPT ![e] = f]
  OBVIOUS
<1>3. p \in alive /\ pc[p] = "user" /\ e \in FDs /\ q[e] = 0 /\ f = q[x] /\ f # 0
  BY <1>1 DEF Dup, At, Setting, FreeFd
<1>4. /\ s \in Locals /\ q \in [FDs -> Files \cup {0}] /\ Local("user", s, q)
      /\ ref \in [Files -> Nat] /\ type \in [Files -> {"none", "inode", "pipe"}]
      /\ objs \in Nat /\ TypeOK /\ RefsCountDescriptors /\ ObjectsReleased
  BY <1>1, <1>3, Before
<1>5. /\ s = NoLoc /\ r.f0 = f /\ r.fd = e /\ r.child = {} /\ s.child = {} /\ r.k = "user"
      /\ f \in Files /\ o \in [FDs -> Files \cup {0}] /\ o[e] = f /\ o[x] = f /\ x # e
      /\ \A d \in FDs \ {e} : o[d] = q[d]
  <2>1. s = NoLoc /\ r.f0 = f /\ r.fd = e /\ r.child = {} /\ s.child = {} /\ r.k = "user"
    BY <1>2, <1>4 DEF Local, NoLoc
  <2> QED
    BY <1>2, <1>3, <1>4, <2>1
<1>6. Moves(p, "filedup", r, o)
  BY <1>1, <1>2, <1>4 DEF Dup, Goto, Moves, TypeOK
<1>7. ref' = ref /\ type' = type /\ objs' = objs /\ alive' = alive
  BY DEF Dup, table
<1>8. RefsCountDescriptors'
  <2>1. \A d \in FDs \ {e} : Desc("filedup", r, o, d) = Desc("user", s, q, d)
    BY <1>2, <1>4, <1>5 DEF Desc
  <2>2. /\ First("user", s) = 0 /\ Second("user", s) = 0 /\ Desc("user", s, q, e) = 0
        /\ First("filedup", r) = 0 /\ Second("filedup", r) = 0 /\ Desc("filedup", r, o, e) = 0
    BY <1>2, <1>3, <1>5 DEF First, Second, Desc
  <2>3. \A h \in Files : ref'[h] + Is(0, h) + Is(0, h) + Is(0, h)
                           = ref[h] + Is(0, h) + Is(0, h) + Is(0, h)
    BY <1>3, <1>4, <1>5, <1>7, FileNat DEF Is
  <2>4. /\ TypeOK /\ RefsCountDescriptors /\ ref' \in [Files -> Nat]
        /\ pc[p] = "user" /\ loc[p] = s /\ ofile[p] = q /\ e \in FDs
    BY <1>1, <1>3, <1>4, <1>5, <1>7
  <2> QED
    BY ONLY Setting, p \in Procs, <1>6, <2>1, <2>2, <2>3, <2>4 DEF Setting, CountOneFd
<1>9. ObjectsReleased'
  <2>1. objs' + In("user", Holding) = objs + In("filedup", Holding)
    BY <1>4, <1>7 DEF In, Holding
  <2> QED
    BY <1>3, <1>4, <1>6, <1>7, <2>1 DEF Setting, ObjectsSame
<1>10. After(p, "filedup", r, o)
  <2>1. /\ \A d \in FDs : Fine(Desc("user", s, q, d), "user", s)
        /\ Fine(First("user", s), "user", s) /\ Fine(Second("user", s), "user", s)
    BY <1>1, <1>3 DEF Setting, OwnsIs
  <2>2. NewFiles("user", s) = {} /\ NewFiles("filedup", r) = {}
    BY DEF NewFiles
  <2>3. \A d \in FDs : Kept(Desc("filedup", r, o, d), "filedup", r)
    BY <1>2, <1>3, <1>4, <1>5, <2>1, <2>2 DEF Fine, Kept, Desc
  <2>4. Kept(First("filedup", r), "filedup", r) /\ Kept(Second("filedup", r), "filedup", r)
    BY <1>2, <1>3, <1>5, <2>1, <2>2 DEF Fine, Kept, First, Second, Desc
  <2>5. \A h \in Files : ref'[h] = 0 => type'[h] = "none"
    BY <1>7 DEF TableInv, Typed
  <2> QED
    BY <1>7, <2>2, <2>3, <2>4, <2>5 DEF After
<1>11. Local("filedup", r, o) /\ "filedup" \in Calls /\ r \in Locals
  <2>1. e \in 0 .. NOFILE
    BY <1>3 DEF FDs, TableAssumption, Setting
  <2> QED
    BY <1>2, <1>3, <1>5, <2>1 DEF Local, Calls, Locals, NoLoc
<1> QED
  BY <1>1, <1>3, <1>4, <1>5, <1>6, <1>7, <1>8, <1>9, <1>10, <1>11 DEF Setting, Step

(* sys_dup, second part: the count catches up with the descriptor.         *)
LEMMA DupCountKeeps ==
  ASSUME Setting, TableInv, NEW p \in Procs, DupCount(p)
  PROVE  TableInv'
<1>1. PICK s, q, f, e : s = loc[p] /\ q = ofile[p] /\ f = loc[p].f0 /\ e = loc[p].fd
  OBVIOUS
<1>2. PICK r : r = NoLoc
  OBVIOUS
<1>3. p \in alive /\ pc[p] = "filedup"
  BY DEF DupCount, At
<1>4. /\ s \in Locals /\ q \in [FDs -> Files \cup {0}] /\ Local("filedup", s, q)
      /\ ref \in [Files -> Nat] /\ type \in [Files -> {"none", "inode", "pipe"}]
      /\ objs \in Nat /\ TypeOK /\ RefsCountDescriptors /\ ObjectsReleased
  BY <1>1, <1>3, Before
<1>5. /\ f = s.f0 /\ e = s.fd /\ f \in Files /\ e \in FDs /\ q[e] = f /\ type[f] # "none" /\ Owns(p, f)
      /\ r.child = {} /\ s.child = {}
  <2>1. /\ f = s.f0 /\ e = s.fd /\ f \in Files /\ e \in FDs /\ q[e] = f
        /\ r.child = {} /\ s.child = {}
    BY <1>1, <1>2, <1>4 DEF Local, Locals, NoLoc
  <2>2. PICK d \in FDs \ {e} : q[d] = f
    BY <1>4, <2>1 DEF Local
  <2>3. Desc("filedup", s, q, d) = f
    BY <2>1, <2>2 DEF Desc
  <2>4. Owns(p, f) /\ Fine(f, "filedup", s)
    BY <1>1, <1>3, <2>3 DEF Setting, OwnsIs
  <2> QED
    BY <2>1, <2>4, FileNat DEF Fine, NewFiles
<1>6. Moves(p, "user", r, q)
  BY <1>1, <1>2, <1>4, SameFds DEF DupCount, Goto, Moves
<1>7. /\ ref' = [ref EXCEPT ![f] = ref[f] + 1] /\ type' = type /\ objs' = objs /\ alive' = alive
      /\ ref' \in [Files -> Nat]
  BY <1>1, <1>4, <1>5 DEF DupCount, filedup
<1>8. RefsCountDescriptors'
  <2>1. \A d \in FDs \ {e} : Desc("user", r, q, d) = Desc("filedup", s, q, d)
    BY <1>2, <1>4, <1>5 DEF Desc
  <2>2. /\ First("filedup", s) = 0 /\ Second("filedup", s) = 0 /\ Desc("filedup", s, q, e) = 0
        /\ First("user", r) = 0 /\ Second("user", r) = 0 /\ Desc("user", r, q, e) = f
    BY <1>2, <1>3, <1>5 DEF First, Second, Desc
  <2>3. \A h \in Files : ref'[h] + Is(0, h) + Is(0, h) + Is(0, h)
                           = ref[h] + Is(0, h) + Is(0, h) + Is(f, h)
    BY <1>3, <1>4, <1>5, <1>7, FileNat DEF Is
  <2>4. /\ TypeOK /\ RefsCountDescriptors /\ ref' \in [Files -> Nat]
        /\ pc[p] = "filedup" /\ loc[p] = s /\ ofile[p] = q /\ e \in FDs
    BY <1>1, <1>3, <1>4, <1>5, <1>7
  <2> QED
    BY ONLY Setting, p \in Procs, <1>6, <2>1, <2>2, <2>3, <2>4 DEF Setting, CountOneFd
<1>9. ObjectsReleased'
  <2>1. objs' + In("filedup", Holding) = objs + In("user", Holding)
    BY <1>4, <1>7 DEF In, Holding
  <2> QED
    BY <1>3, <1>4, <1>6, <1>7, <2>1 DEF Setting, ObjectsSame
<1>10. After(p, "user", r, q)
  <2>1. /\ \A d \in FDs : Fine(Desc("filedup", s, q, d), "filedup", s)
    BY <1>1, <1>3 DEF Setting, OwnsIs
  <2>2. NewFiles("filedup", s) = {} /\ NewFiles("user", r) = {}
    BY DEF NewFiles
  <2>3. \A d \in FDs : Kept(Desc("user", r, q, d), "user", r)
    BY <1>5, <2>1, <2>2 DEF Fine, Kept, Desc
  <2>4. Kept(First("user", r), "user", r) /\ Kept(Second("user", r), "user", r)
    BY DEF Kept, First, Second
  <2>5. \A h \in Files : ref'[h] = 0 => type'[h] = "none"
    BY <1>4, <1>5, <1>7 DEF TableInv, Typed
  <2>6. \A h \in Files : (ref'[h] = ref[h] /\ type'[h] = type[h]) \/ ref[h] = 0 \/ Owns(p, h)
    BY <1>4, <1>5, <1>7
  <2> QED
    BY <1>7, <2>2, <2>3, <2>4, <2>5, <2>6 DEF After
<1>11. Local("user", r, q) /\ "user" \in Calls /\ r \in Locals
  BY <1>2, <1>3 DEF Local, NoLoc, Calls, Locals, TableAssumption, Setting
<1> QED
  BY <1>1, <1>3, <1>4, <1>5, <1>6, <1>7, <1>8, <1>9, <1>10, <1>11 DEF Setting, Step

(* sys_close: the reference moves from the descriptor to the call.         *)
LEMMA CloseKeeps ==
  ASSUME Setting, TableInv, NEW p \in Procs, NEW e \in FDs, Close(p, e)
  PROVE  TableInv'
<1>1. PICK s, q, f : s = loc[p] /\ q = ofile[p] /\ f = ofile[p][e]
  OBVIOUS
<1>2. PICK r, o : r = [s EXCEPT !.f0 = f] /\ o = [q EXCEPT ![e] = 0]
  OBVIOUS
<1>3. p \in alive /\ pc[p] = "user" /\ f = q[e] /\ f # 0
  BY <1>1 DEF Close, At
<1>4. /\ s \in Locals /\ q \in [FDs -> Files \cup {0}] /\ Local("user", s, q)
      /\ ref \in [Files -> Nat] /\ type \in [Files -> {"none", "inode", "pipe"}]
      /\ objs \in Nat /\ TypeOK /\ RefsCountDescriptors /\ ObjectsReleased
  BY <1>1, <1>3, Before
<1>5. /\ s = NoLoc /\ r.f0 = f /\ r.f1 = 0 /\ r.child = {} /\ s.child = {} /\ r.k = "user"
      /\ f \in Files /\ o \in [FDs -> Files \cup {0}] /\ o[e] = 0
      /\ \A d \in FDs \ {e} : o[d] = q[d]
  <2>1. s = NoLoc /\ r.f0 = f /\ r.f1 = 0 /\ r.child = {} /\ s.child = {} /\ r.k = "user"
    BY <1>2, <1>4 DEF Local, NoLoc
  <2> QED
    BY <1>2, <1>3, <1>4, <2>1
<1>6. Moves(p, "close", r, o)
  BY <1>1, <1>2, <1>4 DEF Close, Goto, Moves, TypeOK
<1>7. ref' = ref /\ type' = type /\ objs' = objs /\ alive' = alive
  BY DEF Close, table
<1>8. RefsCountDescriptors'
  <2>1. \A d \in FDs \ {e} : Desc("close", r, o, d) = Desc("user", s, q, d)
    BY <1>2, <1>4, <1>5 DEF Desc
  <2>2. /\ First("user", s) = 0 /\ Second("user", s) = 0 /\ Desc("user", s, q, e) = f
        /\ First("close", r) = f /\ Second("close", r) = 0 /\ Desc("close", r, o, e) = 0
    BY <1>2, <1>3, <1>5 DEF First, Second, Desc
  <2>3. \A h \in Files : ref'[h] + Is(0, h) + Is(0, h) + Is(f, h)
                           = ref[h] + Is(f, h) + Is(0, h) + Is(0, h)
    BY <1>3, <1>4, <1>5, <1>7, FileNat DEF Is
  <2>4. /\ TypeOK /\ RefsCountDescriptors /\ ref' \in [Files -> Nat]
        /\ pc[p] = "user" /\ loc[p] = s /\ ofile[p] = q /\ e \in FDs
    BY <1>1, <1>3, <1>4, <1>5, <1>7
  <2> QED
    BY ONLY Setting, p \in Procs, <1>6, <2>1, <2>2, <2>3, <2>4 DEF Setting, CountOneFd
<1>9. ObjectsReleased'
  <2>1. objs' + In("user", Holding) = objs + In("close", Holding)
    BY <1>4, <1>7 DEF In, Holding
  <2> QED
    BY <1>3, <1>4, <1>6, <1>7, <2>1 DEF Setting, ObjectsSame
<1>10. After(p, "close", r, o)
  <2>1. /\ \A d \in FDs : Fine(Desc("user", s, q, d), "user", s)
        /\ Fine(First("user", s), "user", s) /\ Fine(Second("user", s), "user", s)
    BY <1>1, <1>3 DEF Setting, OwnsIs
  <2>2. NewFiles("user", s) = {} /\ NewFiles("close", r) = {}
    BY DEF NewFiles
  <2>3. \A d \in FDs : Kept(Desc("close", r, o, d), "close", r)
    BY <1>2, <1>3, <1>4, <1>5, <2>1, <2>2 DEF Fine, Kept, Desc
  <2>4. Kept(First("close", r), "close", r) /\ Kept(Second("close", r), "close", r)
    BY <1>2, <1>3, <1>5, <2>1, <2>2 DEF Fine, Kept, First, Second, Desc
  <2>5. \A h \in Files : ref'[h] = 0 => type'[h] = "none"
    BY <1>7 DEF TableInv, Typed
  <2> QED
    BY <1>7, <2>2, <2>3, <2>4, <2>5 DEF After
<1>11. Local("close", r, o) /\ "close" \in Calls /\ r \in Locals
  BY <1>2, <1>3, <1>5 DEF Local, Calls, Locals, NoLoc, TableAssumption, Setting
<1> QED
  BY <1>1, <1>3, <1>4, <1>5, <1>6, <1>7, <1>8, <1>9, <1>10, <1>11 DEF Setting, Step

(* The second step of pipealloc, with either outcome.                      *)
LEMMA PipeSecondKeeps ==
  ASSUME Setting, TableInv, NEW p \in Procs, PipeSecond(p)
  PROVE  TableInv'
BY PipeSecondOne, PipeSecondNone

(* The last step of pipealloc, with either outcome.                        *)
LEMMA PipePageKeeps ==
  ASSUME Setting, TableInv, NEW p \in Procs, PipePage(p)
  PROVE  TableInv'
<1>1. ref' = ref \/ type' = type
  BY DEF PipePage
<1> QED
  BY <1>1, PipePageOne, PipePageNone
=============================================================================
