--------------------------- MODULE FileTableRules ---------------------------
(***************************************************************************)
(* What a step of one process does to the counts of the table of open      *)
(* files, and to the invariant TableInv: the rules with which              *)
(* FileTableSteps and FileTableProofs go through the steps.  They rest on  *)
(* Counting, facts about finite sets that FileTableProofs takes from the   *)
(* library.                                                                *)
(***************************************************************************)
EXTENDS FileTable, Integers, TLAPS

USE ZenonT(10), SMTT(20)

-----------------------------------------------------------------------------
(* A step of p inside its own call: it goes to l with the locals r and the *)
(* descriptors o.                                                          *)
Moves(p, l, r, o) ==
  /\ pc' = [pc EXCEPT ![p] = l] /\ loc' = [loc EXCEPT ![p] = r]
  /\ ofile' = [ofile EXCEPT ![p] = o]

(* What the three kinds of places of a process hold.                       *)
Desc(l, r, o, d) == IF l = "filedup" /\ d = r.fd THEN 0 ELSE o[d]
First(l, r) == IF l \in {"fdalloc", "pipe2", "pipe3", "pipefds", "close"} THEN r.f0 ELSE 0
Second(l, r) == IF l \in {"pipe3", "pipefds", "close", "release"} THEN r.f1 ELSE 0

(* 1 when a value is the file f, or in V; functions that differ little.    *)
Is(v, f) == IF v = f THEN 1 ELSE 0
In(v, V) == IF v \in V THEN 1 ELSE 0
Bit(H, x, V) == IF H[x] \in V THEN 1 ELSE 0
Same1(S, H, G, x) == \A y \in S : y # x => G[y] = H[y]
Same2(S, H, G, x, z) == \A y \in S : y # x /\ y # z => G[y] = H[y]
Retyped(f, t, u) == Same1(Files, type, type', f) /\ type[f] = t /\ type'[f] = u

(* A process holds f; the file v that a process at m holds has its type or *)
(* is new; a new file f is held at one place only.                         *)
Owns(p, f) == \E x \in Places : x[1] = p /\ Held[x] = f
Fine(v, m, s) == v = 0 \/ v \in NewFiles(m, s) \/ type[v] # "none"
Alone(m, s, q, f) ==
  /\ First(m, s) = f => Second(m, s) # f
  /\ \A d \in FDs : Desc(m, s, q, d) = f => First(m, s) # f /\ Second(m, s) # f

(* What a step of p must see to: it changes only files that were free or   *)
(* that p holds, and what p holds after it has its type or is new.         *)
Kept(v, l, r) == v = 0 \/ v \in NewFiles(l, r) \/ type[v] # "none" \/ type'[v] # "none"
After(p, l, r, o) ==
  /\ \A f \in Files : (ref'[f] = ref[f] /\ type'[f] = type[f]) \/ ref[f] = 0 \/ Owns(p, f)
  /\ \A f \in NewFiles(l, r) : ref'[f] = 1 /\ type'[f] = "none"
  /\ \A d \in FDs : Kept(Desc(l, r, o, d), l, r)
  /\ Kept(First(l, r), l, r) /\ Kept(Second(l, r), l, r)
  /\ \A f \in Files : ref'[f] = 0 => type'[f] = "none"
  /\ \A f \in Files : type[f] # "none" /\ type'[f] = "none" => ref'[f] = 0

-----------------------------------------------------------------------------
(* Facts about numbers and finite sets.                                    *)
MinFound == \A S \in SUBSET Nat : S # {} => Min(S) \in S
FinitePlaces == IsFiniteSet(Places) /\ IsFiniteSet(Files) /\ IsFiniteSet(Procs)
CountNumber == \A S, H, V : IsFiniteSet(S) => Count(S, H, V) \in Nat
CountNone == \A S, H, V : (\A x \in S : H[x] \notin V) => Count(S, H, V) = 0
CountHolders ==
  \A S, H, f : IsFiniteSet(S) =>
    /\ (\E x \in S : H[x] = f) => Count(S, H, {f}) # 0
    /\ Count(S, H, {f}) = 1 => \A x, y \in S : H[x] = f /\ H[y] = f => x = y
CountEntry ==
  \A S, H, G, V, x : (IsFiniteSet(S) /\ x \in S /\ Same1(S, H, G, x)) =>
    /\ Count(S, H, V) \in Nat /\ Count(S, G, V) \in Nat
    /\ Count(S, G, V) + Bit(H, x, V) = Count(S, H, V) + Bit(G, x, V)
TwoMembers == \A S : Cardinality(S) >= 2 => S # {} /\ \A x : S # {x}
Counting ==
  /\ MinFound /\ FinitePlaces /\ CountNumber /\ CountNone /\ CountHolders /\ CountEntry
  /\ TwoMembers

(* A file has a number other than 0.                                       *)
LEMMA FileNat == \A f \in Files : f \in Nat /\ f # 0
BY DEF Files

(* Functions that differ in few entries.                                   *)
Same3(S, H, G, x, z, w) == \A y \in S : y # x /\ y # z /\ y # w => G[y] = H[y]
Same4(S, H, G, x, z, w, u) == \A y \in S : y # x /\ y # z /\ y # w /\ y # u => G[y] = H[y]

(* A count when two, three or four entries of a function change.           *)

(* A bit is a number.                                                      *)
LEMMA BitNat == \A H, x, V : Bit(H, x, V) \in Nat
BY DEF Bit

(* Two entries, one after the other.                                       *)
LEMMA TwoEntries ==
  ASSUME NEW S, NEW H, NEW G, NEW V, NEW x, NEW z, Counting, IsFiniteSet(S),
         x \in S, z \in S, x # z, Same2(S, H, G, x, z)
  PROVE  /\ Count(S, H, V) \in Nat /\ Count(S, G, V) \in Nat
         /\ Count(S, G, V) + Bit(H, x, V) + Bit(H, z, V)
              = Count(S, H, V) + Bit(G, x, V) + Bit(G, z, V)
<1>1. PICK M : /\ Bit(M, x, V) = Bit(G, x, V)
               /\ Bit(M, z, V) = Bit(H, z, V)
               /\ Same1(S, H, M, x) /\ Same1(S, M, G, z)
  <2> WITNESS [y \in S |-> IF y = x THEN G[x] ELSE H[y]]
  <2> QED
    BY DEF Bit, Same1, Same2
<1>2. /\ Count(S, H, V) \in Nat /\ Count(S, M, V) \in Nat
      /\ Count(S, M, V) + Bit(H, x, V) = Count(S, H, V) + Bit(G, x, V)
  BY <1>1 DEF Counting, CountEntry
<1>3. /\ Count(S, G, V) \in Nat
      /\ Count(S, G, V) + Bit(H, z, V)
           = Count(S, M, V) + Bit(G, z, V)
  BY <1>1 DEF Counting, CountEntry
<1> QED
  BY <1>2, <1>3, BitNat

(* Three entries.                                                          *)
LEMMA ThreeEntries ==
  ASSUME NEW S, NEW H, NEW G, NEW V, NEW x, NEW z, NEW w, Counting, IsFiniteSet(S),
         x \in S, z \in S, w \in S, x # z, x # w, z # w, Same3(S, H, G, x, z, w)
  PROVE  /\ Count(S, H, V) \in Nat /\ Count(S, G, V) \in Nat
         /\ Count(S, G, V) + Bit(H, x, V) + Bit(H, z, V) + Bit(H, w, V)
              = Count(S, H, V) + Bit(G, x, V) + Bit(G, z, V) + Bit(G, w, V)
<1>1. PICK M : /\ Bit(M, x, V) = Bit(G, x, V)
               /\ Bit(M, z, V) = Bit(H, z, V)
               /\ Bit(M, w, V) = Bit(H, w, V)
               /\ Same1(S, H, M, x) /\ Same2(S, M, G, z, w)
  <2> WITNESS [y \in S |-> IF y = x THEN G[x] ELSE H[y]]
  <2> QED
    BY DEF Bit, Same1, Same3, Same2
<1>2. /\ Count(S, H, V) \in Nat /\ Count(S, M, V) \in Nat
      /\ Count(S, M, V) + Bit(H, x, V) = Count(S, H, V) + Bit(G, x, V)
  BY <1>1 DEF Counting, CountEntry
<1>3. /\ Count(S, G, V) \in Nat
      /\ Count(S, G, V) + Bit(H, z, V) + Bit(H, w, V)
           = Count(S, M, V) + Bit(G, z, V) + Bit(G, w, V)
  BY <1>1, TwoEntries
<1> QED
  BY <1>2, <1>3, BitNat

(* Four entries.                                                           *)
LEMMA FourEntries ==
  ASSUME NEW S, NEW H, NEW G, NEW V, NEW x, NEW z, NEW w, NEW u, Counting, IsFiniteSet(S),
         x \in S, z \in S, w \in S, u \in S, x # z, x # w, x # u, z # w, z # u, w # u, Same4(S, H, G, x, z, w, u)
  PROVE  /\ Count(S, H, V) \in Nat /\ Count(S, G, V) \in Nat
         /\ Count(S, G, V) + Bit(H, x, V) + Bit(H, z, V) + Bit(H, w, V) + Bit(H, u, V)
              = Count(S, H, V) + Bit(G, x, V) + Bit(G, z, V) + Bit(G, w, V) + Bit(G, u, V)
<1>1. PICK M : /\ Bit(M, x, V) = Bit(G, x, V)
               /\ Bit(M, z, V) = Bit(H, z, V)
               /\ Bit(M, w, V) = Bit(H, w, V)
               /\ Bit(M, u, V) = Bit(H, u, V)
               /\ Same1(S, H, M, x) /\ Same3(S, M, G, z, w, u)
  <2> WITNESS [y \in S |-> IF y = x THEN G[x] ELSE H[y]]
  <2> QED
    BY DEF Bit, Same1, Same4, Same3
<1>2. /\ Count(S, H, V) \in Nat /\ Count(S, M, V) \in Nat
      /\ Count(S, M, V) + Bit(H, x, V) = Count(S, H, V) + Bit(G, x, V)
  BY <1>1 DEF Counting, CountEntry
<1>3. /\ Count(S, G, V) \in Nat
      /\ Count(S, G, V) + Bit(H, z, V) + Bit(H, w, V) + Bit(H, u, V)
           = Count(S, M, V) + Bit(G, z, V) + Bit(G, w, V) + Bit(G, u, V)
  BY <1>1, ThreeEntries
<1> QED
  BY <1>2, <1>3, BitNat

-----------------------------------------------------------------------------
(* What the count of a file says of its holders.                           *)

(* Nobody holds a free file, and only one place holds a file counted once. *)
LEMMA Holders ==
  ASSUME Counting, TableAssumption, RefsCountDescriptors, NEW f \in Files
  PROVE  /\ ref[f] = 0 => \A x \in Places : Held[x] # f
         /\ ref[f] = 1 => \A x, y \in Places : Held[x] = f /\ Held[y] = f => x = y
         /\ \A x \in Places : Held[x] = f => ref[f] >= 1
         /\ ref[f] \in Nat
<1>1. PICK H : H = Held
  BY Zenon
<1>2. IsFiniteSet(Places) /\ ref[f] = Count(Places, H, {f})
  BY <1>1 DEF Counting, FinitePlaces, RefsCountDescriptors
<1>3. Count(Places, H, {f}) \in Nat
  BY <1>2 DEF Counting, CountNumber
<1>4. /\ (\E x \in Places : H[x] = f) => Count(Places, H, {f}) # 0
      /\ Count(Places, H, {f}) = 1 => \A x, y \in Places : H[x] = f /\ H[y] = f => x = y
  BY <1>2, Zenon DEF Counting, CountHolders
<1> QED
  BY <1>1, <1>2, <1>3, <1>4

-----------------------------------------------------------------------------
(* What a process holds before and after a step of its call.               *)

(* The places of a process: its descriptors, and two files of its call.    *)
LEMMA PlaceKinds ==
  ASSUME TableAssumption
  PROVE  /\ \A x \in Places : \E p \in Procs, k \in 0 .. NOFILE + 1 : x = <<p, k>>
         /\ \A k \in 0 .. NOFILE + 1 : k \in FDs \/ k = NOFILE \/ k = NOFILE + 1
         /\ \A p \in Procs : /\ \A d \in FDs : <<p, d>> \in Places
                             /\ <<p, NOFILE>> \in Places /\ <<p, NOFILE + 1>> \in Places
         /\ \A d \in FDs : d # NOFILE /\ d # NOFILE + 1 /\ d \in Nat
         /\ NOFILE # NOFILE + 1
BY DEF Places, FDs, TableAssumption

(* A place holds a file or nothing.                                        *)
LEMMA HeldType ==
  ASSUME TableAssumption, TypeOK
  PROVE  Held \in [Places -> Files \cup {0}]
<1> SUFFICES ASSUME NEW x \in Places
             PROVE  Holds(pc[x[1]], loc[x[1]], ofile[x[1]], x[2]) \in Files \cup {0}
  BY DEF Held
<1>1. PICK p \in Procs, k \in 0 .. NOFILE + 1 : x = <<p, k>>
  BY PlaceKinds
<1>2. ofile[p] \in [FDs -> Files \cup {0}] /\ loc[p] \in Locals
  BY DEF TypeOK
<1>3. k < NOFILE => k \in FDs
  BY DEF FDs, TableAssumption
<1> QED
  BY <1>1, <1>2, <1>3 DEF Holds, Locals

(* What the places of a process hold.                                      *)
LEMMA HeldIs ==
  ASSUME TableAssumption, NEW p \in Procs,
         NEW l, NEW r, NEW o, pc[p] = l, loc[p] = r, ofile[p] = o
  PROVE  /\ \A d \in FDs : Held[<<p, d>>] = Desc(l, r, o, d)
         /\ Held[<<p, NOFILE>>] = First(l, r)
         /\ Held[<<p, NOFILE + 1>>] = Second(l, r)
<1>1. ASSUME NEW d \in FDs PROVE Held[<<p, d>>] = Desc(l, r, o, d)
  BY DEF Held, Places, Holds, Desc, FDs, TableAssumption
<1>2. Held[<<p, NOFILE>>] = First(l, r)
  BY DEF Held, Places, Holds, First, TableAssumption
<1>3. Held[<<p, NOFILE + 1>>] = Second(l, r)
  BY DEF Held, Places, Holds, Second, TableAssumption
<1> QED
  BY <1>1, <1>2, <1>3

(* What they hold after a step of p, which no other process sees.          *)
LEMMA HeldNext ==
  ASSUME TableAssumption, TypeOK, NEW p \in Procs, NEW l, NEW r, NEW o, Moves(p, l, r, o)
  PROVE  /\ pc'[p] = l /\ loc'[p] = r /\ ofile'[p] = o
         /\ \A q \in Procs \ {p} : pc'[q] = pc[q] /\ loc'[q] = loc[q] /\ ofile'[q] = ofile[q]
         /\ \A d \in FDs : Held'[<<p, d>>] = Desc(l, r, o, d)
         /\ Held'[<<p, NOFILE>>] = First(l, r)
         /\ Held'[<<p, NOFILE + 1>>] = Second(l, r)
         /\ \A x \in Places : x[1] # p => Held'[x] = Held[x]
<1>1. pc'[p] = l /\ loc'[p] = r /\ ofile'[p] = o
      /\ \A q \in Procs \ {p} : pc'[q] = pc[q] /\ loc'[q] = loc[q] /\ ofile'[q] = ofile[q]
  BY DEF TypeOK, Moves
<1>2. ASSUME NEW d \in FDs PROVE Held'[<<p, d>>] = Desc(l, r, o, d)
  BY <1>1 DEF Held, Places, Holds, Desc, FDs, TableAssumption
<1>3. Held'[<<p, NOFILE>>] = First(l, r)
  BY <1>1 DEF Held, Places, Holds, First, TableAssumption
<1>4. Held'[<<p, NOFILE + 1>>] = Second(l, r)
  BY <1>1 DEF Held, Places, Holds, Second, TableAssumption
<1>5. ASSUME NEW x \in Places, x[1] # p PROVE Held'[x] = Held[x]
  BY <1>1, <1>5 DEF Held, Places
<1> QED
  BY <1>1, <1>2, <1>3, <1>4, <1>5

(* H and G are what the places hold before and after a step of p, from m   *)
(* of its call with the locals s and the descriptors q to l with r and o.  *)
Shown(H, G, p, m, s, q, l, r, o) ==
  /\ p \in Procs /\ \A y \in Places : y[1] # p => G[y] = H[y]
  /\ H[<<p, NOFILE>>] = First(m, s) /\ H[<<p, NOFILE + 1>>] = Second(m, s)
  /\ \A d \in FDs : H[<<p, d>>] = Desc(m, s, q, d)
  /\ G[<<p, NOFILE>>] = First(l, r) /\ G[<<p, NOFILE + 1>>] = Second(l, r)
  /\ \A d \in FDs : G[<<p, d>>] = Desc(l, r, o, d)

(* So they do.                                                             *)
LEMMA HeldShown ==
  ASSUME TableAssumption, TypeOK, NEW p \in Procs, NEW l, NEW r, NEW o, Moves(p, l, r, o),
         NEW m, NEW s, NEW q, pc[p] = m, loc[p] = s, ofile[p] = q
  PROVE  \E H, G : H = Held /\ G = Held' /\ Shown(H, G, p, m, s, q, l, r, o)
<1>1. Shown(Held, Held', p, m, s, q, l, r, o)
  BY HeldIs, HeldNext DEF Shown
<1> QED
  BY <1>1, Zenon

(* Only the two files of the call and its descriptors can change.          *)
LEMMA SamePlaces ==
  ASSUME TableAssumption, NEW H, NEW G, NEW p, NEW m, NEW s, NEW q, NEW l, NEW r, NEW o,
         Shown(H, G, p, m, s, q, l, r, o), NEW y \in Places,
         y # <<p, NOFILE>>, y # <<p, NOFILE + 1>>
  PROVE  \/ G[y] = H[y]
         \/ \E d \in FDs : y = <<p, d>> /\ H[y] = Desc(m, s, q, d) /\ G[y] = Desc(l, r, o, d)
<1>1. PICK t \in Procs, k \in 0 .. NOFILE + 1 : y = <<t, k>>
  BY PlaceKinds
<1>2. CASE t # p
  BY <1>1, <1>2 DEF Shown
<1>3. CASE t = p
  <2>1. k \in FDs
    BY <1>1, <1>3, PlaceKinds
  <2> QED
    BY <1>1, <1>3, <2>1 DEF Shown
<1> QED
  BY <1>2, <1>3

(* The count of a file when no descriptor changes.                         *)
LEMMA CountNo ==
  ASSUME Counting, TableAssumption, NEW H, NEW G, NEW p, NEW m, NEW s, NEW q, NEW l, NEW r, NEW o,
         Shown(H, G, p, m, s, q, l, r, o),
         \A d \in FDs : Desc(l, r, o, d) = Desc(m, s, q, d), NEW f,
         NEW i \in Nat, NEW j \in Nat, i = Count(Places, H, {f}),
         j + Is(First(m, s), f) + Is(Second(m, s), f)
           = i + Is(First(l, r), f) + Is(Second(l, r), f)
  PROVE  j = Count(Places, G, {f})
<1>1. PICK x, z :
        x = <<p, NOFILE>> /\ z = <<p, NOFILE + 1>>
  BY Zenon
<1>2. /\ x \in Places /\ z \in Places
      /\ x # z
  BY <1>1, PlaceKinds DEF Shown
<1>3. Same2(Places, H, G, x, z)
  <2> SUFFICES ASSUME NEW y \in Places, y # x, y # z PROVE G[y] = H[y]
    BY DEF Same2
  <2> QED
    BY <1>1, SamePlaces
<1>4. /\ Count(Places, H, {f}) \in Nat /\ Count(Places, G, {f}) \in Nat
      /\ Count(Places, G, {f}) + Bit(H, x, {f}) + Bit(H, z, {f})
           = Count(Places, H, {f}) + Bit(G, x, {f}) + Bit(G, z, {f})
  BY <1>2, <1>3, TwoEntries DEF Counting, FinitePlaces
<1>5. /\ Bit(H, x, {f}) = Is(First(m, s), f) /\ Bit(H, z, {f}) = Is(Second(m, s), f)
      /\ Bit(G, x, {f}) = Is(First(l, r), f) /\ Bit(G, z, {f}) = Is(Second(l, r), f)
  BY <1>1 DEF Bit, Is, Shown
<1> QED
  BY <1>4, <1>5, BitNat

(* CountNoFd of Setting.                                                   *)
LEMMA CountNoFdRule ==
  ASSUME NEW p, NEW l, NEW r, NEW o, NEW m, NEW s, NEW q,
         Counting, TableAssumption, TypeOK, RefsCountDescriptors, ref' \in [Files -> Nat],
         p \in Procs, Moves(p, l, r, o), pc[p] = m, loc[p] = s, ofile[p] = q,
         \A d \in FDs : Desc(l, r, o, d) = Desc(m, s, q, d),
         \A f \in Files :
           ref'[f] + Is(First(m, s), f) + Is(Second(m, s), f)
             = ref[f] + Is(First(l, r), f) + Is(Second(l, r), f)
  PROVE  RefsCountDescriptors'
<1>1. PICK H, G : H = Held /\ G = Held' /\ Shown(H, G, p, m, s, q, l, r, o)
  BY HeldShown
<1>2. ASSUME NEW f \in Files PROVE ref'[f] = Count(Places, G, {f})
  <2>1. ref[f] = Count(Places, H, {f}) /\ ref[f] \in Nat /\ ref'[f] \in Nat
    BY <1>1 DEF RefsCountDescriptors, TypeOK
  <2> QED
    BY <1>1, <2>1, CountNo
<1> QED
  BY <1>1, <1>2, Zenon DEF RefsCountDescriptors

(* The count of f goes from i to j by what the places of the process that  *)
(* change gain and lose.                                                   *)
BalanceOne(f, i, j, m, s, q, l, r, o, e) ==
  j + Is(First(m, s), f) + Is(Second(m, s), f) + Is(Desc(m, s, q, e), f)
    = i + Is(First(l, r), f) + Is(Second(l, r), f) + Is(Desc(l, r, o, e), f)

BalanceTwo(f, i, j, m, s, q, l, r, o, e, g) ==
  j + Is(First(m, s), f) + Is(Second(m, s), f) + Is(Desc(m, s, q, e), f) + Is(Desc(m, s, q, g), f)
    = i + Is(First(l, r), f) + Is(Second(l, r), f) + Is(Desc(l, r, o, e), f) + Is(Desc(l, r, o, g), f)

(* The count of a file when one descriptor changes.                        *)
LEMMA CountOne ==
  ASSUME Counting, TableAssumption, NEW H, NEW G, NEW p, NEW m, NEW s, NEW q, NEW l, NEW r, NEW o,
         Shown(H, G, p, m, s, q, l, r, o), NEW e \in FDs,
         \A d \in FDs \ {e} : Desc(l, r, o, d) = Desc(m, s, q, d), NEW f,
         NEW i \in Nat, NEW j \in Nat, i = Count(Places, H, {f}),
         BalanceOne(f, i, j, m, s, q, l, r, o, e)
  PROVE  j = Count(Places, G, {f})
<1>1. PICK x, z, w :
        x = <<p, NOFILE>> /\ z = <<p, NOFILE + 1>> /\ w = <<p, e>>
  BY Zenon
<1>2. /\ x \in Places /\ z \in Places /\ w \in Places
      /\ x # z /\ x # w /\ z # w
  BY <1>1, PlaceKinds DEF Shown
<1>3. Same3(Places, H, G, x, z, w)
  <2> SUFFICES ASSUME NEW y \in Places, y # x, y # z, y # w PROVE G[y] = H[y]
    BY DEF Same3
  <2> QED
    BY <1>1, SamePlaces
<1>4. /\ Count(Places, H, {f}) \in Nat /\ Count(Places, G, {f}) \in Nat
      /\ Count(Places, G, {f}) + Bit(H, x, {f}) + Bit(H, z, {f}) + Bit(H, w, {f})
           = Count(Places, H, {f}) + Bit(G, x, {f}) + Bit(G, z, {f}) + Bit(G, w, {f})
  BY <1>2, <1>3, ThreeEntries DEF Counting, FinitePlaces
<1>5. /\ Bit(H, x, {f}) = Is(First(m, s), f) /\ Bit(H, z, {f}) = Is(Second(m, s), f)
      /\ Bit(H, w, {f}) = Is(Desc(m, s, q, e), f)
      /\ Bit(G, x, {f}) = Is(First(l, r), f) /\ Bit(G, z, {f}) = Is(Second(l, r), f)
      /\ Bit(G, w, {f}) = Is(Desc(l, r, o, e), f)
  BY <1>1 DEF Bit, Is, Shown
<1> QED
  BY <1>4, <1>5, BitNat DEF BalanceOne

(* CountOneFd of Setting.                                                  *)
LEMMA CountOneFdRule ==
  ASSUME NEW p, NEW l, NEW r, NEW o, NEW m, NEW s, NEW q, NEW e,
         Counting, TableAssumption, TypeOK, RefsCountDescriptors, ref' \in [Files -> Nat],
         p \in Procs, Moves(p, l, r, o), pc[p] = m, loc[p] = s, ofile[p] = q,
         e \in FDs,
         \A d \in FDs \ {e} : Desc(l, r, o, d) = Desc(m, s, q, d),
         \A f \in Files :
           ref'[f] + Is(First(m, s), f) + Is(Second(m, s), f) + Is(Desc(m, s, q, e), f)
             = ref[f] + Is(First(l, r), f) + Is(Second(l, r), f) + Is(Desc(l, r, o, e), f)
  PROVE  RefsCountDescriptors'
<1>1. PICK H, G : H = Held /\ G = Held' /\ Shown(H, G, p, m, s, q, l, r, o)
  BY HeldShown
<1>2. ASSUME NEW f \in Files PROVE ref'[f] = Count(Places, G, {f})
  <2>1. ref[f] = Count(Places, H, {f}) /\ ref[f] \in Nat /\ ref'[f] \in Nat
    BY <1>1 DEF RefsCountDescriptors, TypeOK
  <2>2. BalanceOne(f, ref[f], ref'[f], m, s, q, l, r, o, e)
    BY Zenon DEF BalanceOne
  <2>3. /\ Counting /\ TableAssumption /\ e \in FDs
        /\ \A d \in FDs \ {e} : Desc(l, r, o, d) = Desc(m, s, q, d)
    BY Zenon
  <2> QED
    BY ONLY <1>1, <2>1, <2>2, <2>3, CountOne
<1> QED
  BY <1>1, <1>2, Zenon DEF RefsCountDescriptors

(* The count of a file when two descriptors change.                        *)
LEMMA CountTwo ==
  ASSUME Counting, TableAssumption, NEW H, NEW G, NEW p, NEW m, NEW s, NEW q, NEW l, NEW r, NEW o,
         Shown(H, G, p, m, s, q, l, r, o), NEW e \in FDs, NEW g \in FDs, e # g,
         \A d \in FDs \ {e, g} : Desc(l, r, o, d) = Desc(m, s, q, d), NEW f,
         NEW i \in Nat, NEW j \in Nat, i = Count(Places, H, {f}),
         BalanceTwo(f, i, j, m, s, q, l, r, o, e, g)
  PROVE  j = Count(Places, G, {f})
<1>1. PICK x, z, w, u :
        x = <<p, NOFILE>> /\ z = <<p, NOFILE + 1>> /\ w = <<p, e>> /\ u = <<p, g>>
  BY Zenon
<1>2. /\ x \in Places /\ z \in Places /\ w \in Places /\ u \in Places
      /\ x # z /\ x # w /\ x # u /\ z # w /\ z # u /\ w # u
  BY <1>1, PlaceKinds DEF Shown
<1>3. Same4(Places, H, G, x, z, w, u)
  <2> SUFFICES ASSUME NEW y \in Places, y # x, y # z, y # w, y # u PROVE G[y] = H[y]
    BY DEF Same4
  <2> QED
    BY <1>1, SamePlaces
<1>4. /\ Count(Places, H, {f}) \in Nat /\ Count(Places, G, {f}) \in Nat
      /\ Count(Places, G, {f}) + Bit(H, x, {f}) + Bit(H, z, {f}) + Bit(H, w, {f}) + Bit(H, u, {f})
           = Count(Places, H, {f}) + Bit(G, x, {f}) + Bit(G, z, {f}) + Bit(G, w, {f}) + Bit(G, u, {f})
  BY <1>2, <1>3, FourEntries DEF Counting, FinitePlaces
<1>5. /\ Bit(H, x, {f}) = Is(First(m, s), f) /\ Bit(H, z, {f}) = Is(Second(m, s), f)
      /\ Bit(H, w, {f}) = Is(Desc(m, s, q, e), f) /\ Bit(H, u, {f}) = Is(Desc(m, s, q, g), f)
      /\ Bit(G, x, {f}) = Is(First(l, r), f) /\ Bit(G, z, {f}) = Is(Second(l, r), f)
      /\ Bit(G, w, {f}) = Is(Desc(l, r, o, e), f) /\ Bit(G, u, {f}) = Is(Desc(l, r, o, g), f)
  BY <1>1 DEF Bit, Is, Shown
<1> QED
  BY <1>4, <1>5, BitNat DEF BalanceTwo

(* CountTwoFds of Setting.                                                 *)
LEMMA CountTwoFdsRule ==
  ASSUME NEW p, NEW l, NEW r, NEW o, NEW m, NEW s, NEW q, NEW e, NEW g,
         Counting, TableAssumption, TypeOK, RefsCountDescriptors, ref' \in [Files -> Nat],
         p \in Procs, Moves(p, l, r, o), pc[p] = m, loc[p] = s, ofile[p] = q,
         e \in FDs, g \in FDs, e # g,
         \A d \in FDs \ {e, g} : Desc(l, r, o, d) = Desc(m, s, q, d),
         \A f \in Files :
           ref'[f] + Is(First(m, s), f) + Is(Second(m, s), f)
                   + Is(Desc(m, s, q, e), f) + Is(Desc(m, s, q, g), f)
             = ref[f] + Is(First(l, r), f) + Is(Second(l, r), f)
                      + Is(Desc(l, r, o, e), f) + Is(Desc(l, r, o, g), f)
  PROVE  RefsCountDescriptors'
<1>1. PICK H, G : H = Held /\ G = Held' /\ Shown(H, G, p, m, s, q, l, r, o)
  BY HeldShown
<1>2. ASSUME NEW f \in Files PROVE ref'[f] = Count(Places, G, {f})
  <2>1. ref[f] = Count(Places, H, {f}) /\ ref[f] \in Nat /\ ref'[f] \in Nat
    BY <1>1 DEF RefsCountDescriptors, TypeOK
  <2>2. BalanceTwo(f, ref[f], ref'[f], m, s, q, l, r, o, e, g)
    BY Zenon DEF BalanceTwo
  <2>3. /\ Counting /\ TableAssumption /\ e \in FDs /\ g \in FDs /\ e # g
        /\ \A d \in FDs \ {e, g} : Desc(l, r, o, d) = Desc(m, s, q, d)
    BY Zenon
  <2> QED
    BY ONLY <1>1, <2>1, <2>2, <2>3, CountTwo
<1> QED
  BY <1>1, <1>2, Zenon DEF RefsCountDescriptors

-----------------------------------------------------------------------------
(* The objects behind the files.                                           *)

(* A step of p changes the count of the calls that hold an object by its   *)
(* own.                                                                    *)
LEMMA CallCount ==
  ASSUME Counting, TableAssumption, TypeOK, NEW p \in Procs, NEW l, NEW r, NEW o, Moves(p, l, r, o),
         NEW m, pc[p] = m
  PROVE  /\ Count(Procs, pc, Holding) \in Nat /\ Count(Procs, pc', Holding) \in Nat
         /\ Count(Procs, pc', Holding) + In(m, Holding) = Count(Procs, pc, Holding) + In(l, Holding)
<1>1. PICK H, G : H = pc /\ G = pc'
  BY Zenon
<1>2. Same1(Procs, H, G, p) /\ G[p] = l /\ H[p] = m
  BY <1>1 DEF Same1, Moves, TypeOK
<1>3. Bit(H, p, Holding) = In(m, Holding) /\ Bit(G, p, Holding) = In(l, Holding)
  BY <1>2 DEF Bit, In
<1>4. /\ Count(Procs, H, Holding) \in Nat /\ Count(Procs, G, Holding) \in Nat
      /\ Count(Procs, G, Holding) + Bit(H, p, Holding) = Count(Procs, H, Holding) + Bit(G, p, Holding)
  BY <1>2 DEF Counting, FinitePlaces, CountEntry
<1> QED
  BY <1>1, <1>3, <1>4

(* A bit is a number.                                                      *)
LEMMA InNat == \A v, V : In(v, V) \in Nat
BY DEF In

(* The number of open files is a number.                                   *)
LEMMA FilesNat == ASSUME Counting, TableAssumption, NEW H PROVE Count(Files, H, Kinds) \in Nat
BY DEF Counting, FinitePlaces, CountNumber

(* ObjectsSame of Setting.                                                 *)
LEMMA ObjectsSameRule ==
  ASSUME Counting, TableAssumption, TypeOK, ObjectsReleased, NEW p \in Procs, NEW l, NEW r, NEW o,
         Moves(p, l, r, o), NEW m, pc[p] = m, type' = type, objs' \in Nat,
         objs' + In(m, Holding) = objs + In(l, Holding)
  PROVE  ObjectsReleased'
<1>1. PICK n, i, j : n = Count(Files, type, Kinds) /\ i = Count(Procs, pc, Holding)
                     /\ j = Count(Procs, pc', Holding)
  BY Zenon
<1>2. n \in Nat /\ i \in Nat /\ j \in Nat /\ j + In(m, Holding) = i + In(l, Holding)
  BY <1>1, FilesNat, CallCount
<1>3. objs = n + i /\ objs \in Nat
  BY <1>1 DEF ObjectsReleased, TypeOK
<1>4. objs' = n + j
  BY <1>2, <1>3, InNat
<1> QED
  BY <1>1, <1>4 DEF ObjectsReleased


(* ObjectsFile of Setting.                                                 *)
LEMMA ObjectsFileRule ==
  ASSUME NEW p, NEW l, NEW r, NEW o, NEW m, NEW f, NEW t, NEW u,
         Counting, TableAssumption, TypeOK, ObjectsReleased, p \in Procs, Moves(p, l, r, o), pc[p] = m,
         objs' \in Nat, f \in Files, Retyped(f, t, u),
         objs' + In(m, Holding) + In(t, Kinds) = objs + In(l, Holding) + In(u, Kinds)
  PROVE  ObjectsReleased'
<1>1. PICK H, G : H = type /\ G = type'
  BY Zenon
<1>2. PICK n, k, i, j : n = Count(Files, H, Kinds) /\ k = Count(Files, G, Kinds)
                        /\ i = Count(Procs, pc, Holding) /\ j = Count(Procs, pc', Holding)
  BY Zenon
<1>3. i \in Nat /\ j \in Nat /\ j + In(m, Holding) = i + In(l, Holding)
  BY <1>2, CallCount
<1>4. n \in Nat /\ k \in Nat /\ k + In(t, Kinds) = n + In(u, Kinds)
  <2>1. Bit(H, f, Kinds) = In(t, Kinds) /\ Bit(G, f, Kinds) = In(u, Kinds)
    BY <1>1 DEF Bit, In, Retyped
  <2>2. Same1(Files, H, G, f)
    BY <1>1 DEF Retyped
  <2> QED
    BY <1>2, <2>1, <2>2 DEF Counting, FinitePlaces, CountEntry
<1>5. objs = n + i /\ objs \in Nat
  BY <1>1, <1>2 DEF ObjectsReleased, TypeOK
<1>6. objs' = k + j
  BY <1>3, <1>4, <1>5, InNat
<1> QED
  BY <1>1, <1>2, <1>6 DEF ObjectsReleased

(* ObjectsPair of Setting.                                                 *)
LEMMA ObjectsPairRule ==
  ASSUME NEW p, NEW l, NEW r, NEW o, NEW m, NEW f, NEW g,
         Counting, TableAssumption, TypeOK, ObjectsReleased, p \in Procs, Moves(p, l, r, o), pc[p] = m,
         objs' \in Nat, f \in Files, g \in Files, f # g, Same2(Files, type, type', f, g),
         type[f] = "none", type[g] = "none", type'[f] \in Kinds, type'[g] \in Kinds,
         objs' + In(m, Holding) = objs + In(l, Holding) + 2
  PROVE  ObjectsReleased'
<1>1. PICK H, G : H = type /\ G = type'
  BY Zenon
<1>2. PICK n, k, i, j : n = Count(Files, H, Kinds) /\ k = Count(Files, G, Kinds)
                        /\ i = Count(Procs, pc, Holding) /\ j = Count(Procs, pc', Holding)
  BY Zenon
<1>3. i \in Nat /\ j \in Nat /\ j + In(m, Holding) = i + In(l, Holding)
  BY <1>2, CallCount
<1>4. n \in Nat /\ k \in Nat /\ k = n + 2
  <2>1. Bit(H, f, Kinds) = 0 /\ Bit(G, f, Kinds) = 1 /\ Bit(H, g, Kinds) = 0 /\ Bit(G, g, Kinds) = 1
    BY <1>1 DEF Bit, Kinds
  <2>2. Same2(Files, H, G, f, g)
    BY <1>1
  <2>3. n \in Nat /\ k \in Nat /\ k + Bit(H, f, Kinds) + Bit(H, g, Kinds)
                                    = n + Bit(G, f, Kinds) + Bit(G, g, Kinds)
    BY <1>2, <2>2, TwoEntries DEF Counting, FinitePlaces
  <2> QED
    BY <2>1, <2>3
<1>5. objs = n + i /\ objs \in Nat
  BY <1>1, <1>2 DEF ObjectsReleased, TypeOK
<1>6. objs' = k + j
  <2>1. PICK c, d : c = In(m, Holding) /\ d = In(l, Holding) /\ c \in Nat /\ d \in Nat
    BY InNat
  <2>2. j + c = i + d /\ objs' + c = objs + d + 2
    BY <1>3, <2>1
  <2> QED
    BY ONLY <1>3, <1>4, <1>5, <2>1, <2>2, objs' \in Nat
<1> QED
  BY <1>1, <1>2, <1>6 DEF ObjectsReleased

(* A call that holds an object is counted.                                 *)
LEMMA ObjectsSomeRule ==
  ASSUME Counting, TableAssumption, TypeOK, ObjectsReleased, NEW p \in Procs, pc[p] \in Holding
  PROVE  objs >= 1
<1>1. PICK H, G : H = pc /\ G = [pc EXCEPT ![p] = "user"]
  BY Zenon
<1>2. Same1(Procs, H, G, p) /\ Bit(H, p, Holding) = 1 /\ Bit(G, p, Holding) = 0
  BY <1>1 DEF Same1, Bit, Holding, TypeOK
<1>3. /\ Count(Procs, H, Holding) \in Nat /\ Count(Procs, G, Holding) \in Nat
      /\ Count(Procs, G, Holding) + Bit(H, p, Holding) = Count(Procs, H, Holding) + Bit(G, p, Holding)
  BY <1>2 DEF Counting, FinitePlaces, CountEntry
<1>4. PICK n : n = Count(Files, type, Kinds)
  BY Zenon
<1>5. n \in Nat /\ objs = n + Count(Procs, H, Holding)
  BY <1>1, <1>4, FilesNat DEF ObjectsReleased
<1> QED
  BY <1>2, <1>3, <1>5

-----------------------------------------------------------------------------
(* What one process's step keeps of the invariant.                         *)

(* A step of p keeps the types.                                            *)
LEMMA TypeNext ==
  ASSUME TypeOK, NEW p \in Procs, NEW l \in Calls, NEW r \in Locals,
         NEW o \in [FDs -> Files \cup {0}], Moves(p, l, r, o),
         ref' \in [Files -> Nat], type' \in [Files -> {"none", "inode", "pipe"}],
         objs' \in Nat, alive' \subseteq Procs
  PROVE  TypeOK'
BY DEF TypeOK, Moves

(* Nobody holds a file that is not counted.                                *)
Unheld == \A f \in Files : ref[f] = 0 => \A y \in Places : Held[y] # f
(* As Holders says of every file.                                          *)
LEMMA NoHolder ==
  ASSUME Counting, TableAssumption, RefsCountDescriptors
  PROVE  Unheld
BY Holders DEF Unheld

(* A step of p changes what no other process holds.                        *)
LEMMA MovesHeld ==
  ASSUME TypeOK, NEW p \in Procs, NEW l, NEW r, NEW o, Moves(p, l, r, o)
  PROVE  /\ pc'[p] = l /\ loc'[p] = r /\ ofile'[p] = o
         /\ \A q \in Procs : q # p => pc'[q] = pc[q] /\ loc'[q] = loc[q] /\ ofile'[q] = ofile[q]
         /\ \A x \in Places : x[1] # p => Held'[x] = Held[x]
<1>1. pc'[p] = l /\ loc'[p] = r /\ ofile'[p] = o
      /\ \A q \in Procs : q # p => pc'[q] = pc[q] /\ loc'[q] = loc[q] /\ ofile'[q] = ofile[q]
  BY DEF TypeOK, Moves
<1>2. ASSUME NEW x \in Places, x[1] # p PROVE Held'[x] = Held[x]
  BY <1>1, <1>2 DEF Held, Places
<1> QED
  BY <1>1, <1>2

(* A new file is held by its call.                                         *)
LEMMA NewHeld ==
  ASSUME TableAssumption, TableInv, NEW q \in Procs, NEW f \in NewFiles(pc[q], loc[q])
  PROVE  f \in Files /\ \E x \in Places : x[1] = q /\ Held[x] = f
<1>1. PICK l, r, o : l = pc[q] /\ r = loc[q] /\ o = ofile[q]
  BY Zenon
<1>2. Local(l, r, o) /\ l \in Calls /\ r \in Locals
  BY <1>1 DEF TableInv, TypeOK
<1>3. /\ \A d \in FDs : Held[<<q, d>>] = Desc(l, r, o, d)
      /\ Held[<<q, NOFILE>>] = First(l, r)
      /\ Held[<<q, NOFILE + 1>>] = Second(l, r)
  BY <1>1, HeldIs
<1>4. f \in NewFiles(l, r)
  BY <1>1
<1>5. CASE l \in {"fdalloc", "pipe2"} \/ (l = "pipe3" /\ f = r.f0)
  <2>1. f = r.f0 /\ f \in Files /\ First(l, r) = f
    BY <1>2, <1>4, <1>5 DEF NewFiles, First, Local, Locals
  <2> QED
    BY <1>3, <2>1, PlaceKinds
<1>6. CASE l = "pipe3" /\ f # r.f0
  <2>1. f = r.f1 /\ f \in Files /\ Second(l, r) = f
    BY <1>2, <1>4, <1>6 DEF NewFiles, Second, Local, Locals
  <2> QED
    BY <1>3, <2>1, PlaceKinds
<1>7. CASE l = "settype"
  <2>1. f = r.f0 /\ f \in Files
    BY <1>2, <1>4, <1>7 DEF NewFiles, Local, Locals
  <2>2. PICK d \in FDs : o[d] = f
    BY <1>2, <1>7, <2>1 DEF Local
  <2>3. Desc(l, r, o, d) = f
    BY <1>7, <2>2 DEF Desc
  <2> QED
    BY <1>3, <2>1, <2>3, PlaceKinds, Zenon
<1> QED
  BY <1>2, <1>4, <1>5, <1>6, <1>7 DEF NewFiles

(* A step changes only files that were free or that its process holds.     *)

(* The new files of other processes stay new.                              *)
LEMMA OthersFresh ==
  ASSUME Counting, TableAssumption, TableInv, NEW p \in Procs, NEW q \in Procs, p # q,
         \A f \in Files : (ref'[f] = ref[f] /\ type'[f] = type[f]) \/ ref[f] = 0 \/ Owns(p, f),
         NEW f \in NewFiles(pc[q], loc[q])
  PROVE  ref'[f] = 1 /\ type'[f] = "none"
<1>1. ref[f] = 1 /\ type[f] = "none"
  BY DEF TableInv, Fresh
<1>2. f \in Files
  BY NewHeld
<1>3. PICK x \in Places : x[1] = q /\ Held[x] = f
  BY NewHeld
<1>4. \A y, z \in Places : Held[y] = f /\ Held[z] = f => y = z
  BY <1>1, <1>2, Holders DEF TableInv
<1>5. ~Owns(p, f)
  BY <1>3, <1>4 DEF Owns
<1> QED
  BY <1>1, <1>2, <1>5

(* What After says of a step of p, in terms of what p holds.               *)
Careful(p, l, r) ==
  /\ \A f \in Files : (ref'[f] = ref[f] /\ type'[f] = type[f]) \/ ref[f] = 0 \/ Owns(p, f)
  /\ \A f \in NewFiles(l, r) : ref'[f] = 1 /\ type'[f] = "none"
  /\ \A x \in Places : x[1] = p /\ Held'[x] # 0 =>
       Held'[x] \in NewFiles(l, r) \/ type[Held'[x]] # "none" \/ type'[Held'[x]] # "none"
  /\ \A f \in Files : ref'[f] = 0 => type'[f] = "none"
  /\ \A f \in Files : type[f] # "none" /\ type'[f] = "none" => ref'[f] = 0

(* A step of p keeps new files new, and all others typed.                  *)
LEMMA FreshTyped ==
  ASSUME Counting, TableAssumption, TableInv, NEW p \in Procs, NEW l, NEW r, NEW o,
         Moves(p, l, r, o), RefsCountDescriptors', TypeOK', Careful(p, l, r)
  PROVE  Fresh' /\ Typed'
<1>0. TypeOK /\ Typed
  BY DEF TableInv
<1>1. /\ pc'[p] = l /\ loc'[p] = r
      /\ \A q \in Procs : q # p => pc'[q] = pc[q] /\ loc'[q] = loc[q]
      /\ \A x \in Places : x[1] # p => Held'[x] = Held[x]
  BY <1>0, MovesHeld
<1>2. ASSUME NEW q \in Procs, NEW f \in NewFiles(pc'[q], loc'[q])
      PROVE  ref'[f] = 1 /\ type'[f] = "none"
  <2>1. CASE q = p
    BY <1>1, <2>1 DEF Careful
  <2>2. CASE q # p
    <3>1. f \in NewFiles(pc[q], loc[q])
      BY <1>1, <2>2
    <3> QED
      BY <2>2, <3>1, OthersFresh DEF Careful
  <2> QED
    BY <2>1, <2>2
<1>3. ASSUME NEW x \in Places, Held'[x] # 0
      PROVE  type'[Held'[x]] # "none" \/ Held'[x] \in NewFiles(pc'[x[1]], loc'[x[1]])
  <2>1. Unheld'
    BY NoHolder, PTL
  <2>2. (Held \in [Places -> Files \cup {0}])'
    BY HeldType, PTL
  <2>3. Held'[x] \in Files
    BY <1>3, <2>2
  <2>4. type[Held'[x]] # "none" => type'[Held'[x]] # "none"
    BY <2>1, <2>3 DEF Unheld, Careful
  <2>5. CASE x[1] = p
    BY <1>1, <1>3, <2>4, <2>5, Zenon DEF Careful
  <2>6. CASE x[1] # p
    <3>1. Held'[x] = Held[x] /\ x[1] \in Procs
      BY <1>1, <2>6 DEF Places
    <3>2. type[Held[x]] # "none" \/ Held[x] \in NewFiles(pc[x[1]], loc[x[1]])
      BY <1>0, <1>3, <3>1 DEF Typed
    <3> QED
      BY <1>1, <2>4, <2>6, <3>1, <3>2, Zenon
  <2> QED
    BY <2>5, <2>6
<1>4. Fresh'
  BY <1>2 DEF Fresh
<1>5. \A f \in Files : ref'[f] = 0 => type'[f] = "none"
  BY DEF Careful
<1> QED
  BY <1>3, <1>4, <1>5 DEF Typed

(* A step that is not of fork and ends no process keeps Offspring.         *)
LEMMA OffspringKept ==
  ASSUME TypeOK, Offspring, NEW p \in alive, NEW l, NEW r, NEW o, Moves(p, l, r, o),
         loc[p].child = {}, r.child = {}, alive' = alive
  PROVE  Offspring'
<1>1. /\ \A q \in Procs : loc'[q].child = loc[q].child
      /\ \A q \in Procs : loc[q].child # {} => loc'[q].fd = loc[q].fd
      /\ \A q \in Procs \ alive : pc'[q] = pc[q] /\ ofile'[q] = ofile[q]
  BY Zenon DEF TypeOK, Moves
<1> QED
  BY <1>1 DEF Offspring

(* A step of p in its call, and what of the invariant it has kept so far.  *)
Enters(p, l, r, o) ==
  /\ p \in alive /\ l \in Calls /\ r \in Locals /\ o \in [FDs -> Files \cup {0}]
  /\ Moves(p, l, r, o) /\ Local(l, r, o) /\ ref' \in [Files -> Nat]
  /\ type' \in [Files -> {"none", "inode", "pipe"}] /\ objs' \in Nat
  /\ RefsCountDescriptors' /\ ObjectsReleased'

(* A step of p keeps the invariant, if it is careful with what p holds.    *)
LEMMA CallStep ==
  ASSUME Counting, TableAssumption, TableInv, NEW p, NEW l, NEW r, NEW o, Enters(p, l, r, o),
         alive' \subseteq Procs, Offspring', Careful(p, l, r)
  PROVE  TableInv'
<1>1. p \in Procs /\ TypeOK /\ Offspring
  BY DEF TableInv, TypeOK, Enters
<1>2. Moves(p, l, r, o) /\ Local(l, r, o) /\ RefsCountDescriptors' /\ ObjectsReleased'
  BY DEF Enters
<1>3. TypeOK'
  BY <1>1, TypeNext DEF Enters
<1>4. Fresh' /\ Typed'
  BY <1>1, <1>2, <1>3, FreshTyped
<1>5. \A q \in Procs : Local(pc'[q], loc'[q], ofile'[q])
  <2>1. /\ pc'[p] = l /\ loc'[p] = r /\ ofile'[p] = o
        /\ \A q \in Procs : q # p => pc'[q] = pc[q] /\ loc'[q] = loc[q] /\ ofile'[q] = ofile[q]
    BY <1>1, <1>2, MovesHeld
  <2>2. \A q \in Procs : Local(pc[q], loc[q], ofile[q])
    BY Zenon DEF TableInv
  <2> QED
    BY <1>2, <2>1, <2>2, Zenon
<1> QED
  BY <1>2, <1>3, <1>4, <1>5, Zenon DEF TableInv

-----------------------------------------------------------------------------
(* The state before a step of p, at m of a call with the locals s and the  *)
(* descriptors q.                                                          *)

(* OwnsIs of Setting.                                                      *)
LEMMA OwnsIsRule ==
  ASSUME TableAssumption, TableInv, NEW p \in Procs, NEW m, NEW s, NEW q,
         pc[p] = m, loc[p] = s, ofile[p] = q
  PROVE  /\ \A d \in FDs : Owns(p, Desc(m, s, q, d)) /\ Fine(Desc(m, s, q, d), m, s)
         /\ Owns(p, First(m, s)) /\ Fine(First(m, s), m, s)
         /\ Owns(p, Second(m, s)) /\ Fine(Second(m, s), m, s)
<1>1. \A x \in Places : x[1] = p => Owns(p, Held[x]) /\ Fine(Held[x], m, s)
  BY DEF Owns, Fine, TableInv, Typed
<1>2. /\ \A d \in FDs : Held[<<p, d>>] = Desc(m, s, q, d)
      /\ Held[<<p, NOFILE>>] = First(m, s) /\ Held[<<p, NOFILE + 1>>] = Second(m, s)
  BY HeldIs
<1> QED
  BY <1>1, <1>2, PlaceKinds, Zenon

(* AloneIs of Setting.                                                     *)
LEMMA AloneIsRule ==
  ASSUME Counting, TableAssumption, TableInv, NEW p \in Procs, NEW m, NEW s, NEW q,
         pc[p] = m, loc[p] = s, ofile[p] = q, NEW f \in NewFiles(m, s)
  PROVE  Alone(m, s, q, f) /\ ref[f] = 1 /\ type[f] = "none" /\ f \in Files
<1>1. ref[f] = 1 /\ type[f] = "none"
  BY DEF TableInv, Fresh
<1>2. f \in Files
  BY NewHeld
<1>3. \A x, y \in Places : Held[x] = f /\ Held[y] = f => x = y
  BY <1>1, <1>2, Holders DEF TableInv
<1>4. /\ \A d \in FDs : Held[<<p, d>>] = Desc(m, s, q, d)
      /\ Held[<<p, NOFILE>>] = First(m, s) /\ Held[<<p, NOFILE + 1>>] = Second(m, s)
  BY HeldIs
<1>5. /\ <<p, NOFILE>> \in Places /\ <<p, NOFILE + 1>> \in Places
      /\ \A d \in FDs : <<p, d>> \in Places /\ d # NOFILE /\ d # NOFILE + 1
      /\ NOFILE # NOFILE + 1
  BY PlaceKinds
<1> QED
  BY <1>1, <1>2, <1>3, <1>4, <1>5, Zenon DEF Alone

(* The step, in terms of what p holds after it.                            *)

(* AnyStep of Setting.                                                     *)
LEMMA AnyStepRule ==
  ASSUME Counting, TableAssumption, TableInv, NEW p, NEW l, NEW r, NEW o, Enters(p, l, r, o),
         alive' \subseteq Procs, Offspring', After(p, l, r, o)
  PROVE  TableInv'
<1>1. p \in Procs /\ TypeOK /\ Moves(p, l, r, o)
  BY DEF TableInv, TypeOK, Enters
<1>2. /\ \A d \in FDs : Held'[<<p, d>>] = Desc(l, r, o, d)
      /\ Held'[<<p, NOFILE>>] = First(l, r) /\ Held'[<<p, NOFILE + 1>>] = Second(l, r)
  BY <1>1, HeldNext
<1>3. PICK G : G = Held'
  BY Zenon
<1>4. ASSUME NEW x \in Places, x[1] = p PROVE Kept(G[x], l, r)
  <2>1. PICK k \in 0 .. NOFILE + 1 : x = <<p, k>>
    BY <1>4, PlaceKinds
  <2> QED
    BY <1>2, <1>3, <2>1, PlaceKinds DEF After
<1>5. \A x \in Places : x[1] = p /\ G[x] # 0 =>
        G[x] \in NewFiles(l, r) \/ type[G[x]] # "none" \/ type'[G[x]] # "none"
  BY <1>4, Zenon DEF Kept
<1>6. Careful(p, l, r)
  BY <1>3, <1>5, Zenon DEF After, Careful
<1> QED
  BY <1>6, CallStep

(* A step other than fork and the end of exit.                             *)
LEMMA StepRule ==
  ASSUME Counting, TableAssumption, TableInv, NEW p, NEW l, NEW r, NEW o, Enters(p, l, r, o),
         alive' = alive, loc[p].child = {}, r.child = {}, After(p, l, r, o)
  PROVE  TableInv'
<1>1. TypeOK /\ Offspring /\ alive' \subseteq Procs
  BY DEF TableInv, TypeOK
<1>2. Offspring'
  BY <1>1, OffspringKept DEF Enters
<1> QED
  BY <1>1, <1>2, AnyStepRule

(* A free file, and a free descriptor, as the scans find them.             *)
LEMMA FreeFileRule ==
  ASSUME Counting, TableAssumption, FreeFiles # {}
  PROVE  filealloc \in Files /\ ref[filealloc] = 0
<1>1. FreeFiles \in SUBSET Nat
  BY FileNat DEF FreeFiles
<1> QED
  BY <1>1 DEF filealloc, FreeFiles, Counting, MinFound

(* FreeFd of Setting.                                                      *)
LEMMA FreeFdRule ==
  ASSUME Counting, TableAssumption, NEW p, FreeFds(p) # {}, NEW q, ofile[p] = q
  PROVE  Min(FreeFds(p)) \in FDs /\ q[Min(FreeFds(p))] = 0
<1>1. FreeFds(p) \in SUBSET Nat
  BY PlaceKinds DEF FreeFds
<1> QED
  BY <1>1 DEF FreeFds, Counting, MinFound

(* TwoFreeFds of Setting.                                                  *)
LEMMA TwoFreeFdsRule ==
  ASSUME Counting, TableAssumption, NEW p, NEW q, ofile[p] = q, Cardinality(FreeFds(p)) >= 2,
         NEW d, NEW e, d = Min(FreeFds(p)), e = Min(FreeFds(p) \ {d})
  PROVE  d \in FDs /\ e \in FDs /\ d # e /\ q[d] = 0 /\ q[e] = 0
<1>1. FreeFds(p) # {} /\ FreeFds(p) # {d}
  BY DEF Counting, TwoMembers
<1>2. d \in FDs /\ q[d] = 0 /\ d \in FreeFds(p)
  BY <1>1, FreeFdRule DEF FreeFds
<1>3. FreeFds(p) \ {d} # {} /\ FreeFds(p) \ {d} \in SUBSET Nat
  BY <1>1, <1>2, PlaceKinds DEF FreeFds
<1>4. e \in FreeFds(p) \ {d}
  BY <1>3 DEF Counting, MinFound
<1> QED
  BY <1>2, <1>4 DEF FreeFds


(* An empty table satisfies the invariant.                                 *)
LEMMA InitTable ==
  ASSUME Counting, TableAssumption, Init
  PROVE  TableInv
<1>1. TypeOK
  <2>1. NoLoc \in Locals
    BY DEF NoLoc, Locals, TableAssumption
  <2>2. initproc \in Procs
    BY DEF initproc, TableAssumption
  <2> QED
    BY <2>1, <2>2 DEF Init, TypeOK, Calls
<1>2. \A x \in Places : Held[x] = 0
  <2> SUFFICES ASSUME NEW x \in Places PROVE Held[x] = 0
    OBVIOUS
  <2>1. PICK p \in Procs, k \in 0 .. NOFILE + 1 : x = <<p, k>>
    BY PlaceKinds
  <2>2. k < NOFILE => k \in FDs
    BY DEF FDs, TableAssumption
  <2>3. pc[p] = "user" /\ \A d \in FDs : ofile[p][d] = 0
    BY DEF Init
  <2> QED
    BY <2>1, <2>2, <2>3 DEF Held, Holds
<1>3. RefsCountDescriptors
  <2> SUFFICES ASSUME NEW f \in Files PROVE ref[f] = Count(Places, Held, {f})
    BY DEF RefsCountDescriptors
  <2>1. PICK H : H = Held
    BY Zenon
  <2>2. \A x \in Places : H[x] \notin {f}
    BY <1>2, <2>1, FileNat
  <2>3. Count(Places, H, {f}) = 0
    BY <2>2 DEF Counting, CountNone
  <2> QED
    BY <2>1, <2>3 DEF Init
<1>4. ObjectsReleased
  <2>1. (\A f \in Files : type[f] \notin Kinds) /\ \A p \in Procs : pc[p] \notin Holding
    BY DEF Init, Kinds, Holding
  <2>2. Count(Files, type, Kinds) = 0 /\ Count(Procs, pc, Holding) = 0
    BY <2>1 DEF Counting, CountNone
  <2> QED
    BY <2>2 DEF Init, ObjectsReleased
<1>5. Fresh
  BY DEF Init, Fresh, NewFiles
<1>6. Typed
  BY <1>2 DEF Init, Typed
<1>7. Offspring
  BY DEF Init, Offspring, NoLoc
<1>8. \A p \in Procs : Local(pc[p], loc[p], ofile[p])
  BY DEF Init, Local, NoLoc
<1> QED
  BY <1>1, <1>3, <1>4, <1>5, <1>6, <1>7, <1>8 DEF TableInv

(* The invariant implies the property.                                     *)
LEMMA TableHolds ==
  ASSUME TableAssumption, TableInv
  PROVE  FilesCounted
<1>1. ASSUME NEW p \in alive, NEW d \in FDs, ofile[p][d] # 0, pc[p] = "user"
      PROVE  type[ofile[p][d]] # "none"
  <2>1. p \in Procs
    BY DEF TableInv, TypeOK
  <2>2. PICK s, q : s = loc[p] /\ q = ofile[p]
    BY Zenon
  <2>3. Fine(Desc("user", s, q, d), "user", s)
    BY <1>1, <2>1, <2>2, OwnsIsRule
  <2> QED
    BY <1>1, <2>2, <2>3 DEF Fine, Desc, NewFiles
<1> QED
  BY <1>1 DEF FilesCounted, OpenFilesTyped, TableInv
=============================================================================
