-------------------------------- MODULE Mkfs --------------------------------
(***************************************************************************)
(* mkfs.c: the layout of the file system image and the writes that build   *)
(* it, one sector at a time.  Contents are abstracted to what a sector is: *)
(* inodes and bitmap bits are kept, the bytes of files are not.            *)
(***************************************************************************)
EXTENDS Naturals, Sequences, FiniteSets, SequencesExt

CONSTANTS
  FSSIZE, NSWAPBLOCKS, LOGSIZE, NINODES, IPB, BPB, NDIRECT, NINDIRECT,
  BSIZE,         \* in directory entries
  FileSizes, MaxFiles  \* what the command line may name: file sizes, files

\* What the modules that instantiate this one assume of the constants.
MkfsAssumption == IPB > 0 /\ BPB > 0 /\ BSIZE > 0

(* The layout computed by main.                                            *)
nbitmap == FSSIZE \div BPB + 1
ninodeblocks == NINODES \div IPB + 1
nmeta == 2 + NSWAPBLOCKS + LOGSIZE + ninodeblocks + nbitmap
inodestart == 2 + LOGSIZE + NSWAPBLOCKS
bmapstart == 2 + LOGSIZE + ninodeblocks
IBLOCK(i) == i \div IPB + inodestart

VARIABLES
  freeinode, freeblock,
  dinode,      \* the inodes on disk: type, size, addrs (the indirect block
               \* and the blocks it lists follow the direct ones)
  bits,        \* the blocks marked in the bitmap
  kept,        \* the data blocks that hold what was written to them
  phase,       \* where main is
  file, off, todo,  \* iappend: the inode, its offset, what is left to append
  args,        \* the command line not yet processed
  j            \* the bitmap block that balloc writes next

vars == <<freeinode, freeblock, dinode, bits, kept, phase, file, off, todo, args, j>>

Free == [type |-> "none", size |-> 0, addrs |-> <<>>, indirect |-> 0]
Fresh(type) == [Free EXCEPT !.type = type]

(* main up to the root directory: the super block, ialloc(T_DIR).          *)
Init ==
  /\ freeinode = 2 /\ freeblock = nmeta
  /\ dinode = [i \in 1 .. NINODES |-> IF i = 1 THEN Fresh("dir") ELSE Free]
  /\ bits = {} /\ kept = {}
  /\ file = 1 /\ off = 0 /\ todo = 2 /\ j = 0
  /\ phase = "contents" /\ args \in BoundedSeq(FileSizes, MaxFiles)

(* Faulty: the indirect block takes the number of the data block.          *)
AllocateShared(d, fbn) ==
  LET single == fbn >= NDIRECT /\ d.indirect = 0
      b == freeblock IN
  [d EXCEPT !.indirect = IF single THEN freeblock ELSE @,
            !.addrs = IF Len(@) = fbn THEN Append(@, b) ELSE @]

(* The block that iappend writes, allocated if it is not there.            *)
Allocate(d, fbn) ==
  LET single == fbn >= NDIRECT /\ d.indirect = 0
      b == IF single THEN freeblock + 1 ELSE freeblock IN
  [d EXCEPT !.indirect = IF single THEN freeblock ELSE @,
            !.addrs = IF Len(@) = fbn THEN Append(@, b) ELSE @]

(* The part of the bytes that goes to the block fbn.                       *)
Part(fbn) == IF todo < (fbn + 1) * BSIZE - off THEN todo ELSE (fbn + 1) * BSIZE - off

(* One turn of iappend's loop; winode at its end.                          *)
iappend ==
  LET fbn == off \div BSIZE
      n1 == Part(fbn)
      d == Allocate(dinode[file], fbn) IN
  /\ todo > 0
  /\ fbn < NDIRECT + NINDIRECT
  /\ freeblock' = freeblock + (IF d.indirect # dinode[file].indirect THEN 1 ELSE 0)
                            + (Len(d.addrs) - Len(dinode[file].addrs))
  /\ dinode' = [dinode EXCEPT ![file] = [d EXCEPT !.size = off + n1]]
  /\ kept' = kept \cup {d.addrs[fbn + 1]}
               \cup (IF d.indirect = 0 THEN {} ELSE {d.indirect})
  /\ off' = off + n1 /\ todo' = todo - n1
  /\ UNCHANGED <<freeinode, bits, phase, file, args, j>>

(* The loop of main: ialloc and the directory entry, then the contents.    *)
NextFile ==
  /\ phase = "contents" /\ todo = 0 /\ args # <<>> /\ phase' = "entry"
  /\ dinode' = [dinode EXCEPT ![freeinode] = Fresh("file")]
  /\ freeinode' = freeinode + 1
  /\ file' = 1 /\ off' = dinode[1].size /\ todo' = 1
  /\ UNCHANGED <<freeblock, bits, kept, args, j>>
Contents ==
  /\ phase = "entry" /\ todo = 0 /\ phase' = "contents"
  /\ file' = freeinode - 1 /\ off' = 0 /\ todo' = Head(args) /\ args' = Tail(args)
  /\ UNCHANGED <<freeinode, freeblock, dinode, bits, kept, j>>

(* The size of the root directory is rounded up, past a full block.        *)
FixRoot ==
  /\ phase = "contents" /\ todo = 0 /\ args = <<>> /\ phase' = "bitmap"
  /\ dinode' = [dinode EXCEPT ![1].size = (@ \div BSIZE + 1) * BSIZE]
  /\ UNCHANGED <<freeinode, freeblock, bits, kept, file, off, todo, args, j>>

(* Faulty: every bitmap block but the first is shifted by one bit.         *)
MarkedShifted(k) ==
  {b \in 0 .. freeblock - 1 : b \div BPB = k /\ (k = 0 \/ b % BPB # 0)}

(* The bits of the k-th block written by balloc.                           *)
Marked(k) == {b \in 0 .. freeblock - 1 : b \div BPB = k}

(* balloc: write one block per bitmap block, and go on for as many blocks  *)
(* as are used; whatever was in the sector is gone.                        *)
balloc ==
  LET s == bmapstart + j IN
  /\ phase = "bitmap" /\ (j = 0 \/ j < freeblock)
  /\ bits' = IF j < nbitmap THEN bits \cup Marked(j) ELSE bits
  /\ dinode' = [i \in DOMAIN dinode |-> IF IBLOCK(i) = s THEN Free ELSE dinode[i]]
  /\ kept' = kept \ {s}
  /\ j' = j + 1
  /\ UNCHANGED <<freeinode, freeblock, phase, file, off, todo, args>>

Done == phase = "bitmap" /\ j >= freeblock
Finished == Done /\ UNCHANGED vars

Next == iappend \/ NextFile \/ Contents \/ FixRoot \/ balloc \/ Finished
Spec == Init /\ [][Next]_vars

-----------------------------------------------------------------------------
(* Type invariant.                                                         *)
TypeOK ==
  /\ freeinode \in 1 .. NINODES + 1 /\ freeblock \in nmeta .. FSSIZE
  /\ \A i \in DOMAIN dinode : /\ dinode[i].type \in {"none", "dir", "file"}
                              /\ dinode[i].indirect \in 0 .. FSSIZE - 1
  /\ bits \subseteq 0 .. FSSIZE /\ kept \subseteq 0 .. FSSIZE - 1
  /\ phase \in {"contents", "entry", "bitmap"} /\ file \in 1 .. NINODES /\ off \in Nat /\ todo \in Nat /\ j \in 0 .. FSSIZE

BlocksOf(i) == Range(dinode[i].addrs) \cup ({dinode[i].indirect} \ {0})

(* iappend gives every file blocks of its own, beyond the metadata, as     *)
(* many as its size needs.                                                 *)
BlocksDistinct ==
  /\ \A i, k \in DOMAIN dinode : i # k => BlocksOf(i) \cap BlocksOf(k) = {}
  /\ \A i \in DOMAIN dinode :
       /\ BlocksOf(i) \subseteq nmeta .. freeblock - 1
       /\ Cardinality(BlocksOf(i)) = Len(dinode[i].addrs)
                                   + (IF dinode[i].indirect = 0 THEN 0 ELSE 1)

(* When mkfs ends, the bitmap marks exactly the blocks below freeblock, so *)
(* that the kernel never hands out one that is in use.                     *)
BitmapExact == Done => bits = 0 .. freeblock - 1

(* The image that mkfs leaves holds the root directory and the files: no   *)
(* later write destroyed their inodes or blocks.                           *)
ImageKept ==
  Done => /\ dinode[1].type = "dir"
          /\ \A i \in 2 .. freeinode - 1 : dinode[i].type = "file"
          /\ \A i \in 1 .. freeinode - 1 : BlocksOf(i) \subseteq kept
=============================================================================
