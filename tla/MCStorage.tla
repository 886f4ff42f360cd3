------------------------------ MODULE MCStorage -----------------------------
(***************************************************************************)
(* The layers of the file system below and beside the inodes, each on a    *)
(* small instance: the table of open files (table); the contents of files, *)
(* of one process (io) and of two that share a file (shared); and mkfs.    *)
(***************************************************************************)
EXTENDS FileTable, Integers

CONSTANTS
  BPB, NDIRECT, BSIZE, MAXOPBLOCKS, WriteSizes   \* of FileIO

VARIABLES
  part,   \* which part of the system this behaviour is about
  fs, ip, off, pend, bytes, freeinode, freeblock, dinode, bits, kept, phase,
  file, todo, args, j

Io == INSTANCE FileIO WITH
  NBLOCKS <- 6, NINDIRECT <- 2, Inodes <- {1, 2}, Files <- {1},
  Procs <- {"p1"}, Bytes <- {1}, ReadSizes <- {6}
Sh == INSTANCE FileIO WITH
  NBLOCKS <- 5, NINDIRECT <- 1, Inodes <- {1}, Files <- {1, 2},
  Procs <- {"p1", "p2"}, Bytes <- {1, 2}, ReadSizes <- {3}
Mk == INSTANCE Mkfs WITH
  FSSIZE <- 40, NSWAPBLOCKS <- 6, LOGSIZE <- 2, NINODES <- 5, IPB <- 2,
  BPB <- 8, NDIRECT <- 2, NINDIRECT <- 2, FileSizes <- {0, 1, 4, 7},
  MaxFiles <- 3

ASSUME InstanceAssumption ==
  /\ TableAssumption
  /\ Io!FileAssumption /\ Sh!FileAssumption /\ Mk!MkfsAssumption

ioVars == <<fs, ip, pend, bytes>>
mkVars == <<freeinode, freeblock, dinode, bits, kept, phase, file, todo,
            args, j>>
allVars == <<part, vars, ioVars, off, mkVars>>

IoIdle == fs = 0 /\ ip = 0 /\ pend = 0 /\ bytes = 0
MkIdle ==
  /\ freeinode = 0 /\ freeblock = 0 /\ dinode = 0 /\ bits = 0 /\ kept = 0
  /\ phase = 0 /\ file = 0 /\ todo = 0 /\ args = 0 /\ j = 0

\* The table rests in its initial state while another part runs.
MCInit ==
  \/ part = "table" /\ Init /\ IoIdle /\ off = 0 /\ MkIdle
  \/ part = "io" /\ Io!Init /\ Init /\ MkIdle
  \/ part = "shared" /\ Sh!Init /\ Init /\ MkIdle
  \/ part = "mkfs" /\ Mk!Init /\ Init /\ IoIdle

MCNext ==
  \/ part = "table" /\ Next /\ UNCHANGED <<part, ioVars, off, mkVars>>
  \/ part = "io" /\ Io!Next /\ UNCHANGED <<part, vars, mkVars>>
  \/ part = "shared" /\ Sh!Next /\ UNCHANGED <<part, vars, mkVars>>
  \/ part = "mkfs" /\ Mk!Next /\ UNCHANGED <<part, vars, ioVars>>

MCSpec == MCInit /\ [][MCNext]_allVars

-----------------------------------------------------------------------------
(* filewrite: no transaction outgrows what begin_op reserves for it.       *)
TransactionFits == part = "io" => Io!TransactionFits

(* readi returns what writei wrote, through indirect blocks, reuse of      *)
(* blocks, and writes of two processes in turns.                           *)
ReadsBack ==
  /\ part = "io" => Io!ReadsBack
  /\ part = "shared" => Sh!ReadsBack

(* balloc, bfree, itrunc, and mkfs: the bitmap marks exactly the blocks of *)
(* the files, and no block is in two places.                               *)
BlocksOwned ==
  /\ part = "io" => Io!BlocksOwned
  /\ part = "mkfs" => Mk!BlocksDistinct /\ Mk!BitmapExact
=============================================================================
