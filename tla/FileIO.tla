------------------------------- MODULE FileIO -------------------------------
(***************************************************************************)
(* The contents of files: the block allocator, bmap, readi, writei and     *)
(* itrunc of fs.c under the calls of file.c.  A write is split by          *)
(* filewrite into transactions, each of which runs with the inode locked.  *)
(* A block is an array of cells; a cell holds a byte of data or, in an     *)
(* indirect block, a block number.  0 is the cell of a zeroed block.       *)
(***************************************************************************)
EXTENDS Naturals, Sequences, FiniteSets, FiniteSetsExt, SequencesExt

CONSTANTS
  NBLOCKS, BPB, NDIRECT, NINDIRECT, BSIZE, MAXOPBLOCKS,
  Inodes, Files, Procs,
  Bytes, WriteSizes, ReadSizes

\* What the modules that instantiate this one assume of the constants.
FileAssumption == BSIZE > 0 /\ BPB > 0 /\ 0 \notin Bytes /\ 0 \notin Inodes

VARIABLES
  fs,          \* used (the bitmap), cell (the blocks), addrs and size (the
               \* inodes), logged (the blocks of the current transaction)
  ip, off,     \* struct file; ip is 0 for a closed file
  pend,        \* the filewrite each process is in: file, byte, bytes left
  bytes        \* what the files should contain

vars == <<fs, ip, off, pend, bytes>>

Cells == 0 .. Max({BSIZE, NINDIRECT}) - 1
Zeroed == [c \in Cells |-> 0]
MAXFILE == NDIRECT + NINDIRECT
NoWrite == [f |-> 0, v |-> 0, n |-> 0]

Init ==
  /\ fs = [used |-> {}, cell |-> [b \in 1 .. NBLOCKS |-> Zeroed],
           addrs |-> [i \in Inodes |-> [k \in 0 .. NDIRECT |-> 0]],
           size |-> [i \in Inodes |-> 0], logged |-> {}]
  /\ ip = [f \in Files |-> 0] /\ off = [f \in Files |-> 0]
  /\ pend = [p \in Procs |-> NoWrite]
  /\ bytes = [i \in Inodes |-> <<>>]

BBLOCK(b) == <<"bitmap", b \div BPB>>
log_write(s, b) == [s EXCEPT !.logged = @ \cup {b}]
iupdate(s, i) == log_write(s, <<"inode", 0>>)

(* balloc: the first free block, marked and zeroed.                        *)
balloc(s) ==
  LET b == Min((1 .. NBLOCKS) \ s.used) IN
  [s EXCEPT !.used = @ \cup {b}, !.cell[b] = Zeroed,
            !.logged = @ \cup {BBLOCK(b), <<"data", b>>}]
NewBlock(s) == Min((1 .. NBLOCKS) \ s.used)

bfree(s, b) == [s EXCEPT !.used = @ \ {b}, !.logged = @ \cup {BBLOCK(b)}]

(* bmap in two parts: the file system with the block in place, and where   *)
(* the block then is.                                                      *)
WithAddr(s, i, k) ==
  IF s.addrs[i][k] # 0 THEN s
  ELSE [balloc(s) EXCEPT !.addrs[i][k] = NewBlock(s)]
WithBlock(s, i, bn) ==
  IF bn < NDIRECT THEN WithAddr(s, i, bn)
  ELSE LET t == WithAddr(s, i, NDIRECT)
           a == t.addrs[i][NDIRECT] IN
       IF t.cell[a][bn - NDIRECT] # 0 THEN t
       ELSE log_write([balloc(t) EXCEPT !.cell[a][bn - NDIRECT] = NewBlock(t)],
                      <<"data", a>>)
bmap(s, i, bn) == IF bn < NDIRECT THEN s.addrs[i][bn]
                  ELSE s.cell[s.addrs[i][NDIRECT]][bn - NDIRECT]

(* readi: the bytes from o to o + n, cut at the end of the file.           *)
readi(s, i, o, n) ==
  LET m == IF o + n > s.size[i] THEN s.size[i] - o ELSE n IN
  [x \in 1 .. m |-> s.cell[bmap(s, i, (o + x - 1) \div BSIZE)][(o + x - 1) % BSIZE]]

(* The loop of writei from offset o to the end e, a block at a time.       *)
RECURSIVE WriteBlocks(_, _, _, _, _)
WriteBlocks(s, i, o, e, v) ==
  IF o = e THEN s
  ELSE LET m == Min({e - o, BSIZE - (o % BSIZE)})
           t == WithBlock(s, i, o \div BSIZE)
           b == bmap(t, i, o \div BSIZE)
           c == [x \in Cells |-> IF x \in (o % BSIZE) .. (o % BSIZE) + m - 1
                                 THEN v ELSE t.cell[b][x]] IN
       WriteBlocks(log_write([t EXCEPT !.cell[b] = c], <<"data", b>>), i, o + m, e, v)

writeiOk(s, i, o, n) == o <= s.size[i] /\ o + n <= MAXFILE * BSIZE

(* Faulty: the size follows the end of every write.                        *)
writeiShrinks(s, i, o, n, v) ==
  LET t == WriteBlocks(s, i, o, o + n, v) IN iupdate([t EXCEPT !.size[i] = o + n], i)

writei(s, i, o, n, v) ==
  LET t == WriteBlocks(s, i, o, o + n, v) IN
  IF n > 0 /\ o + n > s.size[i] THEN iupdate([t EXCEPT !.size[i] = o + n], i) ELSE t

(* Faulty: the indirect block is forgotten.                                *)
itruncDirect(s, i) ==
  LET direct == {s.addrs[i][k] : k \in 0 .. NDIRECT - 1} \ {0} IN
  iupdate([FoldSet(LAMBDA b, t : bfree(t, b), s, direct) EXCEPT
             !.addrs[i] = [k \in 0 .. NDIRECT |-> 0], !.size[i] = 0], i)

(* itrunc: free the blocks, those of the indirect block, and that block.   *)
itrunc(s, i) ==
  LET a == s.addrs[i][NDIRECT]
      all == {s.addrs[i][k] : k \in 0 .. NDIRECT} \cup
             (IF a = 0 THEN {} ELSE {s.cell[a][k] : k \in 0 .. NINDIRECT - 1}) IN
  iupdate([FoldSet(LAMBDA b, t : bfree(t, b), s, all \ {0}) EXCEPT
             !.addrs[i] = [k \in 0 .. NDIRECT |-> 0], !.size[i] = 0], i)

begin_op(s) == [s EXCEPT !.logged = {}]

-----------------------------------------------------------------------------
open(f, i) ==
  /\ ip[f] = 0 /\ ip' = [ip EXCEPT ![f] = i] /\ off' = [off EXCEPT ![f] = 0]
  /\ UNCHANGED <<fs, pend, bytes>>

(* The last close of a file whose name is gone: iput truncates it.         *)
close(f) ==
  /\ ip[f] # 0 /\ \A p \in Procs : pend[p].f # f
  /\ ip' = [ip EXCEPT ![f] = 0] /\ off' = [off EXCEPT ![f] = 0]
  /\ \/ UNCHANGED <<fs, bytes>>
     \/ /\ \A g \in Files \ {f} : ip[g] # ip[f]
        /\ fs' = itrunc(begin_op(fs), ip[f])
        /\ bytes' = [bytes EXCEPT ![ip[f]] = <<>>]
  /\ UNCHANGED pend

fileread(f, n) ==
  /\ ip[f] # 0 /\ off[f] <= fs.size[ip[f]]
  /\ off' = [off EXCEPT ![f] = @ + Len(readi(fs, ip[f], @, n))]
  /\ UNCHANGED <<fs, ip, pend, bytes>>

filewrite(p, f, n, v) ==
  /\ ip[f] # 0 /\ pend[p] = NoWrite
  /\ pend' = [pend EXCEPT ![p] = [f |-> f, v |-> v, n |-> n]]
  /\ UNCHANGED <<fs, ip, off, bytes>>

(* Faulty: no slop for writes that are not aligned.                        *)
MaxChunkNoSlop == ((MAXOPBLOCKS - 1 - 1) \div 2) * BSIZE

MaxChunk == ((MAXOPBLOCKS - 1 - 1 - 2) \div 2) * BSIZE

Overwrite(s, o, n, v) == [x \in 1 .. Max({Len(s), o + n}) |->
                            IF x \in o + 1 .. o + n THEN v ELSE s[x]]

(* The blocks that writei will ask balloc for.                             *)
Needed(s, i, o, n) ==
  LET bns == o \div BSIZE .. (o + n - 1) \div BSIZE
      a == s.addrs[i][NDIRECT] IN
  {<<"direct", bn>> : bn \in {x \in bns : x < NDIRECT /\ s.addrs[i][x] = 0}}
    \cup {<<"indirect", bn>> : bn \in {x \in bns :
            x >= NDIRECT /\ (a = 0 \/ s.cell[a][x - NDIRECT] = 0)}}
    \cup {<<"table", 0>> : bn \in {x \in bns : x >= NDIRECT /\ a = 0}}

(* One turn of filewrite's loop, a transaction.  It goes no further when   *)
(* the disk is full: balloc panics.                                        *)
Chunk(p) ==
  LET f == pend[p].f
      i == ip[f]
      n == Min({pend[p].n, MaxChunk}) IN
  /\ pend[p] # NoWrite
  /\ IF writeiOk(fs, i, off[f], n)
     THEN /\ Cardinality((1 .. NBLOCKS) \ fs.used) >= Cardinality(Needed(fs, i, off[f], n))
          /\ fs' = writei(begin_op(fs), i, off[f], n, pend[p].v)
          /\ off' = [off EXCEPT ![f] = @ + n]
          /\ bytes' = [bytes EXCEPT ![i] = Overwrite(@, off[f], n, pend[p].v)]
          /\ pend' = [pend EXCEPT ![p] =
                        IF @.n = n THEN NoWrite ELSE [@ EXCEPT !.n = @ - n]]
     ELSE pend' = [pend EXCEPT ![p] = NoWrite] /\ UNCHANGED <<fs, off, bytes>>
  /\ UNCHANGED ip

Next ==
  \/ \E f \in Files : \/ \E i \in Inodes : open(f, i)
                      \/ close(f)
                      \/ \E n \in ReadSizes : fileread(f, n)
                      \/ \E p \in Procs, n \in WriteSizes, v \in Bytes : filewrite(p, f, n, v)
  \/ \E p \in Procs : Chunk(p)
Spec == Init /\ [][Next]_vars

-----------------------------------------------------------------------------
Owned(i) == LET a == fs.addrs[i][NDIRECT] IN
  ({fs.addrs[i][k] : k \in 0 .. NDIRECT} \cup
   (IF a = 0 THEN {} ELSE {fs.cell[a][k] : k \in 0 .. NINDIRECT - 1})) \ {0}

(* Type invariant.                                                         *)
TypeOK ==
  /\ fs.used \subseteq 1 .. NBLOCKS
  /\ fs.addrs \in [Inodes -> [0 .. NDIRECT -> 0 .. NBLOCKS]]
  /\ fs.size \in [Inodes -> 0 .. MAXFILE * BSIZE]
  /\ ip \in [Files -> Inodes \cup {0}] /\ off \in [Files -> Nat]
  /\ bytes \in [Inodes -> Seq(Bytes)]

(* No transaction of filewrite or itrunc writes more blocks than begin_op  *)
(* reserves for it in the log, whatever is aligned, allocated or indirect. *)
TransactionFits == Cardinality(fs.logged) <= MAXOPBLOCKS

(* The bitmap marks the blocks of the inodes, and no block has two uses:   *)
(* nothing is lost and nothing is shared, over any writes and truncations. *)
BlocksOwned ==
  /\ fs.used = UNION {Owned(i) : i \in Inodes}
  /\ \A i, k \in Inodes : i # k => Owned(i) \cap Owned(k) = {}
  /\ \A i \in Inodes : Cardinality(Owned(i)) =
       LET n == (fs.size[i] + BSIZE - 1) \div BSIZE IN IF n > NDIRECT THEN n + 1 ELSE n

(* readi returns what was written, for files that grow through their       *)
(* indirect blocks and reuse each other's blocks, and for processes that   *)
(* write to the same file in turns.                                        *)
ReadsBack == \A i \in Inodes : readi(fs, i, 0, fs.size[i]) = bytes[i]

=============================================================================
