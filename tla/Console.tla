------------------------------ MODULE Console ------------------------------
(***************************************************************************)
(* The console (console.c): the input ring that the interrupt handler      *)
(* edits and readers drain under cons.lock, and the cursor of the screen.  *)
(***************************************************************************)
EXTENDS Naturals, Sequences, FiniteSets, SequencesExt

CONSTANTS
  Readers, Sizes,   \* processes in read, and the byte counts they ask for
  INPUT_BUF, UINT,  \* the ring; the number of values of a uint
  COLS, ROWS,       \* the screen (80 and 25)
  Keys              \* characters typed: "x", "\n", "\r", "^D", "^U", "^H", "^P", "^I", ""

\* What the modules that instantiate this one assume of the constants.
ConsoleAssumption == UINT % INPUT_BUF = 0 /\ INPUT_BUF < UINT /\ ROWS > 1

VARIABLES
  buf, r, w, e,     \* input
  pos,              \* the cursor
  pc, n, target,    \* consoleread in each process
  killed,
  lines, edit       \* what the keys typed so far should leave: the bytes
                    \* given to readers and not read, the line being edited

input == <<buf, r, w, e>>
vars == <<input, pos, pc, n, target, killed, lines, edit>>

Init ==
  /\ buf = [i \in 0 .. INPUT_BUF - 1 |-> "x"] /\ r = 0 /\ w = 0 /\ e = 0 /\ pos = 0
  /\ pc = [p \in Readers |-> "user"] /\ n = [p \in Readers |-> 0]
  /\ target = [p \in Readers |-> 0] /\ killed = {}
  /\ lines = <<>> /\ edit = <<>>

Plus(a, b) == (a + b) % UINT
Minus(a, b) == (a + UINT - b) % UINT

(* cgaputc: advance, go back, or start a line; then scroll.                *)
Moved(q, c) == CASE c = "\n" -> q + COLS - (q % COLS)
                 [] c = "BACKSPACE" -> IF q > 0 THEN q - 1 ELSE q
                 [] OTHER -> q + 1

\* The cursor after the panic "pos under/overflow".
Overflow == COLS * ROWS + 1

cgaputc(q, c) == LET m == Moved(q, c) IN
                 CASE m > COLS * ROWS -> Overflow
                   [] m <= COLS * ROWS /\ m \div COLS >= ROWS - 1 -> m - COLS
                   [] OTHER -> m

(* consputc, k times; after a panic it does nothing any more.              *)
RECURSIVE consputc(_, _, _)
consputc(q, c, k) ==
  IF k = 0 \/ q = Overflow THEN q ELSE consputc(cgaputc(q, c), c, k - 1)

(* Nobody holds cons.lock; wakeup makes the sleepers run again.            *)
LockFree == \A p \in Readers : pc[p] \notin {"loop", "tosleep"}

(* Faulty: nobody is woken.                                                *)
wakeupNone == UNCHANGED pc

wakeup == pc' = [p \in Readers |-> IF pc[p] = "asleep" THEN "wake" ELSE pc[p]]

(* Faulty: Control-U goes back over what has been handed to the readers.   *)
KillToRead == LET back == {k \in 0 .. Minus(e, r) :
                             /\ \A i \in 1 .. k : buf[Minus(e, i) % INPUT_BUF] # "\n"
                             /\ k = Minus(e, r) \/ buf[Minus(e, k + 1) % INPUT_BUF] = "\n"}
              IN CHOOSE k \in back : TRUE

(* Control-U: back to the start of the line, or to the last newline.       *)
KillTo == LET back == {k \in 0 .. Minus(e, w) :
                         /\ \A i \in 1 .. k : buf[Minus(e, i) % INPUT_BUF] # "\n"
                         /\ k = Minus(e, w) \/ buf[Minus(e, k + 1) % INPUT_BUF] = "\n"}
          IN CHOOSE k \in back : TRUE

Room == Minus(e, r) < INPUT_BUF

(* Faulty: a full ring is not handed over.                                 *)
CommitsNotFull(c) == c \in {"\n", "^D"}

Commits(c) == c \in {"\n", "^D"} \/ Plus(e, 1) = Plus(r, INPUT_BUF)

(* consoleintr for one key; the empty key stands for the character 0.      *)
Erase(k) ==
  /\ e' = Minus(e, k) /\ pos' = consputc(pos, "BACKSPACE", k)
  /\ edit' = SubSeq(edit, 1, Len(edit) - k)
  /\ UNCHANGED <<buf, r, w, pc, n, target, killed, lines>>
Enter(key) ==
  LET c == IF key = "\r" THEN "\n" ELSE key IN
  /\ buf' = [buf EXCEPT ![e % INPUT_BUF] = c] /\ e' = Plus(e, 1)
  /\ pos' = consputc(pos, c, 1)
  /\ IF Commits(c)
     THEN w' = e' /\ wakeup /\ lines' = lines \o Append(edit, c) /\ edit' = <<>>
     ELSE edit' = Append(edit, c) /\ UNCHANGED <<w, pc, lines>>
  /\ UNCHANGED <<r, n, target, killed>>
Listing ==          \* procdump and printpage, which print lines, are called
  /\ pos' = consputc(pos, "\n", 1)
  /\ UNCHANGED <<input, pc, n, target, killed, lines, edit>>
consoleintr(key) ==
  /\ LockFree
  /\ \/ key = "^U" /\ Erase(KillTo)
     \/ key = "^H" /\ e # w /\ Erase(1)
     \/ key \notin {"^U", "^H", "^P", "^I", ""} /\ Room /\ Enter(key)
     \/ key \in {"^P", "^I"} /\ Listing
     \/ /\ key = "" \/ (key = "^H" /\ e = w)
           \/ (key \notin {"^U", "^H", "^P", "^I", ""} /\ ~Room)
        /\ UNCHANGED vars

(* consoleread: take the lock; the loop runs with it held.                 *)
consoleread(p, k) ==
  /\ LockFree /\ pc[p] = "user" /\ pc' = [pc EXCEPT ![p] = "loop"]
  /\ n' = [n EXCEPT ![p] = k] /\ target' = [target EXCEPT ![p] = k]
  /\ UNCHANGED <<input, pos, killed, lines, edit>>
Wake(p) ==
  /\ LockFree /\ pc[p] = "wake" /\ pc' = [pc EXCEPT ![p] = "loop"]
  /\ UNCHANGED <<input, pos, n, target, killed, lines, edit>>

Leave(p) == /\ pc' = [pc EXCEPT ![p] = "user"] /\ n' = [n EXCEPT ![p] = 0]
            /\ target' = [target EXCEPT ![p] = 0]

(* Faulty: the killed flag is not looked at.                               *)
EmptyDeaf(p) ==
  /\ pc[p] = "loop" /\ n[p] > 0 /\ r = w
  /\ pc' = [pc EXCEPT ![p] = "tosleep"]
  /\ UNCHANGED <<input, pos, n, target, killed, lines, edit>>

(* No input: leave when killed, else call sleep.                           *)
Empty(p) ==
  /\ pc[p] = "loop" /\ n[p] > 0 /\ r = w
  /\ \/ p \in killed /\ Leave(p)
     \/ p \notin killed /\ pc' = [pc EXCEPT ![p] = "tosleep"] /\ UNCHANGED <<n, target>>
  /\ UNCHANGED <<input, pos, killed, lines, edit>>

(* sleep takes ptable.lock, which kill takes too, and only then gives up   *)
(* cons.lock: no line is missed here, but a kill since the test is.        *)
Sleep(p) ==
  /\ pc[p] = "tosleep" /\ pc' = [pc EXCEPT ![p] = "asleep"]
  /\ UNCHANGED <<input, pos, n, target, killed, lines, edit>>

(* An end of file after other bytes stays for the next read.               *)
PutBack(p) == n[p] < target[p]

(* One byte, or the end of file.                                           *)
Byte(p) ==
  LET c == buf[r % INPUT_BUF] IN
  /\ pc[p] = "loop" /\ n[p] > 0 /\ r # w
  /\ IF c = "^D" /\ PutBack(p) THEN UNCHANGED <<r, lines>>
     ELSE r' = Plus(r, 1) /\ lines' = Tail(lines)
  /\ IF c \in {"^D", "\n"} THEN Leave(p)
     ELSE n' = [n EXCEPT ![p] = @ - 1] /\ UNCHANGED <<pc, target>>
  /\ UNCHANGED <<buf, w, e, pos, killed, edit>>
Full(p) ==
  /\ pc[p] = "loop" /\ n[p] = 0 /\ Leave(p)
  /\ UNCHANGED <<input, pos, killed, lines, edit>>

(* consolewrite: k times the character c, with the lock held.              *)
consolewrite(c, k) ==
  /\ LockFree /\ pos' = consputc(pos, c, k)
  /\ UNCHANGED <<input, pc, n, target, killed, lines, edit>>

kill(p) ==
  /\ killed' = killed \cup {p}
  /\ pc' = [pc EXCEPT ![p] = IF @ = "asleep" THEN "wake" ELSE @]
  /\ UNCHANGED <<input, pos, n, target, lines, edit>>

Read(p) == Wake(p) \/ Empty(p) \/ Sleep(p) \/ Byte(p) \/ Full(p)
Next == \/ \E c \in Keys : consoleintr(c)
        \/ \E c \in {"x", "\n"}, k \in Sizes : consolewrite(c, k)
        \/ \E p \in Readers : Read(p) \/ kill(p) \/ \E k \in Sizes : consoleread(p, k)
Spec == Init /\ [][Next]_vars
FairSpec == Spec /\ \A p \in Readers : WF_vars(Read(p))

-----------------------------------------------------------------------------
(* Type invariant.                                                         *)
TypeOK ==
  /\ r \in 0 .. UINT - 1 /\ w \in 0 .. UINT - 1 /\ e \in 0 .. UINT - 1
  /\ pos \in Nat /\ killed \subseteq Readers
  /\ pc \in [Readers -> {"user", "loop", "tosleep", "asleep", "wake"}]

Bytes(from, to) == [i \in 1 .. Minus(to, from) |-> buf[Plus(from, i - 1) % INPUT_BUF]]

(* The ring holds, in order, the bytes committed and not yet read and then *)
(* the line being edited, even as the indices wrap around: no byte is lost,*)
(* read twice, or read before its line is complete.                        *)
RingHoldsInput == Bytes(r, w) = lines /\ Bytes(w, e) = edit

(* The ring never overflows, and when it is full its contents have been    *)
(* handed over, so a reader can always make room.                          *)
FullRingReadable ==
  /\ Minus(e, r) <= INPUT_BUF
  /\ Minus(e, r) = INPUT_BUF => r # w

(* No reader sleeps while there is something to read.                      *)
NoLostConsoleWakeup == \A p \in Readers : pc[p] = "asleep" => r = w

(* The cursor stays on the screen, where crt[pos] may be written, and      *)
(* above the last row.                                                     *)
CursorOnScreen == pos < COLS * (ROWS - 1)
=============================================================================
