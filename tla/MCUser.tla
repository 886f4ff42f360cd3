------------------------------- MODULE MCUser -------------------------------
(***************************************************************************)
(* What user programs and the kernel do with memory and strings, each on a *)
(* small instance: the arguments of system calls; the parser of the shell  *)
(* (parse); malloc and free (malloc); paths, names and numbers (strings);  *)
(* and grep on whole inputs (lines) and its matcher on short texts         *)
(* (match).                                                                *)
(***************************************************************************)
EXTENDS SysArgs, Sequences

CONSTANTS BUF   \* of Grep

VARIABLES
  part,   \* which part of the system this behaviour is about
  text, cmd, size, ptr, freep, brk, held, core, p, q, n, pattern, input,
  pos, buf, out, cut, short

Upto(S, k) == UNION {[1 .. l -> S] : l \in 0 .. k}

Par == INSTANCE ShellParse WITH
  Chars <- {"x", " ", "|", "&", ";", "(", ")", ">"}, MAXARGS <- 3,
  MaxLine <- 5
Mal == INSTANCE Malloc WITH
  HEAP <- 2, LIMIT <- 9, MINCORE <- 3, HEADER <- 2, Requests <- {1, 3, 6}
Str == INSTANCE Strings WITH
  Letters <- {"a", "b"}, DIRSIZ <- 2, MaxLen <- 5, BITS <- 7,
  Bases <- {10, 16}
Lin == INSTANCE Grep WITH
  Patterns <- {<<"a">>, <<"^", "b">>}, Inputs <- Upto({"a", "b", "\n"}, 7),
  Texts <- {}
Mat == INSTANCE Grep WITH
  Patterns <- Upto({"a", ".", "*", "^", "$"}, 4), Inputs <- {<<"\n">>},
  Texts <- Upto({"a", "b"}, 3)

ASSUME InstanceAssumption ==
  Mal!MallocAssumption

baseVars == <<sz, esp, arg>>
allVars == <<part, sz, esp, arg, text, cmd, size, ptr, freep, brk, held,
             core, p, q, n, pattern, input, pos, buf, out, cut, short>>

\* What a part leaves alone: the variables of the others.
ParRest == <<part, baseVars, size, ptr, freep, brk, held, core, p, q, n,
             pattern, input, pos, buf, out, cut, short>>
MalRest == <<part, baseVars, text, cmd, p, q, n, pattern, input, pos, buf,
             out, cut, short>>
StrRest == <<part, baseVars, text, cmd, size, ptr, freep, brk, held, core,
             pattern, input, pos, buf, out, cut, short>>
LinRest == <<part, baseVars, text, cmd, size, ptr, freep, brk, held, core,
             p, q, n>>
baseRest == <<part, text, cmd, size, ptr, freep, brk, held, core, p, q, n,
              pattern, input, pos, buf, out, cut, short>>

\* The base while another part runs.
AtRest == ArgsInit /\ sz = 1 /\ esp = 0

MCInit ==
  \/ /\ part = "sysargs" /\ ArgsInit
     /\ text = 0 /\ cmd = 0 /\ size = 0 /\ ptr = 0 /\ freep = 0 /\ brk = 0
        /\ held = 0 /\ core = 0 /\ p = 0 /\ q = 0 /\ n = 0 /\ pattern = 0 /\
        input = 0 /\ pos = 0 /\ buf = 0 /\ out = 0 /\ cut = 0 /\ short = 0
  \/ /\ part = "parse" /\ Par!Init /\ AtRest
     /\ size = 0 /\ ptr = 0 /\ freep = 0 /\ brk = 0 /\ held = 0 /\ core = 0
        /\ p = 0 /\ q = 0 /\ n = 0 /\ pattern = 0 /\ input = 0 /\ pos = 0 /\
        buf = 0 /\ out = 0 /\ cut = 0 /\ short = 0
  \/ /\ part = "malloc" /\ Mal!Init /\ AtRest
     /\ text = 0 /\ cmd = 0 /\ p = 0 /\ q = 0 /\ n = 0 /\ pattern = 0 /\
        input = 0 /\ pos = 0 /\ buf = 0 /\ out = 0 /\ cut = 0 /\ short = 0
  \/ /\ part = "strings" /\ Str!Init /\ AtRest
     /\ text = 0 /\ cmd = 0 /\ size = 0 /\ ptr = 0 /\ freep = 0 /\ brk = 0
        /\ held = 0 /\ core = 0 /\ pattern = 0 /\ input = 0 /\ pos = 0 /\
        buf = 0 /\ out = 0 /\ cut = 0 /\ short = 0
  \/ /\ part = "lines" /\ Lin!Init /\ AtRest
     /\ text = 0 /\ cmd = 0 /\ size = 0 /\ ptr = 0 /\ freep = 0 /\ brk = 0
        /\ held = 0 /\ core = 0 /\ p = 0 /\ q = 0 /\ n = 0
  \/ /\ part = "match" /\ Mat!Init /\ AtRest
     /\ text = 0 /\ cmd = 0 /\ size = 0 /\ ptr = 0 /\ freep = 0 /\ brk = 0
        /\ held = 0 /\ core = 0 /\ p = 0 /\ q = 0 /\ n = 0

MCNext ==
  \/ part = "sysargs" /\ ArgsNext /\ UNCHANGED baseRest
  \/ part = "parse" /\ Par!Type /\ UNCHANGED ParRest
  \/ part = "malloc" /\ Mal!Next /\ UNCHANGED MalRest
  \/ part = "strings" /\ Str!Next /\ UNCHANGED StrRest
  \/ part = "lines" /\ Lin!grep /\ UNCHANGED LinRest
  \/ part = "match" /\ Mat!grep /\ UNCHANGED LinRest
  \/ part \in {"parse", "strings", "lines", "match"} /\ UNCHANGED allVars   \* these may stop

MCSpec == MCInit /\ [][MCNext]_allVars

-----------------------------------------------------------------------------
(* parsecmd accepts exactly the lines of the grammar; the words of an      *)
(* accepted command are those of the line, and argv has room for its 0.    *)
ParsesGrammar ==
  part = "parse" => Par!AcceptsGrammar /\ Par!WordsIntact /\ Par!ArgvFits

(* malloc, free: every unit from sbrk is in one block, free or held; the   *)
(* free list is one cycle in address order without neighbours that touch,  *)
(* and the header of a held block keeps its size.                          *)
HeapSound ==
  part = "malloc" => /\ Mal!CoreConserved /\ Mal!HeadersKept
                     /\ Mal!Circular /\ Mal!Coalesced

(* string.c, namex, dirlink, printint agree with what they are for: the    *)
(* elements of a path are visited in order, a stored name is found again   *)
(* and no other, memmove copies overlapping ranges whole, safestrcpy       *)
(* leaves a terminated prefix and no more, a printed number reads back.    *)
StringsExact ==
  part = "strings" => /\ Str!PathWalk /\ Str!NamesFound
                      /\ Str!MovesWhole /\ Str!Terminated /\ Str!PrintsValue

(* match finds exactly what the pattern describes.  grep prints exactly    *)
(* the matching lines when it reads a file whose lines fit its buffer, and *)
(* from a pipe as long as no read leaves the buffer without a newline;     *)
(* otherwise it loses the start of a line but never joins two lines.       *)
GrepExact ==
  /\ part = "match" => Mat!MatchesLanguage
  /\ part = "lines" => Lin!LinesPrinted /\ Lin!LinesUnmixed
=============================================================================
