----------------------------- MODULE ShellParse -----------------------------
(***************************************************************************)
(* The command parser of sh.c: gettoken, peek and the recursive descent    *)
(* over a line of text, which is read in place: a word is a pair of        *)
(* positions <<q, eq>> and nulterminate ends it by a 0 at eq.  panic ends  *)
(* the child that parses; here it is the result Err.                       *)
(*                                                                         *)
(* The reference is the grammar                                            *)
(*     line  ::= pipe {"&"} [";" line]      pipe  ::= exec ["|" pipe]      *)
(*     exec  ::= block | {redir | word}     block ::= "(" line ")" {redir} *)
(*     redir ::= ("<" | ">" | ">>") word                                   *)
(* with fewer than MAXARGS words to a command.                             *)
(***************************************************************************)
EXTENDS Integers, Sequences, FiniteSets, FiniteSetsExt

CONSTANTS
    Chars,      \* the characters typed
    MAXARGS,    \* slots of argv, the 0 at its end included
    MaxLine     \* bound: the longest line

VARIABLES
    text,   \* the line
    cmd     \* what the child that parses it has built

whitespace == {" "}
symbols == {"<", "|", ">", "&", ";", "(", ")"}
NUL == "0"

----------------------------------------------------------------------------
(* Tokens.  Positions run from 1 to es = Len(t) + 1, where the text has 0. *)

At(t, s) == IF s > Len(t) THEN NUL ELSE t[s]

First(t, s, Stop) == Min({j \in s .. Len(t) + 1 : At(t, j) \in Stop \cup {NUL}})

SkipWhite(t, s) == First(t, s, Chars \ whitespace)

peek(t, s, toks) == At(t, SkipWhite(t, s)) \in toks

\* A word runs up to the next blank only.
WordEndBlank(t, s) == First(t, s, whitespace)

WordEnd(t, s) == First(t, s, whitespace \cup symbols)

gettoken(t, s) ==
    LET q == SkipWhite(t, s)
        c == At(t, q)
        append == c = ">" /\ At(t, q + 1) = ">"
        eq == IF c = NUL THEN q
              ELSE IF append THEN q + 2
              ELSE IF c \in symbols THEN q + 1
              ELSE WordEnd(t, q)
    IN  [tok |-> IF append THEN "+" ELSE IF c \in symbols \cup {NUL} THEN c ELSE "a",
         q |-> q, eq |-> eq, s |-> SkipWhite(t, eq)]

----------------------------------------------------------------------------
(* Commands.  A parse gives the command and the position it stopped at.    *)

Err == [type |-> "ERR"]

Got(c, s) == [cmd |-> c, s |-> s]
Panic == Got(Err, 0)

pipecmd(l, r) == [type |-> "PIPE", left |-> l, right |-> r]
listcmd(l, r) == [type |-> "LIST", left |-> l, right |-> r]
backcmd(c) == [type |-> "BACK", cmd |-> c]
redircmd(c, q, eq, mode, fd) ==
    [type |-> "REDIR", cmd |-> c, file |-> <<q, eq>>, mode |-> mode, fd |-> fd]
execcmd(argv) == [type |-> "EXEC", argv |-> argv]

Then(r, Op(_, _)) == IF r.cmd = Err THEN Panic ELSE Op(r.cmd, r.s)

RECURSIVE parseredirs(_, _, _)
parseredirs(t, c, s) ==
    LET op == gettoken(t, s)
        f  == gettoken(t, op.s)
    IN  IF ~peek(t, s, {"<", ">"}) THEN Got(c, SkipWhite(t, s))
        ELSE IF f.tok # "a" THEN Panic
        ELSE parseredirs(t, IF op.tok = "<"
                            THEN redircmd(c, f.q, f.eq, "O_RDONLY", 0)
                            ELSE redircmd(c, f.q, f.eq, "O_WRONLY|O_CREATE", 1),
                         f.s)

\* cmd->argv[argc] = q: the words go to the EXEC command at the bottom of
\* the redirections wrapped around it so far.
RECURSIVE AddArg(_, _)
AddArg(c, w) ==
    IF c.type = "EXEC" THEN [c EXCEPT !.argv = Append(@, w)]
    ELSE [c EXCEPT !.cmd = AddArg(@, w)]

\* Lets argv fill up to its last slot, so that the 0 has no room.
TooManyLate(argc) == argc > MAXARGS

TooMany(argc) == argc >= MAXARGS

RECURSIVE parseargs(_, _, _, _)
parseargs(t, c, argc, s) ==
    LET w == gettoken(t, s)
        Next(d, x) == parseargs(t, d, argc + 1, x)
    IN  IF peek(t, s, {"|", ")", "&", ";"}) \/ w.tok = NUL
        THEN Got(c, SkipWhite(t, s))
        ELSE IF w.tok # "a" \/ TooMany(argc + 1) THEN Panic
        ELSE Then(parseredirs(t, AddArg(c, <<w.q, w.eq>>), w.s), Next)

RECURSIVE parseline(_, _)
RECURSIVE parsepipe(_, _)
RECURSIVE parsebacks(_, _, _)

parseblock(t, s) ==
    LET Close(c, x) == IF peek(t, x, {")"})
                       THEN parseredirs(t, c, gettoken(t, x).s) ELSE Panic
    IN  Then(parseline(t, gettoken(t, s).s), Close)

parseexec(t, s) ==
    LET Args(c, x) == parseargs(t, c, 0, x)
    IN  IF peek(t, s, {"("}) THEN parseblock(t, s)
        ELSE Then(parseredirs(t, execcmd(<<>>), s), Args)

parsepipe(t, s) ==
    LET Bar(c, x) ==
            LET Both(d, y) == Got(pipecmd(c, d), y) IN
            IF peek(t, x, {"|"}) THEN Then(parsepipe(t, gettoken(t, x).s), Both)
            ELSE Got(c, x)
    IN  Then(parseexec(t, s), Bar)

parsebacks(t, c, s) ==
    IF peek(t, s, {"&"}) THEN parsebacks(t, backcmd(c), gettoken(t, s).s)
    ELSE Got(c, s)

parseline(t, s) ==
    LET Rest(c, x) ==
            LET b == parsebacks(t, c, x)
                Both(d, y) == Got(listcmd(b.cmd, d), y)
            IN  IF peek(t, b.s, {";"}) THEN Then(parseline(t, gettoken(t, b.s).s), Both)
                ELSE b
    IN  Then(parsepipe(t, s), Rest)

\* Takes what it could parse and ignores the rest of the line.
parsecmdLax(t) == parseline(t, 1).cmd

\* panic("syntax"): something is left over.
Whole(t, r) == IF r.cmd = Err \/ SkipWhite(t, r.s) # Len(t) + 1 THEN Err ELSE r.cmd

parsecmd(t) == Whole(t, parseline(t, 1))

\* The words of a command.
RECURSIVE Words(_)
Words(c) ==
    CASE c.type = "EXEC"  -> {c.argv[k] : k \in DOMAIN c.argv}
      [] c.type = "REDIR" -> Words(c.cmd) \cup {c.file}
      [] c.type = "BACK"  -> Words(c.cmd)
      [] OTHER            -> Words(c.left) \cup Words(c.right)

\* Where nulterminate stores a 0: at the end of every word.
nulterminate(c) == {w[2] : w \in Words(c)}

\* The longest argv, its 0 included.
RECURSIVE Argv(_)
Argv(c) ==
    CASE c.type = "EXEC"            -> Len(c.argv) + 1
      [] c.type \in {"REDIR", "BACK"} -> Argv(c.cmd)
      [] OTHER                      -> Max({Argv(c.left), Argv(c.right)})

----------------------------------------------------------------------------
(* Everything that can be typed, a character at a time, and its parse.     *)

Init == text = <<>> /\ cmd = parsecmd(text)

Type ==
    /\ Len(text) < MaxLine
    /\ \E c \in Chars : text' = Append(text, c)
    /\ cmd' = parsecmd(text')

Spec == Init /\ [][Type]_<<text, cmd>>

----------------------------------------------------------------------------
(* The reference *)

\* The words of the text: the longest runs of other characters.
TextWords ==
    {w \in (DOMAIN text) \X (2 .. Len(text) + 1) :
        /\ w[1] < w[2]
        /\ \A k \in w[1] .. w[2] - 1 : text[k] \notin whitespace \cup symbols
        /\ w[1] = 1 \/ At(text, w[1] - 1) \in whitespace \cup symbols
        /\ At(text, w[2]) \in whitespace \cup symbols \cup {NUL}}

\* Token classes in order of position.
RECURSIVE Tokens(_)
Tokens(s) ==
    LET g == gettoken(text, s) IN
    IF g.tok = NUL THEN <<>> ELSE <<g.tok>> \o Tokens(g.s)

Redirs == {"<", ">", "+"}

RECURSIVE IsRedirs(_)
IsRedirs(k) ==
    \/ k = <<>>
    \/ Len(k) >= 2 /\ k[1] \in Redirs /\ k[2] = "a" /\ IsRedirs(SubSeq(k, 3, Len(k)))

\* Words and redirections in any order; n words at most.
RECURSIVE IsWords(_, _)
IsWords(k, n) ==
    \/ k = <<>>
    \/ n > 0 /\ k[1] = "a" /\ IsWords(Tail(k), n - 1)
    \/ Len(k) >= 2 /\ k[1] \in Redirs /\ k[2] = "a" /\ IsWords(SubSeq(k, 3, Len(k)), n)

RECURSIVE IsLine(_)
RECURSIVE IsPipe(_)

IsExec(k) ==
    \/ IsWords(k, MAXARGS - 1)
    \/ /\ k # <<>> /\ k[1] = "("
       /\ \E n \in 2 .. Len(k) : /\ k[n] = ")" /\ IsLine(SubSeq(k, 2, n - 1))
                                 /\ IsRedirs(SubSeq(k, n + 1, Len(k)))

IsPipe(k) ==
    \/ IsExec(k)
    \/ \E n \in DOMAIN k : /\ k[n] = "|" /\ IsExec(SubSeq(k, 1, n - 1))
                           /\ IsPipe(SubSeq(k, n + 1, Len(k)))

IsBacks(k) ==
    \E n \in 0 .. Len(k) : /\ IsPipe(SubSeq(k, 1, n))
                           /\ \A m \in n + 1 .. Len(k) : k[m] = "&"

IsLine(k) ==
    \/ IsBacks(k)
    \/ \E n \in DOMAIN k : /\ k[n] = ";" /\ IsBacks(SubSeq(k, 1, n - 1))
                           /\ IsLine(SubSeq(k, n + 1, Len(k)))

----------------------------------------------------------------------------
(* Properties *)

\* parsecmd accepts exactly the lines of the grammar: the descent, which
\* never goes back, finds a derivation whenever there is one.
AcceptsGrammar == (cmd # Err) = IsLine(Tokens(1))

\* The words of an accepted command are the words of the line, whole, and
\* none of the zeros nulterminate stores falls inside one: the words are
\* terminated in place without damage to a neighbour.
WordsIntact ==
    cmd # Err =>
        /\ Words(cmd) = TextWords
        /\ \A z \in nulterminate(cmd), w \in TextWords : z \notin w[1] .. w[2] - 1

\* argv always has room for its terminating 0.
ArgvFits == cmd # Err => Argv(cmd) <= MAXARGS
=============================================================================
