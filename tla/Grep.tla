-------------------------------- MODULE Grep --------------------------------
(***************************************************************************)
(* grep.c: the matcher (match, matchhere, matchstar) and the loop that     *)
(* cuts the input into lines.  The loop reads into one buffer, as much as  *)
(* a read returns (from a pipe, any part of what was asked for), prints    *)
(* the lines that match, and moves an unfinished line to the front; a      *)
(* buffer without any newline is thrown away.                              *)
(***************************************************************************)
EXTENDS Integers, Sequences, FiniteSets, SequencesExt, FiniteSetsExt

CONSTANTS
    Patterns,   \* patterns given on the command line
    Inputs,     \* contents of the input
    Texts,      \* texts the matcher is tried on
    BUF         \* sizeof(buf)

VARIABLES
    pattern, input,
    pos,        \* characters of the input read so far
    buf,        \* buf[0..m)
    out,        \* the lines written
    cut,        \* a buffer without a newline was thrown away
    short       \* a read returned less than it might have (a pipe, a terminal)

vars == <<pattern, input, pos, buf, out, cut, short>>

NL == "\n"

----------------------------------------------------------------------------
(* The matcher *)

RECURSIVE matchhere(_, _)
RECURSIVE matchstar(_, _, _)

\* Requires at least one instance.
matchstarPlus(c, re, text) ==
    /\ text # <<>> /\ (Head(text) = c \/ c = ".")
    /\ matchhere(re, Tail(text)) \/ matchstar(c, re, Tail(text))

matchstar(c, re, text) ==
    \/ matchhere(re, text)
    \/ text # <<>> /\ (Head(text) = c \/ c = ".") /\ matchstar(c, re, Tail(text))

matchhere(re, text) ==
    IF re = <<>> THEN TRUE
    ELSE IF Len(re) > 1 /\ re[2] = "*" THEN matchstar(re[1], SubSeq(re, 3, Len(re)), text)
    ELSE IF re = <<"$">> THEN text = <<>>
    ELSE /\ text # <<>> /\ (re[1] = "." \/ re[1] = Head(text))
         /\ matchhere(Tail(re), Tail(text))

RECURSIVE MatchSomewhere(_, _)
MatchSomewhere(re, text) ==
    \/ matchhere(re, text)
    \/ text # <<>> /\ MatchSomewhere(re, Tail(text))

match(re, text) ==
    IF re # <<>> /\ re[1] = "^" THEN matchhere(Tail(re), text)
    ELSE MatchSomewhere(re, text)

----------------------------------------------------------------------------
(* The loop *)

Init ==
    /\ pattern \in Patterns /\ input \in Inputs
    /\ pos = 0 /\ buf = <<>> /\ out = <<>> /\ cut = FALSE /\ short = FALSE

Newlines(s) == {i \in DOMAIN s : s[i] = NL}

\* The lines that end in s, and what follows the last of them.
RECURSIVE Lines(_)
Lines(s) ==
    LET e == Min(Newlines(s)) IN
    IF Newlines(s) = {} THEN <<>>
    ELSE <<SubSeq(s, 1, e - 1)>> \o Lines(SubSeq(s, e + 1, Len(s)))

\* What the loop keeps of a line in the buffer: nothing.
KeptNone(s) == <<>>

Kept(s) ==
    IF Newlines(s) = {} THEN <<>> ELSE SubSeq(s, Max(Newlines(s)) + 1, Len(s))

Matching(ls) == SelectSeq(ls, LAMBDA l : match(pattern, l))

\* What a read is asked for, or the rest of the input.
Asked == Min({BUF - Len(buf) - 1, Len(input) - pos})

\* One pass: a read of n characters and everything done with them.
grep ==
    /\ \E n \in 1 .. Asked :
          LET s == buf \o SubSeq(input, pos + 1, pos + n) IN
          /\ pos' = pos + n
          /\ out' = out \o Matching(Lines(s))
          /\ buf' = Kept(s)
          /\ cut' = (cut \/ Newlines(s) = {})
          /\ short' = (short \/ n < Asked)
    /\ UNCHANGED <<pattern, input>>

Spec == Init /\ [][grep]_vars

----------------------------------------------------------------------------
(* Properties *)

\* The language of a pattern, item by item: a character or ".", alone or
\* with "*"; "^" first and "$" last are anchors.
RECURSIVE Items(_)
Items(re) ==
    IF re = <<>> THEN <<>>
    ELSE IF Len(re) > 1 /\ re[2] = "*"
    THEN <<[c |-> re[1], star |-> TRUE]>> \o Items(SubSeq(re, 3, Len(re)))
    ELSE <<[c |-> re[1], star |-> FALSE]>> \o Items(Tail(re))

RECURSIVE Derives(_, _)
Derives(items, s) ==
    IF items = <<>> THEN s = <<>>
    ELSE LET i == Head(items)
             Fits(x) == i.c = "." \/ i.c = x
         IN  IF i.star
             THEN \E k \in 0 .. Len(s) : /\ \A j \in 1 .. k : Fits(s[j])
                                         /\ Derives(Tail(items), SubSeq(s, k + 1, Len(s)))
             ELSE s # <<>> /\ Fits(Head(s)) /\ Derives(Tail(items), Tail(s))

Anchored(re) == re # <<>> /\ re[1] = "^"
Body(re) == Items(IF Anchored(re) THEN Tail(re) ELSE re)
AtEnd(re) == Body(re) # <<>> /\ Last(Body(re)) = [c |-> "$", star |-> FALSE]

\* The matcher finds a match exactly when some part of the text, at the
\* start or the end if anchored there, is in the language of the pattern
\* ("Only supports ^ . * $ operators").
MatchesLanguage ==
    \A t \in Texts :
        match(pattern, t) =
            \E i \in 1 .. Len(t) + 1, j \in 0 .. Len(t) :
                /\ i <= j + 1
                /\ Anchored(pattern) => i = 1
                /\ AtEnd(pattern) => j = Len(t)
                /\ Derives(IF AtEnd(pattern) THEN Front(Body(pattern)) ELSE Body(pattern),
                           SubSeq(t, i, j))

LinesFit == \A k \in DOMAIN Lines(input) : Len(Lines(input)[k]) < BUF - 1

\* grep prints the matching lines read so far, in order, if its reads are
\* full, as those of a file are, and every line fits the buffer; or else as
\* long as the buffer held a newline after every read, however the reads
\* split the input.  (A read that brings a part of a line and no newline
\* loses that part.)
LinesPrinted ==
    ~cut \/ (~short /\ LinesFit) => out = Matching(Lines(SubSeq(input, 1, pos)))

\* Whatever is lost, a line that is printed is the end of a line of the
\* input: two lines are never joined.
LinesUnmixed ==
    \A k \in DOMAIN out : \E j \in DOMAIN Lines(input) : IsSuffix(out[k], Lines(input)[j])
=============================================================================
