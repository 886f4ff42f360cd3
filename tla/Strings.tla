------------------------------ MODULE Strings -------------------------------
(***************************************************************************)
(* The string functions the kernel's names rest on (string.c), skipelem,   *)
(* namecmp and the name fields of directory entries (fs.c), and the two    *)
(* printint (console.c, printf.c), as functions of their arguments, with   *)
(* the loops of the code as recursion.  A string is the sequence of its    *)
(* characters before the NUL; a fixed buffer is a sequence of its length.  *)
(* The variables enumerate the arguments.                                  *)
(***************************************************************************)
EXTENDS Integers, Sequences, FiniteSets, FiniteSetsExt, SequencesExt

CONSTANTS
    Letters,    \* characters of a name
    DIRSIZ,     \* length of the name field of a directory entry
    MaxLen,     \* bound: length of the strings
    BITS,       \* width of an int
    Bases       \* bases printint is called with

VARIABLES p, q, n   \* two strings and a number

vars == <<p, q, n>>

NUL == "0"

At(s, i) == IF i > Len(s) THEN NUL ELSE s[i]

----------------------------------------------------------------------------
(* string.c *)

\* Zero or not: all that the callers look at.
Order(a, b) == IF a = b THEN 0 ELSE 1

RECURSIVE strncmpFrom(_, _, _, _)
strncmpFrom(s, t, k, i) ==
    IF k > 0 /\ At(s, i) # NUL /\ At(s, i) = At(t, i)
    THEN strncmpFrom(s, t, k - 1, i + 1)
    ELSE IF k = 0 THEN 0 ELSE Order(At(s, i), At(t, i))

strncmp(s, t, k) == strncmpFrom(s, t, k, 1)

\* The loop both copies begin with: characters of t go to the buffer b, at
\* most k of them and none after the NUL; i is the place after the last.
RECURSIVE Copied(_, _, _, _)
Copied(b, t, i, k) ==
    IF k = 0 THEN [buf |-> b, i |-> i, left |-> 0]
    ELSE LET c == [b EXCEPT ![i] = At(t, i)] IN
         IF c[i] = NUL THEN [buf |-> c, i |-> i + 1, left |-> k - 1]
         ELSE Copied(c, t, i + 1, k - 1)

strncpy(b, t, k) ==
    LET c == Copied(b, t, 1, k) IN
    [j \in DOMAIN b |-> IF j \in c.i .. c.i + c.left - 1 THEN NUL ELSE c.buf[j]]

\* Faulty: fills the whole buffer and leaves no room for the NUL.
safestrcpyFull(b, t, k) == Copied(b, t, 1, k).buf

safestrcpy(b, t, k) ==
    IF k <= 0 THEN b
    ELSE LET c == Copied(b, t, 1, k - 1) IN [c.buf EXCEPT ![c.i] = NUL]

\* The bytes of a memory m moved one at a time.
RECURSIVE CopyUp(_, _, _, _)
CopyUp(m, d, s, k) ==
    IF k = 0 THEN m ELSE CopyUp([m EXCEPT ![d] = m[s]], d + 1, s + 1, k - 1)

RECURSIVE CopyDown(_, _, _, _)
CopyDown(m, d, s, k) ==
    IF k = 0 THEN m ELSE CopyDown([m EXCEPT ![d - 1] = m[s - 1]], d - 1, s - 1, k - 1)

\* Always copies upwards.
memmoveUp(m, d, s, k) == CopyUp(m, d, s, k)

memmove(m, d, s, k) ==
    IF s < d /\ s + k > d THEN CopyDown(m, d + k, s + k, k) ELSE CopyUp(m, d, s, k)

----------------------------------------------------------------------------
(* Names in fs.c *)

namecmp(s, t) == strncmp(s, t, DIRSIZ)

\* The string in a buffer: up to its first NUL, or all of it.
InBuffer(b) ==
    SubSeq(b, 1, Min({i \in 0 .. Len(b) : i = Len(b) \/ b[i + 1] = NUL}))

From(s, Stop(_)) ==
    SubSeq(s, Min({i \in 1 .. Len(s) + 1 : Stop(At(s, i)) \/ At(s, i) = NUL}), Len(s))

\* The rest keeps its leading slashes.
skipelemSlash(path) ==
    LET a == From(path, LAMBDA c : c # "/")
        b == From(a, LAMBDA c : c = "/")
        s == SubSeq(a, 1, Len(a) - Len(b))
    IN  [found |-> a # <<>>,
         name  |-> IF Len(s) >= DIRSIZ THEN SubSeq(s, 1, DIRSIZ) ELSE s,
         rest  |-> b]

\* skipelem: the name it copies and the rest of the path, or 0.
skipelem(path) ==
    LET a == From(path, LAMBDA c : c # "/")
        b == From(a, LAMBDA c : c = "/")
        s == SubSeq(a, 1, Len(a) - Len(b))
    IN  [found |-> a # <<>>,
         name  |-> IF Len(s) >= DIRSIZ THEN SubSeq(s, 1, DIRSIZ) ELSE s,
         rest  |-> From(b, LAMBDA c : c # "/")]

\* Truncates a name one character early.
direntShort(name) == [i \in 1 .. DIRSIZ |-> IF i < DIRSIZ THEN At(name, i) ELSE NUL]

\* dirlink's de.name; the entry it reuses still holds an old name.
dirent(name) ==
    strncpy([i \in 1 .. DIRSIZ |-> CHOOSE l \in Letters : TRUE], name, DIRSIZ)

----------------------------------------------------------------------------
(* printint *)

UINT == 2 ^ BITS

Signed(x) == IF x < UINT \div 2 THEN x ELSE x - UINT

\* The digits are taken from the signed value.
MagnitudeSigned(xx, sign) == IF sign /\ Signed(xx) < 0 THEN (0 - Signed(xx)) % (UINT \div 2) ELSE xx

\* sign && xx < 0: x = -xx, in a uint.
Magnitude(xx, sign) == IF sign /\ Signed(xx) < 0 THEN (UINT - xx) % UINT ELSE xx

RECURSIVE Digits(_, _)
Digits(x, base) ==
    (IF x \div base = 0 THEN <<>> ELSE Digits(x \div base, base)) \o <<x % base>>

printint(xx, base, sign) ==
    [minus |-> sign /\ Signed(xx) < 0, digits |-> Digits(Magnitude(xx, sign), base)]

----------------------------------------------------------------------------
(* The arguments *)

Init == p = <<>> /\ q = <<>> /\ n = 0

Next ==
    \/ /\ n = 0 /\ Len(p) < MaxLen /\ \E c \in Letters \cup {"/"} : p' = Append(p, c)
       /\ UNCHANGED <<q, n>>
    \/ /\ n = 0 /\ Len(q) < MaxLen /\ \E c \in Letters : q' = Append(q, c)
       /\ UNCHANGED <<p, n>>
    \/ n < UINT - 1 /\ n' = n + 1 /\ p = <<>> /\ q = <<>> /\ UNCHANGED <<p, q>>

Spec == Init /\ [][Next]_vars

----------------------------------------------------------------------------
(* Properties *)

\* The elements of a path: its longest runs without a slash.
Elements ==
    LET starts == {i \in DOMAIN p : p[i] # "/" /\ (i = 1 \/ p[i - 1] = "/")}
        Run(i) == SubSeq(p, i, Min({j \in i .. Len(p) : j = Len(p) \/ p[j + 1] = "/"}))
    IN  [k \in 1 .. Cardinality(starts) |->
            Run(CHOOSE i \in starts : Cardinality({j \in starts : j <= i}) = k)]

Cut(s) == SubSeq(s, 1, Min({DIRSIZ, Len(s)}))

\* Calling skipelem until it returns 0, as namex does, visits the elements
\* of the path in order, each cut to DIRSIZ characters, whatever slashes
\* surround them; the rest is empty exactly at the last one, which is how
\* namex with nameiparent knows it ("The returned path has no leading
\* slashes, so the caller can check *path=='\0'").
RECURSIVE Visited(_)
Visited(path) ==
    LET r == skipelem(path) IN
    IF ~r.found THEN <<>> ELSE <<<<r.name, r.rest = <<>>>>>> \o Visited(r.rest)

PathWalk ==
    Visited(p) = [k \in DOMAIN Elements |-> <<Cut(Elements[k]), k = Len(Elements)>>]

\* A name that dirlink stores is found again by dirlookup, under every name
\* that agrees with it in the first DIRSIZ characters and under no other:
\* the truncations of skipelem, strncpy and strncmp are the same.
NamesFound ==
    \A k \in DOMAIN Elements :
        (namecmp(q, InBuffer(dirent(Cut(Elements[k])))) = 0)
            = (Cut(q) = Cut(Elements[k]))

\* memmove leaves the old contents of the source at the destination, also
\* when the two overlap.
MovesWhole ==
    \A d, s \in 1 .. Len(p) + 1 : \A k \in 0 .. Len(p) + 1 - Max({d, s}) :
        memmove(p, d, s, k) =
            [i \in DOMAIN p |-> IF i \in d .. d + k - 1 THEN p[s + (i - d)] ELSE p[i]]

\* safestrcpy into k places of the buffer p leaves there the longest prefix
\* that fits, terminated, and touches no byte after these places nor, when
\* the string is shorter, more than one after its NUL.
Terminated ==
    \A k \in 1 .. Len(p) :
        LET b == safestrcpy(p, q, k)
            l == Min({k - 1, Len(q)})
        IN  /\ b[l + 1] = NUL /\ InBuffer(b) = SubSeq(q, 1, l)
            /\ \A i \in DOMAIN p : i > Min({k, l + 2}) => b[i] = p[i]

RECURSIVE Value(_, _)
Value(d, base) == IF d = <<>> THEN 0 ELSE Value(Front(d), base) * base + Last(d)

\* What printint prints reads back as its argument, at both ends of the
\* range of an int too, where the negation wraps.
PrintsValue ==
    \A base \in Bases : \A sign \in BOOLEAN :
        LET r == printint(n, base, sign)
            v == Value(r.digits, base)
        IN  /\ v = IF r.minus THEN 0 - Signed(n) ELSE IF sign THEN Signed(n) ELSE n
            /\ Len(r.digits) > 1 => r.digits[1] # 0
=============================================================================
