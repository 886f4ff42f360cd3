------------------------------ MODULE Keyboard ------------------------------
(***************************************************************************)
(* kbdgetc (kbd.c): the state machine that turns the bytes of the keyboard *)
(* into characters.  The controller holds the bytes until the interrupt    *)
(* handler takes them one at a time; a key of the right-hand group sends   *)
(* the prefix 0xE0 before each of its bytes, so a prefix and its byte can  *)
(* be taken in different interrupts.  A byte is a record: the key's code   *)
(* and whether it is the release (the 0x80 bit).                           *)
(*                                                                         *)
(* The typist does not hold the two keys of one modifier down together:    *)
(* the code keeps one bit for both and releasing either clears it.         *)
(***************************************************************************)
EXTENDS Integers, Sequences, FiniteSets

CONSTANTS
    Keys,       \* the keys of the typist
    QSize       \* bytes the controller holds

VARIABLES
    queue,      \* bytes not yet taken, each with the character it stands for
    shift,      \* the static variable of kbdgetc, a set of bits
    down, caps, \* ghost: the keys held down, and the state of caps lock
    got         \* ghost: the last character returned and the one meant

vars == <<queue, shift, down, caps, got>>

\* shiftcode and togglecode: the bit a key sets or toggles.
shiftcode(k) ==
    CASE k \in {"lshift", "rshift"} -> {"SHIFT"}
      [] k \in {"lctl", "rctl"}     -> {"CTL"}
      [] OTHER                      -> {}

togglecode(k) == IF k = "caps" THEN {"CAPSLOCK"} ELSE {}

\* The keys whose bytes come after 0xE0.
Prefixed(k) == k \in {"rctl", "home"}

\* Only the key after the prefix is the right-hand one: the same byte
\* without it is the key on the left.
Unprefixed(k) == IF k = "rctl" THEN "lctl" ELSE IF k = "home" THEN "pad" ELSE k

Letters == {"a"}

Xor(S, T) == (S \ T) \cup (T \ S)

\* normalmap, shiftmap and ctlmap: the table the bits select.
charcode(k, bits) ==
    IF k \notin Letters THEN "special"
    ELSE IF "CTL" \in bits THEN "control"
    ELSE IF "SHIFT" \in bits THEN "upper" ELSE "lower"

\* Caps lock gives upper case and leaves it.
CharRaised(k, bits) ==
    LET c == charcode(k, bits) IN
    IF "CAPSLOCK" \in bits /\ c = "lower" THEN "upper" ELSE c

\* Caps lock exchanges the cases.
Char(k, bits) ==
    LET c == charcode(k, bits) IN
    IF "CAPSLOCK" \notin bits THEN c
    ELSE CASE c = "lower" -> "upper" [] c = "upper" -> "lower" [] OTHER -> c

\* What a typist means: of shift and caps lock, either one makes a capital.
Meant(k, bits) ==
    CASE k \notin Letters -> "special"
      [] k \in Letters /\ "CTL" \in bits -> "control"
      [] OTHER -> IF ("SHIFT" \in bits) # ("CAPSLOCK" \in bits) THEN "upper" ELSE "lower"

Bits == UNION {shiftcode(k) : k \in down} \cup (IF caps THEN {"CAPSLOCK"} ELSE {})

Init ==
    /\ queue = <<>> /\ shift = {}
    /\ down = {} /\ caps = FALSE
    /\ got = <<"none", "none">>

----------------------------------------------------------------------------
(* The keyboard (the hardware) *)

Byte(k, up, meant) == [key |-> k, up |-> up, meant |-> meant]

Bytes(k, up, meant) ==
    IF Prefixed(k) THEN <<Byte("E0", FALSE, "none"), Byte(k, up, meant)>>
    ELSE <<Byte(k, up, meant)>>

Send(b) == Len(queue) + Len(b) <= QSize /\ queue' = queue \o b

Press(k) ==
    LET after == shiftcode(k) \cup
                 (IF k = "caps" THEN Xor(Bits, {"CAPSLOCK"}) ELSE Bits) IN
    /\ k \notin down
    /\ \A j \in down : shiftcode(j) \cap shiftcode(k) = {}
    /\ Send(Bytes(k, FALSE, Meant(k, after)))
    /\ down' = down \cup {k}
    /\ caps' = IF k = "caps" THEN ~caps ELSE caps
    /\ UNCHANGED <<shift, got>>

Release(k) ==
    /\ k \in down
    /\ Send(Bytes(k, TRUE, "none"))
    /\ down' = down \ {k}
    /\ UNCHANGED <<shift, caps, got>>

----------------------------------------------------------------------------
(* kbdgetc *)

\* The key a byte names, given the prefix bit.
KeyOf(b) == IF "E0ESC" \in shift THEN b.key ELSE Unprefixed(b.key)

\* Leaves the prefix bit for the next key.
ReleasedSticky(b) == shift \ shiftcode(KeyOf(b))

Released(b) == shift \ (shiftcode(KeyOf(b)) \cup {"E0ESC"})

Pressed(b) ==
    Xor((shift \ {"E0ESC"}) \cup shiftcode(KeyOf(b)), togglecode(KeyOf(b)))

kbdgetc ==
    LET b == Head(queue) IN
    /\ queue # <<>>
    /\ queue' = Tail(queue)
    /\ \/ /\ b.key = "E0"
          /\ shift' = shift \cup {"E0ESC"} /\ UNCHANGED got
       \/ /\ b.key # "E0" /\ b.up
          /\ shift' = Released(b) /\ UNCHANGED got
       \/ /\ b.key # "E0" /\ ~b.up
          /\ shift' = Pressed(b)
          /\ got' = <<Char(KeyOf(b), Pressed(b)), b.meant>>
    /\ UNCHANGED <<down, caps>>

Next == (\E k \in Keys : Press(k) \/ Release(k)) \/ kbdgetc

Spec == Init /\ [][Next]_vars

----------------------------------------------------------------------------
(* Properties *)

\* Once every byte is taken, the bits are the keys held down and caps lock:
\* no modifier stays on after its key is up, however presses, releases and
\* prefixes of several keys interleave.
NoStuckModifier == queue = <<>> => shift = Bits

\* The character returned for a key is the one the modifiers at the press
\* call for, though they may have changed by the time the byte is taken.
TypedAsMeant == got[1] = got[2]
=============================================================================
