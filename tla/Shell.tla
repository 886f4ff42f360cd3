-------------------------------- MODULE Shell -------------------------------
(***************************************************************************)
(* How sh.c runs a command: the forks, pipes, redirections and waits of    *)
(* runcmd, the shell's main loop around it, and init (init.c), which       *)
(* inherits what is left.  A process is named by the command node at which *)
(* it was forked; the pipe of a PIPE command by that command's node.       *)
(*                                                                         *)
(* The programs that are run are of four kinds: "cat" copies its input     *)
(* until end of file or until a write fails, "yes" writes until a write    *)
(* fails (to the console or a file it ends by itself), "true" ends at once *)
(* and "fail" is not found.  A write to a pipe fails once no process has   *)
(* its read end; a read is at end of file once none has its write end.     *)
(***************************************************************************)
EXTENDS Integers, FiniteSets

CONSTANTS
    Commands,   \* the command trees that may be typed
    Nodes,      \* the node numbers in them
    Failures    \* which calls may fail: a subset of {"fork", "open", "pipe"}

VARIABLES
    state,      \* of each process: "none", "run", "prog", "zombie" or "gone"
    parent,     \* the shell, init or a process
    cmd,        \* the command the process is to run, or runs
    at,         \* where it is in runcmd
    in, out,    \* its descriptors 0 and 1
    held,       \* the ends of pipes it holds in other descriptors
    line, sh    \* the shell: the line it read, and where its loop is

shell == <<line, sh>>
vars == <<state, parent, cmd, at, in, out, held, shell>>

INIT == 0 - 1
SH == 0

Rd(n) == <<"r", n>>
Wr(n) == <<"w", n>>
Console == <<"con", 0>>
File == <<"file", 0>>

Alive(n) == state[n] \in {"run", "prog"}
Ends(n) == {in[n], out[n]} \cup held[n]
NoReader(d) == d[1] = "w" /\ \A m \in Nodes : Alive(m) => Rd(d[2]) \notin Ends(m)
NoWriter(d) == d[1] = "r" /\ \A m \in Nodes : Alive(m) => Wr(d[2]) \notin Ends(m)

Init ==
    /\ state = [n \in Nodes |-> "none"] /\ parent = [n \in Nodes |-> INIT]
    /\ cmd = [n \in Nodes |-> [type |-> "none"]] /\ at = [n \in Nodes |-> "start"]
    /\ in = [n \in Nodes |-> Console] /\ out = [n \in Nodes |-> Console]
    /\ held = [n \in Nodes |-> {}]
    /\ sh = "prompt" /\ line = [type |-> "none"]

Children(p) == {m \in Nodes : parent[m] = p /\ state[m] # "gone"}

Runs(n, type) == state[n] = "run" /\ at[n] = "start" /\ cmd[n].type = type
Goto(n, l) == at' = [at EXCEPT ![n] = l]

\* exit: every descriptor is closed and the children pass to init.
exit(n, newstate) ==
    /\ state' = [m \in Nodes |->
                    IF m = n THEN newstate
                    ELSE IF parent[m] = n /\ state[m] = "zombie" THEN "gone"
                    ELSE state[m]]
    /\ parent' = [m \in Nodes |-> IF parent[m] = n THEN INIT ELSE parent[m]]

\* A zombie that init inherits, or is left, is reaped by its loop.
Ended(n) == IF parent[n] = INIT THEN "gone" ELSE "zombie"

Exits(n) == exit(n, Ended(n)) /\ UNCHANGED <<cmd, at, in, out, held, shell>>

\* fork1: the child c of n runs command k with n's descriptors.
Forked(n, k) ==
    /\ state' = [state EXCEPT ![k.n] = "run"]
    /\ parent' = [parent EXCEPT ![k.n] = n]
    /\ cmd' = [cmd EXCEPT ![k.n] = k]
    /\ in' = [in EXCEPT ![k.n] = in[n]]
    /\ out' = [out EXCEPT ![k.n] = out[n]]
    /\ held' = [held EXCEPT ![k.n] = held[n]]

\* fork1 fails and panics, which is exit.
ForkFails(n) == "fork" \in Failures /\ Exits(n)

----------------------------------------------------------------------------
(* runcmd *)

\* No word, a name that is not found, or a program.
Exec(n) ==
    /\ Runs(n, "EXEC")
    /\ IF cmd[n].prog \in {"", "fail"} THEN Exits(n)
       ELSE /\ state' = [state EXCEPT ![n] = "prog"]
            /\ UNCHANGED <<parent, cmd, at, in, out, held, shell>>

Redir(n) ==
    /\ Runs(n, "REDIR")
    /\ \/ /\ IF cmd[n].fd = 0
             THEN in' = [in EXCEPT ![n] = File] /\ UNCHANGED out
             ELSE out' = [out EXCEPT ![n] = File] /\ UNCHANGED in
          /\ cmd' = [cmd EXCEPT ![n] = cmd[n].cmd]
          /\ UNCHANGED <<state, parent, at, held, shell>>
       \/ "open" \in Failures /\ Exits(n)

ListFork(n) ==
    /\ Runs(n, "LIST")
    /\ \/ Forked(n, cmd[n].left) /\ Goto(n, "listwait") /\ UNCHANGED shell
       \/ ForkFails(n)

\* The right side starts without waiting for the left one.
ListWaitNot(n) ==
    /\ at[n] = "listwait" /\ Goto(n, "start")
    /\ cmd' = [cmd EXCEPT ![n] = cmd[n].right]
    /\ UNCHANGED <<state, parent, in, out, held, shell>>

\* wait() returns; then runcmd(lcmd->right) in the same process.
ListWait(n) ==
    /\ at[n] = "listwait" /\ state[n] = "run"
    /\ \E m \in Children(n) :
          state[m] = "zombie" /\ state' = [state EXCEPT ![m] = "gone"]
    /\ Goto(n, "start")
    /\ cmd' = [cmd EXCEPT ![n] = cmd[n].right]
    /\ UNCHANGED <<parent, in, out, held, shell>>

Pipe(n) ==
    /\ Runs(n, "PIPE")
    /\ \/ /\ held' = [held EXCEPT ![n] = @ \cup {Rd(cmd[n].n), Wr(cmd[n].n)}]
          /\ Goto(n, "left")
          /\ UNCHANGED <<state, parent, cmd, in, out, shell>>
       \/ "pipe" \in Failures /\ Exits(n)

\* The child starts at its own close and dup calls.
PipeFork(n, side, k, dup, next) ==
    /\ state[n] = "run" /\ at[n] = side
    /\ \/ /\ Forked(n, k)
          /\ at' = [at EXCEPT ![n] = next, ![k.n] = dup]
          /\ UNCHANGED shell
       \/ ForkFails(n)

PipeForks(n) ==
    /\ cmd[n].type = "PIPE"
    /\ \/ PipeFork(n, "left", cmd[n].left, "leftdup", "right")
       \/ PipeFork(n, "right", cmd[n].right, "rightdup", "close")

\* The left child keeps the read end of the pipe.
LeftDupKeeps(n) ==
    /\ state[n] = "run" /\ at[n] = "leftdup"
    /\ \E p \in Nodes :
          /\ {Rd(p), Wr(p)} \subseteq held[n]
          /\ out' = [out EXCEPT ![n] = Wr(p)]
          /\ held' = [held EXCEPT ![n] = @ \ {Wr(p)}]
    /\ Goto(n, "start")
    /\ UNCHANGED <<state, parent, cmd, in, shell>>

\* close(1); dup(p[1]); close(p[0]); close(p[1])
LeftDup(n) ==
    /\ state[n] = "run" /\ at[n] = "leftdup"
    /\ \E p \in Nodes :
          /\ {Rd(p), Wr(p)} \subseteq held[n]
          /\ out' = [out EXCEPT ![n] = Wr(p)]
          /\ held' = [held EXCEPT ![n] = @ \ {Rd(p), Wr(p)}]
    /\ Goto(n, "start")
    /\ UNCHANGED <<state, parent, cmd, in, shell>>

RightDup(n) ==
    /\ state[n] = "run" /\ at[n] = "rightdup"
    /\ \E p \in Nodes :
          /\ {Rd(p), Wr(p)} \subseteq held[n]
          /\ in' = [in EXCEPT ![n] = Rd(p)]
          /\ held' = [held EXCEPT ![n] = @ \ {Rd(p), Wr(p)}]
    /\ Goto(n, "start")
    /\ UNCHANGED <<state, parent, cmd, out, shell>>

\* The process of the pipe keeps its write end.
PipeCloseKeeps(n) ==
    /\ state[n] = "run" /\ at[n] = "close"
    /\ held' = [held EXCEPT ![n] = @ \ {Rd(cmd[n].n)}]
    /\ Goto(n, "wait1")
    /\ UNCHANGED <<state, parent, cmd, in, out, shell>>

PipeClose(n) ==
    /\ state[n] = "run" /\ at[n] = "close"
    /\ held' = [held EXCEPT ![n] = @ \ {Rd(cmd[n].n), Wr(cmd[n].n)}]
    /\ Goto(n, "wait1")
    /\ UNCHANGED <<state, parent, cmd, in, out, shell>>

\* A single wait() for the two children.
PipeWaitsOnce == [wait1 |-> "end"]

PipeWaits == [wait1 |-> "wait2", wait2 |-> "end"]

PipeWait(n) ==
    /\ state[n] = "run" /\ at[n] \in DOMAIN PipeWaits
    /\ \E m \in Children(n) :
          state[m] = "zombie" /\ state' = [state EXCEPT ![m] = "gone"]
    /\ Goto(n, PipeWaits[at[n]])
    /\ UNCHANGED <<parent, cmd, in, out, held, shell>>

End(n) == state[n] = "run" /\ at[n] = "end" /\ Exits(n)

Back(n) ==
    /\ Runs(n, "BACK")
    /\ \/ Forked(n, cmd[n].cmd) /\ Goto(n, "end") /\ UNCHANGED shell
       \/ ForkFails(n)

----------------------------------------------------------------------------
(* The programs, and the shell *)

Program(n) ==
    /\ state[n] = "prog"
    /\ CASE cmd[n].prog = "cat" -> in[n][1] # "r" \/ NoWriter(in[n]) \/ NoReader(out[n])
         [] cmd[n].prog = "yes" -> out[n][1] # "w" \/ NoReader(out[n])
         [] OTHER               -> TRUE
    /\ Exits(n)

\* main: a line is read and a child forked to run it.  When fork1 fails it
\* is the shell itself that panics, which is exit.
ShellForks ==
    /\ sh = "prompt"
    /\ \/ /\ \E k \in Commands :
                /\ state' = [state EXCEPT ![k.n] = "run"]
                /\ parent' = [parent EXCEPT ![k.n] = SH]
                /\ cmd' = [cmd EXCEPT ![k.n] = k]
                /\ line' = k
          /\ sh' = "wait"
       \/ "fork" \in Failures /\ sh' = "exited" /\ UNCHANGED <<state, parent, cmd, line>>
    /\ UNCHANGED <<at, in, out, held>>

\* init waits for the shell and starts another; without a process for it
\* init exits, and the kernel panics.
InitStartsShell ==
    /\ sh = "exited"
    /\ \/ sh' = "prompt"
       \/ "fork" \in Failures /\ sh' = "init exiting"
    /\ UNCHANGED <<state, parent, cmd, at, in, out, held, line>>

ShellWaits ==
    /\ sh = "wait"
    /\ \E m \in Children(SH) :
          state[m] = "zombie" /\ state' = [state EXCEPT ![m] = "gone"]
    /\ sh' = "again"
    /\ UNCHANGED <<parent, cmd, at, in, out, held, line>>

runcmd(n) ==
    \/ Exec(n) \/ Redir(n) \/ ListFork(n) \/ ListWait(n) \/ Back(n)
    \/ Pipe(n) \/ PipeForks(n) \/ LeftDup(n) \/ RightDup(n)
    \/ PipeClose(n) \/ PipeWait(n) \/ End(n) \/ Program(n)

Next == (\E n \in Nodes : runcmd(n)) \/ ShellForks \/ ShellWaits \/ InitStartsShell

Spec == Init /\ [][Next]_vars

\* Every process runs; a program goes on as soon as its reads and writes let
\* it.
FairSpec ==
    Spec /\ WF_vars(ShellWaits) /\ \A n \in Nodes : WF_vars(runcmd(n))

----------------------------------------------------------------------------
(* Properties *)

\* The nodes that run in the background: below a BACK command.
RECURSIVE Below(_)
Below(k) ==
    {k.n} \cup
    CASE k.type \in {"LIST", "PIPE"}  -> Below(k.left) \cup Below(k.right)
      [] k.type \in {"REDIR", "BACK"} -> Below(k.cmd)
      [] OTHER                        -> {}

RECURSIVE Background(_)
Background(k) ==
    CASE k.type \in {"LIST", "PIPE"} -> Background(k.left) \cup Background(k.right)
      [] k.type = "REDIR"            -> Background(k.cmd)
      [] k.type = "BACK"             -> Below(k.cmd)
      [] OTHER                       -> {}

\* When the shell prompts again every process of the command has ended,
\* except the ones put in the background.
PromptAfterAll ==
    sh = "again" => \A n \in Nodes : Alive(n) => n \in Background(line)

\* A program holds no end of a pipe but its input and its output: neither
\* end stays open in a process that will not use it.
EndsPrivate == \A n \in Nodes : state[n] = "prog" => held[n] = {}

\* The left side of a LIST has ended before its right side runs.
ListInOrder ==
    \A n \in Nodes : state[n] = "prog" /\ cmd[n].n # n =>
        \A m \in Nodes : parent[m] = n => state[m] = "gone"

\* The shell comes back, also when a stage ends early or a call fails: every
\* other stage sees the end of file or the failed write that stops it.
CommandEnds == sh = "wait" ~> sh = "again"
=============================================================================
