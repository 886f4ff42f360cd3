------------------------------- MODULE MCSwap -------------------------------
(***************************************************************************)
(* Swap on three small machines: one process whose pages are swapped out   *)
(* and in (solo); the machine as built, whose swap slots are never set up  *)
(* (built); and two processes that evict each other's pages (all).  sbrk   *)
(* is given whole pages.  And the buffer cache that the pages go through   *)
(* on their way to the disk and back (cache).                              *)
(***************************************************************************)
EXTENDS BufferCache

CONSTANTS GrowArgs, Wild, NPages0, Alpha, Beta, Limit, RssMod   \* as in Swap

VARIABLES
  part,   \* which part of the system this behaviour is about
  state, dir, sz, rss, cr3, pt, root, free, mem, isfree, perm, slots,
  threshold, npages, call, ev, want

Solo == INSTANCE Swap WITH
  NPROC <- 1, MaxPages <- 4, NFRAME <- 3, NSLOT <- 2, SwapReady <- TRUE,
  Calls <- {"sbrk"}, ShrinkArgs <- {}, ExecPages <- 1, Stored <- {0, 1},
  MaxTries <- 8, Threshold0 <- 12,
  disk <- slots
Built == INSTANCE Swap WITH
  NPROC <- 2, MaxPages <- 3, NFRAME <- 6, NSLOT <- 1, SwapReady <- FALSE,
  Calls <- {"sbrk", "fork", "exec", "exit"}, ShrinkArgs <- {2},
  ExecPages <- 1, Stored <- {}, MaxTries <- 1, Threshold0 <- 1,
  disk <- slots
All == INSTANCE Swap WITH
  NPROC <- 2, MaxPages <- 2, NFRAME <- 3, NSLOT <- 2, SwapReady <- TRUE,
  Calls <- {"sbrk", "fork", "exit"}, ShrinkArgs <- {2}, ExecPages <- 0,
  Stored <- {0}, MaxTries <- 1, Threshold0 <- 1,
  disk <- slots

ASSUME InstanceAssumption ==
  /\ CacheAssumption
  /\ Solo!SwapAssumption /\ Built!SwapAssumption /\ All!SwapAssumption

swapVars == <<state, dir, sz, rss, cr3, pt, root, free, mem, isfree, perm,
              slots, threshold, npages, call, ev, want>>
allVars == <<part, cacheVars, swapVars>>

\* The cache while another part runs, and the other way round.
CacheAtRest ==
  CacheInit /\ data = [b \in Bufs |-> 0] /\ disk = [k \in Blocks |-> 0]
SwapIdle ==
  /\ state = 0 /\ dir = 0 /\ sz = 0 /\ rss = 0 /\ cr3 = 0 /\ pt = 0
  /\ root = 0 /\ free = 0 /\ mem = 0 /\ isfree = 0 /\ perm = 0 /\ slots = 0
  /\ threshold = 0 /\ npages = 0 /\ call = 0 /\ ev = 0 /\ want = 0

Init ==
  \/ /\ part = "solo" /\ Solo!Init /\ CacheAtRest
  \/ /\ part = "built" /\ Built!Init /\ CacheAtRest
  \/ /\ part = "all" /\ All!Init /\ CacheAtRest
  \/ /\ part = "cache" /\ CacheInit /\ SwapIdle

Next ==
  \/ part = "solo" /\ Solo!Next /\ UNCHANGED <<part, cacheVars>>
  \/ part = "built" /\ Built!Next /\ UNCHANGED <<part, cacheVars>>
  \/ part = "all" /\ All!Next /\ UNCHANGED <<part, cacheVars>>
  \/ part = "cache" /\ CacheNext /\ UNCHANGED <<part, swapVars>>
  \/ part \in {"solo", "built", "all"} /\ UNCHANGED allVars   \* these may stop

Spec == Init /\ [][Next]_allVars

-----------------------------------------------------------------------------
(* A page of a lone process holds what was last stored in it, through any  *)
(* evictions (swappageout) and page faults (swappage_in).                  *)
Contents == part = "solo" => Solo!Contents

(* kalloc's frames are conserved, through swapping and through failed      *)
(* calls of sbrk, fork and exec.                                           *)
FramesOwned ==
  /\ part = "solo" => Solo!FramesOwned
  /\ part = "built" => Built!FramesOwned


(* rss counts the pages present when sbrk is given whole pages, as long as *)
(* nothing is swapped; with swapping it falls short by the slots that a    *)
(* failed sbrk has left without a page, and by no more.                    *)
RssExact ==
  /\ part = "solo" => Solo!RssShortBySlots
  /\ part = "built" => Built!RssExact
=============================================================================
