------------------------- MODULE CheckpointContract -------------------------
(***************************************************************************)
(* What the runtime promises about the checkpoint store, whatever the lane *)
(* that executes the pipeline: the source positions are 1..N, `ckpt` is    *)
(* the position saved in the store (0: nothing saved), `handled` the       *)
(* positions that reached a terminal outcome (written, dropped, routed to  *)
(* the DLQ, or given up under the active policy).  Handling is never       *)
(* undone, and the store only ever holds a position below which everything *)
(* is handled.  A crash or a restart is a stuttering step here.            *)
(***************************************************************************)
EXTENDS Integers

CONSTANT N
VARIABLES handled, ckpt

vars == <<handled, ckpt>>

Init == handled = {} /\ ckpt = 0

\* Some positions reach a terminal outcome.
Handle == /\ handled' \in SUBSET (1..N)
          /\ handled \subseteq handled'
          /\ UNCHANGED ckpt

\* The store is given a new position.
Save == /\ ckpt' \in 0..N
        /\ 1..ckpt' \subseteq handled
        /\ UNCHANGED handled

Next == Handle \/ Save

Spec == Init /\ [][Next]_vars
=============================================================================
