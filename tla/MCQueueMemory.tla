--------------------------- MODULE MCQueueMemory ---------------------------
(***************************************************************************)
(* What the runtime does in a thread of its own, on small instances: the   *)
(* commands of CommandQueue, or the destruction of memory objects and of   *)
(* the lists of callbacks of MemoryCallbacks.                              *)
(*                                                                         *)
(* Three commands, so that a barrier or a dependency may have commands     *)
(* before and after it, in order or out of order, one of which may fail.   *)
(* Two wrappers that can name one memory object or two, wrapped twice,     *)
(* and three callbacks.  Neither part knows of the other: one moves while  *)
(* the other rests.                                                        *)
(***************************************************************************)
EXTENDS CommandQueue, MemoryCallbacks

CONSTANTS m1, m2, l1, l2, c1, c2, c3,
          Parts           \* which of the two may move

VARIABLE part

MCWrappers == {m1, m2}
MCLists == {l1, l2}
Three == {c1, c2, c3}

\* A queue that rests is empty: that it is in order or not makes no difference.
MCInit ==
  /\ part \in Parts
  /\ QueueInit
  /\ Init
  /\ part = "memory" => inOrder

MCNext ==
  /\ part' = part
  /\ \/ part = "queue" /\ QueueNext /\ UNCHANGED vars
     \/ part = "memory" /\ Next /\ UNCHANGED queueVars

MCVars == <<part, queueVars, vars>>

\* The fairness of CommandQueue, for the steps of the queue.
MCFairness ==
  /\ WF_MCVars(part = "queue" /\ Run /\ UNCHANGED <<part, vars>>)
  /\ WF_MCVars(part = "queue" /\ Return /\ UNCHANGED <<part, vars>>)

MCSpec == MCInit /\ [][MCNext]_MCVars /\ MCFairness
=============================================================================
