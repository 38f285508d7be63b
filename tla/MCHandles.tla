----------------------------- MODULE MCHandles -----------------------------
(***************************************************************************)
(* Wrappers, on small instances: the life cycle of Handles, or the copies  *)
(* of one Event and the callbacks that they share.                         *)
(*                                                                         *)
(* Three wrappers (a target, a source, and a third party that copies or    *)
(* destroys in between), two counted objects to assign to each other, and  *)
(* a device whose retain and release do nothing.  Two Events, and two      *)
(* callbacks, so that one vector can hold both, the second of them set in  *)
(* time or late.  Neither part knows of the other: one moves while the     *)
(* other rests.                                                            *)
(***************************************************************************)
EXTENDS Handles, EventCallbacks

CONSTANTS w1, w2, w3, buffer, program, device11, e1, e2, c1, c2,
          Parts           \* which of the two may move

VARIABLE part

MCWrappers == {w1, w2, w3}
MCObjects == {buffer, program, device11}
MCCounted == {buffer, program}
MCEvents == {e1, e2}
Two == {c1, c2}

\* An Event that rests is in one of its initial states.
EventRests == EventInit /\ holders = {e1} /\ ~user

MCInit ==
  /\ part \in Parts
  /\ Init
  /\ \/ part = "handles" /\ EventRests
     \/ part = "event" /\ EventInit

\* The host has dropped its Events: nothing can be done to them any more.
EventOver == holders = {} /\ UNCHANGED eventVars

MCNext ==
  /\ part' = part
  /\ \/ part = "handles" /\ Next /\ UNCHANGED eventVars
     \/ part = "event" /\ (EventNext \/ EventOver) /\ UNCHANGED vars

MCVars == <<part, vars, eventVars>>

\* The fairness of EventCallbacks, for the steps of the Event.
MCFairness ==
  /\ WF_MCVars(part = "event" /\ Progress /\ UNCHANGED <<part, vars>>)
  /\ WF_MCVars(part = "event" /\ RunCallbacks /\ UNCHANGED <<part, vars>>)

MCSpec == MCInit /\ [][MCNext]_MCVars /\ MCFairness
=============================================================================
