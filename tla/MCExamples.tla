------------------------------ MODULE MCExamples ------------------------------
(***************************************************************************)
(* What the examples do, on small instances: a device is chosen, or one    *)
(* kernel is launched on 4 x 4 matrices and its work-items are followed,   *)
(* or one program is run, whose kernels are commands.                      *)
(***************************************************************************)
EXTENDS WorkGroups, Pipelines, Enumerations

CONSTANT Tasks     \* of Enumerations

MCInit ==
  \/ (\E k \in Launched : GroupInit(k)) /\ PipeInit("none") /\ EnumInit("none")
  \/ GroupInit("none") /\ (\E p \in Examples : PipeInit(p)) /\ EnumInit("none")
  \/ GroupInit("none") /\ PipeInit("none") /\ \E t \in Tasks : EnumInit(t)

MCNext ==
  \/ GroupNext /\ UNCHANGED <<pipeVars, enumVars>>
  \/ PipeNext /\ UNCHANGED <<groupVars, enumVars>>
  \/ EnumNext /\ UNCHANGED <<groupVars, pipeVars>>

MCVars == <<groupVars, pipeVars, enumVars>>

\* A device runs what it was given, a host thread goes on while it can, and the user
\* types on.  None of them takes infinitely many steps, so that fairness of the whole
\* is fairness of each.
MCSpec == MCInit /\ [][MCNext]_MCVars /\ WF_MCVars(MCNext)
=============================================================================
