---------------------------- MODULE BuildPromise ----------------------------
(***************************************************************************)
(* What Program promises the caller of build and build_with_event          *)
(* (program.hpp, "BUILDING EXECUTABLES"): builds of one program follow     *)
(* each other, a call is refused or its outcome is reported exactly once,  *)
(* and a kernel can be created as soon as an event says that its build     *)
(* succeeded.  No callback, block, device or thread appears here.          *)
(***************************************************************************)
EXTENDS Naturals

CONSTANT MaxBuilds      \* how many builds are asked for

Builds == 1 .. MaxBuilds

VARIABLES phase,        \* how far each build is
          kernel        \* how the last create_kernel(name, event) went

vars == <<phase, kernel>>

Pending == {b \in Builds : phase[b] = "pending"}

Init ==
  /\ phase = [b \in Builds |-> "none"]
  /\ kernel = "none"

Submit(b) ==
  /\ phase[b] = "none"
  /\ Pending = {}
  /\ phase' = [phase EXCEPT ![b] = "pending"]
  /\ UNCHANGED kernel

\* The call throws.
Refuse(b) ==
  /\ phase[b] \in {"none", "pending"}
  /\ phase' = [phase EXCEPT ![b] = "refused"]
  /\ UNCHANGED kernel

\* "over" when no event reports the outcome.
Settle(b) ==
  /\ phase[b] = "pending"
  /\ \E outcome \in {"complete", "failed", "over"} :
       phase' = [phase EXCEPT ![b] = outcome]
  /\ UNCHANGED kernel

\* Only of a program that nothing is rebuilding.
CreateKernel(b) ==
  /\ Pending = {}
  /\ phase[b] \in {"complete", "failed"}
  /\ kernel' = IF phase[b] = "complete" THEN "created" ELSE "build_failed"
  /\ UNCHANGED phase

Next == \E b \in Builds : Submit(b) \/ Refuse(b) \/ Settle(b) \/ CreateKernel(b)

Spec == Init /\ [][Next]_vars
=============================================================================
