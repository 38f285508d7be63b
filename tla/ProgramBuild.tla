---------------------------- MODULE ProgramBuild ----------------------------
(***************************************************************************)
(* Program::build and Program::build_with_event: one host thread builds    *)
(* one OpenCL program through C++ Program objects that are copies of each  *)
(* other, while the runtime compiles and then calls raw_callback in a      *)
(* thread of its own.                                                      *)
(*                                                                         *)
(* The copies share a heap block, internal_callback_ptr, with room for one *)
(* build callback.  The callback of an event-based build captures a copy   *)
(* of the Program, so the block it is stored in owns itself until          *)
(* raw_callback, or the catch clause of raw_build_program, resets it.      *)
(***************************************************************************)
EXTENDS Naturals

CONSTANTS
  Devices,    \* the devices of the program's context
  Programs,   \* C++ Program objects of the host, copies of one another
  MaxBuilds,  \* bound on the calls of build and build_with_event
  None

ASSUME ProgramBuildAssumption ==
  /\ Devices # {}
  /\ MaxBuilds \in Nat \ {0}
  /\ None \notin Nat

Builds == 1 .. MaxBuilds

VARIABLES
  programs,   \* the Program objects of the host that exist
  callback,   \* the build whose callback *internal_callback_ptr holds, or None
  build,      \* what is known of each call: its kind, devices and outcome
  host,       \* where the host is in raw_build_program
  status,     \* CL_PROGRAM_BUILD_STATUS of each device
  running,    \* the build the runtime is compiling, or None
  notify,     \* the runtime thread in raw_callback
  leaving,    \* raw_callbacks past reset(), about to destroy actual_callback
  event,      \* the execution status of each build's user event
  kernel      \* how the last create_kernel(name, event) went

vars == <<programs, callback, build, host, status, running, notify, leaving,
          event, kernel>>

Unused == [kind |-> "none", devices |-> {}, outcome |-> "none"]
Idle == [at |-> "idle", b |-> None]
Away == [at |-> "idle", b |-> None, left |-> {}]

Kind(b) == build[b].kind

\* The callback of build b holds a copy of the Program (active_program_reference).
CapturesThis(b) == FALSE                                         \* mutant
CapturesProgram(b) == Kind(b) = "event"

\* The block internal_callback_ptr points to still exists.
BlockOwned ==
  \/ programs # {}
  \/ callback # None /\ CapturesProgram(callback)
  \/ notify.at \in {"calling", "called"} /\ CapturesProgram(notify.b)
  \/ \E b \in leaving : CapturesProgram(b)

Init ==
  /\ \E p \in Programs : programs = {p}
  /\ callback = None
  /\ build = [b \in Builds |-> Unused]
  /\ host = Idle
  /\ status = [d \in Devices |-> "none"]
  /\ running = None
  /\ notify = Away
  /\ leaving = {}
  /\ event = [b \in Builds |-> "unset"]
  /\ kernel = "none"

-----------------------------------------------------------------------------
(* The host thread. *)

CopyProgram(p) ==
  /\ host = Idle
  /\ programs # {}
  /\ programs' = programs \cup {p}
  /\ UNCHANGED <<callback, build, host, status, running, notify, leaving, event,
                 kernel>>

\* "Users should make sure that Program objects remain in scope during
\* asynchronous builds" (program.hpp:114), here: until raw_callback has reset the
\* callback.  Event-based builds need no such care.
Pending(b) ==
  \/ running = b
  \/ notify.b = b /\ notify.at \in {"pending", "calling", "called"}

DropProgram(p) ==
  /\ host = Idle
  /\ p \in programs
  /\ (\E b \in Builds : Kind(b) = "plain" /\ Pending(b)) => programs # {p}
  /\ programs' = programs \ {p}
  /\ UNCHANGED <<callback, build, host, status, running, notify, leaving, event,
                 kernel>>

\* raw_build_program: "raise InvalidOperation ourselves if a build is already
\* occuring".
NeverOccupied == FALSE                                           \* mutant
Occupied == callback # None

\* "if(callback)": only callbacks that are not empty are stored.
AlwaysStored(k) == TRUE                                          \* mutant
Stored(k) == k # "sync"

\* raw_build_program up to clBuildProgram; for build_with_event, after
\* make_build_event_callback has created the user event.
BuildEnter(b, k, T) ==
  /\ host = Idle
  /\ programs # {}
  /\ Kind(b) = "none" /\ (b > 1 => Kind(b - 1) # "none")
  /\ IF Occupied
       THEN /\ build' = [build EXCEPT ![b] =
                           [kind |-> k, devices |-> T, outcome |-> "rejected"]]
            /\ UNCHANGED <<callback, host>>
       ELSE /\ build' = [build EXCEPT ![b] =
                           [kind |-> k, devices |-> T, outcome |-> "called"]]
            /\ callback' = IF Stored(k) THEN b ELSE callback
            /\ host' = [at |-> "call", b |-> b]
  /\ UNCHANGED <<programs, status, running, notify, leaving, event, kernel>>

\* clBuildProgram accepts the build: unless another is in progress.
BuildStart ==
  /\ host.at = "call"
  /\ running = None
  /\ running' = host.b
  /\ status' = [d \in Devices |-> IF d \in build[host.b].devices
                                    THEN "in_progress" ELSE status[d]]
  /\ host' = [host EXCEPT !.at = "started"]
  /\ UNCHANGED <<programs, callback, build, notify, leaving, event, kernel>>

\* Mutant: the catch clause does not reset the callback.
BuildRefusedKeeps ==
  /\ host.at = "call"
  /\ build' = [build EXCEPT ![host.b].outcome = "failed"]
  /\ host' = Idle
  /\ UNCHANGED <<programs, callback, status, running, notify, leaving, event,
                 kernel>>

\* clBuildProgram refuses (bad options, attached kernels, no memory, a build in
\* progress): the catch clause resets the callback and rethrows.
BuildRefused ==
  /\ host.at = "call"
  /\ build' = [build EXCEPT ![host.b].outcome = "failed"]
  /\ callback' = None
  /\ host' = Idle
  /\ UNCHANGED <<programs, status, running, notify, leaving, event, kernel>>

\* clBuildProgram returns at once if it was given a callback, after the
\* compilation otherwise; a failed compilation is then an exception.
BuildReturn ==
  LET b == host.b
      failed == Kind(b) = "sync" /\ \E d \in build[b].devices : status[d] = "error"
  IN  /\ host.at = "started"
      /\ Kind(b) = "sync" => running = None
      /\ build' = [build EXCEPT ![b].outcome = IF failed THEN "failed" ELSE "started"]
      /\ callback' = IF failed THEN None ELSE callback
      /\ host' = Idle
      /\ UNCHANGED <<programs, status, running, notify, leaving, event, kernel>>

\* No later build has reached the runtime.
Latest(b) ==
  \A c \in b + 1 .. MaxBuilds : build[c].outcome \in {"none", "rejected"}

\* create_kernel(name, program_build_event): wait_for_events throws if the event
\* was set to an error, and clCreateKernel if a device has no executable.
CreateKernel(b) ==
  /\ host = Idle
  /\ programs # {}
  /\ build[b].outcome = "started" /\ event[b] # "unset" /\ Latest(b)
  /\ kernel' = IF event[b] = "failed" THEN "build_failed"
               ELSE IF \A d \in build[b].devices : status[d] = "success"
                 THEN "created" ELSE "no_executable"
  /\ UNCHANGED <<programs, callback, build, host, status, running, notify,
                 leaving, event>>

-----------------------------------------------------------------------------
(* The OpenCL runtime. *)

\* The compilation ends, well or badly for each device.
CompileEnd(good) ==
  LET b == running IN
  /\ b # None
  /\ notify = Away
  /\ good \subseteq build[b].devices
  /\ running' = None
  /\ status' = [d \in Devices |-> IF d \in good THEN "success"
                                  ELSE IF d \in build[b].devices THEN "error"
                                  ELSE status[d]]
  /\ notify' = IF Kind(b) = "sync" THEN Away
               ELSE [at |-> "pending", b |-> b, left |-> {}]
  /\ UNCHANGED <<programs, callback, build, host, leaving, event, kernel>>

\* raw_callback: the stored callback is copied.
NotifyCopy ==
  /\ notify.at = "pending"
  /\ BlockOwned /\ callback # None
  /\ notify' = [at |-> "calling", b |-> callback, left |-> build[callback].devices]
  /\ UNCHANGED <<programs, callback, build, host, status, running, leaving, event,
                 kernel>>

\* A user's callback runs.
NotifyUser ==
  /\ notify.at = "calling" /\ Kind(notify.b) = "plain"
  /\ notify' = [notify EXCEPT !.at = "called"]
  /\ UNCHANGED <<programs, callback, build, host, status, running, leaving, event,
                 kernel>>

\* What the lambda of make_build_event_callback does on a failed device: it sets
\* the event and returns.
FailIgnored(d) ==                                                \* mutant
  /\ event' = event
  /\ notify' = [notify EXCEPT !.left = @ \ {d}]
FailWithoutReturn(d) ==                                          \* mutant
  /\ event' = [event EXCEPT ![notify.b] = "failed"]
  /\ notify' = [notify EXCEPT !.left = @ \ {d}]
FailSilently(d) ==                                               \* mutant
  /\ event' = event
  /\ notify' = [notify EXCEPT !.at = "called"]
Fail(d) ==
  /\ event' = [event EXCEPT ![notify.b] = "failed"]
  /\ notify' = [notify EXCEPT !.at = "called"]

\* One turn of its loop: the build status of one device.
NotifyScan(d) ==
  /\ notify.at = "calling" /\ Kind(notify.b) = "event"
  /\ d \in notify.left
  /\ \/ /\ status[d] = "success"
        /\ notify' = [notify EXCEPT !.left = @ \ {d}]
        /\ event' = event
     \/ /\ status[d] = "error"
        /\ Fail(d)
     \/ /\ status[d] \notin {"success", "error"}   \* UnsupportedBuildStatus
        /\ notify' = [notify EXCEPT !.at = "threw"]
        /\ event' = event
  /\ UNCHANGED <<programs, callback, build, host, status, running, leaving, kernel>>

\* Every device went well.
NotifyComplete ==
  /\ notify.at = "calling" /\ Kind(notify.b) = "event"
  /\ notify.left = {}
  /\ event' = [event EXCEPT ![notify.b] = "complete"]
  /\ notify' = [notify EXCEPT !.at = "called"]
  /\ UNCHANGED <<programs, callback, build, host, status, running, leaving, kernel>>

\* Mutant: the callback is not destroyed after its call.
NotifyResetForgotten ==
  /\ notify.at = "called"
  /\ BlockOwned
  /\ notify' = Away
  /\ leaving' = leaving \cup {notify.b}
  /\ UNCHANGED <<programs, callback, build, host, status, running, event, kernel>>

\* callback_unique_ptr.reset().
NotifyReset ==
  /\ notify.at = "called"
  /\ BlockOwned
  /\ callback' = None
  /\ notify' = Away
  /\ leaving' = leaving \cup {notify.b}
  /\ UNCHANGED <<programs, build, host, status, running, event, kernel>>

\* raw_callback returns: its copy of the callback goes, with what it captured.
NotifyLeave(b) ==
  /\ b \in leaving
  /\ leaving' = leaving \ {b}
  /\ UNCHANGED <<programs, callback, build, host, status, running, notify, event,
                 kernel>>

-----------------------------------------------------------------------------

HostCall == BuildStart \/ BuildRefused \/ BuildReturn

Runtime ==
  \/ \E good \in SUBSET Devices : CompileEnd(good)
  \/ NotifyCopy \/ NotifyUser \/ NotifyComplete \/ NotifyReset
  \/ \E d \in Devices : NotifyScan(d)

Next ==
  \/ \E p \in Programs : CopyProgram(p) \/ DropProgram(p)
  \/ \E b \in Builds, k \in {"sync", "plain", "event"} :
       \E T \in SUBSET Devices \ {{}} : BuildEnter(b, k, T)
  \/ HostCall
  \/ \E b \in Builds : CreateKernel(b) \/ NotifyLeave(b)
  \/ Runtime

\* The runtime finishes its compilations and its callbacks, and clBuildProgram
\* returns; the host owes nothing else.
Fairness ==
  /\ WF_vars(HostCall)
  /\ WF_vars(Runtime)
  /\ \A b \in Builds : WF_vars(NotifyLeave(b))

Spec == Init /\ [][Next]_vars /\ Fairness

-----------------------------------------------------------------------------
(* Properties. *)

\* Every variable stays in its type, and only a callback that is not empty is
\* stored.
TypeOK ==
  /\ programs \subseteq Programs
  /\ callback \in Builds \cup {None}
  /\ callback # None => Kind(callback) \in {"plain", "event"}
  /\ build \in [Builds -> [kind : {"none", "sync", "plain", "event"},
                           devices : SUBSET Devices,
                           outcome : {"none", "rejected", "called", "failed",
                                      "started"}]]
  /\ host \in [at : {"idle", "call", "started"}, b : Builds \cup {None}]
  /\ status \in [Devices -> {"none", "in_progress", "error", "success"}]
  /\ running \in Builds \cup {None}
  /\ notify \in [at : {"idle", "pending", "calling", "called", "threw"},
                 b : Builds \cup {None}, left : SUBSET Devices]
  /\ leaving \subseteq Builds
  /\ event \in [Builds -> {"unset", "complete", "failed"}]
  /\ kernel \in {"none", "build_failed", "created", "no_executable"}

\* raw_callback finds the block it is given alive and a callback in it, when it
\* copies the callback (program.cpp:244) and when it resets it (program.cpp:248).
NotifyFindsBlock ==
  notify.at \in {"pending", "called"} => BlockOwned /\ callback # None

\* The build event tells the truth: complete only when every device was built,
\* failed only when one was not, until a later build starts.
EventTellsTruth ==
  \A b \in Builds :
    /\ host = Idle /\ build[b].outcome = "started"
    /\ event[b] # "unset" /\ Latest(b)
    => (event[b] = "complete" <=>
          \A d \in build[b].devices : status[d] = "success")

\* The self-owning block does not leak: once the host has dropped its Programs
\* and nothing is being built, the callback and the block are gone.
NoLeak ==
  programs = {} /\ host = Idle /\ running = None /\ notify = Away /\ leaving = {}
    => ~BlockOwned

\* A build whose outcome the caller cannot know yet: the call has not returned,
\* the runtime compiles, or the callback that reports has still to run.
Unreported(b) ==
  CASE Kind(b) = "event" -> event[b] = "unset"
    [] Kind(b) = "plain" -> \/ host = [at |-> "call", b |-> b]
                            \/ running = b
                            \/ notify.b = b /\ notify.at \in {"pending", "calling"}
    [] OTHER -> build[b].outcome = "called"

phase == [b \in Builds |->
  CASE build[b].outcome = "none" -> "none"
    [] build[b].outcome \in {"rejected", "failed"} -> "refused"
    [] OTHER -> IF Unreported(b) THEN "pending"
                ELSE IF Kind(b) = "event" THEN event[b] ELSE "over"]

Promise == INSTANCE BuildPromise

\* Building keeps BuildPromise, whatever the callbacks, the block they live in and
\* the runtime do: builds do not overlap, a build event is set once (to set it
\* again would throw out of raw_callback), and waiting for it is all it takes to
\* create a kernel.
ImplementsPromise == Promise!Spec

\* Every event that build_with_event returns is eventually set.
EventSettles ==
  \A b \in Builds :
    (Kind(b) = "event" /\ build[b].outcome = "started") ~> event[b] # "unset"

\* A stored callback eventually makes room for the next one.
CallbackFreed == (callback # None) ~> (callback = None)

\* "raise InvalidOperation ourselves if a build is already occuring"
\* (program.cpp:252): a call is rejected only while another build is compiling or
\* its outcome has still to be reported.
RejectsOnlyDuringBuild ==
  [][\A b \in Builds :
       build[b].outcome = "none" /\ build'[b].outcome = "rejected"
         => running # None \/ notify.at \in {"pending", "calling"}]_vars
=============================================================================
