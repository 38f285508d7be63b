----------------------------- MODULE CommandQueue -----------------------------
(***************************************************************************)
(* One CommandQueue, in order or out of order.  The host issues commands   *)
(* in the forms of the class: enqueued_X returns an Event, enqueue_X does  *)
(* the same and drops it, and X itself blocks until its data have arrived. *)
(* The runtime executes the commands it was sent when it pleases, within   *)
(* what their wait lists, the barriers and the mode of the queue allow.    *)
(*                                                                         *)
(* Commands are told apart by what the host may rely on: those that bring  *)
(* data to the host ("read"), those that take data from it ("write"),      *)
(* those that stay on the device ("device"), markers and barriers.  A call *)
(* that OpenCL refuses throws and issues nothing.                          *)
(***************************************************************************)
EXTENDS Naturals, Sequences

CONSTANTS
  MaxCommands,   \* bound on the commands issued
  MaxFailures    \* bound on the commands that fail of themselves

ASSUME CommandQueueAssumption == MaxCommands \in Nat \ {0} /\ MaxFailures \in Nat

Idle == [at |-> "idle", on |-> 0]

VARIABLES
  inOrder,    \* CL_QUEUE_OUT_OF_ORDER_EXEC_MODE_ENABLE is not set
  cmds,       \* the commands, in the order of their issue
  submitted,  \* how many of them were sent to the device
  failures,   \* how many failed of themselves
  host        \* what the host waits for, if anything

queueVars == <<inOrder, cmds, submitted, failures, host>>

\* The host shares memory with these commands: what it learns of them is recorded.
Shared(i) == cmds[i].op \in {"read", "write"}

Settled(i) == cmds[i].status \in {"complete", "failed"}

QueueInit ==
  /\ inOrder \in BOOLEAN
  /\ cmds = <<>>
  /\ submitted = 0 /\ failures = 0
  /\ host = Idle

-----------------------------------------------------------------------------
(* The host issues a command. *)

\* The event_wait_list as OpenCL receives it: (0, nullptr) for an empty one, else
\* every identifier of the vector.
WaitListShort(waits) == {e \in waits : \E f \in waits : f > e}   \* mutant
WaitList(waits) == waits

\* The cl_bool passed to OpenCL: synchronous_read, synchronous_map and
\* wait_for_availability.
NeverBlocking(sync, available) == FALSE                          \* mutant
Blocking(sync, available) == sync \/ available

\* The raw_X member functions.  source tells where the data of a write are: still
\* with the host, there but modified since, or taken in either condition.
Enqueue(op, sync, available, waits) ==
  LET i == Len(cmds) + 1
      blocks == Blocking(sync, available)
  IN  /\ host = Idle
      /\ i <= MaxCommands
      /\ cmds' = Append(cmds,
           [op |-> op, available |-> available, asked |-> waits,
            waits |-> WaitList(waits), status |-> "queued",
            source |-> IF op = "write" THEN "host" ELSE "none",
            known |-> IF sync /\ ~blocks THEN "success" ELSE "nothing"])
      /\ host' = IF blocks THEN [at |-> "call", on |-> i] ELSE Idle
      /\ submitted' = IF blocks THEN i ELSE submitted
      /\ UNCHANGED <<inOrder, failures>>

Reading(waits) == \E sync \in BOOLEAN : Enqueue("read", sync, FALSE, waits)

ReadBuffer(waits) == Reading(waits)
MapBuffer(waits) == Reading(waits)     \* to use the pointer is to read the data
ReadImage(waits) == Reading(waits)

WriteBuffer(waits) ==
  \E available \in BOOLEAN : Enqueue("write", FALSE, available, waits)

CopyBuffer(waits) == Enqueue("device", FALSE, FALSE, waits)
FillBuffer(waits) == Enqueue("device", FALSE, FALSE, waits)
UnmapMemObject(waits) == Enqueue("device", FALSE, FALSE, waits)
MigrateMemObjects(waits) == Enqueue("device", FALSE, FALSE, waits)
RangeKernel(waits) == Enqueue("device", FALSE, FALSE, waits)
Task(waits) == Enqueue("device", FALSE, FALSE, waits)
Marker(waits) == Enqueue("marker", FALSE, FALSE, waits)
Barrier(waits) == Enqueue("barrier", FALSE, FALSE, waits)

-----------------------------------------------------------------------------
(* The host waits. *)

\* flush().  A runtime that submits without being asked adds no behaviour.
Flush ==
  /\ host = Idle
  /\ submitted' = Len(cmds)
  /\ UNCHANGED <<inOrder, cmds, failures, host>>

\* finish(), and wait_for_events on the event of a command, submit and block.
Finish ==
  /\ host = Idle
  /\ cmds # <<>>
  /\ host' = [at |-> "finish", on |-> Len(cmds)]
  /\ submitted' = Len(cmds)
  /\ UNCHANGED <<inOrder, cmds, failures>>

WaitForEvent(i) ==
  /\ host = Idle
  /\ Shared(i) /\ cmds[i].known = "nothing"
  /\ host' = [at |-> "call", on |-> i]
  /\ submitted' = Len(cmds)
  /\ UNCHANGED <<inOrder, cmds, failures>>

\* The host knows that command i has ended, and whether it went well.
Learn(i, what) ==
  /\ cmds' = [cmds EXCEPT ![i].known = what]
  /\ host' = Idle
  /\ UNCHANGED <<inOrder, submitted, failures>>

\* A blocking call returns, or throws: throw_if_failed reports a failed command.
NeverThrow(i) == Settled(i) /\ Learn(i, "success")               \* mutant
ReturnOrThrow(i) ==
  \/ cmds[i].status = "complete" /\ Learn(i, "success")
  \/ cmds[i].status = "failed" /\ Learn(i, "end")

ReturnFromCall == host.at = "call" /\ ReturnOrThrow(host.on)

\* A write returns once its source may be modified again, in flight or not.
ReturnFromWrite ==
  /\ host.at = "call"
  /\ cmds[host.on].available /\ cmds[host.on].source \in {"taken", "corrupt"}
  /\ host' = Idle
  /\ UNCHANGED <<inOrder, cmds, submitted, failures>>

\* finish() tells that commands have ended, not how.
Ends == [i \in DOMAIN cmds |->
           IF Shared(i) /\ cmds[i].known = "nothing" THEN [cmds[i] EXCEPT !.known = "end"]
           ELSE cmds[i]]

ReturnFromFinishOnSuccess ==                                     \* mutant
  /\ host.at = "finish"
  /\ \A i \in 1 .. host.on : cmds[i].status = "complete"
  /\ cmds' = Ends
  /\ host' = Idle
  /\ UNCHANGED <<inOrder, submitted, failures>>
ReturnFromFinish ==
  /\ host.at = "finish"
  /\ \A i \in 1 .. host.on : Settled(i)
  /\ cmds' = Ends
  /\ host' = Idle
  /\ UNCHANGED <<inOrder, submitted, failures>>

\* The host modifies the source of its writes when it may: each has ended, or was
\* issued with wait_for_availability and has returned.
ModifySource ==
  LET writes == {i \in DOMAIN cmds : cmds[i].op = "write"} IN
  /\ host = Idle
  /\ \A i \in writes : cmds[i].available \/ cmds[i].known # "nothing"
  /\ cmds' = [i \in DOMAIN cmds |->
                IF cmds[i].source = "host" THEN [cmds[i] EXCEPT !.source = "modified"]
                ELSE cmds[i]]
  /\ UNCHANGED <<inOrder, submitted, failures, host>>

-----------------------------------------------------------------------------
(* The runtime. *)

\* It takes the source of a write when it pleases.
TakeSource(i) ==
  /\ cmds[i].source \in {"host", "modified"}
  /\ cmds' = [cmds EXCEPT ![i].source = IF @ = "host" THEN "taken" ELSE "corrupt"]
  /\ UNCHANGED <<inOrder, submitted, failures, host>>

\* What must be settled before command i executes.
Before(i) ==
  LET earlier == 1 .. i - 1
      all == inOrder \/ (cmds[i].op \in {"marker", "barrier"} /\ cmds[i].waits = {})
  IN  cmds[i].waits \cup {e \in earlier : all \/ cmds[e].op = "barrier"}

\* A command executes, well or badly; it fails if one it waits for failed.
Execute(i) ==
  LET spoilt == \E e \in cmds[i].waits : cmds[e].status = "failed" IN
  /\ i <= submitted
  /\ cmds[i].status = "queued"
  /\ cmds[i].source \notin {"host", "modified"}
  /\ \A e \in Before(i) : Settled(e)
  /\ \/ /\ ~spoilt
        /\ cmds' = [cmds EXCEPT ![i].status = "complete"]
        /\ failures' = failures
     \/ /\ ~spoilt /\ failures < MaxFailures
        /\ cmds' = [cmds EXCEPT ![i].status = "failed"]
        /\ failures' = failures + 1
     \/ /\ spoilt
        /\ cmds' = [cmds EXCEPT ![i].status = "failed"]
        /\ failures' = failures
  /\ UNCHANGED <<inOrder, submitted, host>>

-----------------------------------------------------------------------------

Issue(waits) ==
  \/ ReadBuffer(waits) \/ MapBuffer(waits) \/ ReadImage(waits)
  \/ WriteBuffer(waits)
  \/ CopyBuffer(waits) \/ FillBuffer(waits) \/ UnmapMemObject(waits)
  \/ MigrateMemObjects(waits) \/ RangeKernel(waits) \/ Task(waits)
  \/ Marker(waits) \/ Barrier(waits)

Return == ReturnFromCall \/ ReturnFromWrite \/ ReturnFromFinish

Run == \E i \in DOMAIN cmds : TakeSource(i) \/ Execute(i)

QueueNext ==
  \/ \E waits \in SUBSET DOMAIN cmds : Issue(waits)
  \/ Flush \/ Finish \/ Return \/ ModifySource
  \/ \E i \in DOMAIN cmds : WaitForEvent(i)
  \/ Run

\* The runtime executes what was sent to the device, and calls return when they
\* can; the host owes nothing, not even a flush().
QueueFairness == WF_queueVars(Run) /\ WF_queueVars(Return)

QueueSpec == QueueInit /\ [][QueueNext]_queueVars /\ QueueFairness

-----------------------------------------------------------------------------
(* Properties. *)

\* What the host relies on when it relies on command i: the events it gave for it, those
\* it gave for them, and so on.
Upstream(i) ==
  {e \in DOMAIN cmds :
     \A C \in SUBSET DOMAIN cmds : i \in C /\ (\A k \in C : cmds[k].asked \subseteq C) => e \in C}

\* One wait, at the end of a chain of commands, is enough: when the host knows of a command
\* that it went well, all that goes before it along the wait lists went well, to the first
\* link, and when it knows that it has ended, all of that has (command_queue.cpp:491): each
\* enqueued_X passes its whole wait list on, X blocks, and a failure is thrown.
DataArrived ==
  \A i \in DOMAIN cmds : \A e \in Upstream(i) :
    /\ cmds[i].known # "nothing" => Settled(e)
    /\ cmds[i].known = "success" => cmds[e].status = "complete"

\* A write delivers the data its source held at the call, even if the host goes on
\* to modify the source as soon as wait_for_availability promised that it could
\* (command_queue.hpp:116).
SourceIntact == \A i \in DOMAIN cmds : cmds[i].source # "corrupt"

\* No command succeeds before all the events of its caller's wait list have; and a
\* barrier splits the commands, even in a queue that is out of order: those issued
\* after it, and itself, end only after what it waits for, which is all that was
\* issued before it if its wait list is empty (command_queue.hpp:356 and 360).
BarrierSplits ==
  /\ \A i \in DOMAIN cmds :
       cmds[i].status = "complete" =>
         \A e \in cmds[i].asked : cmds[e].status = "complete"
  /\ \A b, k \in DOMAIN cmds :
       cmds[b].op = "barrier" /\ b <= k /\ Settled(k) =>
         \A e \in (IF cmds[b].asked = {} THEN 1 .. b - 1 ELSE cmds[b].asked) : Settled(e)

\* Every blocking call returns: read_X, map_X, write_X, finish and wait.
BlockedReturns == (host.at # "idle") ~> (host.at = "idle")
=============================================================================
