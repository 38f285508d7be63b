------------------------- MODULE CommandQueueProofs -------------------------
(***************************************************************************)
(* Proofs about CommandQueue, for any number of commands and failures, in  *)
(* order or out of order: what the host learns is true of the whole chain  *)
(* behind a command, writes deliver the data of their calls, barriers      *)
(* split the commands and no command outruns what it waits for.  The inductive invariant says of every pair  *)
(* of commands what Execute checks of one, and of the source of a write    *)
(* that the host has no chance to modify it before the runtime takes it.   *)
(***************************************************************************)
EXTENDS CommandQueue, SequenceTheorems, TLAPS

Commands == [op : {"read", "write", "device", "marker", "barrier"},
             available : BOOLEAN, asked : SUBSET Nat, waits : SUBSET Nat,
             status : {"queued", "complete", "failed"},
             source : {"none", "host", "modified", "taken", "corrupt"},
             known : {"nothing", "end", "success"}]

TypeOK ==
  /\ inOrder \in BOOLEAN
  /\ cmds \in Seq(Commands)
  /\ submitted \in 0 .. Len(cmds)
  /\ failures \in Nat
  /\ host \in [at : {"idle", "call", "finish"}, on : Nat]

\* The host waits for a command there is, finish() for the last one.
HostAgrees ==
  /\ host.at = "idle" => host.on = 0
  /\ host.at = "call" => host.on \in DOMAIN cmds
  /\ host.at = "finish" => host.on = Len(cmds)

\* Wait lists name earlier commands, and OpenCL receives them whole.
WaitsEarlier ==
  \A i \in DOMAIN cmds : cmds[i].asked \subseteq 1 .. i - 1 /\ cmds[i].waits = cmds[i].asked

\* The source of a write is with the host, unmodified, or taken.  While it is with
\* the host, the command has not ended; and the call has not returned if it is to
\* return when the source is free.
Sources ==
  \A i \in DOMAIN cmds :
    /\ cmds[i].source \in {"none", "host", "taken"}
    /\ cmds[i].source = "host" =>
         /\ cmds[i].op = "write" /\ ~Settled(i)
         /\ cmds[i].available => host.at = "call" /\ host.on = i

\* A command has ended only if all that goes before it has.
Ordered == \A i \in DOMAIN cmds : Settled(i) => \A e \in Before(i) : Settled(e)

\* It has succeeded only if all it waits for has.
Succeeding ==
  \A i \in DOMAIN cmds :
    cmds[i].status = "complete" => \A e \in cmds[i].waits : cmds[e].status = "complete"

\* What the host has learnt of a command is so.
KnowledgeIsTrue ==
  \A i \in DOMAIN cmds :
    /\ cmds[i].known = "end" => Settled(i)
    /\ cmds[i].known = "success" => cmds[i].status = "complete"

IInv ==
  /\ TypeOK /\ HostAgrees /\ WaitsEarlier /\ Sources /\ KnowledgeIsTrue
  /\ Ordered /\ Succeeding

USE CommandQueueAssumption

-----------------------------------------------------------------------------
(* Lemmas. *)

LEMMA Domains ==
  /\ cmds \in Seq(Commands) => DOMAIN cmds = 1 .. Len(cmds) /\ Len(cmds) \in Nat
  /\ cmds' \in Seq(Commands) => DOMAIN cmds' = 1 .. Len(cmds') /\ Len(cmds') \in Nat
BY LenProperties

LEMMA CommandTyped ==
  ASSUME TypeOK, NEW i \in DOMAIN cmds
  PROVE  cmds[i] \in Commands /\ i \in 1 .. Len(cmds) /\ Len(cmds) \in Nat
BY Domains, ElementOfSeq DEF TypeOK

\* What goes before a command was issued before it.
LEMMA BeforeEarlier ==
  ASSUME TypeOK, WaitsEarlier, NEW i \in DOMAIN cmds, NEW e \in Before(i)
  PROVE  e \in 1 .. i - 1 /\ e \in DOMAIN cmds
<1>1. e \in 1 .. i - 1
  BY DEF Before, WaitsEarlier
<1>2. QED
  BY <1>1, CommandTyped, Domains DEF TypeOK

\* What is fixed when a command is issued.
Fixed(i) ==
  /\ cmds'[i].op = cmds[i].op /\ cmds'[i].available = cmds[i].available
  /\ cmds'[i].asked = cmds[i].asked /\ cmds'[i].waits = cmds[i].waits

\* What goes before a command is fixed with it.
LEMMA BeforeFixed ==
  ASSUME TypeOK, WaitsEarlier, inOrder' = inOrder, NEW i \in DOMAIN cmds,
         \A j \in DOMAIN cmds : Fixed(j)
  PROVE  Before(i)' = Before(i)
<1>1. \A e \in 1 .. i - 1 : e \in DOMAIN cmds
  BY CommandTyped, Domains DEF TypeOK
<1>2. QED
  BY <1>1 DEF Before, Fixed

\* A step that moves the execution of no command, whatever it does to what is known
\* of them, to their sources and to the host.
LEMMA NoExecution ==
  ASSUME IInv, inOrder' = inOrder, failures' = failures, TypeOK', HostAgrees', Sources',
         DOMAIN cmds' = DOMAIN cmds,
         \A j \in DOMAIN cmds : Fixed(j) /\ cmds'[j].status = cmds[j].status,
         \A j \in DOMAIN cmds :
           \/ cmds'[j].known = cmds[j].known
           \/ cmds'[j].known = "end" /\ Settled(j)
           \/ cmds'[j].known = "success" /\ cmds[j].status = "complete"
  PROVE  IInv'
<1>1. WaitsEarlier'
  BY DEF IInv, WaitsEarlier, Fixed
<1>2. KnowledgeIsTrue'
  BY DEF IInv, KnowledgeIsTrue, Settled
<1>3. Ordered'
  <2> SUFFICES ASSUME NEW i \in DOMAIN cmds, Settled(i)', NEW e \in Before(i)'
               PROVE  Settled(e)'
    BY DEF Ordered
  <2>1. e \in Before(i)
    BY BeforeFixed DEF IInv
  <2>2. e \in DOMAIN cmds
    BY <2>1, BeforeEarlier DEF IInv
  <2>3. Settled(i)
    BY DEF Settled
  <2>4. QED
    BY <2>1, <2>2, <2>3 DEF IInv, Ordered, Settled
<1>4. Succeeding'
  <2>1. \A i \in DOMAIN cmds : \A e \in cmds[i].waits : e \in DOMAIN cmds
    BY BeforeEarlier DEF IInv, Before
  <2>2. QED
    BY <2>1 DEF IInv, Succeeding, Fixed
<1>5. QED
  BY <1>1, <1>2, <1>3, <1>4 DEF IInv

-----------------------------------------------------------------------------
(* The invariant, action by action. *)

LEMMA InitIInv == QueueInit => IInv
<1> SUFFICES ASSUME QueueInit PROVE IInv
  OBVIOUS
<1>1. cmds \in Seq(Commands) /\ Len(cmds) = 0 /\ DOMAIN cmds = {}
  BY EmptySeq DEF QueueInit
<1>2. TypeOK /\ HostAgrees
  BY <1>1 DEF QueueInit, TypeOK, HostAgrees, Idle
<1>3. QED
  BY <1>1, <1>2 DEF IInv, WaitsEarlier, Sources, KnowledgeIsTrue, Ordered, Succeeding

\* A new command is not settled, and waits for none that follow.
LEMMA EnqueueIInv ==
  ASSUME IInv, NEW op \in {"read", "write", "device", "marker", "barrier"},
         NEW sync \in BOOLEAN, NEW available \in BOOLEAN, NEW waits \in SUBSET DOMAIN cmds,
         available => op = "write", Enqueue(op, sync, available, waits)
  PROVE  IInv'
<1> DEFINE n == Len(cmds) + 1
           c == [op |-> op, available |-> available, asked |-> waits, waits |-> waits,
                 status |-> "queued", source |-> IF op = "write" THEN "host" ELSE "none",
                 known |-> "nothing"]
<1>1. /\ host = Idle /\ cmds' = Append(cmds, c)
      /\ host' = IF sync \/ available THEN [at |-> "call", on |-> n] ELSE Idle
      /\ submitted' = IF sync \/ available THEN n ELSE submitted
      /\ UNCHANGED <<inOrder, failures>>
  BY DEF Enqueue, Blocking, WaitList
<1>2. /\ DOMAIN cmds = 1 .. Len(cmds) /\ Len(cmds) \in Nat /\ cmds \in Seq(Commands)
      /\ waits \in SUBSET Nat /\ waits \subseteq 1 .. n - 1
  BY Domains DEF IInv, TypeOK
<1>3. c \in Commands
  BY <1>2 DEF Commands
<1>4. /\ c.op = op /\ c.available = available /\ c.asked = waits /\ c.waits = waits
      /\ c.status = "queued" /\ c.source \in {"none", "host"}
      /\ c.source = "host" => op = "write"
      /\ c.known = "nothing"
  OBVIOUS
<1> HIDE DEF c
<1>5. /\ cmds' \in Seq(Commands) /\ Len(cmds') = n /\ DOMAIN cmds' = 1 .. n
      /\ cmds'[n] = c /\ \A i \in DOMAIN cmds : cmds'[i] = cmds[i]
  BY <1>1, <1>2, <1>3, AppendProperties, Domains
<1> HIDE DEF n
<1>6. \A i \in 1 .. n : i \in DOMAIN cmds \/ i = n
  BY <1>2 DEF n
<1>7. TypeOK'
  BY <1>1, <1>2, <1>5 DEF IInv, TypeOK, Idle, n
<1>8. HostAgrees'
  BY <1>1, <1>2, <1>5 DEF HostAgrees, Idle, n
<1>9. WaitsEarlier'
  BY <1>2, <1>4, <1>5, <1>6 DEF IInv, WaitsEarlier
<1>10. Sources'
  <2>1. \A i \in DOMAIN cmds : cmds[i].source = "host" => ~cmds[i].available
    BY <1>1 DEF IInv, Sources, Idle
  <2>2. QED
    BY <1>1, <1>4, <1>5, <1>6, <2>1 DEF IInv, Sources, Settled
<1>11. KnowledgeIsTrue'
  BY <1>4, <1>5, <1>6 DEF IInv, KnowledgeIsTrue, Settled
<1>12. Ordered'
  <2> SUFFICES ASSUME NEW i \in DOMAIN cmds', Settled(i)', NEW e \in Before(i)'
               PROVE  Settled(e)'
    BY DEF Ordered
  <2>1. i \in DOMAIN cmds
    BY <1>4, <1>5, <1>6 DEF Settled
  <2>2. \A j \in 1 .. i - 1 : j \in DOMAIN cmds
    BY <1>2, <2>1
  <2>3. Before(i)' = Before(i)
    BY <1>1, <1>5, <2>1, <2>2 DEF Before
  <2>4. e \in DOMAIN cmds
    BY <2>1, <2>3, BeforeEarlier DEF IInv
  <2>5. QED
    BY <1>5, <2>1, <2>3, <2>4 DEF IInv, Ordered, Settled
<1>13. Succeeding'
  <2>1. \A i \in DOMAIN cmds : \A e \in cmds[i].waits : e \in DOMAIN cmds
    BY BeforeEarlier DEF IInv, Before
  <2>2. QED
    BY <1>4, <1>5, <1>6, <2>1 DEF IInv, Succeeding
<1>14. QED
  BY <1>7, <1>8, <1>9, <1>10, <1>11, <1>12, <1>13 DEF IInv

\* One command changes.
LEMMA CommandChange ==
  ASSUME TypeOK, NEW i \in DOMAIN cmds, NEW c \in Commands,
         cmds' = [cmds EXCEPT ![i] = c]
  PROVE  /\ cmds' \in Seq(Commands) /\ Len(cmds') = Len(cmds)
         /\ DOMAIN cmds' = DOMAIN cmds /\ cmds'[i] = c
         /\ \A j \in DOMAIN cmds : j # i => cmds'[j] = cmds[j]
BY Domains, ExceptSeq DEF TypeOK

LEMMA IssueIInv ==
  ASSUME IInv, NEW waits \in SUBSET DOMAIN cmds, Issue(waits)
  PROVE  IInv'
<1>1. ASSUME NEW op \in {"device", "marker", "barrier"}, Enqueue(op, FALSE, FALSE, waits)
      PROVE  IInv'
  BY <1>1, EnqueueIInv
<1>2. ASSUME Reading(waits) PROVE IInv'
  BY <1>2, EnqueueIInv DEF Reading
<1>3. ASSUME WriteBuffer(waits) PROVE IInv'
  BY <1>3, EnqueueIInv DEF WriteBuffer
<1>4. QED
  BY <1>1, <1>2, <1>3
  DEF Issue, ReadBuffer, MapBuffer, ReadImage, CopyBuffer, FillBuffer, UnmapMemObject,
      MigrateMemObjects, RangeKernel, Task, Marker, Barrier

\* The host starts to wait, or flushes.
LEMMA WaitIInv ==
  ASSUME IInv, Flush \/ Finish \/ \E i \in DOMAIN cmds : WaitForEvent(i)
  PROVE  IInv'
<1>1. /\ host = Idle /\ cmds' = cmds /\ submitted' = Len(cmds)
      /\ UNCHANGED <<inOrder, failures>>
      /\ \/ host' = Idle
         \/ host' = [at |-> "finish", on |-> Len(cmds)]
         \/ \E i \in DOMAIN cmds : host' = [at |-> "call", on |-> i]
  BY DEF Flush, Finish, WaitForEvent
<1>2. DOMAIN cmds = 1 .. Len(cmds) /\ Len(cmds) \in Nat
  BY Domains DEF IInv, TypeOK
<1>3. TypeOK' /\ HostAgrees'
  BY <1>1, <1>2 DEF IInv, TypeOK, HostAgrees, Idle
<1>4. Sources'
  BY <1>1 DEF IInv, Sources, Settled, Idle
<1>5. QED
  BY <1>1, <1>3, <1>4, NoExecution DEF Fixed

\* The command that a call waits for has ended.
LEMMA ReturnFromCallIInv == IInv /\ ReturnFromCall => IInv'
<1> SUFFICES ASSUME IInv, ReturnFromCall PROVE IInv'
  OBVIOUS
<1>1. PICK what \in {"success", "end"} :
        /\ host.at = "call" /\ Learn(host.on, what)
        /\ what = "success" => cmds[host.on].status = "complete"
        /\ Settled(host.on)
  BY DEF ReturnFromCall, ReturnOrThrow, Settled
<1>2. PICK i \in DOMAIN cmds : i = host.on
  BY <1>1 DEF IInv, HostAgrees
<1> DEFINE c == [cmds[i] EXCEPT !.known = what]
<1>3. c \in Commands /\ \A j \in DOMAIN cmds : cmds[j] \in Commands
  BY CommandTyped DEF IInv, Commands
<1>4. /\ cmds' = [cmds EXCEPT ![i] = c] /\ host' = Idle
      /\ UNCHANGED <<inOrder, submitted, failures>>
  BY <1>1, <1>2 DEF Learn
<1>5. /\ c.op = cmds[i].op /\ c.available = cmds[i].available
      /\ c.asked = cmds[i].asked /\ c.waits = cmds[i].waits
      /\ c.status = cmds[i].status /\ c.source = cmds[i].source /\ c.known = what
  BY <1>3 DEF Commands
<1> HIDE DEF c
<1>6. /\ cmds' \in Seq(Commands) /\ Len(cmds') = Len(cmds)
      /\ DOMAIN cmds' = DOMAIN cmds /\ cmds'[i] = c
      /\ \A j \in DOMAIN cmds : j # i => cmds'[j] = cmds[j]
  BY <1>3, <1>4, CommandChange DEF IInv
<1>7. TypeOK' /\ HostAgrees'
  BY <1>4, <1>6 DEF IInv, TypeOK, HostAgrees, Idle
<1>8. Sources'
  BY <1>1, <1>2, <1>5, <1>6 DEF IInv, Sources, Settled
<1>9. \A j \in DOMAIN cmds : Fixed(j) /\ cmds'[j].status = cmds[j].status
  BY <1>5, <1>6 DEF Fixed
<1>10. QED
  BY <1>1, <1>2, <1>4, <1>5, <1>6, <1>7, <1>8, <1>9, NoExecution

LEMMA ReturnFromWriteIInv == IInv /\ ReturnFromWrite => IInv'
<1> SUFFICES ASSUME IInv, ReturnFromWrite PROVE IInv'
  OBVIOUS
<1>1. /\ host.at = "call" /\ cmds[host.on].source \in {"taken", "corrupt"}
      /\ host' = Idle /\ UNCHANGED <<inOrder, cmds, submitted, failures>>
  BY DEF ReturnFromWrite
<1>2. TypeOK' /\ HostAgrees'
  BY <1>1 DEF IInv, TypeOK, HostAgrees, Idle
<1>3. Sources'
  BY <1>1 DEF IInv, Sources, Settled
<1>4. QED
  BY <1>1, <1>2, <1>3, NoExecution DEF Fixed

\* finish() waits for the last command, hence for all.
LEMMA ReturnFromFinishIInv == IInv /\ ReturnFromFinish => IInv'
<1> SUFFICES ASSUME IInv, ReturnFromFinish PROVE IInv'
  OBVIOUS
<1>1. /\ host.at = "finish" /\ cmds' = Ends /\ host' = Idle
      /\ \A i \in 1 .. host.on : Settled(i)
      /\ UNCHANGED <<inOrder, submitted, failures>>
  BY DEF ReturnFromFinish
<1>2. /\ DOMAIN cmds = 1 .. Len(cmds) /\ Len(cmds) \in Nat
      /\ \A j \in DOMAIN cmds : cmds[j] \in Commands
  BY Domains, CommandTyped DEF IInv, TypeOK
<1>3. \A j \in DOMAIN cmds : Settled(j)
  BY <1>1, <1>2 DEF IInv, HostAgrees
<1>4. \A j \in DOMAIN cmds :
        /\ Ends[j] \in Commands
        /\ Ends[j] = cmds[j] \/ Ends[j] = [cmds[j] EXCEPT !.known = "end"]
  BY <1>2 DEF Ends, Commands
<1>5. Ends \in [1 .. Len(cmds) -> Commands]
  BY <1>2, <1>4 DEF Ends
<1>6. cmds' \in Seq(Commands) /\ Len(cmds') = Len(cmds) /\ DOMAIN cmds' = DOMAIN cmds
  <2>1. cmds' \in Seq(Commands)
    BY <1>1, <1>2, <1>5, SeqDef
  <2>2. DOMAIN cmds' = DOMAIN cmds
    BY <1>1, <1>2, <1>5
  <2>3. QED
    BY <1>2, <2>1, <2>2, Domains
<1>7. \A j \in DOMAIN cmds :
        /\ Fixed(j) /\ cmds'[j].status = cmds[j].status /\ cmds'[j].source = cmds[j].source
        /\ cmds'[j].known = cmds[j].known \/ cmds'[j].known = "end"
  <2> SUFFICES ASSUME NEW j \in DOMAIN cmds
               PROVE  /\ Fixed(j) /\ cmds'[j].status = cmds[j].status
                      /\ cmds'[j].source = cmds[j].source
                      /\ cmds'[j].known = cmds[j].known \/ cmds'[j].known = "end"
    OBVIOUS
  <2>1. cmds'[j] = cmds[j] \/ cmds'[j] = [cmds[j] EXCEPT !.known = "end"]
    BY <1>1, <1>4
  <2>2. cmds[j] \in Commands
    BY <1>2
  <2>3. QED
    BY <2>1, <2>2 DEF Fixed, Commands
<1>8. TypeOK' /\ HostAgrees'
  BY <1>1, <1>6 DEF IInv, TypeOK, HostAgrees, Idle
<1>9. Sources'
  BY <1>3, <1>6, <1>7 DEF IInv, Sources, Settled
<1>10. QED
  BY <1>1, <1>3, <1>6, <1>7, <1>8, <1>9, NoExecution

\* When the host may modify the source of every write, none is still in use.
LEMMA ModifySourceIInv == IInv /\ ModifySource => cmds' = cmds /\ IInv'
<1> SUFFICES ASSUME IInv, ModifySource PROVE cmds' = cmds /\ IInv'
  OBVIOUS
<1>1. /\ host = Idle /\ UNCHANGED <<inOrder, submitted, failures, host>>
      /\ \A i \in DOMAIN cmds : cmds[i].op = "write" =>
           cmds[i].available \/ cmds[i].known # "nothing"
      /\ cmds' = [i \in DOMAIN cmds |->
           IF cmds[i].source = "host" THEN [cmds[i] EXCEPT !.source = "modified"]
           ELSE cmds[i]]
  BY DEF ModifySource
<1>2. ASSUME NEW i \in DOMAIN cmds PROVE cmds[i].source # "host"
  <2> SUFFICES ASSUME cmds[i].source = "host" PROVE FALSE
    OBVIOUS
  <2>1. cmds[i].op = "write" /\ ~Settled(i) /\ ~cmds[i].available
    BY <1>1 DEF IInv, Sources, Idle
  <2>2. cmds[i].known \in {"end", "success"}
    BY <1>1, <2>1, CommandTyped DEF IInv, Commands
  <2>3. QED
    BY <2>1, <2>2 DEF IInv, KnowledgeIsTrue, Settled
<1>3. DOMAIN cmds = 1 .. Len(cmds) /\ cmds \in [1 .. Len(cmds) -> Commands]
  BY LenProperties DEF IInv, TypeOK
<1>4. cmds' = cmds
  <2>1. cmds' = [i \in DOMAIN cmds |-> cmds[i]]
    BY <1>1, <1>2
  <2>2. QED
    BY <1>3, <2>1
<1>5. TypeOK' /\ HostAgrees' /\ Sources'
  BY <1>1, <1>4 DEF IInv, TypeOK, HostAgrees, Sources, Settled
<1>6. QED
  BY <1>1, <1>4, <1>5, NoExecution DEF Fixed

LEMMA TakeSourceIInv ==
  ASSUME IInv, NEW i \in DOMAIN cmds, TakeSource(i)
  PROVE  IInv'
<1> DEFINE c == [cmds[i] EXCEPT !.source = "taken"]
<1>1. /\ cmds' = [cmds EXCEPT ![i] = c]
      /\ UNCHANGED <<inOrder, submitted, failures, host>>
  BY DEF TakeSource, IInv, Sources
<1>2. c \in Commands /\ \A j \in DOMAIN cmds : cmds[j] \in Commands
  BY CommandTyped DEF IInv, Commands
<1>3. /\ c.op = cmds[i].op /\ c.available = cmds[i].available
      /\ c.asked = cmds[i].asked /\ c.waits = cmds[i].waits
      /\ c.status = cmds[i].status /\ c.source = "taken" /\ c.known = cmds[i].known
  BY <1>2 DEF Commands
<1> HIDE DEF c
<1>4. /\ cmds' \in Seq(Commands) /\ Len(cmds') = Len(cmds)
      /\ DOMAIN cmds' = DOMAIN cmds /\ cmds'[i] = c
      /\ \A j \in DOMAIN cmds : j # i => cmds'[j] = cmds[j]
  BY <1>1, <1>2, CommandChange DEF IInv
<1>5. TypeOK' /\ HostAgrees'
  BY <1>1, <1>4 DEF IInv, TypeOK, HostAgrees
<1>6. Sources'
  BY <1>1, <1>3, <1>4 DEF IInv, Sources, Settled
<1>7. \A j \in DOMAIN cmds : Fixed(j) /\ cmds'[j].status = cmds[j].status
                            /\ cmds'[j].known = cmds[j].known
  BY <1>3, <1>4 DEF Fixed
<1>8. QED
  BY <1>1, <1>4, <1>5, <1>6, <1>7, NoExecution

\* All that goes before the command that executes has ended, and nothing that has
\* ended comes after it.
LEMMA ExecuteIInv ==
  ASSUME IInv, NEW i \in DOMAIN cmds, Execute(i)
  PROVE  IInv'
<1>1. PICK how \in {"complete", "failed"} :
        /\ cmds' = [cmds EXCEPT ![i] = [cmds[i] EXCEPT !.status = how]]
        /\ how = "complete" => \A e \in cmds[i].waits : cmds[e].status # "failed"
  BY DEF Execute
<1>2. /\ cmds[i].status = "queued" /\ cmds[i].source \notin {"host", "modified"}
      /\ \A e \in Before(i) : Settled(e)
      /\ UNCHANGED <<inOrder, submitted, host>> /\ failures' \in Nat
  BY DEF Execute, IInv, TypeOK
<1> DEFINE c == [cmds[i] EXCEPT !.status = how]
<1>3. c \in Commands /\ \A j \in DOMAIN cmds : cmds[j] \in Commands
  BY CommandTyped DEF IInv, Commands
<1>4. /\ c.op = cmds[i].op /\ c.available = cmds[i].available
      /\ c.asked = cmds[i].asked /\ c.waits = cmds[i].waits
      /\ c.status = how /\ c.source = cmds[i].source /\ c.known = cmds[i].known
  BY <1>3 DEF Commands
<1>5. cmds' = [cmds EXCEPT ![i] = c]
  BY <1>1
<1> HIDE DEF c
<1>6. /\ cmds' \in Seq(Commands) /\ Len(cmds') = Len(cmds)
      /\ DOMAIN cmds' = DOMAIN cmds /\ cmds'[i] = c
      /\ \A j \in DOMAIN cmds : j # i => cmds'[j] = cmds[j]
  BY <1>3, <1>5, CommandChange DEF IInv
<1>7. TypeOK' /\ HostAgrees'
  BY <1>2, <1>6 DEF IInv, TypeOK, HostAgrees
<1>8. \A j \in DOMAIN cmds : Fixed(j)
  BY <1>4, <1>6 DEF Fixed
<1>9. \A j \in DOMAIN cmds : Before(j)' = Before(j)
  BY <1>2, <1>8, BeforeFixed DEF IInv
<1>10. WaitsEarlier'
  BY <1>6, <1>8 DEF IInv, WaitsEarlier, Fixed
<1>11. Sources'
  BY <1>2, <1>4, <1>6 DEF IInv, Sources, Settled
<1>12. KnowledgeIsTrue'
  BY <1>2, <1>4, <1>6 DEF IInv, KnowledgeIsTrue, Settled
<1>13. \A j \in DOMAIN cmds : Settled(j)' <=> Settled(j) \/ j = i
  BY <1>4, <1>6 DEF Settled
<1>14. Ordered'
  <2> SUFFICES ASSUME NEW j \in DOMAIN cmds, Settled(j)', NEW e \in Before(j)
               PROVE  Settled(e)'
    BY <1>6, <1>9 DEF Ordered
  <2>1. e \in DOMAIN cmds
    BY BeforeEarlier DEF IInv
  <2>2. Settled(e)
    BY <1>2, <1>13 DEF IInv, Ordered
  <2>3. QED
    BY <1>13, <2>1, <2>2
<1>15. Succeeding'
  <2> SUFFICES ASSUME NEW j \in DOMAIN cmds, cmds'[j].status = "complete",
                      NEW e \in cmds[j].waits
               PROVE  cmds'[e].status = "complete"
    BY <1>6, <1>8 DEF Succeeding, Fixed
  <2>1. e \in Before(j)
    BY DEF Before
  <2>2. e \in DOMAIN cmds
    BY <2>1, BeforeEarlier DEF IInv
  <2>3. cmds[e].status = "complete"
    <3>1. CASE j = i
      BY <1>1, <1>2, <1>4, <1>6, <2>1, <3>1 DEF Settled
    <3>2. CASE j # i
      BY <1>6, <3>2 DEF IInv, Succeeding
    <3>3. QED
      BY <3>1, <3>2
  <2>4. e # i
    BY <1>2, <2>3
  <2>5. QED
    BY <1>6, <2>2, <2>3, <2>4
<1>16. QED
  BY <1>7, <1>10, <1>11, <1>12, <1>14, <1>15 DEF IInv

LEMMA NextIInv == IInv /\ [QueueNext]_queueVars => IInv'
<1> SUFFICES ASSUME IInv, [QueueNext]_queueVars PROVE IInv'
  OBVIOUS
<1>1. CASE UNCHANGED queueVars
  <2>1. TypeOK' /\ HostAgrees' /\ Sources'
    BY <1>1 DEF queueVars, IInv, TypeOK, HostAgrees, Sources, Settled
  <2>2. QED
    BY <1>1, <2>1, NoExecution DEF queueVars, Fixed
<1>2. CASE Return
  BY <1>2, ReturnFromCallIInv, ReturnFromWriteIInv, ReturnFromFinishIInv DEF Return
<1>3. CASE Run
  BY <1>3, TakeSourceIInv, ExecuteIInv DEF Run
<1>4. QED
  BY <1>1, <1>2, <1>3, IssueIInv, WaitIInv, ModifySourceIInv DEF QueueNext

-----------------------------------------------------------------------------
(* The theorems. *)

\* IInv is an invariant, however the runtime orders the commands.
THEOREM Invariance == QueueSpec => []IInv
<1>1. QED
  BY InitIInv, NextIInv, PTL DEF QueueSpec

\* The commands that went well, like those that have ended, are closed under wait lists;
\* what goes before one of them along any chain is therefore among them.
LEMMA ChainsClosed ==
  ASSUME IInv, NEW i \in DOMAIN cmds, NEW e \in Upstream(i)
  PROVE  /\ Settled(i) => Settled(e)
         /\ cmds[i].status = "complete" => cmds[e].status = "complete"
<1> DEFINE Ended == {k \in DOMAIN cmds : Settled(k)}
           Well == {k \in DOMAIN cmds : cmds[k].status = "complete"}
<1>1. \A k \in DOMAIN cmds : cmds[k].asked \subseteq DOMAIN cmds
                              /\ cmds[k].asked \subseteq Before(k)
                              /\ cmds[k].asked = cmds[k].waits
  <2> SUFFICES ASSUME NEW k \in DOMAIN cmds
               PROVE  cmds[k].asked \subseteq DOMAIN cmds /\ cmds[k].asked \subseteq Before(k)
                      /\ cmds[k].asked = cmds[k].waits
    OBVIOUS
  <2>1. cmds[k].asked = cmds[k].waits
    BY DEF IInv, WaitsEarlier
  <2>2. cmds[k].asked \subseteq Before(k)
    BY <2>1 DEF Before
  <2>3. QED
    BY <2>1, <2>2, BeforeEarlier DEF IInv
<1>2. \A k \in Ended : cmds[k].asked \subseteq Ended
  BY <1>1 DEF IInv, Ordered
<1>3. \A k \in Well : cmds[k].asked \subseteq Well
  BY <1>1 DEF IInv, Succeeding
<1>4. \A C \in SUBSET DOMAIN cmds :
        i \in C /\ (\A k \in C : cmds[k].asked \subseteq C) => e \in C
  BY DEF Upstream
<1>5. Settled(i) => e \in Ended
  BY <1>2, <1>4
<1>6. cmds[i].status = "complete" => e \in Well
  BY <1>3, <1>4
<1>7. QED
  BY <1>5, <1>6

\* A call that returned, in any form of any command, tells of the whole chain behind the
\* command, however long: the data that each link made are there.
THEOREM ChainsArrive == QueueSpec => []DataArrived
<1>1. IInv => DataArrived
  <2> SUFFICES ASSUME IInv, NEW i \in DOMAIN cmds, NEW e \in Upstream(i)
               PROVE  /\ cmds[i].known # "nothing" => Settled(e)
                      /\ cmds[i].known = "success" => cmds[e].status = "complete"
    BY DEF DataArrived
  <2>1. cmds[i].known \in {"nothing", "end", "success"}
    BY CommandTyped DEF IInv, Commands
  <2>2. QED
    BY <2>1, ChainsClosed DEF IInv, KnowledgeIsTrue, Settled
<1>2. QED
  BY <1>1, Invariance, PTL

\* A write delivers the data of its call, even with wait_for_availability.
THEOREM SourcesIntact == QueueSpec => []SourceIntact
<1>1. IInv => SourceIntact
  BY DEF IInv, Sources, SourceIntact
<1>2. QED
  BY <1>1, Invariance, PTL

\* No command succeeds before what it waits for, and none after a barrier ends before
\* the barrier and what the barrier waits for have.
THEOREM BarriersSplit == QueueSpec => []BarrierSplits
<1>1. IInv => BarrierSplits
  <2> SUFFICES ASSUME IInv PROVE BarrierSplits
    OBVIOUS
  <2>1. \A i \in DOMAIN cmds :
          cmds[i].status = "complete" =>
            \A e \in cmds[i].asked : cmds[e].status = "complete"
    BY DEF IInv, WaitsEarlier, Succeeding
  <2>2. ASSUME NEW b \in DOMAIN cmds, NEW k \in DOMAIN cmds,
               cmds[b].op = "barrier", b <= k, Settled(k),
               NEW e \in (IF cmds[b].asked = {} THEN 1 .. b - 1 ELSE cmds[b].asked)
        PROVE  Settled(e)
    <3>1. b \in Nat /\ k \in Nat
      BY CommandTyped DEF IInv
    <3>2. Settled(b)
      <4>1. b < k => b \in Before(k)
        BY <2>2, <3>1, CommandTyped DEF IInv, Before
      <4>2. QED
        BY <2>2, <3>1, <4>1 DEF IInv, Ordered
    <3>3. e \in Before(b)
      BY <2>2 DEF IInv, WaitsEarlier, Before
    <3>4. QED
      BY <3>2, <3>3 DEF IInv, Ordered
  <2>3. QED
    BY <2>1, <2>2 DEF BarrierSplits
<1>2. QED
  BY <1>1, Invariance, PTL
=============================================================================
