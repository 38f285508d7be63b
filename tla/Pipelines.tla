----------------------------- MODULE Pipelines -----------------------------
(***************************************************************************)
(* The example programs that move data: each is a sequence of calls of the *)
(* library on one out-of-order queue, where nothing but the wait lists     *)
(* orders the commands.  The host runs one of them from its first buffer   *)
(* to its return, the runtime builds its program and executes its commands *)
(* in any order the wait lists allow, and either may fail.                 *)
(*                                                                         *)
(* Buffers and host arrays are Side x Side integers: the matrices of two   *)
(* examples, the rectangle of another, and the vectors of the rest.        *)
(***************************************************************************)
EXTENDS Kernels, SequencesExt

CONSTANTS
  Examples,      \* the programs that are run
  MaxFailures    \* bound on the builds and commands that fail of themselves

Programs == {"buffer_readwrite", "buffer_copy", "buffer_fill_map", "buffer_rectangle",
             "kernel_execution", "event_profiling", "application_matmul"}

\* Half of a side: buffer_width and buffer_height are even.
ASSUME PipelinesAssumption ==
  Side % 2 = 0 /\ MaxFailures \in Nat /\ Examples \subseteq Programs

-----------------------------------------------------------------------------
(* What the programs call. *)

\* enqueued_X: the command's event, what it executes, on which arrays, the last
\* one being its output; which element each element of the output comes from, for
\* a transfer; and its event_wait_list.
Command(event, run, args, move, waits) ==
  [op |-> "enqueue", event |-> event, run |-> run, args |-> args, move |-> move,
   waits |-> waits]

Whole == [c \in Cells |-> c]

\* Reads, writes, copies, fills and mappings, of whole arrays or of rectangles.
TransferRect(event, from, to, move, waits) ==
  Command(event, "transfer", <<from, to>>, move, waits)
Transfer(event, from, to, waits) == TransferRect(event, from, to, Whole, waits)

\* enqueued_marker_with_wait_list; and build_with_event, whose user event is one
\* more event to wait for, though no command of the queue.
Marker(event, waits) == Command(event, "nothing", <<>>, Whole, waits)
Build(event) == Command(event, "build", <<>>, Whole, {})

\* enqueued_Xd_range_kernel: the arguments are those the kernel has at that time.
RangeKernel(event, kernel, waits) ==
  [op |-> "launch", event |-> event, kernel |-> kernel, waits |-> waits]

SetArgument(kernel, index, array) ==
  [op |-> "set_argument", kernel |-> kernel, index |-> index, array |-> array]

WaitFor(events) == [op |-> "wait", events |-> events]
FinishSkipped == WaitFor({})                                     \* mutant
Finish == [op |-> "finish"]
Profile(event) == [op |-> "profile", event |-> event]
Check(arrays) == [op |-> "check", arrays |-> arrays]

\* A blocking call is the same command, and the wait for it.
Asynchronously(command) == <<command>>                           \* mutant
Synchronously(command) == <<command, WaitFor({command.event})>>

\* create_kernel(name, build_event).
CreateKernel(kernel, run, built) ==
  << WaitFor({built}), [op |-> "create_kernel", kernel |-> kernel, run |-> run] >>

SetArguments(kernel, arrays) ==
  [n \in DOMAIN arrays |-> SetArgument(kernel, n, arrays[n])]

-----------------------------------------------------------------------------
(* The programs. *)

buffer_readwrite ==
  << Transfer("send", "input", "buffer", {}),
     Transfer("get", "buffer", "output", {"send"}),
     Finish, Check({"input", "output"}) >>

buffer_copy ==
  << Transfer("write", "input", "input_buffer", {}),
     Transfer("copy", "input_buffer", "output_buffer", {"write"}),
     Transfer("read", "output_buffer", "output", {"copy"}),
     WaitFor({"read"}), Check({"input", "output"}) >>

\* The pattern is an argument of the call, which OpenCL copies.
buffer_fill_map ==
  << Transfer("fill", "pattern", "buffer", {}) >>
  \o Synchronously(Transfer("map", "buffer", "output", {"fill"}))
  \o << Check({"output"}),
        Transfer("unmap", "undefined", "output", {}), Finish >>

\* The column of a cell counts in the first dimension, its row in the second.  A
\* copy takes the quarter at from to the quarter at to.
Half == Side \div 2
Quarter(at) == {c \in Cells : /\ c % Side \in at[1] .. at[1] + Half - 1
                              /\ c \div Side \in at[2] .. at[2] + Half - 1}
QuarterFrom(from, to) ==
  [c \in Quarter(to) |-> c + Idx(from[1], from[2]) - Idx(to[1], to[2])]

buffer_rectangle ==
  << Transfer("write", "input", "buffer", {}),
     TransferRect("copy_1", "buffer", "buffer", QuarterFrom(<<0, 0>>, <<Half, Half>>), {"write"}),
     TransferRect("copy_2", "buffer", "buffer", QuarterFrom(<<0, Half>>, <<Half, 0>>), {"write"}),
     Marker("all_copies", {"copy_1", "copy_2"}) >>
  \o Synchronously(Transfer("read", "buffer", "output", {"all_copies"}))
  \o << Check({"input", "output"}) >>

\* Mutant of the marker of kernel_execution: one event short.
first_write_event == {"write_A"}
all_write_events == {"write_A", "write_B"}

kernel_execution ==
  << Build("build"),
     Transfer("write_A", "input_A", "A_buffer", {}),
     Transfer("write_B", "input_B", "B_buffer", {}),
     Marker("all_writes", all_write_events) >>
  \o CreateKernel("kernel", "vector_add", "build")
  \o SetArguments("kernel", <<"A_buffer", "B_buffer", "output_buffer">>)
  \o << RangeKernel("exec", "kernel", {"all_writes"}) >>
  \o Synchronously(Transfer("read", "output_buffer", "output", {"exec"}))
  \o << Check({"input_A", "input_B", "output"}) >>

\* Both kernels write the one output buffer, and only the host's blocking read
\* comes between them.
event_profiling ==
  << Build("build"),
     Transfer("write", "input", "buffer", {}) >>
  \o CreateKernel("naive", "transpose_naive", "build")
  \o SetArguments("naive", <<"buffer", "output_buffer">>)
  \o << RangeKernel("exec_naive", "naive", {"write"}) >>
  \o Synchronously(Transfer("read_naive", "output_buffer", "output_naive", {"exec_naive"}))
  \o << Profile("exec_naive") >>
  \o CreateKernel("local", "transpose_local", "build")
  \o SetArguments("local", <<"buffer", "local_memory", "output_buffer">>)
  \o << RangeKernel("exec_local", "local", {"write"}) >>
  \o Synchronously(Transfer("read_local", "output_buffer", "output", {"exec_local"}))
  \o << Profile("exec_local"), Check({"output_naive", "output"}) >>

application_matmul ==
  << Build("matmul_build"), Build("transpose_build"),
     Transfer("write_A", "input_A", "A_buffer", {}),
     Transfer("write_B", "input_B", "B_buffer", {}) >>
  \o CreateKernel("naive", "matmul_naive", "matmul_build")
  \o SetArguments("naive", <<"A_buffer", "B_buffer", "output_buffer">>)
  \o << RangeKernel("exec_naive", "naive", {"write_A", "write_B"}) >>
  \o Synchronously(Transfer("read_naive", "output_buffer", "output_naive", {"exec_naive"}))
  \o << Profile("exec_naive") >>
  \o CreateKernel("local", "transpose_local", "transpose_build")
  \o SetArguments("local", <<"B_buffer", "local_memory", "transposed_B_buffer">>)
  \o << RangeKernel("exec_local", "local", {"write_B"}) >>
  \o CreateKernel("optimized", "matmul_transpose", "matmul_build")
  \o SetArguments("optimized", <<"A_buffer", "transposed_B_buffer", "output_buffer">>)
  \o << RangeKernel("exec_optimized", "optimized", {"write_A", "exec_local"}) >>
  \o Synchronously(Transfer("read", "output_buffer", "output", {"exec_optimized"}))
  \o << Profile("exec_optimized"), Check({"output_naive", "output"}) >>

Steps(p) ==
  CASE p = "buffer_readwrite" -> buffer_readwrite
    [] p = "buffer_copy" -> buffer_copy
    [] p = "buffer_fill_map" -> buffer_fill_map
    [] p = "buffer_rectangle" -> buffer_rectangle
    [] p = "kernel_execution" -> kernel_execution
    [] p = "event_profiling" -> event_profiling
    [] p = "application_matmul" -> application_matmul

-----------------------------------------------------------------------------
(* What a step does to memory and to the kernel objects. *)

Output(command) == command.args[Len(command.args)]

KernelOutput(run, x, y) ==
  CASE run = "vector_add" -> [c \in Cells |-> VectorAdd(x, y, c).value]
    [] run = "transpose_local" -> Transposed(x)                    \* see WorkGroups
    [] OTHER -> Launch(run, x, y)

Effect(command, m) ==
  LET array(n) == m[command.args[n]]
  IN  IF command.run = "transfer"
      THEN [c \in Cells |-> IF c \in DOMAIN command.move THEN array(1)[command.move[c]]
                            ELSE array(2)[c]]
      ELSE KernelOutput(command.run, array(1), array(2))

Perform(command, m) ==
  IF command.args = <<>> THEN m ELSE [m EXCEPT ![Output(command)] = Effect(command, m)]

\* What a launch captures: set_X_argument does not reach the commands enqueued before.
Captured(launch, ks) ==
  Command(launch.event, ks[launch.kernel].run, ks[launch.kernel].args, Whole, launch.waits)

With(f, x, value) == [y \in DOMAIN f \cup {x} |-> IF y = x THEN value ELSE f[y]]
WithKernel(s, ks) == With(ks, s.kernel, [run |-> s.run, args |-> <<>>])
WithArgument(s, ks) == [ks EXCEPT ![s.kernel].args = With(@, s.index, s.array)]

\* What a host array holds when it is first used.
HostArray(p, array) ==
  [c \in Cells |->
     CASE array = "pattern" -> 66
       [] p = "application_matmul" /\ array = "input_B" -> 3 * c + 2
       [] p = "kernel_execution" /\ array = "input_B" -> Side * Side - c
       [] p \in {"buffer_readwrite", "buffer_copy", "buffer_rectangle"} -> (255 - c) % 256
       [] OTHER -> c + 1]

HostArrays == {"input", "input_A", "input_B", "pattern"}
Arrays == {"buffer", "input_buffer", "output_buffer", "A_buffer", "B_buffer",
           "transposed_B_buffer", "output", "output_naive", "local_memory", "undefined"}

InitialMemory(p) ==
  [array \in HostArrays \cup Arrays |->
     IF array \in HostArrays THEN HostArray(p, array) ELSE [c \in Cells |-> Undefined]]

\* The memory and the kernel objects after each step of p, when every one is executed
\* before the next is made: what its author has in mind.
Play(state, s) ==
  CASE s.op = "enqueue" -> [state EXCEPT !.mem = Perform(s, @)]
    [] s.op = "launch" -> [state EXCEPT !.mem = Perform(Captured(s, state.kernels), @)]
    [] s.op = "create_kernel" -> [state EXCEPT !.kernels = WithKernel(s, @)]
    [] s.op = "set_argument" -> [state EXCEPT !.kernels = WithArgument(s, @)]
    [] OTHER -> state

After(p) ==
  LET state[i \in 0 .. Len(Steps(p))] ==
        IF i = 0 THEN [mem |-> InitialMemory(p), kernels |-> <<>>]
        ELSE Play(state[i - 1], Steps(p)[i])
  IN  state

InOrder(p, n) == After(p)[n].mem

\* The comparison a program ends with.
Abs(n) == IF n < 0 THEN -n ELSE n

Verdict(p, m) ==
  CASE p \in {"buffer_readwrite", "buffer_copy"} -> m["output"] = m["input"]
    [] p = "buffer_fill_map" -> m["output"] = m["pattern"]
    [] p = "buffer_rectangle" ->
         \A col, row \in Sides :
           m["output"][Idx(col, row)] =
             m["input"][IF col < Half THEN Idx(col, row)
                        ELSE Idx(col - Half, IF row < Half THEN row + Half ELSE row - Half)]
    [] p = "kernel_execution" -> \A c \in Cells : m["output"][c] = Side * Side + 1
    [] p = "event_profiling" -> m["output"] = m["output_naive"]
    [] p = "application_matmul" ->
         \A c \in Cells :
           1000 * Abs(m["output"][c] - m["output_naive"][c]) <= Abs(m["output_naive"][c])

-----------------------------------------------------------------------------
(* A run of a program. *)

VARIABLES
  program,      \* which one
  step,         \* the step that its host takes next
  host,         \* "running", "returned", "aborted" or "threw" (and terminated)
  mem,          \* the buffers and the host's arrays
  kernels,      \* the kernel objects: what they run and their arguments so far
  cmds,         \* the commands enqueued and the builds begun, by their events
  failures      \* how many of these have failed of themselves

pipeVars == <<program, step, host, mem, kernels, cmds, failures>>

PipeInit(p) ==
  /\ program = p /\ step = 1
  /\ host = IF p = "none" THEN "returned" ELSE "running"
  /\ mem = InitialMemory(p)
  /\ kernels = <<>> /\ cmds = <<>>
  /\ failures = 0

Events == DOMAIN cmds
Status(e) == cmds[e].status
Settled(e) == Status(e) \in {"complete", "failed"}

\* Where the host is.
At(op) ==
  host = "running" /\ step \in DOMAIN Steps(program) /\ Steps(program)[step].op = op
Now == Steps(program)[step]

Advance == step' = step + 1 /\ UNCHANGED host
Stop(how) == host' = how /\ UNCHANGED step

Submit(command) ==
  /\ cmds' = With(cmds, command.event, [command |-> command, status |-> "queued"])
  /\ Advance
  /\ UNCHANGED <<program, mem, kernels, failures>>

Enqueue ==
  \/ At("enqueue") /\ Submit(Now)
  \/ At("launch") /\ Submit(Captured(Now, kernels))

SetKernel ==
  /\ \/ At("create_kernel") /\ kernels' = WithKernel(Now, kernels)
     \/ At("set_argument") /\ kernels' = WithArgument(Now, kernels)
  /\ Advance
  /\ UNCHANGED <<program, mem, cmds, failures>>

\* wait_for_events: a failed command ends the wait as well, with an exception.
DoneCompletely(events) == \A e \in events : Status(e) = "complete" \* mutant
DoneWaiting(events) == \A e \in events : Settled(e)

Wait ==
  /\ At("wait") /\ DoneWaiting(Now.events)
  /\ IF \E e \in Now.events : Status(e) = "failed" THEN Stop("threw") ELSE Advance
  /\ UNCHANGED <<program, mem, kernels, cmds, failures>>

\* CommandQueue::finish() does not tell what became of the commands.
FinishQueue ==
  /\ At("finish") /\ \A e \in Events : cmds[e].command.run # "build" => Settled(e)
  /\ Advance
  /\ UNCHANGED <<program, mem, kernels, cmds, failures>>

\* start_time_ns() and end_time_ns() throw unless the command is complete.
ProfileEvent ==
  /\ At("profile")
  /\ IF Status(Now.event) = "complete" THEN Advance ELSE Stop("threw")
  /\ UNCHANGED <<program, mem, kernels, cmds, failures>>

\* buffer_fill_map reports a mismatch and goes on, the others abort.
Compare ==
  /\ At("check")
  /\ IF Verdict(program, mem) \/ program = "buffer_fill_map" THEN Advance ELSE Stop("aborted")
  /\ UNCHANGED <<program, mem, kernels, cmds, failures>>

Return ==
  /\ host = "running" /\ step = Len(Steps(program)) + 1
  /\ Stop("returned")
  /\ UNCHANGED <<program, mem, kernels, cmds, failures>>

\* The runtime starts a command once those it waits for are complete.
Start(e) ==
  /\ Status(e) = "queued" /\ \A w \in cmds[e].command.waits : Status(w) = "complete"
  /\ cmds' = [cmds EXCEPT ![e].status = "running"]
  /\ UNCHANGED <<program, step, host, mem, kernels, failures>>

End(e) ==
  /\ Status(e) = "running"
  /\ cmds' = [cmds EXCEPT ![e].status = "complete"]
  /\ mem' = Perform(cmds[e].command, mem)
  /\ UNCHANGED <<program, step, host, kernels, failures>>

\* It fails, and leaves anything at all in its output.
Fail(e) ==
  LET c == cmds[e].command IN
  /\ Status(e) = "running" /\ failures < MaxFailures
  /\ cmds' = [cmds EXCEPT ![e].status = "failed"]
  /\ mem' = IF c.args = <<>> THEN mem
            ELSE [mem EXCEPT ![Output(c)] =
                    [x \in Cells |-> IF x \in DOMAIN c.move THEN Undefined ELSE @[x]]]
  /\ failures' = failures + 1
  /\ UNCHANGED <<program, step, host, kernels>>

\* What waited for it fails too.
Abandon(e) ==
  /\ Status(e) = "queued" /\ \E w \in cmds[e].command.waits : Status(w) = "failed"
  /\ cmds' = [cmds EXCEPT ![e].status = "failed"]
  /\ UNCHANGED <<program, step, host, mem, kernels, failures>>

PipeNext ==
  \/ Enqueue \/ SetKernel \/ Wait \/ FinishQueue \/ ProfileEvent \/ Compare \/ Return
  \/ \E e \in Events : Start(e) \/ End(e) \/ Fail(e) \/ Abandon(e)

\* One of the programs.
PipeSpec == (\E p \in Examples : PipeInit(p)) /\ [][PipeNext]_pipeVars

-----------------------------------------------------------------------------
(* Properties. *)

\* The elements a command reads and writes; local memory is its own.
Reads(c) ==
  IF c.run = "transfer" THEN {<<c.args[1], c.move[x]>> : x \in DOMAIN c.move}
  ELSE {c.args[n] : n \in 1 .. Len(c.args) - 1} \X Cells
Writes(c) == IF c.args = <<>> THEN {} ELSE {Output(c)} \X DOMAIN c.move

Conflict(c, d) == Writes(c) \cap (Reads(d) \cup Writes(d)) # {}

\* No two commands that run at the same time touch one element that either writes,
\* and the host compares nothing that a command may still write: the wait lists of
\* the examples are enough for an out-of-order queue.
RaceFree ==
  /\ \A e, f \in Events :
       e # f /\ Status(e) = "running" /\ Status(f) = "running" =>
         ~Conflict(cmds[e].command, cmds[f].command)
  /\ At("check") =>
       \A e \in Events :
         Settled(e) \/ Writes(cmds[e].command) \cap (Now.arrays \X Cells) = {}

\* When a program compares its results, they are those of the same calls made one
\* after the other, or a command has failed and the comparison tells.
ResultsSound ==
  At("check") =>
    \/ \A array \in Now.arrays : mem[array] = InOrder(program, step - 1)[array]
    \/ failures > 0 /\ ~Verdict(program, mem)

\* main() returns, and its arrays go out of scope, when no command is left that
\* could still read or write them.
NothingOutlives == host = "returned" => \A e \in Events : Settled(e)

\* Every program ends, even when builds or commands fail.
Concludes == <>(host # "running")

\* What its comparison is for: without failures, no program ends in std::abort()
\* (application_matmul.cpp:190: "Check that the naive and optimized matrix
\* multiplications produce the same result").
NeverAborts == failures = 0 => host # "aborted"
=============================================================================
