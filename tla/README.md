# CLplusplus, verified

CLplusplus wraps the OpenCL 1.2 C API in C++ classes. Each class holds an
identifier that OpenCL counts references to; around it the library keeps what
the C API has no room for: C++ callbacks, a device a context was made for,
property lists that can be iterated. This directory holds TLA+ modules about
that library, TLC configurations that check them on small instances, and
theorems that TLAPS proves for every value of the constants.

Run things from this directory: `tlc -config MCHandles.cfg MCHandles`, and
`tlapm HandlesProofs.tla`. `PROJECT.json` lists the runs, the lines of the source
each definition models, the hazards found in the code, and, for each property, a
faulty variant of the code that it catches (the definitions marked `mutant`).

## 1. The system

### Components

| Component | State | Operations | What makes it right |
|---|---|---|---|
| Reference-counted handles (Event, Kernel, CommandQueue, Device, Context, MemoryObject, Program) | `internal_id`; the count in the runtime | construct from an identifier (retaining or not), copy, assign, destroy | the count is the number of owners; nothing names a dead object |
| Program builds (`program.cpp`) | one callback in a block shared by the copies of a Program; a user event per event-based build | `build`, `build_with_event`, `create_kernel` | one build at a time; the event is set once, truthfully; the self-owning block is freed |
| Event callbacks (`event.cpp`) | three vectors of callbacks, shared by the copies of an Event | `set_callback`, `set_status`, `raw_callback` | a callback accepted in time is called, once, with those set before it; the vectors outlive the pointer OpenCL holds |
| Memory destructor callbacks (`memory_object.cpp`) | a list per wrapping of a `cl_mem`, owned by no C++ object | construct, copy, `set_destructor_callback`, `raw_callback`, `liberate_callback_list` | the list is deleted once, last; callbacks run, last set first |
| Command queues (`command_queue.cpp`) | none of its own; the runtime's queue | every command as `X`, `enqueue_X`, `enqueued_X`; `flush`, `finish`; `wait` | wait lists and barriers hold; what a blocking call tells is true; it returns |
| Contexts (`context.cpp`) | `single_device_id`; a share of the callback's block | constructors, copy, assign, `create_*`, `raw_callback` | the device left out of a call is the right one; a notification finds its callback |
| Property lists (`property_list_impl.hpp`) | one vector of numbers that encodes names, tags, sizes and values | three forms of `append`, iteration, `operator[]`, conversion to OpenCL's form and back | what is appended is read back; conversions lose nothing |
| Lists of names, rectangles (`common.cpp`, `context.cpp`, `command_queue.cpp`) | none | `decode_opencl_list`, list of built-in kernels, 2D to 3D rectangles, 1D and 2D to 3D regions | the names asked for; bytes come from and go to where the caller asked (writes of rectangles do not, section 4) |
| Kernels (`kernel.cpp`) | none of its own; the runtime keeps the arguments | `set_X_argument`, queries | a launch runs with the arguments set before it, and no later ones |
| Devices and sub-devices (`device.cpp`) | none | queries, `create_sub_devices` | sub-devices counted, and released when nobody is left; root devices not |
| Buffers and images (`buffer.cpp`, `image.cpp`) | that of MemoryObject | sub-buffers, queries | that of MemoryObject |
| Platforms, enumerations (`platform.cpp`, `queries.cpp`, `shared.hpp` of the examples) | none | lists of platforms and devices, `get_filtered_devices`, `select_device` | what is offered is what matches; a user who answers is served |
| Versions, profiles, extensions (`version.cpp`, `profile.cpp`, `extensions.cpp`) | decoded once | `decode_version_string`, comparisons, lookup | documented forms are decoded to their parts |
| Errors (`common.cpp`) | none | `throw_if_failed` | an exception class per error code |
| Examples (`examples/src`, `examples/src/kernels`) | buffers, host arrays, an out-of-order queue | seven programs that move data, five kernels | the wait lists are enough; results are those of the calls in order; every program ends |
| Build files, documentation | - | - | - |

### How they interact

- A **Context** creates command queues, programs, memory objects and user
  events. Each of them keeps the *OpenCL context* alive, but not the *Context*
  object, nor the block its callback lies in.
- **Callbacks** cross from the runtime's threads into C++: OpenCL is given a static
  `raw_callback` and a pointer to heap memory that the wrappers share
  (`std::shared_ptr` in Program, Event and Context; a bare pointer in
  MemoryObject). Each class answers differently to the question when that memory
  may go, and each answer is modelled.
- `Program::build_with_event` makes a **user event** from the Program's context and
  sets it in the build callback; that callback captures a copy of the Program,
  which makes the block own itself until it is reset.
- **Commands** name events in their wait lists, and return events; `Event::wait`
  and `CommandQueue::finish` bring back what became of them.
- The **examples** put it together: a device is selected, a program built while
  buffers are written, kernels created from the build event, and results read back;
  only wait lists order the commands. Their kernels add one more layer of concurrency,
  work-items that exchange elements through local memory.

### What is hard

The runtime calls `raw_callback` in its own threads, between any two steps of the
host, and copies vectors the host appends to. `operator=` is two steps, the second
of which may throw. A call may fail after the callback it registers was stored. The
order of reset and notification at the end of a build is visible to a host that
waits for the event. Queues reorder what is not ordered by wait lists or barriers.
Encodings are all off-by-ones. The list of hazards, each at its line, is in
`PROJECT.json`.

## 2. The modules

| Module | Models | Checked by | Proved in |
|---|---|---|---|
| `Handles` | the seven reference-counted classes | `MCHandles` | `HandlesProofs` |
| `HandleOwnership` | abstract specification: shared ownership, no counts | refined by `Handles` | `HandlesProofs` |
| `ProgramBuild` | `Program::build`, `build_with_event`, their callbacks | `MCProgramBuild` | `ProgramBuildProofs` |
| `BuildPromise` | abstract specification: what a caller is promised of builds | refined by `ProgramBuild` | `ProgramBuildProofs` |
| `EventCallbacks` | `Event::set_callback`, `raw_callback` | `MCHandles` | `EventCallbacksProofs` |
| `MemoryCallbacks` | destructor callbacks of one `cl_mem` | `MCQueueMemory` | `MemoryCallbacksProofs` |
| `CommandQueue` | one queue, in order or not | `MCQueueMemory` | `CommandQueueProofs` |
| `Contexts` | contexts, implied devices, notifications | `MCContexts` | `ContextsProofs` |
| `PropertyLists` | the encodings of property lists | `MCContexts` | `EncodingsProofs` |
| `Conversions` | lists of names; calls that convert rectangles | `MCContexts` | `EncodingsProofs` |
| `Rectangles` | where rectangles of buffers and regions of images are, and what a transfer moves | `MCContexts` | `EncodingsProofs` |
| `Versions` | version and profile strings | `MCContexts` | `EncodingsProofs` |
| `UnitTests` | the repository's unit tests, put to the three modules above | `MCContexts` | |
| `Kernels` | the OpenCL C kernels: what a work-item computes | `MCExamples` | |
| `WorkGroups` | a launch: work-groups, local memory, barriers | `MCExamples` | `ExamplesProofs` |
| `Pipelines` | the programs among the examples that move data | `MCExamples` | `ExamplesProofs` |
| `Enumerations` | lists of devices, the choice of one, sub-devices | `MCExamples` | `ExamplesProofs` |

`MCHandles`, `MCQueueMemory`, `MCContexts` and `MCExamples` hold several parts that know
nothing of each other: one of them moves while the others rest at their initial states,
so that one run checks them all without multiplying their states (`part` says which one
moves, in the first two). The definitions of `EventCallbacks` and `CommandQueue` are named
`EventInit`, `QueueNext` and so on, for they share a run with a module that has `Init` and `Next`. The proofs speak of one part at a time:
`GroupSpec`, `PipeSpec`, `EnumSpec`, `ListSpec`, `CallSpec` and `VersionSpec` are
launches, example programs, enumerations, a property list, conversions and version
strings on their own. The parts share no variable, so what holds of
one on its own holds of it in the runs.

### Handles and HandleOwnership

`refs` is OpenCL's count, `raw` the references held by code outside the wrappers
(what `clCreateX` returned, what a user of `raw_identifier()` retained), `id` each
wrapper's `internal_id`. `operator=` has two actions: `AssignRelease` does the early
return, the release and the copy of the identifier, `AssignRetain` the retain; between
them `source[w]` says what is being copied, and other threads move. A
thread does not touch a wrapper that another one is using: the classes make no claim
to be thread-safe, so `Free` and `Readable` are the discipline of their callers.
`AssignRetainThrows` is a `retain()` that throws (at most `MaxThrows` times): the
wrapper then has an identifier but no reference, and its destructor will release
one. `Counted` leaves out the devices of OpenCL 1.1, which `Device::retain` does not
count.

`HandleOwnership` knows owners, objects alive and nothing of counts. `Handles` implements
it with `alive` the objects whose count is positive and `owner` a wrapper's object,
or none between the two steps of an assignment: an assignment is a `Drop`, then an
`Acquire`.

### ProgramBuild

Copies of one Program (`programs`) share the block with the build callback
(`callback`). A call of `build` or `build_with_event` is `BuildStart`, in which
`raw_build_program` refuses if a callback is stored and stores its own otherwise;
then OpenCL refuses (`BuildRefused`, the `catch` clause resets) or takes the build.
`BuildReturn` and the runtime's steps interleave. `raw_callback` is taken apart
where another thread could see the difference: copy the callback (`NotifyCopy`),
run it (a user callback, or the lambda of an event-based build, which scans the
devices one by one and sets the event), reset the stored one (`NotifyReset`), destroy
its copy (`NotifyLeave`). The latter may end the block's last owner.

`BuildPromise` knows only how far each build is, as its caller sees it: none, pending,
refused, complete, failed, or over (when there is no event to tell). One build is
pending at a time, its outcome is reported once, and `create_kernel` on an event that
says "complete" succeeds if nothing is being rebuilt. `ProgramBuild` implements it
with `phase` as the mapping; a build is pending until its outcome can be known
(`Unreported`), which for a build with an event is until the event is set. That the
callback is reset only after it is why `MCProgramReject` is a violation and still
`ImplementsPromise` holds: a refusal is allowed at any time by the abstract module.

### EventCallbacks

The three vectors are `store`, one per status. `set_callback` appends, unless
the callback is empty, and registers `raw_callback` if the vector then has one
element; the registration may fail, which leaves the callback in the vector. The
runtime calls each registration once its status is reached or passed
(`RawCallback`, which copies the vector), and the callbacks of the copy run one at
a time (`CallNext`). Appending and copying are atomic here; in the code they may
race, with undefined outcomes.

### MemoryCallbacks

`Construct` allocates a list and registers `liberate_callback_list`; `AddDestructorCallback`
appends to the list and, if it then has one element, registers `raw_callback`;
when the last reference goes, the runtime pops what was registered, last first,
which is why `liberate_callback_list` comes last *of its list*. `associated_memobject()`
wraps the same `cl_mem` again, with a list of its own, so there may be two.

### CommandQueue

A command is told by what the host may rely on: `read` and `write` share host
memory, `device` commands do not, markers and barriers order. The runtime may
execute any command that was sent to the device (by `flush`, a blocking call,
`finish` or a wait) and is not held back by its wait list, a barrier, or, in order,
its predecessors; it may fail. What the host learns from calls that return is
recorded in `known`, and checked against what happened. A write reads its source
in a step of its own (`TakeSource`), and the host modifies the source as soon as it
may (`ModifySource`). `Upstream` is what the host relies on when it relies on one command:
the events it gave for it, those it gave for them, to the end of the chain.

The three forms of a command (`X`, `enqueue_X`, `enqueued_X`) and its overloads differ in whether
the call blocks and whether there is an event. They hand the same wait list to the same
`raw_X`: one action stands for all of them, which is why one line of `CommandQueue` may
stand for many of the code.

### Contexts

`wrapper[w]` holds the identifier, `single_device_id` and a share of the callback's
block. The counting is in Handles; here an OpenCL context lives while a wrapper
or an object created in it does, and its block while a wrapper that has a
share in it does. `raw` is not in the code: it tells the wrappers that stem from an
identifier, whose constructor initialises neither device nor callback. An
uninitialised device is any value.

### PropertyLists, Conversions, Rectangles, Versions, UnitTests

Pure functions, translated as operators and recursive functions. In
`PropertyLists` the state is the list appended (`list`) and the encoded vector
(`storage`): iteration and lookup are defined on the second and compared to the
first. `Conversions` makes a call with every input in its bounds and compares the
result to a reference definition written in another way (runs of letters for lists,
sets of moves for rectangles). `Rectangles` has both sides of a transfer. Its `raw_X_3d`
put what the caller means as source and destination in the place of OpenCL's arguments
(`buffer_origin` and `host_origin`, each with its pitches), its `raw_X_2d` and `raw_X_1d` make
three dimensions of two or one, and the result is the set of *moves*: pairs of a place read
and the place written, which is what OpenCL defines the call to do. `Moves2D` is what the
caller asks for. `Versions` follows the decoder: the minimal length, the
search for the dot and the space, and `std::stoul` as it is, with white space, signs,
trailing rubbish, its exceptions, and the narrowing to `unsigned int`. `UnitTests`
translates what the repository's own tests check and evaluates it on the models: an
independent witness that the models compute what the code does.

### Kernels, WorkGroups, Pipelines

`Kernels` says what one work-item stores, and where, for each kernel, with the index
arithmetic of the source; elements are integers, so that rounding is left out.
`WorkGroups` runs one launch of a kernel: a work-item of `transpose_local` loads an
element into the group's scratch memory (`Load`), waits for its group (`Barrier`) and
stores a transposed element (`Store`); the work-items of the groups under way
interleave, and no more groups than there are compute units are under way.

`Pipelines` has each program as the sequence of its calls (`Steps`), run by one host
against a runtime that starts, ends or fails any command its wait list allows. A
blocking call is the command and a wait for it; `finish` waits without telling
failures; kernel arguments are captured by the launch; a failed command leaves
anything in its output. Whole matrices move in one step, and the kernels are used
as the functions that `WorkGroups` shows them to compute. `InOrder` plays the same
calls one after another, and is what results are compared with.

### Enumerations

`Enumerate` is `select_device` up to the question it asks, over every small machine:
platforms that suit or not, with devices that suit, do not, or throw because their
version cannot be decoded. `ReadChoice` and `ReadNothing` are its loop.
`CreateSubDevices`, `WrapSubDevice` and `DropSubDevices` follow the references of
sub-devices through the vector of wrappers, and through an exception halfway.

## 3. What the runs show

Bounds are the constants in the `.cfg` files.

| Run | Instance | Shows |
|---|---|---|
| `MCHandles` | 3 wrappers, 2 counted objects and 1 that is not, 2 raw references, 2 exceptions; or 2 Events, 2 callbacks, 1 empty one, failing registrations | `CountsAgree`: no leak, no double release. `NoDangling`: no wrapper names a dead object, `w = w` included. `ExceptionCost`: each exception within `operator=` makes one count too low by one, and leaks nothing. `ImplementsOwnership`: refinement, up to the first exception. `StoreOutlivesRegistration`; `CalledTogether`: no callback is skipped by those set after it, none is called twice; `TimelyCallbackRuns` under fairness |
| `MCProgramBuild` | 2 devices, 2 Program objects, 2 builds | `NotifyFindsBlock`, `EventTellsTruth`, `NoLeak`; `ImplementsPromise`: builds do not overlap, an event is set once and suffices to create kernels; `EventSettles` and `CallbackFreed` under fairness |
| `MCProgramReject` | the same | violation, see section 4 |
| `MCEventLate` | the Events, without failures or empty callbacks | violation |
| `MCEventOrder` | the same | violation |
| `MCQueueMemory` | 3 commands of any kind, form and wait list, 1 failure; or 2 wrappers, 2 lists, 3 callbacks, 1 empty one, failing registrations | `DataArrived` (what a call that returns tells of the chain behind its command), `SourceIntact`, `BarrierSplits` (wait lists and barriers); `BlockedReturns` under fairness. `RegistrationsValid` (no use after free, no double delete), `ListsReclaimed`, `RunAsSet`, `StackPerList` |
| `MCContexts` | 3 wrappers, 2 contexts, 2 devices, 1 object; 3 properties, vectors of 2; lists of 6 characters, extents up to 3; versions of 6 characters of 6, `unsigned int` of 8 bits, `unsigned long` of 12 | `SingleDeviceKnown`, `MissedOnlyIfLetGo`; `ReadsBack`, `Lossless`; `DecodesItems`, `SameBytes`; `DecodesVersions`; `UnitTestsPass` |
| `MCContextsIdentifier` | 2 wrappers, 1 context | violation |
| `MCBuiltInKernels` | the same | violation |
| `MCWriteRectangle` | the same | violation |
| `MCExamples` | 4 x 4 matrices, groups of 2 x 2, 2 compute units; seven programs, 2 failures; 2 platforms of 2 devices, 2 words typed, 3 sub-devices | `LaunchComputes` and `LaunchEnds`: a launch ends with the transpose or the product. `RaceFree`, `ResultsSound`, `NothingOutlives`, `Concludes`: the programs. `OffersMatching`, `SelectionEnds`, `SubDevicesReleased`: lists of devices |
| `MCMatmul` | `application_matmul` without failures | violation |

### Why the bounds are enough

- Three wrappers are the target of an assignment, its source, and one that copies
  or destroys in between; two objects are assigned to each other. (The
  theorems do without bounds.)
- Two devices let a build succeed on one and fail on the other, two Programs
  let one outlive the other, and with a second build the first one's callback can
  be late.
- A vector of two callbacks is the least in which order, a hole, and a callback that finds
  the vector registered, exist. Three callbacks interleave over two lists.
- Of three commands one can be before a barrier and one after it, and a wait list
  can name two; three are the shortest chain with a link that the host did not wait for.
- Two contexts are what an assignment goes between; one object suffices to keep one
  alive.
- Three properties put one of either sort first, in the middle and last. Texts of six
  characters hold two items with spurious separators in front, between and behind.
  Extents of three exceed the size, equal it and are zero, on either side of a transfer
  independently.
- Six characters make version texts with two numbers and a vendor's information, or
  with a number that `unsigned int` cannot hold, or not even `unsigned long` (the widths
  are scaled down, and are parameters).
- A side of 4 in groups of 2 makes four work-groups, two of them off the diagonal, and
  2 compute units run two at once while two wait. The rectangles of `buffer_rectangle`
  are quarters of it. 2 failures hit two branches of a program.
- Two platforms of two devices have one with and one without what is looked for; two
  words are a wrong answer before a right one.

`CHECK_DEADLOCK FALSE` stands where the host may stop and nothing is left for the
runtime to do. Symmetry is used in `MCContexts` only (and its two variants not at
all), which checks no liveness: wrappers, contexts and devices are interchangeable.

### Fairness, and why

- `ProgramBuild`: the runtime finishes its compilations and callbacks, and
  `clBuildProgram` returns. The host owes nothing else.
- `EventCallbacks`: the runtime runs its commands and the callbacks registered; the
  owner of a user event sets it, without which its waiters wait by design.
- `CommandQueue`: what was sent to the device is executed; a call returns once it
  can. The host owes not even a `flush()`: blocking calls send what they wait for.
- In `MCHandles` and `MCQueueMemory` these are stated of the part that moves.
- `MCExamples`: weak fairness of the whole. Only one of its parts moves in a
  behaviour, and none has a cycle of steps that change something, so it comes to
  this: as long as a work-item, a command, the host or the user can go on, one of them
  does, which is no more than that the program is being run. Input may end: then
  `select_device` loops without a change, and `SelectionEnds` is about a user who types
  a number that was offered.

### Assumed of the host

What the documentation asks for: a Program stays in scope during an
asynchronous build without an event (`program.hpp:114`), an Event with callbacks was
processed or copied before it leaves its scope (`event.hpp:71`). Handles apart, one
host thread uses the library. The examples' side is even and a multiple of the group's,
as their sources demand. The number of platforms or devices does not change between
the call that asks for it and the one that lists them.

## 4. Where code and documentation differ

Seven differences are shown by runs that TLC must find violated:

- **`MCProgramReject`**: the callback is reset after the build event is set
  (`program.cpp:254`). A host that waits for that event and builds again at once may be
  told `InvalidOperation`, though nothing is being built.
- **`MCEventLate`**: a callback set after `raw_callback` copied the vector of its status is
  accepted and never called (`event.cpp:115`).
- **`MCEventOrder`**: the comment at `event.cpp:124` says "in reverse order (per OpenCL
  specification)" above a loop in the order of setting (line 125). It is the comment of
  `memory_object.cpp:90`, where the loop is in reverse; OpenCL asks that of destructor callbacks
  only. `CalledTogether` holds in either order.
- **`MCWriteRectangle`**: `raw_write_buffer_rect_3d` gives `clEnqueueWriteBufferRect` the
  host's offset and pitches as the buffer's, and the buffer's as the host's
  (`command_queue.cpp:570` and `571`): the order of the arguments is `buffer_origin`,
  `host_origin`, not source, destination. A write of a rectangle whose sides differ reads and
  writes other bytes than asked, in two dimensions and in three. Reads and copies are
  right (`SameBytes`), and so are writes whose sides agree, like that of the only example that
  writes a rectangle (`buffer_rectangle.cpp:73`).
- **`MCContextsIdentifier`**: the constructor from an identifier leaves
  `single_device_id` uninitialised (`context.cpp:28`).
- **`MCBuiltInKernels`**: the list of built-in kernels has as many names as there are
  devices, not as there are names (`context.cpp:313`).
- **`MCMatmul`**: `double_matmul_transpose` reads the row of its own output in both
  matrices (`matrix_multiply_double.cl:65` and `68`), so each column has the same sum and
  `application_matmul` ends in `std::abort()` at its own comparison.

Others were met while modelling. The models contain them, and the properties are
stated so as to allow for them, but no run of its own shows them:

- After a registration of an Event callback failed, the next callback of that status is
  accepted, finds two elements in the vector, and is never registered
  (`event.cpp:115`); hence the condition on `registered` in `TimelyCallbackRuns`. The
  same holds of `memory_object.cpp:80`, and of `RunAsSet`.
- Setting an empty callback while the vector holds one element registers
  `raw_callback` again: the one callback runs twice. Hence `empties` in
  `CalledTogether` and `RunAsSet`.
- Two wrappings of one `cl_mem` have two lists; the callbacks of both do not form one
  stack as those of OpenCL do. Hence *per list* in `StackPerList`.
- The constructor of MemoryObject leaks its list, and the reference it was given, when
  the registration fails (`memory_object.cpp:64`).
- The block of a context's callback goes with the last wrapper while objects keep the
  OpenCL context, which may still notify (`context.cpp:249`); `MissedOnlyIfLetGo` says that
  nothing else can bring this about.
- A `retain()` that throws in `operator=` leaves a wrapper that will release what it
  never retained (`event.cpp:45` and the other classes); `ExceptionCost` bounds it.
- A suitable platform without a device, or with one whose version cannot be decoded,
  makes `get_filtered_devices` throw although other platforms have what is looked for
  (`platform.cpp:59`); hence the second alternative in `OffersMatching`.
- An exception between `clCreateSubDevices` and the last wrapper loses the sub-devices
  that have none yet (`device.cpp:146`); `SubDevicesReleased` says that it loses no other.
- A zero within a `std::vector` value ends that value when the list comes back from its
  OpenCL form, which marks the end of a value with a zero (`property_list_impl.hpp:168`);
  hence `Meaningful` in `Lossless`.
- When the input ends, `select_device` asks for ever (`shared.hpp:73`).
- `std::stoul` lets `out_of_range` escape where `InvalidArgument` is documented, takes signs
  and text after a number, and its result is narrowed without a check
  (`version.cpp:47`); hence the bounds in `DecodesVersions`.
- `buffer_readwrite` may let the last Event of a callback go before the callback has
  run (`buffer_readwrite.cpp:69`), which `EventCallbacks` excludes, as `event.hpp:71` does.
- `finish()` does not report failures, so `buffer_readwrite` may compare the data of a
  command that failed; `ResultsSound` says that the comparison then tells.

## 5. What is proved

Each theorem holds for every value of the constants that the named assumption of the
module allows, and TLC evaluates that assumption in the runs. Each invariant
needed a stronger one that every step preserves, `IInv`; it was checked with TLC
before it was proved. The proofs have the same parts: `IInv` holds
initially, one lemma per action says that it preserves `IInv`, and the last theorems
draw the property that the runs check from it.

| Module | Theorem | States |
|---|---|---|
| `HandlesProofs` | `TypeCorrectness` | `Spec => []TypeOK` |
| | `ExceptionSafety` | `Spec => []ExceptionCost` |
| | `CountTheorem` | `Spec => []CountsAgree` |
| | `DanglingTheorem` | `Spec => []NoDangling` |
| | `OwnershipRefinement` | `Spec => ImplementsOwnership` |
| `ProgramBuildProofs` | `TypeCorrectness` | `Spec => []TypeOK` |
| | `BlockFound` | `Spec => []NotifyFindsBlock` |
| | `BlockFreed` | `Spec => []NoLeak` |
| | `EventTruth` | `Spec => []EventTellsTruth` |
| | `Refinement` | `Spec => ImplementsPromise` |
| `EventCallbacksProofs` | `StoreOutlives` | `EventSpec => []StoreOutlivesRegistration` |
| | `CallsTogether` | `EventSpec => []CalledTogether` |
| `MemoryCallbacksProofs` | `AddressesValid` | `Spec => []RegistrationsValid` |
| | `ListsDeleted` | `Spec => []ListsReclaimed` |
| | `RunOnce` | `Spec => []RunAsSet` |
| | `ReverseOrder` | `Spec => []StackPerList` |
| `CommandQueueProofs` | `ChainsArrive` | `QueueSpec => []DataArrived` |
| | `SourcesIntact` | `QueueSpec => []SourceIntact` |
| | `BarriersSplit` | `QueueSpec => []BarrierSplits` |
| `ContextsProofs` | `DevicesKnown` | `Spec => []SingleDeviceKnown` |
| | `BlockFound` | `Spec => MissedOnlyIfLetGo` |
| `EncodingsProofs` | `ReadsBackTheorem` | `ListSpec => []ReadsBack` |
| | `LosslessTheorem` | `ListSpec => []Lossless` |
| | `ItemsTheorem` | `CallSpec => []DecodesItems` |
| | `RectanglesMoved` | reads and copies move `Moves2D(source, dest, size)`, writes `Moves2D(dest, source, size)`, for all sides and sizes |
| | `SentAsAsked` | `CallSpec => []SameBytes` |
| | `VersionsTheorem` | `VersionSpec => []DecodesVersions` |
| `ExamplesProofs` | `LaunchTheorem` | `GroupSpec => []LaunchComputes` |
| | `SubDevicesTheorem` | `EnumSpec => []SubDevicesReleased` |
| | `OffersTheorem` | `EnumSpec => []OffersMatching` |
| | `RaceFreeTheorem` | `PipeSpec => []RaceFree` |
| | `ResultsTheorem` | `PipeSpec => []ResultsSound` |
| | `OutlivesTheorem` | `PipeSpec => []NothingOutlives` |
| | `AbortsTheorem` | `PipeSpec => []AbortsForCause`: no program aborts but `application_matmul`, and `buffer_readwrite` after a failure |

Modules whose `IInv` is of interest to a reader also have `Invariance`,
`Spec => []IInv`.

**`HandlesProofs`**, for any finite set of wrappers, any objects, and any
bounds (`HandlesAssumption`: `Wrappers` is finite, `Counted` is a subset of
`Objects`, `None` is no object and no wrapper, the bounds are natural numbers).
`CountsAgree`, `NoDangling` and the refinement speak of the states, or steps,
before the first exception in `operator=` (`throws = 0`); `ExceptionCost` speaks of
all. No theorem bounds how many exceptions there are.

The inductive invariant is `IInv == TypeOK /\ SourcesReadable /\ ExceptionCost`.
`CountsAgree` is not inductive in a system that may throw, so the count equation is kept
with a slack of `throws`; before the first exception the slack is 0 and `CountsAgree`
follows (`CountsFollow`). `SourcesReadable` says that an assignment half way through has a source that
is constructed and is not being assigned to: without it, a step that destroys or
assigns the source could not be excluded, and the second half would retain nothing.
Counting goes through `CountChange`: when one wrapper changes owner, one cardinality
falls by one, one rises by one. `NextShape` settles types and sources, for which no
count is needed; `OwnerSteps` brings each action down to what it does to ownership,
so that the count equation and the refinement are argued once per way of changing
owners. `NoDangling` and the refinement then follow from the count:
an object with an owner has a positive count, and one whose last owner goes has none.

**`ProgramBuildProofs`**, for any devices (one at least), any number of Programs and
of builds. The block has room for one callback, and that callback stands for the one
build in progress: `OneBuild` says at which of three stages it is (being called,
compiled, or notified), and that with none stored only a synchronous build can be in
progress. This is what makes `raw_callback` find a callback, and not a later one's.
`BlockHeld` says that a user's callback leaves the block to the host's Programs, since
only the lambda of an event-based build captures one. For the truth of events,
`StatusKnown` follows the lambda's loop (what it has left behind was built),
`EventsAgree` ties the event to the stage of its build, and `WorkLatest` with
`Ordered` exclude that a later build has changed what the event is about. The
refinement has one lemma per action, `StepX`, which says which step of `BuildPromise`
it is, or that it is none: the outcome is promised when the event is set
(`Unreported` ends), or, without an event, when the compilation ends.

**`EventCallbacksProofs`**, for any Event objects and callbacks, and any number of
empty callbacks. `Placed`, `StoredKnown` and `NoTwice` give each callback its one place in one
vector. `RegisteredOnce`, `Turns` and `OncePerTurn` count: one registration per vector
and one more per empty callback, one `raw_callback` per registration, one call per
`raw_callback`. That there are no holes is `Stretch` (what a `raw_callback` has left to call is
a stretch of its vector, and what lies before it was called) with `Reached` (what was called
is the beginning of its vector). That the last
Event is not dropped while a registration waits is `FirstWaits`: the first callback
of a registered vector was accepted and has not been called, and the host keeps an Event
while there is such a callback (`event.hpp:71`).

**`MemoryCallbacksProofs`**, for any wrappers, lists and callbacks. `Reclaimable` says
that a list in use still has its registration of `liberate_callback_list`, which is not
above any other of the same list (`RegistrationsValid`). The rest follows a callback from
its place in a list (`OnePlace`) to the registration (`RegisteredFull`, `Kept`), to
the `raw_callback` at work (`Backwards`), to the log (`LoggedListed`). `Bounded` is a
conservation law: calls made, plus registrations to come, plus one for the call
at work, never exceed one and the empty callbacks.

**`CommandQueueProofs`**, for any number of commands, of failures, in order or out of
order. What `Execute` asks of one command becomes a fact about every pair, which later
steps cannot undo: a command that has ended has nothing before it that has not
(`Ordered`), one that succeeded waited for nothing that failed (`Succeeding`). The sets of
commands that have ended, and of those that went well, are therefore closed under wait lists,
and hold the whole chain behind each of their members (`ChainsClosed`); `DataArrived` follows
from that and from `KnowledgeIsTrue`, which says that what a call that returned told of one
command is so. No induction along the chain is needed, for `Upstream` is defined by the sets
that are closed. `Sources`
says of a write that has not taken its source that it has not ended, and, if the call
promises the source back, that the call has not returned.

**`ContextsProofs`**, for any wrappers, contexts, devices and objects
(`ContextsAssumption`: the values that stand for no device, an uninitialised one and
no context are none of these, and the record of a context is not `None`). A wrapper knows
the truth because its members came, through any chain of copies, from the constructor
that made its context (`SharesBlock`, `SingleDeviceKnown`), and because no context that
something names is made again (`NamesMade`). `BlockFound` is an action property: a
notification that finds no block comes after the last such wrapper let go.

**`EncodingsProofs`**, for lists and vectors of any length and any numbers in them
(`PropertyListsAssumption`: names are numbers but zero, a name is of one kind). The
library's induction rules cannot be used, but the fact behind them can: a set of numbers that is
not empty has a least element (`Least`, from `WFMin`). It gives an induction from a
bound downwards (`Downwards`), and that a function that calls itself for greater numbers
only exists at all (`Recursion`), without which nothing could be said of `Iterate`,
`Find`, `OpenclView` and `Parse` (`IterateFrom` and its like). The
invariant `ListInv` says that `storage` encodes `list`: there are indices, one per
property, where a view shows that property and `Advance` leads to the next
(`Encodes`). `Extended` adds one behind the others, and `ViewKept` says that those in
front are not disturbed. `IteratesOver` and `FindsFirst` walk down from the last of them. For the way
through OpenCL, what is left of `storage` at an index is what `append()` wrote for
the property there, followed by what is left at the next (`Slice`); its OpenCL form
likewise; and `Parse` turns the one into the other (`ParsesProperty`). So
`ThereAndBack` shows more than `Lossless`: `GiveBack` changes no number of
`storage`. `ListInv` speaks of a function on indices that TLC cannot enumerate; what TLC
checks is what it implies.

For `decode_opencl_list` and a text of any length, `Shows` says that items are the runs
that start at some index or later: there is a sequence that lists those starts in order, and the
items are the runs from there. `Segment` puts a run, if there is one between two separators, before what is shown
behind the second, so that by `Downwards` every call of the loop shows what it
should (`MiddleShows`). `Runs` names its starts by how many there are before;
`NthInOrder` says that this is their order.

For `decode_version_string`, and a text of any length over any characters:
`CharacterFound` says where `find` stops, so that in a text of the documented form the
dot it finds is the one behind the major number, which has none, and the space the one
behind the minor number. `NumberPart` and `NumberDecoded` follow `std::stoul` through
what is nothing but digits; `Accumulation` gives `Number`, a recursive function, its
value. The only assumption on the widths is that `unsigned long` is not narrower than
`unsigned int` (`VersionsAssumption`): a number that the latter holds is neither out of
range nor narrowed.

For rectangles, `ByteTo3D` says where a cell of one slice lies, and `MovesTo3D` that the moves
in three dimensions are those in two, whatever the offsets and pitches of either side. So
`RectanglesMoved` says what each of the functions does to its caller's rectangle: a write
moves what would be right if its sides were exchanged, and by `AgreeingSides` what was
asked for if they agree. `SentAsAsked` has the read, the copy, that write and
the regions of images in every call (`CallsMoved`).

**`ExamplesProofs`**, for every side of a matrix, every side of a group that divides it,
any number of compute units, and every interleaving of the work-items (`SideAssumption` and
`GroupAssumption`); of the two inputs, the proof uses only that they hold integers. `Mate` is the
work-item of the same group that loads what a given one stores; `Mates` says that
this is so, of the index arithmetic of `transpose_local.cl`, and is an involution. It
rests on lemmas about quotients and remainders (`DivUnique`, `DivOf`), which the
solver does not find. Then, in `LaunchInv`, a work-item past the barrier has a group
that has loaded (`BarrierLocal`), what was loaded is the mate's element
(`Loaded`, `Gathered`), and what was stored is right and stays right (`Written`), because
no two work-items store in one cell (`StoreApart`). At the end every cell is
some work-item's (`CellServed`). For `SubDevicesTheorem`, every sub-device has
exactly one reference while they are being wrapped (`SubDevicesCounted`).

For `OffersTheorem`, `Flattened` says of lists that follow each other, each of them
sorted and each before the next, that together they are sorted and have the members of all of
them; `Copied` says of `std::copy_if` that it keeps the order and takes those that
are liked. Both are proved for lists of any length, from the fact that a set of numbers
has a least element (`Upwards`). They are used twice, for platforms and for devices
(`PlatformsFiltered`, `DevicesFiltered`, `AllFiltered`). `Offered` is the invariant: what the user
is offered is what `get_filtered_devices` returned for the system, whatever was typed since.

**The example programs**, in the same module, for every even side, any subset of the seven
programs, any number of failures and every order in which the runtime executes their
commands (`PipelinesAssumption`). A program is a given sequence of calls; what is to be proved is
that these are ordered enough. The argument has four parts:

1. `Schedule` says of each command which step submits it and which commands are complete
   when it runs: those it waits for, those *they* waited for, and those the host
   waited for before. `Scheduled` says that this follows from the steps, that any two commands
   of which neither is before the other do not conflict (`PairScheduled`), and that where results are
   compared and where `main()` returns, everything has been waited for or finished. It is
   proved for each program (`BufferCopyScheduled` and its like), by expanding its steps. The
   arguments of launches are followed through `create_kernel` and `set_argument`
   (`TwoArguments`, `ThreeArguments`), and the two rectangles of `buffer_rectangle` are
   apart for every side (`QuartersApart`).
2. `PipeInv` is the invariant of the host and the runtime: what is enqueued is what the
   steps taken submit (`Enqueued`), what the host has waited for is complete (`Waited`),
   what it has finished is settled (`Finished`), and a command has only run after those that the
   schedule puts before it (`Ordered`). `RaceFree` and `NothingOutlives` follow.
3. `MemoryInv` says what is in memory while commands run in any order. An element is what
   it is after the first `i` steps executed one after the other, for every `i` such
   that, of the commands that write it, exactly those of the first `i` steps are done
   (`RunUntil`, `InOrderMemory`). It is inductive because conflicting commands are
   ordered: what a running command reads is what it would have read in order (`ReadsInOrder`), its
   effect depends on nothing else (`PerformReads`), and no later command has written
   its output yet. Where all is complete, memory is that of the calls in order
   (`CompleteInOrder`), which is `ResultsSound`. `buffer_readwrite` alone can
   compare after a failure: then its output was never read back (`ReadBack`), and
   the comparison tells.
4. What the calls in order compute is worked out for five of the programs
   (`RectangleConfirms` and its like): copies arrive, the right quarters are the opposite
   left ones, all sums are equal, and both transpositions agree, the naive one by
   `NaiveTransposes`, the local one being what `LaunchTheorem` shows. So `AbortsTheorem`:
   their comparisons succeed for every even side. `buffer_fill_map` never aborts, and
   `application_matmul` does (section 4).

**Only model-checked**, and why:

- Every liveness property: `EventSettles`, `CallbackFreed`, `TimelyCallbackRuns`,
  `BlockedReturns`, `LaunchEnds`, `Concludes`, `SelectionEnds`. The prover has no
  ENABLED.
- `UnitTestsPass` evaluates functions on given inputs: TLC computes them, and there is
  nothing to generalise.
- The properties that are expected to be violated (section 4).

## 6. What is not modelled

- *Buffers destroyed before the kernel that uses them*: `clSetKernelArg` retains nothing.
  In the programs modelled the buffers are declared first and destroyed last.
- *Queries* (the getters of every class) change nothing. Those in `queries.cpp` ask for
  a length and then for the items; that devices might appear or go between the two
  calls (`queries.cpp:31`) is assumed away, not shown.
- *Tables of error codes, names of enumerators, output operators*: straight-line code.
- *Sub-buffers*: one more `cl_mem`, with the life cycle of the others.
- *User events across queues*: the wait lists of `CommandQueue` name commands of the
  same queue, so the deadlock of a host that blocks on its own user event
  (`command_queue.cpp:482`) is not in the model.
- *Data races*: two host threads in one Program, or an append during the copy of a
  vector (`event.cpp:112`). Their outcomes are undefined, and every property would fail.
- *Exceptions in destructors* (`event.hpp:43`): they end the program.
- *Rounding*: the matrices hold integers, and the tolerance of `application_matmul` is
  kept as it is.
- *Examples that print what queries return* (`clpp_info`, `kernel_object` and others), *build
  files, documentation*: no behaviour to check.

## 7. Plan

Done, in order of importance: `Handles`, `HandleOwnership` and their proofs, on which
everything else relies; `ProgramBuild`, the most intricate protocol of the library,
and `BuildPromise`; `EventCallbacks`; `MemoryCallbacks`; `CommandQueue`; `Contexts`;
`PropertyLists`, `Conversions`, `Rectangles`, `Versions`, `UnitTests`;
`Kernels`, `WorkGroups`, `Pipelines`; `Enumerations`.

Theorems, in the order in which they were proved: `Handles` and its refinement;
`Contexts`; `ProgramBuild` and its refinement; `CommandQueue`; `MemoryCallbacks`;
`EventCallbacks`; `WorkGroups`, sub-devices and calls with rectangles; `PropertyLists`;
`Conversions`; `Versions`; the devices offered; `Pipelines`.

Left: user events in the wait lists of two queues, `EventCallbacks` and `CommandQueue`
composed.
