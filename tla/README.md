# AnDbg in TLA+

AnDbg is a debugger for Android on arm64: a server that runs on the device, takes
commands over TCP and controls another process with `ptrace`. These modules specify
its breakpoint table, its execution control, its stepping over instructions with
breakpoints set, its search for the process to attach to, its launch of apps, its
register and memory commands and its RPC server.
TLC checks them on small instances; TLAPS proves, for instances of any size, the
invariants and action properties, and the refinements of the abstract specifications.

Paths below are relative to the repository (`src/src/` holds the program).

## 1. The system

One process with one working thread. `RPCServer` reads a request, looks its command
up in a table that `main.cpp` fills, calls the handler, and sends the answer; the
handler parses its parameters and calls one method of `DebuggerCore`, which uses
`BreakpointManager`, `MemoryControl`, `RegisterControl`, `ProcessHelper` and the
system call wrappers of `Utils`. Calls are synchronous: there are no callbacks, no
queue of events and no second thread in the debugger. What is concurrent is
everything else: the threads of the target, the kernel that delivers signals to
them, the zygote that forks, the children that run, the clients that come and go.

| Component | State | Operations | Interacts with |
|---|---|---|---|
| Breakpoint manager (`breakpoint_manager.cpp`) | table of breakpoints, index by thread, index by address, pool of debug registers and count per thread, next id | set, remove, enable, disable, for software and hardware breakpoints; query of the register count; lookup | writes words and debug registers of the target through `MemoryControl` and `RegisterControl` |
| Execution control (`debugger_core.cpp`) | `m_pid`, `m_tids`, `m_current_tid` | attach, detach, kill, resume, pause, step into, step over, switch thread | the kernel (`ptrace`, `kill`, `waitpid`), `/proc` |
| Launch (`debugger_core.cpp:162`) | local: the zygote, the fork looked at, the app matched, the deadline | launch | the kernel, `am`, attach |
| RPC server (`rpc_server.cpp`) | `running_`, `connected_`, `current_client_fd_` | start, accept, read, handle, send, stop | the clients, the handlers |
| Process discovery (`process.cpp`) | none; a listing holds pointers into the buffer of its `DIR` | list threads, state of a thread, pids of a package | `/proc` through `File`, `ps`, `pidof` |
| Files (`file.cpp`) | the open file or directory | open, read, list entries | the file system |
| Memory (`memory_control.cpp`) | none; a transfer counts what it has moved | read, write, parse maps | `process_vm_*`, `ptrace` |
| Registers (`register_control.cpp`) | none | read and write general, floating-point and debug registers | `ptrace` |
| Utilities (`utils.cpp`) | none | wrappers of system calls, byte order, hexadecimal, alignment | |
| Handlers (`main.cpp`), assembly, log, status, singleton | none that matters here | | |

What makes each one correct, and what is hard about it:

* **Breakpoint manager.** The target's text must be the program's own except at
  enabled breakpoints; what is restored must be the original word; the indexes must
  lead to the table; a debug register must be neither lost nor shared. Hard: a call
  changes the target, a flag, two indexes and a pool one after the other, and any
  access to the target may fail in between; breakpoints outlive the process they
  were set in; the pool is filled by one call and consulted by another.
* **Execution control.** After attach every thread of the session is traced and
  stopped; after detach it runs; a call ends. Hard: threads trap, take signals, start
  and exit between any two system calls; a state read from `/proc` is stale when it
  is acted upon; the SIGSTOP that `PTRACE_ATTACH` sends may still be pending after
  the thread has stopped for another reason; signals sent to a process merge;
  `waitpid` blocks the only thread there is.
* **Stepping over.** The temporary breakpoint must go whatever becomes of the thread, the
  thread must end where the step says, the program's text must be its own again. Hard: the
  target runs between the system calls of a step, into other breakpoints, into signals, into
  its own exit; the breakpoint manager writes through a thread that may be gone; detach and
  kill leave breakpoints behind that later commands meet.
* **Process discovery.** Attach by name must find the process that has the name and the
  threads of that one. Hard: processes start, take names, exit and pass their pid on between
  the listing of `/proc`, the reading of a command line and the listing of threads; the
  records of a listing are read after the buffer they lie in has been filled again.
* **Memory commands.** A write changes its range and nothing else, a read returns what is
  there. Hard: a transfer that has come to a page it may not access starts over with other
  system calls, which move whole words, while the target writes, stops and dies.
* **Launch.** The app that was asked for is caught before it gets far, the zygote is
  let go, and the deadline holds. Hard: `waitpid(-1)` reports the zygote, its children
  and the app in any order; `PTRACE_DETACH` works on a stopped process only, and
  its result is ignored.
* **Register commands.** What is written is what was asked for and nothing else; what
  is read belongs together. Hard: a request is worked through entry by entry, each with
  system calls of its own, and may fail at any of them; changing one register writes back
  the whole set.
* **RPC server.** Each request gets its own answer, on its own connection, in order;
  after a client that leaves the next is served, unless what it left ends the server. Hard: a client leaves in the middle of a
  message or with answers outstanding.

`PROJECT.json` lists the hazards line by line with the properties that cover them.

## 2. The modules

| Module | Models | Extends |
|---|---|---|
| `BreakpointManager` | the breakpoint manager next to the words and debug registers of the target | |
| `TrapTable` | what its software side promises: the abstract specification | |
| `BreakpointManagerPromise` | the refinement mapping to `TrapTable` | `BreakpointManager` |
| `MCBreakpointManager` | instances | `BreakpointManagerPromise` |
| `BreakpointManagerProofs` | proofs | `BreakpointManagerPromise` |
| `TraceSession`, `MCTraceSession`, `TraceSessionProofs` | execution control against the kernel's rules | |
| `Launch`, `MCLaunch`, `LaunchProofs` | launch against the zygote and its children | |
| `RegisterCommands`, `MCRegisterCommands`, `RegisterCommandsProofs` | write_registers and read_registers against the register sets of threads | |
| `RPCServer`, `MCRPCServer`, `RPCServerProofs` | the server against its clients | |
| `Dialogue` | what the server promises its clients: the abstract specification, to which `RPCServer` has the mapping | |
| `Stepping`, `MCStepping`, `SteppingProofs` | the breakpoint commands, step over and the session next to a target that runs | `BreakpointManager` |
| `MemoryCommands`, `MCMemoryCommands`, `MemoryCommandsProofs` | read_memory and write_memory against the pages of the target | |
| `Discovery`, `MCDiscovery`, `DiscoveryProofs` | attach by package name against tasks that come and go | |

A definition whose comment begins with "Mistake" is not part of a model. It is the
definition after it with a plausible bug; `PROJECT.json` pairs each with the property
that TLC finds violated when the bug is put in.

### BreakpointManager

One action is one call of a public method, because nothing else runs in the debugger
while it does. The variables are the members of the class (`breakpoints`,
`tidBreakpoints`, `addressIndex`, `freeRegisters`, `registerCount`, `nextId`), the
target (`code`, `dbg`, `alive`) and the last `reply`. Every access to the target may
fail: it must when the thread is gone (`alive`), it may when it is there. Each early
return of the code is a disjunct with its own reply (`throw` for the exception of the
`Breakpoint` constructor, `no_register`, `fail`).

* `PatchNew`, `ProgramNew`, `RestoreAndForget`, `DisarmAndForget`, `SwitchSoftware`
  and `SwitchHardware` are the successful ends of the calls, in which target, table and
  indexes change; they are what the proofs are about (`Change`).
* `FirstProbe` is `init_hardware_register`: it writes a probe into every debug register,
  counts those that read back and restores them. The count is stored as 0 before
  anything can fail, so that a probe that failed is never repeated.
* `Forget` leaves the address in `addressIndex`, as the code does.
* `WriteWord` follows `write_memory`: `process_vm_writev` writes to pages mapped
  writable, and its fallback passes *the address of* the word to `PTRACE_POKEDATA`.
  `Writable` says which addresses are which, `Pointer` is half of such an address, and
  `Exact(p, a)` holds where neither the word at `a` nor the one before it is
  written through the fallback. The properties about text are stated for
  `Exact` addresses; elsewhere the instruction and its neighbour become a pointer of the
  debugger, which `WriteLands` of `MemoryCommands` states for the write itself.

An address is aligned or not (`a % 4`), a word is a model value. The names of kinds,
the formatting of messages and the getters that copy the table are left out.

### TraceSession

One action is one system call, with the code up to the next one. `call` says which
operation is under way, where it is (`at`), which threads its loop has yet to meet
(`todo`), which it has attached (`got`), and whether anything has failed (`ok`).
`kernel`, `traced`, `queued` and `shared` are the target as Linux keeps it: the state
of each thread, its tracer, SIGSTOPs pending for one thread (those of
`PTRACE_ATTACH`) and the job-control signal pending for a process.

The rules of the kernel that matter: a traced thread that takes a signal stops alone,
one that nobody traces stops its process (`Take`, `GroupStop`); SIGCONT discards
pending SIGSTOPs and wakes a stopped process (`SendCont`); `PTRACE_CONT`,
`PTRACE_DETACH`, `PTRACE_SINGLESTEP` and `PTRACE_SETOPTIONS` need a stopped tracee; a
dead traced thread stays until its tracer collects it, and a main thread until all
other threads are collected (`Reapable`). Assumed of the environment: no other tracer,
no other sender of job-control signals, permission to trace, thread ids not reused, a
main thread that exits only with its process.

### Launch

`at` is the place in `launch` (`debugger_core.cpp:162-334`), one action per system call
that changes or reads the target, the pause after a fork included in `Look`. `news`
holds the changes `waitpid(-1)` has not reported yet, which it may report in any order.
`late` says that the deadline has passed; the loop looks at it before `waitpid`, so
each `Poll` action needs `~late`.

Simplified: a process is its main thread; children do not fork; threads of a session
that is already open are not there (see the plan); `PTRACE_GETEVENTMSG` into a variable
of four bytes is taken to deliver the pid. Left out because no state reaches them: the
branch for a negative result of `waitpid`, which would need a debugger without children,
and the branch that continues a system call stop, which needs `PTRACE_SYSCALL`.

### RegisterCommands

One action is one `PTRACE_GETREGSET` or `PTRACE_SETREGSET`, with the code up to the next one.
A request has a part for each register set (missing, malformed, `"all"`, or a list), and
`Steps` is what the loops of `write_registers` and `read_registers` meet, in their order.
`call` is the call in progress, and afterwards the last one: its steps, the `next` one, the
`copy` of a register set between get and set, the `result` of a read. `life` and `regs` are
the target: a thread's registers can be accessed while it is stopped, it stays stopped until
a command lets it run, and it may be killed at any time. A value is a number, of which
`hex_str_to_num` keeps the low bits (`Value`), a string that is no number, or no string;
the last ends a write with an exception, because the message about it asks for the string.
Left out: bits that the processor reserves and the kernel clears, and the wording of failures.

### RPCServer

`at` is where the server's thread is. A request is one of the kinds the code tells
apart (`AllRequests`); a handler is the verdict it returns. The network is external: a
connection is `open`, `closed` by the client, `reset` after something was sent to a
client that had closed, or `broken`. `EndClient` is the end of the loop in
`server_loop`; `AcceptFails` includes `stop`, which the destructor calls.

`Dialogue` knows nothing of connections, places in the server or lost answers: clients
join a line, ask, are served one at a time, are given the answers due to them one by one, and
leave. The mapping takes the clients that have connected for the ones known, the queue of
the kernel for the line, the current client for the one served, the verdicts on the requests
sent (`Due`) for the answers due, and the answers received for those given.

### Stepping

This composes the breakpoint manager, a session and a target. It extends `BreakpointManager`
and uses its table, its words and the successful ends of its calls (`PatchNew`,
`RestoreAndForget`, `SwitchSoftware`); a call fails when the thread it goes through is gone.
`step_over` is five actions: `StepOver` reads the program counter and the next instruction,
`SetTemporary`, `ResumeCurrent`, `WaitCurrent` and `RemoveTemporary` are the system calls of
`single_step_impl` in order, and `step` is where it is. The session commands are one action
each, with the outcome they have in `TraceSession` when nothing interferes: `Detach` and `Kill`
leave the breakpoints where they are, `Kill` leaves `m_current_tid`.

The target has a program: `Flow` says where each instruction may lead. A running thread
executes the word it is at; a BRK stops it in front of the BRK if it is traced (`Trap`) and
ends its process if it is not. Signals stop traced threads, threads exit, the system kills
processes. `Reported` is what a blocking `waitpid` waits for.

Simplified: the pages are writable, so that the fallback of `write_memory` plays no part; the
program has no BRK of its own; a signal is not told from another; starting threads are left to
`TraceSession`.

### MemoryCommands

Memory is a row of units, `WordSize` of them in a word that ptrace moves (eight bytes in the
code). `Begin` is the handler with the checks of `DebuggerCore`; one `VmRead` or `VmWrite` moves
one unit, because the target may write between two units of one `process_vm_*` call; `VmStops`
is the partial transfer that the code does again from the start with ptrace; `PeekWord`
and `PokeWord` are one `ptrace` call each. `done` is `bytes_read` or `bytes_written`.
`Open` pages can be accessed with `process_vm_*`, `Mapped` ones with ptrace as well, when the
main thread, whose id both use, is in a tracing stop.
`Poke` writes a `Pointer`, as `memory_control.cpp:67` does, and the data read back for the tail
of a request does not matter for the same reason.

Simplified: reading needs the same pages as writing (`Open` is pages mapped `rw`); a page that
`process_vm_readv` may read and `process_vm_writev` may not would make reads succeed at once.
Mappings do not change during a behaviour.

### Discovery

`find_pid_by_package_name` lists `/proc` (`ListProc`), then looks at the entries one by one
(`Match`), `attach` takes the lowest pid that matched (`Choose`), `get_thread_ids` opens
that process's task directory (`OpenTask`), lists it (`ListTask`) and keeps the names that are
numbers (`TakeIds`). Tasks start, take the name and exit between any two steps, and an id
that is free may be given out again.

`list_entries` keeps the pointers that `readdir` returns. `records` are the ids in the order they were
returned; the buffer of a `DIR` holds `BufferSize` records and is filled again when they
have been returned, so that entry `i` reads as the `LastRecord` written to its place, or as something
that is no number, because records differ in length. `Entries` has both outcomes.

Simplified: entries come in the order of their ids; a dead process is collected at once; entries
of `/proc` that are no processes are left out; the ids `get_thread_ids` returns are a set,
so that an id it returns twice is not told apart; reading a command line is one step. An attach that finds no
process reads the first element of an empty vector, which is undefined: the model
ends there, in `"crashed"`.

## 3. What is checked

| Run | Properties | Instance |
|---|---|---|
| `BreakpointManagerSoftware` | `CodeTransparent`, `SavedOriginal`, `OneBreakpointPerAddress`, `KeepsPromise`, `StaleKeepTheirAddress` | two processes, three threads, three addresses in two pages, one of them read-only in one process, 3 breakpoints |
| `BreakpointManagerHardware` | `TypeOK`, `IndexesAgree`, `RegisterAccounting`, `ArmedMatches` | two threads with two debug registers, two addresses and an unaligned one, 3 breakpoints of any kind |
| `TraceSession` | `SessionHasMainThread`, `AttachedStopped`, `DetachedRuns`, `PauseTakesEffect`, `CallsAreAnswered` | two processes, one with a worker that starts late |
| `Launch` | `TypeOK`, `LaunchedIsAttached`, `SuccessReleasesZygote`, `LaunchEnds` | the zygote and three children |
| `RegisterCommands` | `TypeOK`, `WrittenInOrder`, `ReadIsSnapshot`, `OnlyTheNamedRegister` | two threads with two registers in each set, 72 requests |
| `RPCServer` | `AnswersMatch`, `OneDialogue`, `KeepsDialogue`, `RequestsAreServed`, `LeavingFreesTheServer` | two clients with two requests each |
| `Stepping` | `NoTemporaryLeft`, `StepOverLands`, `BreakpointsKept`, `StepOverEnds` | a process with two threads and three instructions, 2 breakpoints |
| `MemoryCommands` | `OnlyTheRange`, `WriteLands`, `ReadIsPrefix`, `TransfersAdvance`, `TransfersEnd` | four pages of four units, words of two, two requests of at most four units |
| `Discovery` | `NewestAreFound`, `OneProcess`, `TargetHasTheName`, `AttachEnds` | four processes, two of them with the same pid, one with three threads; a buffer of two records |

* **CodeTransparent** says that no order of set, enable, disable and remove, with
  failures in between and in two processes, leaves a BRK behind, loses one, or
  restores anything but the program's own word. **SavedOriginal** and
  **OneBreakpointPerAddress** are why.
* **KeepsPromise** is the refinement: each call is one step of `TrapTable` or none, so
  that table and target change together and no id is given out twice. The mapping
  reads the trap of a process off its text, not off the table.
* **StaleKeepTheirAddress**: a software breakpoint is written through the thread it was set for, and
  the duplicate check compares addresses only. Once that thread has gone, no call removes or switches
  the breakpoint, sets another at its address in any process, or changes the word there: its BRK stays
  in while the rest of its process runs, and the process debugged next can have no breakpoint there.
  The instance has that next process, and the mutant, a duplicate check that passes over breakpoints of
  processes that have gone, is refuted in it. Thread ids are not given out again in the model.
* **IndexesAgree**, **RegisterAccounting**, **ArmedMatches**: the indexes lead to the
  table in spite of stale addresses; registers move between pool and breakpoints
  without loss; a register is programmed as its breakpoint says, probe or no probe.
* **SessionHasMainThread**, **AttachedStopped**, **DetachedRuns**: what a session, a
  successful attach and a successful detach guarantee, whatever happens between their
  system calls. `DetachedRuns` depends on the SIGCONT that detach sends first: without
  it the SIGSTOP of an attach can stop the process after it was let go.
* **PauseTakesEffect** is the part of `PauseStopsAll` that the code does keep: a pause that
  answers with success leaves a SIGSTOP pending or a thread of the process standing, unless no
  thread is left. It holds although a thread may trap, run into an earlier signal or
  exit between the look at it and the `kill`.
* **CallsAreAnswered**: every call ends, with two exceptions that the property names. A step
  lasts as long as the instruction; and `waitpid` never returns a main thread whose
  process died while other threads of it were traced (`Uncollectable`).
* **LaunchedIsAttached**, **SuccessReleasesZygote**, **LaunchEnds**: a launch that succeeds
  has the app and not the zygote, and every launch ends.
* **WrittenInOrder**, **OnlyTheNamedRegister**: a write leaves the request done up to the
  first step that cannot be done, and nothing else touched, although every step writes a
  whole register set back. **ReadIsSnapshot**: registers fetched one by one belong to one
  moment, because what can happen in between makes the next fetch fail.
* **AnswersMatch**, **OneDialogue**: the n-th answer is the verdict on the n-th request of
  that client. **KeepsDialogue** is the refinement of `Dialogue`: clients are served once
  each, in the order in which they connected, and are given nothing but while they are
  served. **RequestsAreServed**: a complete request is answered, or the connection or the server ends.
* **LeavingFreesTheServer**: when a client leaves, the server comes back to accept, and the client at the
  head of the queue is served next unless accept fails. A dead server does not count as one that
  came back, so what a leaving client can do to the server is an exception that the property names
  (`LeftSafely`): a message too long to allocate ends it with an exception; and a client that
  closed with more than one answer to come ends it with SIGPIPE, because the first answer
  resets the connection and the second is written to it (`rpc_server.cpp:324`). With one answer to
  come, or over a connection that broke, the server survives.
* **BreakpointsKept** is `Spec` of `BreakpointManager`, as a property of `Stepping`: whatever the session,
  the target and a step over do, each step is a call of the manager or leaves table and
  text alone. What is proved of `Spec` therefore holds here (`SteppingIsTransparent`).
* **NoTemporaryLeft**, **StepOverLands**, **StepOverEnds**: what a step over leaves behind, where it
  leaves the thread, and that it ends when the instruction falls through. Each names what the
  code does not do: a temporary breakpoint stays when the thread it was written through is
  gone; the trap that ended the step may be another breakpoint's, at the very start; a main
  thread that exits is reported with its process only.
* **OnlyTheRange**, **WriteLands**, **ReadIsPrefix**, **TransfersEnd**: what a transfer that
  starts over half way, moves whole words and meets a target that writes has done when it ends. They
  ask nothing of units the target wrote itself (`Quiet`). **TransfersAdvance**: on its way a transfer starts
  over once at most, and its count grows with every call and never past the request. `WriteLands` states the outcome of
  the fallback as it is: all data or all pointers.
* **NewestAreFound**: what was there all along is found unless the buffer was filled again
  behind it. It is the part of `AllAreListed` that the code does keep. **OneProcess**: stale pointers and
  reused ids never mix the threads of two processes. **TargetHasTheName**: only a pid that changed hands
  leads attach to a process without the name. **AttachEnds**: lists that change end.

### Bounds

* `MaxId` = 3 breakpoints in all: a breakpoint, a second one at the next or the same
  address, and one set after a removal. Two threads tell apart what is kept per thread, two
  registers a pool that is empty, partly used and full. Neighbouring addresses are needed
  because the fallback writes two words; a second process because the duplicate check ignores it.
* Two threads of one process are what signals can be merged between; the second starts late, so
  that a session may or may not know it; a second process is one a session can be replaced by.
* Three children: one forked before the launch, one that is not the app and one that is.
* Two registers in each set: one that is written and one that must not change with it. Their
  values are few, but the requests have numbers that fit, that lose bits and that the kernel
  refuses, in the first and in the second place.
* Two clients, because the server serves one and keeps one waiting; two requests, so that an
  answer could belong to the other. `Backlog` = 1 lets both wait. The kinds `throws` and
  `garbled` are left out of the instance because they have the outcome of `unknown`.
* Two breakpoints in `Stepping`: the temporary one and one of the client, which may be at the
  start of the step, at its end, or left from an earlier step. Three instructions are one that falls through,
  one that branches and one that jumps back; two threads are the one that steps and one that
  runs into its breakpoint, and the one may be the main thread or not.
* Four pages: one never mapped, one open, one for ptrace only, one behind the end; a request of
  four units in words of two reaches over a page's end, has a whole word and a tail, and may
  start at either half. Two requests, because what one leaves in the memory the next one reads.
* A buffer of two records with at most three processes and three threads at a time: each listing may have one
  entry more than the buffer holds. Two processes share a pid, one after the other.
* The theorems of section 4 hold without these bounds.

Three runs use a `VIEW`. `WithoutReply` drops the last reply except whether it was a
crash: the next step does not depend on it, and none of the run's invariants reads it.
`SoftwareOnly` also drops what the software side does not read when there are no debug
registers (both indexes, counts and pools); the address index decides only whether a
lookup may crash, and a crash ends the behaviour without changing anything else.
`WithoutIndexes` of `Stepping` drops both indexes, which follow the table, the last reply of the
manager, and of the last answer all but what the invariants ask.

Deadlock is checked for `Launch` and `RegisterCommands`. Elsewhere the system may really
stop: the server has
crashed or been stopped and every thread or client is gone, or `waitpid` waits for an
`Uncollectable` thread, or a killed process and the last request leave nothing to do.

### Fairness

* `TraceSession`: `WF(Progress)`: the debugger's thread is scheduled and a system call that
  can return does. `WF(TakesSignal(t))`: a running thread takes its pending signals, which
  the kernel does on its return to user mode. `WF(ParentReaps(p))`: the parent of an app, the
  zygote or init, collects its children. Nothing is assumed of commands, traps, exits or starts.
* `Launch`: `WF(Proceed)`, as above; `WF(ClockPasses)`: time passes; and a process that was
  sent a SIGSTOP stops. Nothing obliges the zygote to fork or a child to take a name.
* `RPCServer`: `WF` of the server's own steps: its thread is scheduled and handlers return.
  Clients are not obliged to do anything, and accept is not obliged to fail.
* `Stepping`: `WF(Proceed)`: the server goes on with a step. A running thread runs
  (`Trap` or `Execute`), and the threads of a process that was killed die. Nobody is obliged to
  give commands, send signals or exit.
* `MemoryCommands`, `Discovery`: `WF` of the transfer and of the search: the debugger's thread is
  scheduled. The target may write, and tasks may start and exit, all the time.

### What the code does not keep

Three runs each refute one property that a comment or message of the source states;
`PROJECT.json` quotes the lines.

| Run | Property | What happens |
|---|---|---|
| `TraceSessionPause` | `PauseStopsAll` | `debugger_core.cpp:736` sends SIGSTOP with `kill`, to the process: the signals merge and one thread takes the one that is left |
| `LaunchZygote` | `LaunchReleasesZygote` | `debugger_core.cpp:222` and `:237` detach the zygote while it runs, which fails: it stays traced, stops at its next fork, and cannot be attached to again |
| `DiscoveryListing` | `AllAreListed` | `file.cpp:91` keeps pointers into a buffer that is filled again: of a directory longer than the buffer (4 KB in bionic, some 170 threads) the first entries read as later ones, the main thread first, and attach fails |

The models show more of the kind. There is no run for these; adding the formula as an
invariant of the instance named gives a short counterexample (take the `VIEW` out of the instance
when the formula reads `reply`).

| Where | Formula | What happens |
|---|---|---|
| `memory_control.cpp:67`, `BreakpointManagerSoftware` | `\A id \in DOMAIN breakpoints : breakpoints[id].enabled => code[ProcessOf[breakpoints[id].tid]][breakpoints[id].address] = BRK` | the fallback hands `PTRACE_POKEDATA` the address of the word: in a page that is not mapped writable, where code usually is, set_software_breakpoint writes a pointer over two instructions and answers with an id |
| `breakpoint_manager.cpp:148`, `BreakpointManagerHardware` | `reply.status = "no_register" => \E id \in DOMAIN breakpoints : ~IsSoftware(breakpoints[id])` | the pool is looked at before line 154 fills it: the first hardware breakpoint of a thread is refused unless the register count was asked for |
| `breakpoint_manager.cpp:350`, `BreakpointManagerSoftware` | `reply.op = "lookup" /\ (\E id \in DOMAIN breakpoints : breakpoints[id].address = reply.arg) => reply.status = "ok"` | the lookup by address tests its iterator the wrong way round |
| `breakpoint_manager.cpp:207`, `BreakpointManagerHardware` | `\A t \in alive : \A r \in freeRegisters[t] : ~dbg[t][r].armed` | a register is given back to the pool although it could not be disarmed |
| `breakpoint_manager.cpp:36`, `BreakpointManagerHardware` | `reply.op = "count" /\ reply.status = "ok" => registerCount[reply.arg] = NumRegisters` | after a probe that failed the count is 0 for good |
| `debugger_core.cpp:711`, `TraceSessionPause` | `Answered("resume") => \A t \in m_tids : kernel[t] # "halted"` | a pause after a detach stops a process that resume does not wake |
| `debugger_core.cpp:804`, `TraceSessionPause` | `Answered("step") => kernel[m_current_tid] # "paused"` | a SIGSTOP still pending is taken for the end of a step |
| `debugger_core.cpp:804`, `TraceSessionPause` | `Answered("step") => Alive(m_current_tid)` | a step fails only if another thread was reported *and* the status is no stop: a thread that exited has stepped with success |
| `debugger_core.cpp:345`, `TraceSessionPause` | `Answered("detach") => \A t \in Threads(m_pid) : Alive(t) => t \notin traced` | a second attach can shorten `m_tids`; detach then leaves a thread traced |
| `debugger_core.cpp:148`, `TraceSession` | `m_pid # None => \A t \in Threads(m_pid) : Alive(t) => t \in m_tids` | threads that start after the attach are not in the session |
| `debugger_core.cpp:289`, `LaunchZygote` | `reply = "fail" /\ app_pid # None => ~Alive(app_pid)` | an app that was matched while it ran is neither detached nor attached |
| `debugger_core.cpp:399`, `RegisterCommands` | `call.status # "error"` | a value that is no string ends the command with an exception, not with the message meant for it |
| `rpc_server.cpp:324`, `RPCServer` | `at # "killed"` | answering a client that has gone raises SIGPIPE, which ends the server |
| `rpc_server.cpp:185`, `RPCServer` | `\A c \in Clients : current = c /\ peer[c] = "open" => queue = << >>` | a new connection is meant to replace the old one; it is accepted only after that has ended, and its client waits |
| `debugger_core.cpp:831`, `Stepping` | `step.at = "idle" /\ answer = [op \|-> "step_over", status \|-> "ok"] /\ stop[m_current_tid] = "trap" => pc[m_current_tid] = step.next` | a step over from an enabled breakpoint traps on it again: it answers with success and has not moved |
| `debugger_core.cpp:871`, `MemoryCommands` | `call.at = "idle" /\ call.op = "read" /\ answer = "ok" => Range \subseteq Mapped` | a read that failed is answered with success, the buffer filled up to the failure |
| `memory_control.cpp:35`, `MemoryCommands` | `call.at = "idle" /\ call.address # 0 /\ call.size > 0 /\ answer = "fail" /\ opened /\ mode = "stopped" => ~(Range \subseteq Mapped)` | the tail of a request is read as a whole word, which fails at the end of the last page: a write that fits is refused |
| `memory_control.cpp:67`, `MemoryCommands` | `call.at = "idle" /\ call.op = "write" /\ answer = "fail" => \A i \in Offsets : call.address + i \in Mapped /\ Quiet(call.address + i) => memory[call.address + i] = before[call.address + i]` | a write that failed has written a part of its range |
| `debugger_core.cpp:159`, `Discovery` | `at # "crashed"` | attach by a name nobody has reads the first element of an empty vector |

Some are outside of what the modules express: `debugger_core.cpp:881` writes under a software
breakpoint what the removal of that breakpoint then overwrites; `debugger_core.cpp:323` lets the
children of the zygote that did not match run on traced; `rpc_server.cpp:300` takes the length of a
message from the client before it allocates; the handler of `set_breakpoint` answers without
the id that `remove_breakpoint` needs; a step of an instruction that waits for a thread the
debugger holds (`debugger_core.cpp:803`) lasts for ever; `breakpoint_manager.cpp:100` gives the pool registers 0 to
count - 1 whichever of them were counted.

`debugger_core.hpp:22` says that launch needs repair.

## 4. What is proved

TLAPS checks these for any constants that satisfy the named assumption of the module
(`ConstantsOK`, `TraceSessionAssumption`, `LaunchAssumption`, `RegisterCommandsAssumption`,
`RPCServerAssumption`, `SteppingConstants`, `MemoryConstants`, `DiscoveryAssumption`). They say
no more than how the constants are typed, that `None` is no thread, process or client, that a
process is named by its main thread, that the zygote is not its own child, that the
keys of a JSON object are distinct, that no unit is mapped at address 0, that the tasks there may ever be
are finitely many, and, for `Stepping`, that the pages are writable and the program has no BRK.
One theorem, `PromiseIsKept`, has a hypothesis besides: `TextWithoutBRK`, that the program's own text
has no BRK at an address where a breakpoint can be set. Without it the mapping would say nothing of such
an address: patching a BRK over a BRK changes no text for a trap to be read off. `Stepping` assumes
it of the program already, so `SteppingKeepsPromise` has no hypothesis.

* **`BreakpointManagerProofs`**: `TypeCorrect`, `TextIsTransparent`, `RestoresTheProgram`,
  `IndexesLeadToTheTable`, `RegistersAreAccountedFor`, `StaleAreKept`. The inductive invariant is the
  conjunction of the properties. `CodeTransparent` is not inductive alone: what a removal
  writes back is `SavedOriginal`'s business, that no second breakpoint needs the BRK is
  `OneBreakpointPerAddress`'s. `ArmedMatches` needs `RegisterAccounting`: a register taken
  from the pool must not be another's, and a probe must meet no breakpoint. `NextChanges` reduces
  the calls to nine changes of state, and one lemma per conjunct goes through them.
  `StaleAreKept` follows from the same invariant: the record stays because whatever would change it writes through its
  thread, the address because of `OneBreakpointPerAddress` after the step, the words because `CodeTransparent` before and
  after the step leaves nothing else to account for a change.
  `PromiseIsKept` is the refinement of `TrapTable`. It goes through the same nine changes: `ExactWriteMovesOneTrap` and
  `OtherWritesMoveNone` say what a write does to the traps as they are read off the text, which
  needs `CodeTransparent` (a word differs from the program's own exactly under an enabled breakpoint)
  and `SavedOriginal` (what is written back is that word), and `NewIdIsIssued` that an id is new.
* **`TraceSessionProofs`**: `SessionTypeCorrect`, `SessionIsWhole`, `AttachStops`,
  `DetachLetsRun`, `PauseHalts`, `CallsComeNearer`. What a call promises at its end has to hold between its system calls of
  the part already done: `Attaching` (the threads attached so far are held) and `Detaching`
  (the process is quiet, the threads behind the loop are let go as long as nothing failed), `Pausing` (once
  a thread is behind the loop and nothing failed, the process is `Halting`). `HaltingStays` is the
  reason for the last: a SIGSTOP that is pending is only ever exchanged for a thread that stands,
  and a thread that stands is moved by a command or by its death alone.
  `StopsAreTraced` ties tracing stops to the tracer.
* **`LaunchProofs`**: `LaunchTypeCorrect`, `LaunchCatchesTheApp`, `LaunchLetsTheZygoteGo`,
  `LaunchGoesOn`.
  `KernelInv` says what the kernel keeps, `ZygoteInv` that the zygote does not move while
  its fork is looked at and is not traced afterwards, `AppInv` that the process matched has the name.
* **`RegisterCommandsProofs`**: `RegisterTypeCorrect`, `WritesInOrder`, `ReadsAreSnapshots`,
  `WritesOneRegister`, `RequestsGoOn`. `CopyInv` says that the copy of a register set is what the thread holds
  until it is written back, which holds because of `ThreadInv`: once a step is done the thread
  cannot run before the call is over. `KeysInv` keeps a later step from undoing an earlier one.
* **`RPCServerProofs`**: `ServerTypeCorrect`, `AnswersFollowRequests`, `OneClientAtATime`.
  `DialogueIsKept`. `AnswersMatch` needs to know which request the answer about to be sent belongs to (`Busy`),
  `OneDialogue` that a client still waiting has had nothing read (`Waiting`). `DialogueIsKept`
  is the refinement of `Dialogue`, action by action: that the answer sent is the next one due is
  `AnswersMatch` with `Busy`, and that an accepted client is at the head of the line is the queue's order.
* **`SteppingProofs`**: `SteppingTypeCorrect`, `SteppingKeepsBreakpoints`, `SteppingIsTransparent`,
  `StepsLeaveNothing`, `StepsLand`, `SteppingKeepsStale`, `SteppingKeepsPromise`. The refinement of the breakpoint manager's `Spec` comes
  first, action by action; with it the invariants of `BreakpointManagerProofs` hold of the composition and are
  used in it (`Inv`), and `PromiseIsKept` and `StaleAreKept` with it say of the session what they say of the manager. The rest of the inductive invariant, `SteppingInv`, ties the step under way to its
  breakpoint in the table (`InStep`), every other temporary breakpoint to a thread that has gone
  (`OwnBreakpoint`), and a stop that the step waits for, has seen or has answered with to a place
  where it may land (`Landing`).
* **`MemoryCommandsProofs`**: `MemoryTypeCorrect`, `WritesStayInRange`, `WritesAreWhole`,
  `ReadsArePrefixes`, `TransfersGoOn`. `MemoryInv` says of each phase of a transfer what is done (`ReadSoFar`, `WrittenSoFar`): the
  units moved by `process_vm_*`, then those moved again by ptrace, next to what the first phase left in the
  buffer, and that a transfer in its second phase met a page that is not open or a process that was gone.
* **`DiscoveryProofs`**: `DiscoveryTypeCorrect`, `NewestProcessesAndThreads`, `ThreadsOfOneProcess`,
  `AttachGoesByName`, `AttachGoesOn`. `DiscoveryInv` says that the records ascend, that each was a task of the directory
  during the listing, that those there all along are among them or still to come (`Listed`), and what the
  entries looked at have led to (`MatchedSoFar`). Because they ascend, the records after an entry number no
  more than its `Crowd`, so that an entry with a small `Crowd` is still its own `LastRecord`.

Five of these theorems are the part of a liveness property that needs no fairness: no call goes round in
circles. `CallsComeNearer` (`TraceSession`), `TransfersGoOn`, `RequestsGoOn` and `AttachGoesOn` state that each
system call ends the call or makes something smaller that cannot become smaller for ever: the threads a loop
has yet to meet, then the places left at the one it is at (`Rank`); the units left of a transfer; the entries
left of a request; the ids that a directory can still list (`Unlisted`, finitely many because the records ascend). Nothing
the target does makes it larger. `LaunchGoesOn` says so of `Launch` but for the turns of its loop before the
deadline, of which there may be any number: once the deadline has passed (`OnTime`: it passes in the loop only) the next
step is the answer, and the app once matched is never given up for another turn. What is left to fairness is that the
next system call returns and that time passes.

The lists of types `SteppingTypeOK`, `DiscoveryTypeOK`, `MemoryTypeOK` and those of `TraceSession` and `RPCServer`
are proved and not in a run, and so are `CallsAdvance` of `TraceSession` and of `RegisterCommands`,
`AttachAdvances` of `Discovery` and `LaunchAdvances` of `Launch`.

Only model-checked: the liveness properties `CallsAreAnswered`, `LaunchEnds`, `StepOverEnds`,
`TransfersEnd`, `AttachEnds`, `RequestsAreServed` and `LeavingFreesTheServer`, which rest on
fairness and so are outside of what TLAPS proves. Every other property of a passing run is a theorem.

## 5. What is not modelled

* The parser of `/proc/pid/maps` (`memory_control.cpp`): text, without state.
* The offsets in `register_control.cpp:355-396`, which nothing calls.
* The parsing of parameters in the handlers of `main.cpp`; the commands that only list or show.
* The parsing of `ps`, `pidof` and `/proc` text in `process.cpp`.
* The reading of files (`file.cpp:97-159`), log, status, singleton; assembly, which wraps the vendored
  Capstone library.
* The duration of anything, sizes of messages, and formatting.

## 6. Plan

Done: `BreakpointManager` with `TrapTable`, `TraceSession`, `RPCServer` with `Dialogue`, `Launch`,
`RegisterCommands`, `Stepping`, `MemoryCommands`, `Discovery`, each with its instance and proofs, the
most important behaviour first. What would be worth adding, in this order:

1. **Launch in a session**: `waitpid(-1)` takes the stops of threads of an open session.
   Composes `Launch` and `TraceSession`.
2. **Memory commands under breakpoints**: `write_memory` over a BRK, and the removal that undoes it. Composes
   `MemoryCommands` and `BreakpointManager`.
3. **Pure functions** of `utils.cpp` (byte order with its width, alignment, trimming) and the parser of
   the maps, against reference definitions.
4. **Proofs**: an abstract specification of the session, which attach opens whole and detach lets go, and its
   refinement by `TraceSession`.

The number of runs is kept small: one passing run per question, and a refuting run where it
shows most.
