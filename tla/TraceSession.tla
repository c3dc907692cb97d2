---------------------------- MODULE TraceSession ----------------------------
(***************************************************************************)
(* The execution control of Core::DebuggerCore (src/src/debugger_core.cpp):*)
(* attach, detach, kill, resume, pause, step_into and switch_thread, system *)
(* call by system call, against the ptrace and job-control rules of the    *)
(* kernel for the threads of the target.                                   *)
(*                                                                         *)
(* The server has one thread: a call runs until it is answered, and blocks *)
(* in waitpid.  Between two of its system calls the target runs: threads   *)
(* start, trap, take signals, exit, and the process may be killed.  A      *)
(* process is named by its main thread, as in Linux.                       *)
(*                                                                         *)
(* The kernel is external.  It lets the debugger trace any living thread   *)
(* nobody traces, and no other tracer and no other sender of job-control   *)
(* signals is around; a main thread exits only with its process; a thread  *)
(* id is not used again.                                                   *)
(*                                                                         *)
(* A definition introduced by "Mistake" is the one after it with a         *)
(* plausible bug, to show that a property would notice.                    *)
(***************************************************************************)
EXTENDS Integers

CONSTANTS
  Tids,         \* threads that may ever exist
  Processes,    \* the main threads among them
  ProcessOf,    \* the process of each thread
  Fresh,        \* the threads that do not exist at first
  None          \* the -1 of m_pid and m_current_tid

ASSUME TraceSessionAssumption ==
  /\ Processes \subseteq Tids
  /\ ProcessOf \in [Tids -> Processes]
  /\ \A p \in Processes : ProcessOf[p] = p
  /\ Fresh \subseteq Tids \ Processes
  /\ None \notin Tids

VARIABLES
  m_pid,          \* the main thread of the session's process, or None
  m_tids,         \* the threads of the session
  m_current_tid,  \* the thread that stepping and registers refer to
  call,           \* where the server is
  reply,          \* the last answer
  kernel,         \* the target: state of each thread
  traced,         \* the target: threads whose tracer is the debugger
  queued,         \* the target: threads with a SIGSTOP of their own pending
  shared          \* the target: job-control signal pending for each process

session == <<m_pid, m_tids, m_current_tid>>
target  == <<kernel, traced, queued, shared>>
vars    == <<session, call, reply, target>>

Operations == {"none", "attach", "detach", "kill", "resume", "pause", "step", "switch"}

\* "trapped" and "paused" are the state 't' of /proc, reached by a trap or by
\* a signal; "halted" is the state 'T' of a thread nobody traces.
ThreadStates == {"absent", "running", "trapped", "paused", "halted", "zombie", "gone"}

\* Where the server is between two system calls: at the head of a loop over
\* the threads in `todo', or about to issue the call named.
Places ==
  {"idle", "loop", "wait", "options", "cont", "stop", "sigkill"}

Idle == [op |-> "none", at |-> "idle", pid |-> None, thread |-> None,
         todo |-> {}, got |-> {}, ok |-> TRUE]

\* The state TRACING_STOP of get_process_state.
Stopped(t) == kernel[t] \in {"trapped", "paused"}
Alive(t)   == kernel[t] = "running" \/ kernel[t] = "halted" \/ Stopped(t)
Exists(t)  == Alive(t) \/ kernel[t] = "zombie"

Threads(p) == {t \in Tids : ProcessOf[t] = p}

TypeOK ==
  /\ m_pid \in Processes \cup {None}
  /\ m_tids \subseteq IF m_pid = None THEN {} ELSE Threads(m_pid)
  /\ m_current_tid \in Tids \cup {None}
  /\ call \in [op : Operations, at : Places, pid : Processes \cup {None},
               thread : Tids \cup {None}, todo : SUBSET Tids, got : SUBSET Tids,
               ok : BOOLEAN]
  /\ reply \in [op : Operations, status : {"ok", "fail"}]
  /\ kernel \in [Tids -> ThreadStates]
  /\ traced \subseteq Tids
  /\ queued \subseteq Tids
  /\ shared \in [Processes -> {"none", "STOP", "CONT"}]

Init ==
  /\ m_pid = None
  /\ m_tids = {}
  /\ m_current_tid = None
  /\ call = Idle
  /\ reply = [op |-> "none", status |-> "ok"]
  /\ kernel = [t \in Tids |-> IF t \in Fresh THEN "absent" ELSE "running"]
  /\ traced = {}
  /\ queued = {}
  /\ shared = [p \in Processes |-> "none"]

-----------------------------------------------------------------------------
(* What the kernel does.                                                   *)

\* A dead thread waits for its tracer; a main thread waits for its parent too.
\* Any other thread disappears.
Dead(t) == IF t \in traced \cup Processes THEN "zombie" ELSE "gone"

\* The process ends, by itself or by SIGKILL.
EndProcess(p) ==
  /\ kernel' = [t \in Tids |-> IF t \in Threads(p) /\ Alive(t) THEN Dead(t)
                               ELSE kernel[t]]
  /\ queued' = queued \ Threads(p)
  /\ shared' = [shared EXCEPT ![p] = "none"]
  /\ UNCHANGED traced

\* waitpid returns a zombie, but a main thread only when the other threads of
\* its process have been collected.
Reapable(t) ==
  /\ kernel[t] = "zombie"
  /\ t \in Processes => \A u \in Threads(t) \ {t} : kernel[u] \in {"absent", "gone"}

Reap(t) ==
  /\ Reapable(t)
  /\ kernel' = [kernel EXCEPT ![t] = "gone"]
  /\ traced' = traced \ {t}
  /\ UNCHANGED <<queued, shared>>

\* PTRACE_CONT and PTRACE_SINGLESTEP, without a signal.
Run(t) ==
  /\ Stopped(t)
  /\ kernel' = [kernel EXCEPT ![t] = "running"]
  /\ UNCHANGED <<traced, queued, shared>>

\* kill(pid, SIGSTOP): pending once for the whole process.
SendStop(p) ==
  /\ shared' = IF \E t \in Threads(p) : Alive(t)
               THEN [shared EXCEPT ![p] = "STOP"] ELSE shared
  /\ UNCHANGED <<kernel, traced, queued>>

\* kill(pid, SIGCONT): pending SIGSTOPs are discarded and threads in a group
\* stop run again at once; the signal itself is kept for a traced main thread.
SendCont(p) ==
  /\ kernel' = [t \in Tids |-> IF t \in Threads(p) /\ kernel[t] = "halted"
                               THEN "running" ELSE kernel[t]]
  /\ queued' = queued \ Threads(p)
  /\ shared' = [shared EXCEPT ![p] = IF p \in traced /\ Alive(p) THEN "CONT" ELSE "none"]
  /\ UNCHANGED traced

\* SIGSTOP taken by a thread nobody traces stops its whole process.
GroupStop(p) ==
  kernel' = [t \in Tids |->
               IF t \in Threads(p) /\ kernel[t] = "running"
               THEN IF t \in traced THEN "paused" ELSE "halted"
               ELSE kernel[t]]

\* A traced thread that takes a signal stops alone; otherwise SIGSTOP stops
\* the process and SIGCONT, already acted upon, is dropped.
Take(t, signal) ==
  IF t \in traced THEN kernel' = [kernel EXCEPT ![t] = "paused"]
  ELSE IF signal = "STOP" THEN GroupStop(ProcessOf[t]) ELSE UNCHANGED kernel

TakesSignal(t) ==
  /\ kernel[t] = "running"
  /\ \/ /\ t \in queued
        /\ queued' = queued \ {t}
        /\ Take(t, "STOP")
        /\ UNCHANGED shared
     \/ /\ shared[ProcessOf[t]] # "none"
        /\ shared' = [shared EXCEPT ![ProcessOf[t]] = "none"]
        /\ Take(t, shared[ProcessOf[t]])
        /\ UNCHANGED queued
  /\ UNCHANGED <<session, call, reply, traced>>

\* A breakpoint, the end of a single step or a fault.
Traps(t) ==
  /\ t \in traced /\ kernel[t] = "running"
  /\ kernel' = [kernel EXCEPT ![t] = "trapped"]
  /\ UNCHANGED <<session, call, reply, traced, queued, shared>>

\* Without PTRACE_O_TRACECLONE nobody traces a new thread.
ThreadStarts(t) ==
  /\ kernel[t] = "absent"
  /\ \E u \in Threads(ProcessOf[t]) : kernel[u] = "running"
  /\ kernel' = [kernel EXCEPT ![t] = "running"]
  /\ UNCHANGED <<session, call, reply, traced, queued, shared>>

ThreadExits(t) ==
  /\ t \notin Processes /\ kernel[t] = "running"
  /\ kernel' = [kernel EXCEPT ![t] = Dead(t)]
  /\ queued' = queued \ {t}
  /\ UNCHANGED <<session, call, reply, traced, shared>>

ProcessDies(p) ==
  /\ \E t \in Threads(p) : Alive(t)
  /\ EndProcess(p)
  /\ UNCHANGED <<session, call, reply>>

ParentReaps(p) ==
  /\ p \notin traced
  /\ Reap(p)
  /\ UNCHANGED <<session, call, reply>>

-----------------------------------------------------------------------------
(* How a call proceeds.                                                    *)

Answer(op, status) ==
  /\ call' = Idle
  /\ reply' = [op |-> op, status |-> status]

Verdict(ok) == IF ok THEN "ok" ELSE "fail"

\* The call fails before it has done anything.
Refuse(op) == Answer(op, "fail") /\ UNCHANGED <<session, target>>

Start(op, at, p, todo) ==
  /\ call' = [op |-> op, at |-> at, pid |-> p, thread |-> None,
               todo |-> todo, got |-> {}, ok |-> TRUE]
  /\ reply' = [op |-> "none", status |-> "ok"]

\* A loop meets the main thread first: /proc lists it first, and m_tids has
\* the order of that list.
AtLoop(op, t) ==
  /\ call.op = op /\ call.at = "loop"
  /\ t \in call.todo
  /\ call.pid \in call.todo => t = call.pid

LoopDone(op) == call.op = op /\ call.at = "loop" /\ call.todo = {}

Goto(at, t) ==
  /\ call' = [call EXCEPT !.at = at, !.thread = t]
  /\ UNCHANGED <<session, reply>>

NextThread(t, got, ok) ==
  /\ call' = [call EXCEPT !.at = "loop", !.thread = None, !.todo = @ \ {t},
                          !.got = got, !.ok = ok]
  /\ UNCHANGED <<session, reply>>

-----------------------------------------------------------------------------
(* attach                                                                  *)

\* get_thread_ids
Attach(p) ==
  LET tids == {t \in Threads(p) : Exists(t)} IN
  /\ call.at = "idle"
  /\ IF tids = {}
     THEN Refuse("attach")
     ELSE Start("attach", "loop", p, tids) /\ UNCHANGED <<session, target>>

\* A thread in a tracing stop is taken for one of the debugger's own.
AttachThread(t) ==
  /\ AtLoop("attach", t)
  /\ \/ /\ Stopped(t)
        /\ Goto("options", t)
        /\ UNCHANGED target
     \/ /\ ~Stopped(t) /\ Alive(t) /\ t \notin traced      \* PTRACE_ATTACH
        /\ kernel' = [kernel EXCEPT ![t] = IF @ = "halted" THEN "paused" ELSE @]
        /\ traced' = traced \cup {t}
        /\ queued' = queued \cup {t}
        /\ Goto("wait", t)
        /\ UNCHANGED shared
     \/ /\ ~Stopped(t) /\ (~Alive(t) \/ t \in traced)      \* which fails
        /\ NextThread(t, call.got, call.ok)
        /\ UNCHANGED target

\* Mistake: only a stop ends the wait.
AttachWaitForStop(t) ==
  /\ call.op = "attach" /\ call.at = "wait" /\ call.thread = t
  /\ Goto("options", t)
  /\ Stopped(t) /\ UNCHANGED target

\* waitpid: the thread has stopped, for whatever reason, or is dead.
AttachWait(t) ==
  /\ call.op = "attach" /\ call.at = "wait" /\ call.thread = t
  /\ Goto("options", t)
  /\ \/ Stopped(t) /\ UNCHANGED target
     \/ Reap(t)

\* Mistake: the thread is kept whatever PTRACE_SETOPTIONS returned.
AttachOptionsUnchecked(t) ==
  /\ call.op = "attach" /\ call.at = "options" /\ call.thread = t
  /\ NextThread(t, call.got \cup {t}, call.ok)
  /\ UNCHANGED target

\* PTRACE_SETOPTIONS fails when the thread has died.
AttachOptions(t) ==
  /\ call.op = "attach" /\ call.at = "options" /\ call.thread = t
  /\ NextThread(t, IF Stopped(t) THEN call.got \cup {t} ELSE call.got, call.ok)
  /\ UNCHANGED target

\* Mistake: any attached thread will do.
AttachDoneWithAnyThread ==
  /\ LoopDone("attach")
  /\ IF call.got # {}
     THEN /\ m_pid' = call.pid
          /\ m_current_tid' = call.pid
          /\ m_tids' = call.got
          /\ Answer("attach", "ok")
          /\ UNCHANGED target
     ELSE Refuse("attach")

\* A session that is open is replaced only when the main thread is attached.
AttachDone ==
  /\ LoopDone("attach")
  /\ IF call.pid \in call.got
     THEN /\ m_pid' = call.pid
          /\ m_current_tid' = call.pid
          /\ m_tids' = call.got
          /\ Answer("attach", "ok")
          /\ UNCHANGED target
     ELSE Refuse("attach")

-----------------------------------------------------------------------------
(* detach and kill                                                         *)

\* Mistake: no SIGCONT is sent first.
StartDetachWithoutCont(op) ==
  /\ Start(op, "loop", m_pid, m_tids)
  /\ UNCHANGED <<session, target>>

StartDetach(op) ==
  /\ Start(op, "loop", m_pid, m_tids)
  /\ SendCont(m_pid)
  /\ UNCHANGED session

Detach ==
  /\ call.at = "idle"
  /\ IF m_pid = None THEN Refuse("detach") ELSE StartDetach("detach")

\* PTRACE_DETACH works on a stopped thread only.
DetachThread(op, t) ==
  /\ AtLoop(op, t)
  /\ \/ /\ Stopped(t)
        /\ kernel' = [kernel EXCEPT ![t] = "running"]
        /\ traced' = traced \ {t}
        /\ NextThread(t, call.got, call.ok)
        /\ UNCHANGED <<queued, shared>>
     \/ /\ ~Stopped(t)
        /\ NextThread(t, call.got, call.ok /\ kernel[t] = "zombie")
        /\ UNCHANGED target

\* The session stays open, whatever became of its threads.
DetachDone ==
  /\ LoopDone("detach")
  /\ Answer("detach", Verdict(call.ok))
  /\ UNCHANGED <<session, target>>

\* detach comes first when the main thread is stopped; its verdict is ignored.
Kill ==
  /\ call.at = "idle"
  /\ \/ m_pid = None /\ Refuse("kill")
     \/ /\ m_pid # None /\ Stopped(m_pid)
        /\ StartDetach("kill")
     \/ /\ m_pid # None /\ ~Stopped(m_pid)
        /\ Start("kill", "sigkill", m_pid, {})
        /\ UNCHANGED <<session, target>>

KillDetached ==
  /\ LoopDone("kill")
  /\ Goto("sigkill", None)
  /\ UNCHANGED target

\* m_current_tid and the breakpoints keep what they hold.
SigKill ==
  /\ call.op = "kill" /\ call.at = "sigkill"
  /\ IF \E t \in Threads(m_pid) : Exists(t)
     THEN /\ EndProcess(m_pid)
          /\ m_pid' = None
          /\ m_tids' = {}
          /\ Answer("kill", "ok")
          /\ UNCHANGED m_current_tid
     ELSE Refuse("kill")

-----------------------------------------------------------------------------
(* resume and pause: a thread's state is read, then the thread is acted    *)
(* upon.                                                                   *)

StartSweep(op) ==
  /\ call.at = "idle"
  /\ IF m_pid = None
     THEN Refuse(op)
     ELSE Start(op, "loop", m_pid, m_tids) /\ UNCHANGED <<session, target>>

Resume == StartSweep("resume")
Pause  == StartSweep("pause")

ResumeLooks(t) ==
  /\ AtLoop("resume", t)
  /\ IF Stopped(t) THEN Goto("cont", t) ELSE NextThread(t, call.got, call.ok)
  /\ UNCHANGED target

ResumeThread(t) ==
  /\ call.op = "resume" /\ call.at = "cont" /\ call.thread = t
  /\ NextThread(t, call.got, call.ok /\ Stopped(t))
  /\ Run(t) \/ (~Stopped(t) /\ UNCHANGED target)

\* Mistake: the test of the state is the wrong way round.
PauseLooksForStopped(t) ==
  /\ AtLoop("pause", t)
  /\ IF Stopped(t) THEN Goto("stop", t) ELSE NextThread(t, call.got, call.ok)
  /\ UNCHANGED target

PauseLooks(t) ==
  /\ AtLoop("pause", t)
  /\ IF Stopped(t) THEN NextThread(t, call.got, call.ok) ELSE Goto("stop", t)
  /\ UNCHANGED target

\* kill(tid, SIGSTOP) is kill of the thread's process.
PauseThread(t) ==
  /\ call.op = "pause" /\ call.at = "stop" /\ call.thread = t
  /\ NextThread(t, call.got, call.ok /\ Exists(t))
  /\ IF Exists(t) THEN SendStop(ProcessOf[t]) ELSE UNCHANGED target

SweepDone(op) ==
  /\ LoopDone(op)
  /\ Answer(op, Verdict(call.ok))
  /\ UNCHANGED <<session, target>>

-----------------------------------------------------------------------------
(* step_into and switch_thread                                             *)

\* When PTRACE_SINGLESTEP is refused, software stepping is tried, which is not
\* supported.
StepInto ==
  /\ call.at = "idle"
  /\ IF m_current_tid # None /\ Stopped(m_current_tid)
     THEN /\ Start("step", "wait", None, {})
          /\ Run(m_current_tid)
          /\ UNCHANGED session
     ELSE Refuse("step")

\* The status is looked at only if waitpid returned some other thread.
StepWait ==
  /\ call.op = "step" /\ call.at = "wait"
  /\ \/ Stopped(m_current_tid) /\ UNCHANGED target
     \/ Reap(m_current_tid)
  /\ Answer("step", "ok")
  /\ UNCHANGED session

SwitchThread(t) ==
  /\ call.at = "idle"
  /\ IF t \in m_tids
     THEN /\ m_current_tid' = t
          /\ Answer("switch", "ok")
          /\ UNCHANGED <<m_pid, m_tids, target>>
     ELSE Refuse("switch")

-----------------------------------------------------------------------------
Command ==
  \/ \E p \in Processes : Attach(p)
  \/ Detach \/ Kill \/ Resume \/ Pause \/ StepInto
  \/ \E t \in Tids : SwitchThread(t)

Progress ==
  \/ \E t \in Tids : AttachThread(t) \/ AttachWait(t) \/ AttachOptions(t)
  \/ AttachDone
  \/ \E t \in Tids : DetachThread("detach", t) \/ DetachThread("kill", t)
  \/ DetachDone \/ KillDetached \/ SigKill
  \/ \E t \in Tids :
       ResumeLooks(t) \/ ResumeThread(t) \/ PauseLooks(t) \/ PauseThread(t)
  \/ SweepDone("resume") \/ SweepDone("pause")
  \/ StepWait

Target ==
  \/ \E t \in Tids : TakesSignal(t) \/ Traps(t) \/ ThreadStarts(t) \/ ThreadExits(t)
  \/ \E p \in Processes : ProcessDies(p) \/ ParentReaps(p)

Next == Command \/ Progress \/ Target

Spec == Init /\ [][Next]_vars

\* The server goes on with a call it has begun, a running thread takes its
\* signals, and a parent collects its dead child.
Fairness ==
  /\ WF_vars(Progress)
  /\ \A t \in Tids : WF_vars(TakesSignal(t))
  /\ \A p \in Processes : WF_vars(ParentReaps(p))

FairSpec == Spec /\ Fairness

-----------------------------------------------------------------------------
(* Correctness.                                                            *)

Answered(op) == call.at = "idle" /\ reply = [op |-> op, status |-> "ok"]

\* A session, once open, has its main thread among its threads and a current
\* thread among them too, through attaches that fail half way, detaches that
\* fail and kills that are refused (attach, kill).
SessionHasMainThread ==
  m_pid # None => m_pid \in m_tids /\ m_current_tid \in m_tids

\* When attach answers with success every thread of the session is traced by
\* the debugger and stopped, unless it has been killed since: whatever stopped
\* it first, and also when it was traced before (attach).
AttachedStopped ==
  Answered("attach") =>
    \A t \in m_tids : t \in traced /\ (Stopped(t) \/ kernel[t] = "zombie")

\* When detach answers with success no thread of the session is traced any
\* more but as a zombie, and the process is not in a group stop nor about to
\* enter one: the SIGCONT sent first has discarded the SIGSTOPs of attach and
\* pause (detach).
DetachedRuns ==
  Answered("detach") =>
    /\ \A t \in m_tids : t \in traced => kernel[t] = "zombie"
    /\ \A t \in Threads(m_pid) : kernel[t] # "halted" /\ t \notin queued
    /\ shared[m_pid] # "STOP"

\* A pause that answers with success is not lost, whatever signals the threads
\* take and whichever of them trap or exit between its looks and its SIGSTOPs:
\* the SIGSTOP is still on its way, a thread of the process stands still and only
\* a command or its death ends that, or no thread of it is left (pause).
PauseTakesEffect ==
  Answered("pause") =>
    \/ shared[m_pid] = "STOP"
    \/ \E t \in Threads(m_pid) : Stopped(t) \/ kernel[t] = "halted"
    \/ \A t \in Threads(m_pid) : ~Alive(t)

\* The main thread of a traced process that has died, kept from waitpid by
\* other threads of the process that only the debugger could collect.
Uncollectable(p) == kernel[p] = "zombie" /\ ~Reapable(p)

\* A call that was begun is answered, except that a step lasts as long as the
\* instruction, and that waitpid never returns a main thread whose process died
\* with other threads traced (attach, detach, kill, resume, pause, step_into).
CallsAreAnswered ==
  \A p \in Processes :
    (call.at # "idle" /\ call.op # "step" /\ call.pid = p)
      ~> (call.at = "idle" \/ Uncollectable(p))

\* How much of a call is left at a place, beside the threads still to be met.
Rank(at) == CASE at = "idle" -> 0 [] at = "loop" -> 3 [] at = "wait" -> 2 [] OTHER -> 1

\* A call comes nearer its answer with every system call it makes: it meets no
\* thread twice and goes back to none, however the threads change meanwhile, and
\* nothing the target does takes it backwards (the loops of attach, detach,
\* resume and pause; kill, step_into).
CallsAdvance ==
  [][call.at # "idle" =>
       \/ UNCHANGED call /\ Target
       \/ call' = Idle /\ reply'.op = call.op
       \/ /\ call'.op = call.op /\ call'.pid = call.pid
          /\ \/ call'.todo \subseteq call.todo /\ call'.todo # call.todo
             \/ call'.todo = call.todo /\ Rank(call'.at) < Rank(call.at)]_vars

-----------------------------------------------------------------------------
(* What a message of the source says and the code does not keep: a run     *)
(* refutes it.                                                             *)

\* pause logs that all threads are paused: once the SIGSTOPs it has sent are
\* taken, no thread of the session runs.  They are sent to the process, one at
\* a time is kept, and one thread takes it.
PauseStopsAll ==
  Answered("pause") /\ shared[m_pid] = "none" /\ m_tids \cap queued = {}
    => \A t \in m_tids : kernel[t] # "running"

=============================================================================
