------------------------------ MODULE Stepping ------------------------------
(***************************************************************************)
(* Core::DebuggerCore (src/src/debugger_core.cpp) at work with breakpoints *)
(* while the target runs: the commands set, remove, enable and disable a   *)
(* software breakpoint, step over an instruction, and open and close the   *)
(* session, next to threads that run through the text the breakpoints are  *)
(* patched into.                                                           *)
(*                                                                         *)
(* The table of breakpoints and the words of the target are those of       *)
(* BreakpointManager, whose methods the commands call; here the program    *)
(* has no BRK of its own and every page can be written, so that an access  *)
(* to the memory of a thread works exactly when the thread is there,       *)
(* stopped or running.  The ptrace side of a session is reduced to which   *)
(* threads are traced and stopped (TraceSession has it in full).  A        *)
(* command is one step, except step_over, which the target can interfere   *)
(* with at every system call.                                              *)
(*                                                                         *)
(* A definition introduced by "Mistake" is the definition after it with a  *)
(* plausible bug.                                                          *)
(***************************************************************************)
EXTENDS BreakpointManager

CONSTANTS
  Main,    \* the main thread of each process
  Flow,    \* where the instruction at each address of a process may lead
  None     \* the -1 of m_pid and m_current_tid

ASSUME SteppingConstants ==
  /\ Main \in [Processes -> Tids]
  /\ \A p \in Processes : ProcessOf[Main[p]] = p
  /\ Flow \in [Processes -> [AlignedAddresses -> SUBSET AlignedAddresses]]
  /\ Writable = [p \in Processes |-> AlignedAddresses]
  /\ \A p \in Processes, a \in AlignedAddresses : Text[p][a] # BRK
  /\ None \notin Tids \cup Processes

Threads(p) == {t \in Tids : ProcessOf[t] = p}

VARIABLES
  m_pid, m_tids, m_current_tid,  \* the session
  step,       \* the step_over under way, or the last one
  answer,     \* what the last command of the session answered
  temporary,  \* history: the ids step_over was given
  pc,         \* the target: program counter of each thread
  stop,       \* the target: why a thread is in a tracing stop, if it is
  traced,     \* the target: threads the debugger traces
  killed      \* the target: processes that were sent SIGKILL or died of a trap

session == <<m_pid, m_tids, m_current_tid>>
command == <<step, answer, temporary>>
target  == <<pc, stop, traced, killed>>
steppingVars == <<vars, session, command, target>>

StepPlaces == {"idle", "set", "resume", "wait", "remove"}

SteppingTypeOK ==
  /\ m_pid \in Processes \cup {None}
  /\ m_tids \subseteq Tids
  /\ m_current_tid \in Tids \cup {None}
  /\ step \in [at : StepPlaces, next : AlignedAddresses \cup {NoAddress},
               bid : Ids \cup {0}, stopped : BOOLEAN]
  /\ answer \in [op : {"none", "session", "breakpoint", "step_over"},
                 status : {"ok", "fail"}]
  /\ temporary \subseteq Ids
  /\ pc \in [Tids -> AlignedAddresses]
  /\ stop \in [Tids -> {"no", "trap", "signal"}]
  /\ traced \subseteq Tids
  /\ killed \subseteq Processes

\* Every thread starts at some address; nothing is debugged.
SteppingInit ==
  /\ Init
  /\ m_pid = None /\ m_tids = {} /\ m_current_tid = None
  /\ step = [at |-> "idle", next |-> NoAddress, bid |-> 0, stopped |-> FALSE]
  /\ answer = [op |-> "none", status |-> "ok"]
  /\ temporary = {}
  /\ pc \in {[t \in Tids |-> a] : a \in AlignedAddresses}
  /\ stop = [t \in Tids |-> "no"]
  /\ traced = {}
  /\ killed = {}

Stopped(t) == stop[t] # "no"
Answer(op, status) == answer' = [op |-> op, status |-> status]
Release(S) == stop' = [t \in Tids |-> IF t \in S THEN "no" ELSE stop[t]]

-----------------------------------------------------------------------------
(* The target.                                                             *)

Running(t) == t \in alive /\ ~Stopped(t) /\ ProcessOf[t] \notin killed

\* A BRK leaves the program counter where it is.  It stops a thread that is
\* traced; in one that is not, SIGTRAP ends the process.
Trap(t) ==
  /\ Running(t) /\ code[ProcessOf[t]][pc[t]] = BRK
  /\ \/ t \in traced /\ stop' = [stop EXCEPT ![t] = "trap"] /\ UNCHANGED killed
     \/ /\ t \notin traced
        /\ killed' = killed \cup {ProcessOf[t]}
        /\ Release(Threads(ProcessOf[t]))
  /\ UNCHANGED <<vars, session, command, pc, traced>>

\* Any other word is the program's own (CodeTransparent).
Execute(t) ==
  LET p == ProcessOf[t] IN
  /\ Running(t) /\ code[p][pc[t]] # BRK
  /\ \E a \in Flow[p][pc[t]] : pc' = [pc EXCEPT ![t] = a]
  /\ UNCHANGED <<vars, session, command, stop, traced, killed>>

SignalStops(t) ==
  /\ Running(t) /\ t \in traced
  /\ stop' = [stop EXCEPT ![t] = "signal"]
  /\ UNCHANGED <<vars, session, command, pc, traced, killed>>

\* A thread ends by itself or with its process, never in a tracing stop.
Exits(t) ==
  /\ ~Stopped(t)
  /\ ThreadExits(t)
  /\ UNCHANGED <<session, command, target>>

\* The system ends a process for its memory.
SystemKills(p) ==
  /\ p \notin killed
  /\ killed' = killed \cup {p}
  /\ Release(Threads(p))
  /\ UNCHANGED <<vars, session, command, pc, traced>>

-----------------------------------------------------------------------------
(* Opening and closing the session.                                        *)

\* attach: every thread that can be is traced and stopped; the session changes
\* only when the main thread is among them.
Attach(p) ==
  LET got == {t \in Threads(p) : t \in alive /\ p \notin killed
                                 /\ (Stopped(t) \/ t \notin traced)} IN
  /\ step.at = "idle"
  /\ stop' = [t \in Tids |-> IF t \in got /\ ~Stopped(t) THEN "signal" ELSE stop[t]]
  /\ traced' = traced \cup got
  /\ IF Main[p] \in got
     THEN /\ m_pid' = p /\ m_tids' = got /\ m_current_tid' = Main[p]
          /\ Answer("session", "ok")
     ELSE Answer("session", "fail") /\ UNCHANGED session
  /\ UNCHANGED <<vars, step, temporary, pc, killed>>

\* detach: the stopped threads go on untraced, the breakpoints stay where they
\* are and the session stays open.
Detach ==
  LET freed == {t \in m_tids : Stopped(t)} IN
  /\ step.at = "idle" /\ m_pid # None
  /\ Release(freed)
  /\ traced' = traced \ freed
  /\ Answer("session",
       IF \A t \in m_tids \ freed : t \in traced \ alive THEN "ok" ELSE "fail")
  /\ UNCHANGED <<vars, session, step, temporary, pc, killed>>

\* kill: detach when the main thread is stopped, SIGKILL, and the session is
\* closed but for m_current_tid and the breakpoints.
Kill ==
  /\ step.at = "idle" /\ m_pid # None
  /\ traced' = IF Stopped(Main[m_pid]) THEN traced \ {t \in m_tids : Stopped(t)} ELSE traced
  /\ killed' = killed \cup {m_pid}
  /\ Release(Threads(m_pid))
  /\ m_pid' = None /\ m_tids' = {}
  /\ Answer("session", "ok")
  /\ UNCHANGED <<vars, m_current_tid, step, temporary, pc>>

\* resume: threads in a tracing stop are continued, and retry what stopped them.
Resume ==
  /\ step.at = "idle" /\ m_pid # None /\ m_tids # {}
  /\ Release(m_tids)
  /\ Answer("session", "ok")
  /\ UNCHANGED <<vars, session, step, temporary, pc, traced, killed>>

SwitchThread(t) ==
  /\ step.at = "idle" /\ t \in m_tids
  /\ m_current_tid' = t
  /\ Answer("session", "ok")
  /\ UNCHANGED <<vars, m_pid, m_tids, step, temporary, target>>

-----------------------------------------------------------------------------
(* Breakpoints.  A call of BreakpointManager changes the target when the   *)
(* thread it goes through is there, and returns a failure otherwise.       *)

SetSoftware(t, a) ==
  IF t \in alive /\ ~Duplicate(a)
  THEN PatchNew(t, a)
  ELSE Return("set_software", a, "fail")

\* Mistake: the breakpoint is forgotten whatever became of the word.
RemoveAnyway(id) ==
  IF id \in DOMAIN breakpoints
  THEN /\ IF breakpoints[id].tid \in alive
          THEN WriteWord(breakpoints[id].tid, breakpoints[id].address, breakpoints[id].original)
          ELSE UNCHANGED code
       /\ Forget(id) /\ Reply("remove", id, "ok") /\ UNCHANGED <<hardware, alive>>
  ELSE Return("remove", id, "fail")

Remove(id) ==
  IF id \in DOMAIN breakpoints /\ breakpoints[id].tid \in alive
  THEN RestoreAndForget(id) /\ Reply("remove", id, "ok") /\ UNCHANGED alive
  ELSE Return("remove", id, "fail")

Enabling(op, id, on) ==
  IF id \notin DOMAIN breakpoints THEN Return(op, id, "fail")
  ELSE IF breakpoints[id].enabled = on THEN Return(op, id, "ok")
  ELSE IF breakpoints[id].tid \notin alive THEN Return(op, id, "fail")
  ELSE SwitchSoftware(id, on) /\ Reply(op, id, "ok") /\ UNCHANGED alive

\* The commands answer with what the call returned.
BreakpointCommand ==
  /\ step.at = "idle"
  /\ \/ /\ nextId <= MaxId /\ m_current_tid # None
        /\ \E a \in AlignedAddresses : SetSoftware(m_current_tid, a)
     \/ \E id \in Ids : Remove(id) \/ Enabling("enable", id, TRUE) \/ Enabling("disable", id, FALSE)
  /\ Answer("breakpoint", reply'.status)
  /\ UNCHANGED <<session, step, temporary, target>>

-----------------------------------------------------------------------------
(* step_over: a breakpoint after the instruction, the thread continued, a  *)
(* wait for it to stop, and the breakpoint removed.                        *)

StepFails == Answer("step_over", "fail") /\ step' = [step EXCEPT !.at = "idle"]

\* The program counter is read through the thread, the next instruction
\* through the process.
StepOver ==
  /\ step.at = "idle" /\ m_current_tid # None /\ nextId <= MaxId
  /\ IF /\ Stopped(m_current_tid)
        /\ m_pid # None /\ Main[m_pid] \in alive
        /\ pc[m_current_tid] + 4 \in AlignedAddresses
     THEN /\ step' = [at |-> "set", next |-> pc[m_current_tid] + 4, bid |-> 0, stopped |-> FALSE]
          /\ UNCHANGED answer
     ELSE StepFails
  /\ UNCHANGED <<vars, session, temporary, target>>

\* Mistake: the breakpoint is put one instruction too far.
SetTemporaryTooFar ==
  /\ step.at = "set"
  /\ IF step.next + 4 \in AlignedAddresses THEN SetSoftware(m_current_tid, step.next + 4)
     ELSE SetSoftware(m_current_tid, step.next)
  /\ \/ /\ reply'.status = "ok"
        /\ step' = [step EXCEPT !.at = "resume", !.bid = nextId]
        /\ temporary' = temporary \cup {nextId}
        /\ UNCHANGED answer
     \/ reply'.status = "fail" /\ StepFails /\ UNCHANGED temporary
  /\ UNCHANGED <<session, target>>

SetTemporary ==
  /\ step.at = "set"
  /\ SetSoftware(m_current_tid, step.next)
  /\ \/ /\ reply'.status = "ok"
        /\ step' = [step EXCEPT !.at = "resume", !.bid = nextId]
        /\ temporary' = temporary \cup {nextId}
        /\ UNCHANGED answer
     \/ reply'.status = "fail" /\ StepFails /\ UNCHANGED temporary
  /\ UNCHANGED <<session, target>>

\* resume_thread, whatever it returns.
ResumeCurrent ==
  /\ step.at = "resume"
  /\ Release({m_current_tid} \cap m_tids)
  /\ step' = [step EXCEPT !.at = "wait"]
  /\ UNCHANGED <<vars, session, answer, temporary, pc, traced, killed>>

\* waitpid has something to report: a stop, or an exit, which for the main
\* thread is reported when the other threads have gone.
Reported(t) ==
  \/ Stopped(t)
  \/ /\ t \notin alive
     /\ t = Main[ProcessOf[t]] => Threads(ProcessOf[t]) \cap alive = {}

\* Mistake: the wait does not block.
WaitNoHang ==
  /\ step.at = "wait"
  /\ step' = [step EXCEPT !.at = "remove", !.stopped = TRUE]
  /\ UNCHANGED <<vars, session, answer, temporary, target>>

WaitCurrent ==
  /\ step.at = "wait" /\ Reported(m_current_tid)
  /\ step' = [step EXCEPT !.at = "remove", !.stopped = Stopped(m_current_tid)]
  /\ traced' = IF Stopped(m_current_tid) THEN traced ELSE traced \ {m_current_tid}
  /\ UNCHANGED <<vars, session, answer, temporary, pc, stop, killed>>

\* Mistake: a stop that is not a trap ends the command with the breakpoint in.
RemoveWhenTrapped ==
  /\ step.at = "remove"
  /\ IF stop[m_current_tid] = "trap" THEN Remove(step.bid)
     ELSE Return("remove", step.bid, "fail")
  /\ Answer("step_over", IF step.stopped THEN reply'.status ELSE "fail")
  /\ step' = [step EXCEPT !.at = "idle"]
  /\ UNCHANGED <<session, temporary, target>>

RemoveTemporary ==
  /\ step.at = "remove"
  /\ Remove(step.bid)
  /\ Answer("step_over", IF step.stopped THEN reply'.status ELSE "fail")
  /\ step' = [step EXCEPT !.at = "idle"]
  /\ UNCHANGED <<session, temporary, target>>

-----------------------------------------------------------------------------
Proceed == SetTemporary \/ ResumeCurrent \/ WaitCurrent \/ RemoveTemporary

TargetMoves ==
  \/ \E t \in Tids : Trap(t) \/ Execute(t) \/ SignalStops(t) \/ Exits(t)
  \/ \E p \in Processes : SystemKills(p)

Client ==
  \/ \E p \in Processes : Attach(p)
  \/ Detach \/ Kill \/ Resume
  \/ \E t \in Tids : SwitchThread(t)
  \/ BreakpointCommand
  \/ StepOver

SteppingNext == Proceed \/ TargetMoves \/ Client

SteppingSpec == SteppingInit /\ [][SteppingNext]_steppingVars

\* The server goes on with a step, a running thread runs, and the threads of a
\* process that was killed die.
SteppingFairness ==
  /\ WF_steppingVars(Proceed)
  /\ \A t \in Tids :
       /\ WF_steppingVars(Trap(t) \/ Execute(t))
       /\ WF_steppingVars(ProcessOf[t] \in killed /\ Exits(t))

FairSteppingSpec == SteppingSpec /\ SteppingFairness

-----------------------------------------------------------------------------
(* Correctness.                                                            *)

\* Between commands, and while running threads trap, exit and are killed, the
\* session uses the breakpoint manager as its clients may: every step is a call
\* of one of its methods or leaves table and text alone.
BreakpointsKept == Spec

\* A step over leaves no breakpoint of its own behind, whatever its outcome and
\* whatever the client did before, unless the thread it was set for has gone:
\* then the word can no longer be restored (single_step_impl).
NoTemporaryLeft ==
  step.at = "idle" =>
    \A id \in temporary \cap DOMAIN breakpoints : breakpoints[id].tid \notin alive

\* When a step over answers with success the thread is held.  If a trap stopped
\* it, it is at the next instruction or at an enabled breakpoint of the client,
\* which may be the one it started from: then it has not moved.
StepOverLands ==
  step.at = "idle" /\ answer = [op |-> "step_over", status |-> "ok"] =>
    LET t == m_current_tid IN
    \/ t \notin alive \/ ProcessOf[t] \in killed
    \/ stop[t] = "signal"
    \/ stop[t] = "trap" /\ (pc[t] = step.next \/ Patched(ProcessOf[t], pc[t]))

\* The instruction at a leads to the next one only.
FallsThrough(p, a) == Flow[p][a] = {a + 4}

\* A main thread that has exited is not reported while others of its process live.
Unreported == m_current_tid \notin alive /\ ~Reported(m_current_tid)

\* A step over an instruction that falls through ends, however the other
\* threads, signals and exits interfere: the temporary breakpoint is in the way.
\* A main thread that exits under the step is waited for with its process.
StepOverEnds ==
  step.at = "wait" /\ FallsThrough(ProcessOf[m_current_tid], step.next - 4)
    ~> step.at = "idle" \/ Unreported

=============================================================================
