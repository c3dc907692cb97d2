------------------------- MODULE TraceSessionProofs -------------------------
(***************************************************************************)
(* Proofs that TraceSession keeps its invariants for any number of         *)
(* processes and threads.                                                  *)
(***************************************************************************)
EXTENDS TraceSession, TLAPS

\* A thread the debugger traces and that cannot run.
Held(t) == t \in traced /\ (Stopped(t) \/ kernel[t] = "zombie")

\* A thread the debugger has let go, or that is dead.
Released(t) == t \in traced => kernel[t] = "zombie"

\* No thread of the process is in a group stop or can start one.
Quiet(p) ==
  /\ \A t \in Threads(p) : kernel[t] # "halted" /\ t \notin queued
  /\ shared[p] # "STOP"

\* An attach under way: the threads it has attached are held, and none of them
\* is met again.
Attaching ==
  call.op = "attach" =>
    /\ call.pid \in Processes
    /\ call.todo \subseteq Threads(call.pid)
    /\ call.got \subseteq Threads(call.pid)
    /\ call.got \cap call.todo = {}
    /\ call.at \in {"wait", "options"} => call.thread \in call.todo
    /\ \A t \in call.got : Held(t)

\* Only a traced thread is in a tracing stop.
StopsAreTraced == \A t \in Tids : Stopped(t) => t \in traced

\* A step under way has a thread to wait for.
Stepping == call.op = "step" => m_current_tid # None

\* A detach under way: as long as nothing has failed the threads behind it are
\* let go.
Detaching ==
  call.op = "detach" =>
    /\ m_pid # None
    /\ Quiet(m_pid)
    /\ call.ok => \A t \in m_tids \ call.todo : Released(t)

\* The same once detach has answered.
Detached ==
  Answered("detach") =>
    /\ m_pid # None
    /\ Quiet(m_pid)
    /\ \A t \in m_tids : Released(t)

\* A SIGSTOP is on its way to the process, a thread of it stands still, or no
\* thread of it is left.
Halting(p) ==
  \/ shared[p] = "STOP"
  \/ \E t \in Threads(p) : Stopped(t) \/ kernel[t] = "halted"
  \/ \A t \in Threads(p) : ~Alive(t)

\* A pause under way: once a thread is behind it without a failure the process
\* is halting.
Pausing ==
  call.op = "pause" =>
    /\ m_pid # None
    /\ call.at = "stop" => call.thread \in call.todo
    /\ call.todo \subseteq m_tids
    /\ call.ok /\ call.todo # m_tids => Halting(m_pid)

\* The same once pause has answered.
Paused == Answered("pause") => m_pid # None /\ Halting(m_pid)

(***************************************************************************)
(* The inductive invariant: what attach, detach and pause have achieved so *)
(* far holds between their system calls, whatever the target does          *)
(* meanwhile.                                                              *)
(***************************************************************************)
Inv ==
  /\ TypeOK
  /\ SessionHasMainThread
  /\ Attaching
  /\ AttachedStopped
  /\ Detaching
  /\ Detached
  /\ Pausing
  /\ Paused
  /\ Stepping
  /\ StopsAreTraced

-----------------------------------------------------------------------------
CallRecords ==
  [op : Operations, at : Places, pid : Processes \cup {None},
   thread : Tids \cup {None}, todo : SUBSET Tids, got : SUBSET Tids, ok : BOOLEAN]

-----------------------------------------------------------------------------
(* The target's own steps.                                                 *)

TargetTypeOK ==
  /\ kernel \in [Tids -> ThreadStates]
  /\ traced \subseteq Tids
  /\ queued \subseteq Tids
  /\ shared \in [Processes -> {"none", "STOP", "CONT"}]

\* Whatever the target does, a held thread stays held, a released one released,
\* and a process in which no SIGSTOP is pending starts no group stop.
LEMMA TargetKeeps ==
  ASSUME TraceSessionAssumption, TargetTypeOK, Target
  PROVE  /\ UNCHANGED <<session, call, reply>>
         /\ TargetTypeOK'
         /\ \A t \in Tids : (Held(t) => Held(t)') /\ (Released(t) => Released(t)')
         /\ \A p \in Processes : Quiet(p) => Quiet(p)'
<1>1. ASSUME NEW t \in Tids, TakesSignal(t)
      PROVE  /\ UNCHANGED <<session, call, reply, traced>>
             /\ TargetTypeOK'
             /\ \A u \in Tids : kernel[u] # "running" => kernel'[u] = kernel[u]
             /\ \A p \in Processes : Quiet(p) => Quiet(p)'
  <2>1. ProcessOf[t] \in Processes /\ t \in Threads(ProcessOf[t])
    BY DEF TraceSessionAssumption, Threads
  <2>2. CASE t \in queued /\ queued' = queued \ {t} /\ Take(t, "STOP") /\ UNCHANGED shared
    <3>1. TargetTypeOK' /\ \A u \in Tids : kernel[u] # "running" => kernel'[u] = kernel[u]
      BY <1>1, <2>1, <2>2 DEF TakesSignal, Take, GroupStop, TargetTypeOK, ThreadStates
    <3>2. ASSUME NEW p \in Processes, Quiet(p) PROVE Quiet(p)'
      <4>1. ProcessOf[t] # p
        BY <2>1, <2>2, <3>2 DEF Quiet
      <4>2. \A u \in Threads(p) : kernel'[u] = kernel[u] \/ kernel'[u] # "halted"
        BY <1>1, <2>1, <2>2, <4>1 DEF Take, GroupStop, Threads, TargetTypeOK
      <4> QED BY <2>2, <3>2, <4>2 DEF Quiet, Threads
    <3> QED BY <1>1, <3>1, <3>2 DEF TakesSignal
  <2>3. CASE /\ shared[ProcessOf[t]] # "none"
             /\ shared' = [shared EXCEPT ![ProcessOf[t]] = "none"]
             /\ Take(t, shared[ProcessOf[t]])
             /\ UNCHANGED queued
    <3>1. TargetTypeOK' /\ \A u \in Tids : kernel[u] # "running" => kernel'[u] = kernel[u]
      BY <1>1, <2>1, <2>3 DEF TakesSignal, Take, GroupStop, TargetTypeOK, ThreadStates
    <3>2. ASSUME NEW p \in Processes, Quiet(p) PROVE Quiet(p)'
      <4>1. \A u \in Threads(p) : kernel'[u] = kernel[u] \/ kernel'[u] # "halted"
        BY <1>1, <2>1, <2>3, <3>2 DEF Take, GroupStop, Threads, TargetTypeOK, Quiet
      <4>2. shared'[p] # "STOP"
        BY <2>1, <2>3, <3>2 DEF Quiet, TargetTypeOK
      <4> QED BY <2>3, <3>2, <4>1, <4>2 DEF Quiet, Threads
    <3> QED BY <1>1, <3>1, <3>2 DEF TakesSignal
  <2> QED BY <1>1, <2>2, <2>3 DEF TakesSignal
<1>2. ASSUME NEW t \in Tids, Traps(t) \/ ThreadStarts(t)
      PROVE  /\ UNCHANGED <<session, call, reply, traced>>
             /\ TargetTypeOK'
             /\ \A u \in Tids : kernel[u] \notin {"running", "absent"} => kernel'[u] = kernel[u]
             /\ \A u \in Tids : kernel[u] = "absent" => kernel'[u] \in {"absent", "running"}
             /\ \A p \in Processes : Quiet(p) => Quiet(p)'
  BY <1>2 DEF Traps, ThreadStarts, TargetTypeOK, ThreadStates, Quiet, Threads
<1>3. ASSUME NEW t \in Tids, ThreadExits(t)
      PROVE  /\ UNCHANGED <<session, call, reply, traced>>
             /\ TargetTypeOK'
             /\ \A u \in Tids : kernel[u] # "running" => kernel'[u] = kernel[u]
             /\ \A p \in Processes : Quiet(p) => Quiet(p)'
  BY <1>3 DEF ThreadExits, Dead, TargetTypeOK, ThreadStates, Quiet, Threads
<1>4. ASSUME NEW p \in Processes, ProcessDies(p)
      PROVE  /\ UNCHANGED <<session, call, reply, traced>>
             /\ TargetTypeOK'
             /\ \A u \in Tids : kernel'[u] = kernel[u]
                                \/ (Alive(u) /\ kernel'[u] = Dead(u))
             /\ \A q \in Processes : Quiet(q) => Quiet(q)'
  <2>1. TargetTypeOK' /\ \A u \in Tids : kernel'[u] = kernel[u] \/ (Alive(u) /\ kernel'[u] = Dead(u))
    BY <1>4 DEF ProcessDies, EndProcess, Dead, TargetTypeOK, ThreadStates
  <2>2. /\ \A u \in Tids : kernel'[u] # "halted" \/ kernel'[u] = kernel[u]
        /\ queued' \subseteq queued
        /\ \A q \in Processes : shared'[q] \in {"none", shared[q]}
    BY <1>4, <2>1 DEF ProcessDies, EndProcess, Dead, TargetTypeOK
  <2>3. \A q \in Processes : Quiet(q) => Quiet(q)'
    BY <2>2 DEF Quiet, Threads
  <2> QED BY <1>4, <2>1, <2>3 DEF ProcessDies, EndProcess
<1>5. ASSUME NEW p \in Processes, ParentReaps(p)
      PROVE  /\ UNCHANGED <<session, call, reply, traced>>
             /\ TargetTypeOK'
             /\ \A u \in Tids : u # p => kernel'[u] = kernel[u]
             /\ p \notin traced
             /\ \A q \in Processes : Quiet(q) => Quiet(q)'
  BY <1>5 DEF ParentReaps, Reap, TargetTypeOK, ThreadStates, Quiet, Threads
<1> QED
  <2>1. ASSUME NEW t \in Tids, TakesSignal(t) \/ ThreadExits(t) \/ Traps(t) \/ ThreadStarts(t)
        PROVE  \A u \in Tids : (Held(u) => Held(u)') /\ (Released(u) => Released(u)')
    BY <1>1, <1>2, <1>3, <2>1 DEF Held, Released, Stopped
  <2>2. ASSUME NEW p \in Processes, ProcessDies(p)
        PROVE  \A u \in Tids : (Held(u) => Held(u)') /\ (Released(u) => Released(u)')
    BY <1>4, <2>2 DEF Held, Released, Stopped, Dead, Alive
  <2>3. ASSUME NEW p \in Processes, ParentReaps(p)
        PROVE  \A u \in Tids : (Held(u) => Held(u)') /\ (Released(u) => Released(u)')
    BY <1>5, <2>3 DEF Held, Released, Stopped
  <2> QED BY <1>1, <1>2, <1>3, <1>4, <1>5, <2>1, <2>2, <2>3 DEF Target

-----------------------------------------------------------------------------
(* The server's steps.                                                     *)

\* The four ways in which a step of the server changes where it is.
Moves ==
  \/ \E op \in Operations, status \in {"ok", "fail"} : Answer(op, status)
  \/ \E op \in Operations, at \in Places, p \in Processes \cup {None},
        todo \in SUBSET Tids : Start(op, at, p, todo)
  \/ \E at \in Places, t \in Tids \cup {None} : Goto(at, t)
  \/ \E t \in Tids, got \in SUBSET Tids, ok \in BOOLEAN : NextThread(t, got, ok)

CallTypeOK == call \in CallRecords /\ reply \in [op : Operations, status : {"ok", "fail"}]

SessionTypeOK ==
  /\ m_pid \in Processes \cup {None}
  /\ m_tids \subseteq IF m_pid = None THEN {} ELSE Threads(m_pid)
  /\ m_current_tid \in Tids \cup {None}

LEMMA MovesTyped == ASSUME CallTypeOK, Moves PROVE CallTypeOK'
<1> USE DEF CallTypeOK, CallRecords, Operations, Places
<1>1. ASSUME NEW op \in Operations, NEW status \in {"ok", "fail"}, Answer(op, status)
      PROVE  CallTypeOK'
  BY <1>1 DEF Answer, Idle
<1>2. ASSUME NEW op \in Operations, NEW at \in Places, NEW p \in Processes \cup {None},
             NEW todo \in SUBSET Tids, Start(op, at, p, todo)
      PROVE  CallTypeOK'
  BY <1>2 DEF Start, Idle
<1>3. ASSUME NEW at \in Places, NEW t \in Tids \cup {None}, Goto(at, t) PROVE CallTypeOK'
  BY <1>3 DEF Goto
<1>4. ASSUME NEW t \in Tids, NEW got \in SUBSET Tids, NEW ok \in BOOLEAN, NextThread(t, got, ok)
      PROVE  CallTypeOK'
  BY <1>4 DEF NextThread
<1> HIDE DEF CallTypeOK, CallRecords, Operations, Places
<1> QED BY <1>1, <1>2, <1>3, <1>4 DEF Moves

LEMMA ServerMoves ==
  ASSUME TypeOK, Command \/ Progress
  PROVE  Moves
<1> USE DEF Moves, Operations, Places, Refuse
<1>0. call.todo \subseteq Tids /\ call.got \subseteq Tids /\ call.ok \in BOOLEAN
      /\ m_tids \subseteq Tids /\ m_pid \in Processes \cup {None}
      /\ \A p \in Processes : Threads(p) \subseteq Tids
  BY DEF TypeOK, Threads
<1>1. ASSUME NEW p \in Processes, Attach(p) PROVE Moves
  BY <1>0, <1>1 DEF Attach
<1>2. ASSUME NEW t \in Tids, AttachThread(t) PROVE Moves
  BY <1>0, <1>2 DEF AttachThread
<1>3. ASSUME NEW t \in Tids, AttachWait(t) \/ AttachOptions(t) PROVE Moves
  BY <1>0, <1>3 DEF AttachWait, AttachOptions
<1>4. ASSUME AttachDone \/ Detach \/ Kill \/ DetachDone \/ KillDetached \/ SigKill PROVE Moves
  BY <1>0, <1>4 DEF AttachDone, Detach, Kill, StartDetach, DetachDone, KillDetached, SigKill, Verdict
<1>5. ASSUME NEW t \in Tids, DetachThread("detach", t) \/ DetachThread("kill", t) PROVE Moves
  BY <1>0, <1>5 DEF DetachThread
<1>6. ASSUME Resume \/ Pause \/ SweepDone("resume") \/ SweepDone("pause") PROVE Moves
  BY <1>0, <1>6 DEF Resume, Pause, StartSweep, SweepDone, Verdict
<1>7. ASSUME NEW t \in Tids, ResumeLooks(t) \/ PauseLooks(t) PROVE Moves
  BY <1>0, <1>7 DEF ResumeLooks, PauseLooks
<1>8. ASSUME NEW t \in Tids, ResumeThread(t) \/ PauseThread(t) PROVE Moves
  BY <1>0, <1>8 DEF ResumeThread, PauseThread
<1>9. ASSUME StepInto \/ StepWait PROVE Moves
  BY <1>0, <1>9 DEF StepInto, StepWait
<1>10. ASSUME NEW t \in Tids, SwitchThread(t) PROVE Moves
  BY <1>0, <1>10 DEF SwitchThread
<1> QED BY <1>1, <1>2, <1>3, <1>4, <1>5, <1>6, <1>7, <1>8, <1>9, <1>10 DEF Command, Progress

\* What the server's system calls leave of the target is well typed.
LEMMA ServerKeepsTarget ==
  ASSUME TypeOK, Stepping, TraceSessionAssumption, Command \/ Progress
  PROVE  TargetTypeOK'
<1>0. TargetTypeOK /\ m_pid \in Processes \cup {None}
      /\ (m_current_tid # None => m_current_tid \in Tids)
  BY DEF TypeOK, TargetTypeOK
<1>1. ASSUME UNCHANGED target PROVE TargetTypeOK'
  BY <1>0, <1>1 DEF target, TargetTypeOK
<1>2. ASSUME NEW t \in Tids, AttachThread(t) PROVE TargetTypeOK'
  BY <1>0, <1>1, <1>2 DEF AttachThread, TargetTypeOK, ThreadStates
<1>3. ASSUME NEW t \in Tids, Reap(t) PROVE TargetTypeOK'
  BY <1>0, <1>3 DEF Reap, TargetTypeOK, ThreadStates
<1>4. ASSUME NEW t \in Tids, Run(t) PROVE TargetTypeOK'
  BY <1>0, <1>4 DEF Run, TargetTypeOK, ThreadStates
<1>5. ASSUME NEW p \in Processes, SendCont(p) \/ SendStop(p) PROVE TargetTypeOK'
  BY <1>0, <1>5 DEF SendCont, SendStop, TargetTypeOK, ThreadStates
<1>6. ASSUME NEW p \in Processes, EndProcess(p) PROVE TargetTypeOK'
  BY <1>0, <1>6 DEF EndProcess, Dead, TargetTypeOK, ThreadStates
<1>7. ASSUME NEW t \in Tids, DetachThread("detach", t) \/ DetachThread("kill", t)
      PROVE  TargetTypeOK'
  BY <1>0, <1>1, <1>7 DEF DetachThread, TargetTypeOK, ThreadStates
<1>8. ASSUME Detach \/ Kill PROVE TargetTypeOK'
  <2>1. UNCHANGED target \/ (m_pid # None /\ SendCont(m_pid))
    BY <1>8 DEF Detach, Kill, StartDetach, Refuse
  <2> QED BY <1>0, <1>1, <1>5, <2>1
<1>9. ASSUME SigKill PROVE TargetTypeOK'
  <2>1. UNCHANGED target \/ (m_pid # None /\ EndProcess(m_pid))
    BY <1>9, TraceSessionAssumption DEF SigKill, Refuse, Threads, TraceSessionAssumption
  <2> QED BY <1>0, <1>1, <1>6, <2>1
<1>10. ASSUME NEW t \in Tids, AttachWait(t) \/ ResumeThread(t) \/ PauseThread(t)
       PROVE  TargetTypeOK'
  <2>1. ProcessOf[t] \in Processes
    BY DEF TraceSessionAssumption
  <2> QED BY <1>1, <1>3, <1>4, <1>5, <1>10, <2>1 DEF AttachWait, ResumeThread, PauseThread
<1>11. ASSUME StepInto PROVE TargetTypeOK'
  BY <1>0, <1>1, <1>4, <1>11 DEF StepInto, Refuse
<1>12. ASSUME StepWait PROVE TargetTypeOK'
  <2>1. UNCHANGED target \/ (m_current_tid \in Tids /\ Reap(m_current_tid))
    BY <1>0, <1>12 DEF StepWait, Stepping
  <2> QED BY <1>1, <1>3, <2>1
<1>13. ASSUME NEW t \in Tids, AttachOptions(t) \/ ResumeLooks(t) \/ PauseLooks(t) \/ SwitchThread(t)
       PROVE  TargetTypeOK'
  BY <1>1, <1>13 DEF AttachOptions, ResumeLooks, PauseLooks, SwitchThread, Refuse, target
<1>14. ASSUME NEW p \in Processes, Attach(p) PROVE TargetTypeOK'
  BY <1>1, <1>14 DEF Attach, Refuse
<1>15. ASSUME \/ AttachDone \/ DetachDone \/ KillDetached \/ Resume \/ Pause
              \/ SweepDone("resume") \/ SweepDone("pause")
       PROVE  TargetTypeOK'
  BY <1>1, <1>15 DEF AttachDone, DetachDone, KillDetached, Resume, Pause, StartSweep, SweepDone,
                     Refuse
<1> QED BY <1>2, <1>7, <1>8, <1>9, <1>10, <1>11, <1>12, <1>13, <1>14, <1>15 DEF Command, Progress

\* The session changes when an attach is done, when a kill is done and when the
\* client switches threads, and at no other step of the server.
LEMMA SessionChanges ==
  ASSUME Command \/ Progress
  PROVE  \/ UNCHANGED session
         \/ AttachDone \/ SigKill
         \/ \E t \in Tids : t \in m_tids /\ SwitchThread(t)
<1> USE DEF Refuse, Goto, NextThread
<1>1. ASSUME NEW t \in Tids,
             \/ AttachThread(t) \/ AttachWait(t) \/ AttachOptions(t)
             \/ DetachThread("detach", t) \/ DetachThread("kill", t)
             \/ ResumeLooks(t) \/ ResumeThread(t) \/ PauseLooks(t) \/ PauseThread(t)
      PROVE  UNCHANGED session
  BY <1>1 DEF AttachThread, AttachWait, AttachOptions, DetachThread, ResumeLooks, ResumeThread,
              PauseLooks, PauseThread
<1>2. ASSUME NEW p \in Processes, Attach(p) PROVE UNCHANGED session
  BY <1>2 DEF Attach
<1>3. ASSUME \/ Detach \/ Kill \/ Resume \/ Pause \/ StepInto \/ DetachDone \/ KillDetached
             \/ SweepDone("resume") \/ SweepDone("pause") \/ StepWait
      PROVE  UNCHANGED session
  BY <1>3 DEF Detach, Kill, StartDetach, Resume, Pause, StartSweep, StepInto, DetachDone,
              KillDetached, SweepDone, StepWait
<1>4. ASSUME NEW t \in Tids, SwitchThread(t) PROVE UNCHANGED session \/ t \in m_tids
  BY <1>4 DEF SwitchThread
<1> QED BY <1>1, <1>2, <1>3, <1>4 DEF Command, Progress

LEMMA SessionTyped ==
  ASSUME TypeOK, SessionHasMainThread, Attaching, TraceSessionAssumption, Command \/ Progress
  PROVE  SessionTypeOK' /\ SessionHasMainThread'
<1>1. SessionTypeOK /\ \A p \in Processes \cup {None} : p = None \/ Threads(p) \subseteq Tids
  BY DEF TypeOK, SessionTypeOK, Threads
<1>2. CASE UNCHANGED session
  BY <1>1, <1>2 DEF session, SessionTypeOK, SessionHasMainThread, Threads
<1>3. CASE AttachDone
  <2>1. CASE call.pid \in call.got
    <3>1. /\ m_pid' = call.pid /\ m_current_tid' = call.pid /\ m_tids' = call.got
          /\ call.pid \in Processes /\ call.got \subseteq Threads(call.pid)
      BY <1>3, <2>1 DEF AttachDone, LoopDone, Attaching
    <3>2. call.pid \in Tids /\ call.pid # None
      BY <3>1, TraceSessionAssumption DEF TraceSessionAssumption
    <3> QED BY <2>1, <3>1, <3>2 DEF SessionTypeOK, SessionHasMainThread, Threads
  <2> QED BY <1>2, <1>3, <2>1 DEF AttachDone, Refuse
<1>4. CASE SigKill
  BY <1>1, <1>2, <1>4 DEF SigKill, Refuse, SessionTypeOK, SessionHasMainThread
<1>5. CASE \E t \in Tids : t \in m_tids /\ SwitchThread(t)
  BY <1>1, <1>5 DEF SwitchThread, SessionTypeOK, SessionHasMainThread, Threads
<1> QED BY <1>2, <1>3, <1>4, <1>5, SessionChanges

-----------------------------------------------------------------------------
(* attach.                                                                 *)

AttachSteps ==
  \/ \E p \in Processes : Attach(p)
  \/ \E t \in Tids : AttachThread(t) \/ AttachWait(t) \/ AttachOptions(t)
  \/ AttachDone

\* No other step of the server concerns an attach or answers one.
LEMMA OtherSteps ==
  ASSUME Command \/ Progress, call \in CallRecords, ~AttachSteps
  PROVE  call'.op # "attach" /\ ~Answered("attach")'
<1> USE DEF Answer, Start, Goto, NextThread, Refuse, Idle, CallRecords, Answered, AtLoop, LoopDone
<1>1. ASSUME NEW t \in Tids,
             \/ DetachThread("detach", t) \/ DetachThread("kill", t)
             \/ ResumeLooks(t) \/ ResumeThread(t) \/ PauseLooks(t) \/ PauseThread(t)
      PROVE  call'.op # "attach" /\ ~Answered("attach")'
  <2>1. /\ call.op # "attach"
        /\ \/ Goto("cont", t) \/ Goto("stop", t)
           \/ NextThread(t, call.got, call.ok)
           \/ NextThread(t, call.got, call.ok /\ kernel[t] = "zombie")
           \/ NextThread(t, call.got, call.ok /\ Stopped(t))
           \/ NextThread(t, call.got, call.ok /\ Exists(t))
    <3> HIDE DEF Goto, NextThread
    <3> QED BY <1>1 DEF DetachThread, ResumeLooks, ResumeThread, PauseLooks, PauseThread
  <2>2. call'.op = call.op /\ call'.at \in {"cont", "stop", "loop"}
    BY <2>1
  <2> QED BY <2>1, <2>2
<1>2. ASSUME NEW op \in {"detach", "kill", "resume", "pause", "step"},
             \/ Answer(op, "ok") \/ Answer(op, "fail")
             \/ Start(op, "loop", m_pid, m_tids) \/ Start(op, "sigkill", m_pid, {})
             \/ Start(op, "wait", None, {})
      PROVE  call'.op # "attach" /\ ~Answered("attach")'
  <2>1. CASE Answer(op, "ok") \/ Answer(op, "fail")
    BY <2>1
  <2>2. ASSUME NEW at \in {"loop", "sigkill", "wait"},
               Start(op, at, m_pid, m_tids) \/ Start(op, at, m_pid, {}) \/ Start(op, at, None, {})
        PROVE  call'.op = op /\ call'.at = at
    BY <2>2
  <2> QED BY <1>2, <2>1, <2>2
<1>4. ASSUME \/ Detach \/ Kill \/ Resume \/ Pause \/ StepInto \/ DetachDone
             \/ SweepDone("resume") \/ SweepDone("pause") \/ StepWait \/ SigKill
      PROVE  call'.op # "attach" /\ ~Answered("attach")'
  <2> HIDE DEF Answer, Start, Goto, NextThread, Idle, CallRecords, Answered, AtLoop, LoopDone
  <2> QED BY <1>2, <1>4 DEF Detach, Kill, StartDetach, Resume, Pause, StartSweep, StepInto, DetachDone,
              SweepDone, StepWait, SigKill, Verdict
<1>5. ASSUME KillDetached PROVE call'.op # "attach" /\ ~Answered("attach")'
  BY <1>5 DEF KillDetached
<1>3. ASSUME NEW t \in Tids, SwitchThread(t) PROVE call'.op # "attach" /\ ~Answered("attach")'
  BY <1>3 DEF SwitchThread
<1> HIDE DEF Answer, Start, Goto, NextThread, Refuse, Idle, CallRecords, Answered, AtLoop, LoopDone
<1> QED BY <1>1, <1>3, <1>4, <1>5 DEF Command, Progress, AttachSteps

\* A step of attach takes no thread out of a tracing stop or its zombie state
\* unless it waits for that thread.
LEMMA AttachStep ==
  ASSUME TraceSessionAssumption, TypeOK, Attaching, AttachedStopped, StopsAreTraced,
         Command \/ Progress
  PROVE  Attaching' /\ AttachedStopped'
<1>0. call \in CallRecords
  BY DEF TypeOK, CallRecords
<1>1. CASE ~AttachSteps
  BY <1>0, <1>1, OtherSteps DEF Attaching, AttachedStopped
<1>2. ASSUME NEW p \in Processes, Attach(p) PROVE Attaching' /\ AttachedStopped'
  <2>1. CASE Refuse("attach")
    BY <2>1 DEF Refuse, Answer, Idle, Attaching, AttachedStopped, Answered
  <2>2. CASE Start("attach", "loop", p, {t \in Threads(p) : Exists(t)})
    BY <2>2 DEF Start, Attaching, AttachedStopped, Answered, Threads
  <2> QED BY <1>2, <2>1, <2>2 DEF Attach
<1>3. ASSUME NEW t \in Tids, AttachThread(t) PROVE Attaching' /\ AttachedStopped'
  <2>1. /\ call.op = "attach" /\ t \in call.todo
        /\ \A u \in call.got : u # t /\ Held(u)
    BY <1>3 DEF AttachThread, AtLoop, Attaching
  <2>2. \A u \in call.got : Held(u)'
    BY <1>0, <1>3, <2>1 DEF AttachThread, Held, Stopped, target, CallRecords, TypeOK
  <2>3. CASE Goto("options", t) \/ Goto("wait", t)
    <3>0. /\ call'.op = call.op /\ call'.pid = call.pid /\ call'.todo = call.todo
          /\ call'.got = call.got /\ call'.thread = t /\ call'.at \in {"options", "wait"}
      BY <1>0, <2>3 DEF Goto, CallRecords
    <3>1. Attaching'
      BY <2>1, <2>2, <3>0 DEF Attaching
    <3>2. AttachedStopped'
      BY <3>0 DEF AttachedStopped, Answered
    <3> QED
      BY <3>1, <3>2
  <2>4. CASE NextThread(t, call.got, call.ok)
    BY <1>0, <2>1, <2>2, <2>4 DEF NextThread, CallRecords, Attaching, AttachedStopped, Answered
  <2> QED BY <1>3, <2>3, <2>4 DEF AttachThread
<1>4. ASSUME NEW t \in Tids, AttachWait(t) PROVE Attaching' /\ AttachedStopped'
  <2>1. /\ call.op = "attach" /\ t \in call.todo
        /\ \A u \in call.got : u # t /\ Held(u)
    BY <1>4 DEF AttachWait, Attaching
  <2>2. \A u \in call.got : Held(u)'
    BY <1>0, <1>4, <2>1 DEF AttachWait, Reap, Held, Stopped, target, CallRecords, TypeOK
  <2> QED BY <1>0, <1>4, <2>1, <2>2
          DEF AttachWait, Goto, CallRecords, Attaching, AttachedStopped, Answered
<1>5. ASSUME NEW t \in Tids, AttachOptions(t) PROVE Attaching' /\ AttachedStopped'
  <2>1. /\ call.op = "attach" /\ t \in call.todo
        /\ \A u \in call.got : Held(u)
        /\ Stopped(t) => Held(t)
    BY <1>5 DEF AttachOptions, Attaching, StopsAreTraced, Held
  <2> QED BY <1>0, <1>5, <2>1
          DEF AttachOptions, NextThread, CallRecords, Attaching, AttachedStopped, Answered, Held,
              Stopped, target
<1>6. ASSUME AttachDone PROVE Attaching' /\ AttachedStopped'
  <2>1. \A u \in call.got : Held(u)
    BY <1>6 DEF AttachDone, LoopDone, Attaching
  <2> QED BY <1>6, <2>1
          DEF AttachDone, Answer, Refuse, Idle, Attaching, AttachedStopped, Answered, Held, Stopped,
              target
<1> QED BY <1>1, <1>2, <1>3, <1>4, <1>5, <1>6 DEF AttachSteps

-----------------------------------------------------------------------------
(* detach.                                                                 *)

DetachSteps ==
  \/ Detach \/ DetachDone
  \/ \E t \in Tids : DetachThread("detach", t)

\* No other step of the server concerns a detach or answers one.
LEMMA NotDetaching ==
  ASSUME Command \/ Progress, call \in CallRecords, ~DetachSteps
  PROVE  call'.op # "detach" /\ ~Answered("detach")'
<1>1. ASSUME NEW op \in Operations \ {"detach"},
             \/ Answer(op, "ok") \/ Answer(op, "fail")
             \/ \E at \in {"loop", "sigkill", "wait"} : \E p, todo : Start(op, at, p, todo)
      PROVE  call'.op # "detach" /\ ~Answered("detach")'
  <2>1. CASE Answer(op, "ok") \/ Answer(op, "fail")
    BY <2>1 DEF Answer, Idle, Answered
  <2>2. ASSUME NEW at \in {"loop", "sigkill", "wait"}, NEW p, NEW todo, Start(op, at, p, todo)
        PROVE  call'.op = op /\ call'.at = at
    BY <2>2 DEF Start
  <2> QED BY <1>1, <2>1, <2>2 DEF Answered
<1>2. ASSUME call.op # "detach",
             \/ \E at \in {"cont", "stop", "options", "wait", "sigkill"} : \E t : Goto(at, t)
             \/ \E t, got, ok : NextThread(t, got, ok)
      PROVE  call'.op # "detach" /\ ~Answered("detach")'
  BY <1>2 DEF Goto, NextThread, CallRecords, Answered
<1> USE DEF Refuse, AtLoop, LoopDone, Operations
<1>3. ASSUME NEW t \in Tids,
             \/ AttachThread(t) \/ AttachWait(t) \/ AttachOptions(t) \/ DetachThread("kill", t)
             \/ ResumeLooks(t) \/ ResumeThread(t) \/ PauseLooks(t) \/ PauseThread(t)
      PROVE  call'.op # "detach" /\ ~Answered("detach")'
  BY <1>2, <1>3 DEF AttachThread, AttachWait, AttachOptions, DetachThread, ResumeLooks,
                    ResumeThread, PauseLooks, PauseThread
<1>4. ASSUME \/ Kill \/ Resume \/ Pause \/ StepInto \/ AttachDone
             \/ SweepDone("resume") \/ SweepDone("pause") \/ StepWait \/ SigKill
      PROVE  call'.op # "detach" /\ ~Answered("detach")'
  BY <1>1, <1>4 DEF Kill, StartDetach, Resume, Pause, StartSweep, StepInto, AttachDone, SweepDone,
                    StepWait, SigKill, Verdict
<1>5. ASSUME KillDetached PROVE call'.op # "detach" /\ ~Answered("detach")'
  BY <1>2, <1>5 DEF KillDetached
<1>6. ASSUME NEW p \in Processes, Attach(p) PROVE call'.op # "detach" /\ ~Answered("detach")'
  BY <1>1, <1>6 DEF Attach
<1>7. ASSUME NEW t \in Tids, SwitchThread(t) PROVE call'.op # "detach" /\ ~Answered("detach")'
  BY <1>1, <1>7 DEF SwitchThread
<1> QED BY <1>3, <1>4, <1>5, <1>6, <1>7 DEF Command, Progress, DetachSteps

\* SIGCONT makes the process quiet, and from then on detach only lets go.
LEMMA DetachStep ==
  ASSUME TraceSessionAssumption, TypeOK, Detaching, Command \/ Progress
  PROVE  Detaching' /\ Detached'
<1>0. call \in CallRecords
  BY DEF TypeOK, CallRecords
<1>1. CASE ~DetachSteps
  BY <1>0, <1>1, NotDetaching DEF Detaching, Detached
<1>2. CASE Detach
  <2>1. CASE Refuse("detach")
    BY <2>1 DEF Refuse, Answer, Idle, Detaching, Detached, Answered
  <2>2. CASE m_pid # None /\ StartDetach("detach")
    <3>1. m_pid \in Processes /\ UNCHANGED session
      BY <2>2 DEF StartDetach, TypeOK
    <3>2. Quiet(m_pid)'
      BY <2>2, <3>1 DEF StartDetach, SendCont, Quiet, TypeOK, Threads, session
    <3>3. call'.op = "detach" /\ call'.at = "loop" /\ call'.todo = m_tids
      BY <2>2 DEF StartDetach, Start
    <3> QED BY <2>2, <3>1, <3>2, <3>3 DEF Detaching, Detached, Answered, session
  <2> QED BY <1>2, <2>1, <2>2 DEF Detach
<1>3. ASSUME NEW t \in Tids, DetachThread("detach", t) PROVE Detaching' /\ Detached'
  <2>1. call.op = "detach" /\ t \in call.todo /\ m_pid # None /\ Quiet(m_pid)
    BY <1>3 DEF DetachThread, AtLoop, Detaching
  <2>2. /\ call'.op = "detach" /\ call'.at = "loop" /\ call'.todo = call.todo \ {t}
        /\ UNCHANGED session
        /\ call'.ok => call.ok /\ (Stopped(t) \/ kernel[t] = "zombie")
    <3>1. CASE Stopped(t) /\ NextThread(t, call.got, call.ok)
      BY <1>0, <2>1, <3>1 DEF NextThread, CallRecords
    <3>2. CASE NextThread(t, call.got, call.ok /\ kernel[t] = "zombie")
      <4>1. call'.ok = (call.ok /\ kernel[t] = "zombie")
        BY <1>0, <3>2 DEF NextThread, CallRecords
      <4>2. /\ call'.op = "detach" /\ call'.at = "loop" /\ call'.todo = call.todo \ {t}
            /\ UNCHANGED session
        BY <1>0, <2>1, <3>2 DEF NextThread, CallRecords
      <4> QED BY <4>1, <4>2
    <3> QED BY <1>3, <3>1, <3>2 DEF DetachThread
  <2>3. /\ \A u \in Tids : kernel'[u] \in {kernel[u], "running"}
        /\ \A u \in Tids : u \in traced' => u \in traced /\ kernel'[u] = kernel[u]
        /\ Stopped(t) => t \notin traced'
        /\ queued' = queued /\ shared' = shared
    BY <1>3 DEF DetachThread, TypeOK, target
  <2>4. Quiet(m_pid)'
    BY <2>1, <2>2, <2>3 DEF Quiet, Threads, session
  <2>5. ASSUME call'.ok, NEW u \in m_tids, u \notin call'.todo
        PROVE  Released(u)'
    <3>1. u \in Tids
      BY DEF TypeOK, Threads
    <3>2. CASE u = t
      BY <2>2, <2>3, <2>5, <3>1, <3>2 DEF Released
    <3>3. CASE u \notin call.todo
      BY <2>1, <2>2, <2>3, <2>5, <3>1, <3>3 DEF Detaching, Released
    <3> QED BY <2>2, <2>5, <3>2, <3>3
  <2> QED BY <2>1, <2>2, <2>4, <2>5 DEF Detaching, Detached, Answered, session
<1>4. CASE DetachDone
  <2>1. m_pid # None /\ Quiet(m_pid) /\ (call.ok => \A t \in m_tids : Released(t))
    BY <1>4 DEF DetachDone, LoopDone, Detaching
  <2>2. UNCHANGED <<session, target>> /\ call' = Idle
        /\ reply' = [op |-> "detach", status |-> IF call.ok THEN "ok" ELSE "fail"]
    BY <1>4 DEF DetachDone, Answer, Verdict
  <2>3. Answered("detach")' => call.ok
    BY <2>2 DEF Answered
  <2>4. Quiet(m_pid)' /\ (call.ok => \A t \in m_tids' : Released(t)')
    BY <2>1, <2>2 DEF Quiet, Released, session, target
  <2>5. call'.op # "detach"
    BY <2>2 DEF Idle
  <2> QED BY <2>1, <2>2, <2>3, <2>4, <2>5 DEF Detaching, Detached, session
<1> QED BY <1>1, <1>2, <1>3, <1>4 DEF DetachSteps

-----------------------------------------------------------------------------
(* pause.                                                                  *)

\* Nothing the target does ends a halt but the end of the process: a SIGSTOP is
\* used up by the thread it stops, and a thread that stands still takes no
\* signal, does not exit and starts no thread.
LEMMA HaltingStays ==
  ASSUME TraceSessionAssumption, TargetTypeOK, Target, NEW p \in Processes, Halting(p)
  PROVE  Halting(p)'
<1>0. Threads(p) \subseteq Tids
  BY DEF Threads
<1>1. ASSUME NEW t \in Tids, TakesSignal(t) PROVE Halting(p)'
  <2>1. /\ kernel[t] = "running"
        /\ \A u \in Tids : kernel[u] # "running" => kernel'[u] = kernel[u]
    BY <1>1 DEF TakesSignal, Take, GroupStop, TargetTypeOK
  <2>2. CASE \E u \in Threads(p) : Stopped(u) \/ kernel[u] = "halted"
    BY <1>0, <2>1, <2>2 DEF Halting, Stopped
  <2>3. CASE shared[p] = "STOP"
    <3>1. CASE shared'[p] = "STOP"
      BY <3>1 DEF Halting
    <3>2. CASE shared'[p] # "STOP"
      <4>1. ProcessOf[t] = p /\ Take(t, "STOP")
        BY <1>1, <2>3, <3>2 DEF TakesSignal, TargetTypeOK
      <4>2. t \in Threads(p) /\ kernel'[t] \in {"paused", "halted"}
        BY <2>1, <4>1 DEF Take, GroupStop, Threads, TargetTypeOK
      <4> QED BY <4>2 DEF Halting, Stopped
    <3> QED BY <3>1, <3>2
  <2>4. CASE \A u \in Threads(p) : ~Alive(u)
    <3>1. \A u \in Threads(p) : kernel[u] # "running"
      BY <2>4 DEF Alive
    <3> QED BY <1>0, <2>1, <2>4, <3>1 DEF Halting, Alive, Stopped
  <2> QED BY <2>2, <2>3, <2>4 DEF Halting
<1>2. ASSUME NEW t \in Tids, Traps(t) \/ ThreadStarts(t) PROVE Halting(p)'
  <2>1. /\ shared' = shared
        /\ \A u \in Tids : kernel[u] \notin {"running", "absent"} => kernel'[u] = kernel[u]
        /\ \A u \in Tids : u # t => kernel'[u] = kernel[u]
        /\ \E u \in Threads(ProcessOf[t]) : kernel[u] = "running"
        /\ t \in Threads(ProcessOf[t])
    BY <1>2 DEF Traps, ThreadStarts, TargetTypeOK, Threads
  <2>2. CASE \A u \in Threads(p) : ~Alive(u)
    <3>1. ProcessOf[t] # p
      BY <2>1, <2>2 DEF Alive
    <3>2. \A u \in Threads(p) : kernel'[u] = kernel[u]
      BY <1>0, <2>1, <3>1 DEF Threads
    <3> QED BY <2>2, <3>2 DEF Halting, Alive, Stopped
  <2> QED BY <1>0, <2>1, <2>2 DEF Halting, Stopped
<1>3. ASSUME NEW t \in Tids, ThreadExits(t) PROVE Halting(p)'
  <2>1. /\ shared' = shared
        /\ \A u \in Tids : kernel[u] # "running" => kernel'[u] = kernel[u]
        /\ \A u \in Tids : kernel'[u] \in {kernel[u], "zombie", "gone"}
    BY <1>3 DEF ThreadExits, Dead, TargetTypeOK
  <2> QED BY <1>0, <2>1 DEF Halting, Stopped, Alive
<1>4. ASSUME NEW q \in Processes, ProcessDies(q) PROVE Halting(p)'
  <2>1. CASE q = p
    BY <1>0, <1>4, <2>1 DEF ProcessDies, EndProcess, Dead, TargetTypeOK, Halting, Alive, Stopped
  <2>2. CASE q # p
    <3>1. shared'[p] = shared[p] /\ \A u \in Threads(p) : kernel'[u] = kernel[u]
      BY <1>4, <2>2 DEF ProcessDies, EndProcess, TargetTypeOK, Threads
    <3> QED BY <3>1 DEF Halting, Alive, Stopped
  <2> QED BY <2>1, <2>2
<1>5. ASSUME NEW q \in Processes, ParentReaps(q) PROVE Halting(p)'
  <2>1. /\ shared' = shared
        /\ \A u \in Tids : kernel'[u] = kernel[u] \/ (kernel[u] = "zombie" /\ kernel'[u] = "gone")
    BY <1>5 DEF ParentReaps, Reap, Reapable, TargetTypeOK
  <2> QED BY <1>0, <2>1 DEF Halting, Alive, Stopped
<1> QED BY <1>1, <1>2, <1>3, <1>4, <1>5 DEF Target

PauseSteps ==
  \/ Pause \/ SweepDone("pause")
  \/ \E t \in Tids : PauseLooks(t) \/ PauseThread(t)

\* No other step of the server concerns a pause or answers one.
LEMMA NotPausing ==
  ASSUME Command \/ Progress, call \in CallRecords, ~PauseSteps
  PROVE  call'.op # "pause" /\ ~Answered("pause")'
<1>1. ASSUME NEW op \in Operations \ {"pause"},
             \/ Answer(op, "ok") \/ Answer(op, "fail")
             \/ \E at \in {"loop", "sigkill", "wait"} : \E p, todo : Start(op, at, p, todo)
      PROVE  call'.op # "pause" /\ ~Answered("pause")'
  <2>1. CASE Answer(op, "ok") \/ Answer(op, "fail")
    BY <2>1 DEF Answer, Idle, Answered
  <2>2. ASSUME NEW at \in {"loop", "sigkill", "wait"}, NEW p, NEW todo, Start(op, at, p, todo)
        PROVE  call'.op = op /\ call'.at = at
    BY <2>2 DEF Start
  <2> QED BY <1>1, <2>1, <2>2 DEF Answered
<1>2. ASSUME call.op # "pause",
             \/ \E at \in {"cont", "stop", "options", "wait", "sigkill"} : \E t : Goto(at, t)
             \/ \E t, got, ok : NextThread(t, got, ok)
      PROVE  call'.op # "pause" /\ ~Answered("pause")'
  BY <1>2 DEF Goto, NextThread, CallRecords, Answered
<1> USE DEF Refuse, AtLoop, LoopDone, Operations
<1>3. ASSUME NEW t \in Tids,
             \/ AttachThread(t) \/ AttachWait(t) \/ AttachOptions(t)
             \/ DetachThread("detach", t) \/ DetachThread("kill", t)
             \/ ResumeLooks(t) \/ ResumeThread(t)
      PROVE  call'.op # "pause" /\ ~Answered("pause")'
  BY <1>2, <1>3 DEF AttachThread, AttachWait, AttachOptions, DetachThread, ResumeLooks, ResumeThread
<1>4. ASSUME \/ Detach \/ DetachDone \/ Kill \/ Resume \/ StepInto \/ AttachDone
             \/ SweepDone("resume") \/ StepWait \/ SigKill
      PROVE  call'.op # "pause" /\ ~Answered("pause")'
  BY <1>1, <1>4 DEF Detach, DetachDone, Kill, StartDetach, Resume, StartSweep, StepInto, AttachDone,
                    SweepDone, StepWait, SigKill, Verdict
<1>5. ASSUME KillDetached PROVE call'.op # "pause" /\ ~Answered("pause")'
  BY <1>2, <1>5 DEF KillDetached
<1>6. ASSUME NEW p \in Processes, Attach(p) PROVE call'.op # "pause" /\ ~Answered("pause")'
  BY <1>1, <1>6 DEF Attach
<1>7. ASSUME NEW t \in Tids, SwitchThread(t) PROVE call'.op # "pause" /\ ~Answered("pause")'
  BY <1>1, <1>7 DEF SwitchThread
<1> QED BY <1>3, <1>4, <1>5, <1>6, <1>7 DEF Command, Progress, PauseSteps

\* A thread that is skipped stands still already; for any other the process is
\* sent SIGSTOP, or has no thread left.
LEMMA PauseStep ==
  ASSUME TraceSessionAssumption, TypeOK, SessionHasMainThread, Pausing, Command \/ Progress
  PROVE  Pausing' /\ Paused'
<1>0. call \in CallRecords
  BY DEF TypeOK, CallRecords
<1>1. CASE ~PauseSteps
  BY <1>0, <1>1, NotPausing DEF Pausing, Paused
<1>2. CASE Pause
  <2>1. CASE Refuse("pause")
    BY <2>1 DEF Refuse, Answer, Idle, Pausing, Paused, Answered
  <2>2. CASE m_pid # None /\ Start("pause", "loop", m_pid, m_tids) /\ UNCHANGED session
    BY <2>2 DEF Start, Pausing, Paused, Answered, session
  <2> QED BY <1>2, <2>1, <2>2 DEF Pause, StartSweep
<1>3. ASSUME NEW t \in Tids, PauseLooks(t) PROVE Pausing' /\ Paused'
  <2>1. /\ call.op = "pause" /\ t \in call.todo /\ m_pid # None /\ call.todo \subseteq m_tids
        /\ UNCHANGED <<session, target>>
    BY <1>3 DEF PauseLooks, AtLoop, Pausing, Goto, NextThread
  <2>2. Halting(m_pid)' <=> Halting(m_pid)
    BY <2>1 DEF Halting, Alive, Stopped, session, target
  <2>3. CASE Goto("stop", t)
    BY <1>0, <2>1, <2>2, <2>3 DEF Goto, CallRecords, Pausing, Paused, Answered, session
  <2>4. CASE Stopped(t) /\ NextThread(t, call.got, call.ok)
    <3>1. t \in Threads(m_pid)
      BY <2>1 DEF TypeOK
    <3>2. Halting(m_pid)
      BY <2>4, <3>1 DEF Halting
    <3> QED BY <1>0, <2>1, <2>2, <2>4, <3>2
            DEF NextThread, CallRecords, Pausing, Paused, Answered, session
  <2> QED BY <1>3, <2>3, <2>4 DEF PauseLooks
<1>4. ASSUME NEW t \in Tids, PauseThread(t) PROVE Pausing' /\ Paused'
  <2>1. /\ call.op = "pause" /\ t \in call.todo /\ m_pid # None /\ call.todo \subseteq m_tids
        /\ NextThread(t, call.got, call.ok /\ Exists(t)) /\ UNCHANGED session
    BY <1>4 DEF PauseThread, Pausing, NextThread
  <2>2. /\ m_pid \in Processes /\ t \in Threads(m_pid) /\ ProcessOf[t] = m_pid
    BY <2>1 DEF TypeOK, Threads
  <2>3. Exists(t) => Halting(m_pid)'
    BY <1>4, <2>1, <2>2
    DEF PauseThread, SendStop, Halting, Alive, Stopped, session, TypeOK
  <2>4. /\ call'.op = "pause" /\ call'.at = "loop" /\ call'.todo = call.todo \ {t}
        /\ call'.ok = (call.ok /\ Exists(t))
    BY <1>0, <2>1 DEF NextThread, CallRecords
  <2> QED BY <2>1, <2>3, <2>4 DEF Pausing, Paused, Answered, session
<1>5. CASE SweepDone("pause")
  <2>1. call.op = "pause" /\ m_pid # None /\ call.todo = {} /\ m_tids # {}
    BY <1>5 DEF SweepDone, LoopDone, Pausing, SessionHasMainThread
  <2>2. call.ok => Halting(m_pid)
    BY <2>1 DEF Pausing
  <2>3. UNCHANGED <<session, target>> /\ call' = Idle
        /\ reply' = [op |-> "pause", status |-> IF call.ok THEN "ok" ELSE "fail"]
    BY <1>5 DEF SweepDone, Answer, Verdict
  <2>4. Answered("pause")' => call.ok
    BY <2>3 DEF Answered
  <2>5. Halting(m_pid)' <=> Halting(m_pid)
    BY <2>3 DEF Halting, Alive, Stopped, session, target
  <2>6. call'.op # "pause"
    BY <2>3 DEF Idle
  <2> QED BY <2>1, <2>2, <2>3, <2>4, <2>5, <2>6 DEF Pausing, Paused, session
<1> QED BY <1>1, <1>2, <1>3, <1>4, <1>5 DEF PauseSteps

-----------------------------------------------------------------------------
(* Stops and steps.                                                        *)

\* A thread enters a tracing stop only when it is traced, and leaves it when it
\* is let go.
LEMMA StopsStep ==
  ASSUME TraceSessionAssumption, TypeOK, StopsAreTraced, Stepping, Next
  PROVE  StopsAreTraced'
<1> USE DEF StopsAreTraced, Stopped, TypeOK
<1>1. ASSUME UNCHANGED <<kernel, traced>> PROVE StopsAreTraced'
  BY <1>1
<1>2. ASSUME NEW t \in Tids, AttachThread(t) PROVE StopsAreTraced'
  BY <1>2 DEF AttachThread, target
<1>3. ASSUME NEW t \in Tids, Reap(t) \/ Run(t) PROVE StopsAreTraced'
  BY <1>3 DEF Reap, Run
<1>4. ASSUME NEW p \in Processes, SendCont(p) \/ EndProcess(p) PROVE StopsAreTraced'
  BY <1>4 DEF SendCont, EndProcess, Dead
<1>5. ASSUME NEW t \in Tids, DetachThread("detach", t) \/ DetachThread("kill", t)
      PROVE  StopsAreTraced'
  BY <1>5 DEF DetachThread, target
<1>6. ASSUME NEW t \in Tids, TakesSignal(t) PROVE StopsAreTraced'
  BY <1>6 DEF TakesSignal, Take, GroupStop
<1>7. ASSUME NEW t \in Tids, Traps(t) \/ ThreadStarts(t) \/ ThreadExits(t) PROVE StopsAreTraced'
  BY <1>7 DEF Traps, ThreadStarts, ThreadExits, Dead
<1>8. ASSUME NEW p \in Processes, ProcessDies(p) \/ ParentReaps(p) PROVE StopsAreTraced'
  BY <1>3, <1>4, <1>8, TraceSessionAssumption DEF ProcessDies, ParentReaps, TraceSessionAssumption
<1> HIDE DEF StopsAreTraced, Stopped
<1>9. ASSUME Detach \/ Kill \/ SigKill PROVE StopsAreTraced'
  <2>1. \/ UNCHANGED target
        \/ m_pid # None /\ (SendCont(m_pid) \/ EndProcess(m_pid))
    BY <1>9, TraceSessionAssumption
    DEF Detach, Kill, StartDetach, SigKill, Refuse, Threads, TraceSessionAssumption
  <2> QED BY <1>1, <1>4, <2>1 DEF target
<1>10. ASSUME NEW t \in Tids, AttachWait(t) \/ ResumeThread(t) \/ PauseThread(t)
       PROVE  StopsAreTraced'
  BY <1>1, <1>3, <1>10 DEF AttachWait, ResumeThread, PauseThread, SendStop, target
<1>11. ASSUME StepInto \/ StepWait PROVE StopsAreTraced'
  <2>1. UNCHANGED target \/ (m_current_tid \in Tids /\ (Reap(m_current_tid) \/ Run(m_current_tid)))
    BY <1>11 DEF StepInto, StepWait, Refuse, Stepping
  <2> QED BY <1>1, <1>3, <2>1 DEF target
<1>12. ASSUME NEW t \in Tids, AttachOptions(t) \/ ResumeLooks(t) \/ PauseLooks(t) \/ SwitchThread(t)
       PROVE  StopsAreTraced'
  BY <1>1, <1>12 DEF AttachOptions, ResumeLooks, PauseLooks, SwitchThread, Refuse, target
<1>13. ASSUME \/ AttachDone \/ DetachDone \/ KillDetached \/ Resume \/ Pause
              \/ SweepDone("resume") \/ SweepDone("pause")
       PROVE  StopsAreTraced'
  BY <1>1, <1>13 DEF AttachDone, DetachDone, KillDetached, Resume, Pause, StartSweep, SweepDone,
                     Refuse, target
<1>14. ASSUME NEW p \in Processes, Attach(p) PROVE StopsAreTraced'
  BY <1>1, <1>14 DEF Attach, Refuse, target
<1> QED BY <1>2, <1>5, <1>6, <1>7, <1>8, <1>9, <1>10, <1>11, <1>12, <1>13, <1>14
        DEF Next, Command, Progress, Target

\* While a step is under way the current thread stays.
LEMMA SteppingStep ==
  ASSUME TypeOK, Stepping, Command \/ Progress
  PROVE  Stepping'
<1>0. call \in CallRecords
  BY DEF TypeOK, CallRecords
<1>1. CASE UNCHANGED session
  <2>1. call'.op = "step" => call.op = "step" \/ m_current_tid # None
    <3>1. ASSUME NEW op, \/ \E status : Answer(op, status)
                         \/ op # "step" /\ \E at, p, todo : Start(op, at, p, todo)
          PROVE  call'.op # "step"
      BY <3>1 DEF Answer, Start, Idle
    <3>2. ASSUME (\E at, t : Goto(at, t)) \/ (\E t, got, ok : NextThread(t, got, ok))
          PROVE  call'.op = call.op
      BY <1>0, <3>2 DEF Goto, NextThread, CallRecords
    <3>3. ASSUME NEW p \in Processes, Attach(p) PROVE call'.op # "step"
      BY <3>1, <3>3 DEF Attach, Refuse
    <3>4. ASSUME \/ Detach \/ Kill \/ Resume \/ Pause \/ AttachDone \/ DetachDone \/ SigKill
                 \/ SweepDone("resume") \/ SweepDone("pause") \/ StepWait
          PROVE  call'.op # "step"
      BY <3>1, <3>4 DEF Detach, Kill, StartDetach, Resume, Pause, StartSweep, AttachDone, DetachDone,
                        SigKill, SweepDone, StepWait, Refuse
    <3>5. ASSUME NEW t \in Tids, SwitchThread(t) PROVE call'.op # "step"
      BY <3>1, <3>5 DEF SwitchThread, Refuse
    <3>6. ASSUME NEW t \in Tids,
                 \/ AttachThread(t) \/ AttachWait(t) \/ AttachOptions(t)
                 \/ DetachThread("detach", t) \/ DetachThread("kill", t)
                 \/ ResumeLooks(t) \/ ResumeThread(t) \/ PauseLooks(t) \/ PauseThread(t)
          PROVE  call'.op = call.op
      BY <3>2, <3>6 DEF AttachThread, AttachWait, AttachOptions, DetachThread, ResumeLooks,
                        ResumeThread, PauseLooks, PauseThread
    <3>7. ASSUME StepInto PROVE call'.op # "step" \/ m_current_tid # None
      BY <3>1, <3>7 DEF StepInto, Refuse
    <3>8. ASSUME KillDetached PROVE call'.op = call.op
      BY <3>2, <3>8 DEF KillDetached
    <3> QED BY <3>3, <3>4, <3>5, <3>6, <3>7, <3>8 DEF Command, Progress
  <2> QED BY <1>1, <2>1 DEF Stepping, session
<1>2. CASE AttachDone \/ SigKill \/ \E t \in Tids : SwitchThread(t)
  BY <1>2 DEF AttachDone, SigKill, SwitchThread, Refuse, Answer, Idle, Stepping
<1> QED BY <1>1, <1>2, SessionChanges

-----------------------------------------------------------------------------
(* The invariant and the theorems.                                         *)

LEMMA TraceInit == ASSUME TraceSessionAssumption, Init PROVE Inv
<1> USE DEF Init, Idle
<1>1. TypeOK
  BY DEF TypeOK, Operations, Places, ThreadStates
<1>2. Attaching /\ AttachedStopped /\ Detaching /\ Detached /\ Pausing /\ Paused /\ Stepping
  BY DEF Attaching, AttachedStopped, Detaching, Detached, Pausing, Paused, Answered, Stepping
<1>3. SessionHasMainThread /\ StopsAreTraced
  BY DEF SessionHasMainThread, StopsAreTraced, Stopped
<1> QED BY <1>1, <1>2, <1>3 DEF Inv

\* TypeOK, taken apart.
LEMMA TypeParts == TypeOK <=> SessionTypeOK /\ CallTypeOK /\ TargetTypeOK
  BY DEF TypeOK, SessionTypeOK, CallTypeOK, CallRecords, TargetTypeOK

LEMMA TraceStep == ASSUME TraceSessionAssumption, Inv, [Next]_vars PROVE Inv'
<1> USE DEF Inv
<1>1. CASE Command \/ Progress
  <2>1. SessionTypeOK' /\ CallTypeOK' /\ TargetTypeOK' /\ SessionHasMainThread'
    BY <1>1, SessionTyped, ServerMoves, MovesTyped, ServerKeepsTarget, TypeParts
  <2>2. TypeOK'
    BY <2>1, TypeParts, PTL
  <2>3. Attaching' /\ AttachedStopped' /\ Detaching' /\ Detached'
    BY <1>1, AttachStep, DetachStep
  <2>4. Stepping' /\ StopsAreTraced' /\ Pausing' /\ Paused'
    BY <1>1, SteppingStep, StopsStep, PauseStep DEF Next
  <2> QED BY <2>1, <2>2, <2>3, <2>4
<1>2. CASE Target
  <2>0. TargetTypeOK
    BY TypeParts
  <2>1. /\ UNCHANGED <<session, call, reply>> /\ TargetTypeOK'
        /\ \A t \in Tids : (Held(t) => Held(t)') /\ (Released(t) => Released(t)')
        /\ \A p \in Processes : Quiet(p) => Quiet(p)'
    BY <1>2, <2>0, TargetKeeps
  <2>2. SessionTypeOK' /\ CallTypeOK' /\ SessionHasMainThread' /\ Stepping'
    BY <2>1, TypeParts
    DEF SessionTypeOK, CallTypeOK, SessionHasMainThread, Stepping, session, Threads
  <2>3. TypeOK'
    BY <2>1, <2>2, TypeParts, PTL
  <2>4. m_tids \subseteq Tids /\ (m_pid # None => m_pid \in Processes) /\ call.got \subseteq Tids
    BY DEF TypeOK, Threads
  <2>5. Attaching' /\ AttachedStopped'
    BY <2>1, <2>4 DEF Attaching, AttachedStopped, Answered, Held, session, Stopped
  <2>6. Detaching' /\ Detached'
    <3>1. m_pid # None /\ Quiet(m_pid) => Quiet(m_pid)'
      BY <2>1, <2>4 DEF session, Quiet
    <3>2. \A t \in m_tids : Released(t) => Released(t)'
      BY <2>1, <2>4
    <3> QED BY <2>1, <3>1, <3>2 DEF Detaching, Detached, Answered, session
  <2>7. StopsAreTraced'
    BY <1>2, StopsStep DEF Next
  <2>8. Pausing' /\ Paused'
    <3>1. m_pid # None /\ Halting(m_pid) => Halting(m_pid)'
      <4>1. ASSUME NEW p \in Processes, Halting(p) PROVE Halting(p)'
        BY <1>2, <2>0, <4>1, HaltingStays
      <4> QED BY <2>1, <2>4, <4>1 DEF session, Halting
    <3> QED BY <2>1, <3>1 DEF Pausing, Paused, Answered, session
  <2> QED BY <2>2, <2>3, <2>5, <2>6, <2>7, <2>8
<1>3. CASE UNCHANGED vars
  BY <1>3 DEF vars, session, target, TypeOK, SessionHasMainThread, Attaching, AttachedStopped,
              Detaching, Detached, Pausing, Paused, Halting, Alive, Stepping, StopsAreTraced, Answered,
              Held, Released, Quiet, Stopped, Threads
<1> QED BY <1>1, <1>2, <1>3 DEF Next

\* The inductive invariant holds in every state.
THEOREM SessionInvariance == Spec => []Inv
<1>1. Init => Inv
  BY TraceInit, TraceSessionAssumption
<1>2. Inv /\ [Next]_vars => Inv'
  BY TraceStep, TraceSessionAssumption
<1> QED BY <1>1, <1>2, PTL DEF Spec

\* The session, the call and the target are well typed, and the session's
\* threads belong to its process.
THEOREM SessionTypeCorrect == Spec => []TypeOK
  BY SessionInvariance, PTL DEF Inv

\* An open session has its main thread and a current thread among its threads.
THEOREM SessionIsWhole == Spec => []SessionHasMainThread
  BY SessionInvariance, PTL DEF Inv

\* A successful attach leaves the threads of the session traced and stopped.
THEOREM AttachStops == Spec => []AttachedStopped
  BY SessionInvariance, PTL DEF Inv

\* A successful detach lets the threads of the session go and leaves no group
\* stop behind.
THEOREM DetachLetsRun == Spec => []DetachedRuns
<1>1. Detached => DetachedRuns
  BY DEF Detached, DetachedRuns, Quiet, Released
<1> QED BY <1>1, SessionInvariance, PTL DEF Inv

\* A successful pause is not lost: a SIGSTOP is pending, a thread of the process
\* stands still, or none is left.
THEOREM PauseHalts == Spec => []PauseTakesEffect
<1>1. Paused => PauseTakesEffect
  BY DEF Paused, PauseTakesEffect, Halting
<1> QED BY <1>1, SessionInvariance, PTL DEF Inv

-----------------------------------------------------------------------------
(* Calls come to an end: every system call of one brings it nearer.        *)

\* The thread a call is busy with is one it has not finished with.
OnThread ==
  call.op # "step" /\ call.at \in {"wait", "options", "cont", "stop"} => call.thread \in call.todo

\* The call has been answered, or comes nearer its answer.
Nearer ==
  \/ call' = Idle /\ reply'.op = call.op
  \/ /\ call'.op = call.op /\ call'.pid = call.pid
     /\ \/ call'.todo \subseteq call.todo /\ call'.todo # call.todo
        \/ call'.todo = call.todo /\ Rank(call'.at) < Rank(call.at)

\* A call that goes on to another place keeps its threads.
LEMMA GotoNearer ==
  ASSUME CallTypeOK, NEW at \in Places, NEW t, Goto(at, t), Rank(at) < Rank(call.at)
  PROVE  Nearer
<1>1. /\ call'.op = call.op /\ call'.pid = call.pid /\ call'.todo = call.todo
      /\ call'.at = at
  BY DEF Goto, CallTypeOK, CallRecords
<1> QED BY <1>1 DEF Nearer

\* A call that takes the next thread is done with this one.
LEMMA NextThreadNearer ==
  ASSUME CallTypeOK, NEW t \in call.todo, NEW got, NEW ok, NextThread(t, got, ok)
  PROVE  Nearer
<1>1. /\ call'.op = call.op /\ call'.pid = call.pid
      /\ call'.todo = call.todo \ {t}
  BY DEF NextThread, CallTypeOK, CallRecords
<1> QED BY <1>1 DEF Nearer

LEMMA OnThreadStep == ASSUME CallTypeOK, OnThread, [Next]_vars PROVE OnThread'
<1> USE DEF OnThread
<1>1. ASSUME NEW op, NEW status, Answer(op, status) PROVE OnThread'
  BY <1>1 DEF Answer, Idle
<1>2. ASSUME NEW op, NEW at, NEW p, NEW todo, Start(op, at, p, todo), op = "step" \/ at \in {"loop", "sigkill"}
      PROVE  OnThread'
  BY <1>2 DEF Start
<1>3. ASSUME NEW at, NEW t \in call.todo, Goto(at, t) PROVE OnThread'
  BY <1>3 DEF Goto, CallTypeOK, CallRecords
<1>4. ASSUME NEW t, NEW got, NEW ok, NextThread(t, got, ok) PROVE OnThread'
  BY <1>4 DEF NextThread, CallTypeOK, CallRecords
<1>5. ASSUME NEW t \in Tids, AttachThread(t) \/ ResumeLooks(t) \/ PauseLooks(t) PROVE OnThread'
  BY <1>3, <1>4, <1>5 DEF AttachThread, ResumeLooks, PauseLooks, AtLoop
<1>6. ASSUME NEW t \in Tids, AttachWait(t) PROVE OnThread'
  <2>1. t \in call.todo
    BY <1>6 DEF AttachWait
  <2> QED BY <1>3, <1>6, <2>1 DEF AttachWait
<1>7. ASSUME NEW t \in Tids, \/ AttachOptions(t) \/ ResumeThread(t) \/ PauseThread(t)
                             \/ DetachThread("detach", t) \/ DetachThread("kill", t)
      PROVE  OnThread'
  BY <1>4, <1>7 DEF AttachOptions, ResumeThread, PauseThread, DetachThread
<1>8. ASSUME AttachDone \/ DetachDone \/ SigKill \/ SweepDone("resume") \/ SweepDone("pause") \/ StepWait
      PROVE  OnThread'
  BY <1>1, <1>8 DEF AttachDone, DetachDone, SigKill, SweepDone, StepWait, Refuse
<1>9. ASSUME KillDetached PROVE OnThread'
  BY <1>9 DEF KillDetached, Goto, CallTypeOK, CallRecords
<1>10. ASSUME Command PROVE OnThread'
  BY <1>1, <1>2, <1>10
  DEF Command, Attach, Detach, Kill, StartDetach, Resume, Pause, StartSweep, StepInto,
      SwitchThread, Refuse
<1>11. ASSUME Target \/ UNCHANGED vars PROVE OnThread'
  <2>1. UNCHANGED call
    BY <1>11 DEF Target, TakesSignal, Traps, ThreadStarts, ThreadExits, ProcessDies, ParentReaps, vars
  <2> QED BY <2>1
<1> QED BY <1>5, <1>6, <1>7, <1>8, <1>9, <1>10, <1>11 DEF Next, Progress

LEMMA ProgressNearer == ASSUME CallTypeOK, OnThread, Progress PROVE Nearer
<1>1. /\ Rank("loop") = 3 /\ Rank("wait") = 2 /\ Rank("options") = 1
      /\ Rank("cont") = 1 /\ Rank("stop") = 1 /\ Rank("sigkill") = 1
  BY DEF Rank
<1>2. ASSUME NEW op, NEW status, call.op = op, Answer(op, status) PROVE Nearer
  BY <1>2 DEF Answer, Nearer
<1>3. ASSUME NEW t \in Tids, AttachThread(t) \/ ResumeLooks(t) \/ PauseLooks(t) PROVE Nearer
  <2>1. t \in call.todo /\ call.at = "loop"
    BY <1>3 DEF AttachThread, ResumeLooks, PauseLooks, AtLoop
  <2>2. CASE \E got, ok : NextThread(t, got, ok)
    BY <2>1, <2>2, NextThreadNearer
  <2>3. CASE Goto("options", t) \/ Goto("wait", t) \/ Goto("cont", t) \/ Goto("stop", t)
    BY <1>1, <2>1, <2>3, GotoNearer DEF Places
  <2> QED BY <1>3, <2>2, <2>3 DEF AttachThread, ResumeLooks, PauseLooks
<1>4. ASSUME NEW t \in Tids, AttachWait(t) PROVE Nearer
  BY <1>1, <1>4, GotoNearer DEF AttachWait, Places
<1>5. ASSUME NEW t \in Tids, \/ AttachOptions(t) \/ ResumeThread(t) \/ PauseThread(t)
                             \/ DetachThread("detach", t) \/ DetachThread("kill", t)
      PROVE  Nearer
  <2>1. t \in call.todo
    BY <1>5 DEF AttachOptions, ResumeThread, PauseThread, DetachThread, AtLoop, OnThread
  <2>2. \E got, ok : NextThread(t, got, ok)
    BY <1>5 DEF AttachOptions, ResumeThread, PauseThread, DetachThread
  <2> QED BY <2>1, <2>2, NextThreadNearer
<1>6. ASSUME AttachDone \/ DetachDone \/ SigKill \/ SweepDone("resume") \/ SweepDone("pause") \/ StepWait
      PROVE  Nearer
  BY <1>2, <1>6 DEF AttachDone, DetachDone, SigKill, SweepDone, StepWait, Refuse, LoopDone
<1>7. ASSUME KillDetached PROVE Nearer
  BY <1>1, <1>7, GotoNearer DEF KillDetached, LoopDone, Places
<1> QED BY <1>3, <1>4, <1>5, <1>6, <1>7 DEF Progress

\* Every system call of a call brings it nearer its answer, for any number of
\* threads and whatever becomes of them meanwhile (attach, detach, kill, resume,
\* pause, step_into).
THEOREM CallsComeNearer == Spec => CallsAdvance
<1>1. Init => OnThread
  BY DEF Init, OnThread, Idle
<1>2. TypeOK => CallTypeOK
  BY TypeParts
<1>3. Inv => TypeOK
  BY DEF Inv
<1>4. OnThread /\ Inv /\ [Next]_vars => OnThread'
  BY <1>2, <1>3, OnThreadStep
<1>5. ASSUME OnThread, Inv, [Next]_vars, ~UNCHANGED vars, call.at # "idle"
      PROVE  \/ UNCHANGED call /\ Target
             \/ Nearer
  <2>1. CASE Target
    BY <2>1 DEF Target, TakesSignal, Traps, ThreadStarts, ThreadExits, ProcessDies, ParentReaps
  <2>2. CASE Progress
    BY <1>2, <1>3, <1>5, <2>2, ProgressNearer
  <2>3. ~Command
    BY <1>5 DEF Command, Attach, Detach, Kill, Resume, Pause, StartSweep, StepInto, SwitchThread
  <2> QED BY <1>5, <2>1, <2>2, <2>3 DEF Next
<1>6. OnThread /\ Inv /\ [Next]_vars =>
        [call.at # "idle" =>
           \/ UNCHANGED call /\ Target
           \/ call' = Idle /\ reply'.op = call.op
           \/ /\ call'.op = call.op /\ call'.pid = call.pid
              /\ \/ call'.todo \subseteq call.todo /\ call'.todo # call.todo
                 \/ call'.todo = call.todo /\ Rank(call'.at) < Rank(call.at)]_vars
  BY <1>5 DEF Nearer
<1> QED BY <1>1, <1>4, <1>6, SessionInvariance, PTL DEF Spec, CallsAdvance

=============================================================================
