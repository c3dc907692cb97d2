--------------------------- MODULE SteppingProofs ---------------------------
(***************************************************************************)
(* Proofs that Stepping uses the breakpoint manager as its clients may and *)
(* that a step over leaves nothing behind, for every set of processes,     *)
(* threads and instructions and any number of breakpoints.                 *)
(***************************************************************************)
EXTENDS Stepping, BreakpointManagerProofs

(***************************************************************************)
(* The inductive invariant: what a step over under way relies on at each   *)
(* of its places, next to the invariant of the breakpoint manager.         *)
(***************************************************************************)
Holding == {"resume", "wait", "remove"}

OnlySoftware == \A id \in DOMAIN breakpoints : IsSoftware(breakpoints[id])

InStep ==
  /\ OnlySoftware
  /\ reply.status \in {"ok", "fail"}
  /\ m_pid # None => m_current_tid \in m_tids
  /\ step.at # "idle" =>
       m_pid # None /\ m_current_tid \in Tids /\ step.next \in AlignedAddresses
  /\ step.at = "set" => nextId <= MaxId
  /\ step.at \in Holding =>
       /\ step.bid \in temporary \cap DOMAIN breakpoints
       /\ breakpoints[step.bid].address = step.next

OwnBreakpoint ==
  /\ \A id \in temporary : id < nextId
  /\ \A id \in temporary \cap DOMAIN breakpoints :
       breakpoints[id].tid \in alive => step.at \in Holding /\ id = step.bid

Landed ==
  LET t == m_current_tid IN
  \/ t \notin alive \/ ProcessOf[t] \in killed
  \/ stop[t] = "signal"
  \/ stop[t] = "trap" /\ (pc[t] = step.next \/ Patched(ProcessOf[t], pc[t]))

Stepped == step.at = "idle" /\ answer = [op |-> "step_over", status |-> "ok"]

Landing ==
  /\ step.at = "wait" /\ Stopped(m_current_tid) => Landed
  /\ step.at = "remove" /\ step.stopped => Landed
  /\ Stepped => m_current_tid \in Tids /\ Landed

SteppingInv ==
  /\ Inv
  /\ SteppingTypeOK
  /\ InStep
  /\ OwnBreakpoint
  /\ Landing

-----------------------------------------------------------------------------
(* Calls of the breakpoint manager.                                        *)

\* A call that sets a breakpoint is one of set_software_breakpoint.
LEMMA SetIsOperation ==
  ASSUME NEW t \in Tids, NEW a \in AlignedAddresses, nextId <= MaxId, SetSoftware(t, a)
  PROVE  Operation /\ reply'.status \in {"ok", "fail"}
<1>1. a \in Addresses /\ Aligned(a)
  BY DEF AlignedAddresses
<1>2. CASE PatchNew(t, a)
  BY <1>1, <1>2 DEF PatchNew, Reply, SetSoftwareBreakpoint, Operation
<1>3. CASE Return("set_software", a, "fail")
  BY <1>1, <1>3 DEF Return, Reply, SetSoftwareBreakpoint, Operation
<1> QED
  BY <1>2, <1>3 DEF SetSoftware

\* A call that removes a breakpoint is one of remove_breakpoint.
LEMMA RemoveIsOperation ==
  ASSUME NEW id \in Ids, OnlySoftware, Remove(id)
  PROVE  Operation /\ reply'.status \in {"ok", "fail"}
<1>1. CASE id \in DOMAIN breakpoints /\ breakpoints[id].tid \in alive
  <2>1. RemoveBreakpoint(id)
    BY <1>1 DEF Remove, RemoveBreakpoint
  <2>2. reply'.status = "ok"
    BY <1>1 DEF Remove, Reply
  <2> QED
    BY <2>1, <2>2 DEF Operation
<1>2. CASE ~(id \in DOMAIN breakpoints /\ breakpoints[id].tid \in alive)
  <2>1. Return("remove", id, "fail")
    BY <1>2 DEF Remove
  <2>2. RemoveBreakpoint(id)
    BY <2>1 DEF RemoveBreakpoint, OnlySoftware
  <2>3. reply'.status = "fail"
    BY <2>1 DEF Return, Reply
  <2> QED
    BY <2>2, <2>3 DEF Operation
<1> QED
  BY <1>1, <1>2

\* A call that turns a breakpoint on or off is one of enable or disable.
LEMMA EnablingIsOperation ==
  ASSUME NEW id \in Ids, TypeOK,
         Enabling("enable", id, TRUE) \/ Enabling("disable", id, FALSE)
  PROVE  Operation /\ reply'.status \in {"ok", "fail"}
<1>1. ASSUME NEW op, NEW on \in BOOLEAN, Enabling(op, id, on)
      PROVE  Switch(op, id, on) /\ reply'.status \in {"ok", "fail"}
  <2>1. CASE id \notin DOMAIN breakpoints
    <3>1. Return(op, id, "fail")
      BY <1>1, <2>1 DEF Enabling
    <3> QED
      BY <2>1, <3>1 DEF Switch, Return, Reply
  <2>2. CASE id \in DOMAIN breakpoints /\ breakpoints[id].enabled = on
    <3>1. Return(op, id, "ok")
      BY <1>1, <2>2 DEF Enabling
    <3> QED
      BY <2>2, <3>1 DEF Switch, Return, Reply
  <2>3. CASE /\ id \in DOMAIN breakpoints /\ breakpoints[id].enabled # on
             /\ breakpoints[id].tid \notin alive
    <3>1. Return(op, id, "fail")
      BY <1>1, <2>3 DEF Enabling
    <3> QED
      BY <2>3, <3>1 DEF Switch, Return, Reply
  <2>4. CASE /\ id \in DOMAIN breakpoints /\ breakpoints[id].enabled # on
             /\ breakpoints[id].tid \in alive
    <3>1. SwitchSoftware(id, on) /\ Reply(op, id, "ok") /\ UNCHANGED alive
      BY <1>1, <2>4 DEF Enabling
    <3> QED
      BY <2>4, <3>1 DEF Switch, Reply
  <2> QED
    BY <2>1, <2>2, <2>3, <2>4
<1>2. CASE Enabling("enable", id, TRUE)
  BY <1>1, <1>2 DEF Enable, Operation
<1>3. CASE Enabling("disable", id, FALSE)
  BY <1>1, <1>3 DEF Disable, Operation
<1> QED
  BY <1>2, <1>3

\* What a step does to the state of the breakpoint manager.
ManagerStep ==
  \/ UNCHANGED vars
  \/ \E t \in Tids : ThreadExits(t)
  \/ Operation /\ reply'.status \in {"ok", "fail"}

LEMMA StepsOfTheManager ==
  ASSUME TypeOK, SteppingTypeOK, InStep, [SteppingNext]_steppingVars
  PROVE  ManagerStep
<1>1. ASSUME TargetMoves PROVE ManagerStep
  <2>1. ASSUME NEW t \in Tids, Trap(t) \/ Execute(t) \/ SignalStops(t) \/ Exits(t)
        PROVE  ManagerStep
    BY <2>1 DEF Trap, Execute, SignalStops, Exits, ManagerStep
  <2>2. ASSUME NEW p \in Processes, SystemKills(p) PROVE ManagerStep
    BY <2>2 DEF SystemKills, ManagerStep
  <2> QED
    BY <1>1, <2>1, <2>2 DEF TargetMoves
<1>2. ASSUME Client, ~BreakpointCommand PROVE UNCHANGED vars
  BY <1>2 DEF Client, Attach, Detach, Kill, Resume, SwitchThread, StepOver
<1>3. ASSUME BreakpointCommand PROVE ManagerStep
  <2>1. ASSUME nextId <= MaxId, m_current_tid # None,
               NEW a \in AlignedAddresses, SetSoftware(m_current_tid, a)
        PROVE  ManagerStep
    <3>1. m_current_tid \in Tids
      BY <2>1 DEF SteppingTypeOK
    <3> QED
      BY <2>1, <3>1, SetIsOperation DEF ManagerStep
  <2>2. ASSUME NEW id \in Ids, Remove(id) PROVE ManagerStep
    BY <2>2, RemoveIsOperation DEF ManagerStep, InStep
  <2>3. ASSUME NEW id \in Ids, Enabling("enable", id, TRUE) \/ Enabling("disable", id, FALSE)
        PROVE  ManagerStep
    BY <2>3, EnablingIsOperation DEF ManagerStep
  <2> QED
    BY <1>3, <2>1, <2>2, <2>3 DEF BreakpointCommand
<1>4. ASSUME SetTemporary PROVE ManagerStep
  <2>1. m_current_tid \in Tids /\ step.next \in AlignedAddresses /\ nextId <= MaxId
    BY <1>4 DEF SetTemporary, InStep
  <2>2. SetSoftware(m_current_tid, step.next)
    BY <1>4 DEF SetTemporary
  <2> QED
    BY <2>1, <2>2, SetIsOperation DEF ManagerStep
<1>5. ASSUME RemoveTemporary PROVE ManagerStep
  <2>1. step.bid \in Ids
    BY <1>5 DEF RemoveTemporary, InStep, Holding, SteppingTypeOK
  <2>2. Remove(step.bid)
    BY <1>5 DEF RemoveTemporary
  <2> QED
    BY <2>1, <2>2, RemoveIsOperation DEF ManagerStep, InStep
<1>6. ASSUME ResumeCurrent \/ WaitCurrent PROVE ManagerStep
  BY <1>6 DEF ResumeCurrent, WaitCurrent, ManagerStep
<1>7. CASE UNCHANGED steppingVars
  BY <1>7 DEF steppingVars, ManagerStep
<1> QED
  BY <1>1, <1>2, <1>3, <1>4, <1>5, <1>6, <1>7 DEF SteppingNext, Proceed, ManagerStep

\* Every step is one of the breakpoint manager, or none of its business.
LEMMA StepsAreNext ==
  ASSUME TypeOK, SteppingTypeOK, InStep, [SteppingNext]_steppingVars
  PROVE  [Next]_vars
  BY StepsOfTheManager DEF ManagerStep, InStep, Next

-----------------------------------------------------------------------------
(* What the calls do to the table.                                         *)

\* A set adds the next id, for the thread and the address, or nothing.
LEMMA SetEffect ==
  ASSUME TypeOK, NEW t \in Tids, NEW a \in AlignedAddresses, SetSoftware(t, a)
  PROVE  /\ alive' = alive
         /\ \/ /\ reply'.status = "ok" /\ t \in alive
               /\ nextId' = nextId + 1 /\ nextId \notin DOMAIN breakpoints
               /\ DOMAIN breakpoints' = DOMAIN breakpoints \cup {nextId}
               /\ breakpoints'[nextId].tid = t
               /\ breakpoints'[nextId].address = a
               /\ IsSoftware(breakpoints'[nextId])
               /\ \A id \in DOMAIN breakpoints : breakpoints'[id] = breakpoints[id]
            \/ /\ reply'.status = "fail"
               /\ UNCHANGED <<breakpoints, nextId, code>>
<1>1. CASE PatchNew(t, a)
  <2>1. PICK w : NewBreakpoint(t, a, SOFTWARE, w, NoRegister)
    BY <1>1 DEF PatchNew
  <2>2. reply'.status = "ok" /\ t \in alive /\ alive' = alive
    BY <1>1 DEF PatchNew, Reply, WriteWord
  <2>3. nextId' = nextId + 1
    BY <2>1 DEF NewBreakpoint
  <2>4. /\ nextId \notin DOMAIN breakpoints
        /\ DOMAIN breakpoints' = DOMAIN breakpoints \cup {nextId}
        /\ breakpoints'[nextId] = [tid |-> t, address |-> a, type |-> SOFTWARE,
                                   enabled |-> TRUE, original |-> w, register |-> NoRegister]
        /\ \A id \in DOMAIN breakpoints : breakpoints'[id] = breakpoints[id]
    BY <2>1, NewFacts
  <2> QED
    BY <2>2, <2>3, <2>4 DEF IsSoftware
<1>2. CASE Return("set_software", a, "fail")
  BY <1>2 DEF Return, Reply, table
<1> QED
  BY <1>1, <1>2 DEF SetSoftware

\* A removal erases a breakpoint of a thread that is there, or nothing.
LEMMA RemoveEffect ==
  ASSUME NEW id, Remove(id)
  PROVE  /\ UNCHANGED <<alive, nextId>>
         /\ \/ /\ reply'.status = "ok"
               /\ id \in DOMAIN breakpoints /\ breakpoints[id].tid \in alive
               /\ DOMAIN breakpoints' = DOMAIN breakpoints \ {id}
               /\ \A i \in DOMAIN breakpoints' : breakpoints'[i] = breakpoints[i]
            \/ /\ reply'.status = "fail"
               /\ id \in DOMAIN breakpoints => breakpoints[id].tid \notin alive
               /\ UNCHANGED <<breakpoints, code>>
<1>1. CASE id \in DOMAIN breakpoints /\ breakpoints[id].tid \in alive
  <2>1. Forget(id) /\ reply'.status = "ok" /\ alive' = alive /\ nextId' = nextId
    BY <1>1 DEF Remove, RestoreAndForget, Reply, Forget
  <2> QED
    BY <1>1, <2>1, ForgetFacts
<1>2. CASE ~(id \in DOMAIN breakpoints /\ breakpoints[id].tid \in alive)
  <2>1. Return("remove", id, "fail")
    BY <1>2 DEF Remove
  <2> QED
    BY <1>2, <2>1 DEF Return, Reply, table
<1> QED
  BY <1>1, <1>2

\* Turning a breakpoint on or off touches nothing but its flag.
LEMMA EnablingEffect ==
  ASSUME TypeOK, NEW op, NEW id, NEW on \in BOOLEAN, Enabling(op, id, on)
  PROVE  /\ UNCHANGED <<alive, nextId>>
         /\ reply'.status \in {"ok", "fail"}
         /\ DOMAIN breakpoints' = DOMAIN breakpoints
         /\ \A i \in DOMAIN breakpoints :
              /\ breakpoints'[i].tid = breakpoints[i].tid
              /\ breakpoints'[i].address = breakpoints[i].address
              /\ breakpoints'[i].type = breakpoints[i].type
<1>1. CASE \E status \in {"ok", "fail"} : Return(op, id, status)
  BY <1>1 DEF Return, Reply, table
<1>2. CASE /\ id \in DOMAIN breakpoints /\ breakpoints[id].tid \in alive
           /\ SwitchSoftware(id, on) /\ Reply(op, id, "ok") /\ UNCHANGED alive
  <2>1. SetEnabled(id, on)
    BY <1>2 DEF SwitchSoftware
  <2>2. nextId' = nextId /\ reply'.status = "ok"
    BY <1>2, <2>1 DEF SetEnabled, Reply
  <2> QED
    BY <1>2, <2>1, <2>2, SwitchFields
<1> QED
  BY <1>1, <1>2 DEF Enabling

-----------------------------------------------------------------------------
(* The invariant, conjunct by conjunct.                                    *)

\* A step keeps the state of the session and of the target well typed.
LEMMA SteppingTypeStep ==
  ASSUME TypeOK, SteppingTypeOK, InStep, SteppingNext
  PROVE  SteppingTypeOK'
<1> USE SteppingConstants DEF session, command, target, Answer
<1>1. ASSUME NEW S, Release(S)
      PROVE  stop' \in [Tids -> {"no", "trap", "signal"}]
  BY <1>1 DEF Release, SteppingTypeOK
<1>2. ASSUME NEW t \in Tids, Trap(t) PROVE SteppingTypeOK'
  <2>1. ProcessOf[t] \in Processes
    BY ConstantsOK
  <2>2. stop' \in [Tids -> {"no", "trap", "signal"}]
    BY <1>1, <1>2 DEF Trap, SteppingTypeOK
  <2>3. killed' \subseteq Processes
    BY <1>2, <2>1 DEF Trap, SteppingTypeOK
  <2> QED
    BY <1>2, <2>2, <2>3 DEF Trap, SteppingTypeOK
<1>3. ASSUME NEW t \in Tids, Execute(t) PROVE SteppingTypeOK'
  <2>1. Flow[ProcessOf[t]][pc[t]] \subseteq AlignedAddresses
    BY ConstantsOK DEF SteppingTypeOK
  <2> QED
    BY <1>3, <2>1 DEF Execute, SteppingTypeOK
<1>4. ASSUME NEW t \in Tids, SignalStops(t) PROVE SteppingTypeOK'
  BY <1>4 DEF SignalStops, SteppingTypeOK
<1>5. ASSUME NEW t \in Tids, Exits(t) PROVE SteppingTypeOK'
  BY <1>5 DEF Exits, SteppingTypeOK
<1>6. ASSUME NEW p \in Processes, SystemKills(p) PROVE SteppingTypeOK'
  BY <1>1, <1>6 DEF SystemKills, SteppingTypeOK
<1>7. ASSUME NEW p \in Processes, Attach(p) PROVE SteppingTypeOK'
  <2> DEFINE got == {t \in Threads(p) : t \in alive /\ p \notin killed
                                        /\ (Stopped(t) \/ t \notin traced)}
  <2>1. got \subseteq Tids
    BY DEF Threads
  <2>2. /\ stop' = [t \in Tids |-> IF t \in got /\ ~Stopped(t) THEN "signal" ELSE stop[t]]
        /\ traced' = traced \cup got
        /\ \/ m_pid' = p /\ m_tids' = got /\ m_current_tid' = Main[p]
           \/ UNCHANGED <<m_pid, m_tids, m_current_tid>>
        /\ \E status \in {"ok", "fail"} : answer' = [op |-> "session", status |-> status]
        /\ UNCHANGED <<step, temporary, pc, killed>>
    BY <1>7 DEF Attach
  <2> HIDE DEF got
  <2>3. stop' \in [Tids -> {"no", "trap", "signal"}]
    BY <2>2 DEF SteppingTypeOK
  <2> QED
    BY <2>1, <2>2, <2>3 DEF SteppingTypeOK
<1>8. ASSUME Detach PROVE SteppingTypeOK'
  BY <1>1, <1>8 DEF Detach, SteppingTypeOK
<1>9. ASSUME Kill PROVE SteppingTypeOK'
  BY <1>1, <1>9 DEF Kill, SteppingTypeOK
<1>10. ASSUME Resume PROVE SteppingTypeOK'
  BY <1>1, <1>10 DEF Resume, SteppingTypeOK
<1>11. ASSUME NEW t \in Tids, SwitchThread(t) PROVE SteppingTypeOK'
  BY <1>11 DEF SwitchThread, SteppingTypeOK
<1>12. ASSUME BreakpointCommand PROVE SteppingTypeOK'
  <2>1. reply'.status \in {"ok", "fail"}
    <3>1. ASSUME NEW a \in AlignedAddresses, m_current_tid # None, SetSoftware(m_current_tid, a)
          PROVE  reply'.status \in {"ok", "fail"}
      BY <3>1, SetEffect DEF SteppingTypeOK
    <3>2. ASSUME NEW id \in Ids, Remove(id)
          PROVE  reply'.status \in {"ok", "fail"}
      BY <3>2, RemoveEffect
    <3>3. ASSUME NEW id \in Ids, Enabling("enable", id, TRUE) \/ Enabling("disable", id, FALSE)
          PROVE  reply'.status \in {"ok", "fail"}
      BY <3>3, EnablingEffect
    <3> QED
      BY <1>12, <3>1, <3>2, <3>3 DEF BreakpointCommand
  <2> QED
    BY <1>12, <2>1 DEF BreakpointCommand, SteppingTypeOK
<1>13. ASSUME StepOver PROVE SteppingTypeOK'
  <2> DEFINE next == pc[m_current_tid] + 4
  <2>1. CASE /\ next \in AlignedAddresses
             /\ step' = [at |-> "set", next |-> next, bid |-> 0, stopped |-> FALSE]
             /\ UNCHANGED answer
    <3> HIDE DEF next
    <3>1. /\ UNCHANGED <<vars, temporary>>
          /\ UNCHANGED <<m_pid, m_tids, m_current_tid, pc, stop, traced, killed>>
      BY <1>13 DEF StepOver
    <3> QED
      BY <2>1, <3>1 DEF StepPlaces, SteppingTypeOK
  <2>2. CASE StepFails
    BY <1>13, <2>2 DEF StepOver, StepFails, StepPlaces, SteppingTypeOK
  <2> QED
    BY <1>13, <2>1, <2>2 DEF StepOver
<1>14. ASSUME SetTemporary PROVE SteppingTypeOK'
  <2>1. nextId \in Ids
    BY <1>14, ConstantsOK DEF SetTemporary, InStep, TypeOK, Ids
  <2>2. CASE /\ step' = [step EXCEPT !.at = "resume", !.bid = nextId]
             /\ temporary' = temporary \cup {nextId}
             /\ UNCHANGED answer
    BY <1>14, <2>1, <2>2 DEF SetTemporary, StepPlaces, SteppingTypeOK
  <2>3. CASE StepFails /\ UNCHANGED temporary
    BY <1>14, <2>3 DEF SetTemporary, StepFails, StepPlaces, SteppingTypeOK
  <2> QED
    BY <1>14, <2>2, <2>3 DEF SetTemporary
<1>15. ASSUME ResumeCurrent PROVE SteppingTypeOK'
  BY <1>1, <1>15 DEF ResumeCurrent, StepPlaces, SteppingTypeOK
<1>16. ASSUME WaitCurrent PROVE SteppingTypeOK'
  BY <1>16 DEF WaitCurrent, Stopped, StepPlaces, SteppingTypeOK
<1>17. ASSUME RemoveTemporary PROVE SteppingTypeOK'
  <2>1. reply'.status \in {"ok", "fail"}
    BY <1>17, RemoveEffect DEF RemoveTemporary
  <2> QED
    BY <1>17, <2>1 DEF RemoveTemporary, StepPlaces, SteppingTypeOK
<1> QED
  BY <1>2, <1>3, <1>4, <1>5, <1>6, <1>7, <1>8, <1>9, <1>10, <1>11, <1>12, <1>13, <1>14,
     <1>15, <1>16, <1>17 DEF SteppingNext, Proceed, TargetMoves, Client

\* What the target does by itself leaves the debugger alone, and frees no thread
\* from a stop but by killing its process.
LEMMA TargetEffect ==
  ASSUME SteppingTypeOK, TargetMoves
  PROVE  /\ UNCHANGED <<breakpoints, nextId, reply, session, command>>
         /\ alive' \subseteq alive /\ killed \subseteq killed'
         /\ \A t \in Tids :
              Stopped(t) => /\ pc'[t] = pc[t]
                            /\ stop'[t] = stop[t] \/ ProcessOf[t] \in killed'
<1>1. ASSUME NEW t \in Tids, Trap(t)
      PROVE  /\ UNCHANGED <<vars, session, command, pc>> /\ killed \subseteq killed'
             /\ \A u \in Tids : Stopped(u) =>
                  stop'[u] = stop[u] \/ ProcessOf[u] \in killed'
  <2>1. CASE stop' = [stop EXCEPT ![t] = "trap"] /\ UNCHANGED killed
    BY <1>1, <2>1 DEF Trap, Running, Stopped, SteppingTypeOK
  <2>2. CASE killed' = killed \cup {ProcessOf[t]} /\ Release(Threads(ProcessOf[t]))
    BY <1>1, <2>2 DEF Trap, Release, Threads, SteppingTypeOK
  <2> QED
    BY <1>1, <2>1, <2>2 DEF Trap
<1>2. ASSUME NEW t \in Tids, Execute(t)
      PROVE  /\ UNCHANGED <<vars, session, command, stop, killed>>
             /\ \A u \in Tids : Stopped(u) => pc'[u] = pc[u]
  BY <1>2 DEF Execute, Running, Stopped, SteppingTypeOK
<1>3. ASSUME NEW t \in Tids, SignalStops(t)
      PROVE  /\ UNCHANGED <<vars, session, command, pc, killed>>
             /\ \A u \in Tids : Stopped(u) => stop'[u] = stop[u]
  BY <1>3 DEF SignalStops, Running, Stopped, SteppingTypeOK
<1>4. ASSUME NEW t \in Tids, Exits(t)
      PROVE  /\ UNCHANGED <<breakpoints, nextId, reply, session, command, target>>
             /\ alive' \subseteq alive
  BY <1>4 DEF Exits, ThreadExits, table
<1>5. ASSUME NEW p \in Processes, SystemKills(p)
      PROVE  /\ UNCHANGED <<vars, session, command, pc>> /\ killed \subseteq killed'
             /\ \A u \in Tids : Stopped(u) =>
                  stop'[u] = stop[u] \/ ProcessOf[u] \in killed'
  BY <1>5 DEF SystemKills, Release, Threads, SteppingTypeOK
<1> QED
  BY <1>1, <1>2, <1>3, <1>4, <1>5 DEF TargetMoves, vars, table, target

\* Opening and closing the session happens between commands and leaves a session
\* that is open with a current thread of its own.
LEMMA SessionEffect ==
  ASSUME SteppingTypeOK, InStep,
         \/ \E p \in Processes : Attach(p)
         \/ Detach \/ Kill \/ Resume
         \/ \E t \in Tids : SwitchThread(t)
  PROVE  /\ UNCHANGED <<vars, step, temporary>> /\ step.at = "idle"
         /\ answer'.op = "session"
         /\ (m_pid # None => m_current_tid \in m_tids)'
<1>1. ASSUME NEW p \in Processes, Attach(p)
      PROVE  m_pid' # None => m_current_tid' \in m_tids'
  BY <1>1 DEF Attach, session, InStep
<1>2. ASSUME NEW t \in Tids, SwitchThread(t)
      PROVE  m_pid' # None => m_current_tid' \in m_tids'
  BY <1>2 DEF SwitchThread
<1>3. ASSUME Detach \/ Kill \/ Resume
      PROVE  m_pid' # None => m_current_tid' \in m_tids'
  BY <1>3 DEF Detach, Kill, Resume, session, InStep
<1>4. /\ UNCHANGED <<vars, step, temporary>> /\ step.at = "idle"
      /\ \E status : Answer("session", status)
  BY DEF Attach, Detach, Kill, Resume, SwitchThread
<1>5. answer'.op = "session"
  BY <1>4 DEF Answer
<1> QED
  BY <1>1, <1>2, <1>3, <1>4, <1>5

\* What the breakpoint commands do, whichever call they make.
LEMMA CommandEffect ==
  ASSUME TypeOK, SteppingTypeOK, BreakpointCommand
  PROVE  /\ alive' = alive /\ step.at = "idle" /\ answer'.op = "breakpoint"
         /\ UNCHANGED <<session, step, temporary, target>>
         /\ reply'.status \in {"ok", "fail"}
         /\ nextId' \in {nextId, nextId + 1}
         /\ DOMAIN breakpoints' \subseteq DOMAIN breakpoints \cup {nextId}
         /\ \A id \in DOMAIN breakpoints' \cap DOMAIN breakpoints :
              /\ breakpoints'[id].tid = breakpoints[id].tid
              /\ breakpoints'[id].type = breakpoints[id].type
         /\ \A id \in DOMAIN breakpoints' \ DOMAIN breakpoints :
              nextId' = nextId + 1 /\ breakpoints'[id].type = SOFTWARE
<1> DEFINE Effect ==
       /\ alive' = alive
       /\ reply'.status \in {"ok", "fail"}
       /\ nextId' \in {nextId, nextId + 1}
       /\ DOMAIN breakpoints' \subseteq DOMAIN breakpoints \cup {nextId}
       /\ \A id \in DOMAIN breakpoints' \cap DOMAIN breakpoints :
            /\ breakpoints'[id].tid = breakpoints[id].tid
            /\ breakpoints'[id].type = breakpoints[id].type
       /\ \A id \in DOMAIN breakpoints' \ DOMAIN breakpoints :
            nextId' = nextId + 1 /\ breakpoints'[id].type = SOFTWARE
<1>1. ASSUME m_current_tid # None, NEW a \in AlignedAddresses, SetSoftware(m_current_tid, a)
      PROVE  Effect
  <2>1. m_current_tid \in Tids
    BY <1>1 DEF SteppingTypeOK
  <2> QED
    BY <1>1, <2>1, SetEffect DEF IsSoftware
<1>2. ASSUME NEW id \in Ids, Remove(id) PROVE Effect
  BY <1>2, RemoveEffect
<1>3. ASSUME NEW id \in Ids, Enabling("enable", id, TRUE) \/ Enabling("disable", id, FALSE)
      PROVE  Effect
  BY <1>3, EnablingEffect
<1>4. Effect
  BY <1>1, <1>2, <1>3 DEF BreakpointCommand
<1>5. /\ step.at = "idle" /\ answer'.op = "breakpoint"
      /\ UNCHANGED <<session, step, temporary, target>>
  BY DEF BreakpointCommand, Answer
<1> QED
  BY <1>4, <1>5

\* What the places of a step over do.
LEMMA StepEffect ==
  ASSUME TypeOK, SteppingTypeOK, InStep, SteppingNext
  PROVE  \/ TargetMoves
         \/ /\ \/ \E p \in Processes : Attach(p)
               \/ Detach \/ Kill \/ Resume
               \/ \E t \in Tids : SwitchThread(t)
            /\ UNCHANGED vars
         \/ BreakpointCommand \/ StepOver \/ SetTemporary \/ ResumeCurrent
         \/ WaitCurrent \/ RemoveTemporary
  BY SessionEffect DEF SteppingNext, Proceed, Client

\* A step over relies on an open session, and on its breakpoint once it is set.
LEMMA InStepStep ==
  ASSUME TypeOK, SteppingTypeOK, InStep, SteppingNext
  PROVE  InStep'
<1> USE DEF InStep, OnlySoftware, IsSoftware, Holding
<1>1. CASE TargetMoves
  BY <1>1, TargetEffect DEF session, command
<1>2. CASE \/ \E p \in Processes : Attach(p)
           \/ Detach \/ Kill \/ Resume
           \/ \E t \in Tids : SwitchThread(t)
  <2>1. /\ UNCHANGED <<vars, step, temporary>> /\ step.at = "idle"
        /\ (m_pid # None => m_current_tid \in m_tids)'
    BY <1>2, SessionEffect
  <2> QED
    BY <2>1 DEF vars, table
<1>3. CASE BreakpointCommand
  <2>1. /\ step'.at = "idle" /\ UNCHANGED session /\ reply'.status \in {"ok", "fail"}
    BY <1>3, CommandEffect
  <2>2. \A id \in DOMAIN breakpoints' : breakpoints'[id].type = SOFTWARE
    BY <1>3, CommandEffect
  <2> QED
    BY <2>1, <2>2 DEF session
<1>4. CASE StepOver
  <2>1. UNCHANGED <<vars, session>>
    BY <1>4 DEF StepOver
  <2>2. \/ /\ step' = [at |-> "set", next |-> pc[m_current_tid] + 4, bid |-> 0,
                       stopped |-> FALSE]
           /\ pc[m_current_tid] + 4 \in AlignedAddresses /\ m_pid # None
        \/ step'.at = "idle"
    BY <1>4 DEF StepOver, StepFails, SteppingTypeOK
  <2>3. m_current_tid \in Tids /\ nextId <= MaxId
    BY <1>4 DEF StepOver, SteppingTypeOK
  <2> QED
    BY <2>1, <2>2, <2>3 DEF vars, table, session
<1>5. CASE SetTemporary
  <2>1. m_current_tid \in Tids /\ step.next \in AlignedAddresses /\ m_pid # None
    BY <1>5 DEF SetTemporary
  <2>2. SetSoftware(m_current_tid, step.next) /\ UNCHANGED session
    BY <1>5 DEF SetTemporary
  <2>3. CASE /\ reply'.status = "ok"
             /\ step' = [step EXCEPT !.at = "resume", !.bid = nextId]
             /\ temporary' = temporary \cup {nextId}
    <3>1. step'.at = "resume" /\ step'.bid = nextId /\ step'.next = step.next
      BY <2>3 DEF SteppingTypeOK
    <3>2. /\ DOMAIN breakpoints' = DOMAIN breakpoints \cup {nextId}
          /\ breakpoints'[nextId].address = step.next
          /\ breakpoints'[nextId].type = SOFTWARE
          /\ \A id \in DOMAIN breakpoints : breakpoints'[id] = breakpoints[id]
      BY <2>1, <2>2, <2>3, SetEffect
    <3>3. \A id \in DOMAIN breakpoints' : breakpoints'[id].type = SOFTWARE
      BY <3>2
    <3> QED
      BY <2>1, <2>2, <2>3, <3>1, <3>2, <3>3 DEF session
  <2>4. CASE reply'.status = "fail" /\ StepFails
    <3>1. step'.at = "idle"
      BY <2>4 DEF StepFails, SteppingTypeOK
    <3>2. breakpoints' = breakpoints
      BY <2>1, <2>2, <2>4, SetEffect
    <3> QED
      BY <2>2, <2>4, <3>1, <3>2 DEF session
  <2> QED
    BY <1>5, <2>3, <2>4 DEF SetTemporary
<1>6. CASE ResumeCurrent \/ WaitCurrent
  <2>1. UNCHANGED <<vars, session, temporary>> /\ step.at \in Holding
    BY <1>6 DEF ResumeCurrent, WaitCurrent
  <2>2. step'.at \in Holding /\ step'.next = step.next /\ step'.bid = step.bid
    BY <1>6 DEF ResumeCurrent, WaitCurrent, SteppingTypeOK
  <2> QED
    BY <2>1, <2>2 DEF vars, table, session
<1>7. CASE RemoveTemporary
  <2>1. Remove(step.bid) /\ UNCHANGED session
    BY <1>7 DEF RemoveTemporary
  <2>2. step'.at = "idle"
    BY <1>7 DEF RemoveTemporary, SteppingTypeOK
  <2> QED
    BY <2>1, <2>2, RemoveEffect DEF session
<1> QED
  BY <1>1, <1>2, <1>3, <1>4, <1>5, <1>6, <1>7, StepEffect

\* A breakpoint of a step over is in the table only during the step, unless its
\* thread has gone.
LEMMA OwnStep ==
  ASSUME TypeOK, SteppingTypeOK, InStep, OwnBreakpoint, SteppingNext
  PROVE  OwnBreakpoint'
<1> USE DEF OwnBreakpoint, Holding
<1>1. nextId \in Nat /\ \A id \in temporary : id \in Nat
  BY ConstantsOK DEF TypeOK, SteppingTypeOK, Ids
<1>2. CASE TargetMoves
  BY <1>2, TargetEffect DEF command
<1>3. CASE \/ \E p \in Processes : Attach(p)
           \/ Detach \/ Kill \/ Resume
           \/ \E t \in Tids : SwitchThread(t)
  <2>1. UNCHANGED <<vars, step, temporary>>
    BY <1>3, SessionEffect
  <2> QED
    BY <2>1 DEF vars, table
<1>4. CASE BreakpointCommand
  <2>1. /\ alive' = alive /\ step' = step /\ temporary' = temporary
        /\ nextId' \in {nextId, nextId + 1}
    BY <1>4, CommandEffect
  <2>2. ASSUME NEW id \in temporary, id \in DOMAIN breakpoints'
        PROVE  id \in DOMAIN breakpoints /\ breakpoints'[id].tid = breakpoints[id].tid
    <3>1. id # nextId
      BY <1>1, <2>2
    <3> QED
      BY <1>4, <2>2, <3>1, CommandEffect
  <2> QED
    BY <1>1, <2>1, <2>2
<1>5. CASE StepOver
  <2>1. UNCHANGED <<vars, temporary>> /\ step.at = "idle"
    BY <1>5 DEF StepOver
  <2> QED
    BY <2>1 DEF vars, table
<1>6. CASE SetTemporary
  <2>1. m_current_tid \in Tids /\ step.next \in AlignedAddresses /\ step.at = "set"
    BY <1>6 DEF SetTemporary, InStep
  <2>2. SetSoftware(m_current_tid, step.next)
    BY <1>6 DEF SetTemporary
  <2>3. CASE /\ reply'.status = "ok"
             /\ step' = [step EXCEPT !.at = "resume", !.bid = nextId]
             /\ temporary' = temporary \cup {nextId}
    <3>1. step'.at = "resume" /\ step'.bid = nextId
      BY <2>3 DEF SteppingTypeOK
    <3>2. /\ nextId' = nextId + 1 /\ alive' = alive
          /\ DOMAIN breakpoints' = DOMAIN breakpoints \cup {nextId}
          /\ \A id \in DOMAIN breakpoints : breakpoints'[id] = breakpoints[id]
      BY <2>1, <2>2, <2>3, SetEffect
    <3> QED
      BY <1>1, <2>1, <2>3, <3>1, <3>2
  <2>4. CASE reply'.status = "fail" /\ StepFails /\ UNCHANGED temporary
    BY <2>1, <2>2, <2>4, SetEffect
  <2> QED
    BY <1>6, <2>3, <2>4 DEF SetTemporary
<1>7. CASE ResumeCurrent \/ WaitCurrent
  <2>1. UNCHANGED <<vars, temporary>>
    BY <1>7 DEF ResumeCurrent, WaitCurrent
  <2>2. step'.at \in Holding /\ step'.bid = step.bid
    BY <1>7 DEF ResumeCurrent, WaitCurrent, SteppingTypeOK
  <2> QED
    BY <2>1, <2>2 DEF vars, table
<1>8. CASE RemoveTemporary
  <2>1. Remove(step.bid) /\ temporary' = temporary
    BY <1>8 DEF RemoveTemporary
  <2>2. /\ DOMAIN breakpoints' \subseteq DOMAIN breakpoints
        /\ \A id \in DOMAIN breakpoints' : breakpoints'[id] = breakpoints[id]
        /\ step.bid \in DOMAIN breakpoints' => breakpoints'[step.bid].tid \notin alive
        /\ UNCHANGED <<alive, nextId>>
    BY <2>1, RemoveEffect
  <2> QED
    BY <2>1, <2>2
<1> QED
  BY <1>2, <1>3, <1>4, <1>5, <1>6, <1>7, <1>8, StepEffect

\* Where the text holds a BRK an enabled breakpoint of the process sits.
LEMMA TrapsArePatched ==
  ASSUME CodeTransparent, NEW p \in Processes, NEW a \in AlignedAddresses, code[p][a] = BRK
  PROVE  Patched(p, a)
<1>1. Exact(p, a)
  BY SteppingConstants DEF Exact
<1>2. Text[p][a] # BRK
  BY SteppingConstants
<1> QED
  BY <1>1, <1>2 DEF CodeTransparent

\* A thread that stops by itself does so at a signal or at a breakpoint.
LEMMA StopsLand ==
  ASSUME CodeTransparent, SteppingTypeOK, TargetMoves, NEW t \in Tids,
         ~Stopped(t), stop'[t] # "no"
  PROVE  \/ stop'[t] = "signal"
         \/ stop'[t] = "trap" /\ Patched(ProcessOf[t], pc[t])'
<1>1. ASSUME NEW u \in Tids, Trap(u)
      PROVE  stop'[t] = "trap" /\ Patched(ProcessOf[t], pc[t])'
  <2>1. /\ UNCHANGED <<breakpoints, pc>> /\ code[ProcessOf[u]][pc[u]] = BRK
        /\ \/ stop' = [stop EXCEPT ![u] = "trap"]
           \/ Release(Threads(ProcessOf[u]))
    BY <1>1 DEF Trap, vars, table
  <2>2. u = t /\ stop'[t] = "trap"
    BY <2>1 DEF Release, Stopped, SteppingTypeOK
  <2>3. ProcessOf[t] \in Processes /\ pc[t] \in AlignedAddresses
    BY ConstantsOK DEF SteppingTypeOK
  <2>4. Patched(ProcessOf[t], pc[t])
    BY <2>1, <2>2, <2>3, TrapsArePatched
  <2>5. Patched(ProcessOf[t], pc[t])'
    BY <2>1, <2>4 DEF Patched
  <2> QED
    BY <2>2, <2>5
<1>2. ASSUME NEW u \in Tids, SignalStops(u) PROVE stop'[t] = "signal"
  BY <1>2 DEF SignalStops, Stopped, SteppingTypeOK
<1>3. ASSUME NEW u \in Tids, Execute(u) \/ Exits(u) PROVE FALSE
  BY <1>3 DEF Execute, Exits, target, Stopped
<1>4. ASSUME NEW p \in Processes, SystemKills(p) PROVE FALSE
  BY <1>4 DEF SystemKills, Release, Stopped, SteppingTypeOK
<1> QED
  BY <1>1, <1>2, <1>3, <1>4 DEF TargetMoves

\* Where a step over has stopped its thread, it has arrived.
LEMMA LandingStep ==
  ASSUME TypeOK, CodeTransparent, SteppingTypeOK, InStep, Landing, SteppingNext
  PROVE  Landing'
<1> DEFINE t == m_current_tid
<1>1. CASE TargetMoves
  <2>1. /\ UNCHANGED <<breakpoints, session, command>>
        /\ alive' \subseteq alive /\ killed \subseteq killed'
    BY <1>1, TargetEffect
  <2>2. t' = t /\ step' = step /\ (Stepped' <=> Stepped)
    BY <2>1 DEF session, command, Stepped
  <2>3. ASSUME t \in Tids, Landed PROVE Landed'
    <3>1. CASE t \notin alive \/ ProcessOf[t] \in killed
      BY <2>1, <2>2, <3>1 DEF Landed
    <3>2. CASE stop[t] \in {"signal", "trap"}
      <4>1. pc'[t] = pc[t] /\ (stop'[t] = stop[t] \/ ProcessOf[t] \in killed')
        BY <1>1, <2>3, <3>2, TargetEffect DEF Stopped
      <4>2. Patched(ProcessOf[t], pc[t])' <=> Patched(ProcessOf[t], pc[t])
        BY <2>1, <2>2, <4>1 DEF Patched
      <4> QED
        BY <2>1, <2>2, <2>3, <3>2, <4>1, <4>2 DEF Landed
    <3> QED
      BY <2>3, <3>1, <3>2 DEF Landed
  <2>4. ASSUME step.at = "wait", stop'[t] # "no" PROVE Landed'
    <3>1. t \in Tids
      BY <2>4 DEF InStep
    <3>2. CASE Stopped(t)
      BY <2>3, <2>4, <3>1, <3>2 DEF Landing
    <3>3. CASE ~Stopped(t)
      <4>1. \/ stop'[t] = "signal"
            \/ stop'[t] = "trap" /\ \A u \in Tids : u = t => Patched(ProcessOf[u], pc[u])'
        BY <1>1, <2>4, <3>1, <3>3, StopsLand
      <4> QED
        BY <2>2, <3>1, <4>1 DEF Landed
    <3> QED
      BY <3>2, <3>3
  <2>5. ASSUME step.at = "remove", step.stopped PROVE Landed'
    BY <2>3, <2>5 DEF InStep, Landing
  <2>6. ASSUME Stepped PROVE t \in Tids /\ Landed'
    BY <2>3, <2>6 DEF Landing
  <2> QED
    BY <2>2, <2>4, <2>5, <2>6 DEF Landing, Stopped
<1>2. CASE \/ \E p \in Processes : Attach(p)
           \/ Detach \/ Kill \/ Resume
           \/ \E u \in Tids : SwitchThread(u)
  <2>1. step'.at = "idle" /\ answer'.op = "session"
    BY <1>2, SessionEffect
  <2> QED
    BY <2>1 DEF Landing, Stepped
<1>3. CASE BreakpointCommand
  <2>1. step'.at = "idle" /\ answer'.op = "breakpoint"
    BY <1>3, CommandEffect
  <2> QED
    BY <2>1 DEF Landing, Stepped
<1>4. CASE StepOver
  <2>1. step'.at = "set" \/ (step'.at = "idle" /\ answer'.status = "fail")
    BY <1>4 DEF StepOver, StepFails, Answer, SteppingTypeOK
  <2> QED
    BY <2>1 DEF Landing, Stepped
<1>5. CASE SetTemporary
  <2>1. \/ step' = [step EXCEPT !.at = "resume", !.bid = nextId]
        \/ step' = [step EXCEPT !.at = "idle"] /\ answer'.status = "fail"
    BY <1>5 DEF SetTemporary, StepFails, Answer
  <2>2. step'.at = "resume" \/ (step'.at = "idle" /\ answer'.status = "fail")
    BY <2>1 DEF SteppingTypeOK
  <2> QED
    BY <2>2 DEF Landing, Stepped
<1>6. CASE ResumeCurrent
  <2>1. t \in Tids \cap m_tids
    BY <1>6 DEF ResumeCurrent, InStep
  <2>2. stop'[t] = "no" /\ t' = t
    BY <1>6, <2>1 DEF ResumeCurrent, Release, session
  <2>3. step'.at = "wait"
    BY <1>6 DEF ResumeCurrent, SteppingTypeOK
  <2> QED
    BY <2>2, <2>3 DEF Landing, Stepped, Stopped
<1>7. CASE WaitCurrent
  <2>1. /\ UNCHANGED <<vars, session, pc, stop, killed>> /\ step.at = "wait"
    BY <1>7 DEF WaitCurrent
  <2>2. step'.at = "remove" /\ step'.next = step.next /\ step'.stopped = Stopped(t)
    BY <1>7 DEF WaitCurrent, SteppingTypeOK
  <2>3. ASSUME step'.stopped PROVE Landed'
    <3>1. Landed
      BY <2>1, <2>2, <2>3 DEF Landing
    <3>2. Patched(ProcessOf[t], pc[t])' <=> Patched(ProcessOf[t], pc[t])
      BY <2>1 DEF vars, table, session, Patched
    <3> QED
      BY <2>1, <2>2, <3>1, <3>2 DEF Landed, vars, session
  <2> QED
    BY <2>2, <2>3 DEF Landing, Stepped
<1>8. CASE RemoveTemporary
  <2>1. Remove(step.bid) /\ UNCHANGED <<session, target>>
    BY <1>8 DEF RemoveTemporary
  <2>2. step'.at = "idle" /\ step'.next = step.next
    BY <1>8 DEF RemoveTemporary, SteppingTypeOK
  <2>3. ASSUME Stepped' PROVE m_current_tid' \in Tids /\ Landed'
    <3>1. step.at = "remove" /\ step.stopped /\ reply'.status = "ok" /\ t \in Tids
      BY <1>8, <2>3 DEF RemoveTemporary, Answer, Stepped, InStep
    <3>2. Landed
      BY <3>1 DEF Landing
    <3>3. breakpoints[step.bid].address = step.next
      BY <3>1 DEF InStep, Holding
    <3>4. /\ DOMAIN breakpoints' = DOMAIN breakpoints \ {step.bid}
          /\ \A i \in DOMAIN breakpoints' : breakpoints'[i] = breakpoints[i]
          /\ alive' = alive
      BY <2>1, <3>1, RemoveEffect
    <3>5. t' = t /\ UNCHANGED <<pc, stop, killed>>
      BY <2>1 DEF session, target
    <3>6. ASSUME Patched(ProcessOf[t], pc[t]), pc[t] # step.next
          PROVE  Patched(ProcessOf[t], pc[t])'
      BY <3>3, <3>4, <3>5, <3>6 DEF Patched
    <3> QED
      BY <2>2, <3>1, <3>2, <3>4, <3>5, <3>6 DEF Landed
  <2> QED
    BY <2>2, <2>3 DEF Landing, Stepped
<1> QED
  BY <1>1, <1>2, <1>3, <1>4, <1>5, <1>6, <1>7, <1>8, StepEffect

-----------------------------------------------------------------------------
(* The theorems.                                                           *)

\* SteppingInv holds in every reachable state: whatever commands are given in
\* whatever order, wherever threads trap, exit and are killed.
THEOREM SteppingInvariance == SteppingSpec => []SteppingInv
<1>1. SteppingInit => SteppingInv
  <2> SUFFICES ASSUME SteppingInit PROVE SteppingInv
    OBVIOUS
  <2>1. Inv
    BY ConstantsOK, InitInv DEF SteppingInit
  <2>2. DOMAIN breakpoints = {} /\ reply.status = "ok"
    BY DEF SteppingInit, Init
  <2>3. SteppingTypeOK
    BY DEF SteppingInit, SteppingTypeOK, StepPlaces
  <2>4. InStep
    BY <2>2 DEF SteppingInit, InStep, OnlySoftware, Holding
  <2>5. OwnBreakpoint
    BY <2>2 DEF SteppingInit, OwnBreakpoint
  <2>6. Landing
    BY DEF SteppingInit, Landing, Stepped
  <2> QED
    BY <2>1, <2>3, <2>4, <2>5, <2>6 DEF SteppingInv
<1>2. SteppingInv /\ [SteppingNext]_steppingVars => SteppingInv'
  <2> SUFFICES ASSUME SteppingInv, [SteppingNext]_steppingVars PROVE SteppingInv'
    OBVIOUS
  <2>1. Inv'
    <3>1. [Next]_vars
      BY StepsAreNext DEF SteppingInv, Inv
    <3> QED
      BY <3>1, ConstantsOK, NextChanges, TypeStep, AddressStep, OriginalStep, CodeStep,
         IndexStep, RegisterStep, ArmedStep DEF SteppingInv, Inv
  <2>2. CASE SteppingNext
    <3>1. SteppingTypeOK' /\ InStep' /\ OwnBreakpoint'
      BY <2>2, SteppingTypeStep, InStepStep, OwnStep DEF SteppingInv, Inv
    <3>2. Landing'
      BY <2>2, LandingStep DEF SteppingInv, Inv
    <3> QED
      BY <2>1, <3>1, <3>2 DEF SteppingInv
  <2>3. CASE UNCHANGED steppingVars
    <3>1. UNCHANGED <<breakpoints, nextId, code, alive, reply>> /\ UNCHANGED <<session, command, target>>
      BY <2>3 DEF steppingVars, vars, table
    <3>2. UNCHANGED <<m_pid, m_tids, m_current_tid, step, answer, temporary, pc, stop, traced, killed>>
      BY <3>1 DEF session, command, target
    <3>3. SteppingTypeOK'
      BY <3>2 DEF SteppingInv, SteppingTypeOK
    <3>4. InStep' /\ OwnBreakpoint'
      BY <3>1, <3>2 DEF SteppingInv, InStep, OwnBreakpoint, OnlySoftware, IsSoftware
    <3>5. Landing'
      BY <3>1, <3>2 DEF SteppingInv, Landing, Landed, Stepped, Stopped, Patched, IsSoftware
    <3> QED
      BY <2>1, <3>3, <3>4, <3>5 DEF SteppingInv
  <2> QED
    BY <2>2, <2>3
<1> QED
  BY <1>1, <1>2, PTL DEF SteppingSpec

\* The state of a session with breakpoints is well typed.
THEOREM SteppingTypeCorrect == SteppingSpec => []SteppingTypeOK
  BY SteppingInvariance, PTL DEF SteppingInv

\* The session uses the breakpoint manager as its clients may.
THEOREM SteppingKeepsBreakpoints == SteppingSpec => BreakpointsKept
<1>1. SteppingInit => Init
  BY DEF SteppingInit
<1>2. SteppingInv /\ [SteppingNext]_steppingVars => [Next]_vars
  BY StepsAreNext DEF SteppingInv, Inv
<1> QED
  BY <1>1, <1>2, SteppingInvariance, PTL DEF SteppingSpec, Spec, BreakpointsKept

\* So its commands, the steps over and the moves of the target keep the promise
\* of the trap table: the target traps exactly at the points that are on.
THEOREM SteppingKeepsPromise == SteppingSpec => KeepsPromise
<1>1. TextWithoutBRK
  BY SteppingConstants DEF TextWithoutBRK
<1>2. Spec => KeepsPromise
  BY <1>1, PromiseIsKept
<1> QED
  BY <1>2, SteppingKeepsBreakpoints, PTL DEF BreakpointsKept, Spec

\* So the target's text stays its own but for the enabled breakpoints, while
\* threads run through it and steps come and go.
THEOREM SteppingIsTransparent == SteppingSpec => []CodeTransparent
  BY SteppingInvariance, PTL DEF SteppingInv, Inv

\* A step over takes its breakpoint away, unless the thread it was for has gone.
THEOREM StepsLeaveNothing == SteppingSpec => []NoTemporaryLeft
<1>1. SteppingInv => NoTemporaryLeft
  BY DEF SteppingInv, OwnBreakpoint, Holding, NoTemporaryLeft
<1> QED
  BY <1>1, SteppingInvariance, PTL

\* A step over that succeeds holds its thread where a breakpoint or a signal
\* stopped it.
THEOREM StepsLand == SteppingSpec => []StepOverLands
<1>1. SteppingInv => StepOverLands
  BY DEF SteppingInv, Landing, Landed, Stepped, StepOverLands
<1> QED
  BY <1>1, SteppingInvariance, PTL

\* A breakpoint whose thread has gone keeps its address for good: no command of
\* the session, and no step over, takes it away or sets another one there.
THEOREM SteppingKeepsStale == SteppingSpec => StaleKeepTheirAddress
  BY SteppingKeepsBreakpoints, StaleAreKept, PTL DEF BreakpointsKept

=============================================================================
