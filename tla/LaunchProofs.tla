---------------------------- MODULE LaunchProofs ----------------------------
(***************************************************************************)
(* Proofs that a launch which succeeds has the app and has let go of the   *)
(* zygote, for any number of children.                                     *)
(***************************************************************************)
EXTENDS Launch, TLAPS

\* What the kernel keeps: only traced processes stop, and a dead process is
\* there for its tracer.
KernelInv ==
  /\ \A p \in Processes : state[p] \in {"stopping", "stopped", "dead"} => p \in traced
  /\ \A p \in traced : state[p] \notin {"absent", "gone"}
  /\ options => Zygote \in traced \/ state[Zygote] = "gone"

\* From the fork launch looks at until it is released the zygote stays where it
\* is, or is dead; from then on it is not traced.
ZygoteInv ==
  /\ at \in {"look", "release app", "release zygote"} =>
       state[Zygote] \in {"stopped", "dead"}
  /\ at \in {"attach", "attach wait", "attach options"} =>
       Zygote \notin traced \/ ~Alive(Zygote)

\* The process launch has matched has the right name.
AppInv ==
  /\ at = "look" => fork_pid \in Children
  /\ at \in {"release app", "release zygote", "attach", "attach wait", "attach options"} =>
       app_pid \in Children /\ name[app_pid] = "app"

\* launch answers with success as its last step.
SuccessInv ==
  reply = "ok" => at = "idle" /\ m_pid \in Children

LaunchInv ==
  /\ TypeOK
  /\ KernelInv
  /\ ZygoteInv
  /\ AppInv
  /\ SuccessInv
  /\ LaunchedIsAttached
  /\ SuccessReleasesZygote

LEMMA LaunchInit == ASSUME LaunchAssumption, Init PROVE LaunchInv
  BY DEF LaunchAssumption, Init, LaunchInv, TypeOK, KernelInv, ZygoteInv, AppInv, SuccessInv,
         LaunchedIsAttached, SuccessReleasesZygote, Processes, States, Places

\* What a release and a continue do to what the kernel keeps.
LEMMA ReleaseStep ==
  ASSUME LaunchAssumption, TypeOK, KernelInv, NEW p \in Processes, Release(p)
  PROVE  /\ state' \in [Processes -> States]
         /\ traced' \subseteq Processes /\ options' \in BOOLEAN /\ news' \subseteq traced'
         /\ KernelInv'
<1>1. CASE state[p] = "stopped"
  <2>1. /\ state' = [state EXCEPT ![p] = "running"]
        /\ traced' = traced \ {p}
        /\ news' = news \ {p}
        /\ options' = (options /\ p # Zygote)
    BY <1>1 DEF Release
  <2>2. "running" \in States /\ Zygote \in Processes
    BY DEF States, Processes
  <2> QED
    BY <2>1, <2>2 DEF TypeOK, KernelInv
<1>2. CASE state[p] # "stopped"
  BY <1>2 DEF Release, TypeOK, KernelInv
<1> QED
  BY <1>1, <1>2

LEMMA ContStep ==
  ASSUME LaunchAssumption, TypeOK, KernelInv, NEW p \in Processes, Cont(p),
         UNCHANGED <<traced, options>>
  PROVE  /\ state' \in [Processes -> States]
         /\ news' \subseteq traced'
         /\ KernelInv'
<1>1. CASE state[p] = "stopped"
  <2>1. state' = [state EXCEPT ![p] = "running"] /\ news' = news \ {p}
    BY <1>1 DEF Cont
  <2>2. "running" \in States /\ Zygote \in Processes
    BY DEF States, Processes
  <2>3. state' \in [Processes -> States] /\ news' \subseteq traced'
    BY <2>1, <2>2 DEF TypeOK
  <2>4. \A q \in Processes : q # p => state'[q] = state[q]
    BY <2>1 DEF TypeOK
  <2>5. state'[p] = "running"
    BY <2>1 DEF TypeOK
  <2>6. KernelInv'
    BY <1>1, <2>2, <2>4, <2>5 DEF TypeOK, KernelInv
  <2> QED
    BY <2>3, <2>6
<1>2. CASE state[p] # "stopped"
  BY <1>2 DEF Cont, TypeOK, KernelInv
<1> QED
  BY <1>1, <1>2

\* A wait that reports a process collects it when it is dead.
LEMMA ReportedStep ==
  ASSUME LaunchAssumption, TypeOK, KernelInv, NEW p \in Processes, Reported(p),
         UNCHANGED options
  PROVE  /\ state' \in [Processes -> States]
         /\ traced' \subseteq Processes /\ news' \subseteq traced'
         /\ KernelInv'
<1>1. CASE state[p] = "dead"
  <2>1. /\ state' = [state EXCEPT ![p] = "gone"]
        /\ traced' = traced \ {p}
        /\ news' = news \ {p}
    BY <1>1 DEF Reported
  <2>2. "gone" \in States /\ Zygote \in Processes
    BY DEF States, Processes
  <2>3. state' \in [Processes -> States] /\ traced' \subseteq Processes /\ news' \subseteq traced'
    BY <2>1, <2>2 DEF TypeOK
  <2>4. \A q \in Processes : q # p => state'[q] = state[q]
    BY <2>1 DEF TypeOK
  <2>5. state'[p] = "gone" /\ p \notin traced'
    BY <2>1 DEF TypeOK
  <2>6. KernelInv'
    BY <2>1, <2>2, <2>4, <2>5 DEF TypeOK, KernelInv
  <2> QED
    BY <2>3, <2>6
<1>2. CASE state[p] # "dead"
  BY <1>2 DEF Reported, TypeOK, KernelInv
<1> QED
  BY <1>1, <1>2

\* The steps of the kernel.
LEMMA TargetStep ==
  ASSUME LaunchAssumption, LaunchInv, Target
  PROVE  LaunchInv'
<1> USE DEF LaunchAssumption, LaunchInv, TypeOK, KernelInv, ZygoteInv, AppInv, SuccessInv,
         LaunchedIsAttached, SuccessReleasesZygote, Processes, States, Alive, local
<1>1. ASSUME NEW c \in Children, Fork(c) PROVE LaunchInv'
  <2>1. /\ state' \in [Processes -> States]
        /\ traced' \subseteq Processes
        /\ news' \subseteq traced'
        /\ event' \in Children \cup {None}
    <3>1. CASE options
      <4>1. /\ state' = [state EXCEPT ![Zygote] = "stopped", ![c] = "stopping"]
            /\ traced' = traced \cup {c}
            /\ news' = news \cup {Zygote}
            /\ event' = c
            /\ state[Zygote] = "running"
        BY <1>1, <3>1 DEF Fork
      <4> QED
        BY <3>1, <4>1
    <3>2. CASE ~options
      BY <1>1, <3>2 DEF Fork
    <3> QED
      BY <3>1, <3>2
  <2>0. TypeOK'
    BY <1>1, <2>1 DEF Fork
  <2>2. KernelInv'
    <3>1. CASE options
      <4>1. /\ state' = [state EXCEPT ![Zygote] = "stopped", ![c] = "stopping"]
            /\ traced' = traced \cup {c}
            /\ options' = options /\ state[Zygote] = "running"
        BY <1>1, <3>1 DEF Fork
      <4>2. /\ state'[Zygote] = "stopped" /\ state'[c] = "stopping"
            /\ \A q \in Processes : q # Zygote /\ q # c => state'[q] = state[q]
        BY <4>1
      <4>3. Zygote \in traced
        BY <3>1, <4>1
      <4>4. \A q \in Processes : state'[q] \in {"stopping", "stopped", "dead"} => q \in traced'
        BY <4>1, <4>2, <4>3
      <4>5. \A q \in traced' : state'[q] \notin {"absent", "gone"}
        BY <4>1, <4>2
      <4> QED
        BY <4>1, <4>3, <4>4, <4>5
    <3>2. CASE ~options
      BY <1>1, <3>2 DEF Fork
    <3> QED
      BY <3>1, <3>2
  <2>3. ZygoteInv' /\ SuccessReleasesZygote'
    BY <1>1 DEF Fork
  <2>4. AppInv' /\ SuccessInv' /\ LaunchedIsAttached'
    BY <1>1 DEF Fork
  <2> QED
    BY <2>0, <2>2, <2>3, <2>4
<1>2. ASSUME NEW c \in Children, TakesName(c) PROVE LaunchInv'
  <2>1. PICK n \in {"app", "other"} : name' = [name EXCEPT ![c] = n]
    BY <1>2 DEF TakesName
  <2>2. /\ name' \in [Children -> {"zygote", "app", "other"}]
        /\ \A d \in Children : name[d] = "app" => name'[d] = "app"
    BY <1>2, <2>1 DEF TakesName
  <2>3. UNCHANGED <<at, late, fork_pid, app_pid, m_pid, reply, state, traced, event,
                    options, news>>
    BY <1>2 DEF TakesName
  <2>4. TypeOK'
    BY <2>2, <2>3
  <2>5. KernelInv' /\ ZygoteInv' /\ SuccessInv' /\ SuccessReleasesZygote'
    BY <2>3
  <2>6. AppInv' /\ LaunchedIsAttached'
    BY <2>2, <2>3
  <2> QED
    BY <2>4, <2>5, <2>6
<1>3. ASSUME NEW p \in Processes, Stops(p) PROVE LaunchInv'
  <2>1. /\ state' \in [Processes -> States]
        /\ state'[p] = "stopped"
        /\ \A q \in Processes : q # p => state'[q] = state[q]
        /\ event' \in Children \cup {None}
        /\ p \in traced /\ state[p] \in {"running", "stopping"}
    BY <1>3 DEF Stops
  <2>2. Zygote \in Processes /\ Children \subseteq Processes
    OBVIOUS
  <2>3. UNCHANGED <<at, late, fork_pid, app_pid, m_pid, reply, name, traced, options>>
    BY <1>3 DEF Stops
  <2>4. news' = news \cup {p}
    BY <1>3 DEF Stops
  <2> HIDE DEF Processes, States
  <2>5. TypeOK'
    BY <2>1, <2>3, <2>4
  <2>6. KernelInv'
    BY <2>1, <2>2, <2>3
  <2>7. ZygoteInv' /\ SuccessReleasesZygote'
    BY <2>1, <2>2, <2>3
  <2>8. AppInv' /\ SuccessInv'
    BY <2>3
  <2>9. LaunchedIsAttached'
    BY <2>1, <2>2, <2>3
  <2> QED
    BY <2>5, <2>6, <2>7, <2>8, <2>9
<1>4. ASSUME NEW p \in Processes, Dies(p) PROVE LaunchInv'
  <2>1. /\ state' \in [Processes -> States]
        /\ state'[p] = IF p \in traced THEN "dead" ELSE "gone"
        /\ \A q \in Processes : q # p => state'[q] = state[q]
        /\ news' \subseteq traced
    BY <1>4 DEF Dies, Killed
  <2>2. Zygote \in Processes /\ Children \subseteq Processes
    OBVIOUS
  <2>3. UNCHANGED <<at, late, fork_pid, app_pid, m_pid, reply, name, traced, event, options>>
    BY <1>4 DEF Dies
  <2> HIDE DEF Processes, States
  <2>4. TypeOK'
    BY <2>1, <2>3
  <2>5. KernelInv'
    BY <2>1, <2>2, <2>3
  <2>6. ZygoteInv' /\ SuccessReleasesZygote'
    BY <2>1, <2>2, <2>3
  <2>7. AppInv' /\ SuccessInv'
    BY <2>3
  <2>8. LaunchedIsAttached'
    BY <2>1, <2>2, <2>3
  <2> QED
    BY <2>4, <2>5, <2>6, <2>7, <2>8
<1> QED
  BY <1>1, <1>2, <1>3, <1>4 DEF Target

\* The steps of launch until an app is matched.
LEMMA SearchStep ==
  ASSUME LaunchAssumption, LaunchInv
  PROVE  /\ Launch => LaunchInv'
         /\ AttachZygote => LaunchInv'
         /\ WaitZygote => LaunchInv'
         /\ SetOptions => LaunchInv'
         /\ StartApp => LaunchInv'
         /\ TimeOut => LaunchInv'
         /\ PollZygote => LaunchInv'
         /\ (\E c \in Children : PollChild(c)) => LaunchInv'
         /\ ClockPasses => LaunchInv'
<1> USE DEF LaunchAssumption, LaunchInv, TypeOK, KernelInv, ZygoteInv, AppInv, SuccessInv,
         LaunchedIsAttached, SuccessReleasesZygote, Processes, States, Places, Alive,
         local, target, Answer
<1>1. ASSUME Launch PROVE LaunchInv'
  <2>1. /\ state' \in [Processes -> States]
        /\ \A q \in Processes :
             \/ state'[q] = state[q]
             \/ state'[q] = "dead" /\ q \in traced
             \/ state'[q] = "gone" /\ q \notin traced
        /\ news' \subseteq traced
    BY <1>1 DEF Launch, Killed
  <2>2. /\ at' = "find" /\ reply' = "none" /\ app_pid' = None /\ fork_pid' = None
        /\ late' = FALSE
        /\ UNCHANGED <<m_pid, name, traced, event, options>>
    BY <1>1 DEF Launch
  <2>3. TypeOK'
    BY <2>1, <2>2
  <2>4. KernelInv'
    BY <2>1, <2>2
  <2> QED
    BY <2>2, <2>3, <2>4
<1>2. ASSUME AttachZygote PROVE LaunchInv'
  <2>1. TypeOK'
    BY <1>2 DEF AttachZygote
  <2>2. KernelInv'
    BY <1>2 DEF AttachZygote
  <2>3. ZygoteInv' /\ SuccessReleasesZygote'
    BY <1>2 DEF AttachZygote
  <2>4. AppInv' /\ SuccessInv' /\ LaunchedIsAttached'
    BY <1>2 DEF AttachZygote
  <2> QED
    BY <2>1, <2>2, <2>3, <2>4
<1>3. ASSUME WaitZygote PROVE LaunchInv'
  <2>1. TypeOK'
    BY <1>3 DEF WaitZygote, Reported
  <2>2. KernelInv'
    BY <1>3 DEF WaitZygote, Reported
  <2>3. ZygoteInv' /\ SuccessReleasesZygote'
    BY <1>3 DEF WaitZygote, Reported
  <2>4. AppInv' /\ SuccessInv' /\ LaunchedIsAttached'
    BY <1>3 DEF WaitZygote, Reported
  <2> QED
    BY <2>1, <2>2, <2>3, <2>4
<1>4. ASSUME SetOptions PROVE LaunchInv'
  <2>1. /\ state' \in [Processes -> States]
        /\ \A q \in Processes : q # Zygote => state'[q] = state[q]
        /\ news' \subseteq news
    BY <1>4 DEF SetOptions, Cont
  <2>2. CASE state[Zygote] = "stopped"
    <3>1. state'[Zygote] = "running" /\ options' = TRUE /\ at' = "start" /\ reply' = reply
      BY <1>4, <2>2 DEF SetOptions, Cont
    <3> QED
      BY <1>4, <2>1, <2>2, <3>1 DEF SetOptions
  <2>3. CASE state[Zygote] # "stopped"
    <3>1. /\ UNCHANGED <<state, news, options>>
          /\ at' = "idle" /\ reply' = "fail"
      BY <1>4, <2>3 DEF SetOptions, Cont
    <3> QED
      BY <1>4, <3>1 DEF SetOptions
  <2> QED
    BY <2>2, <2>3
<1>5. ASSUME StartApp PROVE LaunchInv'
  <2>1. TypeOK'
    <3>1. CASE at' = "loop"
      BY <1>5, <3>1 DEF StartApp
    <3>2. CASE Release(Zygote)
      BY <1>5, <3>2, ReleaseStep DEF StartApp
    <3> QED
      BY <1>5, <3>1, <3>2 DEF StartApp
  <2>2. KernelInv'
    <3>1. CASE at' = "loop"
      BY <1>5, <3>1 DEF StartApp
    <3>2. CASE Release(Zygote)
      BY <1>5, <3>2, ReleaseStep
    <3> QED
      BY <1>5, <3>1, <3>2 DEF StartApp
  <2>3. ZygoteInv' /\ SuccessReleasesZygote'
    BY <1>5 DEF StartApp, Release
  <2>4. AppInv' /\ SuccessInv' /\ LaunchedIsAttached'
    BY <1>5 DEF StartApp, Release
  <2> QED
    BY <2>1, <2>2, <2>3, <2>4
<1>6. ASSUME TimeOut PROVE LaunchInv'
  <2>1. TypeOK'
    BY <1>6 DEF TimeOut, Release
  <2>2. KernelInv'
    BY <1>6, ReleaseStep DEF TimeOut
  <2>3. ZygoteInv' /\ SuccessReleasesZygote'
    BY <1>6 DEF TimeOut, Release
  <2>4. AppInv' /\ SuccessInv' /\ LaunchedIsAttached'
    BY <1>6 DEF TimeOut, Release
  <2> QED
    BY <2>1, <2>2, <2>3, <2>4
<1>7. ASSUME PollZygote PROVE LaunchInv'
  <2>1. TypeOK'
    <3>1. CASE Reported(Zygote)
      BY <1>7, <3>1, ReportedStep DEF PollZygote
    <3>2. CASE Cont(Zygote) /\ UNCHANGED <<at, fork_pid, reply, traced>>
      BY <1>7, <3>2, ContStep DEF PollZygote
    <3> QED
      BY <1>7, <3>1, <3>2 DEF PollZygote
  <2>2. KernelInv'
    <3>1. CASE Reported(Zygote)
      BY <1>7, <3>1, ReportedStep DEF PollZygote
    <3>2. CASE Cont(Zygote) /\ UNCHANGED <<at, fork_pid, reply, traced>>
      BY <1>7, <3>2, ContStep DEF PollZygote
    <3> QED
      BY <1>7, <3>1, <3>2 DEF PollZygote
  <2>3. ZygoteInv' /\ SuccessReleasesZygote'
    BY <1>7 DEF PollZygote, Reported, Cont
  <2>4. AppInv' /\ SuccessInv' /\ LaunchedIsAttached'
    BY <1>7 DEF PollZygote, Reported, Cont
  <2> QED
    BY <2>1, <2>2, <2>3, <2>4
<1>8. ASSUME NEW c \in Children, PollChild(c) PROVE LaunchInv'
  <2>1. TypeOK'
    BY <1>8 DEF PollChild, Reported, Cont
  <2>2. KernelInv'
    BY <1>8 DEF PollChild, Reported, Cont
  <2>3. ZygoteInv' /\ SuccessReleasesZygote'
    BY <1>8 DEF PollChild, Reported, Cont
  <2>4. AppInv' /\ SuccessInv' /\ LaunchedIsAttached'
    BY <1>8 DEF PollChild, Reported, Cont
  <2> QED
    BY <2>1, <2>2, <2>3, <2>4
<1>9. ASSUME ClockPasses PROVE LaunchInv'
  BY <1>9 DEF ClockPasses
<1> QED
  BY <1>1, <1>2, <1>3, <1>4, <1>5, <1>6, <1>7, <1>8, <1>9

\* The steps of launch once an app is matched.
LEMMA CatchStep ==
  ASSUME LaunchAssumption, LaunchInv
  PROVE  /\ Look => LaunchInv'
         /\ ReleaseApp => LaunchInv'
         /\ ReleaseZygote => LaunchInv'
         /\ AttachApp => LaunchInv'
         /\ AttachWait => LaunchInv'
         /\ AttachDone => LaunchInv'
<1> USE DEF LaunchAssumption, LaunchInv, TypeOK, KernelInv, ZygoteInv, AppInv, SuccessInv,
         LaunchedIsAttached, SuccessReleasesZygote, Processes, States, Places, Alive,
         local, target, Answer
<1>1. ASSUME Look PROVE LaunchInv'
  <2>1. TypeOK'
    BY <1>1 DEF Look, Matches, Cont
  <2>2. KernelInv'
    BY <1>1, ContStep DEF Look
  <2>3. ZygoteInv' /\ SuccessReleasesZygote'
    BY <1>1 DEF Look, Matches, Cont
  <2>4. AppInv' /\ SuccessInv' /\ LaunchedIsAttached'
    BY <1>1 DEF Look, Matches, Cont
  <2> QED
    BY <2>1, <2>2, <2>3, <2>4
<1>2. ASSUME ReleaseApp PROVE LaunchInv'
  <2>1. TypeOK'
    BY <1>2 DEF ReleaseApp, Release
  <2>2. KernelInv'
    BY <1>2, ReleaseStep DEF ReleaseApp
  <2>3. ZygoteInv' /\ SuccessReleasesZygote'
    BY <1>2 DEF ReleaseApp, Release
  <2>4. AppInv' /\ SuccessInv' /\ LaunchedIsAttached'
    BY <1>2 DEF ReleaseApp, Release
  <2> QED
    BY <2>1, <2>2, <2>3, <2>4
<1>3. ASSUME ReleaseZygote PROVE LaunchInv'
  <2>1. TypeOK'
    BY <1>3 DEF ReleaseZygote, Release
  <2>2. KernelInv'
    BY <1>3, ReleaseStep DEF ReleaseZygote
  <2>3. ZygoteInv' /\ SuccessReleasesZygote'
    BY <1>3 DEF ReleaseZygote, Release
  <2>4. AppInv' /\ SuccessInv' /\ LaunchedIsAttached'
    BY <1>3 DEF ReleaseZygote, Release
  <2> QED
    BY <2>1, <2>2, <2>3, <2>4
<1>4. ASSUME AttachApp PROVE LaunchInv'
  <2>1. TypeOK'
    BY <1>4 DEF AttachApp
  <2>2. KernelInv'
    BY <1>4 DEF AttachApp
  <2>3. ZygoteInv' /\ SuccessReleasesZygote'
    BY <1>4 DEF AttachApp
  <2>4. AppInv' /\ SuccessInv' /\ LaunchedIsAttached'
    BY <1>4 DEF AttachApp
  <2> QED
    BY <2>1, <2>2, <2>3, <2>4
<1>5. ASSUME AttachWait PROVE LaunchInv'
  <2>1. TypeOK'
    BY <1>5 DEF AttachWait, Reported
  <2>2. KernelInv'
    BY <1>5 DEF AttachWait, Reported
  <2>3. ZygoteInv' /\ SuccessReleasesZygote'
    BY <1>5 DEF AttachWait, Reported
  <2>4. AppInv' /\ SuccessInv' /\ LaunchedIsAttached'
    BY <1>5 DEF AttachWait, Reported
  <2> QED
    BY <2>1, <2>2, <2>3, <2>4
<1>6. ASSUME AttachDone PROVE LaunchInv'
  <2>1. TypeOK'
    BY <1>6 DEF AttachDone
  <2>2. KernelInv'
    BY <1>6 DEF AttachDone
  <2>3. ZygoteInv' /\ SuccessReleasesZygote'
    BY <1>6 DEF AttachDone
  <2>4. AppInv' /\ SuccessInv' /\ LaunchedIsAttached'
    BY <1>6 DEF AttachDone
  <2> QED
    BY <2>1, <2>2, <2>3, <2>4
<1> QED
  BY <1>1, <1>2, <1>3, <1>4, <1>5, <1>6

\* The inductive invariant.
THEOREM LaunchInvariance == Spec => []LaunchInv
<1> USE LaunchAssumption
<1>1. Init => LaunchInv
  BY LaunchInit
<1>2. LaunchInv /\ [Next]_vars => LaunchInv'
  <2> SUFFICES ASSUME LaunchInv, [Next]_vars PROVE LaunchInv'
    OBVIOUS
  <2>1. CASE UNCHANGED vars
    <3> USE <2>1 DEF vars, local, target
    <3>1. TypeOK'
      BY DEF LaunchInv, TypeOK
    <3>2. KernelInv' /\ ZygoteInv'
      BY DEF LaunchInv, KernelInv, ZygoteInv, Alive
    <3>3. AppInv' /\ SuccessInv'
      BY DEF LaunchInv, AppInv, SuccessInv
    <3>4. LaunchedIsAttached' /\ SuccessReleasesZygote'
      BY DEF LaunchInv, LaunchedIsAttached, SuccessReleasesZygote, Alive
    <3> QED
      BY <3>1, <3>2, <3>3, <3>4 DEF LaunchInv
  <2>2. CASE Next
    BY <2>2, TargetStep, SearchStep, CatchStep DEF Next, Proceed
  <2> QED
    BY <2>1, <2>2
<1> QED
  BY <1>1, <1>2, PTL DEF Spec

\* Types: in particular only the zygote's children are ever matched.
THEOREM LaunchTypeCorrect == Spec => []TypeOK
  BY LaunchInvariance, PTL DEF LaunchInv

\* A launch that answers with success has the app traced and stopped.
THEOREM LaunchCatchesTheApp == Spec => []LaunchedIsAttached
  BY LaunchInvariance, PTL DEF LaunchInv

\* A launch that answers with success has let go of the zygote.
THEOREM LaunchLetsTheZygoteGo == Spec => []SuccessReleasesZygote
  BY LaunchInvariance, PTL DEF LaunchInv

\* The deadline passes while launch is in its loop.
OnTime == late => at \in {"loop", "idle"}

LEMMA OnTimeStep == ASSUME OnTime, [Next]_vars PROVE OnTime'
<1> USE DEF OnTime, Answer, local
<1>1. CASE Launch \/ ClockPasses
  BY <1>1 DEF Launch, ClockPasses
<1>2. CASE AttachZygote \/ WaitZygote \/ SetOptions \/ StartApp \/ TimeOut
  BY <1>2 DEF AttachZygote, WaitZygote, SetOptions, StartApp, TimeOut
<1>3. CASE PollZygote \/ \E c \in Children : PollChild(c)
  BY <1>3 DEF PollZygote, PollChild
<1>4. CASE Look \/ ReleaseApp \/ ReleaseZygote \/ AttachApp \/ AttachWait \/ AttachDone
  BY <1>4 DEF Look, ReleaseApp, ReleaseZygote, AttachApp, AttachWait, AttachDone
<1>5. CASE Target \/ UNCHANGED vars
  BY <1>5 DEF Target, Fork, TakesName, Stops, Dies, vars
<1> QED BY <1>1, <1>2, <1>3, <1>4, <1>5 DEF Next, Proceed

\* A launch never goes back but to its loop, never from the app it has matched,
\* and not after the deadline, for any number of children (launch).
THEOREM LaunchGoesOn == Spec => LaunchAdvances
<1> DEFINE Nearer ==
      \/ at' = "idle" /\ reply' # "none"
      \/ Rank(at') < Rank(at) /\ ~late
      \/ {at, at'} \subseteq {"loop", "look"} /\ ~late /\ ~late'
<1>0. /\ Rank("find") = 10 /\ Rank("wait") = 9 /\ Rank("options") = 8 /\ Rank("start") = 7
      /\ Rank("loop") = 6 /\ Rank("look") = 5 /\ Rank("release app") = 4
      /\ Rank("release zygote") = 3 /\ Rank("attach") = 2 /\ Rank("attach wait") = 1
      /\ Rank("attach options") = 0
  BY DEF Rank
<1>5. /\ Rank("wait") < Rank("find") /\ Rank("options") < Rank("wait")
      /\ Rank("start") < Rank("options") /\ Rank("loop") < Rank("start")
      /\ Rank("look") < Rank("loop") /\ Rank("release app") < Rank("look")
      /\ Rank("release zygote") < Rank("release app") /\ Rank("attach") < Rank("release zygote")
      /\ Rank("attach wait") < Rank("attach") /\ Rank("attach options") < Rank("attach")
      /\ Rank("attach options") < Rank("attach wait")
  <2>1. 9 < 10 /\ 8 < 9 /\ 7 < 8 /\ 6 < 7 /\ 5 < 6 /\ 4 < 5 /\ 3 < 4 /\ 2 < 3 /\ 1 < 2 /\ 0 < 2 /\ 0 < 1
    OBVIOUS
  <2> QED BY <1>0, <2>1, Zenon
<1>1. ASSUME OnTime, Proceed PROVE Nearer
  <2>1. CASE AttachZygote
    BY <1>5, <1>1, <2>1, Zenon DEF AttachZygote, Answer, OnTime
  <2>2. CASE WaitZygote
    BY <1>5, <1>1, <2>2, Zenon DEF WaitZygote, Answer, OnTime
  <2>3. CASE SetOptions \/ StartApp
    BY <1>5, <1>1, <2>3, Zenon DEF SetOptions, StartApp, Answer, OnTime
  <2>4. CASE TimeOut
    BY <2>4 DEF TimeOut, Answer
  <2>5. CASE PollZygote
    BY <1>0, <2>5 DEF PollZygote, Answer
  <2>6. ASSUME NEW c \in Children, PollChild(c) PROVE Nearer
    BY <2>6 DEF PollChild, local
  <2>7. CASE Look
    <3>1. at = "look" /\ ~late /\ UNCHANGED late
      BY <1>1, <2>7 DEF Look, OnTime
    <3>2. at' = "release app" \/ at' = "loop"
      BY <2>7 DEF Look
    <3> QED BY <1>5, <3>1, <3>2, Zenon
  <2>8. CASE ReleaseApp \/ ReleaseZygote
    BY <1>5, <1>1, <2>8, Zenon DEF ReleaseApp, ReleaseZygote, OnTime
  <2>9. CASE AttachApp \/ AttachWait
    <3>1. ~late
      BY <1>1, <2>9 DEF AttachApp, AttachWait, OnTime
    <3>2. \/ at = "attach" /\ at' \in {"attach options", "attach wait"}
          \/ at = "attach wait" /\ at' = "attach options"
          \/ at' = "idle" /\ reply' # "none"
      BY <2>9 DEF AttachApp, AttachWait, Answer
    <3> QED BY <1>5, <3>1, <3>2, Zenon
  <2>10. CASE AttachDone
    BY <2>10 DEF AttachDone, Answer
  <2> QED BY <1>1, <2>1, <2>2, <2>3, <2>4, <2>5, <2>6, <2>7, <2>8, <2>9, <2>10 DEF Proceed
<1>2. ASSUME Next, ~Proceed, at # "idle" PROVE UNCHANGED <<at, reply>>
  BY <1>2 DEF Next, Launch, ClockPasses, Target, Fork, TakesName, Stops, Dies
<1>3. OnTime /\ [Next]_vars =>
        [at # "idle" => (UNCHANGED <<at, reply>> /\ ~Proceed) \/ Nearer]_vars
  BY <1>1, <1>2
<1>4. Init => OnTime
  BY DEF Init, OnTime
<1> QED BY <1>3, <1>4, OnTimeStep, PTL DEF Spec, LaunchAdvances

=============================================================================
