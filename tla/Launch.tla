------------------------------- MODULE Launch -------------------------------
(***************************************************************************)
(* DebuggerCore::launch (src/src/debugger_core.cpp): the debugger traces   *)
(* the zygote, the process every app is forked from, starts the app, waits *)
(* for the fork that becomes the app and attaches to it, all within a      *)
(* deadline.                                                               *)
(*                                                                         *)
(* Between two of its system calls the zygote forks, children run, take    *)
(* their names, are stopped by signals and die.  A child of a traced       *)
(* zygote is traced from its first moment and stops before it runs.        *)
(*                                                                         *)
(* The kernel is external.  A process stands for its main thread; children *)
(* do not fork, the zygote is not started again when it has died, and      *)
(* nobody but the debugger traces.                                         *)
(*                                                                         *)
(* A definition introduced by "Mistake" is the one after it with a         *)
(* plausible bug, to show that a property would notice.                    *)
(***************************************************************************)
EXTENDS Integers

CONSTANTS
  Zygote,       \* zygote_pid
  Children,     \* bound: the processes it may fork
  None          \* the -1 of app_pid and m_pid

ASSUME LaunchAssumption ==
  /\ Zygote \notin Children
  /\ None \notin Children \cup {Zygote}

VARIABLES
  at,        \* where launch is, or "idle"
  late,      \* more than TIMEOUT_SEC have passed since the loop began
  fork_pid,  \* the child of the fork event launch looks at
  app_pid,   \* the child that was matched
  m_pid,     \* the process of the session
  reply,     \* the last answer of launch
  state,     \* the target: what each process does
  name,      \* the target: the name a child goes by
  traced,    \* the target: processes whose tracer is the debugger
  event,     \* the target: the child of the zygote's fork stop, or None
  options,   \* the target: PTRACE_O_TRACEFORK is set on the zygote
  news       \* the target: changes that waitpid has not reported

local  == <<late, fork_pid, app_pid, m_pid>>
target == <<state, name, traced, event, options, news>>
vars   == <<at, local, reply, target>>

Processes == Children \cup {Zygote}

\* A process that is "stopping" stops before it runs any more of its own code.
States == {"absent", "running", "stopping", "stopped", "dead", "gone"}

Places ==
  {"idle", "find", "wait", "options", "start", "loop", "look", "release app",
   "release zygote", "attach", "attach wait", "attach options"}

Alive(p) == state[p] \in {"running", "stopping", "stopped"}

TypeOK ==
  /\ at \in Places
  /\ late \in BOOLEAN
  /\ fork_pid \in Children \cup {None}
  /\ app_pid \in Children \cup {None}
  /\ m_pid \in Children \cup {None}
  /\ reply \in {"none", "ok", "fail"}
  /\ state \in [Processes -> States]
  /\ name \in [Children -> {"zygote", "app", "other"}]
  /\ traced \subseteq Processes
  /\ event \in Children \cup {None}
  /\ options \in BOOLEAN
  /\ news \subseteq traced

Init ==
  /\ at = "idle"
  /\ late = FALSE
  /\ fork_pid = None
  /\ app_pid = None
  /\ m_pid = None
  /\ reply = "none"
  /\ state = [p \in Processes |-> IF p = Zygote THEN "running" ELSE "absent"]
  /\ name = [c \in Children |-> "zygote"]
  /\ traced = {}
  /\ event = None
  /\ options = FALSE
  /\ news = {}

-----------------------------------------------------------------------------
(* What the kernel does.                                                   *)

\* The processes in S die; a tracer is told.
Killed(S) ==
  /\ state' = [p \in Processes |->
                 IF p \in S /\ Alive(p)
                 THEN IF p \in traced THEN "dead" ELSE "gone"
                 ELSE state[p]]
  /\ news' = news \cup {p \in S \cap traced : Alive(p)}

\* waitpid reports a change; a dead process is collected.
Reported(p) ==
  /\ news' = news \ {p}
  /\ IF state[p] = "dead"
     THEN state' = [state EXCEPT ![p] = "gone"] /\ traced' = traced \ {p}
     ELSE UNCHANGED <<state, traced>>

\* PTRACE_CONT without a signal; a process that is not stopped refuses.
Cont(p) ==
  IF state[p] = "stopped"
  THEN /\ state' = [state EXCEPT ![p] = "running"]
       /\ news' = news \ {p}
  ELSE UNCHANGED <<state, news>>

\* PTRACE_DETACH: a process that is not stopped refuses.
Release(p) ==
  IF state[p] = "stopped"
  THEN /\ state' = [state EXCEPT ![p] = "running"]
       /\ traced' = traced \ {p}
       /\ news' = news \ {p}
       /\ options' = (options /\ p # Zygote)
  ELSE UNCHANGED <<state, traced, news, options>>

\* A fork under PTRACE_O_TRACEFORK stops the zygote and traces the child.
Fork(c) ==
  /\ state[c] = "absent"
  /\ \/ /\ options /\ state[Zygote] = "running"
        /\ state' = [state EXCEPT ![Zygote] = "stopped", ![c] = "stopping"]
        /\ traced' = traced \cup {c}
        /\ news' = news \cup {Zygote}
        /\ event' = c
     \/ /\ ~options /\ state[Zygote] \in {"running", "stopping"}
        /\ state' = [state EXCEPT ![c] = "running"]
        /\ UNCHANGED <<traced, news, event>>
  /\ UNCHANGED <<at, local, reply, name, options>>

\* A child becomes what it was forked for.
TakesName(c) ==
  /\ state[c] = "running" /\ name[c] = "zygote"
  /\ \E n \in {"app", "other"} : name' = [name EXCEPT ![c] = n]
  /\ UNCHANGED <<at, local, reply, state, traced, event, options, news>>

\* A signal stops a traced process.
Stops(p) ==
  /\ p \in traced /\ state[p] \in {"running", "stopping"}
  /\ state' = [state EXCEPT ![p] = "stopped"]
  /\ news' = news \cup {p}
  /\ event' = IF p = Zygote THEN None ELSE event
  /\ UNCHANGED <<at, local, reply, name, traced, options>>

Dies(p) ==
  /\ Alive(p)
  /\ Killed({p})
  /\ UNCHANGED <<at, local, reply, name, traced, event, options>>

-----------------------------------------------------------------------------
(* launch                                                                  *)

Answer(status) == at' = "idle" /\ reply' = status

\* "am force-stop" ends every process of the package first.
Launch ==
  /\ at = "idle"
  /\ at' = "find"
  /\ reply' = "none"
  /\ app_pid' = None
  /\ fork_pid' = None
  /\ late' = FALSE
  /\ Killed({c \in Children : name[c] = "app"})
  /\ UNCHANGED <<m_pid, name, traced, event, options>>

\* PTRACE_ATTACH of the zygote, which must be there and not be traced already.
AttachZygote ==
  /\ at = "find"
  /\ \/ /\ Alive(Zygote) /\ Zygote \notin traced
        /\ state' = [state EXCEPT ![Zygote] = "stopping"]
        /\ traced' = traced \cup {Zygote}
        /\ at' = "wait"
        /\ UNCHANGED reply
     \/ /\ ~Alive(Zygote) \/ Zygote \in traced
        /\ Answer("fail")
        /\ UNCHANGED <<state, traced>>
  /\ UNCHANGED <<local, name, event, options, news>>

WaitZygote ==
  /\ at = "wait" /\ Zygote \in news
  /\ Reported(Zygote)
  /\ IF state[Zygote] = "stopped"
     THEN at' = "options" /\ UNCHANGED reply
     ELSE Answer("fail")
  /\ UNCHANGED <<local, name, event, options>>

\* PTRACE_SETOPTIONS, and PTRACE_CONT when it worked.
SetOptions ==
  /\ at = "options"
  /\ IF state[Zygote] = "stopped"
     THEN options' = TRUE /\ at' = "start" /\ UNCHANGED reply
     ELSE Answer("fail") /\ UNCHANGED options
  /\ Cont(Zygote)
  /\ UNCHANGED <<local, name, traced, event>>

\* "am start", which may fail.
StartApp ==
  /\ at = "start"
  /\ \/ at' = "loop" /\ UNCHANGED <<reply, state, traced, news, options>>
     \/ Answer("fail") /\ Release(Zygote)
  /\ UNCHANGED <<local, name, event>>

\* Mistake: the clock is read only when waitpid has nothing to report.
TimeOutWhenIdle ==
  /\ at = "loop" /\ late /\ news = {}
  /\ Answer("fail")
  /\ Release(Zygote)
  /\ UNCHANGED <<local, name, event>>

TimeOut ==
  /\ at = "loop" /\ late
  /\ Answer("fail")
  /\ Release(Zygote)
  /\ UNCHANGED <<local, name, event>>

\* waitpid reports the zygote: its fork is looked at, any other stop is undone.
PollZygote ==
  /\ at = "loop" /\ ~late /\ Zygote \in news
  /\ \/ /\ state[Zygote] = "stopped" /\ event # None
        /\ Reported(Zygote)
        /\ fork_pid' = event
        /\ at' = "look"
        /\ UNCHANGED reply
     \/ /\ state[Zygote] = "stopped" /\ event = None
        /\ Cont(Zygote)
        /\ UNCHANGED <<at, fork_pid, reply, traced>>
     \/ /\ state[Zygote] = "dead"
        /\ Reported(Zygote)
        /\ Answer("fail")
        /\ UNCHANGED fork_pid
  /\ UNCHANGED <<late, app_pid, m_pid, name, event, options>>

\* It reports a child, whichever it is: a stop is undone.
PollChild(c) ==
  /\ at = "loop" /\ ~late /\ c \in news
  /\ \/ state[c] = "stopped" /\ Cont(c) /\ UNCHANGED traced
     \/ state[c] = "dead" /\ Reported(c)
  /\ UNCHANGED <<at, local, reply, name, event, options>>

Matches(c) == Alive(c) /\ name[c] = "app"

\* Mistake: the pid that was waited for is taken for the child's.
LookTakesZygote ==
  /\ at = "look"
  /\ \/ /\ Matches(fork_pid)
        /\ app_pid' = Zygote
        /\ at' = "release app"
        /\ UNCHANGED <<state, news>>
     \/ /\ ~Matches(fork_pid)
        /\ Cont(Zygote)
        /\ at' = "loop"
        /\ UNCHANGED app_pid
  /\ UNCHANGED <<late, fork_pid, m_pid, reply, name, traced, event, options>>

\* Mistake: the zygote goes on before it is released.
LookAndContinue ==
  /\ at = "look"
  /\ \/ /\ Matches(fork_pid)
        /\ app_pid' = fork_pid
        /\ at' = "release app"
     \/ /\ ~Matches(fork_pid)
        /\ at' = "loop"
        /\ UNCHANGED app_pid
  /\ Cont(Zygote)
  /\ UNCHANGED <<late, fork_pid, m_pid, reply, name, traced, event, options>>

\* A moment after the fork the child's name decides; the zygote may have died
\* before it could be asked for the child (PTRACE_GETEVENTMSG).
Look ==
  /\ at = "look"
  /\ \/ /\ Matches(fork_pid)
        /\ app_pid' = fork_pid
        /\ at' = "release app"
        /\ UNCHANGED <<state, news>>
     \/ /\ ~Matches(fork_pid) \/ ~Alive(Zygote)
        /\ Cont(Zygote)
        /\ at' = "loop"
        /\ UNCHANGED app_pid
  /\ UNCHANGED <<late, fork_pid, m_pid, reply, name, traced, event, options>>

\* PTRACE_DETACH of the app and then of the zygote, whether or not they work.
ReleaseApp ==
  /\ at = "release app"
  /\ Release(app_pid)
  /\ at' = "release zygote"
  /\ UNCHANGED <<local, reply, name, event>>

ReleaseZygote ==
  /\ at = "release zygote"
  /\ Release(Zygote)
  /\ at' = "attach"
  /\ UNCHANGED <<local, reply, name, event>>

\* attach(app_pid), for the one thread the app has: a process in a tracing stop
\* is taken as it is.
AttachApp ==
  /\ at = "attach"
  /\ \/ /\ state[app_pid] = "stopped"
        /\ at' = "attach options"
        /\ UNCHANGED <<reply, state, traced>>
     \/ /\ state[app_pid] = "running" /\ app_pid \notin traced
        /\ state' = [state EXCEPT ![app_pid] = "stopping"]
        /\ traced' = traced \cup {app_pid}
        /\ at' = "attach wait"
        /\ UNCHANGED reply
     \/ /\ state[app_pid] # "stopped"
        /\ state[app_pid] # "running" \/ app_pid \in traced
        /\ Answer("fail")
        /\ UNCHANGED <<state, traced>>
  /\ UNCHANGED <<local, name, event, options, news>>

AttachWait ==
  /\ at = "attach wait" /\ app_pid \in news
  /\ Reported(app_pid)
  /\ at' = "attach options"
  /\ UNCHANGED <<local, reply, name, event, options>>

\* Mistake: the app is kept whatever PTRACE_SETOPTIONS returned.
AttachDoneUnchecked ==
  /\ at = "attach options"
  /\ m_pid' = app_pid
  /\ Answer("ok")
  /\ UNCHANGED <<late, fork_pid, app_pid, target>>

AttachDone ==
  /\ at = "attach options"
  /\ IF state[app_pid] = "stopped"
     THEN m_pid' = app_pid /\ Answer("ok")
     ELSE Answer("fail") /\ UNCHANGED m_pid
  /\ UNCHANGED <<late, fork_pid, app_pid, target>>

ClockPasses ==
  /\ at = "loop" /\ ~late
  /\ late' = TRUE
  /\ UNCHANGED <<at, fork_pid, app_pid, m_pid, reply, target>>

-----------------------------------------------------------------------------
Proceed ==
  \/ AttachZygote \/ WaitZygote \/ SetOptions \/ StartApp \/ TimeOut
  \/ PollZygote \/ (\E c \in Children : PollChild(c))
  \/ Look \/ ReleaseApp \/ ReleaseZygote \/ AttachApp \/ AttachWait \/ AttachDone

Target ==
  \/ \E c \in Children : Fork(c) \/ TakesName(c)
  \/ \E p \in Processes : Stops(p) \/ Dies(p)

Next == Launch \/ Proceed \/ ClockPasses \/ Target

Spec == Init /\ [][Next]_vars

\* launch goes on, time passes, and a process that was sent a SIGSTOP takes it.
Fairness ==
  /\ WF_vars(Proceed)
  /\ WF_vars(ClockPasses)
  /\ \A p \in Processes : WF_vars(state[p] = "stopping" /\ Stops(p))

FairSpec == Spec /\ Fairness

-----------------------------------------------------------------------------
(* Correctness.                                                            *)

\* When launch answers with success the session is the app that was asked for,
\* and the debugger has it traced and stopped, unless it has been killed since:
\* through forks of other apps, children that die under its hands and stops
\* that come at any moment (launch, attach).
LaunchedIsAttached ==
  reply = "ok" =>
    /\ name[m_pid] = "app"
    /\ m_pid \in traced /\ state[m_pid] \in {"stopped", "dead"}

\* A launch that succeeds has let go of the zygote, which is stopped for good at
\* its next fork otherwise: no app of the device would start any more (launch).
SuccessReleasesZygote ==
  reply = "ok" => Zygote \notin traced \/ ~Alive(Zygote)

\* What is left of a launch at a place.
Rank(place) ==
  CASE place = "find" -> 10 [] place = "wait" -> 9 [] place = "options" -> 8
    [] place = "start" -> 7 [] place = "loop" -> 6 [] place = "look" -> 5
    [] place = "release app" -> 4 [] place = "release zygote" -> 3
    [] place = "attach" -> 2 [] place = "attach wait" -> 1 [] OTHER -> 0

\* A launch comes nearer its answer with every system call but those of the loop
\* over the zygote's forks, which it leaves for good with the app it has matched
\* and in which it turns before the deadline only: once that has passed its next
\* step is the answer, whatever there is to look at (launch).
LaunchAdvances ==
  [][at # "idle" =>
       \/ UNCHANGED <<at, reply>> /\ ~Proceed
       \/ at' = "idle" /\ reply' # "none"
       \/ Rank(at') < Rank(at) /\ ~late
       \/ {at, at'} \subseteq {"loop", "look"} /\ ~late /\ ~late']_vars

\* A launch ends, however many forks and signals there are to look at and
\* whoever dies meanwhile: the deadline is looked at in every turn (launch).
LaunchEnds == at # "idle" ~> at = "idle"

-----------------------------------------------------------------------------
(* What a comment of the source says and the code does not keep: a run     *)
(* refutes it.                                                             *)

\* "The zygote must be stopped" when it is detached: every launch that has ended
\* has let go of a zygote that lives.
LaunchReleasesZygote ==
  reply # "none" => Zygote \notin traced \/ ~Alive(Zygote)

=============================================================================
