----------------------------- MODULE Discovery -----------------------------
(***************************************************************************)
(* attach by package name, from the name to the thread ids (src/src/       *)
(* debugger_core.cpp, process.cpp, file.cpp): /proc is listed, the command *)
(* line of every entry is read, and the threads of the lowest pid that     *)
(* matches are listed in turn.  What is done with the threads is in        *)
(* TraceSession.                                                           *)
(*                                                                         *)
(* list_entries keeps a pointer for every record and reads none of them    *)
(* before readdir has come to the end.  The pointers lead into the one     *)
(* buffer of the DIR, which getdents fills again and again.                *)
(*                                                                         *)
(* The kernel is external: tasks start, take names and exit at any time,   *)
(* and an id may come back.  A directory is listed in the order of the     *)
(* ids; one that is open belongs to the process it was opened for.  A dead *)
(* process is collected at once and takes its threads with it.  Entries of *)
(* /proc that are not processes come first and are left out.               *)
(*                                                                         *)
(* A definition introduced by "Mistake" is the one after it with a         *)
(* plausible bug, to show that a property would notice.                    *)
(***************************************************************************)
EXTENDS Integers, FiniteSets, Sequences

CONSTANTS
  Tasks,        \* bound: the threads there may ever be
  Leader,       \* the main thread of a task's process, which stands for it
  Id,           \* the tid of a task, of a leader the pid
  BufferSize,   \* records that fit the buffer of a DIR
  Proc,         \* the directory /proc
  None          \* no directory

Ids == {Id[t] : t \in Tasks}

Leaders == {t \in Tasks : Leader[t] = t}

ASSUME DiscoveryAssumption ==
  /\ IsFiniteSet(Tasks)
  /\ Leader \in [Tasks -> Tasks]
  /\ \A t \in Tasks : Leader[Leader[t]] = Leader[t]
  /\ Id \in [Tasks -> Nat \ {0}]
  /\ BufferSize \in Nat \ {0}
  /\ Proc \notin Tasks
  /\ None \notin Tasks \cup {Proc}

VARIABLES
  at,          \* where attach is, or "idle", or "crashed"
  pid,         \* match_pids[0]
  directory,   \* the open directory: Proc or a process
  records,     \* the ids readdir has returned, in order
  index,       \* the entry find_pid_by_package_name looks at
  match_pids,  \* the pids that matched
  tids,        \* what get_thread_ids has returned
  alive,       \* the target: the tasks there are
  born,        \* the target: the tasks there have been
  named,       \* the target: processes with the package in their command line
  sought,      \* history: what was there to list at first, and still is
  called,      \* history: named when attach began
  ever         \* history: tasks that have been there since the listing began

local   == <<pid, directory, records, index, match_pids, tids>>
target  == <<alive, born, named>>
history == <<sought, called, ever>>
vars    == <<at, local, target, history>>

DiscoveryTypeOK ==
  /\ at \in {"idle", "proc", "match", "open", "task", "take", "crashed"}
  /\ pid \in Ids \cup {0}
  /\ directory \in Leaders \cup {Proc, None}
  /\ records \in Seq(Ids)
  /\ index \in Nat
  /\ match_pids \subseteq Ids
  /\ tids \subseteq Ids
  /\ alive \subseteq born /\ born \subseteq Tasks
  /\ named \subseteq born \cap Leaders
  /\ sought \subseteq alive \cap ever /\ called \subseteq named
  /\ ever \subseteq born

Init ==
  /\ at = "idle"
  /\ pid = 0
  /\ directory = None
  /\ records = << >>
  /\ index = 0
  /\ match_pids = {}
  /\ tids = {}
  /\ \E S \in SUBSET Leaders :
       /\ \A p, q \in S : Id[p] = Id[q] => p = q
       /\ alive = S /\ born = S
  /\ \E S \in SUBSET alive : named = S
  /\ sought = {}
  /\ called = {}
  /\ ever = {}

-----------------------------------------------------------------------------
(* What the kernel does.                                                   *)

Starts(t) ==
  /\ t \in Tasks \ born
  /\ t \in Leaders \/ Leader[t] \in alive
  /\ \A u \in alive : Id[u] # Id[t]
  /\ alive' = alive \cup {t}
  /\ born' = born \cup {t}
  /\ ever' = ever \cup {t}
  /\ UNCHANGED <<at, local, named, sought, called>>

TakesName(p) ==
  /\ p \in (alive \cap Leaders) \ named
  /\ named' = named \cup {p}
  /\ UNCHANGED <<at, local, alive, born, history>>

\* A leader takes the others with it.
Exits(t) ==
  /\ t \in alive
  /\ LET gone == {u \in alive : u = t \/ Leader[u] = t}
     IN  /\ alive' = alive \ gone
         /\ sought' = sought \ gone
  /\ UNCHANGED <<at, local, born, named, called, ever>>

\* What the directory d has to list.
Content(d) ==
  IF d = Proc THEN alive \cap Leaders ELSE {t \in alive : Leader[t] = d}

\* readdir goes on behind the last id it has returned.
Behind(t) == records = << >> \/ Id[t] > records[Len(records)]

-----------------------------------------------------------------------------
(* The directory.                                                          *)

\* Mistake: the entries of an earlier listing are kept.
OpenedOnTop(d) ==
  /\ directory' = d
  /\ UNCHANGED records
  /\ sought' = Content(d)
  /\ ever' = alive

\* File::open and rewinddir; the history starts anew.
Opened(d) ==
  /\ directory' = d
  /\ records' = << >>
  /\ sought' = Content(d)
  /\ ever' = alive

\* One turn of list_entries; "next" is what its caller does at the end.
ListEntries(next) ==
  LET rest == {t \in Content(directory) : Behind(t)}
  IN  /\ \/ \E t \in rest :
              /\ \A u \in rest : Id[t] <= Id[u]
              /\ records' = Append(records, Id[t])
              /\ UNCHANGED at
         \/ rest = {} /\ at' = next /\ UNCHANGED records
      /\ UNCHANGED <<pid, directory, index, match_pids, tids, target, history>>

\* The last record that was written to where entry i points: it stays until
\* the buffer has been filled once more.
LastRecord(i) == i + BufferSize * ((Len(records) - i) \div BufferSize)

\* What entry i reads as.  Records differ in length, so that a pointer that is
\* out of date may lead to the middle of another, where no number begins.
Entries(i) ==
  IF LastRecord(i) = i THEN {records[i]} ELSE {records[LastRecord(i)], 0}

-----------------------------------------------------------------------------
(* find_pid_by_package_name.                                               *)

Attach ==
  /\ at = "idle"
  /\ at' = "proc"
  /\ Opened(Proc)
  /\ called' = named
  /\ index' = 1
  /\ tids' = {}
  /\ UNCHANGED <<pid, match_pids, target>>

ListProc == at = "proc" /\ ListEntries("match")

\* Mistake: any process that is there matches.
HasAnyName(n) == \E p \in alive \cap Leaders : Id[p] = n

\* The command line of the process that has the pid n now, if there is one.
HasName(n) == \E p \in alive \cap named : Id[p] = n

\* Mistake: an entry is read until it matches or is no number.
MatchRetries ==
  /\ at = "match" /\ index <= Len(records)
  /\ \E n \in Entries(index) :
       /\ match_pids' = match_pids \cup (IF HasName(n) THEN {n} ELSE {})
       /\ index' = IF n = 0 \/ HasName(n) THEN index + 1 ELSE index
  /\ UNCHANGED <<at, pid, directory, records, tids, target, history>>

\* Mistake: the search ends at the first match.
MatchOnce ==
  /\ at = "match" /\ index <= Len(records)
  /\ \E n \in Entries(index) :
       /\ match_pids' = match_pids \cup (IF HasName(n) THEN {n} ELSE {})
       /\ index' = IF HasName(n) THEN Len(records) + 1 ELSE index + 1
  /\ UNCHANGED <<at, pid, directory, records, tids, target, history>>

\* /proc/<n>/cmdline is opened and read.
Match ==
  /\ at = "match" /\ index <= Len(records)
  /\ \E n \in Entries(index) :
       match_pids' = match_pids \cup (IF HasName(n) THEN {n} ELSE {})
  /\ index' = index + 1
  /\ UNCHANGED <<at, pid, directory, records, tids, target, history>>

\* match_pids is sorted; its first element is read whether or not it has one.
Choose ==
  /\ at = "match" /\ index > Len(records)
  /\ \/ /\ match_pids = {}
        /\ at' = "crashed"
        /\ UNCHANGED pid
     \/ /\ \E n \in match_pids :
             /\ \A m \in match_pids : n <= m
             /\ pid' = n
        /\ at' = "open"
  /\ index' = 0
  /\ UNCHANGED <<directory, records, match_pids, tids, target, history>>

-----------------------------------------------------------------------------
(* get_thread_ids.                                                         *)

\* The process that has the pid now, if there is one.
OpenTask ==
  /\ at = "open"
  /\ \/ \E p \in alive \cap Leaders :
          /\ Id[p] = pid
          /\ Opened(p)
          /\ at' = "task"
     \/ /\ \A p \in alive \cap Leaders : Id[p] # pid
        /\ at' = "idle"
        /\ records' = << >>
        /\ UNCHANGED <<directory, sought, ever>>
  /\ pid' = 0
  /\ match_pids' = {}
  /\ UNCHANGED <<index, tids, called, target>>

ListTask == at = "task" /\ ListEntries("take")

\* is_numeric
Numeric(S) == S \ {0}

\* attach has its threads, or fails because there are none.
TakeIds ==
  /\ at = "take"
  /\ \E read \in [1 .. Len(records) -> Ids \cup {0}] :
       /\ \A i \in 1 .. Len(records) : read[i] \in Entries(i)
       /\ tids' = Numeric({read[i] : i \in 1 .. Len(records)})
  /\ records' = << >>
  /\ at' = "idle"
  /\ UNCHANGED <<pid, directory, index, match_pids, target, history>>

-----------------------------------------------------------------------------
Debugger ==
  \/ ListProc \/ Match \/ Choose
  \/ OpenTask \/ ListTask \/ TakeIds

Next ==
  \/ Attach \/ Debugger
  \/ \E t \in Tasks : Starts(t) \/ TakesName(t) \/ Exits(t)

DiscoverySpec == Init /\ [][Next]_vars

\* A call goes on; nothing makes it begin.
FairDiscoverySpec == DiscoverySpec /\ WF_vars(Debugger)

-----------------------------------------------------------------------------
\* A task that the open directory lists while it is there.
Within(t) == IF directory = Proc THEN t \in Leaders ELSE Leader[t] = directory

\* The ids beyond that of t which the listing may have met.
Crowd(t) ==
  {Id[u] : u \in {v \in ever : Id[v] > Id[t] /\ Within(v)}}

Matched == at \in {"open", "crashed"}

Taken == at = "idle" /\ directory \in Leaders

\* A process that had the name all along is found, and a thread that was there
\* all along is listed, unless as many entries as the buffer holds came after
\* it: pointers into a buffer that has been filled again lose only what is
\* older, although entries appear and vanish during the listing.
NewestAreFound ==
  /\ Matched => \A p \in sought \cap called :
       Cardinality(Crowd(p)) < BufferSize => Id[p] \in match_pids
  /\ Taken => \A t \in sought :
       Cardinality(Crowd(t)) < BufferSize => Id[t] \in tids

\* The ids get_thread_ids returns are all of threads of the one process whose
\* directory was opened, whatever else takes its pid or theirs, and whatever
\* the pointers of list_entries have come to point to.
OneProcess ==
  Taken => \A n \in tids : \E t \in ever : Id[t] = n /\ Leader[t] = directory

\* A process that is there when attach begins and still there when its threads
\* are listed is listed because it had the name: only a pid that has changed
\* hands leads anywhere else.
TargetHasTheName ==
  [][at = "open" /\ directory' \in sought => directory' \in named]_vars

\* attach comes to an end with an answer or by reading the first of no pids,
\* although the directories it lists may change all the time.
AttachEnds == at = "proc" ~> at \in {"idle", "crashed"}

\* What is left of attach at a place, and the ids a directory may still list.
Stage(place) ==
  CASE place = "proc" -> 5 [] place = "match" -> 4 [] place = "open" -> 3
    [] place = "task" -> 2 [] place = "take" -> 1 [] OTHER -> 0

Unlisted == {n \in Ids : \A i \in 1 .. Len(records) : records[i] < n}

\* attach goes on without going back: it comes to a later place, or a listing is
\* left with fewer ids to come, however many tasks start meanwhile, or the search
\* with fewer entries to look at (list_entries, find_pid_by_package_name).
AttachAdvances ==
  [][at \notin {"idle", "crashed"} =>
       \/ UNCHANGED <<at, local>>
       \/ Stage(at') < Stage(at)
       \/ at' = at /\ Unlisted' \subseteq Unlisted /\ Unlisted' # Unlisted
       \/ /\ at' = at /\ UNCHANGED records
          /\ index' = index + 1 /\ index' <= Len(records) + 1]_vars

\* process.hpp:93 and file.hpp:58: all entries of the directory are listed.
AllAreListed ==
  Taken => \A t \in sought : Id[t] \in tids

=============================================================================
