-------------------------- MODULE DiscoveryProofs --------------------------
(***************************************************************************)
(* Proofs about Discovery, for any tasks, ids and size of the buffer.      *)
(***************************************************************************)
EXTENDS Discovery, FiniteSetTheorems, TLAPS

(***************************************************************************)
(* The inductive invariant.                                                *)
(***************************************************************************)
Unique == \A t, u \in alive : Id[t] = Id[u] => t = u

Places ==
  /\ at \in {"proc", "match", "open", "crashed"} => directory = Proc
  /\ at \in {"task", "take"} => directory \in Leaders
  /\ at \in {"idle", "proc", "task", "take"} => match_pids = {}
  /\ at = "proc" => index = 1
  /\ at = "match" => index >= 1

Listing == at \in {"proc", "match", "task", "take"}

Seen(t) == \E i \in 1 .. Len(records) : records[i] = Id[t]

\* The records grow, are of tasks that were there, and pass over none that
\* stays.
Listed ==
  Listing =>
    /\ alive \subseteq ever
    /\ \A i, j \in 1 .. Len(records) : i < j => records[i] < records[j]
    /\ \A i \in 1 .. Len(records) : \E t \in ever : Id[t] = records[i] /\ Within(t)
    /\ \A t \in sought :
         /\ Within(t)
         /\ Seen(t) \/ (at \in {"proc", "task"} /\ Behind(t))

\* What the entries before index have led to.
MatchedSoFar ==
  /\ at = "match" => \A p \in sought \cap called, i \in 1 .. Len(records) :
       i < index /\ records[i] = Id[p] /\ Len(records) - i < BufferSize
         => Id[p] \in match_pids
  /\ at \in {"match", "open"} => \A p \in sought : Id[p] \in match_pids => p \in named
  /\ at = "open" => pid \in match_pids

DiscoveryInv ==
  /\ DiscoveryTypeOK
  /\ Unique
  /\ Places
  /\ Listed
  /\ MatchedSoFar
  /\ NewestAreFound
  /\ OneProcess

-----------------------------------------------------------------------------
(* The buffer.                                                             *)

\* A quotient by the size of the buffer.
LEMMA Quotient ==
  ASSUME NEW k \in Nat
  PROVE  /\ BufferSize * (k \div BufferSize) \in 0 .. k
         /\ k < BufferSize => BufferSize * (k \div BufferSize) = 0
<1>1. BufferSize \in Nat \ {0}
  BY DiscoveryAssumption
<1>2. BufferSize * (k \div BufferSize) \in Nat /\ BufferSize * (k \div BufferSize) <= k
  BY <1>1
<1>3. k < BufferSize => k \div BufferSize = 0
  BY <1>1
<1>4. BufferSize * 0 = 0
  BY <1>1
<1> QED
  BY <1>2, <1>3, <1>4

\* Ids are positive.
LEMMA IdsArePositive ==
  /\ Ids \subseteq Nat \ {0}
  /\ \A t \in Tasks : Id[t] \in Ids
  BY DiscoveryAssumption DEF Ids

\* An entry reads as one of the records or as nothing, and as its own while the
\* buffer has not been filled once more.
LEMMA EntryReads ==
  ASSUME records \in Seq(Ids), NEW i \in 1 .. Len(records), NEW n \in Entries(i)
  PROVE  /\ n # 0 => \E j \in 1 .. Len(records) : n = records[j]
         /\ Len(records) - i < BufferSize => n = records[i]
<1>1. Len(records) \in Nat /\ Len(records) - i \in Nat
  OBVIOUS
<1> DEFINE k == Len(records) - i
           q == BufferSize * (k \div BufferSize)
<1>2. q \in 0 .. k /\ (k < BufferSize => q = 0)
  BY <1>1, Quotient
<1>3. LastRecord(i) = i + q
  BY DEF LastRecord
<1> HIDE DEF q
<1>4. LastRecord(i) \in 1 .. Len(records)
  BY <1>1, <1>2, <1>3
<1>5. Len(records) - i < BufferSize => LastRecord(i) = i
  BY <1>2, <1>3
<1> QED
  BY <1>4, <1>5 DEF Entries

\* There are no more ids than tasks.
LEMMA IdsAreFinite == IsFiniteSet(Ids)
<1>1. Id \in Surjection(Tasks, Ids)
  BY DiscoveryAssumption DEF Surjection, Ids
<1> QED
  BY <1>1, FS_Surjection, DiscoveryAssumption

LEMMA CrowdIsFinite ==
  ASSUME ever \subseteq Tasks, NEW t
  PROVE  IsFiniteSet(Crowd(t))
<1>1. Crowd(t) \subseteq Ids
  BY DEF Crowd, Ids
<1> QED
  BY <1>1, IdsAreFinite, FS_Subset

\* The records behind that of t are of the crowd beyond t.
LEMMA CrowdCounts ==
  ASSUME DiscoveryTypeOK, Listed, Listing,
         NEW t \in Tasks, NEW i \in 1 .. Len(records), records[i] = Id[t]
  PROVE  Len(records) - i <= Cardinality(Crowd(t))
<1> DEFINE S == i + 1 .. Len(records)
           f == [j \in S |-> records[j]]
<1>1. records \in Seq(Ids)
  BY DEF DiscoveryTypeOK
<1>2. Len(records) \in Nat /\ \A j \in 1 .. Len(records) : records[j] \in Ids
  BY <1>1
<1>3. Len(records) \in Nat /\ \A j \in 1 .. Len(records) : records[j] \in Nat
  BY <1>2, IdsArePositive
<1>4. \A j \in S : j \in 1 .. Len(records) /\ i < j
  BY <1>3
<1>5. \A j \in S : j \in 1 .. Len(records) /\ records[j] > Id[t]
  BY <1>3, <1>4 DEF Listed
<1>6. \A j \in S : records[j] \in Crowd(t)
  <2> SUFFICES ASSUME NEW j \in S PROVE records[j] \in Crowd(t)
    OBVIOUS
  <2>1. PICK u \in ever : Id[u] = records[j] /\ Within(u)
    BY <1>5 DEF Listed
  <2> QED
    BY <1>5, <2>1 DEF Crowd
<1>7. \A j, k \in S : f[j] = f[k] => j = k
  <2> SUFFICES ASSUME NEW j \in S, NEW k \in S, j < k PROVE records[j] # records[k]
    BY <1>3
  <2>1. records[j] < records[k] /\ records[j] \in Nat /\ records[k] \in Nat
    BY <1>3, <1>5 DEF Listed
  <2> QED
    BY <2>1
<1>8. f \in Injection(S, Crowd(t))
  <2>1. f \in [S -> Crowd(t)]
    BY <1>6
  <2> QED
    BY <1>7, <2>1 DEF Injection, IsInjective
<1>9. IsFiniteSet(Crowd(t))
  BY CrowdIsFinite DEF DiscoveryTypeOK
<1>10. Cardinality(S) <= Cardinality(Crowd(t))
  BY <1>8, <1>9, FS_Injection
<1>11. Cardinality(S) = Len(records) - i
  BY <1>3, FS_Interval
<1> QED
  BY <1>10, <1>11

-----------------------------------------------------------------------------
(* Types.                                                                  *)

LEMMA Empty == << >> \in Seq(Ids) /\ Len(<< >>) = 0
  OBVIOUS

\* A turn of list_entries appends an id or nothing.
LEMMA ListTypes ==
  ASSUME DiscoveryTypeOK, NEW next, ListEntries(next)
  PROVE  records' \in Seq(Ids)
<1>1. records \in Seq(Ids) /\ Content(directory) \subseteq Tasks
  BY DEF DiscoveryTypeOK, Content
<1>2. CASE records' = records
  BY <1>1, <1>2
<1>3. ASSUME NEW t \in Content(directory), records' = Append(records, Id[t])
      PROVE  records' \in Seq(Ids)
  <2>1. Id[t] \in Ids
    BY <1>1, IdsArePositive
  <2> QED
    BY <1>1, <1>3, <2>1
<1> QED
  BY <1>2, <1>3 DEF ListEntries

\* An opened directory has not been read from.
LEMMA OpenedTypes ==
  ASSUME NEW d, Opened(d)
  PROVE  /\ directory' = d
         /\ records' = << >> /\ records' \in Seq(Ids) /\ Len(records') = 0
         /\ sought' = Content(d) /\ sought' \subseteq alive /\ ever' = alive
  BY Empty DEF Opened, Content

LEMMA TypeStep ==
  ASSUME DiscoveryTypeOK, Unique, Places, Next
  PROVE  DiscoveryTypeOK'
<1> USE DiscoveryAssumption DEF DiscoveryTypeOK, local, target, history
<1>1. CASE Attach
  <2>1. Opened(Proc) /\ called' = named /\ UNCHANGED <<pid, match_pids, target>>
        /\ at' = "proc" /\ index' = 1 /\ tids' = {}
    BY <1>1 DEF Attach
  <2> QED
    BY <2>1, OpenedTypes
<1>2. CASE ListProc
  BY <1>2, ListTypes DEF ListProc, ListEntries
<1>3. CASE Match
  <2>1. PICK n \in Entries(index) :
          match_pids' = match_pids \cup (IF HasName(n) THEN {n} ELSE {})
    BY <1>3 DEF Match
  <2>2. HasName(n) => n \in Ids
    BY DEF HasName, Ids
  <2> QED
    BY <1>3, <2>1, <2>2 DEF Match
<1>4. CASE Choose
  BY <1>4 DEF Choose
<1>5. CASE OpenTask
  <2>1. CASE \A p \in alive \cap Leaders : Id[p] # pid
    <3>1. records' \in {records, << >>}
      BY <1>5, <2>1 DEF OpenTask
    <3>2. << >> \in Seq(Ids)
      BY Empty
    <3> QED
      BY <1>5, <2>1, <3>1, <3>2 DEF OpenTask
  <2>2. ASSUME NEW p \in alive \cap Leaders, Opened(p), at' = "task"
        PROVE  DiscoveryTypeOK'
    BY <1>5, <2>2, OpenedTypes DEF OpenTask
  <2> QED
    BY <1>5, <2>1, <2>2 DEF OpenTask
<1>6. CASE ListTask
  BY <1>6, ListTypes DEF ListTask, ListEntries
<1>7. CASE TakeIds
  <2>1. PICK read \in [1 .. Len(records) -> Ids \cup {0}] :
          tids' = Numeric({read[i] : i \in 1 .. Len(records)})
    BY <1>7 DEF TakeIds
  <2>2. tids' \subseteq Ids
    BY <2>1 DEF Numeric
  <2> QED
    BY <1>7, <2>2 DEF TakeIds
<1>8. ASSUME NEW t \in Tasks, Starts(t) PROVE DiscoveryTypeOK'
  BY <1>8 DEF Starts
<1>9. ASSUME NEW t \in Tasks, TakesName(t) PROVE DiscoveryTypeOK'
  BY <1>9 DEF TakesName
<1>10. ASSUME NEW t \in Tasks, Exits(t) PROVE DiscoveryTypeOK'
  BY <1>10 DEF Exits
<1> QED
  BY <1>1, <1>2, <1>3, <1>4, <1>5, <1>6, <1>7, <1>8, <1>9, <1>10
     DEF Next, Debugger

-----------------------------------------------------------------------------
(* What tasks do.                                                          *)

\* No step of a task disturbs the debugger; its history loses what is gone.
LEMMA TaskSteps ==
  ASSUME DiscoveryTypeOK, Unique, NEW t \in Tasks,
         Starts(t) \/ TakesName(t) \/ Exits(t)
  PROVE  /\ UNCHANGED <<at, local, called>>
         /\ sought' \subseteq sought /\ ever \subseteq ever' /\ ever' \subseteq Tasks
         /\ named \subseteq named'
         /\ Unique'
<1> USE DEF DiscoveryTypeOK
<1>1. CASE Starts(t)
  BY <1>1 DEF Starts, Unique
<1>2. CASE TakesName(t)
  BY <1>2, DiscoveryAssumption DEF TakesName, Unique, target, history
<1>3. CASE Exits(t)
  BY <1>3 DEF Exits, Unique
<1> QED
  BY <1>1, <1>2, <1>3

LEMMA PlacesStep ==
  ASSUME DiscoveryTypeOK, Unique, Places, Next
  PROVE  Unique' /\ Places'
<1> USE DEF Places, Unique, history, target
<1>1. CASE Attach
  BY <1>1 DEF Attach, Opened, Unique, DiscoveryTypeOK
<1>2. CASE ListProc
  <2>1. /\ at' = "proc" \/ at' = "match"
        /\ UNCHANGED <<directory, index, match_pids, alive>>
    BY <1>2 DEF ListProc, ListEntries
  <2>2. Unique'
    BY <2>1
  <2>3. at = "proc" /\ directory = Proc /\ index = 1 /\ match_pids = {}
    BY <1>2 DEF ListProc
  <2>4. index' = 1 /\ index' >= 1 /\ directory' = Proc /\ match_pids' = {}
    BY <2>1, <2>3
  <2>5. Places'
    BY <2>1, <2>4
  <2> QED
    BY <2>2, <2>5
<1>3. CASE Match
  BY <1>3 DEF Match, DiscoveryTypeOK
<1>4. CASE Choose
  BY <1>4 DEF Choose
<1>5. CASE OpenTask
  BY <1>5 DEF OpenTask, Opened
<1>6. CASE ListTask
  BY <1>6 DEF ListTask, ListEntries
<1>7. CASE TakeIds
  BY <1>7 DEF TakeIds
<1>8. ASSUME NEW t \in Tasks, Starts(t) \/ TakesName(t) \/ Exits(t)
      PROVE  Unique' /\ Places'
  BY <1>8, TaskSteps DEF local
<1> QED
  BY <1>1, <1>2, <1>3, <1>4, <1>5, <1>6, <1>7, <1>8 DEF Next, Debugger

-----------------------------------------------------------------------------
(* What list_entries collects.                                             *)

\* An opened directory has everything before it.
LEMMA OpenedListed ==
  ASSUME DiscoveryTypeOK, NEW d \in Leaders \cup {Proc}, Opened(d), alive' = alive,
         at' = "proc" \/ at' = "task"
  PROVE  Listed'
<1>1. /\ directory' = d /\ records' = << >> /\ Len(records') = 0
      /\ sought' = Content(d)
  BY OpenedTypes
<1>2. \A t \in sought' : Within(t)'
  BY <1>1, DiscoveryAssumption DEF Content, Within, Leaders, DiscoveryTypeOK
<1> QED
  <2>1. Len(records') = 0
    BY <1>1
  <2>2. alive' = ever'
    BY OpenedTypes
  <2>3. 1 .. Len(records') = {}
    BY <2>1
  <2>4. \A t : Behind(t)'
    BY <1>1 DEF Behind
  <2> QED
    BY <1>2, <2>2, <2>3, <2>4 DEF Listed

\* A turn of list_entries takes the next task, and ends when there is none.
LEMMA TurnListed ==
  ASSUME DiscoveryTypeOK, Listed, Listing, NEW next, ListEntries(next),
         at = "proc" \/ at = "task", next = "match" \/ next = "take",
         next = "take" => directory # Proc
  PROVE  Listed'
<1> DEFINE rest == {t \in Content(directory) : Behind(t)}
           n == Len(records)
<1>1. /\ records \in Seq(Ids) /\ alive \subseteq Tasks
      /\ \A i \in 1 .. n : records[i] \in Ids
  BY DEF DiscoveryTypeOK
<1>2. n \in Nat
  BY <1>1
<1>3. \A i \in 1 .. n : records[i] \in Nat
  BY <1>1, IdsArePositive
<1>4. \A t \in alive : Id[t] \in Ids /\ Id[t] \in Nat
  BY <1>1, IdsArePositive
<1>5. /\ n \in Nat /\ records \in Seq(Ids)
      /\ \A i \in 1 .. n : records[i] \in Nat
      /\ \A t \in alive : Id[t] \in Ids /\ Id[t] \in Nat
  BY <1>1, <1>2, <1>3, <1>4
<1>6. UNCHANGED <<directory, sought, ever, alive>> /\ \A t : Within(t)' <=> Within(t)
  BY DEF ListEntries, history, target, Within
<1>7. \A t \in sought : Within(t) /\ t \in Content(directory)
  BY DEF Listed, Content, Within, DiscoveryTypeOK, Leaders
<1>8. CASE rest = {} /\ UNCHANGED records
  <2>1. \A t \in sought : Seen(t)
    BY <1>7, <1>8 DEF Listed
  <2>2. \A t : Seen(t)' <=> Seen(t)
    BY <1>8 DEF Seen
  <2> QED
    BY <1>6, <1>8, <2>1, <2>2 DEF Listed
<1>9. ASSUME NEW t \in rest, \A u \in rest : Id[t] <= Id[u],
             records' = Append(records, Id[t]), at' = at
      PROVE  Listed'
  <2>1. /\ Len(records') = n + 1 /\ records'[n + 1] = Id[t]
        /\ \A i \in 1 .. n : records'[i] = records[i]
    BY <1>5, <1>9 DEF Content
  <2>2. t \in ever /\ Within(t) /\ t \in alive /\ Id[t] \in Nat
    BY <1>5 DEF Content, Within, Listed
  <2>3. \A i \in 1 .. n : records[i] < Id[t]
    <3> SUFFICES ASSUME NEW i \in 1 .. n PROVE records[i] < Id[t]
      OBVIOUS
    <3>1. records[n] < Id[t] /\ n \in 1 .. n
      BY <1>5, <2>2 DEF Behind
    <3>2. i < n => records[i] < records[n]
      BY <3>1 DEF Listed
    <3> QED
      BY <1>5, <2>2, <3>1, <3>2
  <2>4. \A i, j \in 1 .. n + 1 : i < j => records'[i] < records'[j]
    <3> SUFFICES ASSUME NEW i \in 1 .. n + 1, NEW j \in 1 .. n + 1, i < j
                 PROVE  records'[i] < records'[j]
      OBVIOUS
    <3>1. i \in 1 .. n
      BY <1>5
    <3>2. CASE j = n + 1
      BY <2>1, <2>3, <3>1, <3>2
    <3>3. CASE j \in 1 .. n
      BY <2>1, <3>1, <3>3 DEF Listed
    <3> QED
      BY <1>5, <3>2, <3>3
  <2>5. \A i \in 1 .. n + 1 : \E u \in ever : Id[u] = records'[i] /\ Within(u)
    <3> SUFFICES ASSUME NEW i \in 1 .. n + 1
                 PROVE  \E u \in ever : Id[u] = records'[i] /\ Within(u)
      OBVIOUS
    <3>1. CASE i = n + 1
      BY <2>1, <2>2, <3>1
    <3>2. CASE i \in 1 .. n
      BY <2>1, <3>2 DEF Listed
    <3> QED
      BY <1>5, <3>1, <3>2
  <2>6. ASSUME NEW u \in sought PROVE Seen(u)' \/ Behind(u)'
    <3>1. CASE Seen(u)
      <4>1. PICK i \in 1 .. n : records[i] = Id[u]
        BY <3>1 DEF Seen
      <4>2. i \in 1 .. Len(records') /\ records'[i] = Id[u]
        BY <1>5, <2>1, <4>1
      <4> QED
        BY <4>2 DEF Seen
    <3>2. CASE Behind(u)
      <4>1. u \in rest /\ Id[u] \in Nat /\ Id[t] <= Id[u]
        BY <1>5, <1>7, <1>9, <3>2 DEF DiscoveryTypeOK
      <4>2. CASE Id[u] = Id[t]
        <5>1. n + 1 \in 1 .. Len(records') /\ records'[n + 1] = Id[u]
          BY <1>5, <2>1, <4>2
        <5> QED
          BY <5>1 DEF Seen
      <4>3. CASE Id[u] > Id[t]
        <5>1. Id[u] > records'[Len(records')]
          BY <2>1, <4>3
        <5> QED
          BY <5>1 DEF Behind
      <4> QED
        BY <2>2, <4>1, <4>2, <4>3
    <3> QED
      BY <3>1, <3>2 DEF Listed
  <2> QED
    BY <1>6, <1>7, <1>9, <2>1, <2>4, <2>5, <2>6 DEF Listed
<1> QED
  BY <1>8, <1>9 DEF ListEntries

LEMMA ListedStep ==
  ASSUME DiscoveryTypeOK, Unique, Places, Listed, Next
  PROVE  Listed'
<1>1. CASE Attach
  BY <1>1, OpenedListed DEF Attach, target
<1>2. CASE ListProc
  <2>1. Listing
    BY <1>2 DEF ListProc, Listing
  <2> QED
    BY <1>2, <2>1, TurnListed DEF ListProc
<1>3. CASE Match
  <2>1. UNCHANGED <<at, directory, records, alive, ever, sought>>
    BY <1>3 DEF Match, target, history
  <2> QED
    BY <2>1 DEF Listed, Listing, Within, Seen, Behind
<1>4. CASE Choose
  BY <1>4 DEF Choose, Listed, Listing
<1>5. CASE OpenTask
  <2>1. CASE at' = "idle"
    BY <2>1 DEF Listed, Listing
  <2>2. ASSUME NEW p \in alive \cap Leaders, Opened(p), at' = "task"
        PROVE  Listed'
    BY <1>5, <2>2, OpenedListed DEF OpenTask, target
  <2> QED
    BY <1>5, <2>1, <2>2 DEF OpenTask
<1>6. CASE ListTask
  <2>1. Listing /\ directory # Proc
    BY <1>6, DiscoveryAssumption DEF ListTask, Listing, Places, Leaders
  <2> QED
    BY <1>6, <2>1, TurnListed DEF ListTask
<1>7. CASE TakeIds
  BY <1>7 DEF TakeIds, Listed, Listing
<1>8. ASSUME NEW t \in Tasks, Starts(t) \/ TakesName(t) \/ Exits(t)
      PROVE  Listed'
  <2>1. /\ UNCHANGED <<at, directory, records>>
        /\ sought' \subseteq sought /\ ever \subseteq ever'
    BY <1>8, TaskSteps DEF local
  <2>2. alive \subseteq ever => alive' \subseteq ever'
    BY <1>8 DEF Starts, TakesName, Exits, history
  <2> QED
    BY <2>1, <2>2 DEF Listed, Listing, Within, Seen, Behind
<1> QED
  BY <1>1, <1>2, <1>3, <1>4, <1>5, <1>6, <1>7, <1>8 DEF Next, Debugger

-----------------------------------------------------------------------------
(* What is found.                                                          *)

LEMMA MatchedStep ==
  ASSUME DiscoveryTypeOK, Unique, Places, Listed, MatchedSoFar, Next
  PROVE  MatchedSoFar'
<1>1. CASE Attach
  BY <1>1 DEF Attach, MatchedSoFar
<1>2. CASE ListProc
  <2>1. /\ at' = "proc" \/ at' = "match"
        /\ index' = 1 /\ match_pids' = {}
    BY <1>2 DEF ListProc, ListEntries, Places
  <2>2. \A i \in 1 .. Len(records') : ~ (i < index')
    BY <2>1
  <2> QED
    BY <2>1, <2>2 DEF MatchedSoFar
<1>3. CASE Match
  <2>1. PICK n \in Entries(index) :
          match_pids' = match_pids \cup (IF HasName(n) THEN {n} ELSE {})
    BY <1>3 DEF Match
  <2>2. /\ at = "match" /\ at' = "match" /\ index' = index + 1
        /\ index \in 1 .. Len(records) /\ records \in Seq(Ids)
        /\ UNCHANGED <<records, sought, called, named, alive>>
    BY <1>3 DEF Match, Places, DiscoveryTypeOK, target, history
  <2>3. ASSUME NEW p \in sought \cap called, NEW i \in 1 .. Len(records),
               i < index + 1, records[i] = Id[p], Len(records) - i < BufferSize
        PROVE  Id[p] \in match_pids'
    <3>1. CASE i < index
      BY <2>1, <2>2, <2>3, <3>1 DEF MatchedSoFar
    <3>2. CASE i = index
      <4>1. n = Id[p]
        BY <2>2, <2>3, <3>2, EntryReads
      <4>2. HasName(n)
        BY <4>1 DEF HasName, DiscoveryTypeOK
      <4> QED
        BY <2>1, <4>1, <4>2
    <3> QED
      BY <2>2, <2>3, <3>1, <3>2
  <2>4. ASSUME NEW p \in sought, Id[p] \in match_pids' PROVE p \in named
    <3>1. CASE Id[p] \in match_pids
      BY <2>2, <3>1 DEF MatchedSoFar
    <3>2. CASE HasName(n) /\ Id[p] = n
      BY <3>2 DEF HasName, Unique, DiscoveryTypeOK
    <3> QED
      BY <2>1, <2>4, <3>1, <3>2
  <2> QED
    BY <2>2, <2>3, <2>4 DEF MatchedSoFar
<1>4. CASE Choose
  BY <1>4 DEF Choose, MatchedSoFar, target, history
<1>5. CASE OpenTask
  BY <1>5 DEF OpenTask, MatchedSoFar
<1>6. CASE ListTask
  BY <1>6 DEF ListTask, ListEntries, MatchedSoFar
<1>7. CASE TakeIds
  BY <1>7 DEF TakeIds, MatchedSoFar
<1>8. ASSUME NEW t \in Tasks, Starts(t) \/ TakesName(t) \/ Exits(t)
      PROVE  MatchedSoFar'
  <2>1. /\ UNCHANGED <<at, pid, index, records, match_pids, called>>
        /\ sought' \subseteq sought /\ named \subseteq named'
    BY <1>8, TaskSteps DEF local
  <2> QED
    BY <2>1 DEF MatchedSoFar
<1> QED
  BY <1>1, <1>2, <1>3, <1>4, <1>5, <1>6, <1>7, <1>8 DEF Next, Debugger

\* With the listing complete, an entry that few ids follow still reads as itself.
LEMMA StillThere ==
  ASSUME DiscoveryTypeOK, Listed, at = "match" \/ at = "take",
         NEW t \in sought, Cardinality(Crowd(t)) < BufferSize
  PROVE  \E i \in 1 .. Len(records) :
           records[i] = Id[t] /\ Len(records) - i < BufferSize
<1>1. PICK i \in 1 .. Len(records) : records[i] = Id[t]
  BY DEF Listed, Listing, Seen
<1>2. Len(records) - i <= Cardinality(Crowd(t))
  BY <1>1, CrowdCounts DEF Listing, DiscoveryTypeOK
<1>3. Cardinality(Crowd(t)) \in Nat /\ BufferSize \in Nat /\ Len(records) \in Nat
  BY CrowdIsFinite, FS_CardinalityType, DiscoveryAssumption DEF DiscoveryTypeOK
<1> QED
  BY <1>1, <1>2, <1>3

\* A crowd only grows.
LEMMA CrowdGrows ==
  ASSUME ever \subseteq ever', ever' \subseteq Tasks, directory' = directory, NEW t,
         Cardinality(Crowd(t)') < BufferSize
  PROVE  Cardinality(Crowd(t)) < BufferSize
<1>1. Crowd(t) \subseteq Crowd(t)'
  BY DEF Crowd, Within
<1>2. IsFiniteSet(Crowd(t)')
  <2>1. Crowd(t)' \subseteq Ids
    BY DEF Crowd, Ids
  <2> QED
    BY <2>1, IdsAreFinite, FS_Subset
<1>3. /\ Cardinality(Crowd(t)) <= Cardinality(Crowd(t)') /\ IsFiniteSet(Crowd(t))
  BY <1>1, <1>2, FS_Subset
<1>4. /\ Cardinality(Crowd(t)) \in Nat /\ Cardinality(Crowd(t)') \in Nat
      /\ BufferSize \in Nat
  BY <1>2, <1>3, FS_CardinalityType, DiscoveryAssumption
<1> QED
  BY <1>3, <1>4

LEMMA NewestStep ==
  ASSUME DiscoveryTypeOK, Unique, Places, Listed, MatchedSoFar, NewestAreFound, Next
  PROVE  NewestAreFound'
<1> USE DEF Matched, Taken
<1>1. CASE Attach \/ ListProc \/ Match \/ ListTask
  <2>1. at' \notin {"open", "crashed", "idle"}
    BY <1>1 DEF Attach, ListProc, Match, ListTask, ListEntries
  <2> QED
    BY <2>1 DEF NewestAreFound
<1>2. CASE Choose
  <2>1. /\ at = "match" /\ index > Len(records) /\ at' # "idle"
        /\ index \in Nat /\ Len(records) \in Nat
        /\ UNCHANGED <<directory, records, match_pids, sought, called, ever>>
    BY <1>2 DEF Choose, history, DiscoveryTypeOK
  <2>2. \A p : Crowd(p)' = Crowd(p)
    BY <2>1 DEF Crowd, Within
  <2>3. ASSUME NEW p \in sought \cap called, Cardinality(Crowd(p)) < BufferSize
        PROVE  Id[p] \in match_pids
    <3>1. PICK i \in 1 .. Len(records) :
            records[i] = Id[p] /\ Len(records) - i < BufferSize
      BY <2>1, <2>3, StillThere
    <3> QED
      BY <2>1, <2>3, <3>1 DEF MatchedSoFar
  <2> QED
    BY <2>1, <2>2, <2>3 DEF NewestAreFound
<1>3. CASE OpenTask
  <2>1. \/ at' = "task"
        \/ directory' = Proc
    BY <1>3 DEF OpenTask, Places
  <2>2. at' = "task" \/ at' = "idle"
    BY <1>3 DEF OpenTask
  <2> QED
    BY <2>1, <2>2, DiscoveryAssumption DEF NewestAreFound, Leaders
<1>4. CASE TakeIds
  <2>1. PICK read \in [1 .. Len(records) -> Ids \cup {0}] :
          /\ \A i \in 1 .. Len(records) : read[i] \in Entries(i)
          /\ tids' = Numeric({read[i] : i \in 1 .. Len(records)})
    BY <1>4 DEF TakeIds
  <2>2. /\ at = "take" /\ at' = "idle" /\ UNCHANGED <<directory, sought, ever>>
        /\ records \in Seq(Ids)
    BY <1>4 DEF TakeIds, history, DiscoveryTypeOK
  <2>3. \A t : Crowd(t)' = Crowd(t)
    BY <2>2 DEF Crowd, Within
  <2>4. ASSUME NEW t \in sought, Cardinality(Crowd(t)) < BufferSize
        PROVE  Id[t] \in tids'
    <3>1. PICK i \in 1 .. Len(records) :
            records[i] = Id[t] /\ Len(records) - i < BufferSize
      BY <2>2, <2>4, StillThere
    <3>2. read[i] = Id[t]
      BY <2>1, <2>2, <3>1, EntryReads
    <3>3. Id[t] # 0
      BY DiscoveryAssumption DEF DiscoveryTypeOK
    <3> QED
      BY <2>1, <3>1, <3>2, <3>3 DEF Numeric
  <2> QED
    BY <2>2, <2>3, <2>4 DEF NewestAreFound
<1>5. ASSUME NEW t \in Tasks, Starts(t) \/ TakesName(t) \/ Exits(t)
      PROVE  NewestAreFound'
  <2>1. /\ UNCHANGED <<at, directory, match_pids, tids, called>>
        /\ sought' \subseteq sought /\ ever \subseteq ever' /\ ever' \subseteq Tasks
    BY <1>5, TaskSteps DEF local
  <2>2. \A p : Cardinality(Crowd(p)') < BufferSize => Cardinality(Crowd(p)) < BufferSize
    BY <2>1, CrowdGrows
  <2> QED
    BY <2>1, <2>2 DEF NewestAreFound
<1> QED
  BY <1>1, <1>2, <1>3, <1>4, <1>5 DEF Next, Debugger

LEMMA OneProcessStep ==
  ASSUME DiscoveryTypeOK, Unique, Places, Listed, OneProcess, Next
  PROVE  OneProcess'
<1> USE DEF Taken
<1>1. CASE Attach \/ ListProc \/ Match \/ ListTask \/ Choose
  <2>1. at' # "idle"
    BY <1>1 DEF Attach, ListProc, Match, ListTask, ListEntries, Choose
  <2> QED
    BY <2>1 DEF OneProcess
<1>2. CASE OpenTask
  <2>1. \/ at' = "task"
        \/ directory' = Proc
    BY <1>2 DEF OpenTask, Places
  <2> QED
    BY <2>1, DiscoveryAssumption DEF OneProcess, Leaders
<1>3. CASE TakeIds
  <2>1. PICK read \in [1 .. Len(records) -> Ids \cup {0}] :
          /\ \A i \in 1 .. Len(records) : read[i] \in Entries(i)
          /\ tids' = Numeric({read[i] : i \in 1 .. Len(records)})
    BY <1>3 DEF TakeIds
  <2>2. /\ at = "take" /\ UNCHANGED <<directory, ever>> /\ records \in Seq(Ids)
        /\ directory # Proc
    BY <1>3, DiscoveryAssumption DEF TakeIds, history, DiscoveryTypeOK, Places, Leaders
  <2>3. ASSUME NEW n \in tids'
        PROVE  \E t \in ever : Id[t] = n /\ Leader[t] = directory
    <3>1. PICK i \in 1 .. Len(records) : n = read[i] /\ n # 0
      BY <2>1 DEF Numeric
    <3>2. PICK j \in 1 .. Len(records) : n = records[j]
      BY <2>1, <2>2, <3>1, EntryReads
    <3> QED
      BY <2>2, <3>2 DEF Listed, Listing, Within
  <2> QED
    BY <2>2, <2>3 DEF OneProcess
<1>4. ASSUME NEW t \in Tasks, Starts(t) \/ TakesName(t) \/ Exits(t)
      PROVE  OneProcess'
  <2>1. UNCHANGED <<at, directory, tids>> /\ ever \subseteq ever'
    BY <1>4, TaskSteps DEF local
  <2> QED
    BY <2>1 DEF OneProcess
<1> QED
  BY <1>1, <1>2, <1>3, <1>4 DEF Next, Debugger

-----------------------------------------------------------------------------
(* The theorems.                                                           *)

\* DiscoveryInv holds in every reachable state of attach and of the tasks.
THEOREM DiscoveryInvariance == DiscoverySpec => []DiscoveryInv
<1>1. Init => DiscoveryInv
  <2> SUFFICES ASSUME Init PROVE DiscoveryInv
    OBVIOUS
  <2>1. at = "idle" /\ directory = None /\ records \in Seq(Ids)
    BY Empty DEF Init
  <2>2. DiscoveryTypeOK /\ Unique
    BY <2>1 DEF Init, DiscoveryTypeOK, Unique, Leaders
  <2>3. directory \notin Leaders /\ match_pids = {}
    BY <2>1, DiscoveryAssumption DEF Init, Leaders
  <2> QED
    BY <2>1, <2>2, <2>3 DEF DiscoveryInv, Places, Listed, Listing, MatchedSoFar,
       NewestAreFound, OneProcess, Matched, Taken
<1>2. DiscoveryInv /\ [Next]_vars => DiscoveryInv'
  <2>1. ASSUME DiscoveryInv, Next PROVE DiscoveryInv'
    BY <2>1, TypeStep, PlacesStep, ListedStep, MatchedStep, NewestStep, OneProcessStep
       DEF DiscoveryInv
  <2>2. ASSUME DiscoveryInv, UNCHANGED vars PROVE DiscoveryInv'
    <3>1. UNCHANGED <<at, pid, directory, records, index, match_pids, tids, alive,
                      born, named, sought, called, ever>>
      BY <2>2 DEF vars, local, target, history
    <3>2. DiscoveryTypeOK' /\ Unique' /\ Places'
      BY <2>2, <3>1 DEF DiscoveryInv, DiscoveryTypeOK, Unique, Places
    <3>3. Listed' /\ MatchedSoFar'
      BY <2>2, <3>1
         DEF DiscoveryInv, Listed, Listing, Seen, Behind, Within, MatchedSoFar
    <3>4. NewestAreFound' /\ OneProcess'
      BY <2>2, <3>1
         DEF DiscoveryInv, NewestAreFound, OneProcess, Matched, Taken, Crowd, Within
    <3> QED
      BY <3>2, <3>3, <3>4 DEF DiscoveryInv
  <2> QED
    BY <2>1, <2>2
<1> QED
  BY <1>1, <1>2, PTL DEF DiscoverySpec

\* The state of a search for a process and its threads is well typed; no entry
\* that is out of date is taken for an id.
THEOREM DiscoveryTypeCorrect == DiscoverySpec => []DiscoveryTypeOK
  BY DiscoveryInvariance, PTL DEF DiscoveryInv

\* A process with the name and a thread of the process are found unless as many
\* entries as the buffer holds came after them.
THEOREM NewestProcessesAndThreads == DiscoverySpec => []NewestAreFound
  BY DiscoveryInvariance, PTL DEF DiscoveryInv

\* The threads that are found are of one process, whoever takes over its pid.
THEOREM ThreadsOfOneProcess == DiscoverySpec => []OneProcess
  BY DiscoveryInvariance, PTL DEF DiscoveryInv

\* attach goes to a process that has the name, or to one that is new.
THEOREM AttachGoesByName == DiscoverySpec => TargetHasTheName
<1>1. DiscoveryInv /\ [Next]_vars =>
        [at = "open" /\ directory' \in sought => directory' \in named]_vars
  <2> SUFFICES ASSUME DiscoveryInv, Next, at = "open", directory' \in sought
               PROVE  directory' \in named
    OBVIOUS
  <2>1. directory = Proc /\ directory \notin sought
    BY DiscoveryAssumption DEF DiscoveryInv, Places, DiscoveryTypeOK
  <2>2. CASE OpenTask
    <3>1. PICK p \in alive \cap Leaders : Id[p] = pid /\ directory' = p
      BY <2>1, <2>2 DEF OpenTask, Opened
    <3> QED
      BY <3>1 DEF DiscoveryInv, MatchedSoFar
  <2>3. CASE ~OpenTask
    <3>1. directory' = directory
      BY <2>3, TaskSteps
         DEF Next, Debugger, Attach, ListProc, Match, Choose, ListTask, TakeIds,
             DiscoveryInv, local
    <3> QED
      BY <2>1, <3>1
  <2> QED
    BY <2>2, <2>3
<1> QED
  BY <1>1, DiscoveryInvariance, PTL DEF DiscoverySpec, TargetHasTheName

\* An entry that is read leaves fewer ids for the listing to come to.
LEMMA TurnLeavesFewer ==
  ASSUME DiscoveryTypeOK, Listed, Listing,
         NEW t \in Tasks, Behind(t), records' = Append(records, Id[t])
  PROVE  Unlisted' \subseteq Unlisted /\ Unlisted' # Unlisted
<1> DEFINE n == Len(records)
<1>1. /\ n \in Nat /\ \A i \in 1 .. n : records[i] \in Nat
      /\ Id[t] \in Ids /\ Id[t] \in Nat /\ \A m \in Ids : m \in Nat
  <2>1. records \in Seq(Ids)
    BY DEF DiscoveryTypeOK
  <2>2. n \in Nat /\ \A i \in 1 .. n : records[i] \in Ids
    BY <2>1
  <2> QED BY <2>2, IdsArePositive
<1>2. /\ Len(records') = n + 1 /\ records'[n + 1] = Id[t]
      /\ \A i \in 1 .. n : records'[i] = records[i]
  BY <1>1 DEF DiscoveryTypeOK
<1>3. ASSUME NEW i \in 1 .. n PROVE records[i] < Id[t]
  <2>1. n \in 1 .. n /\ records # << >>
    BY <1>1 DEF DiscoveryTypeOK
  <2>2. records[n] < Id[t]
    BY <1>1, <2>1 DEF Behind
  <2>3. i # n => records[i] < records[n]
    BY <1>1, <2>1 DEF Listed
  <2> QED BY <1>1, <2>1, <2>2, <2>3
<1>4. Id[t] \in Unlisted
  BY <1>1, <1>3 DEF Unlisted
<1>5. Id[t] \notin Unlisted'
  <2>1. n + 1 \in 1 .. Len(records') /\ ~(records'[n + 1] < Id[t])
    BY <1>1, <1>2
  <2> QED BY <2>1 DEF Unlisted
<1>6. ASSUME NEW m \in Unlisted' PROVE m \in Unlisted
  <2>1. m \in Ids /\ \A i \in 1 .. Len(records') : records'[i] < m
    BY <1>6 DEF Unlisted
  <2>2. \A i \in 1 .. n : i \in 1 .. Len(records')
    BY <1>1, <1>2
  <2> QED BY <1>2, <2>1, <2>2 DEF Unlisted
<1> QED BY <1>4, <1>5, <1>6

\* attach never goes back, and there are finitely many ids a directory can still
\* list: tasks that start and exit while it is read cannot keep the listing
\* going (list_entries, find_pid_by_package_name, get_thread_ids).
THEOREM AttachGoesOn == DiscoverySpec => AttachAdvances
<1> DEFINE Nearer ==
      \/ UNCHANGED <<at, local>>
      \/ Stage(at') < Stage(at)
      \/ at' = at /\ Unlisted' \subseteq Unlisted /\ Unlisted' # Unlisted
      \/ /\ at' = at /\ UNCHANGED records
         /\ index' = index + 1 /\ index' <= Len(records) + 1
<1>0. /\ Stage("proc") = 5 /\ Stage("match") = 4 /\ Stage("open") = 3 /\ Stage("task") = 2
      /\ Stage("take") = 1 /\ Stage("idle") = 0 /\ Stage("crashed") = 0
  BY DEF Stage
<1>1. ASSUME DiscoveryInv, [Next]_vars, at \notin {"idle", "crashed"} PROVE Nearer
  <2>1. ASSUME NEW next, ListEntries(next), Stage(next) < Stage(at), at \in {"proc", "task"}
        PROVE  Nearer
    <3>1. CASE at' = next
      BY <2>1, <3>1
    <3>2. ASSUME NEW t \in Content(directory), Behind(t), records' = Append(records, Id[t]),
                 UNCHANGED at
          PROVE  Nearer
      <4>1. t \in Tasks /\ Listing
        BY <1>1, <2>1 DEF Content, Listing, DiscoveryInv, DiscoveryTypeOK
      <4> QED BY <1>1, <3>2, <4>1, TurnLeavesFewer DEF DiscoveryInv
    <3> QED BY <2>1, <3>1, <3>2 DEF ListEntries
  <2>2. CASE ListProc
    BY <1>0, <2>1, <2>2 DEF ListProc
  <2>3. CASE Match
    <3>1. Len(records) \in Nat /\ index \in Nat
      BY <1>1 DEF DiscoveryInv, DiscoveryTypeOK
    <3> QED BY <2>3, <3>1 DEF Match
  <2>4. CASE Choose
    BY <1>0, <2>4 DEF Choose
  <2>5. CASE OpenTask
    BY <1>0, <2>5 DEF OpenTask
  <2>6. CASE ListTask
    BY <1>0, <2>1, <2>6 DEF ListTask
  <2>7. CASE TakeIds
    BY <1>0, <2>7 DEF TakeIds
  <2>8. ASSUME NEW t \in Tasks, Starts(t) \/ TakesName(t) \/ Exits(t) PROVE Nearer
    BY <2>8 DEF Starts, TakesName, Exits
  <2>9. CASE UNCHANGED vars
    BY <2>9 DEF vars
  <2> QED BY <1>1, <2>2, <2>3, <2>4, <2>5, <2>6, <2>7, <2>8, <2>9 DEF Next, Debugger, Attach
<1>2. DiscoveryInv /\ [Next]_vars => [at \notin {"idle", "crashed"} => Nearer]_vars
  BY <1>1
<1> QED BY <1>2, DiscoveryInvariance, PTL DEF DiscoverySpec, AttachAdvances

=============================================================================
