------------------------ MODULE RegisterCommandsProofs ------------------------
(***************************************************************************)
(* Proofs about write_registers and read_registers, for any threads,       *)
(* registers and requests.                                                 *)
(***************************************************************************)
EXTENDS RegisterCommands, SequenceTheorems, TLAPS

Working == {"read", "write"}

\* Only a call that works has a thread that matters, and once a step of it is
\* done the thread stays stopped, or dead, until the next command.
ThreadInv ==
  /\ call.op = "none" => call.at = "idle" /\ call.next = 1
  /\ call.next > 1 => m_current_tid \in Tids /\ life[m_current_tid] # "running"

\* The keys of the request are distinct.
KeysInv ==
  call.op = "write" =>
    \A i, j \in DOMAIN call.steps :
      Known(call.steps[i]) /\ Known(call.steps[j])
        /\ call.steps[i].name = call.steps[j].name => i = j

\* Between fetching a register set and writing it back, it is what the thread
\* holds.
CopyInv ==
  call.at = "store" =>
    /\ call.op = "write" /\ More
    /\ WriteVerdict(This) = "ok"
    /\ m_current_tid \in Tids /\ life[m_current_tid] # "running"
    /\ call.copy = Holds(m_current_tid, This.section)

\* What read_registers has so far is what the thread holds.
AskedSoFar == UNION {Asked(call.steps[i]) : i \in 1 .. call.next - 1}

ReadInv ==
  call.op = "read" =>
    /\ \A i \in 1 .. call.next - 1 : ReadAccepts(call.steps[i])
    /\ call.result = [r \in AskedSoFar |-> regs[m_current_tid][r]]
    /\ call.status = "ok" => call.next = Len(call.steps) + 1

RegisterInv ==
  /\ TypeOK
  /\ ThreadInv
  /\ KeysInv
  /\ CopyInv
  /\ ReadInv
  /\ WrittenInOrder

-----------------------------------------------------------------------------
(* The operators a request is taken apart with.                            *)

\* A part of a request becomes a sequence of steps.
LEMMA StepsOfType ==
  ASSUME NEW s \in {"GPR", "FPR"}, NEW part \in Part
  PROVE  StepsOf(s, part) \in Seq(Step)
<1>1. CASE part.kind = "list"
  <2> DEFINE step(e) == [section |-> s, kind |-> e.kind, name |-> e.name, number |-> e.number]
  <2>1. part.entries \in Seq(Entry)
    BY <1>1 DEF Part
  <2>2. PICK n \in Nat : part.entries \in [1 .. n -> Entry]
    BY <2>1, SeqDef
  <2>3. \A i \in 1 .. n : step(part.entries[i]) \in Step
    BY <2>2 DEF Entry, Step
  <2>4. [i \in 1 .. n |-> step(part.entries[i])] \in [1 .. n -> Step]
    BY <2>3
  <2>5. StepsOf(s, part) = [i \in 1 .. n |-> step(part.entries[i])]
    BY <1>1, <2>2 DEF StepsOf
  <2> HIDE DEF step
  <2> QED
    BY <2>4, <2>5, SeqDef
<1>2. CASE part.kind = "absent"
  BY <1>2, EmptySeq DEF StepsOf
<1>3. CASE part.kind \in {"malformed", "all"}
  <2>1. [section |-> s, kind |-> part.kind, name |-> None, number |-> 0] \in Step
    BY <1>3 DEF Step
  <2> QED
    BY <1>3, <2>1 DEF StepsOf
<1> QED
  BY <1>1, <1>2, <1>3 DEF Part

\* So does a request.
LEMMA StepsType ==
  ASSUME RegisterCommandsAssumption, NEW q \in Requests
  PROVE  /\ Steps(q) \in Seq(Step)
         /\ q.op \in Working
<1>1. q \in Request
  BY DEF RegisterCommandsAssumption
<1>2. q.GPR \in Part /\ q.FPR \in Part /\ q.op \in Working
  BY <1>1 DEF Request, Working
<1> QED
  BY <1>2, StepsOfType, ConcatProperties DEF Steps

\* A value that has lost its high bits is one its register can hold.
LEMMA ValueType ==
  ASSUME RegisterCommandsAssumption, NEW step \in Step, Known(step)
  PROVE  step.name \in Registers /\ Value(step) \in Values
<1>1. step.name \in Registers /\ step.number \in Nat
  BY DEF Known, Section, Registers, Step
<1>2. Modulus[step.name] \in Nat \ {0}
  BY <1>1 DEF RegisterCommandsAssumption
<1>3. Value(step) \in 0 .. Modulus[step.name] - 1
  BY <1>1, <1>2 DEF Value
<1> QED
  BY <1>1, <1>3 DEF Values

\* Taking some registers of a thread gives a part of a register file.
LEMMA PartialOf ==
  ASSUME TypeOK, NEW t \in Tids, NEW S \in SUBSET Registers
  PROVE  [r \in S |-> regs[t][r]] \in Partial
<1>1. \A r \in S : regs[t][r] \in Values
  BY DEF TypeOK, RegisterFiles
<1>2. [r \in S |-> regs[t][r]] \in [S -> Values]
  BY <1>1
<1> QED
  BY <1>2 DEF Partial

\* The empty answer.
LEMMA EmptyType == Empty \in Partial
<1>1. Empty \in [{} -> Values]
  BY DEF Empty
<1> QED
  BY <1>1 DEF Partial

\* The step a call has reached.
LEMMA ThisType ==
  ASSUME TypeOK, More
  PROVE  This \in Step /\ call.next \in DOMAIN call.steps
<1>1. call.steps \in Seq(Step) /\ call.next \in Nat \ {0}
  BY DEF TypeOK
<1>2. call.next \in 1 .. Len(call.steps)
  BY <1>1, LenProperties DEF More
<1> QED
  BY <1>1, <1>2, ElementOfSeq, LenProperties DEF This

-----------------------------------------------------------------------------
(* The invariant holds at first.                                           *)

LEMMA RegisterInit == ASSUME RegisterCommandsAssumption, Init PROVE RegisterInv
<1>1. call = NoCall /\ m_current_tid = None
  BY DEF Init
<1>2. TypeOK
  <2>1. regs \in [Tids -> RegisterFiles]
    BY DEF Init, RegisterCommandsAssumption
  <2> QED
    BY <1>1, <2>1, EmptyType, EmptySeq DEF Init, TypeOK, NoCall
<1>3. ThreadInv /\ KeysInv /\ CopyInv /\ ReadInv /\ WrittenInOrder
  BY <1>1 DEF NoCall, ThreadInv, KeysInv, CopyInv, ReadInv, WrittenInOrder
<1> QED
  BY <1>2, <1>3 DEF RegisterInv

-----------------------------------------------------------------------------
(* The threads move: a thread that runs is not the one a call depends on.  *)

LEMMA StopsStep ==
  ASSUME RegisterCommandsAssumption, RegisterInv, NEW t \in Tids, Stops(t)
  PROVE  RegisterInv'
<1> USE DEF RegisterInv
<1>1. PICK file \in Files : regs' = [regs EXCEPT ![t] = file]
  BY DEF Stops
<1>2. UNCHANGED <<m_current_tid, call>> /\ life[t] = "running"
      /\ life' = [life EXCEPT ![t] = "stopped"]
  BY DEF Stops
<1>3. TypeOK'
  BY <1>1, <1>2 DEF TypeOK, RegisterCommandsAssumption
<1>4. /\ call.next > 1 => /\ m_current_tid \in Tids
                          /\ regs'[m_current_tid] = regs[m_current_tid]
                          /\ life'[m_current_tid] # "running"
      /\ call.at = "store" => /\ m_current_tid \in Tids
                              /\ regs'[m_current_tid] = regs[m_current_tid]
                              /\ life'[m_current_tid] # "running"
  BY <1>1, <1>2 DEF TypeOK, ThreadInv, CopyInv
<1>5. ThreadInv' /\ KeysInv'
  BY <1>2, <1>4 DEF ThreadInv, KeysInv, Known
<1>6. CopyInv'
  BY <1>2, <1>4 DEF CopyInv, More, This, WriteVerdict, Known, Holds
<1>7. CASE call.next > 1
  BY <1>2, <1>4, <1>5, <1>6, <1>3, <1>7
     DEF ReadInv, WrittenInOrder, AskedSoFar, ReadAccepts, Asked, Known, Value
<1>8. CASE call.next = 1
  BY <1>2, <1>5, <1>6, <1>3, <1>8
     DEF ReadInv, WrittenInOrder, AskedSoFar, ReadAccepts, Asked, Known, Value
<1> QED
  BY <1>7, <1>8 DEF TypeOK

LEMMA DiesStep ==
  ASSUME RegisterInv, NEW t \in Tids, Dies(t)
  PROVE  RegisterInv'
<1> USE DEF RegisterInv, Dies
<1>1. TypeOK' /\ ThreadInv' /\ KeysInv'
  BY DEF TypeOK, ThreadInv, KeysInv, Known
<1>2. CopyInv'
  BY DEF TypeOK, CopyInv, More, This, WriteVerdict, Known, Holds
<1>3. ReadInv' /\ WrittenInOrder'
  BY DEF ReadInv, WrittenInOrder, AskedSoFar, ReadAccepts, Asked, Known, Value
<1> QED
  BY <1>1, <1>2, <1>3

-----------------------------------------------------------------------------
(* A call begins, or is forgotten for another command.                     *)

LEMMA NoCallInv ==
  ASSUME call' = NoCall, TypeOK, m_current_tid' \in Tids \cup {None},
         life' \in [Tids -> {"running", "stopped", "dead"}], UNCHANGED regs
  PROVE  RegisterInv'
<1>1. TypeOK'
  BY EmptyType, EmptySeq DEF TypeOK, NoCall
<1>2. ThreadInv' /\ KeysInv' /\ CopyInv' /\ ReadInv' /\ WrittenInOrder'
  BY DEF NoCall, ThreadInv, KeysInv, CopyInv, ReadInv, WrittenInOrder
<1> QED
  BY <1>1, <1>2 DEF RegisterInv

LEMMA OtherCommandStep ==
  ASSUME RegisterInv, NEW t \in Tids, LetRun(t) \/ Select(t)
  PROVE  RegisterInv'
<1>1. /\ TypeOK /\ call' = NoCall /\ UNCHANGED regs
      /\ m_current_tid' \in Tids \cup {None}
      /\ life' \in [Tids -> {"running", "stopped", "dead"}]
  BY DEF RegisterInv, TypeOK, LetRun, Select
<1> QED
  BY <1>1, NoCallInv

LEMMA BeginStep ==
  ASSUME RegisterCommandsAssumption, RegisterInv, NEW q \in Requests, Begin(q)
  PROVE  RegisterInv'
<1>1. /\ call' = [op |-> q.op, steps |-> Steps(q), next |-> 1, at |-> "fetch",
                  copy |-> Empty, result |-> Empty, status |-> "none"]
      /\ UNCHANGED <<m_current_tid, life, regs>>
  BY DEF Begin, NoCall
<1>2. Steps(q) \in Seq(Step) /\ q.op \in Working
  BY StepsType
<1>3. TypeOK'
  <2>1. Len(Steps(q)) \in Nat
    BY <1>2, LenProperties
  <2> QED
    BY <1>1, <1>2, <2>1, EmptyType DEF RegisterInv, TypeOK, Working
<1>4. KeysInv'
  BY <1>1 DEF KeysInv, RegisterCommandsAssumption, Known
<1>5. ThreadInv' /\ CopyInv' /\ WrittenInOrder'
  BY <1>1, <1>2 DEF ThreadInv, CopyInv, WrittenInOrder, Working
<1>6. ReadInv'
  BY <1>1 DEF ReadInv, AskedSoFar, Empty
<1> QED
  BY <1>3, <1>4, <1>5, <1>6 DEF RegisterInv

-----------------------------------------------------------------------------
(* A call ends.                                                            *)

LEMMA GiveUpInv ==
  ASSUME RegisterInv, call.at # "idle", UNCHANGED <<m_current_tid, life, regs>>,
         NEW status \in {"fail", "error"}, GiveUp(status)
  PROVE  RegisterInv'
<1> USE DEF RegisterInv, GiveUp
<1>1. TypeOK'
  BY EmptyType DEF TypeOK
<1>2. /\ call'.op = call.op /\ call'.steps = call.steps /\ call'.next = call.next
      /\ call'.at = "idle" /\ call'.result = call.result /\ call'.status = status
  BY DEF TypeOK
<1>3. ThreadInv' /\ KeysInv' /\ CopyInv'
  BY <1>2 DEF ThreadInv, KeysInv, CopyInv, Known
<1>4. ReadInv' /\ WrittenInOrder'
  BY <1>2 DEF ReadInv, WrittenInOrder, AskedSoFar, ReadAccepts, Asked, Known, Value
<1> QED
  BY <1>1, <1>3, <1>4

LEMMA DoneStep == ASSUME RegisterInv, Done PROVE RegisterInv'
<1> USE DEF RegisterInv, Done
<1>1. TypeOK'
  BY DEF TypeOK
<1>2. /\ call'.op = call.op /\ call'.steps = call.steps /\ call'.next = call.next
      /\ call'.at = "idle" /\ call'.result = call.result
  BY DEF TypeOK
<1>3. ThreadInv' /\ KeysInv' /\ CopyInv'
  BY <1>2 DEF ThreadInv, KeysInv, CopyInv, Known
<1>4. call.next = Len(call.steps) + 1
  <2>1. Len(call.steps) \in Nat
    BY LenProperties DEF TypeOK
  <2> QED
    BY <2>1 DEF TypeOK, More
<1>5. ReadInv' /\ WrittenInOrder'
  BY <1>2, <1>4 DEF ReadInv, WrittenInOrder, AskedSoFar, ReadAccepts, Asked, Known, Value
<1> QED
  BY <1>1, <1>3, <1>5

-----------------------------------------------------------------------------
(* A register is written.                                                  *)

LEMMA WriteRefusesStep == ASSUME RegisterInv, WriteRefuses PROVE RegisterInv'
<1>1. WriteVerdict(This) \in {"fail", "error"}
  BY DEF WriteRefuses, WriteVerdict
<1> QED
  BY <1>1, GiveUpInv DEF WriteRefuses, At

LEMMA WriteFetchesStep ==
  ASSUME RegisterCommandsAssumption, RegisterInv, WriteFetches
  PROVE  RegisterInv'
<1>1. CASE ~Accessible
  BY <1>1, GiveUpInv DEF WriteFetches, At
<1>2. CASE Accessible
  <2> USE DEF RegisterInv
  <2>1. /\ call' = [call EXCEPT !.at = "store", !.copy = Holds(m_current_tid, This.section)]
        /\ call.op = "write" /\ More /\ WriteVerdict(This) = "ok"
        /\ UNCHANGED <<m_current_tid, life, regs>>
    BY <1>2 DEF WriteFetches, At
  <2>2. m_current_tid \in Tids /\ life[m_current_tid] # "running"
    BY <1>2 DEF Accessible, TypeOK
  <2>3. Holds(m_current_tid, This.section) \in Partial
    <3>1. Section(This.section) \in SUBSET Registers
      BY DEF Section, Registers
    <3> QED
      BY <2>2, <3>1, PartialOf DEF Holds
  <2>4. TypeOK'
    BY <2>1, <2>3 DEF TypeOK
  <2>5. /\ call'.op = call.op /\ call'.steps = call.steps /\ call'.next = call.next
        /\ call'.at = "store" /\ call'.result = call.result /\ call'.status = call.status
        /\ call'.copy = Holds(m_current_tid, This.section)
    BY <2>1 DEF TypeOK
  <2>6. ThreadInv' /\ KeysInv' /\ ReadInv'
    BY <2>1, <2>2, <2>5 DEF ThreadInv, KeysInv, ReadInv, Known
  <2>7. CopyInv'
    BY <2>1, <2>2, <2>5 DEF CopyInv, More, This, WriteVerdict, Known, Holds
  <2>8. WrittenInOrder'
    BY <2>1, <2>5 DEF WrittenInOrder, Known, Value
  <2> QED
    BY <2>4, <2>6, <2>7, <2>8
<1> QED
  BY <1>1, <1>2

\* What the kernel accepts changes one register of the current thread.
LEMMA StoreEffect ==
  ASSUME RegisterCommandsAssumption, RegisterInv, At("write", "store"),
         regs' = [regs EXCEPT ![m_current_tid] =
                    [r \in Registers |-> IF r \in DOMAIN Changed(call.copy, This)
                                         THEN Changed(call.copy, This)[r] ELSE @[r]]]
  PROVE  /\ m_current_tid \in Tids /\ This.name \in Registers /\ Known(This)
         /\ This \in Step
         /\ regs' = [regs EXCEPT ![m_current_tid] =
                       [regs[m_current_tid] EXCEPT ![This.name] = Value(This)]]
<1>1. /\ More /\ WriteVerdict(This) = "ok" /\ m_current_tid \in Tids
      /\ call.copy = Holds(m_current_tid, This.section)
  BY DEF RegisterInv, CopyInv, At
<1>2. This \in Step /\ Known(This)
  BY <1>1, ThisType DEF RegisterInv, WriteVerdict
<1>3. This.name \in Section(This.section) /\ This.name \in Registers
  BY <1>2, ValueType DEF Known
<1>4. DOMAIN Changed(call.copy, This) = Section(This.section)
  BY <1>1 DEF Changed, Holds
<1>5. Section(This.section) \subseteq Registers
  BY DEF Section, Registers
<1>6. \A r \in Section(This.section) :
        Changed(call.copy, This)[r] =
          IF r = This.name THEN Value(This) ELSE regs[m_current_tid][r]
  BY <1>1 DEF Changed, Holds
<1>7. regs[m_current_tid] \in [Registers -> Values]
  BY <1>1 DEF RegisterInv, TypeOK, RegisterFiles
<1>8. [r \in Registers |-> IF r \in DOMAIN Changed(call.copy, This)
                           THEN Changed(call.copy, This)[r] ELSE regs[m_current_tid][r]]
      = [regs[m_current_tid] EXCEPT ![This.name] = Value(This)]
  BY <1>3, <1>4, <1>5, <1>6, <1>7
<1> QED
  BY <1>1, <1>2, <1>3, <1>8

LEMMA WriteStoresStep ==
  ASSUME RegisterCommandsAssumption, RegisterInv, WriteStores
  PROVE  RegisterInv'
<1>1. CASE ~(Accessible /\ ~KernelRefuses(Changed(call.copy, This)))
  BY <1>1, GiveUpInv DEF WriteStores, At
<1>2. CASE Accessible /\ ~KernelRefuses(Changed(call.copy, This))
  <2> USE DEF RegisterInv
  <2>1. /\ call' = [call EXCEPT !.at = "fetch", !.next = @ + 1, !.copy = Empty]
        /\ call.op = "write" /\ call.at = "store" /\ More
        /\ UNCHANGED <<m_current_tid, life>>
    BY <1>2 DEF WriteStores, At, CopyInv
  <2>2. /\ m_current_tid \in Tids /\ This.name \in Registers /\ Known(This)
        /\ This \in Step
        /\ regs' = [regs EXCEPT ![m_current_tid] =
                      [regs[m_current_tid] EXCEPT ![This.name] = Value(This)]]
    BY <1>2, StoreEffect DEF WriteStores
  <2>3. Value(This) \in Values
    BY <2>2, ValueType
  <2>4. regs[m_current_tid] \in [Registers -> Values]
    BY <2>2 DEF TypeOK, RegisterFiles
  <2>5. call.next \in DOMAIN call.steps /\ call.next \in 1 .. Len(call.steps)
        /\ Len(call.steps) \in Nat
    BY <2>1, ThisType, LenProperties DEF TypeOK
  <2>6. /\ call'.op = call.op /\ call'.steps = call.steps /\ call'.next = call.next + 1
        /\ call'.at = "fetch" /\ call'.result = call.result /\ call'.status = call.status
    BY <2>1 DEF TypeOK
  <2>7. TypeOK'
    <3>1. regs' \in [Tids -> RegisterFiles]
      BY <2>2, <2>3, <2>4 DEF TypeOK, RegisterFiles
    <3>2. call.next + 1 \in Nat \ {0} /\ call.next + 1 <= Len(call.steps) + 1
      BY <2>5
    <3>3. call'.next <= Len(call'.steps) + 1
      BY <2>6, <3>2
    <3> QED
      BY <2>1, <3>1, <3>2, <3>3, EmptyType DEF TypeOK
  <2>8. ThreadInv' /\ KeysInv' /\ CopyInv' /\ ReadInv'
    BY <2>1, <2>2, <2>6 DEF ThreadInv, KeysInv, CopyInv, ReadInv, Known
  <2>9. WrittenInOrder'
    <3>1. regs'[m_current_tid] = [regs[m_current_tid] EXCEPT ![This.name] = Value(This)]
      BY <2>2 DEF TypeOK
    <3>2. ASSUME NEW i \in 1 .. call.next
          PROVE  /\ Known(call.steps[i])
                 /\ regs'[m_current_tid][call.steps[i].name] = Value(call.steps[i])
      <4>1. CASE i = call.next
        BY <2>2, <2>4, <3>1, <4>1 DEF This
      <4>2. CASE i # call.next
        <5>1. i \in 1 .. call.next - 1 /\ i \in DOMAIN call.steps
          BY <2>5, <4>2, LenProperties DEF TypeOK
        <5>2. /\ Known(call.steps[i])
              /\ regs[m_current_tid][call.steps[i].name] = Value(call.steps[i])
          BY <2>1, <5>1 DEF WrittenInOrder
        <5>3. call.steps[i].name # This.name
          BY <2>1, <2>2, <2>5, <4>2, <5>1, <5>2 DEF KeysInv, This
        <5>4. call.steps[i].name \in Registers
          BY <5>2 DEF Known, Section, Registers
        <5> QED
          BY <2>4, <3>1, <5>2, <5>3, <5>4
      <4> QED
        BY <4>1, <4>2
    <3>3. call.status # "ok"
      BY <2>1, <2>5 DEF WrittenInOrder, TypeOK
    <3>4. call'.next - 1 = call.next
      BY <2>6 DEF TypeOK
    <3> QED
      BY <2>1, <2>6, <3>2, <3>3, <3>4 DEF WrittenInOrder, Known, Value
  <2> QED
    BY <2>7, <2>8, <2>9
<1> QED
  BY <1>1, <1>2

-----------------------------------------------------------------------------
(* Registers are read.                                                     *)

LEMMA ReadRefusesStep == ASSUME RegisterInv, ReadRefuses PROVE RegisterInv'
  BY GiveUpInv DEF ReadRefuses, At

\* What the steps done ask for are registers.
LEMMA AskedType ==
  ASSUME RegisterInv, call.op = "read"
  PROVE  AskedSoFar \subseteq Registers
  BY DEF RegisterInv, ReadInv, AskedSoFar, ReadAccepts, Asked, Known, Section, Registers

LEMMA ReadFetchesStep ==
  ASSUME RegisterInv, ReadFetches
  PROVE  RegisterInv'
<1>1. CASE ~Accessible
  BY <1>1, GiveUpInv DEF ReadFetches, At
<1>2. CASE Accessible
  <2> USE DEF RegisterInv
  <2>1. /\ call' = [call EXCEPT
             !.next = @ + 1,
             !.result = [r \in DOMAIN @ \cup Asked(This) |->
                           IF r \in Asked(This) THEN regs[m_current_tid][r] ELSE @[r]]]
        /\ call.op = "read" /\ call.at = "fetch" /\ More /\ ReadAccepts(This)
        /\ UNCHANGED <<m_current_tid, life, regs>>
    BY <1>2 DEF ReadFetches, At
  <2>2. m_current_tid \in Tids /\ life[m_current_tid] # "running"
    BY <1>2 DEF Accessible, TypeOK
  <2>3. /\ call.next \in 1 .. Len(call.steps) /\ Len(call.steps) \in Nat
    BY <2>1, ThisType, LenProperties DEF TypeOK
  <2>4. call.result = [r \in AskedSoFar |-> regs[m_current_tid][r]]
    BY <2>1 DEF ReadInv
  <2> DEFINE all == AskedSoFar \cup Asked(This)
  <2>5. [r \in DOMAIN call.result \cup Asked(This) |->
           IF r \in Asked(This) THEN regs[m_current_tid][r] ELSE call.result[r]]
        = [r \in all |-> regs[m_current_tid][r]]
    BY <2>4
  <2>6. /\ call'.op = call.op /\ call'.steps = call.steps /\ call'.next = call.next + 1
        /\ call'.at = "fetch" /\ call'.copy = call.copy /\ call'.status = call.status
        /\ call'.result = [r \in all |-> regs[m_current_tid][r]]
    BY <2>1, <2>5 DEF TypeOK
  <2>7. all \subseteq Registers
    BY <2>1, AskedType DEF ReadAccepts, Asked, Known, Section, Registers
  <2>8. TypeOK'
    <3>1. call.next + 1 \in Nat \ {0} /\ call.next + 1 <= Len(call.steps) + 1
      BY <2>3
    <3>2. [r \in all |-> regs[m_current_tid][r]] \in Partial
      BY <2>2, <2>7, PartialOf
    <3>3. call'.next <= Len(call'.steps) + 1
      BY <2>6, <3>1
    <3> HIDE DEF all
    <3>4. call' = [call EXCEPT !.next = call.next + 1,
                               !.result = [r \in all |-> regs[m_current_tid][r]]]
      BY <2>1, <2>5 DEF TypeOK
    <3> QED
      BY <2>1, <3>1, <3>2, <3>3, <3>4 DEF TypeOK
  <2>9. ThreadInv' /\ KeysInv' /\ CopyInv' /\ WrittenInOrder'
    BY <2>1, <2>2, <2>6 DEF ThreadInv, KeysInv, CopyInv, WrittenInOrder, Known
  <2>10. ReadInv'
    <3>1. call'.next - 1 = call.next /\ 1 .. call.next = 1 .. call.next - 1 \cup {call.next}
      BY <2>3, <2>6
    <3>2. AskedSoFar' = all
      BY <2>6, <3>1 DEF AskedSoFar, Asked, This
    <3>3. \A i \in 1 .. call.next : ReadAccepts(call.steps[i])
      BY <2>1, <3>1 DEF ReadInv, This
    <3>4. call.status # "ok"
      BY <2>1, <2>3 DEF ReadInv
    <3> HIDE DEF all
    <3> QED
      BY <2>1, <2>6, <3>1, <3>2, <3>3, <3>4 DEF ReadInv, ReadAccepts, Known
  <2> QED
    BY <2>8, <2>9, <2>10
<1> QED
  BY <1>1, <1>2

-----------------------------------------------------------------------------
(* Every step, and the theorems.                                           *)

LEMMA RegisterNext ==
  ASSUME RegisterCommandsAssumption, RegisterInv, [Next]_vars
  PROVE  RegisterInv'
<1>1. ASSUME NEW q \in Requests, Begin(q) PROVE RegisterInv'
  BY <1>1, BeginStep
<1>2. ASSUME WriteRefuses \/ WriteFetches \/ WriteStores PROVE RegisterInv'
  BY <1>2, WriteRefusesStep, WriteFetchesStep, WriteStoresStep
<1>3. ASSUME ReadRefuses \/ ReadFetches \/ Done PROVE RegisterInv'
  BY <1>3, ReadRefusesStep, ReadFetchesStep, DoneStep
<1>4. ASSUME NEW t \in Tids, Stops(t) \/ Dies(t) \/ LetRun(t) \/ Select(t)
      PROVE  RegisterInv'
  BY <1>4, StopsStep, DiesStep, OtherCommandStep
<1>5. CASE UNCHANGED vars
  BY <1>5 DEF vars, RegisterInv, TypeOK, ThreadInv, KeysInv, CopyInv, ReadInv, WrittenInOrder,
     AskedSoFar, Asked, ReadAccepts, WriteVerdict, Known, Value, Holds, More, This
<1> QED
  BY <1>1, <1>2, <1>3, <1>4, <1>5 DEF Next

\* The inductive invariant holds of every behaviour.
THEOREM RegisterInvariant == Spec => []RegisterInv
<1>1. Init => RegisterInv
  BY RegisterInit, RegisterCommandsAssumption
<1>2. RegisterInv /\ [Next]_vars => RegisterInv'
  BY RegisterNext, RegisterCommandsAssumption
<1> QED
  BY <1>1, <1>2, PTL DEF Spec

\* The variables of the commands and of the target keep their types (TypeOK).
THEOREM RegisterTypeCorrect == Spec => []TypeOK
<1>1. RegisterInv => TypeOK
  BY DEF RegisterInv
<1> QED
  BY <1>1, RegisterInvariant, PTL

\* What write_registers has done so far, and at its answer, is what was asked
\* for, in order and without a gap (WrittenInOrder).
THEOREM WritesInOrder == Spec => []WrittenInOrder
<1>1. RegisterInv => WrittenInOrder
  BY DEF RegisterInv
<1> QED
  BY <1>1, RegisterInvariant, PTL

\* A successful answer of read_registers is one moment of one thread
\* (ReadIsSnapshot).
THEOREM ReadsAreSnapshots == Spec => []ReadIsSnapshot
<1>1. ASSUME RegisterInv PROVE ReadIsSnapshot
  <2>1. SUFFICES ASSUME call.op = "read", call.status = "ok"
                 PROVE  call.result =
                          [r \in UNION {Asked(call.steps[i]) : i \in DOMAIN call.steps} |->
                             regs[m_current_tid][r]]
    BY DEF ReadIsSnapshot
  <2>2. call.next = Len(call.steps) + 1
    BY <1>1, <2>1 DEF RegisterInv, ReadInv
  <2>3. Len(call.steps) \in Nat /\ DOMAIN call.steps = 1 .. Len(call.steps)
    BY <1>1, LenProperties DEF RegisterInv, TypeOK
  <2>4. 1 .. call.next - 1 = DOMAIN call.steps
    BY <2>2, <2>3
  <2> QED
    BY <1>1, <2>1, <2>4 DEF RegisterInv, ReadInv, AskedSoFar
<1> QED
  BY <1>1, RegisterInvariant, PTL

\* Writing a register set back changes one register of one thread, to the value
\* asked for (OnlyTheNamedRegister).
THEOREM WritesOneRegister == Spec => OnlyTheNamedRegister
<1> DEFINE Narrow ==
      \A t \in Tids : \A r \in Registers :
        regs'[t][r] # regs[t][r] =>
          \/ life[t] = "running"
          \/ /\ t = m_current_tid /\ At("write", "store")
             /\ r = This.name /\ regs'[t][r] = Value(This)
<1>1. ASSUME RegisterInv, [Next]_vars PROVE [Narrow]_vars
  <2>1. ASSUME NEW t \in Tids, Stops(t) PROVE Narrow
    BY <1>1, <2>1 DEF Stops, RegisterInv, TypeOK
  <2>2. ASSUME WriteStores PROVE Narrow
    <3>1. CASE UNCHANGED regs
      BY <3>1
    <3>2. CASE ~UNCHANGED regs
      <4>1. At("write", "store")
            /\ regs' = [regs EXCEPT ![m_current_tid] =
                    [r \in Registers |-> IF r \in DOMAIN Changed(call.copy, This)
                                         THEN Changed(call.copy, This)[r] ELSE @[r]]]
        BY <2>2, <3>2 DEF WriteStores
      <4>2. /\ m_current_tid \in Tids
            /\ regs' = [regs EXCEPT ![m_current_tid] =
                          [regs[m_current_tid] EXCEPT ![This.name] = Value(This)]]
        BY <1>1, <4>1, StoreEffect, RegisterCommandsAssumption
      <4>3. regs \in [Tids -> [Registers -> Values]]
        BY <1>1 DEF RegisterInv, TypeOK, RegisterFiles
      <4> QED
        BY <4>1, <4>2, <4>3
    <3> QED
      BY <3>1, <3>2
  <2>3. ASSUME UNCHANGED regs PROVE Narrow
    BY <2>3
  <2>4. CASE UNCHANGED vars
    BY <2>4
  <2>5. CASE Next
    BY <2>1, <2>2, <2>3, <2>5
       DEF Next, Begin, WriteRefuses, WriteFetches, ReadRefuses, ReadFetches, Done,
           Dies, LetRun, Select
  <2> QED
    BY <1>1, <2>4, <2>5
<1>2. [][Narrow]_vars <=> OnlyTheNamedRegister
  BY DEF OnlyTheNamedRegister
<1> QED
  BY <1>1, <1>2, RegisterInvariant, PTL DEF Spec

\* Requests are worked through from the first entry to the last, whatever their
\* length and whatever becomes of the thread (CallsAdvance).
THEOREM RequestsGoOn == Spec => CallsAdvance
<1> DEFINE Nearer ==
      \/ UNCHANGED call
      \/ /\ call'.op = call.op /\ call'.steps = call.steps
         /\ \/ call'.at = "idle" /\ call'.status # "none" /\ call'.next = call.next
            \/ call.at = "fetch" /\ call'.at = "store" /\ call'.next = call.next
            \/ /\ call'.at = "fetch" /\ call'.next = call.next + 1
               /\ call'.next <= Len(call.steps) + 1
<1>1. ASSUME RegisterInv, [Next]_vars, call.at # "idle" PROVE Nearer
  <2>0. /\ call \in [op : {"none", "read", "write"}, steps : Seq(Step), next : Nat \ {0},
                     at : {"idle", "fetch", "store"}, copy : Partial, result : Partial,
                     status : {"none", "ok", "fail", "error"}]
        /\ call.next \in Nat /\ Len(call.steps) \in Nat
    BY <1>1, LenProperties DEF RegisterInv, TypeOK
  <2>1. ASSUME NEW status \in {"ok", "fail", "error"}, GiveUp(status) PROVE Nearer
    BY <2>0, <2>1 DEF GiveUp
  <2>2. CASE WriteRefuses
    BY <2>1, <2>2 DEF WriteRefuses, WriteVerdict
  <2>3. CASE WriteFetches
    BY <2>0, <2>1, <2>3 DEF WriteFetches, At
  <2>4. CASE WriteStores
    <3>1. CASE UNCHANGED regs /\ GiveUp("fail")
      BY <2>1, <3>1
    <3>2. CASE call' = [call EXCEPT !.at = "fetch", !.next = @ + 1, !.copy = Empty]
      <4>1. At("write", "store") /\ call.next <= Len(call.steps)
        BY <1>1, <2>4 DEF WriteStores, At, RegisterInv, CopyInv, More
      <4> QED BY <2>0, <3>2, <4>1
    <3> QED BY <2>4, <3>1, <3>2 DEF WriteStores
  <2>5. CASE ReadRefuses
    BY <2>1, <2>5 DEF ReadRefuses
  <2>6. CASE ReadFetches
    <3>1. At("read", "fetch") /\ call.next <= Len(call.steps)
      BY <2>6 DEF ReadFetches, More
    <3>2. CASE GiveUp("fail")
      BY <2>1, <3>2
    <3>3. CASE Accessible
      <4>1. PICK result : call' = [call EXCEPT !.next = @ + 1, !.result = result]
        BY <2>6, <3>3 DEF ReadFetches
      <4>2. /\ call'.op = call.op /\ call'.steps = call.steps /\ call'.at = call.at
            /\ call'.next = call.next + 1
        BY <2>0, <4>1
      <4> QED BY <2>0, <3>1, <4>2 DEF At
    <3> QED BY <2>6, <3>2, <3>3 DEF ReadFetches
  <2>7. CASE Done
    BY <2>0, <2>7 DEF Done
  <2>8. ASSUME NEW q \in Requests PROVE ~Begin(q)
    BY <1>1 DEF Begin
  <2>9. ASSUME NEW t \in Tids, Stops(t) \/ Dies(t) \/ LetRun(t) \/ Select(t) PROVE Nearer
    BY <1>1, <2>9 DEF Stops, Dies, LetRun, Select
  <2>10. CASE UNCHANGED vars
    BY <2>10 DEF vars
  <2> QED BY <1>1, <2>2, <2>3, <2>4, <2>5, <2>6, <2>7, <2>8, <2>9, <2>10 DEF Next
<1>2. RegisterInv /\ [Next]_vars => [call.at # "idle" => Nearer]_vars
  BY <1>1
<1> QED BY <1>2, RegisterInvariant, PTL DEF Spec, CallsAdvance

=============================================================================
