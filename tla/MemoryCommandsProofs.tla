------------------------ MODULE MemoryCommandsProofs ------------------------
(***************************************************************************)
(* Proofs that MemoryCommands moves what was asked for and nothing else,   *)
(* for memory of any size and layout and words of any size.                *)
(***************************************************************************)
EXTENDS MemoryCommands, TLAPS

(***************************************************************************)
(* The inductive invariant: what a transfer has moved so far.              *)
(***************************************************************************)
Prefix(k) ==
  /\ call.address .. call.address + k - 1 \subseteq Mapped
  /\ \A i \in Offsets :
       IF i < k THEN Quiet(call.address + i) => buffer[i] = memory[call.address + i]
       ELSE buffer[i] = Zero

Gone == ~opened \/ mode = "gone"

ReadSoFar ==
  call.op = "read" =>
    /\ call.at = "vm" => Prefix(call.done)
    /\ call.at = "ptrace" =>
         /\ \E k \in call.done .. call.size : Prefix(k)
         /\ Range \subseteq Open => Gone

WrittenSoFar ==
  call.op = "write" =>
    /\ call.at = "vm" =>
         \A i \in 0 .. call.done - 1 :
           /\ call.address + i \in Open
           /\ Quiet(call.address + i) => memory[call.address + i] = i
    /\ call.at = "ptrace" =>
         /\ \A i \in 0 .. call.done - 1 :
              /\ call.address + i \in Mapped
              /\ Quiet(call.address + i) => memory[call.address + i] = Pointer
         /\ Range \subseteq Open => Gone /\ call.done < call.size

MemoryInv ==
  /\ MemoryTypeOK
  /\ OnlyTheRange
  /\ ReadSoFar
  /\ WrittenSoFar
  /\ ReadIsPrefix
  /\ WriteLands

\* The request of a command does not change while it is under way.
SameRequest ==
  /\ call'.op = call.op /\ call'.address = call.address /\ call'.size = call.size

-----------------------------------------------------------------------------
(* What the steps of a transfer do.                                        *)

\* The fields of the command under way after each kind of step.
LEMMA CallFacts ==
  ASSUME MemoryTypeOK
  PROVE  /\ call.address \in Nat /\ call.size \in Nat /\ call.done \in 0 .. call.size
         /\ Left \in Nat /\ Here = call.address + call.done
         /\ \A i \in Offsets : i \in Nat /\ i < call.size
<1>1. /\ call.address \in Units /\ call.size \in 0 .. MaxSize
      /\ call.done \in 0 .. MaxSize /\ call.done <= call.size
  BY DEF MemoryTypeOK
<1>2. call.address \in Nat /\ MaxSize \in Nat
  BY <1>1, MemoryConstants
<1> QED
  BY <1>1, <1>2 DEF Left, Here, Offsets

\* The count grows by at least one unit and never past the request.
LEMMA AdvanceFacts ==
  ASSUME MemoryTypeOK, Left > 0, Advance
  PROVE  /\ SameRequest /\ call'.at = call.at
         /\ call'.done \in 0 .. call.size
         /\ call.done < call'.done /\ call'.done <= call.done + WordSize
         /\ call'.done = call.size \/ call'.done = call.done + WordSize
         /\ call' \in [op : {"read", "write"}, address : Units, size : 0 .. MaxSize,
                       at : {"idle", "vm", "ptrace"}, done : 0 .. MaxSize]
<1> DEFINE next == IF Left < WordSize THEN call.done + Left ELSE call.done + WordSize
<1>1. call.done \in Nat /\ call.size \in 0 .. MaxSize /\ MaxSize \in Nat /\ WordSize \in Nat \ {0}
  BY MemoryConstants DEF MemoryTypeOK
<1>2. /\ next \in 0 .. call.size /\ call.done < next /\ next <= call.done + WordSize
      /\ next = call.size \/ next = call.done + WordSize
  BY <1>1 DEF Left
<1>3. next \in 0 .. MaxSize
  BY <1>1, <1>2
<1>4. call' = [call EXCEPT !.done = next]
  BY DEF Advance
<1> HIDE DEF next
<1>5. /\ SameRequest /\ call'.at = call.at /\ call'.done = next
      /\ call' \in [op : {"read", "write"}, address : Units, size : 0 .. MaxSize,
                    at : {"idle", "vm", "ptrace"}, done : 0 .. MaxSize]
  BY <1>3, <1>4 DEF MemoryTypeOK, SameRequest
<1> QED
  BY <1>2, <1>5

\* Moving one unit.
LEMMA OneUnitFacts ==
  ASSUME MemoryTypeOK, Left > 0, call' = [call EXCEPT !.done = @ + 1]
  PROVE  /\ SameRequest /\ call'.at = call.at
         /\ call'.done = call.done + 1 /\ call'.done <= call.size
         /\ call' \in [op : {"read", "write"}, address : Units, size : 0 .. MaxSize,
                       at : {"idle", "vm", "ptrace"}, done : 0 .. MaxSize]
<1>1. call.done \in Nat /\ call.size \in 0 .. MaxSize /\ MaxSize \in Nat
  BY MemoryConstants DEF MemoryTypeOK
<1>2. call.done + 1 \in 0 .. call.size /\ call.done + 1 \in 0 .. MaxSize
  BY <1>1 DEF Left
<1> QED
  BY <1>1, <1>2 DEF MemoryTypeOK, SameRequest

\* Ending a command.
LEMMA EndFacts ==
  ASSUME MemoryTypeOK, call' = [call EXCEPT !.at = "idle"]
  PROVE  /\ SameRequest /\ call'.at = "idle" /\ call'.done = call.done
         /\ call' \in [op : {"read", "write"}, address : Units, size : 0 .. MaxSize,
                       at : {"idle", "vm", "ptrace"}, done : 0 .. MaxSize]
  BY DEF MemoryTypeOK, SameRequest

\* Going over to ptrace.
LEMMA StartAgainFacts ==
  ASSUME MemoryTypeOK, call' = [call EXCEPT !.at = "ptrace", !.done = 0]
  PROVE  /\ SameRequest /\ call'.at = "ptrace" /\ call'.done = 0
         /\ call' \in [op : {"read", "write"}, address : Units, size : 0 .. MaxSize,
                       at : {"idle", "vm", "ptrace"}, done : 0 .. MaxSize]
<1>1. 0 \in 0 .. MaxSize
  BY MemoryConstants
<1> QED
  BY <1>1 DEF MemoryTypeOK, SameRequest

\* A word that is reached in full is mapped, and so is what is reached of one.
LEMMA ReachedFacts ==
  ASSUME MemoryTypeOK
  PROVE  /\ Reached \subseteq Word \cap Mapped
         /\ Word \subseteq call.address + call.done .. call.address + call.done + WordSize - 1
<1>1. Here \in Nat
  BY CallFacts
<1>2. \A u \in Word : u \in Here .. u
  BY <1>1, MemoryConstants DEF Word
<1> QED
  BY <1>2 DEF Reached, Word, Here

-----------------------------------------------------------------------------
(* Typing.                                                                 *)

\* A step keeps the state well typed.
LEMMA TypeStep ==
  ASSUME MemoryTypeOK, Next
  PROVE  MemoryTypeOK'
<1> USE MemoryConstants
<1> DEFINE Calls == [op : {"read", "write"}, address : Units, size : 0 .. MaxSize,
                     at : {"idle", "vm", "ptrace"}, done : 0 .. MaxSize]
<1>1. ASSUME NEW u \in Shared, TargetWrites(u) PROVE MemoryTypeOK'
  BY <1>1 DEF TargetWrites, MemoryTypeOK, Values
<1>2. ASSUME NEW to \in {"stopped", "running", "gone"}, MainThread(to) PROVE MemoryTypeOK'
  BY <1>2 DEF MainThread, MemoryTypeOK
<1>3. ASSUME Kill PROVE MemoryTypeOK'
  BY <1>3 DEF Kill, MemoryTypeOK
<1>4. ASSUME NEW op \in {"read", "write"}, NEW a \in Units, NEW n \in 0 .. MaxSize,
             Begin(op, a, n)
      PROVE  MemoryTypeOK'
  <2>1. PICK at \in {"idle", "vm", "ptrace"} :
          call' = [op |-> op, address |-> a, size |-> n, done |-> 0, at |-> at]
    BY <1>4 DEF Begin
  <2>2. /\ call' \in Calls /\ call'.done = 0 /\ call'.size = n
    BY <2>1
  <2>3. buffer' \in [0 .. n - 1 -> Values]
    BY <1>4 DEF Begin, Values
  <2>4. calls' \in 0 .. MaxCalls
    BY <1>4 DEF Begin, MemoryTypeOK
  <2>5. /\ UNCHANGED <<memory, mode, opened>> /\ answer' \in {"fail", "none"}
        /\ before' = memory /\ changed' = {}
    BY <1>4 DEF Begin
  <2> QED
    BY <2>2, <2>3, <2>4, <2>5 DEF MemoryTypeOK
<1>5. ASSUME VmDone \/ PtraceDone \/ PeekFails PROVE MemoryTypeOK'
  <2>1. PICK status \in {"ok"} : End(status)
    BY <1>5 DEF VmDone, PtraceDone, PeekFails
  <2>2. call' = [call EXCEPT !.at = "idle"]
    BY <2>1 DEF End
  <2>3. /\ UNCHANGED <<memory, mode, changed, opened, buffer, calls, before>>
        /\ answer' = "ok"
    BY <2>1 DEF End, target
  <2> QED
    BY <2>2, <2>3, EndFacts DEF MemoryTypeOK, SameRequest
<1>6. ASSUME VmStops PROVE MemoryTypeOK'
  <2>1. /\ call' = [call EXCEPT !.at = "ptrace", !.done = 0]
        /\ UNCHANGED <<memory, mode, changed, opened, buffer, answer, calls, before>>
    BY <1>6 DEF VmStops, target
  <2>2. SameRequest /\ call'.done = 0 /\ call' \in Calls
    BY <2>1, StartAgainFacts
  <2>3. 0 <= call.size
    BY CallFacts
  <2> QED
    BY <2>1, <2>2, <2>3 DEF MemoryTypeOK, SameRequest
<1>7. ASSUME VmRead PROVE MemoryTypeOK'
  <2>1. /\ call' = [call EXCEPT !.done = @ + 1] /\ Left > 0
        /\ UNCHANGED <<memory, mode, changed, opened, answer, calls, before>>
        /\ buffer' = [buffer EXCEPT ![call.done] = memory[Here]] /\ Here \in Mapped
    BY <1>7 DEF VmRead, target
  <2>2. SameRequest /\ call'.done <= call.size /\ call' \in Calls
    BY <2>1, OneUnitFacts
  <2>3. memory[Here] \in Values
    BY <2>1 DEF MemoryTypeOK
  <2> QED
    BY <2>1, <2>2, <2>3 DEF MemoryTypeOK, SameRequest
<1>8. ASSUME VmWrite PROVE MemoryTypeOK'
  <2>1. /\ call' = [call EXCEPT !.done = @ + 1] /\ Left > 0
        /\ UNCHANGED <<mode, opened, buffer, answer, calls, before, changed>>
        /\ memory' = [memory EXCEPT ![Here] = call.done]
    BY <1>8 DEF VmWrite
  <2>2. SameRequest /\ call'.done <= call.size /\ call' \in Calls
    BY <2>1, OneUnitFacts
  <2>3. call.done \in Values
    BY <2>1 DEF MemoryTypeOK, Left, Values
  <2> QED
    BY <2>1, <2>2, <2>3 DEF MemoryTypeOK, SameRequest
<1>9. ASSUME PeekWord PROVE MemoryTypeOK'
  <2>1. /\ Advance /\ Left > 0 /\ Reached = Word
        /\ UNCHANGED <<memory, mode, changed, opened, answer, calls, before>>
        /\ buffer' = [i \in DOMAIN buffer |->
                  IF call.address + i \in Word THEN memory[call.address + i] ELSE buffer[i]]
    BY <1>9 DEF PeekWord, target
  <2>2. SameRequest /\ call'.done <= call.size /\ call' \in Calls
    BY <2>1, AdvanceFacts
  <2>3. buffer' \in [0 .. call.size - 1 -> Values]
    BY <2>1, ReachedFacts DEF MemoryTypeOK
  <2> QED
    BY <2>1, <2>2, <2>3 DEF MemoryTypeOK, SameRequest
<1>10. ASSUME NEW S, Poke(S) PROVE memory' \in [Mapped -> Values]
  BY <1>10 DEF Poke, MemoryTypeOK, Values
<1>11. ASSUME PokeWord PROVE MemoryTypeOK'
  <2>1. /\ Advance /\ Left > 0 /\ Poke(Word)
        /\ UNCHANGED <<mode, opened, buffer, answer, calls, before, changed>>
    BY <1>11 DEF PokeWord
  <2>2. SameRequest /\ call'.done <= call.size /\ call' \in Calls
    BY <2>1, AdvanceFacts
  <2> QED
    BY <1>10, <2>1, <2>2 DEF MemoryTypeOK, SameRequest
<1>12. ASSUME PokeFails PROVE MemoryTypeOK'
  <2>1. /\ call' = [call EXCEPT !.at = "idle"] /\ answer' = "fail"
        /\ \E S : Poke(S)
        /\ UNCHANGED <<mode, opened, buffer, calls, before, changed>>
    BY <1>12 DEF PokeFails
  <2> QED
    BY <1>10, <2>1, EndFacts DEF MemoryTypeOK, SameRequest
<1> QED
  BY <1>1, <1>2, <1>3, <1>4, <1>5, <1>6, <1>7, <1>8, <1>9, <1>11, <1>12 DEF Next, Transfer

-----------------------------------------------------------------------------
(* What is moved.                                                          *)

\* What the target does leaves what a transfer has moved so far as it is.
TargetStep ==
  \/ \E u \in Shared : TargetWrites(u)
  \/ \E to \in {"stopped", "running", "gone"} : MainThread(to)
  \/ Kill

LEMMA TargetFacts ==
  ASSUME MemoryTypeOK, TargetStep
  PROVE  /\ UNCHANGED <<call, buffer, answer, before>> /\ changed \subseteq changed'
         /\ \A u \in Mapped : u \notin changed' => memory'[u] = memory[u]
         /\ Gone => Gone'
<1>1. ASSUME NEW u \in Shared, TargetWrites(u)
      PROVE  /\ UNCHANGED <<call, buffer, answer, before, opened, mode>>
             /\ changed \subseteq changed'
             /\ \A v \in Mapped : v \notin changed' => memory'[v] = memory[v]
  BY <1>1 DEF TargetWrites, MemoryTypeOK
<1>2. ASSUME NEW to, MainThread(to)
      PROVE  /\ UNCHANGED <<call, buffer, answer, before, changed, memory, opened>>
             /\ mode # "gone"
  BY <1>2 DEF MainThread
<1>3. CASE Kill
  BY <1>3 DEF Kill, Gone
<1> QED
  BY <1>1, <1>2, <1>3 DEF TargetStep, Gone

\* Memory changes within the range of a write only.
LEMMA RangeStep ==
  ASSUME MemoryTypeOK, OnlyTheRange, Next
  PROVE  OnlyTheRange'
<1> USE DEF OnlyTheRange, Quiet
<1>1. CASE TargetStep
  BY <1>1, TargetFacts
<1>2. ASSUME NEW op, NEW a, NEW n, Begin(op, a, n) PROVE OnlyTheRange'
  BY <1>2 DEF Begin
<1>3. ASSUME SameRequest, UNCHANGED <<before, changed>>,
             NEW S, S \subseteq Here .. Here + WordSize - 1, Left > 0 \/ S = {},
             call.op = "write" \/ S = {},
             \A u \in Mapped : u \notin S => memory'[u] = memory[u]
      PROVE  OnlyTheRange'
  <2> SUFFICES ASSUME NEW u \in Mapped, u \notin changed, memory'[u] # before[u]
               PROVE  /\ call.op = "write"
                      /\ u \in call.address .. call.address + call.size + WordSize - 2
    BY <1>3 DEF SameRequest
  <2>1. CASE u \notin S
    BY <1>3, <2>1
  <2>2. CASE u \in S
    <3>1. /\ call.address \in Nat /\ call.size \in Nat /\ call.done \in Nat
          /\ call.done < call.size /\ u \in Int /\ WordSize \in Nat
      BY <1>3, <2>2, CallFacts, MemoryConstants DEF Left
    <3>2. u \in call.address + call.done .. call.address + call.done + WordSize - 1
      BY <1>3, <2>2 DEF Here
    <3> QED
      BY <1>3, <2>2, <3>1, <3>2
  <2> QED
    BY <2>1, <2>2
<1>4. ASSUME SameRequest, UNCHANGED <<memory, before, changed>>
      PROVE  OnlyTheRange'
  BY <1>4 DEF SameRequest
<1>5. CASE VmDone \/ PtraceDone \/ PeekFails
  <2>1. call' = [call EXCEPT !.at = "idle"] /\ UNCHANGED <<memory, before, changed>>
    BY <1>5 DEF VmDone, PtraceDone, PeekFails, End, target
  <2> QED
    BY <1>4, <2>1, EndFacts
<1>6. CASE VmStops
  <2>1. /\ call' = [call EXCEPT !.at = "ptrace", !.done = 0]
        /\ UNCHANGED <<memory, before, changed>>
    BY <1>6 DEF VmStops, target
  <2> QED
    BY <1>4, <2>1, StartAgainFacts
<1>7. CASE VmRead
  <2>1. /\ call' = [call EXCEPT !.done = @ + 1] /\ Left > 0
        /\ UNCHANGED <<memory, before, changed>>
    BY <1>7 DEF VmRead, target
  <2> QED
    BY <1>4, <2>1, OneUnitFacts
<1>8. CASE PeekWord
  <2>1. Advance /\ Left > 0 /\ UNCHANGED <<memory, before, changed>>
    BY <1>8 DEF PeekWord, target
  <2> QED
    BY <1>4, <2>1, AdvanceFacts
<1>9. CASE VmWrite
  <2>1. /\ call' = [call EXCEPT !.done = @ + 1] /\ Left > 0 /\ call.op = "write"
        /\ UNCHANGED <<before, changed>>
        /\ memory' = [memory EXCEPT ![Here] = call.done]
    BY <1>9 DEF VmWrite
  <2>2. {Here} \subseteq Here .. Here + WordSize - 1
    BY CallFacts, MemoryConstants
  <2>3. \A u \in Mapped : u \notin {Here} => memory'[u] = memory[u]
    BY <2>1 DEF MemoryTypeOK
  <2> QED
    BY <1>3, <2>1, <2>2, <2>3, OneUnitFacts
<1>10. CASE PokeWord
  <2>1. Advance /\ Left > 0 /\ call.op = "write" /\ UNCHANGED <<before, changed>> /\ Poke(Word)
    BY <1>10 DEF PokeWord
  <2>2. \A u \in Mapped : u \notin Word => memory'[u] = memory[u]
    BY <2>1 DEF Poke
  <2> QED
    BY <1>3, <2>1, <2>2, AdvanceFacts DEF Word
<1>11. CASE PokeFails
  <2>1. /\ call' = [call EXCEPT !.at = "idle"] /\ UNCHANGED <<before, changed>>
        /\ call.op = "write" /\ Left > 0
        /\ Poke(IF Traced /\ Left >= WordSize THEN Reached ELSE {})
    BY <1>11 DEF PokeFails
  <2>2. \A u \in Mapped : u \notin Word => memory'[u] = memory[u]
    BY <2>1, ReachedFacts DEF Poke
  <2> QED
    BY <1>3, <2>1, <2>2, EndFacts DEF Word
<1> QED
  BY <1>1, <1>2, <1>5, <1>6, <1>7, <1>8, <1>9, <1>10, <1>11 DEF Next, Transfer, TargetStep

\* What a read has fetched is a prefix of the memory, and it answers with one.
LEMMA ReadStep ==
  ASSUME MemoryTypeOK, ReadSoFar, ReadIsPrefix, Next
  PROVE  ReadSoFar' /\ ReadIsPrefix'
<1> USE DEF ReadSoFar, ReadIsPrefix, Offsets, Quiet
<1>1. CASE TargetStep
  <2>1. /\ UNCHANGED <<call, buffer, answer>> /\ changed \subseteq changed'
        /\ \A u \in Mapped : u \notin changed' => memory'[u] = memory[u]
        /\ Gone => Gone'
    BY <1>1, TargetFacts
  <2>2. ASSUME NEW k \in 0 .. call.size, Prefix(k) PROVE Prefix(k)'
    <3>1. \A i \in 0 .. call.size - 1 : i < k => call.address + i \in Mapped
      BY <2>2, CallFacts DEF Prefix
    <3> QED
      BY <2>1, <2>2, <3>1 DEF Prefix
  <2>3. ReadSoFar'
    BY <2>1, <2>2, CallFacts DEF Range
  <2>4. ReadIsPrefix'
    <3> SUFFICES ASSUME call.at = "idle", call.op = "read", answer = "ok"
                 PROVE  \E k \in 0 .. call.size :
                          Prefix(k)' /\ (Range \subseteq Open /\ ~Gone' => k = call.size)
      BY <2>1 DEF Prefix, Range, Gone
    <3>1. PICK k \in 0 .. call.size :
            Prefix(k) /\ (Range \subseteq Open /\ ~Gone => k = call.size)
      BY DEF Prefix, Gone
    <3> QED
      BY <2>1, <2>2, <3>1
  <2> QED
    BY <2>3, <2>4
<1>2. ASSUME NEW op \in {"read", "write"}, NEW a \in Units, NEW n \in 0 .. MaxSize,
             Begin(op, a, n)
      PROVE  ReadSoFar' /\ ReadIsPrefix'
  <2>1. a \in Nat /\ n \in Nat
    BY MemoryConstants
  <2>2. /\ call'.address = a /\ call'.size = n /\ call'.done = 0
        /\ call'.at = "idle" => answer' = "fail"
        /\ call'.at = "ptrace" => ~(opened /\ mode # "gone")
        /\ buffer' = [i \in 0 .. n - 1 |-> Zero]
        /\ UNCHANGED <<mode, opened>>
    BY <1>2 DEF Begin
  <2>3. Prefix(0)'
    BY <2>1, <2>2 DEF Prefix
  <2> QED
    BY <2>1, <2>2, <2>3 DEF Gone
<1>3. ASSUME VmDone \/ PtraceDone \/ PeekFails, call.op = "read"
      PROVE  ReadSoFar' /\ ReadIsPrefix'
  <2>1. /\ call' = [call EXCEPT !.at = "idle"]
        /\ UNCHANGED <<memory, mode, changed, opened, buffer>>
    BY <1>3 DEF VmDone, PtraceDone, PeekFails, End, target
  <2>2. SameRequest /\ call'.at = "idle"
    BY <2>1, EndFacts
  <2>3. \E k \in 0 .. call.size : Prefix(k) /\ (Range \subseteq Open /\ ~Gone => k = call.size)
    <3>1. CASE VmDone \/ PtraceDone
      <4>1. call.done = call.size /\ call.at \in {"vm", "ptrace"}
        BY <3>1, CallFacts DEF VmDone, PtraceDone, Left
      <4> QED
        BY <1>3, <4>1, CallFacts
    <3>2. CASE PeekFails
      <4>1. call.at = "ptrace"
        BY <3>2 DEF PeekFails
      <4> QED
        BY <1>3, <4>1, CallFacts
    <3> QED
      BY <1>3, <3>1, <3>2
  <2> QED
    BY <2>1, <2>2, <2>3 DEF SameRequest, Prefix, Gone, Range
<1>4. ASSUME VmStops, call.op = "read" PROVE ReadSoFar' /\ ReadIsPrefix'
  <2>1. /\ call' = [call EXCEPT !.at = "ptrace", !.done = 0]
        /\ call.at = "vm" /\ Left > 0 /\ Here \notin Open
        /\ UNCHANGED <<memory, mode, changed, opened, buffer>>
    BY <1>4 DEF VmStops, target
  <2>2. SameRequest /\ call'.at = "ptrace" /\ call'.done = 0
    BY <2>1, StartAgainFacts
  <2>3. ~(Range \subseteq Open)
    BY <2>1, CallFacts DEF Left, Range
  <2>4. Prefix(call.done) /\ call.done \in 0 .. call.size
    BY <1>4, <2>1, CallFacts
  <2> QED
    BY <2>1, <2>2, <2>3, <2>4 DEF SameRequest, Prefix, Range
<1>5. CASE VmRead
  <2>1. /\ call' = [call EXCEPT !.done = @ + 1]
        /\ call.at = "vm" /\ Left > 0 /\ Here \in Open /\ call.op = "read"
        /\ UNCHANGED <<memory, mode, changed, opened>>
        /\ buffer' = [buffer EXCEPT ![call.done] = memory[Here]]
    BY <1>5 DEF VmRead, target
  <2>2. /\ SameRequest /\ call'.at = "vm" /\ call'.done = call.done + 1
    BY <2>1, OneUnitFacts
  <2>3. Prefix(call.done)
    BY <2>1
  <2>4. /\ call.done \in 0 .. call.size - 1 /\ Here = call.address + call.done
        /\ Here \in Mapped /\ call.address \in Nat /\ call.size \in Nat
    BY <2>1, CallFacts, MemoryConstants DEF Left
  <2>5. call.address .. call.address + call.done \subseteq Mapped
    BY <2>3, <2>4 DEF Prefix
  <2>6. /\ buffer'[call.done] = memory[Here]
        /\ \A i \in 0 .. call.size - 1 : i # call.done => buffer'[i] = buffer[i]
    BY <2>1, <2>4 DEF MemoryTypeOK
  <2>7. PICK k : k = call.done + 1
    OBVIOUS
  <2>8. ASSUME NEW i \in 0 .. call.size - 1
        PROVE  IF i < k THEN call.address + i \notin changed
                               => buffer'[i] = memory[call.address + i]
               ELSE buffer'[i] = Zero
    <3>1. CASE i = call.done
      BY <2>4, <2>6, <2>7, <3>1
    <3>2. CASE i # call.done
      <4>1. IF i < call.done THEN call.address + i \notin changed
                                    => buffer[i] = memory[call.address + i]
            ELSE buffer[i] = Zero
        BY <2>3 DEF Prefix
      <4>2. buffer'[i] = buffer[i]
        BY <2>6, <3>2
      <4>3. i < k <=> i < call.done
        BY <2>4, <2>7, <3>2
      <4> QED
        BY <4>1, <4>2, <4>3
    <3> QED
      BY <3>1, <3>2
  <2>9. call.address .. call.address + k - 1 \subseteq Mapped
    BY <2>4, <2>5, <2>7
  <2>10. Prefix(k)'
    BY <2>1, <2>2, <2>8, <2>9 DEF SameRequest, Prefix
  <2> QED
    BY <2>2, <2>7, <2>10
<1>6. CASE PeekWord
  <2>1. /\ Advance /\ Left > 0 /\ Reached = Word /\ call.at = "ptrace" /\ call.op = "read"
        /\ UNCHANGED <<memory, mode, changed, opened>>
        /\ buffer' = [i \in DOMAIN buffer |->
                  IF call.address + i \in Word THEN memory[call.address + i] ELSE buffer[i]]
    BY <1>6 DEF PeekWord, target
  <2>2. /\ SameRequest /\ call'.at = "ptrace" /\ call'.done \in 0 .. call.size
        /\ call.done < call'.done /\ call'.done <= call.done + WordSize
        /\ call'.done = call.size \/ call'.done = call.done + WordSize
    BY <2>1, AdvanceFacts
  <2>3. PICK k \in call.done .. call.size : Prefix(k)
    BY <2>1
  <2> DEFINE longer == IF k < call'.done THEN call'.done ELSE k
  <2>4. PICK k2 : k2 = longer
    OBVIOUS
  <2>5. /\ call.address \in Nat /\ call.size \in Nat /\ call.done \in Nat
        /\ k \in Nat /\ k2 \in call'.done .. call.size /\ WordSize \in Nat
        /\ call'.done \in Nat
    BY <2>2, <2>3, <2>4, CallFacts, MemoryConstants
  <2>6. Word = call.address + call.done .. call.address + call.done + WordSize - 1
    BY DEF Word, Here
  <2>7. Word \subseteq Mapped
    BY <2>1, ReachedFacts
  <2>8. call.address .. call.address + k2 - 1 \subseteq Mapped
    <3> SUFFICES ASSUME NEW u \in call.address .. call.address + k2 - 1 PROVE u \in Mapped
      OBVIOUS
    <3>1. call.address <= u /\ u \in Int
      BY <2>5
    <3>2. CASE u < call.address + k
      BY <2>3, <2>5, <3>1, <3>2 DEF Prefix
    <3>3. CASE ~(u < call.address + k)
      <4>1. u < call.address + call'.done
        BY <2>5, <2>4, <3>1, <3>3
      <4>2. u < call.address + call.done + WordSize
        BY <2>2, <2>5, <3>1, <4>1
      <4>3. call.address + call.done <= u
        BY <2>3, <2>5, <3>1, <3>3
      <4>4. u \in call.address + call.done .. call.address + call.done + WordSize - 1
        BY <2>5, <3>1, <4>2, <4>3
      <4> QED
        BY <2>6, <2>7, <4>4
    <3> QED
      BY <3>2, <3>3
  <2>9. ASSUME NEW i \in 0 .. call.size - 1
        PROVE  IF i < k2 THEN call.address + i \notin changed
                                => buffer'[i] = memory[call.address + i]
               ELSE buffer'[i] = Zero
    <3>1. buffer'[i] = IF call.address + i \in Word THEN memory[call.address + i]
                                                    ELSE buffer[i]
      BY <2>1 DEF MemoryTypeOK
    <3>2. IF i < k THEN call.address + i \notin changed => buffer[i] = memory[call.address + i]
          ELSE buffer[i] = Zero
      BY <2>3 DEF Prefix
    <3>3. i < k2 /\ ~(i < k) => call.address + i \in Word
      BY <2>2, <2>3, <2>5, <2>6, <2>4
    <3>4. ~(i < k2) => ~(i < k)
      BY <2>2, <2>3, <2>5, <2>4
    <3>5. ~(i < k2) => call.address + i \notin Word
      <4> SUFFICES ASSUME ~(i < k2) PROVE call.address + i \notin Word
        OBVIOUS
      <4>1. call'.done <= i
        BY <2>5, <2>4
      <4>2. call.done + WordSize <= i
        BY <2>2, <2>5, <4>1
      <4> QED
        BY <2>5, <2>6, <4>2
    <3> QED
      BY <3>1, <3>2, <3>3, <3>4, <3>5
  <2>10. Prefix(k2)'
    BY <2>1, <2>2, <2>8, <2>9 DEF SameRequest, Prefix
  <2>11. Range' = Range /\ (Gone' <=> Gone)
    BY <2>1, <2>2 DEF SameRequest, Range, Gone
  <2>12. \E x \in call'.done .. call'.size : Prefix(x)'
    BY <2>2, <2>5, <2>10 DEF SameRequest
  <2> QED
    BY <2>1, <2>2, <2>11, <2>12 DEF SameRequest
<1>7. ASSUME call.op = "write", SameRequest PROVE ReadSoFar' /\ ReadIsPrefix'
  BY <1>7 DEF SameRequest
<1>8. ASSUME call.op = "write", Transfer PROVE SameRequest
  BY <1>8, EndFacts, StartAgainFacts, OneUnitFacts, AdvanceFacts
  DEF Transfer, VmDone, VmStops, VmRead, VmWrite, PtraceDone, PeekWord, PeekFails,
      PokeWord, PokeFails, End
<1>9. call.op \in {"read", "write"}
  BY DEF MemoryTypeOK
<1> QED
  BY <1>1, <1>2, <1>3, <1>4, <1>5, <1>6, <1>7, <1>8, <1>9
  DEF Next, Transfer, TargetStep, VmWrite, PokeWord, PokeFails

\* What a write has moved is data as long as the pages can be written, and
\* pointers once one of them cannot.
LEMMA WriteStep ==
  ASSUME MemoryTypeOK, WrittenSoFar, WriteLands, Next
  PROVE  WrittenSoFar' /\ WriteLands'
<1> USE DEF WrittenSoFar, WriteLands, Offsets, Quiet
<1>1. CASE TargetStep
  <2>1. /\ UNCHANGED <<call, buffer, answer>> /\ changed \subseteq changed'
        /\ \A u \in Mapped : u \notin changed' => memory'[u] = memory[u]
        /\ Gone => Gone'
    BY <1>1, TargetFacts
  <2>2. WrittenSoFar'
    BY <2>1, MemoryConstants DEF Range
  <2>3. \A i \in 0 .. call.size - 1 : call.address + i \in Range
    BY CallFacts DEF Range
  <2>4. WriteLands'
    BY <2>1, <2>3, MemoryConstants DEF Range
  <2> QED
    BY <2>2, <2>4
<1>2. ASSUME NEW op \in {"read", "write"}, NEW a \in Units, NEW n \in 0 .. MaxSize,
             Begin(op, a, n)
      PROVE  WrittenSoFar' /\ WriteLands'
  <2>1. a \in Nat /\ n \in Nat
    BY MemoryConstants
  <2>2. /\ call'.address = a /\ call'.size = n /\ call'.done = 0
        /\ call'.at = "idle" => answer' = "fail"
        /\ call'.at = "ptrace" => ~(opened /\ mode # "gone") /\ n # 0
        /\ UNCHANGED <<mode, opened>>
    BY <1>2 DEF Begin
  <2> QED
    BY <2>1, <2>2 DEF Gone
<1>3. ASSUME VmDone \/ PtraceDone, call.op = "write" PROVE WrittenSoFar' /\ WriteLands'
  <2>1. /\ call' = [call EXCEPT !.at = "idle"] /\ UNCHANGED <<memory, changed>>
        /\ call.at \in {"vm", "ptrace"} /\ Left <= 0
        /\ call.at = "ptrace" <=> PtraceDone
    BY <1>3 DEF VmDone, PtraceDone, End, target
  <2>2. SameRequest /\ call'.at = "idle"
    BY <2>1, EndFacts
  <2>3. call.done = call.size
    BY <2>1, CallFacts DEF Left
  <2>4. \A u \in Range : u - call.address \in Offsets /\ call.address + (u - call.address) = u
    BY CallFacts DEF Range
  <2>5. CASE call.at = "vm"
    <3>1. Range \subseteq Open
      BY <1>3, <2>3, <2>4, <2>5
    <3> QED
      BY <1>3, <2>1, <2>2, <2>3, <2>5, <3>1 DEF SameRequest, Range
  <2>6. CASE call.at = "ptrace"
    <3>1. Range \subseteq Mapped
      BY <1>3, <2>3, <2>4, <2>6
    <3>2. ~(Range \subseteq Open)
      BY <1>3, <2>3, <2>6, CallFacts
    <3> QED
      BY <1>3, <2>1, <2>2, <2>3, <2>6, <3>1, <3>2 DEF SameRequest, Range
  <2> QED
    BY <2>1, <2>5, <2>6
<1>4. ASSUME VmStops, call.op = "write" PROVE WrittenSoFar' /\ WriteLands'
  <2>1. /\ call' = [call EXCEPT !.at = "ptrace", !.done = 0] /\ Left > 0 /\ Here \notin Open
    BY <1>4 DEF VmStops
  <2>2. SameRequest /\ call'.at = "ptrace" /\ call'.done = 0
    BY <2>1, StartAgainFacts
  <2>3. ~(Range \subseteq Open)
    BY <2>1, CallFacts DEF Left, Range
  <2> QED
    BY <2>2, <2>3 DEF SameRequest, Range
<1>5. CASE VmWrite
  <2>1. /\ call' = [call EXCEPT !.done = @ + 1] /\ Left > 0 /\ call.at = "vm" /\ call.op = "write"
        /\ Here \in Open /\ changed' = changed
        /\ memory' = [memory EXCEPT ![Here] = call.done]
    BY <1>5 DEF VmWrite
  <2>2. SameRequest /\ call'.at = "vm" /\ call'.done = call.done + 1
    BY <2>1, OneUnitFacts
  <2>3. /\ call.address \in Nat /\ call.done \in Nat /\ Here = call.address + call.done
        /\ Here \in Mapped
    BY <2>1, CallFacts, MemoryConstants
  <2>4. memory'[Here] = call.done /\ \A u \in Mapped : u # Here => memory'[u] = memory[u]
    BY <2>1, <2>3 DEF MemoryTypeOK
  <2>5. ASSUME NEW i \in 0 .. call.done
        PROVE  /\ call.address + i \in Open
               /\ call.address + i \notin changed => memory'[call.address + i] = i
    <3>1. CASE i = call.done
      BY <2>1, <2>3, <2>4, <3>1
    <3>2. CASE i # call.done
      <4>1. i \in 0 .. call.done - 1 /\ call.address + i # Here
        BY <2>3, <3>2
      <4>2. /\ call.address + i \in Open
            /\ call.address + i \notin changed => memory[call.address + i] = i
        BY <2>1, <4>1
      <4> QED
        BY <2>4, <4>1, <4>2, MemoryConstants
    <3> QED
      BY <3>1, <3>2
  <2>6. 0 .. call'.done - 1 = 0 .. call.done
    BY <2>2, <2>3
  <2>7. \A i \in 0 .. call'.done - 1 :
          /\ call.address + i \in Open
          /\ call.address + i \notin changed' => memory'[call.address + i] = i
    BY <2>1, <2>5, <2>6
  <2> HIDE <2>1
  <2> QED
    BY <2>2, <2>7 DEF SameRequest
<1>6. CASE PokeWord
  <2>1. /\ Advance /\ Left > 0 /\ Reached = Word /\ call.at = "ptrace" /\ call.op = "write"
        /\ Traced /\ UNCHANGED <<mode, opened, changed>> /\ Poke(Word)
    BY <1>6 DEF PokeWord
  <2>2. /\ SameRequest /\ call'.at = "ptrace" /\ call'.done \in 0 .. call.size
        /\ call'.done <= call.done + WordSize
    BY <2>1, AdvanceFacts
  <2>3. /\ call.address \in Nat /\ call.done \in Nat /\ call'.done \in Nat /\ WordSize \in Nat
    BY <2>2, CallFacts, MemoryConstants
  <2>4. ~(Range \subseteq Open)
    BY <2>1 DEF Traced, Gone
  <2>5. /\ Word \subseteq Mapped
        /\ \A u \in Mapped : memory'[u] = IF u \in Word THEN Pointer ELSE memory[u]
    BY <2>1, ReachedFacts DEF Poke
  <2>6. ASSUME NEW i \in 0 .. call'.done - 1
        PROVE  /\ call.address + i \in Mapped
               /\ call.address + i \notin changed => memory'[call.address + i] = Pointer
    <3>1. CASE i < call.done
      <4>1. /\ call.address + i \in Mapped
            /\ call.address + i \notin changed => memory[call.address + i] = Pointer
        BY <2>1, <2>3, <3>1
      <4> QED
        BY <2>5, <4>1
    <3>2. CASE ~(i < call.done)
      <4>1. i \in Nat /\ call.done <= i /\ i < call.done + WordSize
        BY <2>2, <2>3, <3>2
      <4>2. call.address + i \in Word
        BY <2>3, <4>1 DEF Word, Here
      <4> QED
        BY <2>5, <4>2
    <3> QED
      BY <3>1, <3>2
  <2> QED
    BY <2>1, <2>2, <2>4, <2>6 DEF SameRequest, Range
<1>7. CASE PokeFails
  <2>1. call' = [call EXCEPT !.at = "idle"] /\ answer' = "fail"
    BY <1>7 DEF PokeFails
  <2> QED
    BY <2>1, EndFacts
<1>8. ASSUME call.op = "read", SameRequest PROVE WrittenSoFar' /\ WriteLands'
  BY <1>8 DEF SameRequest
<1>9. ASSUME call.op = "read", Transfer PROVE SameRequest
  BY <1>9, EndFacts, StartAgainFacts, OneUnitFacts, AdvanceFacts
  DEF Transfer, VmDone, VmStops, VmRead, VmWrite, PtraceDone, PeekWord, PeekFails,
      PokeWord, PokeFails, End
<1>10. call.op \in {"read", "write"}
  BY DEF MemoryTypeOK
<1> QED
  BY <1>1, <1>2, <1>3, <1>4, <1>5, <1>6, <1>7, <1>8, <1>9, <1>10
  DEF Next, Transfer, TargetStep, VmRead, PeekWord, PeekFails

-----------------------------------------------------------------------------
(* The theorems.                                                           *)

\* MemoryInv holds in every reachable state: whatever is asked for, and
\* whatever the target does while the transfer is under way.
THEOREM MemoryInvariance == MemorySpec => []MemoryInv
<1>1. Init => MemoryInv
  <2> SUFFICES ASSUME Init PROVE MemoryInv
    OBVIOUS
  <2>1. /\ call \in [op : {"read", "write"}, address : Units, size : 0 .. MaxSize,
                     at : {"idle", "vm", "ptrace"}, done : 0 .. MaxSize]
        /\ call.op = "read" /\ call.at = "idle" /\ call.size = 0 /\ call.done = 0
    BY MemoryConstants DEF Init
  <2>2. buffer \in [0 .. call.size - 1 -> Values]
    BY <2>1 DEF Init
  <2>3. MemoryTypeOK
    BY <2>1, <2>2, MemoryConstants DEF Init, MemoryTypeOK, Values
  <2>4. answer = "none" /\ before = memory
    BY DEF Init
  <2> QED
    BY <2>1, <2>3, <2>4 DEF MemoryInv, OnlyTheRange, ReadSoFar, WrittenSoFar, ReadIsPrefix, WriteLands
<1>2. MemoryInv /\ [Next]_memoryVars => MemoryInv'
  <2>1. ASSUME MemoryInv, Next PROVE MemoryInv'
    BY <2>1, TypeStep, RangeStep, ReadStep, WriteStep DEF MemoryInv
  <2>2. ASSUME MemoryInv, UNCHANGED memoryVars PROVE MemoryInv'
    <3>1. /\ MemoryTypeOK' <=> MemoryTypeOK
          /\ OnlyTheRange' <=> OnlyTheRange
      BY <2>2 DEF memoryVars, MemoryTypeOK, OnlyTheRange, Quiet
    <3>2. /\ ReadSoFar' <=> ReadSoFar
          /\ WrittenSoFar' <=> WrittenSoFar
      BY <2>2 DEF memoryVars, ReadSoFar, WrittenSoFar, Prefix, Gone, Range, Offsets, Quiet
    <3>3. /\ ReadIsPrefix' <=> ReadIsPrefix
          /\ WriteLands' <=> WriteLands
      BY <2>2 DEF memoryVars, ReadIsPrefix, WriteLands, Range, Offsets, Quiet
    <3> QED
      BY <2>2, <3>1, <3>2, <3>3 DEF MemoryInv
  <2> QED
    BY <2>1, <2>2
<1> QED
  BY <1>1, <1>2, PTL DEF MemorySpec

\* The state of a transfer is well typed; its count never passes the request.
THEOREM MemoryTypeCorrect == MemorySpec => []MemoryTypeOK
  BY MemoryInvariance, PTL DEF MemoryInv

\* A write changes its range and at most the rest of its last word, a read
\* nothing.
THEOREM WritesStayInRange == MemorySpec => []OnlyTheRange
  BY MemoryInvariance, PTL DEF MemoryInv

\* A write that succeeds is all data or all pointers.
THEOREM WritesAreWhole == MemorySpec => []WriteLands
  BY MemoryInvariance, PTL DEF MemoryInv

\* A read answers with a prefix of the memory followed by zeros.
THEOREM ReadsArePrefixes == MemorySpec => []ReadIsPrefix
  BY MemoryInvariance, PTL DEF MemoryInv

\* No transfer goes back or past its request, for any size of words and requests
\* and whatever the target does meanwhile.
THEOREM TransfersGoOn == MemorySpec => TransfersAdvance
<1> DEFINE Nearer ==
      \/ call'.at = "idle" /\ answer' # "none"
      \/ call.at = "vm" /\ call'.at = "ptrace" /\ call'.done = 0
      \/ call'.at = call.at /\ call.done < call'.done /\ call'.done <= call.size
<1>1. ASSUME MemoryTypeOK, Transfer PROVE SameRequest /\ Nearer
  <2>1. CASE VmDone \/ PtraceDone \/ PeekFails \/ PokeFails
    BY <1>1, <2>1, EndFacts DEF VmDone, PtraceDone, PeekFails, PokeFails, End
  <2>2. CASE VmStops
    BY <1>1, <2>2, StartAgainFacts DEF VmStops
  <2>3. CASE VmRead \/ VmWrite
    <3>1. Left > 0 /\ call' = [call EXCEPT !.done = @ + 1]
      BY <2>3 DEF VmRead, VmWrite
    <3>2. call.done \in Nat
      BY <1>1, MemoryConstants DEF MemoryTypeOK
    <3>3. SameRequest /\ call'.at = call.at /\ call'.done = call.done + 1 /\ call'.done <= call.size
      BY <1>1, <3>1, OneUnitFacts
    <3> QED BY <3>2, <3>3
  <2>4. CASE PeekWord \/ PokeWord
    <3>1. Left > 0 /\ Advance
      BY <2>4 DEF PeekWord, PokeWord
    <3>2. SameRequest /\ call'.at = call.at /\ call.done < call'.done /\ call'.done \in 0 .. call.size
      BY <1>1, <3>1, AdvanceFacts
    <3>3. call.size \in Nat
      BY <1>1, MemoryConstants DEF MemoryTypeOK
    <3> QED BY <3>2, <3>3
  <2> QED BY <1>1, <2>1, <2>2, <2>3, <2>4 DEF Transfer
<1>2. ASSUME Next, ~Transfer, call.at # "idle" PROVE UNCHANGED call
  BY <1>2 DEF Next, Kill, Begin, TargetWrites, MainThread
<1>3. MemoryTypeOK /\ [Next]_memoryVars =>
        [call.at # "idle" =>
           \/ UNCHANGED call /\ ~Transfer
           \/ /\ <<call'.op, call'.address, call'.size>> = <<call.op, call.address, call.size>>
              /\ Nearer]_memoryVars
  BY <1>1, <1>2 DEF SameRequest
<1> QED BY <1>3, MemoryTypeCorrect, PTL DEF MemorySpec, TransfersAdvance

=============================================================================
