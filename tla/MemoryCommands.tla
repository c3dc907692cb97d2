--------------------------- MODULE MemoryCommands ---------------------------
(***************************************************************************)
(* The commands read_memory and write_memory: Core::DebuggerCore           *)
(* (src/src/debugger_core.cpp) over Core::MemoryControl                    *)
(* (src/src/memory_control.cpp), with the handlers of main.cpp.            *)
(*                                                                         *)
(* A transfer is tried with process_vm_readv or process_vm_writev, which   *)
(* stops at the first page it may not access; unless everything was moved, *)
(* it is done again from the start with PTRACE_PEEKDATA or PTRACE_POKEDATA,*)
(* word by word, for which the thread has to be stopped.  The target goes  *)
(* on writing its memory, stops and dies while the transfer is under way.  *)
(*                                                                         *)
(* Memory is a row of units, WordSize of them in a ptrace word; a unit of  *)
(* the data to write is its offset in the request.                         *)
(*                                                                         *)
(* A definition introduced by "Mistake" is the definition after it with a  *)
(* plausible bug.                                                          *)
(***************************************************************************)
EXTENDS Integers

CONSTANTS
  Units,      \* the addresses of units
  Mapped,     \* those in mapped pages
  Open,       \* those in pages mapped readable and writable
  Shared,     \* those the threads of the target write
  WordSize,   \* units of a word
  MaxSize,    \* bound: the longest request
  MaxCalls,   \* bound: the requests of a behaviour
  Original, Foreign, Pointer, Zero  \* values of units that are not data

ASSUME MemoryConstants ==
  /\ Units \subseteq Nat
  /\ Open \subseteq Mapped /\ Mapped \subseteq Units \ {0}
  /\ Shared \subseteq Mapped
  /\ WordSize \in Nat \ {0} /\ MaxSize \in Nat /\ MaxCalls \in Nat
  /\ {Original, Foreign, Pointer, Zero} \cap Nat = {}

Values == {Original, Foreign, Pointer, Zero} \cup 0 .. MaxSize - 1

VARIABLES
  memory,   \* the target: its memory
  mode,     \* the target: its main thread
  opened,   \* whether m_pid is a process
  call,     \* the command under way, or the last one
  buffer,   \* the bytes a read will answer with
  answer,   \* what the last command answered
  calls,    \* the commands given so far
  before,   \* history: the memory when the command was given
  changed   \* history: the units the target has written since

memoryVars == <<memory, mode, opened, call, buffer, answer, calls, before, changed>>
target == <<memory, mode, changed>>

MemoryTypeOK ==
  /\ memory \in [Mapped -> Values]
  /\ mode \in {"stopped", "running", "gone"}
  /\ opened \in BOOLEAN
  /\ call \in [op : {"read", "write"}, address : Units, size : 0 .. MaxSize,
               at : {"idle", "vm", "ptrace"}, done : 0 .. MaxSize]
  /\ call.done <= call.size
  /\ buffer \in [0 .. call.size - 1 -> Values]
  /\ answer \in {"none", "ok", "fail"}
  /\ calls \in 0 .. MaxCalls
  /\ before \in [Mapped -> Values]
  /\ changed \subseteq Mapped

Init ==
  /\ memory = [u \in Mapped |-> Original]
  /\ mode \in {"stopped", "running"}
  /\ opened \in BOOLEAN
  /\ \E a \in Units :
       call = [op |-> "read", address |-> a, size |-> 0, at |-> "idle", done |-> 0]
  /\ buffer = [i \in 0 .. -1 |-> Zero]
  /\ answer = "none"
  /\ calls = 0
  /\ before = memory
  /\ changed = {}

-----------------------------------------------------------------------------
(* The target.                                                             *)

\* Threads write what they share, whether or not the main thread is stopped.
TargetWrites(u) ==
  /\ mode # "gone"
  /\ memory' = [memory EXCEPT ![u] = Foreign]
  /\ changed' = changed \cup {u}
  /\ UNCHANGED <<mode, opened, call, buffer, answer, calls, before>>

\* A signal stops the main thread; it goes on between commands only; SIGKILL
\* ends it from anywhere.
MainThread(to) ==
  /\ mode # "gone"
  /\ to = "running" => call.at = "idle"
  /\ mode' = to
  /\ UNCHANGED <<memory, opened, call, buffer, answer, calls, before, changed>>

-----------------------------------------------------------------------------
(* The commands.                                                           *)

\* kill: m_pid is -1 from here on.
Kill ==
  /\ call.at = "idle" /\ opened
  /\ opened' = FALSE /\ mode' = "gone"
  /\ UNCHANGED <<memory, call, buffer, answer, calls, before, changed>>

\* The handler makes a buffer of zeros; an address or a size of 0 is refused;
\* without a process there process_vm_readv and process_vm_writev fail at once.
Begin(op, a, n) ==
  /\ call.at = "idle" /\ calls < MaxCalls
  /\ calls' = calls + 1
  /\ before' = memory /\ changed' = {}
  /\ buffer' = [i \in 0 .. n - 1 |-> Zero]
  /\ call' = [op |-> op, address |-> a, size |-> n, done |-> 0,
              at |-> IF a = 0 \/ n = 0 THEN "idle"
                     ELSE IF opened /\ mode # "gone" THEN "vm" ELSE "ptrace"]
  /\ answer' = IF a = 0 \/ n = 0 THEN "fail" ELSE "none"
  /\ UNCHANGED <<memory, mode, opened>>

Here == call.address + call.done
Left == call.size - call.done

End(status) ==
  /\ answer' = status
  /\ call' = [call EXCEPT !.at = "idle"]
  /\ UNCHANGED <<target, opened, buffer, calls, before>>

\* process_vm_readv and process_vm_writev have moved everything.
VmDone ==
  /\ call.at = "vm" /\ Left = 0
  /\ End("ok")

\* Mistake: ptrace goes on where they stopped.
VmStopsHere ==
  /\ call.at = "vm" /\ Left > 0 /\ Here \notin Open
  /\ call' = [call EXCEPT !.at = "ptrace"]
  /\ UNCHANGED <<target, opened, buffer, answer, calls, before>>

\* They have come to a page they may not access: ptrace starts all over.
VmStops ==
  /\ call.at = "vm" /\ Left > 0 /\ Here \notin Open
  /\ call' = [call EXCEPT !.at = "ptrace", !.done = 0]
  /\ UNCHANGED <<target, opened, buffer, answer, calls, before>>

\* Mistake: the bytes are taken from one unit further on.
VmReadNext ==
  /\ call.at = "vm" /\ call.op = "read" /\ Left > 0 /\ Here \in Open
  /\ buffer' = [buffer EXCEPT ![call.done] =
                  memory[IF Here + 1 \in Mapped THEN Here + 1 ELSE Here]]
  /\ call' = [call EXCEPT !.done = @ + 1]
  /\ UNCHANGED <<target, opened, answer, calls, before>>

\* The memory stays there for the system call when the process dies under it.
VmRead ==
  /\ call.at = "vm" /\ call.op = "read" /\ Left > 0 /\ Here \in Open
  /\ buffer' = [buffer EXCEPT ![call.done] = memory[Here]]
  /\ call' = [call EXCEPT !.done = @ + 1]
  /\ UNCHANGED <<target, opened, answer, calls, before>>

VmWrite ==
  /\ call.at = "vm" /\ call.op = "write" /\ Left > 0 /\ Here \in Open
  /\ memory' = [memory EXCEPT ![Here] = call.done]
  /\ call' = [call EXCEPT !.done = @ + 1]
  /\ UNCHANGED <<mode, opened, buffer, answer, calls, before, changed>>

\* The word at Here, and the part of it before the first page that is not there.
Word == Here .. Here + WordSize - 1
Reached == {u \in Word : Here .. u \subseteq Mapped}

Traced == opened /\ mode = "stopped"

\* Mistake: the count grows by a whole word at the tail, too.
AdvanceByWord == call' = [call EXCEPT !.done = @ + WordSize]

\* Mistake: the tail is not counted.
AdvanceButTail == call' = [call EXCEPT !.done = IF Left < WordSize THEN @ ELSE @ + WordSize]

\* bytes_read or bytes_written grows by a word, or by the tail of the request.
Advance == call' = [call EXCEPT !.done = IF Left < WordSize THEN @ + Left ELSE @ + WordSize]

\* ptrace has moved everything.
PtraceDone ==
  /\ call.at = "ptrace" /\ Left <= 0
  /\ End("ok")

\* PTRACE_PEEKDATA reads a word, on any mapped page.
PeekWord ==
  /\ call.at = "ptrace" /\ call.op = "read" /\ Left > 0
  /\ Traced /\ Reached = Word
  /\ buffer' = [i \in DOMAIN buffer |->
                  IF call.address + i \in Word THEN memory[call.address + i] ELSE buffer[i]]
  /\ Advance
  /\ UNCHANGED <<target, opened, answer, calls, before>>

\* read_memory answers with success and the buffer as it is.
PeekFails ==
  /\ call.at = "ptrace" /\ call.op = "read" /\ Left > 0
  /\ ~(Traced /\ Reached = Word)
  /\ End("ok")

\* Mistake: the word before it is written as well.
PokeBothWords(units) ==
  memory' = [u \in Mapped |->
               IF u \in units \/ u + WordSize \in units THEN Pointer ELSE memory[u]]

\* PTRACE_POKEDATA is given the address of the word instead of the word.
Poke(units) ==
  memory' = [u \in Mapped |-> IF u \in units THEN Pointer ELSE memory[u]]

PokeWord ==
  /\ call.at = "ptrace" /\ call.op = "write" /\ Left > 0
  /\ Traced /\ Reached = Word
  /\ Poke(Word)
  /\ Advance
  /\ UNCHANGED <<mode, opened, buffer, answer, calls, before, changed>>

\* A word that is only partly there is written in part; the tail of a request
\* is not, for it is read first.
PokeFails ==
  /\ call.at = "ptrace" /\ call.op = "write" /\ Left > 0
  /\ ~(Traced /\ Reached = Word)
  /\ Poke(IF Traced /\ Left >= WordSize THEN Reached ELSE {})
  /\ answer' = "fail"
  /\ call' = [call EXCEPT !.at = "idle"]
  /\ UNCHANGED <<mode, opened, buffer, calls, before, changed>>

-----------------------------------------------------------------------------
Transfer ==
  \/ VmDone \/ VmStops \/ VmRead \/ VmWrite
  \/ PtraceDone \/ PeekWord \/ PeekFails \/ PokeWord \/ PokeFails

Next ==
  \/ Transfer
  \/ Kill
  \/ \E op \in {"read", "write"}, a \in Units, n \in 0 .. MaxSize : Begin(op, a, n)
  \/ \E u \in Shared : TargetWrites(u)
  \/ \E to \in {"stopped", "running", "gone"} : MainThread(to)

MemorySpec == Init /\ [][Next]_memoryVars

\* The thread of the server goes on with the transfer.
FairMemorySpec == MemorySpec /\ WF_memoryVars(Transfer)

-----------------------------------------------------------------------------
(* Correctness.                                                            *)

Offsets == 0 .. call.size - 1
Range == call.address .. call.address + call.size - 1
Quiet(u) == u \notin changed

\* Nothing but the units of a write changes, and at most the rest of the last
\* word after them: not by a transfer that is done twice, fails half way or
\* reaches pages that cannot be accessed; a read changes nothing at all.
OnlyTheRange ==
  \A u \in Mapped :
    Quiet(u) /\ memory[u] # before[u] =>
      call.op = "write" /\ u \in call.address .. call.address + call.size + WordSize - 2

\* A write that is answered with success has written all of its units the same
\* way, with the data of the request or, if any of them needed ptrace, with a
\* pointer of the debugger: there is no mixture of the two.
WriteLands ==
  call.at = "idle" /\ call.op = "write" /\ answer = "ok" =>
    \/ /\ Range \subseteq Open
       /\ \A i \in Offsets : Quiet(call.address + i) => memory[call.address + i] = i
    \/ /\ Range \subseteq Mapped /\ ~(Range \subseteq Open)
       /\ \A i \in Offsets : Quiet(call.address + i) => memory[call.address + i] = Pointer

\* A read is answered with the memory up to some unit and with zeros after it,
\* never with bytes out of place; up to the end when the pages can be read and
\* the process is still there.
ReadIsPrefix ==
  call.at = "idle" /\ call.op = "read" /\ answer = "ok" =>
    \E k \in 0 .. call.size :
      /\ call.address .. call.address + k - 1 \subseteq Mapped
      /\ \A i \in Offsets :
           IF i < k THEN Quiet(call.address + i) => buffer[i] = memory[call.address + i]
           ELSE buffer[i] = Zero
      /\ Range \subseteq Open /\ opened /\ mode # "gone" => k = call.size

\* A transfer goes on without going back, but for the one time it is done again
\* with ptrace, and never past the request, whatever the target does meanwhile:
\* each step ends it, changes over to ptrace or moves at least one unit.
TransfersAdvance ==
  [][call.at # "idle" =>
       \/ UNCHANGED call /\ ~Transfer
       \/ /\ <<call'.op, call'.address, call'.size>> = <<call.op, call.address, call.size>>
          /\ \/ call'.at = "idle" /\ answer' # "none"
             \/ call.at = "vm" /\ call'.at = "ptrace" /\ call'.done = 0
             \/ call'.at = call.at /\ call.done < call'.done /\ call'.done <= call.size]_memoryVars

\* Every transfer ends, however often the target interferes.
TransfersEnd == call.at # "idle" ~> call.at = "idle"

=============================================================================
