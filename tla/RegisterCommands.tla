---------------------------- MODULE RegisterCommands ----------------------------
(***************************************************************************)
(* DebuggerCore::write_registers and read_registers                        *)
(* (src/src/debugger_core.cpp) over Core::RegisterControl                  *)
(* (src/src/register_control.cpp), one system call at a time.              *)
(*                                                                         *)
(* A request has a part for the general registers and a part for the       *)
(* floating-point ones, and is worked through in that order, entry by      *)
(* entry.  Writing one register reads the whole register set of the thread *)
(* and writes it back changed; the thread may be killed in between.  What  *)
(* was written before an entry that fails stays written.                   *)
(*                                                                         *)
(* The kernel is external: the register sets of a thread can be accessed   *)
(* while it is stopped for the debugger, a set with a value the kernel     *)
(* refuses is refused as a whole, and only a command of the debugger lets  *)
(* a stopped thread run.                                                   *)
(*                                                                         *)
(* A definition introduced by "Mistake" is the one after it with a         *)
(* plausible bug, to show that a property would notice.                    *)
(***************************************************************************)
EXTENDS Integers, Sequences

CONSTANTS
  Tids,      \* the threads m_current_tid may name
  GPRs,      \* the registers of the set NT_PRSTATUS
  FPRs,      \* the registers of the set NT_FPREGSET
  Modulus,   \* 2^w for a register of w bits
  Refused,   \* pairs of a register and a value for it that the kernel refuses
  Files,     \* register contents a thread may come to a stop with
  Names,     \* what a request may name: registers and other names
  Requests,  \* the requests clients make
  None       \* the -1 of m_current_tid

Registers == GPRs \cup FPRs
Section(s) == IF s = "GPR" THEN GPRs ELSE FPRs

\* A register file; a part of one, as an answer or a register set holds it.
Values == UNION {0 .. Modulus[r] - 1 : r \in Registers}
RegisterFiles == [Registers -> Values]
Partial == UNION {[S -> Values] : S \in SUBSET Registers}
Empty == [r \in {} |-> 0]

\* One key and value of a JSON object, or one element of an array (whose number
\* means nothing): a string that is a hexadecimal number, another string,
\* something that is not a string.
Entry == [name : Names, kind : {"hex", "text", "other"}, number : Nat]

\* The "GPR" or "FPR" of a request: missing or null, neither a list nor "all",
\* the string "all", or a list.  The entries of an object are in the order of
\* its keys.
Part == [kind : {"absent", "malformed", "all"}, entries : {<<>>}]
          \cup [kind : {"list"}, entries : Seq(Entry)]

Request == [op : {"read", "write"}, GPR : Part, FPR : Part]

\* What the loops over a request meet, one after the other.
Step == [section : {"GPR", "FPR"}, kind : {"hex", "text", "other", "malformed", "all"},
         name : Names \cup {None}, number : Nat]

StepsOf(s, part) ==
  CASE part.kind = "list"   -> [i \in DOMAIN part.entries |->
                                  [section |-> s, kind |-> part.entries[i].kind,
                                   name |-> part.entries[i].name,
                                   number |-> part.entries[i].number]]
    [] part.kind = "absent" -> <<>>
    [] OTHER                -> <<[section |-> s, kind |-> part.kind,
                                  name |-> None, number |-> 0]>>

Steps(q) == StepsOf("GPR", q.GPR) \o StepsOf("FPR", q.FPR)

\* str2gpr, str2fpr
Known(step) == step.name \in Section(step.section)

\* Mistake: a number that does not fit is kept as it is.
WholeValue(step) == step.number

\* hex_str_to_num keeps the low bits of the number.
Value(step) == step.number % Modulus[step.name]

ASSUME RegisterCommandsAssumption ==
  /\ GPRs \cap FPRs = {} /\ Registers \subseteq Names
  /\ None \notin Names \cup Tids
  /\ \A r \in Registers : Modulus[r] \in Nat \ {0}
  /\ Files \subseteq RegisterFiles
  /\ Requests \subseteq Request
  \* the keys of a JSON object are distinct
  /\ \A q \in Requests : q.op = "write" =>
       \A i, j \in DOMAIN Steps(q) :
         Known(Steps(q)[i]) /\ Known(Steps(q)[j]) /\ Steps(q)[i].name = Steps(q)[j].name
           => i = j

VARIABLES
  m_current_tid,  \* the thread the commands refer to
  life,           \* the target: state of each thread
  regs,           \* the target: registers of each thread
  call            \* the call in progress or, when `at' is "idle", the last one

vars == <<m_current_tid, life, regs, call>>

\* Before a command `at' is "idle"; then the server is about to deal with the
\* next step ("fetch") or to write back the register set it has changed
\* ("store").
NoCall == [op |-> "none", steps |-> <<>>, next |-> 1, at |-> "idle",
           copy |-> Empty, result |-> Empty, status |-> "none"]

TypeOK ==
  /\ m_current_tid \in Tids \cup {None}
  /\ life \in [Tids -> {"running", "stopped", "dead"}]
  /\ regs \in [Tids -> RegisterFiles]
  /\ call \in [op : {"none", "read", "write"}, steps : Seq(Step), next : Nat \ {0},
               at : {"idle", "fetch", "store"}, copy : Partial, result : Partial,
               status : {"none", "ok", "fail", "error"}]
  /\ call.next <= Len(call.steps) + 1

Init ==
  /\ m_current_tid = None
  /\ life \in [Tids -> {"running", "stopped"}]
  /\ regs \in [Tids -> Files]
  /\ call = NoCall

-----------------------------------------------------------------------------
(* What happens around the two commands.                                   *)

\* A breakpoint, a signal, the end of a single step.
Stops(t) ==
  /\ life[t] = "running"
  /\ life' = [life EXCEPT ![t] = "stopped"]
  /\ \E file \in Files : regs' = [regs EXCEPT ![t] = file]
  /\ UNCHANGED <<m_current_tid, call>>

Dies(t) ==
  /\ life[t] # "dead"
  /\ life' = [life EXCEPT ![t] = "dead"]
  /\ UNCHANGED <<m_current_tid, regs, call>>

\* resume, detach and the stepping commands
LetRun(t) ==
  /\ call.at = "idle"
  /\ life[t] = "stopped"
  /\ life' = [life EXCEPT ![t] = "running"]
  /\ call' = NoCall
  /\ UNCHANGED <<m_current_tid, regs>>

\* attach and switch_thread
Select(t) ==
  /\ call.at = "idle"
  /\ m_current_tid' = t
  /\ call' = NoCall
  /\ UNCHANGED <<life, regs>>

-----------------------------------------------------------------------------
(* How a request is worked through.                                        *)

Begin(q) ==
  /\ call.at = "idle"
  /\ call' = [NoCall EXCEPT !.op = q.op, !.steps = Steps(q), !.at = "fetch"]
  /\ UNCHANGED <<m_current_tid, life, regs>>

At(op, at) == call.op = op /\ call.at = at

More == call.next <= Len(call.steps)
This == call.steps[call.next]

\* Mistake: the step is passed over.
PassOver(status) ==
  call' = [call EXCEPT !.next = @ + 1, !.at = "fetch", !.copy = Empty]

\* The call ends at this step.
GiveUp(status) ==
  call' = [call EXCEPT !.at = "idle", !.copy = Empty, !.status = status]

Done ==
  /\ call.at = "fetch" /\ ~More
  /\ call' = [call EXCEPT !.at = "idle", !.status = "ok"]
  /\ UNCHANGED <<m_current_tid, life, regs>>

\* The kernel gives access to the registers of the current thread.
Accessible == m_current_tid # None /\ life[m_current_tid] = "stopped"

Holds(t, s) == [r \in Section(s) |-> regs[t][r]]

-----------------------------------------------------------------------------
(* write_registers                                                         *)

\* A value that is not a string ends the command with an exception: the message
\* about it asks for the string.
WriteVerdict(step) ==
  IF step.kind = "other" THEN "error"
  ELSE IF step.kind = "hex" /\ Known(step) THEN "ok" ELSE "fail"

WriteRefuses ==
  /\ At("write", "fetch") /\ More
  /\ WriteVerdict(This) # "ok"
  /\ GiveUp(WriteVerdict(This))
  /\ UNCHANGED <<m_current_tid, life, regs>>

\* PTRACE_GETREGSET: get_all_gpr, get_all_fpr
WriteFetches ==
  /\ At("write", "fetch") /\ More
  /\ WriteVerdict(This) = "ok"
  /\ IF Accessible
     THEN call' = [call EXCEPT !.at = "store",
                               !.copy = Holds(m_current_tid, This.section)]
     ELSE GiveUp("fail")
  /\ UNCHANGED <<m_current_tid, life, regs>>

\* Mistake: the register set is zeroed, not fetched, before the one register is
\* changed.
ChangedAlone(set, step) ==
  [r \in DOMAIN set |-> IF r = step.name THEN Value(step) ELSE 0]

\* get_gpr_pointer, get_fpr_pointer and the assignment through them
Changed(set, step) ==
  [r \in DOMAIN set |-> IF r = step.name THEN Value(step) ELSE set[r]]

KernelRefuses(set) == \E r \in DOMAIN set : <<r, set[r]>> \in Refused

\* PTRACE_SETREGSET: set_all_gpr, set_all_fpr
WriteStores ==
  LET set == Changed(call.copy, This) IN
  /\ At("write", "store")
  /\ IF Accessible /\ ~KernelRefuses(set)
     THEN /\ regs' = [regs EXCEPT ![m_current_tid] =
                        [r \in Registers |-> IF r \in DOMAIN set THEN set[r] ELSE @[r]]]
          /\ call' = [call EXCEPT !.at = "fetch", !.next = @ + 1, !.copy = Empty]
     ELSE GiveUp("fail") /\ UNCHANGED regs
  /\ UNCHANGED <<m_current_tid, life>>

-----------------------------------------------------------------------------
(* read_registers                                                          *)

ReadAccepts(step) == step.kind = "all" \/ (step.kind # "other" /\ Known(step))

ReadRefuses ==
  /\ At("read", "fetch") /\ More
  /\ ~ReadAccepts(This)
  /\ GiveUp("fail")
  /\ UNCHANGED <<m_current_tid, life, regs>>

Asked(step) == IF step.kind = "all" THEN Section(step.section) ELSE {step.name}

\* Mistake: that there is a thread is enough, and a register set that was not
\* fetched reads as zeros.
ReadFetchesUnchecked ==
  /\ At("read", "fetch") /\ More
  /\ ReadAccepts(This)
  /\ IF m_current_tid # None
     THEN call' = [call EXCEPT
            !.next = @ + 1,
            !.result = [r \in DOMAIN @ \cup Asked(This) |->
                          IF r \notin Asked(This) THEN @[r]
                          ELSE IF Accessible THEN regs[m_current_tid][r] ELSE 0]]
     ELSE GiveUp("fail")
  /\ UNCHANGED <<m_current_tid, life, regs>>

\* PTRACE_GETREGSET, once for each element of an array and once for "all"
ReadFetches ==
  /\ At("read", "fetch") /\ More
  /\ ReadAccepts(This)
  /\ IF Accessible
     THEN call' = [call EXCEPT
            !.next = @ + 1,
            !.result = [r \in DOMAIN @ \cup Asked(This) |->
                          IF r \in Asked(This) THEN regs[m_current_tid][r] ELSE @[r]]]
     ELSE GiveUp("fail")
  /\ UNCHANGED <<m_current_tid, life, regs>>

-----------------------------------------------------------------------------
Next ==
  \/ \E q \in Requests : Begin(q)
  \/ WriteRefuses \/ WriteFetches \/ WriteStores
  \/ ReadRefuses \/ ReadFetches
  \/ Done
  \/ \E t \in Tids : Stops(t) \/ Dies(t) \/ LetRun(t) \/ Select(t)

Spec == Init /\ [][Next]_vars

-----------------------------------------------------------------------------
(* What is expected of the two commands.                                   *)

\* While write_registers works and after its answer the current thread holds, in
\* the registers of the steps done, the values asked for: no later write of the
\* register set undoes one, and the first step that cannot be done is the last.
\* Success means that all of them were done.
WrittenInOrder ==
  call.op = "write" =>
    /\ \A i \in 1 .. call.next - 1 :
         LET step == call.steps[i] IN
           Known(step) /\ regs[m_current_tid][step.name] = Value(step)
    /\ call.status = "ok" => call.next = Len(call.steps) + 1

\* read_registers fetches its registers one at a time: an answer of success has
\* exactly the registers asked for, all with the values the thread holds at the
\* answer.
ReadIsSnapshot ==
  call.op = "read" /\ call.status = "ok" =>
    call.result = [r \in UNION {Asked(call.steps[i]) : i \in DOMAIN call.steps} |->
                     regs[m_current_tid][r]]

\* Although a whole register set is written each time, a thread that is not
\* running sees at most one register change, the one whose turn it is, and only
\* to the value asked for; no other thread sees any.
OnlyTheNamedRegister ==
  [][\A t \in Tids : \A r \in Registers :
       regs'[t][r] # regs[t][r] =>
         \/ life[t] = "running"
         \/ /\ t = m_current_tid /\ At("write", "store")
            /\ r = This.name /\ regs'[t][r] = Value(This)]_vars

\* A request is worked through from its first entry to its last without going
\* back or passing one over, and each system call is done with an entry, or with
\* half of it, or ends the command with an answer (write_registers,
\* read_registers).
CallsAdvance ==
  [][call.at # "idle" =>
       \/ UNCHANGED call
       \/ /\ call'.op = call.op /\ call'.steps = call.steps
          /\ \/ call'.at = "idle" /\ call'.status # "none" /\ call'.next = call.next
             \/ call.at = "fetch" /\ call'.at = "store" /\ call'.next = call.next
             \/ /\ call'.at = "fetch" /\ call'.next = call.next + 1
                /\ call'.next <= Len(call.steps) + 1]_vars

=============================================================================
