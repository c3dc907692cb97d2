------------------------- MODULE BreakpointManager -------------------------
(***************************************************************************)
(* Core::BreakpointManager (src/src/breakpoint_manager.cpp): the table of  *)
(* breakpoints, its two indexes and the pool of debug registers, next to   *)
(* the parts of the target they describe: the instruction words of every   *)
(* process and the debug registers of every thread.                        *)
(*                                                                         *)
(* One action is one call of a public method.  A call runs to its end      *)
(* before the next one starts (the RPC server has one thread); what can    *)
(* interfere is the target, whose threads exit, and the kernel, which may  *)
(* refuse any access: reading or writing a word and a debug register fails *)
(* when the thread is gone and may fail when it is alive (it is running,   *)
(* the page cannot be accessed).                                           *)
(*                                                                         *)
(* A definition introduced by "Mistake" is not part of the model: it is    *)
(* the definition after it with a plausible bug, to show that a property   *)
(* would notice.                                                           *)
(***************************************************************************)
EXTENDS Integers, Functions

CONSTANTS
  Processes,     \* processes that are debugged one after the other
  Tids,          \* their threads
  ProcessOf,     \* the process of each thread
  Addresses,     \* addresses a client may name, aligned to a word or not
  Words,         \* instruction words
  BRK,           \* BRK_OPCODE
  NoWord,        \* the 0 stored as original instruction of a hardware breakpoint
  Pointer,       \* half of an address of the debugger, as a word
  Text,          \* the words of each process when nothing is patched
  Writable,      \* the addresses of each process in pages mapped writable
  NumRegisters,  \* debug registers the processor has, per thread
  MaxId          \* bound: breakpoint ids handed out

Aligned(a) == a % 4 = 0
AlignedAddresses == {a \in Addresses : Aligned(a)}

ASSUME ConstantsOK ==
  /\ ProcessOf \in [Tids -> Processes]
  /\ Addresses \subseteq Nat
  /\ {BRK, NoWord, Pointer} \subseteq Words
  /\ Text \in [Processes -> [AlignedAddresses -> Words]]
  /\ Writable \in [Processes -> SUBSET AlignedAddresses]
  /\ NumRegisters \in Nat
  /\ MaxId \in Nat

SOFTWARE == "software"
HardwareTypes == {"execution", "write", "readwrite"}
Types == {SOFTWARE} \cup HardwareTypes

Registers == 0 .. NumRegisters - 1
NoRegister == -1
NoAddress == -1
ProbeAddress == -2     \* test_address, at which no client sets a breakpoint

Ids == 1 .. MaxId

\* The map f with v stored under k.
Put(f, k, v) == [x \in DOMAIN f \cup {k} |-> IF x = k THEN v ELSE f[x]]

Breakpoint ==
  [tid : Tids, address : AlignedAddresses, type : Types, enabled : BOOLEAN,
   original : Words, register : Registers \cup {NoRegister}]

\* What one debug register of one thread holds.
DebugRegister ==
  [address : AlignedAddresses \cup {NoAddress, ProbeAddress},
   type : HardwareTypes, armed : BOOLEAN]
Idle  == [address |-> NoAddress, type |-> "execution", armed |-> FALSE]
Probe == [address |-> ProbeAddress, type |-> "execution", armed |-> TRUE]

VARIABLES
  breakpoints,     \* m_breakpoints_: id -> breakpoint
  tidBreakpoints,  \* m_tid_breakpoints_map_, a missing key read as {}
  addressIndex,    \* m_address_breakpoint_map_: address -> id
  freeRegisters,   \* m_free_hardware_registers_, a missing key read as {}
  registerCount,   \* m_hardware_registers_count_: tid -> count
  nextId,          \* m_next_breakpoint_id_
  code,            \* the target: instruction words of each process
  dbg,             \* the target: debug registers of each thread
  alive,           \* the target: threads that have not exited
  reply            \* the last call and what it returned

table    == <<breakpoints, tidBreakpoints, addressIndex, nextId>>
hardware == <<freeRegisters, registerCount, dbg>>
vars     == <<table, hardware, code, alive, reply>>

TypeOK ==
  /\ nextId \in 1 .. MaxId + 1
  /\ DOMAIN breakpoints \subseteq 1 .. nextId - 1
  /\ breakpoints \in [DOMAIN breakpoints -> Breakpoint]
  /\ tidBreakpoints \in [Tids -> SUBSET Ids]
  /\ DOMAIN addressIndex \subseteq AlignedAddresses
  /\ addressIndex \in [DOMAIN addressIndex -> Ids]
  /\ freeRegisters \in [Tids -> SUBSET Registers]
  /\ DOMAIN registerCount \subseteq Tids
  /\ registerCount \in [DOMAIN registerCount -> 0 .. NumRegisters]
  /\ code \in [Processes -> [AlignedAddresses -> Words]]
  /\ dbg \in [Tids -> [Registers -> DebugRegister]]
  /\ alive \subseteq Tids

Init ==
  /\ breakpoints = <<>>
  /\ tidBreakpoints = [t \in Tids |-> {}]
  /\ addressIndex = <<>>
  /\ freeRegisters = [t \in Tids |-> {}]
  /\ registerCount = <<>>
  /\ nextId = 1
  /\ code = Text
  /\ dbg = [t \in Tids |-> [r \in Registers |-> Idle]]
  /\ alive = Tids
  /\ reply = [op |-> "none", arg |-> 0, status |-> "ok"]

-----------------------------------------------------------------------------
(* Outcomes shared by the operations.                                      *)

Reply(op, arg, status) == reply' = [op |-> op, arg |-> arg, status |-> status]

\* The call returns without having changed anything.
Return(op, arg, status) ==
  /\ Reply(op, arg, status)
  /\ UNCHANGED <<table, hardware, code, alive>>

IsSoftware(b) == b.type = SOFTWARE

\* Mistake: a disabled breakpoint does not count.
DuplicateIfEnabled(a) ==
  \E id \in DOMAIN breakpoints : breakpoints[id].address = a /\ breakpoints[id].enabled

\* Mistake: a breakpoint of a process that has gone does not count.
DuplicateIfProcessLives(a) ==
  \E id \in DOMAIN breakpoints, t \in alive :
    breakpoints[id].address = a /\ ProcessOf[t] = ProcessOf[breakpoints[id].tid]

\* check_duplicate_breakpoint: whatever the process, thread, type or state.
Duplicate(a) == \E id \in DOMAIN breakpoints : breakpoints[id].address = a

\* Mistake: the next breakpoint gets the same id.
NewBreakpointSameId(t, a, type, original, r) ==
  /\ breakpoints' = Put(breakpoints, nextId,
                        [tid |-> t, address |-> a, type |-> type, enabled |-> TRUE,
                         original |-> original, register |-> r])
  /\ tidBreakpoints' = [tidBreakpoints EXCEPT ![t] = @ \cup {nextId}]
  /\ addressIndex' = Put(addressIndex, a, nextId)
  /\ UNCHANGED nextId

\* new_breakpoint: the record enters the table enabled and both indexes.
NewBreakpoint(t, a, type, original, r) ==
  /\ breakpoints' = Put(breakpoints, nextId,
                        [tid |-> t, address |-> a, type |-> type, enabled |-> TRUE,
                         original |-> original, register |-> r])
  /\ tidBreakpoints' = [tidBreakpoints EXCEPT ![t] = @ \cup {nextId}]
  /\ addressIndex' = Put(addressIndex, a, nextId)
  /\ nextId' = nextId + 1

\* Mistake: the thread's index keeps the id.
ForgetInTableOnly(id) ==
  /\ breakpoints' = Restrict(breakpoints, DOMAIN breakpoints \ {id})
  /\ UNCHANGED <<tidBreakpoints, addressIndex, nextId>>

\* The end of remove_breakpoint: the address index keeps its entry.
Forget(id) ==
  /\ breakpoints' = Restrict(breakpoints, DOMAIN breakpoints \ {id})
  /\ tidBreakpoints' = [tidBreakpoints EXCEPT ![breakpoints[id].tid] = @ \ {id}]
  /\ UNCHANGED <<addressIndex, nextId>>

\* write_memory of one word.  process_vm_writev writes to pages mapped writable
\* only; anywhere else PTRACE_POKEDATA is given the address of the word instead
\* of the word, and the two words at the address become that pointer.
WriteWord(t, a, w) ==
  LET p == ProcessOf[t] IN
  /\ t \in alive
  /\ \/ /\ a \in Writable[p]
        /\ code' = [code EXCEPT ![p][a] = w]
     \/ /\ a \notin Writable[p]
        /\ code' = [code EXCEPT ![p] =
             [x \in AlignedAddresses |-> IF x \in {a, a + 4} THEN Pointer ELSE code[p][x]]]

\* get_dbg and set_dbg with the enable bit of one register changed.
Arm(b, on) ==
  /\ b.tid \in alive
  /\ dbg' = [dbg EXCEPT ![b.tid][b.register].armed = on]

-----------------------------------------------------------------------------
(* The public methods.                                                     *)

\* Mistake: the word is read back after it was overwritten.
PatchNewReadsBack(t, a) ==
  /\ Aligned(a) /\ ~Duplicate(a)
  /\ WriteWord(t, a, BRK)
  /\ NewBreakpoint(t, a, SOFTWARE, code'[ProcessOf[t]][a], NoRegister)
  /\ Reply("set_software", a, "ok")
  /\ UNCHANGED <<hardware, alive>>

\* The tail of set_software_breakpoint: the word is read, then overwritten.
PatchNew(t, a) ==
  /\ Aligned(a) /\ ~Duplicate(a)
  /\ WriteWord(t, a, BRK)
  /\ NewBreakpoint(t, a, SOFTWARE, code[ProcessOf[t]][a], NoRegister)
  /\ Reply("set_software", a, "ok")
  /\ UNCHANGED <<hardware, alive>>

SetSoftwareBreakpoint(t, a) ==
  /\ nextId <= MaxId
  /\ \/ ~Aligned(a) /\ Return("set_software", a, "throw")
     \/ Aligned(a) /\ Return("set_software", a, "fail")   \* duplicate, or no access
     \/ PatchNew(t, a)

\* The tail of set_hardware_breakpoint: a register leaves the pool, is
\* programmed and given to the new breakpoint.  Its call of
\* init_hardware_register finds the thread probed and returns at once.
ProgramNew(t, a, type) ==
  /\ Aligned(a) /\ ~Duplicate(a) /\ t \in alive \cap DOMAIN registerCount
  /\ \E r \in freeRegisters[t] :
       /\ freeRegisters' = [freeRegisters EXCEPT ![t] = @ \ {r}]
       /\ dbg' = [dbg EXCEPT ![t][r] =
                    [address |-> a, type |-> type, armed |-> TRUE]]
       /\ NewBreakpoint(t, a, type, NoWord, r)
  /\ Reply("set_hardware", t, "ok")
  /\ UNCHANGED <<registerCount, code, alive>>

SetHardwareBreakpoint(t, a, type) ==
  /\ nextId <= MaxId
  /\ \/ ~Aligned(a) /\ Return("set_hardware", t, "throw")
     \/ Aligned(a) /\ Duplicate(a) /\ Return("set_hardware", t, "fail")
     \/ /\ Aligned(a) /\ ~Duplicate(a) /\ freeRegisters[t] = {}
        /\ Return("set_hardware", t, "no_register")
     \/ /\ Aligned(a) /\ ~Duplicate(a) /\ freeRegisters[t] # {}
        /\ Return("set_hardware", t, "fail")    \* set_dbg failed: register given back
     \/ ProgramNew(t, a, type)

\* Mistake: the breakpoint is forgotten although its word was not restored.
ForgetWithoutRestore(id) ==
  LET b == breakpoints[id] IN
  /\ IsSoftware(b)
  /\ WriteWord(b.tid, b.address, b.original) \/ UNCHANGED code
  /\ Forget(id)
  /\ UNCHANGED hardware

\* remove_breakpoint of a software breakpoint that is in the table.
RestoreAndForget(id) ==
  LET b == breakpoints[id] IN
  /\ IsSoftware(b)
  /\ WriteWord(b.tid, b.address, b.original)
  /\ Forget(id)
  /\ UNCHANGED hardware

\* Mistake: the register goes back to the pool only when it was disarmed.
KeepRegisterOnFailure(id) ==
  LET b == breakpoints[id] IN
  /\ ~IsSoftware(b)
  /\ \/ Arm(b, FALSE) /\ freeRegisters' = [freeRegisters EXCEPT ![b.tid] = @ \cup {b.register}]
     \/ UNCHANGED <<dbg, freeRegisters>>
  /\ Forget(id)
  /\ UNCHANGED <<registerCount, code>>

\* remove_breakpoint of a hardware breakpoint: the register goes back to the
\* pool whether or not the enable bit could be cleared.
DisarmAndForget(id) ==
  LET b == breakpoints[id] IN
  /\ ~IsSoftware(b)
  /\ Arm(b, FALSE) \/ UNCHANGED dbg
  /\ freeRegisters' = [freeRegisters EXCEPT ![b.tid] = @ \cup {b.register}]
  /\ Forget(id)
  /\ UNCHANGED <<registerCount, code>>

RemoveBreakpoint(id) ==
  \/ /\ id \in DOMAIN breakpoints => IsSoftware(breakpoints[id])
     /\ Return("remove", id, "fail")      \* unknown id, or the word is not restored
  \/ /\ id \in DOMAIN breakpoints
     /\ RestoreAndForget(id) \/ DisarmAndForget(id)
     /\ Reply("remove", id, "ok")
     /\ UNCHANGED alive

\* The target is changed first, the flag last.
SetEnabled(id, on) ==
  /\ breakpoints' = [breakpoints EXCEPT ![id].enabled = on]
  /\ UNCHANGED <<tidBreakpoints, addressIndex, nextId, freeRegisters, registerCount>>

\* Mistake: the flag changes although the word could not be written.
SwitchSoftwareFlagFirst(id, on) ==
  LET b == breakpoints[id] IN
  /\ IsSoftware(b)
  /\ WriteWord(b.tid, b.address, IF on THEN BRK ELSE b.original) \/ UNCHANGED code
  /\ SetEnabled(id, on)
  /\ UNCHANGED dbg

SwitchSoftware(id, on) ==
  LET b == breakpoints[id] IN
  /\ IsSoftware(b)
  /\ WriteWord(b.tid, b.address, IF on THEN BRK ELSE b.original)
  /\ SetEnabled(id, on)
  /\ UNCHANGED dbg

\* Mistake: the flag changes although the register could not be written.
SwitchHardwareFlagFirst(id, on) ==
  LET b == breakpoints[id] IN
  /\ ~IsSoftware(b)
  /\ Arm(b, on) \/ UNCHANGED dbg
  /\ SetEnabled(id, on)
  /\ UNCHANGED code

SwitchHardware(id, on) ==
  LET b == breakpoints[id] IN
  /\ ~IsSoftware(b)
  /\ Arm(b, on)
  /\ SetEnabled(id, on)
  /\ UNCHANGED code

\* The common shape of enable and disable; a breakpoint already in the wanted
\* state is left alone.
Switch(op, id, on) ==
  \/ /\ id \in DOMAIN breakpoints => breakpoints[id].enabled # on
     /\ Return(op, id, "fail")            \* unknown id, or the target refuses
  \/ /\ id \in DOMAIN breakpoints
     /\ breakpoints[id].enabled = on
     /\ Return(op, id, "ok")
  \/ /\ id \in DOMAIN breakpoints
     /\ breakpoints[id].enabled # on
     /\ SwitchSoftware(id, on) \/ SwitchHardware(id, on)
     /\ Reply(op, id, "ok")
     /\ UNCHANGED alive

Enable(id)  == Switch("enable", id, TRUE)
Disable(id) == Switch("disable", id, FALSE)

\* get_breakpoint(address) tests its iterator the wrong way round: a known
\* address yields nothing and an unknown one dereferences end(), where the
\* build either faults or returns nothing.
GetBreakpointAt(a) ==
  \/ Return("lookup", a, "fail")
  \/ a \notin DOMAIN addressIndex /\ Return("lookup", a, "crash")

\* init_hardware_register on a thread seen for the first time: the count is
\* recorded as 0 before anything can fail.  `status' is what the probe returns,
\* `count' how many registers read back as they were written, and a restore
\* that fails leaves the probe value behind in every register.
FirstProbe(t) ==
  \E status \in {"ok", "fail"}, count \in 0 .. NumRegisters, left \in BOOLEAN :
    /\ status = "ok" => (t \in alive /\ ~left)
    /\ (left \/ count # 0) => t \in alive
    /\ (status = "fail" /\ count # 0) => left     \* only the last restore failed
    /\ registerCount' = Put(registerCount, t, count)
    /\ freeRegisters' = IF status = "ok"
                        THEN [freeRegisters EXCEPT ![t] = @ \cup 0 .. count - 1]
                        ELSE freeRegisters
    /\ dbg' = IF left THEN [dbg EXCEPT ![t] = [r \in Registers |-> Probe]] ELSE dbg
    /\ Reply("count", t, status)
    /\ UNCHANGED <<table, code, alive>>

\* get_hardware_registers_count: probes once per thread.
GetHardwareRegistersCount(t) ==
  \/ t \notin DOMAIN registerCount /\ FirstProbe(t)
  \/ t \in DOMAIN registerCount /\ Return("count", t, "ok")

\* The environment: a thread of a target exits.
ThreadExits(t) ==
  /\ t \in alive
  /\ alive' = alive \ {t}
  /\ UNCHANGED <<table, hardware, code, reply>>

Operation ==
  \/ \E t \in Tids, a \in Addresses : SetSoftwareBreakpoint(t, a)
  \/ \E t \in Tids, a \in Addresses, type \in HardwareTypes :
       SetHardwareBreakpoint(t, a, type)
  \/ \E id \in Ids : RemoveBreakpoint(id) \/ Enable(id) \/ Disable(id)
  \/ \E a \in Addresses : GetBreakpointAt(a)
  \/ \E t \in Tids : GetHardwareRegistersCount(t)

Next ==
  \/ reply.status # "crash" /\ Operation
  \/ \E t \in Tids : ThreadExits(t)

Spec == Init /\ [][Next]_vars

-----------------------------------------------------------------------------
(* Correctness.                                                            *)

\* An enabled software breakpoint of process p sits at address a.
Patched(p, a) ==
  \E id \in DOMAIN breakpoints :
    /\ IsSoftware(breakpoints[id]) /\ breakpoints[id].enabled
    /\ breakpoints[id].address = a /\ ProcessOf[breakpoints[id].tid] = p

\* Writes to address a of process p, and to the word before it, are exact.
Exact(p, a) == {a, a - 4} \cap AlignedAddresses \subseteq Writable[p]

\* The target's text is its own except where an enabled software breakpoint of
\* that process sits, wherever words can be written at all: no sequence of set,
\* enable, disable and remove, in any order and with failures in between, leaves
\* a BRK behind, loses one, or restores anything but the original word
\* (set_software_breakpoint, remove_breakpoint, enable, disable).
CodeTransparent ==
  \A p \in Processes, a \in AlignedAddresses :
    Exact(p, a) => code[p][a] = IF Patched(p, a) THEN BRK ELSE Text[p][a]

\* What a software breakpoint would restore is the program's own word and never
\* the BRK of another breakpoint (original_instruction).
SavedOriginal ==
  \A id \in DOMAIN breakpoints :
    LET b == breakpoints[id] p == ProcessOf[b.tid] IN
    IsSoftware(b) /\ Exact(p, b.address) => b.original = Text[p][b.address]

\* No two breakpoints share an address (check_duplicate_breakpoint).
OneBreakpointPerAddress ==
  \A i, j \in DOMAIN breakpoints :
    breakpoints[i].address = breakpoints[j].address => i = j

\* A software breakpoint whose thread has gone.
Stale(id) == IsSoftware(breakpoints[id]) /\ breakpoints[id].tid \notin alive

\* A step leaves stale breakpoints alone, in the table and in every text.
StaleAreLeft ==
  \A id \in DOMAIN breakpoints :
    LET a == breakpoints[id].address IN
    Stale(id) =>
      /\ id \in DOMAIN breakpoints' /\ breakpoints'[id] = breakpoints[id]
      /\ \A other \in DOMAIN breakpoints' \ {id} : breakpoints'[other].address # a
      /\ \A p \in Processes : Exact(p, a) => code'[p][a] = code[p][a]

\* A software breakpoint whose thread has gone keeps its address for good: it can
\* be neither removed nor switched, nothing else is set at its address, and where
\* words can be written exactly the word there stays as it is in every process, so
\* that its BRK stays in while the rest of its process runs and none can be set in
\* the process debugged next (check_duplicate_breakpoint, remove_breakpoint,
\* enable, disable).
StaleKeepTheirAddress == [][StaleAreLeft]_vars

\* Both indexes lead to the table: a thread's set holds exactly the ids of its
\* breakpoints, and an address that has a breakpoint leads to that breakpoint,
\* stale entries of the address index notwithstanding.
IndexesAgree ==
  /\ \A t \in Tids :
       tidBreakpoints[t] = {id \in DOMAIN breakpoints : breakpoints[id].tid = t}
  /\ \A id \in DOMAIN breakpoints :
       /\ breakpoints[id].address \in DOMAIN addressIndex
       /\ addressIndex[breakpoints[id].address] = id

\* The registers of thread t that its breakpoints hold.
Owned(t) ==
  {breakpoints[id].register :
     id \in {i \in DOMAIN breakpoints :
               breakpoints[i].tid = t /\ ~IsSoftware(breakpoints[i])}}

\* A debug register is never lost and never has two owners: of the registers
\* counted for a thread each is either free or held by one breakpoint of that
\* thread (m_free_hardware_registers_ against hardware_register).  A probe that
\* failed after counting leaves no register free and none held.
RegisterAccounting ==
  /\ \A t \in Tids :
       /\ freeRegisters[t] \cap Owned(t) = {}
       /\ \/ freeRegisters[t] \cup Owned(t) = {}
          \/ /\ t \in DOMAIN registerCount
             /\ freeRegisters[t] \cup Owned(t) = 0 .. registerCount[t] - 1
  /\ \A i, j \in DOMAIN breakpoints :
       /\ ~IsSoftware(breakpoints[i]) /\ ~IsSoftware(breakpoints[j])
       /\ breakpoints[i].tid = breakpoints[j].tid
       /\ breakpoints[i].register = breakpoints[j].register
       => i = j

\* The register of a hardware breakpoint watches its address for its kind of
\* access, and is armed exactly when the breakpoint is enabled: no probe, no
\* other breakpoint and no failed call reprograms it (set_dbg, enable, disable).
ArmedMatches ==
  \A id \in DOMAIN breakpoints :
    LET b == breakpoints[id] IN
    ~IsSoftware(b) =>
      /\ b.register \in Registers
      /\ dbg[b.tid][b.register] =
           [address |-> b.address, type |-> b.type, armed |-> b.enabled]

=============================================================================
