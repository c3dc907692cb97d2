----------------------- MODULE BreakpointManagerProofs -----------------------
(***************************************************************************)
(* Proofs that BreakpointManager keeps its invariants for every set of     *)
(* processes, threads and addresses and any number of debug registers.     *)
(***************************************************************************)
EXTENDS BreakpointManagerPromise, TLAPS

(***************************************************************************)
(* The inductive invariant.  CodeTransparent alone is not inductive: what  *)
(* removing a breakpoint writes back is SavedOriginal's business, and that *)
(* no second breakpoint still needs the BRK is OneBreakpointPerAddress's.  *)
(***************************************************************************)
Inv ==
  /\ TypeOK
  /\ OneBreakpointPerAddress
  /\ SavedOriginal
  /\ CodeTransparent
  /\ IndexesAgree
  /\ RegisterAccounting
  /\ ArmedMatches

-----------------------------------------------------------------------------
(* The state changes a step can make.                                      *)

\* Every step either changes nothing but the reply or is one of eight changes.
Change ==
  \/ UNCHANGED <<table, hardware, code, alive>>
  \/ nextId <= MaxId /\ \E t \in Tids, a \in Addresses : PatchNew(t, a)
  \/ nextId <= MaxId /\ \E t \in Tids, a \in Addresses, type \in HardwareTypes :
       ProgramNew(t, a, type)
  \/ \E id \in DOMAIN breakpoints : RestoreAndForget(id) /\ UNCHANGED alive
  \/ \E id \in DOMAIN breakpoints : DisarmAndForget(id) /\ UNCHANGED alive
  \/ \E id \in DOMAIN breakpoints, on \in BOOLEAN :
       breakpoints[id].enabled # on /\ SwitchSoftware(id, on) /\ UNCHANGED alive
  \/ \E id \in DOMAIN breakpoints, on \in BOOLEAN :
       breakpoints[id].enabled # on /\ SwitchHardware(id, on) /\ UNCHANGED alive
  \/ \E t \in Tids : t \notin DOMAIN registerCount /\ FirstProbe(t)
  \/ \E t \in Tids : ThreadExits(t)

\* The public methods make no change that is not in Change.
LEMMA NextChanges == [Next]_vars => Change
<1>1. ASSUME Operation PROVE Change
  <2>1. CASE \E t \in Tids, a \in Addresses : SetSoftwareBreakpoint(t, a)
    BY <2>1 DEF SetSoftwareBreakpoint, Return, Change
  <2>2. CASE \E t \in Tids, a \in Addresses, type \in HardwareTypes :
               SetHardwareBreakpoint(t, a, type)
    BY <2>2 DEF SetHardwareBreakpoint, Return, Change
  <2>3. ASSUME NEW id \in Ids, RemoveBreakpoint(id) PROVE Change
    BY <2>3 DEF RemoveBreakpoint, Return, Change
  <2>4. ASSUME NEW id \in Ids, Enable(id) \/ Disable(id) PROVE Change
    BY <2>4 DEF Enable, Disable, Switch, Return, Change
  <2>5. CASE \E a \in Addresses : GetBreakpointAt(a)
    BY <2>5 DEF GetBreakpointAt, Return, Change
  <2>6. CASE \E t \in Tids : GetHardwareRegistersCount(t)
    BY <2>6 DEF GetHardwareRegistersCount, Return, Change
  <2> QED
    BY <1>1, <2>1, <2>2, <2>3, <2>4, <2>5, <2>6 DEF Operation
<1>2. CASE \E t \in Tids : ThreadExits(t)
  BY <1>2 DEF Change
<1>3. CASE UNCHANGED vars
  BY <1>3 DEF vars, Change
<1> QED
  BY <1>1, <1>2, <1>3 DEF Next

-----------------------------------------------------------------------------
(* Typing.                                                                 *)

\* A new breakpoint enters the table and the indexes well typed.
LEMMA NewTyped ==
  ASSUME ConstantsOK, TypeOK, nextId <= MaxId,
         NEW t \in Tids, NEW a \in AlignedAddresses, NEW type \in Types,
         NEW w \in Words, NEW r \in Registers \cup {NoRegister},
         NewBreakpoint(t, a, type, w, r)
  PROVE  /\ nextId' \in 1 .. MaxId + 1
         /\ DOMAIN breakpoints' \subseteq 1 .. nextId' - 1
         /\ breakpoints' \in [DOMAIN breakpoints' -> Breakpoint]
         /\ tidBreakpoints' \in [Tids -> SUBSET Ids]
         /\ DOMAIN addressIndex' \subseteq AlignedAddresses
         /\ addressIndex' \in [DOMAIN addressIndex' -> Ids]
<1>1. nextId \in Ids /\ nextId' = nextId + 1 /\ nextId' \in 1 .. MaxId + 1
  BY DEF ConstantsOK, TypeOK, NewBreakpoint, Ids
<1>2. [tid |-> t, address |-> a, type |-> type, enabled |-> TRUE,
       original |-> w, register |-> r] \in Breakpoint
  BY DEF Breakpoint
<1>3. /\ DOMAIN breakpoints' = DOMAIN breakpoints \cup {nextId}
      /\ breakpoints' \in [DOMAIN breakpoints' -> Breakpoint]
  BY <1>1, <1>2 DEF NewBreakpoint, Put, TypeOK
<1>4. /\ DOMAIN addressIndex' = DOMAIN addressIndex \cup {a}
      /\ addressIndex' \in [DOMAIN addressIndex' -> Ids]
  BY <1>1 DEF NewBreakpoint, Put, TypeOK
<1>5. DOMAIN breakpoints' \subseteq 1 .. nextId' - 1
  BY <1>1, <1>3 DEF TypeOK
<1>6. tidBreakpoints' \in [Tids -> SUBSET Ids]
  BY <1>1 DEF NewBreakpoint, TypeOK
<1> QED
  BY <1>1, <1>3, <1>4, <1>5, <1>6 DEF TypeOK

\* So does the table without an erased breakpoint.
LEMMA ForgetTyped ==
  ASSUME TypeOK, NEW id \in DOMAIN breakpoints, Forget(id)
  PROVE  /\ nextId' \in 1 .. MaxId + 1
         /\ DOMAIN breakpoints' \subseteq 1 .. nextId' - 1
         /\ breakpoints' \in [DOMAIN breakpoints' -> Breakpoint]
         /\ tidBreakpoints' \in [Tids -> SUBSET Ids]
         /\ DOMAIN addressIndex' \subseteq AlignedAddresses
         /\ addressIndex' \in [DOMAIN addressIndex' -> Ids]
  BY DEF Forget, Restrict, TypeOK, Breakpoint

\* Changing the enable bit of a register changes nothing else in the registers.
LEMMA ArmFacts ==
  ASSUME TypeOK, NEW b \in Breakpoint, b.register \in Registers,
         NEW on \in BOOLEAN, Arm(b, on)
  PROVE  /\ dbg' \in [Tids -> [Registers -> DebugRegister]]
         /\ dbg'[b.tid][b.register] = [dbg[b.tid][b.register] EXCEPT !.armed = on]
         /\ \A t \in Tids, r \in Registers :
              t # b.tid \/ r # b.register => dbg'[t][r] = dbg[t][r]
<1> DEFINE d == dbg[b.tid][b.register]
           e == [d EXCEPT !.armed = on]
<1>1. b.tid \in Tids /\ dbg[b.tid] \in [Registers -> DebugRegister]
  BY DEF Breakpoint, TypeOK
<1>2. d \in DebugRegister
  BY <1>1
<1>3. e \in DebugRegister
  BY <1>2 DEF DebugRegister
<1>4. dbg' = [dbg EXCEPT ![b.tid] = [dbg[b.tid] EXCEPT ![b.register] = e]]
  BY DEF Arm
<1> HIDE DEF d, e
<1>5. [dbg[b.tid] EXCEPT ![b.register] = e] \in [Registers -> DebugRegister]
  BY <1>1, <1>3
<1>6. dbg' \in [Tids -> [Registers -> DebugRegister]]
  BY <1>4, <1>5 DEF TypeOK
<1>7. dbg'[b.tid][b.register] = e
  BY <1>1, <1>4 DEF TypeOK
<1>8. \A t \in Tids, r \in Registers :
        t # b.tid \/ r # b.register => dbg'[t][r] = dbg[t][r]
  BY <1>1, <1>4 DEF TypeOK
<1> QED
  BY <1>6, <1>7, <1>8 DEF d, e

\* A word that a write of a page not mapped writable spoils is not exact.
LEMMA SpoiltIsNotExact ==
  ASSUME ConstantsOK, NEW p \in Processes, NEW a \in AlignedAddresses, a \notin Writable[p],
         NEW x \in AlignedAddresses, x \in {a, a + 4}
  PROVE  ~Exact(p, x)
<1>1. a \in Nat
  BY DEF AlignedAddresses, ConstantsOK
<1>2. a \in {x, x - 4}
  BY <1>1
<1> QED
  BY <1>2 DEF Exact

\* Writing a word changes no other word whose writes are exact.
LEMMA WriteFacts ==
  ASSUME ConstantsOK, TypeOK, NEW t \in Tids, NEW a \in AlignedAddresses,
         NEW w \in Words, WriteWord(t, a, w)
  PROVE  /\ code' \in [Processes -> [AlignedAddresses -> Words]]
         /\ \A q \in Processes, x \in AlignedAddresses :
              Exact(q, x) => code'[q][x] = IF q = ProcessOf[t] /\ x = a THEN w
                                           ELSE code[q][x]
<1> DEFINE p == ProcessOf[t]
<1>1. p \in Processes /\ Pointer \in Words
  BY DEF ConstantsOK
<1>2. CASE a \in Writable[p]
  <2>1. code' = [code EXCEPT ![p] = [code[p] EXCEPT ![a] = w]]
    BY <1>2 DEF WriteWord
  <2>2. [code[p] EXCEPT ![a] = w] \in [AlignedAddresses -> Words]
    BY <1>1 DEF TypeOK
  <2>3. code' \in [Processes -> [AlignedAddresses -> Words]]
    BY <1>1, <2>1, <2>2 DEF TypeOK
  <2>4. \A q \in Processes, x \in AlignedAddresses :
          code'[q][x] = IF q = p /\ x = a THEN w ELSE code[q][x]
    BY <1>1, <2>1 DEF TypeOK
  <2> QED BY <2>3, <2>4
<1>3. CASE a \notin Writable[p]
  <2> DEFINE spoilt == [x \in AlignedAddresses |->
                          IF x \in {a, a + 4} THEN Pointer ELSE code[p][x]]
  <2>1. code' = [code EXCEPT ![p] = spoilt]
    BY <1>3 DEF WriteWord
  <2>2. spoilt \in [AlignedAddresses -> Words]
    BY <1>1 DEF TypeOK
  <2>3. \A x \in AlignedAddresses : x \in {a, a + 4} => ~Exact(p, x)
    BY <1>1, <1>3, SpoiltIsNotExact
  <2>4. /\ \A q \in Processes : q # p => code'[q] = code[q]
        /\ code'[p] = spoilt
    BY <1>1, <2>1 DEF TypeOK
  <2>5. code' \in [Processes -> [AlignedAddresses -> Words]]
    BY <1>1, <2>1, <2>2 DEF TypeOK
  <2>6. \A x \in AlignedAddresses : x \notin {a, a + 4} => spoilt[x] = code[p][x]
    OBVIOUS
  <2> HIDE DEF spoilt
  <2> QED BY <2>3, <2>4, <2>5, <2>6
<1> QED BY <1>2, <1>3

\* The state after a change is well typed again.
LEMMA TypeStep ==
  ASSUME ConstantsOK, TypeOK, ArmedMatches, Change
  PROVE  TypeOK'
<1>1. CASE UNCHANGED <<table, hardware, code, alive>>
  BY <1>1 DEF table, hardware, TypeOK
<1>2. ASSUME nextId <= MaxId, NEW t \in Tids, NEW a \in Addresses, PatchNew(t, a)
      PROVE  TypeOK'
  <2>1. a \in AlignedAddresses /\ ProcessOf[t] \in Processes
    BY <1>2 DEF PatchNew, AlignedAddresses, ConstantsOK
  <2>2. code[ProcessOf[t]][a] \in Words /\ SOFTWARE \in Types
    BY <2>1 DEF TypeOK, Types
  <2>3. code' \in [Processes -> [AlignedAddresses -> Words]]
    BY <1>2, <2>1, WriteFacts DEF PatchNew, ConstantsOK
  <2> QED
    BY <1>2, <2>1, <2>2, <2>3, NewTyped DEF PatchNew, TypeOK, hardware
<1>3. ASSUME nextId <= MaxId, NEW t \in Tids, NEW a \in Addresses,
             NEW type \in HardwareTypes, ProgramNew(t, a, type)
      PROVE  TypeOK'
  <2>1. a \in AlignedAddresses /\ type \in Types /\ NoWord \in Words
    BY <1>3 DEF ProgramNew, AlignedAddresses, ConstantsOK, Types
  <2>2. PICK r \in freeRegisters[t] :
          /\ freeRegisters' = [freeRegisters EXCEPT ![t] = @ \ {r}]
          /\ dbg' = [dbg EXCEPT ![t][r] =
                       [address |-> a, type |-> type, armed |-> TRUE]]
          /\ NewBreakpoint(t, a, type, NoWord, r)
    BY <1>3 DEF ProgramNew
  <2>3. r \in Registers
    BY <2>2 DEF TypeOK
  <2>4. /\ freeRegisters' \in [Tids -> SUBSET Registers]
        /\ dbg' \in [Tids -> [Registers -> DebugRegister]]
    BY <2>1, <2>2, <2>3 DEF TypeOK, DebugRegister
  <2> QED
    BY <1>3, <2>1, <2>2, <2>3, <2>4, NewTyped DEF ProgramNew, TypeOK
<1>4. ASSUME NEW id \in DOMAIN breakpoints, RestoreAndForget(id), UNCHANGED alive
      PROVE  TypeOK'
  <2>1. breakpoints[id] \in Breakpoint
    BY DEF TypeOK
  <2>2. code' \in [Processes -> [AlignedAddresses -> Words]]
    BY <1>4, <2>1, WriteFacts DEF RestoreAndForget, Breakpoint
  <2> QED
    BY <1>4, <2>2, ForgetTyped DEF RestoreAndForget, hardware, TypeOK
<1>5. ASSUME NEW id \in DOMAIN breakpoints, DisarmAndForget(id), UNCHANGED alive
      PROVE  TypeOK'
  <2>1. breakpoints[id] \in Breakpoint /\ breakpoints[id].register \in Registers
    BY <1>5 DEF TypeOK, DisarmAndForget, ArmedMatches
  <2>2. dbg' \in [Tids -> [Registers -> DebugRegister]]
    BY <1>5, <2>1, ArmFacts DEF DisarmAndForget, TypeOK
  <2>3. freeRegisters' \in [Tids -> SUBSET Registers]
    BY <1>5, <2>1 DEF DisarmAndForget, Breakpoint, TypeOK
  <2> QED
    BY <1>5, <2>2, <2>3, ForgetTyped DEF DisarmAndForget, TypeOK
<1>6. ASSUME NEW id \in DOMAIN breakpoints, NEW on \in BOOLEAN,
             SwitchSoftware(id, on), UNCHANGED alive
      PROVE  TypeOK'
  <2>1. breakpoints[id] \in Breakpoint
    BY DEF TypeOK
  <2>2. code' \in [Processes -> [AlignedAddresses -> Words]]
    BY <1>6, <2>1, WriteFacts DEF SwitchSoftware, Breakpoint, ConstantsOK
  <2>3. /\ DOMAIN breakpoints' = DOMAIN breakpoints
        /\ breakpoints' \in [DOMAIN breakpoints -> Breakpoint]
    BY <1>6, <2>1 DEF SwitchSoftware, SetEnabled, Breakpoint, TypeOK
  <2> QED
    BY <1>6, <2>2, <2>3 DEF SwitchSoftware, SetEnabled, TypeOK
<1>7. ASSUME NEW id \in DOMAIN breakpoints, NEW on \in BOOLEAN,
             SwitchHardware(id, on), UNCHANGED alive
      PROVE  TypeOK'
  <2>1. breakpoints[id] \in Breakpoint /\ breakpoints[id].register \in Registers
    BY <1>7 DEF TypeOK, SwitchHardware, ArmedMatches
  <2>2. dbg' \in [Tids -> [Registers -> DebugRegister]]
    BY <1>7, <2>1, ArmFacts DEF SwitchHardware
  <2>3. /\ DOMAIN breakpoints' = DOMAIN breakpoints
        /\ breakpoints' \in [DOMAIN breakpoints -> Breakpoint]
    BY <1>7, <2>1 DEF SwitchHardware, SetEnabled, Breakpoint, TypeOK
  <2> QED
    BY <1>7, <2>2, <2>3 DEF SwitchHardware, SetEnabled, TypeOK
<1>8. ASSUME NEW t \in Tids, FirstProbe(t)
      PROVE  TypeOK'
  <2>1. PICK status \in {"ok", "fail"}, count \in 0 .. NumRegisters, left \in BOOLEAN :
          /\ registerCount' = Put(registerCount, t, count)
          /\ freeRegisters' =
               IF status = "ok" THEN [freeRegisters EXCEPT ![t] = @ \cup 0 .. count - 1]
                                ELSE freeRegisters
          /\ dbg' = IF left THEN [dbg EXCEPT ![t] = [r \in Registers |-> Probe]]
                            ELSE dbg
    BY <1>8 DEF FirstProbe
  <2>2. count \in 0 .. NumRegisters /\ 0 .. count - 1 \subseteq Registers
    BY DEF ConstantsOK, Registers
  <2>3. /\ DOMAIN registerCount' \subseteq Tids
        /\ registerCount' \in [DOMAIN registerCount' -> 0 .. NumRegisters]
    BY <2>1, <2>2 DEF Put, TypeOK
  <2>4. freeRegisters' \in [Tids -> SUBSET Registers]
    BY <2>1, <2>2 DEF TypeOK
  <2>5. Probe \in DebugRegister
    BY DEF Probe, DebugRegister, HardwareTypes
  <2>6. dbg' \in [Tids -> [Registers -> DebugRegister]]
    BY <2>1, <2>5 DEF TypeOK
  <2> QED
    BY <1>8, <2>3, <2>4, <2>6 DEF FirstProbe, table, TypeOK
<1>9. ASSUME NEW t \in Tids, ThreadExits(t)
      PROVE  TypeOK'
  BY <1>9 DEF ThreadExits, table, hardware, TypeOK
<1> QED
  BY <1>1, <1>2, <1>3, <1>4, <1>5, <1>6, <1>7, <1>8, <1>9 DEF Change

-----------------------------------------------------------------------------
(* The table under each change.                                            *)

\* new_breakpoint gives the next id to its record and touches no other.
LEMMA NewFacts ==
  ASSUME TypeOK, NEW t, NEW a, NEW type, NEW w, NEW r,
         NewBreakpoint(t, a, type, w, r)
  PROVE  /\ nextId \notin DOMAIN breakpoints
         /\ DOMAIN breakpoints' = DOMAIN breakpoints \cup {nextId}
         /\ breakpoints'[nextId] = [tid |-> t, address |-> a, type |-> type,
                                    enabled |-> TRUE, original |-> w, register |-> r]
         /\ \A id \in DOMAIN breakpoints : breakpoints'[id] = breakpoints[id]
<1>1. nextId \notin DOMAIN breakpoints
  BY DEF TypeOK
<1> QED
  BY <1>1 DEF NewBreakpoint, Put

\* Removing a breakpoint erases its record and touches no other.
LEMMA ForgetFacts ==
  ASSUME NEW id \in DOMAIN breakpoints, Forget(id)
  PROVE  /\ DOMAIN breakpoints' = DOMAIN breakpoints \ {id}
         /\ \A i \in DOMAIN breakpoints' : breakpoints'[i] = breakpoints[i]
  BY DEF Forget, Restrict

\* Switching a breakpoint changes its flag and no other field of the table.
LEMMA SwitchFacts ==
  ASSUME TypeOK, NEW id \in DOMAIN breakpoints, NEW on \in BOOLEAN, SetEnabled(id, on)
  PROVE  /\ DOMAIN breakpoints' = DOMAIN breakpoints
         /\ breakpoints'[id] = [breakpoints[id] EXCEPT !.enabled = on]
         /\ \A i \in DOMAIN breakpoints : i # id => breakpoints'[i] = breakpoints[i]
         /\ \A i \in DOMAIN breakpoints :
              /\ breakpoints'[i].tid = breakpoints[i].tid
              /\ breakpoints'[i].address = breakpoints[i].address
              /\ breakpoints'[i].type = breakpoints[i].type
              /\ breakpoints'[i].original = breakpoints[i].original
              /\ breakpoints'[i].register = breakpoints[i].register
              /\ breakpoints'[i].enabled = (IF i = id THEN on ELSE breakpoints[i].enabled)
<1>1. /\ DOMAIN breakpoints' = DOMAIN breakpoints
      /\ breakpoints'[id] = [breakpoints[id] EXCEPT !.enabled = on]
      /\ \A i \in DOMAIN breakpoints : i # id => breakpoints'[i] = breakpoints[i]
  BY DEF SetEnabled, TypeOK
<1>2. breakpoints[id] \in Breakpoint
  BY DEF TypeOK
<1> QED
  BY <1>1, <1>2 DEF Breakpoint

\* The same, field by field.
LEMMA SwitchFields ==
  ASSUME TypeOK, NEW id \in DOMAIN breakpoints, NEW on \in BOOLEAN, SetEnabled(id, on)
  PROVE  /\ DOMAIN breakpoints' = DOMAIN breakpoints
         /\ \A i \in DOMAIN breakpoints : i # id => breakpoints'[i] = breakpoints[i]
         /\ \A i \in DOMAIN breakpoints :
              /\ breakpoints'[i].tid = breakpoints[i].tid
              /\ breakpoints'[i].address = breakpoints[i].address
              /\ breakpoints'[i].type = breakpoints[i].type
              /\ breakpoints'[i].register = breakpoints[i].register
              /\ breakpoints'[i].enabled = (IF i = id THEN on ELSE breakpoints[i].enabled)
<1>1. /\ DOMAIN breakpoints' = DOMAIN breakpoints
      /\ \A i \in DOMAIN breakpoints : i # id => breakpoints'[i] = breakpoints[i]
  BY DEF SetEnabled
<1>2. breakpoints'[id] = [breakpoints[id] EXCEPT !.enabled = on]
  BY DEF SetEnabled
<1>3. breakpoints[id] \in Breakpoint
  BY DEF TypeOK
<1>4. /\ breakpoints'[id].tid = breakpoints[id].tid
      /\ breakpoints'[id].address = breakpoints[id].address
      /\ breakpoints'[id].type = breakpoints[id].type
      /\ breakpoints'[id].register = breakpoints[id].register
      /\ breakpoints'[id].enabled = on
  BY <1>2, <1>3 DEF Breakpoint
<1> HIDE <1>2
<1> QED
  BY <1>1, <1>4

-----------------------------------------------------------------------------
(* The text of the target.                                                 *)

\* A change keeps the addresses of breakpoints distinct.
LEMMA AddressStep ==
  ASSUME TypeOK, OneBreakpointPerAddress, Change
  PROVE  OneBreakpointPerAddress'
<1>1. ASSUME NEW t \in Tids, NEW a \in Addresses, NEW type, NEW w, NEW r,
             ~Duplicate(a), NewBreakpoint(t, a, type, w, r)
      PROVE  OneBreakpointPerAddress'
  <2>1. /\ DOMAIN breakpoints' = DOMAIN breakpoints \cup {nextId}
        /\ breakpoints'[nextId] = [tid |-> t, address |-> a, type |-> type,
              enabled |-> TRUE, original |-> w, register |-> r]
        /\ \A id \in DOMAIN breakpoints : breakpoints'[id] = breakpoints[id]
    BY <1>1, NewFacts
  <2>2. breakpoints'[nextId].address = a
    BY <2>1
  <2>3. \A id \in DOMAIN breakpoints : breakpoints'[id].address # a
    BY <1>1, <2>1 DEF Duplicate
  <2> QED
    BY <2>1, <2>2, <2>3 DEF OneBreakpointPerAddress
<1>2. ASSUME NEW id \in DOMAIN breakpoints, Forget(id)
      PROVE  OneBreakpointPerAddress'
  BY <1>2, ForgetFacts DEF OneBreakpointPerAddress
<1>3. ASSUME NEW id \in DOMAIN breakpoints, NEW on \in BOOLEAN, SetEnabled(id, on)
      PROVE  OneBreakpointPerAddress'
  <2>1. /\ DOMAIN breakpoints' = DOMAIN breakpoints
        /\ \A i \in DOMAIN breakpoints :
             breakpoints'[i].address = breakpoints[i].address
    BY <1>3, SwitchFacts
  <2> QED
    BY <2>1 DEF OneBreakpointPerAddress
<1>4. CASE UNCHANGED breakpoints
  BY <1>4 DEF OneBreakpointPerAddress
<1>5. ASSUME NEW t \in Tids, NEW a \in Addresses, PatchNew(t, a)
      PROVE  OneBreakpointPerAddress'
  BY <1>1, <1>5 DEF PatchNew
<1>6. ASSUME NEW t \in Tids, NEW a \in Addresses, NEW type \in HardwareTypes,
             ProgramNew(t, a, type)
      PROVE  OneBreakpointPerAddress'
  BY <1>1, <1>6 DEF ProgramNew
<1> QED
  BY <1>2, <1>3, <1>4, <1>5, <1>6
  DEF Change, RestoreAndForget, DisarmAndForget, SwitchSoftware, SwitchHardware,
      FirstProbe, ThreadExits, table

\* At an address without a breakpoint the program's own word is in place.
LEMMA Unpatched ==
  ASSUME CodeTransparent, NEW p \in Processes, NEW a \in AlignedAddresses,
         ~Duplicate(a), Exact(p, a)
  PROVE  code[p][a] = Text[p][a]
  BY DEF CodeTransparent, Patched, Duplicate

\* A change keeps SavedOriginal: the word read when a breakpoint is set is the
\* program's own, because no breakpoint was at that address.
LEMMA OriginalStep ==
  ASSUME ConstantsOK, TypeOK, CodeTransparent, SavedOriginal, Change
  PROVE  SavedOriginal'
<1>1. ASSUME NEW t \in Tids, NEW a \in Addresses, PatchNew(t, a)
      PROVE  SavedOriginal'
  <2>1. a \in AlignedAddresses /\ ProcessOf[t] \in Processes
    BY <1>1 DEF PatchNew, AlignedAddresses, ConstantsOK
  <2>2. Exact(ProcessOf[t], a) => code[ProcessOf[t]][a] = Text[ProcessOf[t]][a]
    BY <1>1, <2>1, Unpatched DEF PatchNew
  <2>3. NewBreakpoint(t, a, SOFTWARE, code[ProcessOf[t]][a], NoRegister)
    BY <1>1 DEF PatchNew
  <2>4. /\ DOMAIN breakpoints' = DOMAIN breakpoints \cup {nextId}
        /\ breakpoints'[nextId] = [tid |-> t, address |-> a, type |-> SOFTWARE,
              enabled |-> TRUE, original |-> code[ProcessOf[t]][a], register |-> NoRegister]
        /\ \A id \in DOMAIN breakpoints : breakpoints'[id] = breakpoints[id]
    BY <2>3 DEF NewBreakpoint, Put, TypeOK
  <2> SUFFICES ASSUME NEW i \in DOMAIN breakpoints', breakpoints'[i].type = SOFTWARE,
                      Exact(ProcessOf[breakpoints'[i].tid], breakpoints'[i].address)
               PROVE  breakpoints'[i].original
                        = Text[ProcessOf[breakpoints'[i].tid]][breakpoints'[i].address]
    BY DEF SavedOriginal, IsSoftware, SOFTWARE, Exact
  <2>5. CASE i = nextId
    BY <2>2, <2>4, <2>5
  <2>6. CASE i \in DOMAIN breakpoints
    BY <2>4, <2>6 DEF SavedOriginal, IsSoftware
  <2> QED
    BY <2>4, <2>5, <2>6
<1>2. ASSUME NEW t \in Tids, NEW a \in Addresses, NEW type \in HardwareTypes,
             ProgramNew(t, a, type)
      PROVE  SavedOriginal'
  <2>1. PICK r \in freeRegisters[t] : NewBreakpoint(t, a, type, NoWord, r)
    BY <1>2 DEF ProgramNew
  <2>2. type # SOFTWARE
    BY DEF HardwareTypes, SOFTWARE
  <2>3. /\ DOMAIN breakpoints' = DOMAIN breakpoints \cup {nextId}
        /\ breakpoints'[nextId] = [tid |-> t, address |-> a, type |-> type,
              enabled |-> TRUE, original |-> NoWord, register |-> r]
        /\ \A id \in DOMAIN breakpoints : breakpoints'[id] = breakpoints[id]
    BY <2>1 DEF NewBreakpoint, Put, TypeOK
  <2> SUFFICES ASSUME NEW i \in DOMAIN breakpoints', breakpoints'[i].type = SOFTWARE,
                      Exact(ProcessOf[breakpoints'[i].tid], breakpoints'[i].address)
               PROVE  breakpoints'[i].original
                        = Text[ProcessOf[breakpoints'[i].tid]][breakpoints'[i].address]
    BY DEF SavedOriginal, IsSoftware, SOFTWARE, Exact
  <2>4. CASE i = nextId
    BY <2>2, <2>3, <2>4
  <2>5. CASE i \in DOMAIN breakpoints
    BY <2>3, <2>5 DEF SavedOriginal, IsSoftware
  <2> QED
    BY <2>3, <2>4, <2>5
<1>3. ASSUME NEW id \in DOMAIN breakpoints, Forget(id)
      PROVE  SavedOriginal'
  BY <1>3, ForgetFacts DEF SavedOriginal, IsSoftware, Exact
<1>4. ASSUME NEW id \in DOMAIN breakpoints, NEW on \in BOOLEAN, SetEnabled(id, on)
      PROVE  SavedOriginal'
  <2>1. /\ DOMAIN breakpoints' = DOMAIN breakpoints
        /\ \A i \in DOMAIN breakpoints :
             /\ breakpoints'[i].tid = breakpoints[i].tid
             /\ breakpoints'[i].address = breakpoints[i].address
             /\ breakpoints'[i].type = breakpoints[i].type
             /\ breakpoints'[i].original = breakpoints[i].original
    BY <1>4, SwitchFacts
  <2> QED
    BY <2>1 DEF SavedOriginal, IsSoftware, Exact
<1>5. CASE UNCHANGED breakpoints
  BY <1>5 DEF SavedOriginal, IsSoftware, Exact
<1> QED
  BY <1>1, <1>2, <1>3, <1>4, <1>5
  DEF Change, RestoreAndForget, DisarmAndForget,
      SwitchSoftware, SwitchHardware, FirstProbe, ThreadExits, table

\* A change that leaves the text alone and the software breakpoints as they are
\* keeps the text as it should be.
LEMMA SoftwareUntouched ==
  ASSUME CodeTransparent, UNCHANGED code,
         \A i : (i \in DOMAIN breakpoints /\ breakpoints[i].type = SOFTWARE)
                <=> (i \in DOMAIN breakpoints' /\ breakpoints'[i].type = SOFTWARE),
         \A i \in DOMAIN breakpoints \cap DOMAIN breakpoints' :
           breakpoints[i].type = SOFTWARE => breakpoints'[i] = breakpoints[i]
  PROVE  CodeTransparent'
<1>1. \A p \in Processes, a \in AlignedAddresses : Patched(p, a)' <=> Patched(p, a)
  BY DEF Patched, IsSoftware
<1> QED
  BY <1>1 DEF CodeTransparent, Exact

\* Whether writes are exact is fixed.
LEMMA ExactStays == \A p, a : Exact(p, a)' <=> Exact(p, a)
  BY DEF Exact

\* A change keeps the text as it should be.
LEMMA CodeStep ==
  ASSUME ConstantsOK, TypeOK, OneBreakpointPerAddress, SavedOriginal,
         CodeTransparent, Change
  PROVE  CodeTransparent'
<1>1. ASSUME NEW t \in Tids, NEW a \in Addresses, PatchNew(t, a)
      PROVE  CodeTransparent'
  <2> DEFINE p == ProcessOf[t]
  <2>1. a \in AlignedAddresses /\ p \in Processes
    BY <1>1 DEF PatchNew, AlignedAddresses, ConstantsOK
  <2>2. /\ DOMAIN breakpoints' = DOMAIN breakpoints \cup {nextId}
        /\ breakpoints'[nextId] = [tid |-> t, address |-> a, type |-> SOFTWARE,
              enabled |-> TRUE, original |-> code[p][a], register |-> NoRegister]
        /\ \A id \in DOMAIN breakpoints : breakpoints'[id] = breakpoints[id]
    BY <1>1 DEF PatchNew, NewBreakpoint, Put, TypeOK
  <2>3. Patched(p, a)'
    BY <2>2 DEF Patched, IsSoftware
  <2>4. \A q \in Processes, x \in AlignedAddresses :
          q # p \/ x # a => (Patched(q, x)' <=> Patched(q, x))
    BY <2>2 DEF Patched, IsSoftware
  <2>5. \A q \in Processes, x \in AlignedAddresses :
          Exact(q, x) => code'[q][x] = IF q = p /\ x = a THEN BRK ELSE code[q][x]
    <3>1. BRK \in Words /\ WriteWord(t, a, BRK)
      BY <1>1 DEF PatchNew, ConstantsOK
    <3> QED
      BY <2>1, <3>1, WriteFacts
  <2> HIDE DEF p
  <2> SUFFICES ASSUME NEW q \in Processes, NEW x \in AlignedAddresses, Exact(q, x)
               PROVE  code'[q][x] = IF Patched(q, x)' THEN BRK ELSE Text[q][x]
    BY ExactStays DEF CodeTransparent
  <2>6. CASE q = p /\ x = a
    BY <2>1, <2>3, <2>5, <2>6
  <2>7. CASE q # p \/ x # a
    BY <2>4, <2>5, <2>7 DEF CodeTransparent
  <2> QED
    BY <2>6, <2>7
<1>2. ASSUME NEW t \in Tids, NEW a \in Addresses, NEW type \in HardwareTypes,
             ProgramNew(t, a, type)
      PROVE  CodeTransparent'
  <2>1. PICK r \in freeRegisters[t] : NewBreakpoint(t, a, type, NoWord, r)
    BY <1>2 DEF ProgramNew
  <2>2. /\ DOMAIN breakpoints' = DOMAIN breakpoints \cup {nextId}
        /\ nextId \notin DOMAIN breakpoints
        /\ breakpoints'[nextId].type = type
        /\ \A id \in DOMAIN breakpoints : breakpoints'[id] = breakpoints[id]
    BY <2>1 DEF NewBreakpoint, Put, TypeOK
  <2>3. type # SOFTWARE
    BY DEF HardwareTypes, SOFTWARE
  <2> QED
    BY <1>2, <2>2, <2>3, SoftwareUntouched DEF ProgramNew
<1>3. ASSUME NEW id \in DOMAIN breakpoints, RestoreAndForget(id)
      PROVE  CodeTransparent'
  <2>1. PICK p \in Processes, a \in AlignedAddresses :
          p = ProcessOf[breakpoints[id].tid] /\ a = breakpoints[id].address
    BY DEF TypeOK, Breakpoint, ConstantsOK
  <2>2. /\ DOMAIN breakpoints' = DOMAIN breakpoints \ {id}
        /\ \A i \in DOMAIN breakpoints' : breakpoints'[i] = breakpoints[i]
    BY <1>3, ForgetFacts DEF RestoreAndForget
  <2>3. ~Patched(p, a)'
    BY <2>1, <2>2 DEF Patched, OneBreakpointPerAddress
  <2>4. \A q \in Processes, x \in AlignedAddresses :
          q # p \/ x # a => (Patched(q, x)' <=> Patched(q, x))
    BY <2>1, <2>2 DEF Patched, IsSoftware
  <2>5. PICK w \in Words : w = breakpoints[id].original
    BY DEF TypeOK, Breakpoint
  <2>6. Exact(p, a) => w = Text[p][a]
    BY <1>3, <2>1, <2>5 DEF RestoreAndForget, SavedOriginal
  <2>7. PICK t \in Tids : t = breakpoints[id].tid
    BY DEF TypeOK, Breakpoint
  <2>8. WriteWord(t, a, w)
    BY <1>3, <2>1, <2>5, <2>7 DEF RestoreAndForget
  <2>9. \A q \in Processes, x \in AlignedAddresses :
          Exact(q, x) => code'[q][x] = IF q = p /\ x = a THEN w ELSE code[q][x]
    BY <2>1, <2>7, <2>8, WriteFacts
  <2> QED
    BY <2>1, <2>3, <2>4, <2>6, <2>9, ExactStays DEF CodeTransparent
<1>4. ASSUME NEW id \in DOMAIN breakpoints, DisarmAndForget(id)
      PROVE  CodeTransparent'
  <2>1. /\ DOMAIN breakpoints' = DOMAIN breakpoints \ {id}
        /\ \A i \in DOMAIN breakpoints' : breakpoints'[i] = breakpoints[i]
    BY <1>4, ForgetFacts DEF DisarmAndForget
  <2> QED
    BY <1>4, <2>1, SoftwareUntouched DEF DisarmAndForget, IsSoftware
<1>5. ASSUME NEW id \in DOMAIN breakpoints, NEW on \in BOOLEAN, SwitchSoftware(id, on)
      PROVE  CodeTransparent'
  <2>0. SetEnabled(id, on)
    BY <1>5 DEF SwitchSoftware
  <2>1. PICK p \in Processes, a \in AlignedAddresses :
          p = ProcessOf[breakpoints[id].tid] /\ a = breakpoints[id].address
    BY DEF TypeOK, Breakpoint, ConstantsOK
  <2>2. /\ DOMAIN breakpoints' = DOMAIN breakpoints
        /\ \A i \in DOMAIN breakpoints :
             /\ breakpoints'[i].tid = breakpoints[i].tid
             /\ breakpoints'[i].address = breakpoints[i].address
             /\ breakpoints'[i].type = breakpoints[i].type
             /\ breakpoints'[i].enabled = (IF i = id THEN on ELSE breakpoints[i].enabled)
    BY <2>0, SwitchFields
  <2>3. Patched(p, a)' <=> on
    BY <1>5, <2>1, <2>2 DEF SwitchSoftware, Patched, IsSoftware, OneBreakpointPerAddress
  <2>4. \A q \in Processes, x \in AlignedAddresses :
          q # p \/ x # a => (Patched(q, x)' <=> Patched(q, x))
    BY <2>1, <2>2 DEF Patched, IsSoftware
  <2>5. PICK w \in Words : w = IF on THEN BRK ELSE breakpoints[id].original
    BY DEF TypeOK, Breakpoint, ConstantsOK
  <2>6. Exact(p, a) => w = IF on THEN BRK ELSE Text[p][a]
    BY <1>5, <2>1, <2>5 DEF SwitchSoftware, SavedOriginal
  <2>7. PICK t \in Tids : t = breakpoints[id].tid
    BY DEF TypeOK, Breakpoint
  <2>8. WriteWord(t, a, w)
    BY <1>5, <2>1, <2>5, <2>7 DEF SwitchSoftware
  <2>9. \A q \in Processes, x \in AlignedAddresses :
          Exact(q, x) => code'[q][x] = IF q = p /\ x = a THEN w ELSE code[q][x]
    BY <2>1, <2>7, <2>8, WriteFacts
  <2> QED
    BY <2>1, <2>3, <2>4, <2>6, <2>9, ExactStays DEF CodeTransparent
<1>6. ASSUME NEW id \in DOMAIN breakpoints, NEW on \in BOOLEAN, SwitchHardware(id, on)
      PROVE  CodeTransparent'
  <2>0. SetEnabled(id, on)
    BY <1>6 DEF SwitchHardware
  <2>1. /\ DOMAIN breakpoints' = DOMAIN breakpoints
        /\ \A i \in DOMAIN breakpoints :
             /\ i # id => breakpoints'[i] = breakpoints[i]
             /\ breakpoints'[i].type = breakpoints[i].type
    BY <2>0, SwitchFields
  <2>2. breakpoints[id].type # SOFTWARE
    BY <1>6 DEF SwitchHardware, IsSoftware
  <2> QED
    BY <1>6, <2>1, <2>2, SoftwareUntouched DEF SwitchHardware
<1>7. CASE UNCHANGED <<breakpoints, code>>
  BY <1>7 DEF CodeTransparent, Patched, IsSoftware, Exact
<1> QED
  BY <1>1, <1>2, <1>3, <1>4, <1>5, <1>6, <1>7
  DEF Change, FirstProbe, ThreadExits, table

-----------------------------------------------------------------------------
(* The indexes.                                                            *)

\* A change keeps both indexes in step with the table.
LEMMA IndexStep ==
  ASSUME ConstantsOK, TypeOK, OneBreakpointPerAddress, IndexesAgree, Change
  PROVE  IndexesAgree'
<1>1. ASSUME NEW t \in Tids, NEW a \in Addresses, NEW type, NEW r,
             ~Duplicate(a), \E w : NewBreakpoint(t, a, type, w, r)
      PROVE  IndexesAgree'
  <2>1. /\ nextId \notin DOMAIN breakpoints
        /\ DOMAIN breakpoints' = DOMAIN breakpoints \cup {nextId}
        /\ breakpoints'[nextId].tid = t
        /\ breakpoints'[nextId].address = a
        /\ \A id \in DOMAIN breakpoints : breakpoints'[id] = breakpoints[id]
    BY <1>1 DEF NewBreakpoint, Put, TypeOK
  <2>2. /\ tidBreakpoints' = [tidBreakpoints EXCEPT ![t] = @ \cup {nextId}]
        /\ DOMAIN addressIndex' = DOMAIN addressIndex \cup {a}
        /\ addressIndex'[a] = nextId
        /\ \A x \in DOMAIN addressIndex : x # a => addressIndex'[x] = addressIndex[x]
    BY <1>1 DEF NewBreakpoint, Put
  <2>3. \A s \in Tids :
          tidBreakpoints'[s] = {id \in DOMAIN breakpoints' : breakpoints'[id].tid = s}
    BY <2>1, <2>2 DEF IndexesAgree, TypeOK
  <2>4. \A id \in DOMAIN breakpoints : breakpoints[id].address # a
    BY <1>1 DEF Duplicate
  <2>5. \A id \in DOMAIN breakpoints' :
          /\ breakpoints'[id].address \in DOMAIN addressIndex'
          /\ addressIndex'[breakpoints'[id].address] = id
    BY <2>1, <2>2, <2>4 DEF IndexesAgree
  <2> QED
    BY <2>3, <2>5 DEF IndexesAgree
<1>2. ASSUME NEW id \in DOMAIN breakpoints, Forget(id)
      PROVE  IndexesAgree'
  <2>1. /\ DOMAIN breakpoints' = DOMAIN breakpoints \ {id}
        /\ \A i \in DOMAIN breakpoints' : breakpoints'[i] = breakpoints[i]
    BY <1>2, ForgetFacts
  <2>2. breakpoints[id].tid \in Tids
    BY DEF TypeOK, Breakpoint
  <2>3. \A t \in Tids : tidBreakpoints'[t] =
          IF t = breakpoints[id].tid THEN tidBreakpoints[t] \ {id} ELSE tidBreakpoints[t]
    BY <1>2, <2>2 DEF Forget, TypeOK
  <2>4. ASSUME NEW t \in Tids
        PROVE  tidBreakpoints'[t] = {i \in DOMAIN breakpoints' : breakpoints'[i].tid = t}
    <3>1. tidBreakpoints[t] = {i \in DOMAIN breakpoints : breakpoints[i].tid = t}
      BY DEF IndexesAgree
    <3>2. tidBreakpoints'[t] = tidBreakpoints[t] \ {id}
      <4>1. CASE t = breakpoints[id].tid
        BY <2>3, <4>1
      <4>2. CASE t # breakpoints[id].tid
        BY <2>3, <3>1, <4>2
      <4> QED
        BY <4>1, <4>2
    <3>3. \A i \in DOMAIN breakpoints \ {id} : breakpoints'[i].tid = breakpoints[i].tid
      BY <2>1
    <3> QED
      BY <2>1, <3>1, <3>2, <3>3
  <2>5. \A i \in DOMAIN breakpoints' :
          /\ breakpoints'[i].address \in DOMAIN addressIndex'
          /\ addressIndex'[breakpoints'[i].address] = i
    BY <1>2, <2>1 DEF Forget, IndexesAgree
  <2> QED
    BY <2>4, <2>5 DEF IndexesAgree
<1>3. ASSUME NEW id \in DOMAIN breakpoints, NEW on \in BOOLEAN, SetEnabled(id, on)
      PROVE  IndexesAgree'
  <2>1. /\ DOMAIN breakpoints' = DOMAIN breakpoints
        /\ \A i \in DOMAIN breakpoints :
             /\ breakpoints'[i].tid = breakpoints[i].tid
             /\ breakpoints'[i].address = breakpoints[i].address
    BY <1>3, SwitchFacts
  <2> QED
    BY <1>3, <2>1 DEF SetEnabled, IndexesAgree
<1>4. CASE UNCHANGED <<breakpoints, tidBreakpoints, addressIndex>>
  BY <1>4 DEF IndexesAgree
<1>5. ASSUME NEW t \in Tids, NEW a \in Addresses, PatchNew(t, a)
      PROVE  IndexesAgree'
  BY <1>1, <1>5 DEF PatchNew
<1>6. ASSUME NEW t \in Tids, NEW a \in Addresses, NEW type \in HardwareTypes,
             ProgramNew(t, a, type)
      PROVE  IndexesAgree'
  BY <1>1, <1>6 DEF ProgramNew
<1> QED
  BY <1>2, <1>3, <1>4, <1>5, <1>6
  DEF Change, RestoreAndForget, DisarmAndForget, SwitchSoftware, SwitchHardware,
      FirstProbe, ThreadExits, table

-----------------------------------------------------------------------------
(* The debug registers.                                                    *)

\* Breakpoint i holds register r of thread t.
Holds(i, t, r) ==
  /\ i \in DOMAIN breakpoints
  /\ breakpoints[i].type # SOFTWARE
  /\ breakpoints[i].tid = t
  /\ breakpoints[i].register = r

\* Owned in terms of Holds.
LEMMA OwnedHolds ==
  ASSUME NEW t, NEW r
  PROVE  r \in Owned(t) <=> \E i : Holds(i, t, r)
  BY DEF Owned, Holds, IsSoftware

\* The registers of thread t in terms of Holds.
AccountOf(t) ==
  /\ \A r \in freeRegisters[t] : \A i : ~Holds(i, t, r)
  /\ \/ freeRegisters[t] = {} /\ \A r, i : ~Holds(i, t, r)
     \/ /\ t \in DOMAIN registerCount
        /\ freeRegisters[t] \subseteq 0 .. registerCount[t] - 1
        /\ \A r, i : Holds(i, t, r) => r \in 0 .. registerCount[t] - 1
        /\ \A r \in 0 .. registerCount[t] - 1 :
             r \in freeRegisters[t] \/ \E i : Holds(i, t, r)

\* RegisterAccounting in terms of Holds.
Accounting ==
  /\ \A t \in Tids : AccountOf(t)
  /\ \A i, j, t, r : Holds(i, t, r) /\ Holds(j, t, r) => i = j

LEMMA AccountingHolds == RegisterAccounting <=> Accounting
<1> DEFINE C(t) == 0 .. registerCount[t] - 1
           F(t) == freeRegisters[t]
<1>1. \A t : F(t) \cap Owned(t) = {} <=> \A r \in F(t) : \A i : ~Holds(i, t, r)
  BY OwnedHolds
<1>2. \A t : F(t) \cup Owned(t) = {} <=> F(t) = {} /\ \A r, i : ~Holds(i, t, r)
  BY OwnedHolds
<1>3. \A t : F(t) \cup Owned(t) = C(t) <=>
               /\ F(t) \subseteq C(t)
               /\ \A r, i : Holds(i, t, r) => r \in C(t)
               /\ \A r \in C(t) : r \in F(t) \/ \E i : Holds(i, t, r)
  <2> HIDE DEF C, F
  <2> QED BY OwnedHolds
<1>4. (\A i, j \in DOMAIN breakpoints :
         /\ ~IsSoftware(breakpoints[i]) /\ ~IsSoftware(breakpoints[j])
         /\ breakpoints[i].tid = breakpoints[j].tid
         /\ breakpoints[i].register = breakpoints[j].register
         => i = j)
      <=> \A i, j, t, r : Holds(i, t, r) /\ Holds(j, t, r) => i = j
  BY DEF Holds, IsSoftware
<1> QED
  BY <1>1, <1>2, <1>3, <1>4 DEF RegisterAccounting, Accounting, AccountOf

SameHolders == \A i, t, r : Holds(i, t, r)' <=> Holds(i, t, r)

\* Register q of thread s leaves the pool for the breakpoint that gets the next id.
Allotted(s, q) ==
  /\ q \in freeRegisters[s]
  /\ freeRegisters' = [freeRegisters EXCEPT ![s] = @ \ {q}]
  /\ UNCHANGED registerCount
  /\ \A i, t, r : Holds(i, t, r)' <=>
                  (Holds(i, t, r) \/ (i = nextId /\ t = s /\ r = q))

\* Register q of thread s goes back from breakpoint id to the pool.
Returned(id, s, q) ==
  /\ Holds(id, s, q)
  /\ freeRegisters' = [freeRegisters EXCEPT ![s] = @ \cup {q}]
  /\ UNCHANGED registerCount
  /\ \A i, t, r : Holds(i, t, r)' <=> (Holds(i, t, r) /\ i # id)

\* A change moves at most one register between the pool and a breakpoint, or
\* fills the pool of a thread that is probed for the first time.
LEMMA HoldsStep ==
  ASSUME ConstantsOK, TypeOK, Change
  PROVE  \/ SameHolders /\ UNCHANGED <<freeRegisters, registerCount>>
         \/ \E s \in Tids, q \in Registers : Allotted(s, q)
         \/ \E id \in DOMAIN breakpoints, s \in Tids : \E q : Returned(id, s, q)
         \/ \E s \in Tids :
              FirstProbe(s) /\ s \notin DOMAIN registerCount /\ SameHolders
<1>1. ASSUME NEW t \in Tids, NEW a \in Addresses, PatchNew(t, a)
      PROVE  /\ UNCHANGED <<freeRegisters, registerCount>>
             /\ SameHolders
  <2>1. /\ nextId \notin DOMAIN breakpoints
        /\ DOMAIN breakpoints' = DOMAIN breakpoints \cup {nextId}
        /\ breakpoints'[nextId].type = SOFTWARE
        /\ \A id \in DOMAIN breakpoints : breakpoints'[id] = breakpoints[id]
    BY <1>1 DEF PatchNew, NewBreakpoint, Put, TypeOK
  <2> QED
    BY <1>1, <2>1 DEF PatchNew, hardware, SameHolders, Holds
<1>2. ASSUME NEW t \in Tids, NEW a \in Addresses, NEW type \in HardwareTypes,
             ProgramNew(t, a, type)
      PROVE  \E q \in Registers : Allotted(t, q)
  <2>1. PICK q \in freeRegisters[t] :
          /\ freeRegisters' = [freeRegisters EXCEPT ![t] = @ \ {q}]
          /\ NewBreakpoint(t, a, type, NoWord, q)
    BY <1>2 DEF ProgramNew
  <2>2. /\ nextId \notin DOMAIN breakpoints
        /\ DOMAIN breakpoints' = DOMAIN breakpoints \cup {nextId}
        /\ breakpoints'[nextId].type = type
        /\ breakpoints'[nextId].tid = t
        /\ breakpoints'[nextId].register = q
        /\ \A id \in DOMAIN breakpoints : breakpoints'[id] = breakpoints[id]
    BY <2>1 DEF NewBreakpoint, Put, TypeOK
  <2>3. type # SOFTWARE
    BY DEF HardwareTypes, SOFTWARE
  <2>4. \A i, s, r : Holds(i, s, r)' <=>
                     (Holds(i, s, r) \/ (i = nextId /\ s = t /\ r = q))
    BY <2>2, <2>3 DEF Holds
  <2> QED
    BY <1>2, <2>1, <2>4 DEF ProgramNew, Allotted, TypeOK
<1>3. ASSUME NEW id \in DOMAIN breakpoints, RestoreAndForget(id)
      PROVE  /\ UNCHANGED <<freeRegisters, registerCount>>
             /\ SameHolders
  <2>1. /\ DOMAIN breakpoints' = DOMAIN breakpoints \ {id}
        /\ \A i \in DOMAIN breakpoints' : breakpoints'[i] = breakpoints[i]
    BY <1>3, ForgetFacts DEF RestoreAndForget
  <2> QED
    BY <1>3, <2>1 DEF RestoreAndForget, IsSoftware, hardware, SameHolders, Holds
<1>4. ASSUME NEW id \in DOMAIN breakpoints, DisarmAndForget(id)
      PROVE  \E s \in Tids : \E q : Returned(id, s, q)
  <2>1. /\ DOMAIN breakpoints' = DOMAIN breakpoints \ {id}
        /\ \A i \in DOMAIN breakpoints' : breakpoints'[i] = breakpoints[i]
    BY <1>4, ForgetFacts DEF DisarmAndForget
  <2>2. \E s \in Tids : \E q :
          s = breakpoints[id].tid /\ q = breakpoints[id].register
    BY DEF TypeOK, Breakpoint
  <2> PICK s \in Tids : \E q :
         s = breakpoints[id].tid /\ q = breakpoints[id].register
    BY <2>2
  <2>7. PICK q : s = breakpoints[id].tid /\ q = breakpoints[id].register
    OBVIOUS
  <2>3. Holds(id, s, q)
    BY <1>4, <2>7 DEF DisarmAndForget, IsSoftware, Holds
  <2>4. \A i, t, r : Holds(i, t, r)' <=> (Holds(i, t, r) /\ i # id)
    BY <2>1 DEF Holds
  <2>5. /\ freeRegisters' = [freeRegisters EXCEPT ![s] = @ \cup {q}]
        /\ UNCHANGED registerCount
    BY <1>4, <2>7 DEF DisarmAndForget
  <2> QED
    BY <2>3, <2>4, <2>5 DEF Returned
<1>5. ASSUME NEW id \in DOMAIN breakpoints, NEW on \in BOOLEAN, SetEnabled(id, on)
      PROVE  /\ UNCHANGED <<freeRegisters, registerCount>>
             /\ SameHolders
  <2>1. /\ DOMAIN breakpoints' = DOMAIN breakpoints
        /\ \A i \in DOMAIN breakpoints :
             /\ breakpoints'[i].tid = breakpoints[i].tid
             /\ breakpoints'[i].type = breakpoints[i].type
             /\ breakpoints'[i].register = breakpoints[i].register
    BY <1>5, SwitchFacts
  <2> QED
    BY <1>5, <2>1 DEF SetEnabled, SameHolders, Holds
<1>6. ASSUME UNCHANGED breakpoints
      PROVE  SameHolders
  BY <1>6 DEF SameHolders, Holds
<1> QED
  BY <1>1, <1>2, <1>3, <1>4, <1>5, <1>6
  DEF Change, SwitchSoftware, SwitchHardware, FirstProbe, ThreadExits, table, hardware

\* A change keeps the account of the registers.
LEMMA RegisterStep ==
  ASSUME ConstantsOK, TypeOK, RegisterAccounting, Change
  PROVE  RegisterAccounting'
<1>1. Accounting
  BY AccountingHolds
<1>2. SUFFICES Accounting'
  BY AccountingHolds, PTL
<1>3. CASE SameHolders /\ UNCHANGED <<freeRegisters, registerCount>>
  BY <1>1, <1>3 DEF SameHolders, Accounting, AccountOf
<1>4. ASSUME NEW s \in Tids, NEW q \in Registers, Allotted(s, q)
      PROVE  Accounting'
  <2>1. /\ freeRegisters'[s] = freeRegisters[s] \ {q}
        /\ \A t \in Tids : t # s => freeRegisters'[t] = freeRegisters[t]
    BY <1>4 DEF Allotted, TypeOK
  <2>2. \A i : ~Holds(i, s, q)
    BY <1>1, <1>4 DEF Allotted, Accounting, AccountOf
  <2>3. \A i, j, t, r : Holds(i, t, r)' /\ Holds(j, t, r)' => i = j
    BY <1>1, <1>4, <2>2 DEF Allotted, Accounting, AccountOf
  <2>4. ASSUME NEW t \in Tids, t # s
        PROVE  \A r, i : Holds(i, t, r)' <=> Holds(i, t, r)
    BY <1>4, <2>4 DEF Allotted
  <2>5. /\ s \in DOMAIN registerCount /\ q \in 0 .. registerCount[s] - 1
        /\ freeRegisters[s] \subseteq 0 .. registerCount[s] - 1
        /\ \A r, i : Holds(i, s, r) => r \in 0 .. registerCount[s] - 1
        /\ \A r \in 0 .. registerCount[s] - 1 :
             r \in freeRegisters[s] \/ \E i : Holds(i, s, r)
    BY <1>1, <1>4 DEF Allotted, Accounting, AccountOf
  <2>6. \A r, i : Holds(i, s, r)' <=> (Holds(i, s, r) \/ (i = nextId /\ r = q))
    BY <1>4 DEF Allotted
  <2>7. registerCount' = registerCount
    BY <1>4 DEF Allotted
  <2>8. \A r \in freeRegisters'[s] : \A i : ~Holds(i, s, r)'
    BY <1>1, <2>1, <2>6 DEF Accounting, AccountOf
  <2>9. /\ freeRegisters'[s] \subseteq 0 .. registerCount[s] - 1
        /\ \A r, i : Holds(i, s, r)' => r \in 0 .. registerCount[s] - 1
    BY <2>1, <2>5, <2>6
  <2>10. \A r \in 0 .. registerCount[s] - 1 :
             r \in freeRegisters'[s] \/ \E i : Holds(i, s, r)'
    BY <2>1, <2>5, <2>6
  <2>11. AccountOf(s)'
    BY <2>5, <2>7, <2>8, <2>9, <2>10 DEF AccountOf
  <2>12. \A t \in Tids : t # s => AccountOf(t)'
    BY <1>1, <2>1, <2>4, <2>7 DEF Accounting, AccountOf
  <2> QED
    BY <2>3, <2>11, <2>12 DEF Accounting
<1>5. ASSUME NEW id \in DOMAIN breakpoints, NEW s \in Tids, NEW q, Returned(id, s, q)
      PROVE  Accounting'
  <2>1. /\ freeRegisters'[s] = freeRegisters[s] \cup {q}
        /\ \A t \in Tids : t # s => freeRegisters'[t] = freeRegisters[t]
    BY <1>5 DEF Returned, TypeOK
  <2>2. \A i : Holds(i, s, q) => i = id
    BY <1>1, <1>5 DEF Returned, Accounting, AccountOf
  <2>3. \A i, j, t, r : Holds(i, t, r)' /\ Holds(j, t, r)' => i = j
    BY <1>1, <1>5 DEF Returned, Accounting, AccountOf
  <2>4. ASSUME NEW t \in Tids, t # s
        PROVE  \A r, i : Holds(i, t, r)' <=> Holds(i, t, r)
    BY <1>5, <2>4 DEF Returned, Holds
  <2>5. /\ s \in DOMAIN registerCount /\ q \in 0 .. registerCount[s] - 1
        /\ freeRegisters[s] \subseteq 0 .. registerCount[s] - 1
        /\ \A r, i : Holds(i, s, r) => r \in 0 .. registerCount[s] - 1
        /\ \A r \in 0 .. registerCount[s] - 1 :
             r \in freeRegisters[s] \/ \E i : Holds(i, s, r)
    BY <1>1, <1>5 DEF Returned, Accounting, AccountOf
  <2>6. /\ \A r \in freeRegisters'[s] : \A i : ~Holds(i, s, r)'
        /\ freeRegisters'[s] \subseteq 0 .. registerCount[s] - 1
        /\ \A r, i : Holds(i, s, r)' => r \in 0 .. registerCount[s] - 1
    BY <1>1, <1>5, <2>1, <2>2, <2>5 DEF Returned, Accounting, AccountOf
  <2>8. \A r \in 0 .. registerCount[s] - 1 :
             r \in freeRegisters'[s] \/ \E i : Holds(i, s, r)'
    <3> TAKE r \in 0 .. registerCount[s] - 1
    <3>1. CASE r = q
      BY <2>1, <3>1
    <3>2. ASSUME r # q, NEW i, Holds(i, s, r)
          PROVE  Holds(i, s, r)'
      BY <1>5, <3>2 DEF Returned, Holds
    <3> QED
      BY <2>1, <2>5, <3>1, <3>2
  <2>7. registerCount' = registerCount
    BY <1>5 DEF Returned
  <2>9. AccountOf(s)'
    BY <2>5, <2>6, <2>7, <2>8 DEF AccountOf
  <2>10. \A t \in Tids : t # s => AccountOf(t)'
    BY <1>1, <2>1, <2>4, <2>7 DEF Accounting, AccountOf
  <2> QED
    BY <2>3, <2>9, <2>10 DEF Accounting
<1>6. ASSUME NEW s \in Tids, FirstProbe(s), s \notin DOMAIN registerCount, SameHolders
      PROVE  Accounting'
  <2>1. PICK status \in {"ok", "fail"}, count \in 0 .. NumRegisters :
          /\ registerCount' = Put(registerCount, s, count)
          /\ freeRegisters' =
               IF status = "ok" THEN [freeRegisters EXCEPT ![s] = @ \cup 0 .. count - 1]
                                ELSE freeRegisters
    BY <1>6 DEF FirstProbe
  <2>2. freeRegisters[s] = {} /\ \A r, i : ~Holds(i, s, r)
    BY <1>1, <1>6 DEF Accounting, AccountOf
  <2>3. /\ s \in DOMAIN registerCount' /\ registerCount'[s] = count
        /\ \A t \in DOMAIN registerCount :
             t \in DOMAIN registerCount' /\ registerCount'[t] = registerCount[t]
    BY <1>6, <2>1 DEF Put
  <2>4. /\ freeRegisters'[s] = {} \/ freeRegisters'[s] = 0 .. count - 1
        /\ \A t \in Tids : t # s => freeRegisters'[t] = freeRegisters[t]
    BY <2>1, <2>2 DEF TypeOK
  <2>5. \A i, t, r : Holds(i, t, r)' <=> Holds(i, t, r)
    BY <1>6 DEF SameHolders
  <2>6. ASSUME NEW t \in Tids, t # s, t \in DOMAIN registerCount
        PROVE  registerCount'[t] = registerCount[t]
    BY <2>3, <2>6
  <2> QED
    BY <1>1, <1>6, <2>2, <2>3, <2>4, <2>5 DEF Accounting, AccountOf
<1> QED
  BY <1>3, <1>4, <1>5, <1>6, HoldsStep

\* A change keeps the registers of the breakpoints programmed as the table says.
LEMMA ArmedStep ==
  ASSUME ConstantsOK, TypeOK, RegisterAccounting, ArmedMatches, Change
  PROVE  ArmedMatches'
<1>0. Accounting
  BY AccountingHolds
<1>1. ASSUME NEW t \in Tids, NEW a \in Addresses, PatchNew(t, a)
      PROVE  ArmedMatches'
  <2>1. /\ DOMAIN breakpoints' = DOMAIN breakpoints \cup {nextId}
        /\ breakpoints'[nextId].type = SOFTWARE
        /\ \A id \in DOMAIN breakpoints : breakpoints'[id] = breakpoints[id]
    BY <1>1 DEF PatchNew, NewBreakpoint, Put, TypeOK
  <2> QED
    BY <1>1, <2>1 DEF PatchNew, hardware, IsSoftware, ArmedMatches
<1>2. ASSUME NEW t \in Tids, NEW a \in Addresses, NEW type \in HardwareTypes,
             ProgramNew(t, a, type)
      PROVE  ArmedMatches'
  <2>1. PICK r \in freeRegisters[t] :
          /\ dbg' = [dbg EXCEPT ![t][r] =
                       [address |-> a, type |-> type, armed |-> TRUE]]
          /\ NewBreakpoint(t, a, type, NoWord, r)
    BY <1>2 DEF ProgramNew
  <2>2. /\ DOMAIN breakpoints' = DOMAIN breakpoints \cup {nextId}
        /\ breakpoints'[nextId] = [tid |-> t, address |-> a, type |-> type,
              enabled |-> TRUE, original |-> NoWord, register |-> r]
        /\ \A id \in DOMAIN breakpoints : breakpoints'[id] = breakpoints[id]
    BY <2>1 DEF NewBreakpoint, Put, TypeOK
  <2>3. r \in Registers
    BY DEF TypeOK
  <2>4. /\ dbg'[t][r] = [address |-> a, type |-> type, armed |-> TRUE]
        /\ \A s \in Tids, q \in Registers :
             s # t \/ q # r => dbg'[s][q] = dbg[s][q]
    BY <2>1, <2>3 DEF TypeOK
  <2>5. \A i : ~Holds(i, t, r)
    BY <1>0 DEF Accounting, AccountOf
  <2>6. \A i \in DOMAIN breakpoints :
          breakpoints[i].type # SOFTWARE =>
            breakpoints[i].tid # t \/ breakpoints[i].register # r
    BY <2>5 DEF Holds
  <2>7. \A i \in DOMAIN breakpoints : breakpoints[i].tid \in Tids
    BY DEF TypeOK, Breakpoint
  <2> SUFFICES ASSUME NEW i \in DOMAIN breakpoints', breakpoints'[i].type # SOFTWARE
               PROVE  /\ breakpoints'[i].register \in Registers
                      /\ dbg'[breakpoints'[i].tid][breakpoints'[i].register]
                           = [address |-> breakpoints'[i].address,
                              type |-> breakpoints'[i].type,
                              armed |-> breakpoints'[i].enabled]
    BY DEF IsSoftware, ArmedMatches
  <2>8. CASE i = nextId
    <3>1. /\ breakpoints'[i].tid = t /\ breakpoints'[i].register = r
          /\ breakpoints'[i].address = a /\ breakpoints'[i].type = type
          /\ breakpoints'[i].enabled = TRUE
      BY <2>2, <2>8
    <3> QED
      BY <2>3, <2>4, <3>1
  <2>9. CASE i \in DOMAIN breakpoints
    <3>1. /\ breakpoints[i].register \in Registers
          /\ dbg[breakpoints[i].tid][breakpoints[i].register]
               = [address |-> breakpoints[i].address, type |-> breakpoints[i].type,
                  armed |-> breakpoints[i].enabled]
      BY <2>2, <2>9 DEF IsSoftware, ArmedMatches
    <3>2. dbg'[breakpoints[i].tid][breakpoints[i].register]
            = dbg[breakpoints[i].tid][breakpoints[i].register]
      BY <2>2, <2>4, <2>6, <2>7, <2>9, <3>1
    <3> QED
      BY <2>2, <2>9, <3>1, <3>2
  <2> QED
    BY <2>2, <2>8, <2>9
<1>3. ASSUME NEW id \in DOMAIN breakpoints, RestoreAndForget(id)
      PROVE  ArmedMatches'
  BY <1>3, ForgetFacts DEF RestoreAndForget, hardware, IsSoftware, ArmedMatches
<1>4. ASSUME NEW id \in DOMAIN breakpoints, NEW on \in BOOLEAN,
             ~IsSoftware(breakpoints[id]), Arm(breakpoints[id], on)
      PROVE  /\ dbg'[breakpoints[id].tid][breakpoints[id].register]
                  = [dbg[breakpoints[id].tid][breakpoints[id].register] EXCEPT !.armed = on]
             /\ \A i \in DOMAIN breakpoints :
                  breakpoints[i].type # SOFTWARE /\ i # id =>
                    dbg'[breakpoints[i].tid][breakpoints[i].register]
                      = dbg[breakpoints[i].tid][breakpoints[i].register]
  <2>1. /\ breakpoints[id] \in Breakpoint
        /\ breakpoints[id].register \in Registers
    BY <1>4 DEF TypeOK, ArmedMatches
  <2>2. \A i \in DOMAIN breakpoints :
          breakpoints[i].type # SOFTWARE =>
            breakpoints[i].tid \in Tids /\ breakpoints[i].register \in Registers
    BY DEF TypeOK, Breakpoint, ArmedMatches, IsSoftware
  <2>3. \A i \in DOMAIN breakpoints :
          breakpoints[i].type # SOFTWARE /\ i # id =>
            \/ breakpoints[i].tid # breakpoints[id].tid
            \/ breakpoints[i].register # breakpoints[id].register
    BY <1>0, <1>4 DEF Accounting, AccountOf, Holds, IsSoftware
  <2> QED
    BY <1>4, <2>1, <2>2, <2>3, ArmFacts
<1>5. ASSUME NEW id \in DOMAIN breakpoints, DisarmAndForget(id)
      PROVE  ArmedMatches'
  <2>1. /\ DOMAIN breakpoints' = DOMAIN breakpoints \ {id}
        /\ \A i \in DOMAIN breakpoints' : breakpoints'[i] = breakpoints[i]
    BY <1>5, ForgetFacts DEF DisarmAndForget
  <2>2. \A i \in DOMAIN breakpoints' :
          breakpoints[i].type # SOFTWARE =>
            dbg'[breakpoints[i].tid][breakpoints[i].register]
              = dbg[breakpoints[i].tid][breakpoints[i].register]
    BY <1>4, <1>5, <2>1 DEF DisarmAndForget
  <2> QED
    BY <2>1, <2>2 DEF IsSoftware, ArmedMatches
<1>6. ASSUME NEW id \in DOMAIN breakpoints, NEW on \in BOOLEAN, SwitchSoftware(id, on)
      PROVE  ArmedMatches'
  <2>0. SetEnabled(id, on)
    BY <1>6 DEF SwitchSoftware
  <2>1. /\ DOMAIN breakpoints' = DOMAIN breakpoints
        /\ breakpoints'[id].type = breakpoints[id].type
        /\ \A i \in DOMAIN breakpoints : i # id => breakpoints'[i] = breakpoints[i]
    BY <2>0, SwitchFields
  <2> QED
    BY <1>6, <2>1 DEF SwitchSoftware, IsSoftware, ArmedMatches
<1>7. ASSUME NEW id \in DOMAIN breakpoints, NEW on \in BOOLEAN, SwitchHardware(id, on)
      PROVE  ArmedMatches'
  <2>0. SetEnabled(id, on)
    BY <1>7 DEF SwitchHardware
  <2>1. /\ DOMAIN breakpoints' = DOMAIN breakpoints
        /\ \A i \in DOMAIN breakpoints : i # id => breakpoints'[i] = breakpoints[i]
    BY <2>0, SwitchFields
  <2>2. ASSUME NEW i \in DOMAIN breakpoints, breakpoints[i].type # SOFTWARE, i # id
        PROVE  dbg'[breakpoints'[i].tid][breakpoints'[i].register]
                 = dbg[breakpoints[i].tid][breakpoints[i].register]
    <3>1. breakpoints'[i] = breakpoints[i]
      BY <2>1, <2>2
    <3>2. dbg'[breakpoints[i].tid][breakpoints[i].register]
            = dbg[breakpoints[i].tid][breakpoints[i].register]
      BY <1>4, <1>7, <2>2 DEF SwitchHardware
    <3> QED
      BY <3>1, <3>2
  <2>3. dbg[breakpoints[id].tid][breakpoints[id].register]
          = [address |-> breakpoints[id].address, type |-> breakpoints[id].type,
             armed |-> breakpoints[id].enabled]
    BY <1>7 DEF SwitchHardware, ArmedMatches
  <2>4. dbg'[breakpoints[id].tid][breakpoints[id].register]
          = [address |-> breakpoints[id].address, type |-> breakpoints[id].type,
             armed |-> on]
    BY <1>4, <1>7, <2>3 DEF SwitchHardware
  <2>5. /\ breakpoints'[id].tid = breakpoints[id].tid
        /\ breakpoints'[id].register = breakpoints[id].register
        /\ breakpoints'[id].address = breakpoints[id].address
        /\ breakpoints'[id].type = breakpoints[id].type
        /\ breakpoints'[id].enabled = on
    BY <2>0, SwitchFields
  <2>6. breakpoints[id].register \in Registers
    BY <1>7 DEF SwitchHardware, ArmedMatches
  <2> SUFFICES ASSUME NEW i \in DOMAIN breakpoints', breakpoints'[i].type # SOFTWARE
               PROVE  /\ breakpoints'[i].register \in Registers
                      /\ dbg'[breakpoints'[i].tid][breakpoints'[i].register]
                           = [address |-> breakpoints'[i].address,
                              type |-> breakpoints'[i].type,
                              armed |-> breakpoints'[i].enabled]
    BY DEF IsSoftware, ArmedMatches
  <2>7. CASE i = id
    BY <2>4, <2>5, <2>6, <2>7
  <2>8. CASE i # id
    BY <2>1, <2>2, <2>8 DEF IsSoftware, ArmedMatches
  <2> QED
    BY <2>7, <2>8
<1>8. ASSUME NEW t \in Tids, FirstProbe(t), t \notin DOMAIN registerCount
      PROVE  ArmedMatches'
  <2>1. UNCHANGED breakpoints
    BY <1>8 DEF FirstProbe, table
  <2>2. \A s \in Tids : s # t => dbg'[s] = dbg[s]
    BY <1>8 DEF FirstProbe, TypeOK
  <2>3. \A i \in DOMAIN breakpoints :
          breakpoints[i].type # SOFTWARE =>
            breakpoints[i].tid \in Tids /\ breakpoints[i].tid # t
    <3>1. \A r, i : ~Holds(i, t, r)
      BY <1>0, <1>8 DEF Accounting, AccountOf
    <3> QED
      BY <3>1 DEF Holds, TypeOK, Breakpoint
  <2> QED
    BY <2>1, <2>2, <2>3 DEF IsSoftware, ArmedMatches
<1>9. CASE UNCHANGED <<breakpoints, dbg>>
  BY <1>9 DEF IsSoftware, ArmedMatches
<1> QED
  BY <1>1, <1>2, <1>3, <1>5, <1>6, <1>7, <1>8, <1>9
  DEF Change, ThreadExits, table, hardware

-----------------------------------------------------------------------------
(* The promise of TrapTable.                                               *)

\* The mapping of a state whose software breakpoints, words and ids are those
\* of the state before is the mapping of that state.
LEMMA PromiseStutter ==
  ASSUME UNCHANGED <<code, nextId>>,
         \A i : (i \in DOMAIN breakpoints /\ breakpoints[i].type = SOFTWARE)
                <=> (i \in DOMAIN breakpoints' /\ breakpoints'[i].type = SOFTWARE),
         \A i \in DOMAIN breakpoints \cap DOMAIN breakpoints' :
           breakpoints[i].type = SOFTWARE => breakpoints'[i] = breakpoints[i]
  PROVE  UNCHANGED <<PromisedPoints, PromisedTraps, nextId>>
<1>1. Promised' = Promised
  BY DEF Promised, IsSoftware, Exact
<1>2. \A i \in Promised : i \in DOMAIN breakpoints' /\ breakpoints'[i] = breakpoints[i]
  BY DEF Promised, IsSoftware
<1>3. PromisedPoints' = PromisedPoints
  BY <1>1, <1>2 DEF PromisedPoints
<1>4. PromisedTraps' = PromisedTraps
  BY DEF PromisedTraps, Exact
<1> QED
  BY <1>3, <1>4

\* Writing the word of thread t at an address whose writes are exact changes
\* the traps of its process at that address and nowhere else.
LEMMA ExactWriteMovesOneTrap ==
  ASSUME ConstantsOK, TypeOK, NEW t \in Tids, NEW a \in AlignedAddresses,
         NEW w \in Words, WriteWord(t, a, w), Exact(ProcessOf[t], a)
  PROVE  PromisedTraps' = [PromisedTraps EXCEPT ![ProcessOf[t]] =
           IF w # Text[ProcessOf[t]][a] THEN @ \cup {a} ELSE @ \ {a}]
<1> DEFINE p == ProcessOf[t]
<1>1. p \in Processes
  BY DEF ConstantsOK
<1>2. \A q \in Processes, x \in AlignedAddresses :
        Exact(q, x) => code'[q][x] = IF q = p /\ x = a THEN w ELSE code[q][x]
  BY WriteFacts
<1>3. PromisedTraps' = [q \in Processes |->
        {x \in AlignedAddresses : Exact(q, x) /\ code'[q][x] # Text[q][x]}]
  BY ExactStays DEF PromisedTraps
<1>4. \A q \in Processes : q # p => PromisedTraps'[q] = PromisedTraps[q]
  BY <1>2, <1>3 DEF PromisedTraps
<1>5. PromisedTraps'[p] = IF w # Text[p][a] THEN PromisedTraps[p] \cup {a}
                                            ELSE PromisedTraps[p] \ {a}
  BY <1>1, <1>2, <1>3 DEF PromisedTraps
<1>6. /\ PromisedTraps = [q \in Processes |-> PromisedTraps[q]]
      /\ PromisedTraps' = [q \in Processes |-> PromisedTraps'[q]]
  BY <1>3 DEF PromisedTraps
<1> HIDE DEF p
<1>7. PromisedTraps' = [PromisedTraps EXCEPT ![p] =
        IF w # Text[p][a] THEN @ \cup {a} ELSE @ \ {a}]
  BY <1>1, <1>4, <1>5, <1>6
<1> QED
  BY <1>7 DEF p

\* Anywhere else a write changes no trap of the promise.
LEMMA OtherWritesMoveNone ==
  ASSUME ConstantsOK, TypeOK, NEW t \in Tids, NEW a \in AlignedAddresses,
         NEW w \in Words, WriteWord(t, a, w), ~Exact(ProcessOf[t], a)
  PROVE  PromisedTraps' = PromisedTraps
<1>1. \A q \in Processes, x \in AlignedAddresses :
        Exact(q, x) => code'[q][x] = code[q][x]
  BY WriteFacts
<1> QED
  BY <1>1 DEF PromisedTraps, Exact

\* The id of a new breakpoint was not issued before it, and is then.
LEMMA NewIdIsIssued ==
  ASSUME ConstantsOK, TypeOK, nextId <= MaxId, NEW t, NEW a, NEW type, NEW w, NEW r,
         NewBreakpoint(t, a, type, w, r)
  PROVE  /\ nextId \in Ids /\ nextId \notin 1 .. nextId - 1
         /\ 1 .. nextId' - 1 = (1 .. nextId - 1) \cup {nextId}
<1>1. nextId \in 1 .. MaxId + 1 /\ MaxId \in Nat
  BY DEF TypeOK, ConstantsOK
<1>2. nextId' - 1 = nextId
  BY <1>1 DEF NewBreakpoint
<1>3. nextId \in Ids /\ nextId \notin 1 .. nextId - 1
  BY <1>1 DEF Ids
<1>4. 1 .. nextId = (1 .. nextId - 1) \cup {nextId}
  <2>1. nextId \in Int /\ 1 <= nextId
    BY <1>1
  <2>2. \A i \in 1 .. nextId : i \in 1 .. nextId - 1 \/ i = nextId
    BY <2>1
  <2>3. nextId \in 1 .. nextId /\ 1 .. nextId - 1 \subseteq 1 .. nextId
    BY <2>1
  <2> QED
    BY <2>2, <2>3
<1> QED
  BY <1>2, <1>3, <1>4

\* Setting a software breakpoint places a point where writes are exact, and
\* elsewhere only issues an id.
LEMMA PatchNewKeepsPromise ==
  ASSUME ConstantsOK, Inv, TextWithoutBRK, nextId <= MaxId,
         NEW t \in Tids, NEW a \in Addresses, PatchNew(t, a)
  PROVE  Promise!Next
<1> DEFINE p == ProcessOf[t]
<1>1. a \in AlignedAddresses /\ p \in Processes /\ BRK \in Words
  BY DEF PatchNew, AlignedAddresses, ConstantsOK
<1>2. TypeOK /\ CodeTransparent /\ WriteWord(t, a, BRK) /\ ~Duplicate(a)
  BY DEF PatchNew, Inv
<1>3. /\ nextId \notin DOMAIN breakpoints
      /\ DOMAIN breakpoints' = DOMAIN breakpoints \cup {nextId}
      /\ breakpoints'[nextId] = [tid |-> t, address |-> a, type |-> SOFTWARE,
            enabled |-> TRUE, original |-> code[p][a], register |-> NoRegister]
      /\ \A id \in DOMAIN breakpoints : breakpoints'[id] = breakpoints[id]
  BY <1>2, NewFacts DEF PatchNew
<1>4. /\ nextId \in Ids /\ nextId \notin 1 .. nextId - 1
      /\ 1 .. nextId' - 1 = (1 .. nextId - 1) \cup {nextId}
  BY <1>2, NewIdIsIssued DEF PatchNew
<1>5. CASE Exact(p, a)
  <2>1. Promised' = Promised \cup {nextId} /\ nextId \notin Promised
    BY <1>3, <1>5, ExactStays DEF Promised, IsSoftware
  <2>2. PromisedPoints' = [i \in DOMAIN PromisedPoints \cup {nextId} |->
          IF i = nextId THEN [process |-> p, address |-> a, on |-> TRUE]
                        ELSE PromisedPoints[i]]
    <3>1. \A i \in Promised : breakpoints'[i] = breakpoints[i]
      BY <1>3 DEF Promised
    <3>2. /\ breakpoints'[nextId].tid = t /\ breakpoints'[nextId].address = a
          /\ breakpoints'[nextId].enabled = TRUE
      BY <1>3
    <3> QED
      BY <2>1, <3>1, <3>2 DEF PromisedPoints
  <2>3. PromisedTraps' = [PromisedTraps EXCEPT ![p] = @ \cup {a}]
    BY <1>1, <1>2, <1>5, ExactWriteMovesOneTrap DEF TextWithoutBRK
  <2>4. a \notin PromisedTraps[p]
    BY <1>1, <1>2, <1>5, Unpatched DEF PromisedTraps
  <2>5. \A i \in DOMAIN PromisedPoints : PromisedPoints[i].address # a
    BY <1>2 DEF PromisedPoints, Promised, Duplicate
  <2>6. Promise!Place(nextId, p, a)
    BY <1>4, <2>2, <2>3, <2>4, <2>5 DEF Promise!Place
  <2> QED
    BY <1>1, <1>4, <2>6 DEF Promise!Next
<1>6. CASE ~Exact(p, a)
  <2>1. Promised' = Promised
    BY <1>3, <1>6, ExactStays DEF Promised, IsSoftware
  <2>2. PromisedPoints' = PromisedPoints
    BY <1>3, <2>1 DEF PromisedPoints, Promised
  <2>3. PromisedTraps' = PromisedTraps
    BY <1>1, <1>2, <1>6, OtherWritesMoveNone
  <2>4. Promise!Issue(nextId)
    BY <1>4, <2>2, <2>3 DEF Promise!Issue
  <2> QED
    BY <1>4, <2>4 DEF Promise!Next
<1> QED
  BY <1>5, <1>6

\* Setting a hardware breakpoint issues an id.
LEMMA ProgramNewKeepsPromise ==
  ASSUME ConstantsOK, TypeOK, nextId <= MaxId, NEW t \in Tids, NEW a \in Addresses,
         NEW type \in HardwareTypes, ProgramNew(t, a, type)
  PROVE  Promise!Next
<1>1. PICK r \in freeRegisters[t] : NewBreakpoint(t, a, type, NoWord, r)
  BY DEF ProgramNew
<1>2. /\ nextId \notin DOMAIN breakpoints
      /\ DOMAIN breakpoints' = DOMAIN breakpoints \cup {nextId}
      /\ breakpoints'[nextId].type = type
      /\ \A id \in DOMAIN breakpoints : breakpoints'[id] = breakpoints[id]
  BY <1>1 DEF NewBreakpoint, Put, TypeOK
<1>3. /\ nextId \in Ids /\ nextId \notin 1 .. nextId - 1
      /\ 1 .. nextId' - 1 = (1 .. nextId - 1) \cup {nextId}
  BY <1>1, NewIdIsIssued
<1>4. type # SOFTWARE
  BY DEF HardwareTypes, SOFTWARE
<1>5. Promised' = Promised
  BY <1>2, <1>4 DEF Promised, IsSoftware, Exact
<1>6. PromisedPoints' = PromisedPoints
  BY <1>2, <1>5 DEF PromisedPoints, Promised
<1>7. PromisedTraps' = PromisedTraps
  BY DEF ProgramNew, PromisedTraps, Exact
<1>8. Promise!Issue(nextId)
  BY <1>3, <1>6, <1>7 DEF Promise!Issue
<1> QED
  BY <1>3, <1>8 DEF Promise!Next

\* Removing a software breakpoint takes its point away, if it has one.
LEMMA RestoreKeepsPromise ==
  ASSUME ConstantsOK, Inv, NEW id \in DOMAIN breakpoints, RestoreAndForget(id)
  PROVE  Promise!Next \/ UNCHANGED <<PromisedPoints, PromisedTraps, nextId>>
<1>1. TypeOK /\ SavedOriginal /\ Forget(id) /\ UNCHANGED nextId /\ IsSoftware(breakpoints[id])
  BY DEF RestoreAndForget, Forget, Inv
<1>2. PICK t \in Tids, a \in AlignedAddresses, w \in Words :
        /\ t = breakpoints[id].tid /\ a = breakpoints[id].address
        /\ w = breakpoints[id].original
  BY <1>1 DEF TypeOK, Breakpoint
<1> DEFINE p == ProcessOf[t]
<1>3. id \in Ids /\ WriteWord(t, a, w)
  BY <1>1, <1>2 DEF RestoreAndForget, TypeOK, Ids, ConstantsOK
<1>4. /\ DOMAIN breakpoints' = DOMAIN breakpoints \ {id}
      /\ \A i \in DOMAIN breakpoints' : breakpoints'[i] = breakpoints[i]
  BY <1>1, ForgetFacts
<1>5. Promised' = Promised \ {id}
  BY <1>4, ExactStays DEF Promised, IsSoftware
<1>6. PromisedPoints' = [i \in Promised \ {id} |-> PromisedPoints[i]]
  BY <1>4, <1>5 DEF PromisedPoints, Promised
<1>7. CASE Exact(p, a)
  <2>1. id \in Promised /\ PromisedPoints[id].process = p /\ PromisedPoints[id].address = a
    BY <1>1, <1>2, <1>7 DEF Promised, PromisedPoints
  <2>2. w = Text[p][a]
    BY <1>1, <1>2, <1>7 DEF SavedOriginal
  <2>3. PromisedTraps' = [PromisedTraps EXCEPT ![p] = @ \ {a}]
    BY <1>1, <1>3, <1>7, <2>2, ExactWriteMovesOneTrap
  <2>4. DOMAIN PromisedPoints = Promised
    BY DEF PromisedPoints
  <2>5. Promise!Take(id)
    BY <1>1, <1>6, <2>1, <2>3, <2>4 DEF Promise!Take, Promise!Restrict
  <2> QED
    BY <1>3, <2>5 DEF Promise!Next
<1>8. CASE ~Exact(p, a)
  <2>1. id \notin Promised
    BY <1>2, <1>8 DEF Promised
  <2>2. PromisedPoints' = PromisedPoints
    BY <1>6, <2>1 DEF PromisedPoints
  <2>3. PromisedTraps' = PromisedTraps
    BY <1>1, <1>3, <1>8, OtherWritesMoveNone
  <2> QED
    BY <1>1, <2>2, <2>3
<1> QED
  BY <1>7, <1>8

\* Switching a software breakpoint turns its point, if it has one.
LEMMA SwitchKeepsPromise ==
  ASSUME ConstantsOK, Inv, TextWithoutBRK, NEW id \in DOMAIN breakpoints,
         NEW on \in BOOLEAN, breakpoints[id].enabled # on, SwitchSoftware(id, on)
  PROVE  Promise!Next \/ UNCHANGED <<PromisedPoints, PromisedTraps, nextId>>
<1>1. /\ TypeOK /\ SavedOriginal /\ SetEnabled(id, on) /\ UNCHANGED nextId
      /\ IsSoftware(breakpoints[id])
  BY DEF SwitchSoftware, SetEnabled, Inv
<1>2. PICK t \in Tids, a \in AlignedAddresses, w \in Words :
        /\ t = breakpoints[id].tid /\ a = breakpoints[id].address
        /\ w = (IF on THEN BRK ELSE breakpoints[id].original)
  BY <1>1 DEF TypeOK, Breakpoint, ConstantsOK
<1> DEFINE p == ProcessOf[t]
<1>3. id \in Ids /\ WriteWord(t, a, w) /\ p \in Processes
  BY <1>1, <1>2 DEF SwitchSoftware, TypeOK, Ids, ConstantsOK
<1>4. /\ DOMAIN breakpoints' = DOMAIN breakpoints
      /\ \A i \in DOMAIN breakpoints :
           /\ breakpoints'[i].tid = breakpoints[i].tid
           /\ breakpoints'[i].address = breakpoints[i].address
           /\ breakpoints'[i].type = breakpoints[i].type
           /\ breakpoints'[i].enabled = (IF i = id THEN on ELSE breakpoints[i].enabled)
  BY <1>1, SwitchFields
<1>5. Promised' = Promised
  BY <1>4, ExactStays DEF Promised, IsSoftware
<1>6. PromisedPoints' = [i \in Promised |->
        [process |-> ProcessOf[breakpoints[i].tid], address |-> breakpoints[i].address,
         on |-> IF i = id THEN on ELSE breakpoints[i].enabled]]
  BY <1>4, <1>5 DEF PromisedPoints, Promised
<1>7. CASE Exact(p, a)
  <2>1. /\ id \in Promised /\ DOMAIN PromisedPoints = Promised
        /\ PromisedPoints[id] = [process |-> p, address |-> a, on |-> breakpoints[id].enabled]
    BY <1>1, <1>2, <1>7 DEF Promised, PromisedPoints
  <2>2. PromisedPoints' = [PromisedPoints EXCEPT ![id].on = on]
    BY <1>6, <2>1 DEF PromisedPoints
  <2>3. (w # Text[p][a]) <=> on
    BY <1>1, <1>2, <1>3, <1>7 DEF SavedOriginal, TextWithoutBRK
  <2>4. PromisedTraps' = [PromisedTraps EXCEPT ![p] = IF on THEN @ \cup {a} ELSE @ \ {a}]
    BY <1>1, <1>3, <1>7, <2>3, ExactWriteMovesOneTrap
  <2>5. Promise!Turn(id, on)
    BY <1>1, <2>1, <2>2, <2>4 DEF Promise!Turn
  <2> QED
    BY <1>3, <2>5 DEF Promise!Next
<1>8. CASE ~Exact(p, a)
  <2>1. id \notin Promised
    BY <1>2, <1>8 DEF Promised
  <2>2. PromisedPoints' = PromisedPoints
    BY <1>6, <2>1 DEF PromisedPoints
  <2>3. PromisedTraps' = PromisedTraps
    BY <1>1, <1>3, <1>8, OtherWritesMoveNone
  <2> QED
    BY <1>1, <2>2, <2>3
<1> QED
  BY <1>7, <1>8

\* So every change is a step of the trap table or leaves it as it is.
LEMMA PromiseStep ==
  ASSUME ConstantsOK, Inv, TextWithoutBRK, Change
  PROVE  Promise!Next \/ UNCHANGED <<PromisedPoints, PromisedTraps, nextId>>
<1>1. ASSUME NEW id \in DOMAIN breakpoints, DisarmAndForget(id)
      PROVE  UNCHANGED <<PromisedPoints, PromisedTraps, nextId>>
  <2>1. /\ DOMAIN breakpoints' = DOMAIN breakpoints \ {id}
        /\ \A i \in DOMAIN breakpoints' : breakpoints'[i] = breakpoints[i]
    BY <1>1, ForgetFacts DEF DisarmAndForget
  <2>2. UNCHANGED <<code, nextId>> /\ breakpoints[id].type # SOFTWARE
    BY <1>1 DEF DisarmAndForget, Forget, IsSoftware
  <2> QED
    BY <2>1, <2>2, PromiseStutter
<1>2. ASSUME NEW id \in DOMAIN breakpoints, NEW on \in BOOLEAN, SwitchHardware(id, on)
      PROVE  UNCHANGED <<PromisedPoints, PromisedTraps, nextId>>
  <2>1. SetEnabled(id, on) /\ UNCHANGED <<code, nextId>> /\ breakpoints[id].type # SOFTWARE
    BY <1>2 DEF SwitchHardware, SetEnabled, IsSoftware
  <2>2. /\ DOMAIN breakpoints' = DOMAIN breakpoints
        /\ \A i \in DOMAIN breakpoints : i # id => breakpoints'[i] = breakpoints[i]
        /\ breakpoints'[id].type = breakpoints[id].type
    BY <2>1, SwitchFields DEF Inv
  <2> QED
    BY <2>1, <2>2, PromiseStutter
<1>3. CASE UNCHANGED <<breakpoints, code, nextId>>
  BY <1>3, PromiseStutter
<1>4. TypeOK
  BY DEF Inv
<1> QED
  BY <1>1, <1>2, <1>3, <1>4, PatchNewKeepsPromise, ProgramNewKeepsPromise,
     RestoreKeepsPromise, SwitchKeepsPromise
  DEF Change, FirstProbe, ThreadExits, table

-----------------------------------------------------------------------------
(* Breakpoints whose thread has gone.                                      *)

\* A change leaves the record of a stale breakpoint alone: what would remove or
\* switch it writes through its thread.
LEMMA StaleRecordStays ==
  ASSUME TypeOK, Change, NEW id \in DOMAIN breakpoints, Stale(id)
  PROVE  id \in DOMAIN breakpoints' /\ breakpoints'[id] = breakpoints[id]
<1>1. ASSUME NEW t, NEW a, NEW type, NEW w, NEW r, NewBreakpoint(t, a, type, w, r)
      PROVE  id \in DOMAIN breakpoints' /\ breakpoints'[id] = breakpoints[id]
  BY <1>1, NewFacts
<1>2. ASSUME NEW i \in DOMAIN breakpoints, RestoreAndForget(i) \/ DisarmAndForget(i)
      PROVE  id \in DOMAIN breakpoints' /\ breakpoints'[id] = breakpoints[id]
  <2>1. i # id
    BY <1>2 DEF RestoreAndForget, DisarmAndForget, WriteWord, Stale
  <2>2. Forget(i)
    BY <1>2 DEF RestoreAndForget, DisarmAndForget
  <2> QED
    BY <2>1, <2>2, ForgetFacts
<1>3. ASSUME NEW i \in DOMAIN breakpoints, NEW on \in BOOLEAN,
             SwitchSoftware(i, on) \/ SwitchHardware(i, on)
      PROVE  id \in DOMAIN breakpoints' /\ breakpoints'[id] = breakpoints[id]
  <2>1. i # id
    BY <1>3 DEF SwitchSoftware, SwitchHardware, WriteWord, Stale
  <2>2. SetEnabled(i, on)
    BY <1>3 DEF SwitchSoftware, SwitchHardware
  <2> QED
    BY <2>1, <2>2, SwitchFields
<1>4. ASSUME NEW t \in Tids, NEW a \in Addresses, PatchNew(t, a)
      PROVE  id \in DOMAIN breakpoints' /\ breakpoints'[id] = breakpoints[id]
  BY <1>1, <1>4 DEF PatchNew
<1>5. ASSUME NEW t \in Tids, NEW a \in Addresses, NEW type \in HardwareTypes,
             ProgramNew(t, a, type)
      PROVE  id \in DOMAIN breakpoints' /\ breakpoints'[id] = breakpoints[id]
  BY <1>1, <1>5 DEF ProgramNew
<1>6. CASE UNCHANGED breakpoints
  BY <1>6
<1> QED
  BY <1>2, <1>3, <1>4, <1>5, <1>6 DEF Change, FirstProbe, ThreadExits, table

\* It leaves its address to it, and the word there as it is in every process:
\* no other breakpoint of any process accounts for a BRK at that address, before
\* the change or after it.
LEMMA StaleStep == ASSUME ConstantsOK, Inv, Change PROVE StaleAreLeft
<1>1. OneBreakpointPerAddress' /\ CodeTransparent'
  BY AddressStep, CodeStep DEF Inv
<1> SUFFICES ASSUME NEW id \in DOMAIN breakpoints, Stale(id),
                    NEW a, a = breakpoints[id].address
             PROVE  /\ id \in DOMAIN breakpoints' /\ breakpoints'[id] = breakpoints[id]
                    /\ \A other \in DOMAIN breakpoints' \ {id} :
                         breakpoints'[other].address # a
                    /\ \A p \in Processes : Exact(p, a) => code'[p][a] = code[p][a]
  BY DEF StaleAreLeft
<1>2. id \in DOMAIN breakpoints' /\ breakpoints'[id] = breakpoints[id]
  BY StaleRecordStays DEF Inv
<1>3. \A other \in DOMAIN breakpoints' \ {id} : breakpoints'[other].address # a
  BY <1>1, <1>2 DEF OneBreakpointPerAddress
<1>4. \A other \in DOMAIN breakpoints \ {id} : breakpoints[other].address # a
  BY DEF Inv, OneBreakpointPerAddress
<1>5. a \in AlignedAddresses
  BY DEF Inv, TypeOK, Breakpoint
<1>6. ASSUME NEW p \in Processes, Exact(p, a)
      PROVE  code'[p][a] = code[p][a]
  <2>1. Patched(p, a)' <=> Patched(p, a)
    BY <1>2, <1>3, <1>4 DEF Patched, IsSoftware
  <2>2. code[p][a] = IF Patched(p, a) THEN BRK ELSE Text[p][a]
    BY <1>5, <1>6 DEF Inv, CodeTransparent
  <2>3. code'[p][a] = IF Patched(p, a)' THEN BRK ELSE Text[p][a]
    BY <1>1, <1>5, <1>6, ExactStays DEF CodeTransparent
  <2> QED
    BY <2>1, <2>2, <2>3
<1> QED
  BY <1>2, <1>3, <1>6

-----------------------------------------------------------------------------
(* The theorems.                                                           *)

\* Before the first call the table is empty and the target untouched.
LEMMA InitInv == ASSUME ConstantsOK, Init PROVE Inv
<1>1. TypeOK
  <2>1. Idle \in DebugRegister
    BY DEF Idle, DebugRegister, HardwareTypes
  <2>2. DOMAIN breakpoints = {} /\ DOMAIN addressIndex = {} /\ DOMAIN registerCount = {}
    BY DEF Init
  <2> QED
    BY <2>1, <2>2 DEF Init, TypeOK, ConstantsOK
<1>2. DOMAIN breakpoints = {}
  BY DEF Init
<1>3. \A t \in Tids : Owned(t) = {}
  BY <1>2 DEF Owned
<1> QED
  BY <1>1, <1>2, <1>3
  DEF Init, Inv, OneBreakpointPerAddress, SavedOriginal, CodeTransparent, Patched,
      IndexesAgree, RegisterAccounting, ArmedMatches

\* Inv holds in every reachable state: whatever public methods are called in
\* whatever order, whichever accesses the kernel refuses and threads exit.
THEOREM Invariance == Spec => []Inv
<1>1. Init => Inv
  BY ConstantsOK, InitInv
<1>2. Inv /\ [Next]_vars => Inv'
  BY ConstantsOK, NextChanges, TypeStep, AddressStep, OriginalStep, CodeStep,
     IndexStep, RegisterStep, ArmedStep DEF Inv
<1> QED
  BY <1>1, <1>2, PTL DEF Spec

\* The state of BreakpointManager is well typed.
THEOREM TypeCorrect == Spec => []TypeOK
  BY Invariance, PTL DEF Inv

\* The target's text differs from its own only where enabled software
\* breakpoints sit.
THEOREM TextIsTransparent == Spec => []CodeTransparent
  BY Invariance, PTL DEF Inv

\* No two breakpoints share an address, and each saved the program's own word.
THEOREM RestoresTheProgram == Spec => [](OneBreakpointPerAddress /\ SavedOriginal)
  BY Invariance, PTL DEF Inv

\* Both indexes lead to the table.
THEOREM IndexesLeadToTheTable == Spec => []IndexesAgree
  BY Invariance, PTL DEF Inv

\* No debug register is lost, shared, or programmed for anything but its owner.
THEOREM RegistersAreAccountedFor == Spec => [](RegisterAccounting /\ ArmedMatches)
  BY Invariance, PTL DEF Inv

\* A software breakpoint whose thread has gone keeps its address for good, and
\* the words there stay as they are in every process.
THEOREM StaleAreKept == Spec => StaleKeepTheirAddress
<1>1. Inv /\ [Next]_vars => [StaleAreLeft]_vars
  BY ConstantsOK, NextChanges, StaleStep
<1> QED
  BY <1>1, Invariance, PTL DEF Spec, StaleKeepTheirAddress

\* Every call is one step of the trap table or none: points and traps change
\* together, a process traps exactly at the points that are on, and no id is
\* given out twice (set, enable, disable and remove of software breakpoints).
THEOREM PromiseIsKept == ASSUME TextWithoutBRK PROVE Spec => KeepsPromise
<1>1. Init => Promise!Init
  <2> SUFFICES ASSUME Init PROVE Promise!Init
    OBVIOUS
  <2>1. PromisedPoints = <<>>
    BY DEF Init, PromisedPoints, Promised
  <2>2. PromisedTraps = [p \in Processes |-> {}]
    BY DEF Init, PromisedTraps
  <2>3. 1 .. nextId - 1 = {}
    BY DEF Init
  <2> QED
    BY <2>1, <2>2, <2>3 DEF Promise!Init
<1>2. Inv /\ [Next]_vars => [Promise!Next]_(Promise!vars)
  BY ConstantsOK, NextChanges, PromiseStep DEF Promise!vars
<1> QED
  BY <1>1, <1>2, Invariance, PTL DEF Spec, KeepsPromise, Promise!Spec

=============================================================================
