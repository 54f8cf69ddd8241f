--------------------------- MODULE UartInitProofs ---------------------------
(***************************************************************************)
(* Theorems about the initialisation of the PIO UARTs, for any number of   *)
(* buses, slots, state machines and instructions.                          *)
(***************************************************************************)
EXTENDS UartInit, FiniteSetTheorems, TLAPS

(***************************************************************************)
(* The inductive invariant.  A task that looks for a slot has left no NULL *)
(* behind.  Tasks that are about to take the same slot are known to share  *)
(* it, and what is in that slot is NULL or one of them: so the slot of a   *)
(* UART that shares with nobody is its own from the moment it is taken.    *)
(* A bus that runs has waited for the delay, and one that initialises has  *)
(* not taken longer than it may.                                           *)
(***************************************************************************)
Looking == {"absent", "find", "take"}
NoneBehind ==
  \A b \in Buses : \A j \in 1 .. index[b] :
    pc[b] \in Looking /\ j < index[b] => active_pio_uarts[j] # None
Rivals ==
  \A b, c \in Buses :
    pc[b] = "take" /\ pc[c] = "take" /\ index[b] = index[c] /\ b # c =>
      b \in shared /\ c \in shared
TakenByRival ==
  \A b \in Buses : pc[b] = "take" =>
    active_pio_uarts[index[b]] \in shared \cup {None}
OwnSlot ==
  \A b \in Buses \ shared : pc[b] \notin Looking => active_pio_uarts[index[b]] = b
Running == \A b \in irq_enabled : pc[b] \in Ready
RxOwned == \A b \in Buses : pc[b] = "tx_claim" => Owns(b, "rx")
Punctual ==
  /\ \A b \in Initialising : elapsed <= since[b] + InitTime
  /\ \A b \in Buses : pc[b] = "running" => since[b] + StartDelay <= elapsed
Inv ==
  /\ TypeOK /\ NoGaps /\ NoneBehind /\ Rivals /\ TakenByRival /\ OwnSlot
  /\ Running /\ RxOwned /\ Punctual

(* The steps that leave the array alone.                                   *)
Later(b) ==
  \/ CheckRxProgram(b) \/ LoadRxProgram(b) \/ CheckTxProgram(b) \/ LoadTxProgram(b)
  \/ ClaimRx(b) \/ ClaimTx(b) \/ EnableIrqs(b) \/ Run(b)

(* What they do to the rest.                                               *)
LEMMA LaterFacts ==
  ASSUME NEW b \in Buses, Later(b), TypeOK
  PROVE  /\ pc[b] \notin Looking
         /\ UNCHANGED <<index, active_pio_uarts, shared>>
         /\ \/ pc' = pc
            \/ \E stage \in Stages \ Looking : pc' = [pc EXCEPT ![b] = stage]
         /\ irq_enabled' # irq_enabled =>
              irq_enabled' = irq_enabled \cup {b} /\ pc'[b] \in Ready
         /\ elapsed' = elapsed /\ since' \in [Buses -> Nat]
<1>t. elapsed \in Nat /\ since \in [Buses -> Nat] /\ pc \in [Buses -> Stages]
  BY DEF TypeOK, ArrayOK
<1>1. CASE CheckRxProgram(b) \/ CheckTxProgram(b)
  BY <1>t, <1>1 DEF CheckRxProgram, CheckTxProgram, At, Goto, Looking, Stages, clockVars
<1>2. CASE LoadRxProgram(b) \/ LoadTxProgram(b)
  BY <1>t, <1>2 DEF LoadRxProgram, LoadTxProgram, AddProgram, Panic, At, Goto, Looking,
                    Stages, clockVars
<1>3. CASE ClaimRx(b) \/ ClaimTx(b)
  BY <1>t, <1>3 DEF ClaimRx, ClaimTx, Claim, Panic, At, Goto, Looking, Stages, clockVars
<1>4. CASE EnableIrqs(b)
  BY <1>t, <1>4 DEF EnableIrqs, At, Goto, Looking, Stages, Ready
<1>5. CASE Run(b)
  BY <1>t, <1>5 DEF Run, At, Goto, Looking, Stages, clockVars
<1> QED BY <1>1, <1>2, <1>3, <1>4, <1>5 DEF Later

(* Numbers of slots.                                                       *)
LEMMA SlotFacts ==
  ASSUME NEW i \in Slots
  PROVE  /\ CountPioUarts \in Nat /\ i \in Nat /\ 1 <= i
         /\ i <= CountPioUarts => i + 1 \in Slots
         /\ i <= CountPioUarts => i # CountPioUarts + 1
         /\ \A j \in 1 .. i : j \in Slots
         /\ \A j \in 1 .. i + 1 : j < i + 1 => j \in 1 .. i /\ (j < i \/ j = i)
         /\ \A j \in 1 .. i : j < i \/ j = i
  BY UartInitAssumption DEF Slots

(* The array and its indices keep their type.                              *)
LEMMA ArrayNext ==
  ASSUME TypeOK, [Next]_vars
  PROVE  ArrayOK'
<1>t. ArrayOK
  BY DEF TypeOK
<1>1. CASE UNCHANGED vars
  BY <1>1, <1>t DEF vars, clockVars, ArrayOK
<1>2. ASSUME NEW b \in Buses, StartTask(b) PROVE ArrayOK'
  BY <1>2, <1>t DEF StartTask, At, Goto, ArrayOK, Stages, clockVars
<1>3. ASSUME NEW b \in Buses, NextSlot(b) PROVE ArrayOK'
  <2>1. index[b] \in Slots /\ index[b] + 1 \in Slots
    BY <1>3, <1>t, SlotFacts DEF NextSlot, ArrayOK
  <2> QED BY <1>3, <1>t, <2>1 DEF NextSlot, At, ArrayOK, clockVars
<1>4. ASSUME NEW b \in Buses, FindSlot(b) PROVE ArrayOK'
  BY <1>4, <1>t DEF FindSlot, At, Goto, ArrayOK, Stages, clockVars
<1>5. ASSUME NEW b \in Buses, TakeSlot(b) PROVE ArrayOK'
  <2>1. index[b] \in Slots /\ index[b] # CountPioUarts + 1
    BY <1>5, <1>t, SlotFacts DEF TakeSlot, At, ArrayOK
  <2> QED BY <1>5, <1>t, <2>1 DEF TakeSlot, At, Goto, ArrayOK, Stages, clockVars
<1>6. ASSUME NEW b \in Buses, Later(b) PROVE ArrayOK'
  BY <1>6, <1>t, LaterFacts DEF ArrayOK, Looking
<1>7. CASE Tick
  BY <1>7, <1>t DEF Tick, ArrayOK
<1> QED BY <1>1, <1>2, <1>3, <1>4, <1>5, <1>6, <1>7 DEF Next, Step, Later

(* The steps before the programs leave the PIOs alone.                     *)
LEMMA EarlyPios ==
  ASSUME NEW b \in Buses, TypeOK, RxOwned,
         StartTask(b) \/ NextSlot(b) \/ FindSlot(b) \/ TakeSlot(b)
  PROVE  PiosOK' /\ RxOwned'
<1>1. UNCHANGED <<piosVars, panicked>>
  BY DEF StartTask, NextSlot, FindSlot, TakeSlot
<1>2. \A c \in Buses : pc'[c] \in Ready \cup {"irq", "tx_claim"} => pc'[c] = pc[c]
  BY DEF StartTask, NextSlot, FindSlot, TakeSlot, At, Goto, TypeOK, ArrayOK, Ready
<1> QED BY <1>1, <1>2 DEF TypeOK, PiosOK, RxOwned, Owns, piosVars

(* A claim takes a state machine from nobody.                              *)
LEMMA ClaimKeeps ==
  ASSUME NEW b \in Buses, NEW side \in Sides, TypeOK, NEW sm \in Unclaimed(side),
         claimed' = [claimed EXCEPT ![side][sm] = b]
  PROVE  /\ claimed' \in [Sides -> [StateMachines -> Buses \cup {None, "dmx"}]]
         /\ Owns(b, side)'
         /\ \A c \in Buses, s \in Sides : Owns(c, s) => Owns(c, s)'
<1>1. /\ claimed \in [Sides -> [StateMachines -> Buses \cup {None, "dmx"}]]
      /\ sm \in StateMachines /\ claimed[side][sm] = None
  BY DEF TypeOK, PiosOK, Unclaimed
<1>2. /\ claimed' \in [Sides -> [StateMachines -> Buses \cup {None, "dmx"}]]
      /\ claimed'[side][sm] = b
      /\ \A s \in Sides, m \in StateMachines :
           <<s, m>> # <<side, sm>> => claimed'[s][m] = claimed[s][m]
  BY <1>1
<1>3. ASSUME NEW c \in Buses, NEW s \in Sides, Owns(c, s) PROVE Owns(c, s)'
  <2>1. PICK m \in StateMachines : claimed[s][m] = c
    BY <1>3 DEF Owns
  <2>2. <<s, m>> # <<side, sm>>
    BY <1>1, <2>1, UartInitAssumption
  <2> QED BY <1>2, <2>1, <2>2 DEF Owns
<1> QED BY <1>1, <1>2, <1>3 DEF Owns

(* The PIOs keep their type, and every claim its owner.                    *)
LEMMA PiosNext ==
  ASSUME TypeOK, RxOwned, [Next]_vars
  PROVE  PiosOK' /\ RxOwned'
<1>sides. "rx" \in Sides /\ "tx" \in Sides
  BY DEF Sides
<1>t. ArrayOK /\ PiosOK
  BY DEF TypeOK
<1>1. CASE UNCHANGED vars
  BY <1>1, <1>t DEF vars, piosVars, PiosOK, RxOwned, Owns
<1>2. ASSUME NEW b \in Buses,
             StartTask(b) \/ NextSlot(b) \/ FindSlot(b) \/ TakeSlot(b)
      PROVE  PiosOK' /\ RxOwned'
  BY <1>2, EarlyPios
<1>3. ASSUME NEW b \in Buses, CheckRxProgram(b) \/ CheckTxProgram(b)
      PROVE  PiosOK' /\ RxOwned'
  BY <1>3, <1>t DEF CheckRxProgram, CheckTxProgram, At, Goto, ArrayOK, PiosOK, RxOwned,
                    Owns, piosVars, Ready
<1>4. ASSUME NEW b \in Buses, NEW side \in Sides, NEW next \in {"tx_program", "rx_claim"},
             AddProgram(b, side, next)
      PROVE  PiosOK' /\ RxOwned'
  <2>1. CASE Panic
    BY <2>1, <1>t DEF Panic, piosVars, PiosOK, RxOwned, Owns
  <2>2. CASE ~ Panic
    <3>1. /\ memory' = [memory EXCEPT ![side] = @ + ProgramSize[side]]
          /\ ~ (memory[side] + ProgramSize[side] > ProgramMemory)
          /\ program_loaded' = [program_loaded EXCEPT ![side] = TRUE]
          /\ pc' = [pc EXCEPT ![b] = next] /\ UNCHANGED <<claimed, panicked>>
      BY <1>4, <2>2 DEF AddProgram, Goto
    <3>2. ProgramSize[side] \in Nat /\ ProgramMemory \in Nat /\ memory[side] \in Nat
      BY <1>t, UartInitAssumption DEF PiosOK
    <3>3. memory[side] + ProgramSize[side] \in 0 .. ProgramMemory
      BY <3>1, <3>2
    <3>4. memory' \in [Sides -> 0 .. ProgramMemory]
      BY <1>t, <3>1, <3>3 DEF PiosOK
    <3> QED BY <1>t, <3>1, <3>4 DEF ArrayOK, PiosOK, RxOwned, Owns, Ready
  <2> QED BY <2>1, <2>2
<1>5. ASSUME NEW b \in Buses, ClaimRx(b) PROVE PiosOK' /\ RxOwned'
  <2>1. CASE Panic
    BY <2>1, <1>t DEF Panic, piosVars, PiosOK, RxOwned, Owns
  <2>2. CASE ~ Panic
    <3>1. PICK sm \in Unclaimed("rx") : claimed' = [claimed EXCEPT !["rx"][sm] = b]
      BY <1>5, <2>2 DEF ClaimRx, Claim
    <3>2. pc' = [pc EXCEPT ![b] = "tx_claim"] /\ UNCHANGED <<program_loaded, memory, panicked>>
      BY <1>5, <2>2 DEF ClaimRx, Claim, Goto
    <3>3. /\ claimed' \in [Sides -> [StateMachines -> Buses \cup {None, "dmx"}]]
          /\ Owns(b, "rx")' /\ \A c \in Buses, s \in Sides : Owns(c, s) => Owns(c, s)'
      BY <1>sides, <3>1, ClaimKeeps
    <3> QED BY <1>sides, <1>t, <3>2, <3>3 DEF ArrayOK, PiosOK, RxOwned, Ready
  <2> QED BY <2>1, <2>2
<1>6. ASSUME NEW b \in Buses, ClaimTx(b) PROVE PiosOK' /\ RxOwned'
  <2>1. CASE Panic
    BY <2>1, <1>t DEF Panic, piosVars, PiosOK, RxOwned, Owns
  <2>2. CASE ~ Panic
    <3>1. PICK sm \in Unclaimed("tx") : claimed' = [claimed EXCEPT !["tx"][sm] = b]
      BY <1>6, <2>2 DEF ClaimTx, Claim
    <3>2. /\ pc[b] = "tx_claim" /\ pc' = [pc EXCEPT ![b] = "irq"]
          /\ UNCHANGED <<program_loaded, memory, panicked>>
      BY <1>6, <2>2 DEF ClaimTx, Claim, At, Goto
    <3>3. /\ claimed' \in [Sides -> [StateMachines -> Buses \cup {None, "dmx"}]]
          /\ Owns(b, "tx")' /\ \A c \in Buses, s \in Sides : Owns(c, s) => Owns(c, s)'
      BY <1>sides, <3>1, ClaimKeeps
    <3> QED BY <1>sides, <1>t, <3>2, <3>3 DEF ArrayOK, PiosOK, RxOwned, Ready
  <2> QED BY <2>1, <2>2
<1>7. ASSUME NEW b \in Buses, EnableIrqs(b) \/ Run(b) PROVE PiosOK' /\ RxOwned'
  BY <1>7, <1>t DEF EnableIrqs, Run, At, Goto, ArrayOK, PiosOK, RxOwned, Owns, piosVars,
                    Ready
<1>8. ASSUME NEW b \in Buses, LoadRxProgram(b) \/ LoadTxProgram(b) PROVE PiosOK' /\ RxOwned'
  BY <1>8, <1>4, <1>sides DEF LoadRxProgram, LoadTxProgram
<1>9. CASE Tick
  BY <1>9, <1>t DEF Tick, piosVars, PiosOK, RxOwned, Owns
<1> QED BY <1>1, <1>2, <1>3, <1>5, <1>6, <1>7, <1>8, <1>9 DEF Next, Step

(* Taking a slot fills the array from the front.                           *)
LEMMA GapsNext ==
  ASSUME TypeOK, NoGaps, NoneBehind, [Next]_vars
  PROVE  NoGaps' /\ NoneBehind'
<1>t. ArrayOK
  BY DEF TypeOK
<1>1. CASE UNCHANGED vars
  BY <1>1 DEF vars, NoGaps, NoneBehind
<1>2. ASSUME NEW b \in Buses, StartTask(b) \/ FindSlot(b) PROVE NoGaps' /\ NoneBehind'
  BY <1>2, <1>t DEF StartTask, FindSlot, At, Goto, NoGaps, NoneBehind, ArrayOK, Looking
<1>3. ASSUME NEW b \in Buses, NextSlot(b) PROVE NoGaps' /\ NoneBehind'
  <2>1. /\ index' = [index EXCEPT ![b] = index[b] + 1] /\ index[b] \in Slots
        /\ active_pio_uarts[index[b]] # None /\ pc[b] = "find"
        /\ UNCHANGED <<active_pio_uarts, pc>>
    BY <1>3, <1>t DEF NextSlot, At, ArrayOK
  <2>2. NoGaps'
    BY <2>1 DEF NoGaps
  <2>3. ASSUME NEW c \in Buses, NEW j \in 1 .. index'[c], pc'[c] \in Looking, j < index'[c]
        PROVE  active_pio_uarts'[j] # None
    <3>1. CASE c = b
      <4>1. j \in 1 .. index[b] /\ (j < index[b] \/ j = index[b])
        BY <1>t, <2>1, <2>3, <3>1, SlotFacts DEF ArrayOK
      <4> QED BY <2>1, <4>1 DEF NoneBehind, Looking
    <3>2. CASE c # b
      BY <1>t, <2>1, <2>3, <3>2 DEF NoneBehind, ArrayOK
    <3> QED BY <3>1, <3>2
  <2> QED BY <2>2, <2>3 DEF NoneBehind
<1>4. ASSUME NEW b \in Buses, TakeSlot(b) PROVE NoGaps' /\ NoneBehind'
  <2>1. /\ active_pio_uarts' = [active_pio_uarts EXCEPT ![index[b]] = b]
        /\ index[b] \in Slots /\ pc[b] = "take" /\ b # None
        /\ pc' = [pc EXCEPT ![b] = "rx_program"] /\ index' = index
    BY <1>4, <1>t, UartInitAssumption DEF TakeSlot, At, Goto, ArrayOK
  <2>2. \A i \in Slots : active_pio_uarts[i] # None => active_pio_uarts'[i] # None
    BY <1>t, <2>1 DEF ArrayOK
  <2>3. ASSUME NEW i \in Slots, NEW j \in 1 .. i, active_pio_uarts'[i] # None
        PROVE  active_pio_uarts'[j] # None
    <3>0. j \in Slots
      BY SlotFacts
    <3>1. CASE i # index[b]
      <4>1. active_pio_uarts[i] # None
        BY <1>t, <2>1, <2>3, <3>1 DEF ArrayOK
      <4> QED BY <2>2, <3>0, <4>1 DEF NoGaps
    <3>2. CASE i = index[b]
      <4>1. j < index[b] \/ j = index[b]
        BY <3>2, SlotFacts
      <4>2. CASE j < index[b]
        BY <2>1, <2>2, <3>0, <3>2, <4>2 DEF NoneBehind, Looking
      <4>3. CASE j = index[b]
        BY <1>t, <2>1, <4>3 DEF ArrayOK
      <4> QED BY <4>1, <4>2, <4>3
    <3> QED BY <3>1, <3>2
  <2>4. ASSUME NEW c \in Buses, NEW j \in 1 .. index'[c], pc'[c] \in Looking, j < index'[c]
        PROVE  active_pio_uarts'[j] # None
    <3>1. j \in Slots /\ index[c] \in Slots
      BY <1>t, <2>1, SlotFacts DEF ArrayOK
    <3>2. pc[c] \in Looking
      BY <1>t, <2>1, <2>4 DEF ArrayOK, Looking
    <3> QED BY <2>1, <2>2, <2>4, <3>1, <3>2 DEF NoneBehind
  <2> QED BY <2>3, <2>4 DEF NoGaps, NoneBehind
<1>5. ASSUME NEW b \in Buses, Later(b) PROVE NoGaps' /\ NoneBehind'
  <2>1. UNCHANGED <<index, active_pio_uarts>>
        /\ \A c \in Buses : pc'[c] \in Looking => pc[c] \in Looking
    BY <1>5, <1>t, LaterFacts DEF ArrayOK
  <2> QED BY <2>1 DEF NoGaps, NoneBehind
<1>6. CASE Tick
  BY <1>6 DEF Tick, NoGaps, NoneBehind
<1> QED BY <1>1, <1>2, <1>3, <1>4, <1>5, <1>6 DEF Next, Step, Later

(* A slot that is not shared stays with the task that took it.             *)
LEMMA SlotsNext ==
  ASSUME TypeOK, Rivals, TakenByRival, OwnSlot, [Next]_vars
  PROVE  Rivals' /\ TakenByRival' /\ OwnSlot'
<1>t. ArrayOK
  BY DEF TypeOK
<1>1. CASE UNCHANGED vars
  BY <1>1 DEF vars, Rivals, TakenByRival, OwnSlot
<1>2. ASSUME NEW b \in Buses, StartTask(b) \/ NextSlot(b)
      PROVE  Rivals' /\ TakenByRival' /\ OwnSlot'
  <2>1. /\ UNCHANGED <<active_pio_uarts, shared>>
        /\ pc[b] \in Looking /\ pc'[b] \in Looking /\ pc'[b] # "take"
        /\ \A c \in Buses \ {b} : pc'[c] = pc[c] /\ index'[c] = index[c]
    BY <1>2, <1>t DEF StartTask, NextSlot, At, Goto, ArrayOK, Looking
  <2> QED BY <2>1 DEF Rivals, TakenByRival, OwnSlot
<1>3. ASSUME NEW b \in Buses, FindSlot(b) PROVE Rivals' /\ TakenByRival' /\ OwnSlot'
  <2> DEFINE rivals == {c \in Buses : pc[c] = "take" /\ index[c] = index[b]}
  <2>1. /\ pc[b] = "find" /\ pc' = [pc EXCEPT ![b] = "take"]
        /\ UNCHANGED <<index, active_pio_uarts>>
        /\ active_pio_uarts[index[b]] = None
        /\ shared' = shared \cup (IF rivals = {} THEN {} ELSE rivals \cup {b})
    BY <1>3 DEF FindSlot, At, Goto
  <2>2. shared \subseteq shared' /\ pc'[b] = "take" /\ \A c \in Buses \ {b} : pc'[c] = pc[c]
    BY <1>t, <2>1 DEF ArrayOK
  <2>3. \A c \in rivals : c \in shared' /\ b \in shared'
    BY <2>1
  <2>4. Rivals'
    BY <2>1, <2>2, <2>3 DEF Rivals
  <2>5. TakenByRival'
    BY <2>1, <2>2 DEF TakenByRival
  <2>6. OwnSlot'
    BY <2>1, <2>2 DEF OwnSlot, Looking
  <2> QED BY <2>4, <2>5, <2>6
<1>4. ASSUME NEW b \in Buses, TakeSlot(b) PROVE Rivals' /\ TakenByRival' /\ OwnSlot'
  <2>1. /\ pc[b] = "take" /\ pc'[b] = "rx_program" /\ \A c \in Buses \ {b} : pc'[c] = pc[c]
        /\ UNCHANGED <<index, shared>> /\ index[b] \in Slots
        /\ active_pio_uarts'[index[b]] = b
        /\ \A i \in Slots : i # index[b] => active_pio_uarts'[i] = active_pio_uarts[i]
    BY <1>4, <1>t DEF TakeSlot, At, Goto, ArrayOK
  <2>2. Rivals'
    BY <2>1 DEF Rivals
  <2>3. ASSUME NEW c \in Buses, pc'[c] = "take"
        PROVE  active_pio_uarts'[index[c]] \in shared \cup {None}
    <3>0. c # b /\ pc[c] = "take" /\ index[c] \in Slots
      BY <1>t, <2>1, <2>3 DEF ArrayOK
    <3>1. CASE index[c] = index[b]
      BY <2>1, <3>0, <3>1 DEF Rivals
    <3>2. CASE index[c] # index[b]
      BY <2>1, <3>0, <3>2 DEF TakenByRival
    <3> QED BY <3>1, <3>2
  <2>4. ASSUME NEW c \in Buses \ shared, pc'[c] \notin Looking
        PROVE  active_pio_uarts'[index[c]] = c
    <3>1. CASE c = b
      BY <2>1, <3>1
    <3>2. CASE c # b
      <4>1. active_pio_uarts[index[c]] = c /\ index[c] \in Slots
        BY <1>t, <2>1, <2>4, <3>2 DEF OwnSlot, ArrayOK
      <4>2. index[c] # index[b]
        BY <2>1, <4>1, UartInitAssumption DEF TakenByRival
      <4> QED BY <2>1, <4>1, <4>2
    <3> QED BY <3>1, <3>2
  <2> QED BY <2>1, <2>2, <2>3, <2>4 DEF TakenByRival, OwnSlot
<1>5. ASSUME NEW b \in Buses, Later(b) PROVE Rivals' /\ TakenByRival' /\ OwnSlot'
  <2>1. /\ UNCHANGED <<index, active_pio_uarts, shared>>
        /\ \A c \in Buses : pc'[c] # pc[c] => pc[c] \notin Looking /\ pc'[c] \notin Looking
    BY <1>5, <1>t, LaterFacts DEF ArrayOK
  <2> QED BY <2>1 DEF Rivals, TakenByRival, OwnSlot, Looking
<1>6. CASE Tick
  BY <1>6 DEF Tick, Rivals, TakenByRival, OwnSlot
<1> QED BY <1>1, <1>2, <1>3, <1>4, <1>5, <1>6 DEF Next, Step, Later

(* Interrupts are enabled last.                                            *)
LEMMA RunningNext ==
  ASSUME TypeOK, Running, [Next]_vars
  PROVE  Running'
<1>t. ArrayOK
  BY DEF TypeOK
<1>1. CASE UNCHANGED vars
  BY <1>1 DEF vars, Running
<1>2. ASSUME NEW b \in Buses,
             StartTask(b) \/ NextSlot(b) \/ FindSlot(b) \/ TakeSlot(b)
      PROVE  Running'
  BY <1>2, <1>t DEF StartTask, NextSlot, FindSlot, TakeSlot, At, Goto, Running, ArrayOK,
                    Ready
<1>3. ASSUME NEW b \in Buses, Later(b) PROVE Running'
  BY <1>3, <1>t DEF Later, CheckRxProgram, LoadRxProgram, CheckTxProgram, LoadTxProgram,
     AddProgram, ClaimRx, ClaimTx, Claim, EnableIrqs, Run, Panic, At, Goto, Running,
     ArrayOK, Ready
<1>4. CASE Tick
  BY <1>4 DEF Tick, Running
<1> QED BY <1>1, <1>2, <1>3, <1>4 DEF Next, Step, Later

(* Time passes only for tasks that may still initialise, and for delays.   *)
LEMMA PunctualNext ==
  ASSUME TypeOK, Punctual, [Next]_vars
  PROVE  Punctual'
<1>t. /\ pc \in [Buses -> Stages] /\ since \in [Buses -> Nat] /\ elapsed \in Nat
      /\ StartDelay \in Nat /\ InitTime \in Nat
  BY UartInitAssumption DEF TypeOK, ArrayOK
<1>1. CASE UNCHANGED vars
  BY <1>1 DEF vars, clockVars, Punctual, Initialising
<1>2. ASSUME NEW b \in Buses, NEW stage \in Stages \ Ready, UNCHANGED clockVars,
             b \in Initialising, pc' = [pc EXCEPT ![b] = stage] \/ pc' = pc
      PROVE  Punctual'
  BY <1>t, <1>2 DEF clockVars, Punctual, Initialising, Ready
<1>3. ASSUME NEW b \in Buses, NextSlot(b) \/ FindSlot(b) \/ TakeSlot(b)
      PROVE  Punctual'
  <2>1. UNCHANGED clockVars /\ b \in Initialising
    BY <1>3 DEF NextSlot, FindSlot, TakeSlot, At, Initialising, Ready
  <2>2. \E stage \in Stages \ Ready : pc' = [pc EXCEPT ![b] = stage] \/ pc' = pc
    BY <1>3 DEF NextSlot, FindSlot, TakeSlot, Goto, Stages, Ready
  <2> QED BY <1>2, <2>1, <2>2
<1>4. ASSUME NEW b \in Buses, CheckRxProgram(b) \/ LoadRxProgram(b) \/ CheckTxProgram(b)
             \/ LoadTxProgram(b) \/ ClaimRx(b) \/ ClaimTx(b)
      PROVE  Punctual'
  <2>1. UNCHANGED clockVars /\ b \in Initialising
    BY <1>4 DEF CheckRxProgram, LoadRxProgram, CheckTxProgram, LoadTxProgram, ClaimRx,
                ClaimTx, At, Initialising, Ready
  <2>2. \E stage \in Stages \ Ready : pc' = [pc EXCEPT ![b] = stage] \/ pc' = pc
    BY <1>4 DEF CheckRxProgram, LoadRxProgram, CheckTxProgram, LoadTxProgram, ClaimRx,
                ClaimTx, AddProgram, Claim, Panic, Goto, Stages, Ready
  <2> QED BY <1>2, <2>1, <2>2
<1>5. ASSUME NEW b \in Buses, StartTask(b) \/ EnableIrqs(b) PROVE Punctual'
  <2>1. /\ pc'[b] \in {"find", "delay"} /\ since'[b] = elapsed /\ elapsed' = elapsed
        /\ \A c \in Buses \ {b} : pc'[c] = pc[c] /\ since'[c] = since[c]
    BY <1>t, <1>5 DEF StartTask, EnableIrqs, Goto
  <2>2. ASSUME NEW c \in Buses
        PROVE  /\ c \in Initialising' => elapsed' <= since'[c] + InitTime
               /\ pc'[c] = "running" => since'[c] + StartDelay <= elapsed'
    <3>1. CASE c = b
      BY <1>t, <2>1, <3>1
    <3>2. CASE c # b
      BY <2>1, <3>2 DEF Punctual, Initialising
    <3> QED BY <3>1, <3>2
  <2> QED BY <2>2 DEF Punctual, Initialising
<1>6. ASSUME NEW b \in Buses, Run(b) PROVE Punctual'
  <2>1. /\ pc[b] = "delay" /\ pc'[b] = "running" /\ since[b] + StartDelay <= elapsed
        /\ UNCHANGED clockVars
        /\ \A c \in Buses \ {b} : pc'[c] = pc[c]
    BY <1>t, <1>6 DEF Run, At, Goto
  <2> QED BY <1>t, <2>1 DEF Punctual, Initialising, Ready, clockVars
<1>7. CASE Tick
  BY <1>t, <1>7 DEF Tick, Punctual, Initialising
<1> QED BY <1>1, <1>3, <1>4, <1>5, <1>6, <1>7 DEF Next, Step

(* The initial state satisfies the invariant.                              *)
LEMMA InvInit ==
  ASSUME Init
  PROVE  Inv
<1>1. 1 \in Slots /\ CountPioUarts + 1 \in Slots
  BY UartInitAssumption DEF Slots
<1>2. ArrayOK
  BY <1>1 DEF Init, ArrayOK, Stages
<1>3. memory \in [Sides -> 0 .. ProgramMemory]
  BY UartInitAssumption DEF Init
<1>4. PiosOK
  BY <1>3 DEF Init, PiosOK, Ready
<1>5. NoGaps /\ NoneBehind
  <2>1. \A j \in 1 .. 1 : ~ (j < 1)
    OBVIOUS
  <2>2. NoGaps
    BY DEF Init, NoGaps
  <2>3. NoneBehind
    BY <2>1 DEF Init, NoneBehind
  <2> QED BY <2>2, <2>3
<1>6. Rivals /\ TakenByRival /\ OwnSlot /\ Running /\ RxOwned
  BY DEF Init, Rivals, TakenByRival, OwnSlot, Running, RxOwned, Looking
<1>7. Punctual
  BY DEF Init, Punctual, Initialising
<1> QED BY <1>2, <1>4, <1>5, <1>6, <1>7 DEF Inv, TypeOK

(* The invariant holds at every time.                                      *)
LEMMA InvCorrect == Spec => []Inv
<1>1. Inv /\ [Next]_vars => Inv'
  BY ArrayNext, PiosNext, GapsNext, SlotsNext, RunningNext, PunctualNext
     DEF Inv, TypeOK
<1> QED BY <1>1, InvInit, PTL DEF Spec

(* Every variable keeps its type, the NULL at the end of the array stays,  *)
(* and no task loses a state machine it has claimed (uart.c:40-56,         *)
(* 119-148).                                                               *)
THEOREM TypeCorrect == Spec => []TypeOK
  BY InvCorrect, PTL DEF Inv

(* No UART stands behind a NULL, where no handler would see it, wherever   *)
(* the tasks preempt each other (uart.c:47-54, 212).                       *)
THEOREM NoGapsCorrect == Spec => []NoGaps
  BY InvCorrect, PTL DEF Inv

(* A UART whose interrupts are enabled is visited by their handlers unless *)
(* another task found its slot free, too (uart.c:49-52).                   *)
THEOREM ServedCorrect == Spec => []ServedUnlessShared
<1>1. ASSUME Inv PROVE ServedUnlessShared
  <2>1. ASSUME NEW b \in irq_enabled \ shared PROVE \E i \in Slots : active_pio_uarts[i] = b
    <3>1. b \in Buses /\ pc[b] \notin Looking
      BY <1>1, <2>1 DEF Inv, TypeOK, ArrayOK, Running, Looking, Ready
    <3>2. active_pio_uarts[index[b]] = b /\ index[b] \in Slots
      BY <1>1, <2>1, <3>1 DEF Inv, OwnSlot, TypeOK, ArrayOK
    <3> QED BY <3>2
  <2> QED BY <2>1 DEF ServedUnlessShared
<1> QED BY <1>1, InvCorrect, PTL

(* When a bus runs, and a UART the handlers visit has no PIO, state        *)
(* machines and buffers yet, that UART was configured so late that the     *)
(* delay of the bus (bus.c:99-100) could not cover it: whenever the ESP    *)
(* configures them, and for any delay and any time pio_uart_init takes.    *)
THEOREM UnreadyCorrect == Spec => []UnreadyIfTooLate
<1>1. ASSUME Inv PROVE UnreadyIfTooLate
  <2>1. ASSUME NEW b \in Buses, NEW c \in Initialising, pc[b] = "running"
        PROVE  TooLate(c, b)
    <3>1. /\ elapsed \in Nat /\ since[b] \in Nat /\ since[c] \in Nat
          /\ StartDelay \in Nat /\ InitTime \in Nat
      BY <1>1, <2>1, UartInitAssumption DEF Inv, TypeOK, ArrayOK, Initialising
    <3>2. since[b] + StartDelay <= elapsed /\ elapsed <= since[c] + InitTime
      BY <1>1, <2>1 DEF Inv, Punctual
    <3> QED BY <3>1, <3>2 DEF TooLate
  <2> QED BY <2>1 DEF UnreadyIfTooLate
<1> QED BY <1>1, InvCorrect, PTL

(***************************************************************************)
(* When a panic is out of the question: each PIO has a state machine for   *)
(* each bus, DMX has its own in the receivers' one, and memory for as many *)
(* copies of the program as there are buses, since in the worst case every *)
(* task finds it not loaded.  No weaker condition would do: that case is a *)
(* matter of preemption.  The firmware's PIOs have it for three buses.     *)
(***************************************************************************)
EnoughForAll ==
  /\ Cardinality(Buses) + 1 <= Cardinality(StateMachines)
  /\ ProgramSize["dmx"] + Cardinality(Buses) * ProgramSize["rx"] <= ProgramMemory
  /\ Cardinality(Buses) * ProgramSize["tx"] <= ProgramMemory

(* The buses whose tasks may have loaded the program of a side, and those  *)
(* that have claimed a state machine of it; and what is claimed.           *)
BeforeLoad == Looking \cup {"rx_program", "rx_load"}
BeforeClaim == BeforeLoad \cup {"tx_program", "tx_load", "rx_claim"}
PastLoad(side) ==
  {b \in Buses : pc[b] \notin IF side = "rx" THEN BeforeLoad ELSE BeforeClaim \ {"rx_claim"}}
PastClaim(side) ==
  {b \in Buses : pc[b] \notin IF side = "rx" THEN BeforeClaim ELSE BeforeClaim \cup {"tx_claim"}}
Taken(side) == StateMachines \ Unclaimed(side)
Before(side) == IF side = "rx" THEN 1 ELSE 0
MemoryBefore(side) == IF side = "rx" THEN ProgramSize["dmx"] ELSE 0

(* Every copy of a program and every claim is that of another task.        *)
MemoryCounted ==
  \A side \in Sides :
    memory[side] <= MemoryBefore(side) + Cardinality(PastLoad(side)) * ProgramSize[side]
ClaimsCounted ==
  \A side \in Sides : Cardinality(Taken(side)) <= Before(side) + Cardinality(PastClaim(side))
NoPanic == MemoryCounted /\ ClaimsCounted /\ NeverPanics

(* Numbers of buses.                                                       *)
LEMMA CountBuses ==
  ASSUME NEW S \in SUBSET Buses, NEW T \in SUBSET Buses, S \subseteq T
  PROVE  /\ Cardinality(S) \in Nat /\ Cardinality(T) \in Nat
         /\ Cardinality(S) <= Cardinality(T) /\ Cardinality(T) <= Cardinality(Buses)
         /\ \A b \in T \ S : Cardinality(S) + 1 <= Cardinality(T)
<1>1. IsFiniteSet(Buses) /\ IsFiniteSet(S) /\ IsFiniteSet(T)
  BY UartInitAssumption, FS_Subset
<1>2. /\ Cardinality(S) \in Nat /\ Cardinality(T) \in Nat
      /\ Cardinality(S) <= Cardinality(T) /\ Cardinality(T) <= Cardinality(Buses)
  BY <1>1, FS_Subset, FS_CardinalityType
<1>3. ASSUME NEW b \in T \ S PROVE Cardinality(S) + 1 <= Cardinality(T)
  <2>1. /\ IsFiniteSet(S \cup {b}) /\ Cardinality(S \cup {b}) = Cardinality(S) + 1
    BY <1>1, <1>3, FS_AddElement
  <2>2. Cardinality(S \cup {b}) <= Cardinality(T)
    BY <1>1, <1>3, FS_Subset
  <2> QED BY <2>1, <2>2
<1> QED BY <1>2, <1>3

(* A product grows with its first factor.                                  *)
LEMMA Products ==
  ASSUME NEW m \in Nat, NEW n \in Nat, NEW k \in Nat
  PROVE  /\ m * k \in Nat /\ n * k \in Nat
         /\ m <= n => m * k <= n * k
         /\ m + 1 <= n => m * k + k <= n * k
  OBVIOUS

(* No task goes back.                                                      *)
LEMMA PastGrows ==
  ASSUME TypeOK, [Next]_vars, NEW side \in Sides
  PROVE  /\ PastLoad(side) \subseteq PastLoad(side)'
         /\ PastClaim(side) \subseteq PastClaim(side)'
<1>t. pc \in [Buses -> Stages]
  BY DEF TypeOK, ArrayOK
<1> USE DEF PastLoad, PastClaim, BeforeClaim, BeforeLoad, Looking
<1>1. CASE UNCHANGED pc
  BY <1>1
<1>2. ASSUME NEW b \in Buses, NEW stage, pc' = [pc EXCEPT ![b] = stage],
             \/ pc[b] \in Looking
             \/ pc[b] \in {"rx_program", "rx_load"} /\ stage \notin Looking
             \/ pc[b] \in {"tx_program", "tx_load"} /\ stage \in {"tx_load", "rx_claim"}
             \/ pc[b] = "rx_claim" /\ stage = "tx_claim"
             \/ pc[b] \in {"tx_claim", "irq", "delay"} /\ stage \in {"irq", "delay", "running"}
      PROVE  /\ PastLoad(side) \subseteq PastLoad(side)'
             /\ PastClaim(side) \subseteq PastClaim(side)'
  <2>1. \A c \in Buses : pc'[c] = IF c = b THEN stage ELSE pc[c]
    BY <1>t, <1>2
  <2> QED BY <1>2, <2>1
<1>3. ASSUME NEW b \in Buses, StartTask(b) \/ Step(b)
      PROVE  /\ PastLoad(side) \subseteq PastLoad(side)'
             /\ PastClaim(side) \subseteq PastClaim(side)'
  <2>1. CASE StartTask(b) \/ NextSlot(b) \/ FindSlot(b) \/ TakeSlot(b)
    BY <1>1, <1>2, <2>1 DEF StartTask, NextSlot, FindSlot, TakeSlot, At, Goto
  <2>2. CASE CheckRxProgram(b) \/ LoadRxProgram(b)
    BY <1>1, <1>2, <2>2 DEF CheckRxProgram, LoadRxProgram, AddProgram, Panic, At, Goto
  <2>3. CASE CheckTxProgram(b) \/ LoadTxProgram(b)
    BY <1>1, <1>2, <2>3 DEF CheckTxProgram, LoadTxProgram, AddProgram, Panic, At, Goto
  <2>4. CASE ClaimRx(b) \/ ClaimTx(b)
    BY <1>1, <1>2, <2>4 DEF ClaimRx, ClaimTx, Claim, Panic, At, Goto
  <2>5. CASE EnableIrqs(b) \/ Run(b)
    BY <1>1, <1>2, <2>5 DEF EnableIrqs, Run, At, Goto
  <2> QED BY <1>3, <2>1, <2>2, <2>3, <2>4, <2>5 DEF Step
<1> QED BY <1>1, <1>3 DEF Next, vars, Tick

(* Counts stay what they are when tasks go on.                             *)
LEMMA MemoryKept ==
  ASSUME TypeOK, [Next]_vars, NoPanic, memory' = memory, NEW side \in Sides
  PROVE  memory'[side] <= MemoryBefore(side) + Cardinality(PastLoad(side)') * ProgramSize[side]
<1> DEFINE m == Cardinality(PastLoad(side))
           n == Cardinality(PastLoad(side)')
           size == ProgramSize[side]
<1>1. size \in Nat /\ MemoryBefore(side) \in Nat /\ memory[side] \in Nat
  BY UartInitAssumption DEF MemoryBefore, TypeOK, PiosOK
<1>2. m \in Nat /\ n \in Nat /\ m <= n
  BY CountBuses, PastGrows DEF PastLoad
<1>3. m * size \in Nat /\ n * size \in Nat /\ m * size <= n * size
  BY <1>1, <1>2, Products
<1>4. memory[side] <= MemoryBefore(side) + m * size
  BY DEF NoPanic, MemoryCounted
<1> HIDE DEF m, n, size
<1>5. memory'[side] <= MemoryBefore(side) + n * size
  BY <1>1, <1>3, <1>4
<1> QED BY <1>5 DEF n, size

(* A step that claims nothing keeps the count of claims.                   *)
LEMMA ClaimsKept ==
  ASSUME TypeOK, [Next]_vars, NoPanic, claimed' = claimed, NEW side \in Sides
  PROVE  Cardinality(Taken(side)') <= Before(side) + Cardinality(PastClaim(side)')
<1>1. /\ Cardinality(PastClaim(side)) \in Nat /\ Cardinality(PastClaim(side)') \in Nat
      /\ Cardinality(PastClaim(side)) <= Cardinality(PastClaim(side)')
  BY CountBuses, PastGrows DEF PastClaim
<1>2. Taken(side)' = Taken(side)
  BY DEF Taken, Unclaimed
<1>3. Cardinality(Taken(side)) \in Nat /\ Before(side) \in Nat
  <2>1. IsFiniteSet(Taken(side))
    BY UartInitAssumption, FS_Subset DEF Taken
  <2> QED BY <2>1, FS_CardinalityType DEF Before
<1>4. Cardinality(Taken(side)) <= Before(side) + Cardinality(PastClaim(side))
  BY DEF NoPanic, ClaimsCounted
<1> QED BY <1>1, <1>2, <1>3, <1>4

(* A step that neither loads nor claims keeps both counts.                 *)
LEMMA CountsKept ==
  ASSUME TypeOK, [Next]_vars, NoPanic, UNCHANGED <<memory, claimed, panicked>>
  PROVE  NoPanic'
BY MemoryKept, ClaimsKept DEF NoPanic, NeverPanics, MemoryCounted, ClaimsCounted, MemoryBefore,
   Before

(* There is memory for a task that has loaded no copy yet ...              *)
LEMMA LoadFits ==
  ASSUME EnoughForAll, TypeOK, NoPanic,
         NEW side \in Sides, NEW b \in Buses \ PastLoad(side)
  PROVE  ~ (memory[side] + ProgramSize[side] > ProgramMemory)
<1> DEFINE m == Cardinality(PastLoad(side))
           size == ProgramSize[side]
<1>1. /\ size \in Nat /\ MemoryBefore(side) \in Nat /\ memory[side] \in Nat
      /\ ProgramMemory \in Nat
  BY UartInitAssumption DEF MemoryBefore, TypeOK, PiosOK
<1>2. m \in Nat /\ Cardinality(Buses) \in Nat /\ m + 1 <= Cardinality(Buses)
  BY CountBuses DEF PastLoad
<1>3. /\ m * size \in Nat /\ Cardinality(Buses) * size \in Nat
      /\ m * size + size <= Cardinality(Buses) * size
  BY <1>1, <1>2, Products
<1>4. memory[side] <= MemoryBefore(side) + m * size
  BY DEF NoPanic, MemoryCounted
<1>5. MemoryBefore(side) + Cardinality(Buses) * size <= ProgramMemory
  <2>1. CASE side = "rx"
    BY <2>1 DEF EnoughForAll, MemoryBefore
  <2>2. CASE side = "tx"
    BY <1>3, <2>2 DEF EnoughForAll, MemoryBefore
  <2> QED BY <2>1, <2>2 DEF Sides
<1> HIDE DEF m, size
<1> QED BY <1>1, <1>2, <1>3, <1>4, <1>5 DEF size

(* ... and a state machine for one that has claimed none.                  *)
LEMMA ClaimFits ==
  ASSUME EnoughForAll, TypeOK, NoPanic,
         NEW side \in Sides, NEW b \in Buses \ PastClaim(side)
  PROVE  Unclaimed(side) # {}
<1>1. /\ Cardinality(PastClaim(side)) \in Nat /\ Cardinality(Buses) \in Nat
      /\ Cardinality(PastClaim(side)) + 1 <= Cardinality(Buses)
  BY CountBuses DEF PastClaim
<1>2. Cardinality(Taken(side)) <= Before(side) + Cardinality(PastClaim(side))
  BY DEF NoPanic, ClaimsCounted
<1>3. Cardinality(Buses) + 1 <= Cardinality(StateMachines)
      /\ Cardinality(StateMachines) \in Nat
  BY UartInitAssumption, FS_CardinalityType DEF EnoughForAll
<1>4. Before(side) \in 0 .. 1
  BY DEF Before
<1>5. Taken(side) = StateMachines => Unclaimed(side) # {}
  <2>1. ~ (Cardinality(StateMachines) <= Before(side) + Cardinality(PastClaim(side)))
    BY <1>1, <1>3, <1>4
  <2> QED BY <1>2, <2>1
<1> QED BY <1>5 DEF Taken

(* Its load and its claim are counted with it.                             *)
LEMMA LoadCounted ==
  ASSUME TypeOK, [Next]_vars, NoPanic, NEW side \in Sides,
         NEW b \in PastLoad(side)' \ PastLoad(side),
         memory' = [memory EXCEPT ![side] = @ + ProgramSize[side]],
         UNCHANGED <<claimed, panicked>>
  PROVE  NoPanic'
<1>1. ASSUME NEW s \in Sides
      PROVE  memory'[s] <= MemoryBefore(s) + Cardinality(PastLoad(s)') * ProgramSize[s]
  <2> DEFINE m == Cardinality(PastLoad(s))
             n == Cardinality(PastLoad(s)')
             size == ProgramSize[s]
  <2>1. /\ size \in Nat /\ MemoryBefore(s) \in Nat /\ memory[s] \in Nat
        /\ memory'[s] = IF s = side THEN memory[s] + size ELSE memory[s]
    <3>1. memory \in [Sides -> 0 .. ProgramMemory] /\ ProgramMemory \in Nat
      BY UartInitAssumption DEF TypeOK, PiosOK
    <3>2. size \in Nat /\ MemoryBefore(s) \in Nat /\ memory[s] \in Nat
      BY <3>1, UartInitAssumption DEF MemoryBefore
    <3>3. memory'[s] = IF s = side THEN memory[s] + ProgramSize[side] ELSE memory[s]
      BY <3>1
    <3> QED BY <3>2, <3>3
  <2>2. m \in Nat /\ n \in Nat /\ m <= n /\ (s = side => m + 1 <= n)
    BY CountBuses, PastGrows DEF PastLoad
  <2>3. /\ m * size \in Nat /\ n * size \in Nat /\ m * size <= n * size
        /\ s = side => m * size + size <= n * size
    BY <2>1, <2>2, Products
  <2>4. memory[s] <= MemoryBefore(s) + m * size
    BY DEF NoPanic, MemoryCounted
  <2> HIDE DEF m, n, size
  <2>5. memory'[s] <= MemoryBefore(s) + n * size
    BY <2>1, <2>3, <2>4
  <2> QED BY <2>5 DEF n, size
<1>2. ASSUME NEW s \in Sides
      PROVE  Cardinality(Taken(s)') <= Before(s) + Cardinality(PastClaim(s)')
  BY <1>2, ClaimsKept
<1> QED BY <1>1, <1>2 DEF NoPanic, NeverPanics, MemoryCounted, ClaimsCounted, MemoryBefore,
           Before

(* A claim takes one state machine and brings one task past it.            *)
LEMMA ClaimCounted ==
  ASSUME TypeOK, [Next]_vars, NoPanic, NEW side \in Sides,
         NEW b \in PastClaim(side)' \ PastClaim(side), NEW sm \in Unclaimed(side),
         claimed' = [claimed EXCEPT ![side][sm] = b], b \in Buses,
         UNCHANGED <<memory, panicked>>
  PROVE  NoPanic'
<1>1. ASSUME NEW s \in Sides
      PROVE  Cardinality(Taken(s)') <= Before(s) + Cardinality(PastClaim(s)')
  <2>1. Taken(s)' = IF s = side THEN Taken(s) \cup {sm} ELSE Taken(s)
    <3>1. /\ claimed \in [Sides -> [StateMachines -> Buses \cup {None, "dmx"}]]
          /\ b # None /\ sm \in StateMachines
      BY UartInitAssumption DEF TypeOK, PiosOK, Unclaimed
    <3>2. \A m \in StateMachines : claimed'[s][m] = IF s = side /\ m = sm THEN b ELSE claimed[s][m]
      BY <3>1
    <3> QED BY <3>1, <3>2 DEF Taken, Unclaimed
  <2>2. /\ IsFiniteSet(Taken(s)) /\ Cardinality(Taken(s)) \in Nat /\ Before(s) \in Nat
    <3>1. IsFiniteSet(Taken(s))
      BY UartInitAssumption, FS_Subset DEF Taken
    <3> QED BY <3>1, FS_CardinalityType DEF Before
  <2>3. sm \notin Taken(s) \/ s # side
    BY DEF Taken
  <2>4. Cardinality(Taken(s)') = IF s = side THEN Cardinality(Taken(s)) + 1
                                 ELSE Cardinality(Taken(s))
    BY <2>1, <2>2, <2>3, FS_AddElement
  <2>5. /\ Cardinality(PastClaim(s)) \in Nat /\ Cardinality(PastClaim(s)') \in Nat
        /\ Cardinality(PastClaim(s)) <= Cardinality(PastClaim(s)')
        /\ s = side => Cardinality(PastClaim(s)) + 1 <= Cardinality(PastClaim(s)')
    BY CountBuses, PastGrows DEF PastClaim
  <2>6. Cardinality(Taken(s)) <= Before(s) + Cardinality(PastClaim(s))
    BY DEF NoPanic, ClaimsCounted
  <2> QED BY <2>2, <2>4, <2>5, <2>6
<1>2. ASSUME NEW s \in Sides
      PROVE  memory'[s] <= MemoryBefore(s) + Cardinality(PastLoad(s)') * ProgramSize[s]
  BY <1>2, MemoryKept
<1> QED BY <1>1, <1>2 DEF NoPanic, NeverPanics, MemoryCounted, ClaimsCounted, MemoryBefore,
           Before

(* No step panics, and every one keeps the counts.                         *)
LEMMA NoPanicNext ==
  ASSUME EnoughForAll, TypeOK, NoPanic, [Next]_vars
  PROVE  NoPanic'
<1>t. pc \in [Buses -> Stages] /\ "rx" \in Sides /\ "tx" \in Sides
  BY DEF TypeOK, ArrayOK, Sides
<1>1. CASE UNCHANGED <<memory, claimed, panicked>>
  BY <1>1, CountsKept
<1>2. ASSUME NEW b \in Buses, NEW side \in Sides, NEW next,
             b \notin PastLoad(side), AddProgram(b, side, next),
             pc' = [pc EXCEPT ![b] = next] => b \in PastLoad(side)'
      PROVE  NoPanic'
  <2>1. ~ (memory[side] + ProgramSize[side] > ProgramMemory)
    BY <1>2, LoadFits
  <2>2. /\ memory' = [memory EXCEPT ![side] = @ + ProgramSize[side]]
        /\ UNCHANGED <<claimed, panicked>> /\ pc' = [pc EXCEPT ![b] = next]
    BY <1>2, <2>1 DEF AddProgram, Goto
  <2> QED BY <1>2, <2>2, LoadCounted
<1>3. ASSUME NEW b \in Buses, NEW side \in Sides, NEW next,
             b \notin PastClaim(side), Claim(b, side, next),
             pc' = [pc EXCEPT ![b] = next] => b \in PastClaim(side)'
      PROVE  NoPanic'
  <2>1. Unclaimed(side) # {}
    BY <1>3, ClaimFits
  <2>2. /\ \E sm \in Unclaimed(side) : claimed' = [claimed EXCEPT ![side][sm] = b]
        /\ UNCHANGED <<program_loaded, memory, panicked>> /\ pc' = [pc EXCEPT ![b] = next]
    BY <1>3, <2>1 DEF Claim, Goto
  <2> QED BY <1>3, <2>2, ClaimCounted
<1> USE DEF PastLoad, PastClaim, BeforeClaim, BeforeLoad, Looking
<1>4. ASSUME NEW b \in Buses, LoadRxProgram(b) PROVE NoPanic'
  BY <1>t, <1>2, <1>4 DEF LoadRxProgram, At
<1>5. ASSUME NEW b \in Buses, LoadTxProgram(b) PROVE NoPanic'
  BY <1>t, <1>2, <1>5 DEF LoadTxProgram, At
<1>6. ASSUME NEW b \in Buses, ClaimRx(b) PROVE NoPanic'
  BY <1>t, <1>3, <1>6 DEF ClaimRx, At
<1>7. ASSUME NEW b \in Buses, ClaimTx(b) PROVE NoPanic'
  BY <1>t, <1>3, <1>7 DEF ClaimTx, At
<1>8. ASSUME NEW b \in Buses,
             StartTask(b) \/ NextSlot(b) \/ FindSlot(b) \/ TakeSlot(b) \/ CheckRxProgram(b)
             \/ CheckTxProgram(b) \/ EnableIrqs(b) \/ Run(b)
      PROVE  UNCHANGED <<memory, claimed, panicked>>
  BY <1>8 DEF StartTask, NextSlot, FindSlot, TakeSlot, CheckRxProgram, CheckTxProgram,
     EnableIrqs, Run, piosVars
<1>9. Tick \/ UNCHANGED vars => UNCHANGED <<memory, claimed, panicked>>
  BY DEF Tick, vars, piosVars
<1> QED BY <1>1, <1>4, <1>5, <1>6, <1>7, <1>8, <1>9 DEF Next, Step

(* At first nothing is loaded, and only DMX has claimed a state machine.   *)
LEMMA NoPanicInit ==
  ASSUME Init
  PROVE  NoPanic
<1>1. ASSUME NEW side \in Sides
      PROVE  Cardinality(Taken(side)) <= Before(side) + Cardinality(PastClaim(side))
  <2>1. Taken(side) \subseteq IF side = "rx" THEN {ByDmx} ELSE {}
    BY DEF Init, Taken, Unclaimed
  <2>2. IsFiniteSet(StateMachines) /\ Taken(side) \subseteq StateMachines
    BY UartInitAssumption DEF Taken
  <2>3. Cardinality(Taken(side)) \in Nat /\ Cardinality(Taken(side)) <= Before(side)
    <3>1. CASE side = "rx"
      <4>1. IsFiniteSet({ByDmx}) /\ Cardinality({ByDmx}) = 1
        BY FS_Singleton
      <4>2. Taken(side) \in SUBSET {ByDmx}
        BY <2>1, <3>1
      <4>3. IsFiniteSet(Taken(side)) /\ Cardinality(Taken(side)) <= 1
        BY <4>1, <4>2, FS_Subset
      <4> QED BY <3>1, <4>3, FS_CardinalityType DEF Before
    <3>2. CASE side = "tx"
      BY <2>1, <3>2, FS_EmptySet DEF Before
    <3> QED BY <3>1, <3>2 DEF Sides
  <2>4. Cardinality(PastClaim(side)) \in Nat
    BY CountBuses DEF PastClaim
  <2> QED BY <2>3, <2>4 DEF Before
<1>2. ASSUME NEW side \in Sides
      PROVE  memory[side] <= MemoryBefore(side) + Cardinality(PastLoad(side)) * ProgramSize[side]
  <2>1. memory[side] = MemoryBefore(side) /\ MemoryBefore(side) \in Nat
    BY UartInitAssumption DEF Init, MemoryBefore
  <2>2. Cardinality(PastLoad(side)) \in Nat /\ ProgramSize[side] \in Nat
    BY UartInitAssumption, CountBuses DEF PastLoad
  <2>3. Cardinality(PastLoad(side)) * ProgramSize[side] \in Nat
    BY <2>2, Products
  <2> QED BY <2>1, <2>3
<1> QED BY <1>1, <1>2 DEF Init, NoPanic, NeverPanics, MemoryCounted, ClaimsCounted

(* With memory and state machines for each bus, no claim and no load       *)
(* fails, wherever the tasks preempt each other (uart.c:119-148).          *)
THEOREM NeverPanicsCorrect ==
  ASSUME EnoughForAll
  PROVE  Spec => []NeverPanics
<1>1. Inv /\ NoPanic /\ [Next]_vars => NoPanic'
  BY NoPanicNext DEF Inv
<1>2. NoPanic => NeverPanics
  BY DEF NoPanic
<1> QED BY <1>1, <1>2, InvCorrect, NoPanicInit, PTL DEF Spec
=============================================================================
