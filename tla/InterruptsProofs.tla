-------------------------- MODULE InterruptsProofs --------------------------
(***************************************************************************)
(* Proofs about the interrupt runtime for every tick word, print rate and  *)
(* power-on content of the controller.                                     *)
(*                                                                         *)
(* The inductive invariant IInv says, for each place of the kernel's code, *)
(* which part of the set-up is done, whether interrupts are on, and which  *)
(* line is in service.                                                     *)
(***************************************************************************)
EXTENDS Interrupts, FiniteSetTheorems, TLAPS

Setup == {"idt_install", "pic_remap", "pic_set_masks", "pit_init", "sti"}
Running == {"int3", "idle_sti", "idle_hlt", "halted"}

(* What idt_install, pic_remap and pic_set_masks have done by the time the *)
(* kernel is behind each of them.                                          *)
SetupDone ==
    /\ pc # "idt_install" => gates = GateVectors
    /\ base = IF pc \in {"idt_install", "pic_remap"} THEN BIOS_VECTOR ELSE IRQ_BASE_VECTOR
    /\ pc \notin {"idt_install", "pic_remap", "pic_set_masks"}
        => imr = Lines \ {TIMER, KEYBOARD}

(* Interrupts are off during the set-up, in handlers and on the exception  *)
(* path.  The only instruction in the shadow of a sti is the one behind    *)
(* the sti of stage0_main.                                                 *)
FlagByPlace ==
    /\ iflag <=> pc \in Running \cup {"after_sti"}
    /\ shadow <=> pc = "after_sti"

(* The line in service is the one whose handler runs.                      *)
ServiceByPlace ==
    /\ pc = "timer_count" => isr = {TIMER}
    /\ pc = "keyboard_read" => isr = {KEYBOARD}
    /\ pc = "eoi" => isr = {TIMER} \/ isr = {KEYBOARD}
    /\ pc \notin Handlers => isr = {}

(* A handler returns to code that runs with interrupts on.                 *)
ReturnByPlace ==
    pc \in Handlers \cup {"iret"} => resume \in {"int3", "idle_sti", "idle_hlt"}

IInv == TypeOK /\ SetupDone /\ FlagByPlace /\ ServiceByPlace /\ ReturnByPlace

(* No key is pressed before pic_remap.  From then on a scancode the        *)
(* handler has not read yet keeps its request in the controller.           *)
KeyInv ==
    /\ ~ Remapped => KEYBOARD \notin irr /\ ~ scancode
    /\ scancode /\ pc # "keyboard_read" => KEYBOARD \in irr

-----------------------------------------------------------------------------
(* At power-on the set-up has not begun.                                   *)
LEMMA InitIInv == Init => IInv
<1> SUFFICES ASSUME Init PROVE IInv
  OBVIOUS
<1>1. TypeOK
  <2>1. scancode \in BOOLEAN
    <3>1. scancode = (KEYBOARD \in irr)
      BY DEF Init
    <3>2. CASE KEYBOARD \in irr
      BY <3>1, <3>2
    <3>3. CASE KEYBOARD \notin irr
      BY <3>1, <3>3
    <3> QED BY <3>2, <3>3
  <2>2. ticks \in 0 .. TICK_WORD - 1
    BY InterruptsAssumption DEF Init
  <2>3. gates \subseteq 0 .. 255 /\ imr \subseteq Lines /\ irr \subseteq Lines /\ isr \subseteq Lines
    BY DEF Init
  <2> QED BY <2>1, <2>2, <2>3 DEF Init, TypeOK
<1>2. SetupDone /\ FlagByPlace
  BY DEF Init, SetupDone, FlagByPlace, Running
<1>3. ServiceByPlace /\ ReturnByPlace
  BY DEF Init, ServiceByPlace, ReturnByPlace, Handlers
<1> QED BY <1>1, <1>2, <1>3 DEF IInv

(* An interrupt is only taken in running code, and only on a line that the *)
(* kernel has a handler for.                                               *)
LEMMA TakeFacts ==
    ASSUME IInv, TakeInterrupt
    PROVE  /\ pc \in Running
           /\ isr = {}
           /\ resume' \in {"int3", "idle_sti", "idle_hlt"}
           /\ ~ iflag' /\ ~ shadow'
           /\ \E l \in {TIMER, KEYBOARD} :
                /\ l \in irr /\ irr' = irr \ {l} /\ isr' = {l}
                /\ pc' = IF l = TIMER THEN "timer_count" ELSE "keyboard_read"
<1>1. pc \in Running /\ isr = {}
  BY DEF IInv, FlagByPlace, ServiceByPlace, TakeInterrupt, Interruptible, Running, Handlers
<1>2. PICK l \in Deliverable : /\ irr' = irr \ {l} /\ isr' = isr \cup {l}
                               /\ pc' = HandlerOf(l)
  BY DEF TakeInterrupt
<1>3. l \in irr /\ l \in {TIMER, KEYBOARD}
  BY <1>1, <1>2
  DEF Deliverable, IInv, TypeOK, SetupDone, Running, Lines, TIMER, KEYBOARD, UNUSED_LINE
<1>4. HandlerOf(l) = IF l = TIMER THEN "timer_count" ELSE "keyboard_read"
  BY <1>1, <1>3
  DEF HandlerOf, IInv, SetupDone, Running, GateVectors, TIMER, KEYBOARD, IRQ_BASE_VECTOR
<1>5. resume' \in {"int3", "idle_sti", "idle_hlt"} /\ ~ iflag' /\ ~ shadow'
  BY <1>1 DEF TakeInterrupt, Running
<1> QED BY <1>1, <1>2, <1>3, <1>4, <1>5

(* Every step of the kernel, the processor and the devices preserves IInv. *)
LEMMA NextIInv ==
    ASSUME IInv, [Next]_vars
    PROVE  IInv'
<1> USE DEF IInv, TypeOK, SetupDone, FlagByPlace, ServiceByPlace, ReturnByPlace,
            Handlers, Running, pic, devices
<1>1. CASE idt_install
  <2>1. GateVectors \subseteq 0 .. 255
    BY DEF GateVectors, TIMER, KEYBOARD, IRQ_BASE_VECTOR
  <2> QED BY <1>1, <2>1 DEF idt_install, Goto
<1>2. CASE pic_remap
  BY <1>2 DEF pic_remap, Goto
<1>3. CASE pic_set_masks
  BY <1>3 DEF pic_set_masks, Goto
<1>4. CASE pit_init
  BY <1>4 DEF pit_init, Goto
<1>5. CASE EnableInterrupts
  BY <1>5 DEF EnableInterrupts, sti
<1>6. CASE AfterSti
  BY <1>6 DEF AfterSti, Goto
<1>7. CASE IdleSti
  BY <1>7 DEF IdleSti, sti
<1>8. CASE IdleHlt
  BY <1>8 DEF IdleHlt, Goto
<1>9. CASE TimerCount
  <2>1. (ticks + 1) % TICK_WORD \in 0 .. TICK_WORD - 1
    BY InterruptsAssumption
  <2> QED BY <1>9, <2>1 DEF TimerCount, Goto
<1>10. CASE KeyboardRead
  BY <1>10 DEF KeyboardRead, Goto
<1>11. CASE pic_send_eoi
  <2>1. isr' = {}
    BY <1>11 DEF pic_send_eoi, TIMER, KEYBOARD
  <2> QED BY <1>11, <2>1 DEF pic_send_eoi, Goto
<1>12. CASE iret
  BY <1>12 DEF iret
<1>13. CASE BreakpointTest
  BY <1>13 DEF BreakpointTest, Goto
<1>14. CASE cli_hlt
  BY <1>14 DEF cli_hlt, Goto
<1>15. CASE TakeInterrupt
  <2>1. isr' \subseteq Lines /\ irr' \subseteq Lines
    BY <1>15, TakeFacts DEF Lines
  <2>2. UNCHANGED <<gates, base, imr, pit_on, scancode, ticks, build>>
    BY <1>15 DEF TakeInterrupt
  <2>3. PICK l \in {TIMER, KEYBOARD} :
            isr' = {l} /\ pc' = IF l = TIMER THEN "timer_count" ELSE "keyboard_read"
    BY <1>15, TakeFacts
  <2>4. ServiceByPlace'
    BY <2>3 DEF TIMER, KEYBOARD
  <2>5. FlagByPlace' /\ ReturnByPlace' /\ SetupDone'
    BY <1>15, <2>2, <2>3, TakeFacts
  <2>6. pc' \in Handlers
    BY <2>3
  <2>7. iflag' \in BOOLEAN /\ shadow' \in BOOLEAN
    BY <1>15 DEF TakeInterrupt
  <2>8. TypeOK'
    BY <1>15, <2>1, <2>2, <2>6, <2>7, TakeFacts
  <2> QED BY <2>4, <2>5, <2>8
<1>16. CASE TimerEdge
  BY <1>16 DEF TimerEdge, Lines
<1>17. CASE KeyPress
  BY <1>17 DEF KeyPress, Lines
<1>18. CASE OtherEdge
  BY <1>18 DEF OtherEdge, Lines
<1>19. CASE UNCHANGED vars
  BY <1>19 DEF vars
<1> QED
  BY <1>1, <1>2, <1>3, <1>4, <1>5, <1>6, <1>7, <1>8, <1>9, <1>10, <1>11, <1>12, <1>13,
     <1>14, <1>15, <1>16, <1>17, <1>18, <1>19 DEF Next, Kernel, Devices

(* The places of the kernel, its interrupt flag and the controller agree   *)
(* in every reachable state.                                               *)
THEOREM PlacesAgree == Spec => []IInv
BY InitIInv, NextIInv, PTL DEF Spec

(* No interrupt reaches a vector without a gate, and the registers of the  *)
(* controller and the tick counter stay in range, for every power-on       *)
(* content of the controller and every timing of the devices.              *)
THEOREM RuntimeStaysIntact == Spec => []RuntimeIntact
<1>1. IInv => RuntimeIntact
  BY DEF IInv, TypeOK, RuntimeIntact, NoUnhandledVector, Handlers
<1> QED BY <1>1, PlacesAgree, PTL

(* Handlers do not nest: exactly one line is in service while one of the   *)
(* handlers of the timer and the keyboard runs before its end of           *)
(* interrupt, and none at any other time.                                  *)
THEOREM HandlersDoNotNest == Spec => []InServiceOnlyInHandler
<1>1. IInv => InServiceOnlyInHandler
  <2> SUFFICES ASSUME IInv PROVE InServiceOnlyInHandler
    OBVIOUS
  <2>1. isr = {} \/ isr = {TIMER} \/ isr = {KEYBOARD}
    BY DEF IInv, ServiceByPlace, Handlers
  <2>2. Cardinality(isr) <= 1
    <3>1. Cardinality({}) = 0 /\ Cardinality({TIMER}) = 1 /\ Cardinality({KEYBOARD}) = 1
      BY FS_EmptySet, FS_Singleton
    <3> QED BY <2>1, <3>1
  <2>3. isr # {} <=> pc \in Handlers
    <3>1. {TIMER} # {} /\ {KEYBOARD} # {}
      OBVIOUS
    <3> QED BY <3>1 DEF IInv, ServiceByPlace, Handlers
  <2>4. pc \in Handlers \cup {"iret"} => ~ iflag
    BY DEF IInv, FlagByPlace, Handlers, Running
  <2> QED BY <2>2, <2>3, <2>4 DEF InServiceOnlyInHandler
<1> QED BY <1>1, PlacesAgree, PTL

(* The exception path is final: from stage2_exception_dispatch on no       *)
(* interrupt is taken, so the processor never leaves its halt loop.        *)
THEOREM ExceptionPathHalts == Spec => ExceptionHaltIsFinal
<1>1. ASSUME IInv, [Next]_vars, pc = "stage2_exception_dispatch"
      PROVE  UNCHANGED <<pc, iflag, ticks, isr>>
  <2>1. iflag = FALSE
    BY <1>1 DEF IInv, TypeOK, FlagByPlace, Running
  <2>2. CASE cli_hlt
    BY <1>1, <2>1, <2>2 DEF cli_hlt, Goto, pic, devices
  <2>3. CASE Devices
    BY <2>3 DEF Devices, TimerEdge, KeyPress, OtherEdge
  <2>4. CASE UNCHANGED vars
    BY <2>4 DEF vars, pic
  <2>5. ~ TakeInterrupt
    BY <2>1 DEF TakeInterrupt, Interruptible
  <2>6. Kernel => cli_hlt
    BY <1>1 DEF Kernel, idt_install, pic_remap, pic_set_masks, pit_init, EnableInterrupts,
       AfterSti, IdleSti, IdleHlt, TimerCount, KeyboardRead, pic_send_eoi, iret, BreakpointTest
  <2> QED BY <1>1, <2>2, <2>3, <2>4, <2>5, <2>6 DEF Next
<1> QED BY <1>1, PlacesAgree, PTL DEF Spec, ExceptionHaltIsFinal

-----------------------------------------------------------------------------
(* Without early keys the keyboard line starts idle.                       *)
LEMMA InitKeyInv == ~ EARLY_KEYS /\ Init => KeyInv
BY DEF Init, KeyInv, Remapped

(* Every step keeps the request of an unread scancode.                     *)
LEMMA NextKeyInv ==
    ASSUME ~ EARLY_KEYS, IInv, KeyInv, [Next]_vars
    PROVE  KeyInv'
<1> USE DEF KeyInv, Remapped, pic, devices
<1>1. CASE pic_remap
  BY <1>1 DEF pic_remap, Goto, IInv, SetupDone, BIOS_VECTOR, IRQ_BASE_VECTOR
<1>2. CASE idt_install \/ pic_set_masks \/ pit_init \/ EnableInterrupts \/ AfterSti \/ IdleSti
           \/ IdleHlt \/ TimerCount \/ pic_send_eoi \/ BreakpointTest \/ cli_hlt
  <2>1. UNCHANGED <<base, irr, scancode>> /\ pc # "keyboard_read"
    BY <1>2 DEF idt_install, pic_set_masks, pit_init, EnableInterrupts, AfterSti, IdleSti,
       IdleHlt, TimerCount, pic_send_eoi, BreakpointTest, cli_hlt, Goto, sti
  <2> QED BY <2>1
<1>3. CASE KeyboardRead
  BY <1>3 DEF KeyboardRead, Goto
<1>4. CASE iret
  BY <1>4 DEF iret
<1>5. CASE TakeInterrupt
  <2>1. UNCHANGED <<base, scancode>> /\ Remapped
    BY <1>5, TakeFacts DEF TakeInterrupt, IInv, SetupDone, Running
  <2>2. pc # "keyboard_read"
    BY <1>5, TakeFacts DEF Running
  <2> QED BY <1>5, <2>1, <2>2, TakeFacts DEF TIMER, KEYBOARD
<1>6. CASE TimerEdge \/ OtherEdge
  BY <1>6 DEF TimerEdge, OtherEdge, TIMER, KEYBOARD, UNUSED_LINE
<1>7. CASE KeyPress
  BY <1>7 DEF KeyPress
<1>8. CASE UNCHANGED vars
  BY <1>8 DEF vars
<1> QED BY <1>1, <1>2, <1>3, <1>4, <1>5, <1>6, <1>7, <1>8 DEF Next, Kernel, Devices

(* When no key is pressed before pic_remap, an unread scancode always has  *)
(* its interrupt requested or in service, so the keyboard never falls      *)
(* silent.  With a key before pic_remap the claim is false: the remap      *)
(* clears the request and leaves the byte.                                 *)
THEOREM KeyboardKeepsItsInterrupt ==
    ASSUME ~ EARLY_KEYS
    PROVE  Spec => []UnreadByteHasInterrupt
<1>1. Init => IInv /\ KeyInv
  BY InitIInv, InitKeyInv
<1>2. IInv /\ KeyInv /\ [Next]_vars => IInv' /\ KeyInv'
  BY NextIInv, NextKeyInv
<1>3. IInv /\ KeyInv => UnreadByteHasInterrupt
  BY DEF IInv, KeyInv, ServiceByPlace, UnreadByteHasInterrupt
<1> QED BY <1>1, <1>2, <1>3, PTL DEF Spec
=============================================================================
