----------------------------- MODULE Interrupts -----------------------------
(***************************************************************************)
(* The end of stage0_main and the running system: the IDT, the remapped    *)
(* interrupt controller, the PIT, the idle loop of stage0_entry.S and the  *)
(* handlers of the timer, the keyboard and the exceptions.                 *)
(*                                                                         *)
(* Next to the kernel run the processor, which takes the highest pending   *)
(* unmasked interrupt when its interrupt flag allows it, the controller    *)
(* (request, in-service and mask registers of the master 8259), and the    *)
(* devices, which raise their lines at any moment from power-on.           *)
(***************************************************************************)
EXTENDS Integers, FiniteSets

CONSTANTS
    TICK_WORD,        \* 2^32: g_timer_ticks counts modulo this
    PIT_TARGET_HZ,    \* a line of output every so many ticks
    EARLY_KEYS        \* keys may be pressed before pic_remap

ASSUME InterruptsAssumption ==
    /\ TICK_WORD \in Nat \ {0} /\ PIT_TARGET_HZ \in 1 .. TICK_WORD
    /\ EARLY_KEYS \in BOOLEAN

TIMER == 0
KEYBOARD == 1
UNUSED_LINE == 4             \* any line the kernel has no handler for
Lines == {TIMER, KEYBOARD, UNUSED_LINE}

BIOS_VECTOR == 8             \* where firmware leaves the controller
IRQ_BASE_VECTOR == 32

VARIABLES
    pc,          \* the next instruction group of the kernel
    resume,      \* where iret returns to
    iflag,       \* EFLAGS.IF
    shadow,      \* sti holds interrupts off for one more instruction
    gates,       \* the vectors of g_idt that have a handler, once lidt ran
    base,        \* controller: vector of line 0
    imr, irr, isr,  \* controller: masked, requested and in-service lines
    pit_on,      \* the PIT runs in the mode that pit_init programmed
    ticks,       \* g_timer_ticks
    scancode,    \* the keyboard controller holds an unread byte
    build        \* "normal" or "exception" (STAGE2_FORCE_EXCEPTION)

pic == <<base, imr, irr, isr>>
devices == <<pit_on, scancode>>
vars == <<pc, resume, iflag, shadow, gates, pic, devices, ticks, build>>

(* stage0_start runs cli; what firmware left in the controller is unknown. *)
Init ==
    /\ pc = "idt_install" /\ resume = "none" /\ iflag = FALSE /\ shadow = FALSE
    /\ gates = {}
    /\ base = BIOS_VECTOR
    /\ imr \in SUBSET Lines /\ irr \in SUBSET Lines /\ isr = {}
    /\ KEYBOARD \in irr => EARLY_KEYS
    /\ pit_on = FALSE /\ ticks = 0
    /\ scancode = (KEYBOARD \in irr)
    /\ build \in {"normal", "exception"}

(* An instruction other than sti ends the shadow of an earlier sti.        *)
Goto(l) == pc' = l /\ shadow' = FALSE /\ UNCHANGED resume

GateVectors == {0, 3, 6, 13, 14, IRQ_BASE_VECTOR + TIMER, IRQ_BASE_VECTOR + KEYBOARD}

idt_install ==
    /\ pc = "idt_install"
    /\ gates' = GateVectors
    /\ Goto("pic_remap")
    /\ UNCHANGED <<iflag, pic, devices, ticks, build>>

(* The first initialisation word clears the request and in-service lines;  *)
(* the masks are read before and written back after.                       *)
pic_remap ==
    /\ pc = "pic_remap"
    /\ base' = IRQ_BASE_VECTOR
    /\ irr' = {} /\ isr' = {}
    /\ Goto("pic_set_masks")
    /\ UNCHANGED <<iflag, gates, imr, devices, ticks, build>>

(* Faulty variant: every line is unmasked.                                 *)
UnmaskAll ==
    /\ pc = "pic_set_masks"
    /\ imr' = {}
    /\ Goto("pit_init")
    /\ UNCHANGED <<iflag, gates, base, irr, isr, devices, ticks, build>>

(* Masks 0xFC and 0xFF.                                                    *)
pic_set_masks ==
    /\ pc = "pic_set_masks"
    /\ imr' = Lines \ {TIMER, KEYBOARD}
    /\ Goto("pit_init")
    /\ UNCHANGED <<iflag, gates, base, irr, isr, devices, ticks, build>>

pit_init ==
    /\ pc = "pit_init"
    /\ pit_on' = TRUE
    /\ Goto("sti")
    /\ UNCHANGED <<iflag, gates, pic, scancode, ticks, build>>

(* sti at the end of stage0_main and at the head of the idle loop.  It has *)
(* a shadow only if interrupts were off.                                   *)
sti(next) ==
    /\ iflag' = TRUE /\ shadow' = ~ iflag
    /\ pc' = next
    /\ UNCHANGED <<resume, gates, pic, devices, ticks, build>>

EnableInterrupts == pc = "sti" /\ sti("after_sti")

(* stage0_main returns to the idle loop, or reports and executes int3.     *)
AfterSti ==
    /\ pc = "after_sti"
    /\ Goto(IF build = "exception" THEN "int3" ELSE "idle_sti")
    /\ UNCHANGED <<iflag, gates, pic, devices, ticks, build>>

(* The idle loop of stage0_entry.S: sti; hlt; jmp.  A halted processor     *)
(* leaves hlt only through an interrupt.                                   *)
IdleSti == pc = "idle_sti" /\ sti("idle_hlt")

IdleHlt ==
    /\ pc = "idle_hlt"
    /\ Goto("halted")
    /\ UNCHANGED <<iflag, gates, pic, devices, ticks, build>>

-----------------------------------------------------------------------------
(* The processor accepts an interrupt.  A vector without a gate ends in an *)
(* exception that the kernel did not mean to have.                         *)
Deliverable ==
    {l \in irr \ imr : \A k \in isr : l < k}

Interruptible == iflag /\ ~ shadow

HandlerOf(l) ==
    IF base + l \notin gates THEN "unhandled"
    ELSE IF l = TIMER THEN "timer_count" ELSE "keyboard_read"

TakeInterrupt ==
    /\ Interruptible
    /\ \E l \in Deliverable :
        /\ \A k \in Deliverable : l <= k
        /\ irr' = irr \ {l} /\ isr' = isr \cup {l}
        /\ pc' = HandlerOf(l)
    /\ resume' = IF pc = "halted" THEN "idle_sti" ELSE pc   \* behind the hlt
    /\ iflag' = FALSE /\ shadow' = FALSE
    /\ UNCHANGED <<gates, base, imr, devices, ticks, build>>

(* stage3_irq0_handler.                                                    *)
TimerCount ==
    /\ pc = "timer_count"
    /\ ticks' = (ticks + 1) % TICK_WORD
    /\ Goto("eoi")
    /\ UNCHANGED <<iflag, gates, pic, devices, build>>

PrintsTick == pc = "eoi" /\ isr = {TIMER} /\ ticks % PIT_TARGET_HZ = 0

(* Faulty variant: the handler does not read port 0x60.                    *)
KeyboardIgnored ==
    /\ pc = "keyboard_read"
    /\ Goto("eoi")
    /\ UNCHANGED <<iflag, gates, pic, devices, ticks, build>>

(* stage4_irq1_handler: reading the byte lets the controller send another. *)
KeyboardRead ==
    /\ pc = "keyboard_read"
    /\ scancode' = FALSE
    /\ Goto("eoi")
    /\ UNCHANGED <<iflag, gates, pic, pit_on, ticks, build>>

(* Faulty variant: no end of interrupt.                                    *)
NoEoi ==
    /\ pc = "eoi"
    /\ Goto("iret")
    /\ UNCHANGED <<iflag, gates, pic, devices, ticks, build>>

(* pic_send_eoi: a non-specific end of interrupt to the master clears the  *)
(* in-service line of highest priority.                                    *)
pic_send_eoi ==
    /\ pc = "eoi"
    /\ isr' = {l \in isr : \E k \in isr : k < l}
    /\ Goto("iret")
    /\ UNCHANGED <<iflag, gates, base, imr, irr, devices, ticks, build>>

(* popa; iret.  It restores the flags of the interrupted code.             *)
iret ==
    /\ pc = "iret"
    /\ pc' = resume /\ resume' = "none"
    /\ iflag' = TRUE
    /\ UNCHANGED <<shadow, gates, pic, devices, ticks, build>>

(* Faulty variant: a trap gate, which leaves interrupts on.                *)
BreakpointThroughTrapGate ==
    /\ pc = "int3"
    /\ Goto("stage2_exception_dispatch")
    /\ UNCHANGED <<iflag, gates, pic, devices, ticks, build>>

(* int3 of the test build: an interrupt gate, which clears IF.             *)
BreakpointTest ==
    /\ pc = "int3"
    /\ iflag' = FALSE
    /\ Goto("stage2_exception_dispatch")
    /\ UNCHANGED <<gates, pic, devices, ticks, build>>

(* The loop at the end of stage2_exception_dispatch.                       *)
cli_hlt ==
    /\ pc = "stage2_exception_dispatch"
    /\ iflag' = FALSE
    /\ Goto("stage2_exception_dispatch")
    /\ UNCHANGED <<gates, pic, devices, ticks, build>>

-----------------------------------------------------------------------------
(* The devices (external).  A line is edge triggered: a second edge before *)
(* the first was accepted is lost.                                         *)
TimerEdge ==
    /\ TIMER \notin irr
    /\ irr' = irr \cup {TIMER}
    /\ UNCHANGED <<pc, resume, iflag, shadow, gates, base, imr, isr, devices, ticks, build>>

Remapped == base = IRQ_BASE_VECTOR

KeyPress ==
    /\ ~ scancode
    /\ EARLY_KEYS \/ Remapped
    /\ scancode' = TRUE
    /\ irr' = irr \cup {KEYBOARD}
    /\ UNCHANGED <<pc, resume, iflag, shadow, gates, base, imr, isr, pit_on, ticks, build>>

OtherEdge ==
    /\ UNUSED_LINE \notin irr
    /\ irr' = irr \cup {UNUSED_LINE}
    /\ UNCHANGED <<pc, resume, iflag, shadow, gates, base, imr, isr, devices, ticks, build>>

-----------------------------------------------------------------------------
Kernel ==
    \/ idt_install \/ pic_remap \/ pic_set_masks \/ pit_init
    \/ EnableInterrupts \/ AfterSti \/ IdleSti \/ IdleHlt
    \/ TimerCount \/ KeyboardRead \/ pic_send_eoi \/ iret
    \/ BreakpointTest \/ cli_hlt

Devices == TimerEdge \/ KeyPress \/ OtherEdge

Next == Kernel \/ TakeInterrupt \/ Devices

(* The processor executes and accepts interrupts; the PIT, once it is      *)
(* programmed as a rate generator, keeps raising its line.                 *)
Spec ==
    /\ Init /\ [][Next]_vars
    /\ WF_vars(Kernel) /\ WF_vars(TakeInterrupt)
    /\ WF_vars(pit_on /\ TimerEdge)

-----------------------------------------------------------------------------
Handlers == {"timer_count", "keyboard_read", "eoi"}

(* The 8259, the keyboard controller and the tick counter of the timer     *)
(* handler stay within their registers.                                    *)
TypeOK ==
    /\ pc \in {"idt_install", "pic_remap", "pic_set_masks", "pit_init", "sti", "after_sti",
               "int3", "idle_sti", "idle_hlt", "halted", "iret",
               "stage2_exception_dispatch"} \cup Handlers
    /\ resume \in {"none", "idle_sti", "idle_hlt", "int3"}
    /\ iflag \in BOOLEAN /\ shadow \in BOOLEAN /\ gates \subseteq 0 .. 255
    /\ imr \subseteq Lines /\ irr \subseteq Lines /\ isr \subseteq Lines
    /\ pit_on \in BOOLEAN /\ scancode \in BOOLEAN /\ ticks \in 0 .. TICK_WORD - 1

(* No interrupt reaches a vector without a gate, whatever the controller   *)
(* held at power-on and whenever the devices raise their lines: the IDT,   *)
(* the new vector base and the masks are all in place before sti.          *)
NoUnhandledVector == pc # "unhandled"

(* The registers and counters keep their ranges, and every interrupt that  *)
(* is taken, at any moment of the set-up and of the idle loop, has a       *)
(* handler of the kernel.                                                  *)
RuntimeIntact == TypeOK /\ NoUnhandledVector

(* A line is in service exactly while its handler runs, with interrupts    *)
(* off, up to its end-of-interrupt: no handler nests, and none returns     *)
(* with a line still blocked.                                              *)
InServiceOnlyInHandler ==
    /\ isr # {} <=> pc \in Handlers
    /\ pc \in Handlers \cup {"iret"} => ~ iflag
    /\ Cardinality(isr) <= 1

(* An unread scancode always has its interrupt requested or in service:    *)
(* "Keyboard IRQ1 triggers on key presses"                                 *)
(* (docs/milestones/stage-4.md).  Without it the keyboard stays silent,    *)
(* since it sends no further byte until this one is read.                  *)
UnreadByteHasInterrupt ==
    Remapped /\ scancode => KEYBOARD \in irr \cup isr

(* In the normal build the tick line is printed for ever, also across the  *)
(* wrap of g_timer_ticks and whatever the keyboard does.                   *)
TickOutputRecurs == build = "normal" => []<>PrintsTick

(* The exception path "halts safely after reporting" (stage-2.md): once in *)
(* stage2_exception_dispatch no interrupt is taken and no handler runs.    *)
ExceptionHaltIsFinal ==
    [][pc = "stage2_exception_dispatch" => UNCHANGED <<pc, iflag, ticks, isr>>]_vars
=============================================================================
