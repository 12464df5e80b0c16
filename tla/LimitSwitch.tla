------------------------------ MODULE LimitSwitch ------------------------------
(***************************************************************************)
(* A limit switch of an axis (core-fw/Modules/modules/limit_switch.c): the *)
(* interrupt of its pin, on rising edges only, records when the switch was *)
(* hit; the main loop asks whether it has been held for a delay.           *)
(*                                                                         *)
(* limit_switch_init and limit_switch_active run in the main loop and are  *)
(* interrupted anywhere, hence their steps: one for every access to the    *)
(* pin, the tick or a field the interrupt writes.  The interrupt is a step *)
(* of its own, at the edge of the pin that raises it.                      *)
(***************************************************************************)
EXTENDS Integers

CONSTANTS
  Delay,     \* trigger_propagation_delay_ms
  TickRange, \* 2^32: HAL_GetTick wraps to 0 there
  TickFirst, \* whether the build reads the tick before the timestamp: a
             \* subset of BOOLEAN, as C leaves the order open
  MaxHeld    \* bound on the ms for which the pin stays set

ASSUME LimitSwitchAssumption ==
  /\ Delay \in Nat
  /\ TickRange \in Nat /\ Delay < TickRange
  /\ TickFirst \subseteq BOOLEAN
  /\ MaxHeld \in Nat /\ Delay <= MaxHeld

VARIABLES
  pin,       \* iopin_read(pin) = GPIO_PIN_SET
  tick,      \* HAL_GetTick()
  triggered, triggered_timestamp_ms, \* limit_switch_t
  pc,        \* what the main loop does next
  seen,      \* the tick or the timestamp it has read
  answer,    \* of the last call
  \* history, for the properties
  held,      \* ms since the pin was set
  was,       \* the right answers of the moments since the call began
  disturbed  \* which code was using what it had read when the pin was set last

switch == <<triggered, triggered_timestamp_ms>>
vars == <<pin, tick, switch, pc, seen, answer, held, was, disturbed>>

Ticks == 0 .. TickRange - 1

\* "true if limit switch was triggered and remained active for delay period"
HeldLongEnough == pin /\ held >= Delay

Elapsed(from, to) == (to - from) % TickRange

\* a step of the environment adds the answer that is right after it
Records == was' = was \cup {HeldLongEnough'}

-----------------------------------------------------------------------------
(* The pin, the interrupt and the tick.                                    *)

\* mutant: the time of the first edge is kept
TriggeredIsrFirstEdge ==
  /\ triggered' = TRUE
  /\ triggered_timestamp_ms' = IF triggered THEN triggered_timestamp_ms ELSE tick

\* limit_switch_triggered_isr
TriggeredIsr ==
  /\ triggered' = TRUE
  /\ triggered_timestamp_ms' = tick

\* the states of a call in which an edge makes what it has read obsolete
Initialising == {"storeSet", "storeReset", "initStamp"}
Using == {"reset", "readTime", "readStamp", "readTick"}
Calling == {"notTriggered", "readPin", "reset", "readTime", "readStamp", "readTick"}

PinSet ==
  /\ ~pin
  /\ pin' = TRUE
  /\ TriggeredIsr
  /\ held' = 0
  /\ disturbed' = CASE pc \in Initialising -> "init"
                    [] pc \in Using -> "active"
                    [] OTHER -> "none"
  /\ UNCHANGED <<tick, pc, seen, answer>>
  /\ Records

PinReset ==
  /\ pin
  /\ pin' = FALSE
  /\ UNCHANGED <<tick, switch, pc, seen, answer, held, disturbed>>
  /\ Records

Tick ==
  /\ pin => held < MaxHeld
  /\ tick' = (tick + 1) % TickRange
  /\ held' = IF held < MaxHeld THEN held + 1 ELSE held
  /\ UNCHANGED <<pin, switch, pc, seen, answer, disturbed>>
  /\ Records

-----------------------------------------------------------------------------
(* limit_switch_init.                                                      *)

\* the main loop moves on and changes nothing else but what the step says
Main(from, to) == /\ pc = from /\ pc' = to
                  /\ UNCHANGED <<pin, tick>>

\* a switch that is set at boot counts as held
InitRead ==
  /\ pc = "init"
  /\ pc' = IF pin THEN "storeSet" ELSE "storeReset"
  /\ held' = IF pin THEN Delay ELSE held
  /\ UNCHANGED <<pin, tick, switch, seen, answer, was, disturbed>>

InitTriggered ==
  /\ \/ Main("storeSet", "initStamp") /\ triggered' = TRUE
     \/ Main("storeReset", "initStamp") /\ triggered' = FALSE
  /\ UNCHANGED <<triggered_timestamp_ms, seen, answer, held, was, disturbed>>

\* mutant: the difference is signed
InitStampSigned ==
  /\ Main("initStamp", "idle")
  /\ triggered_timestamp_ms' = tick - Delay
  /\ UNCHANGED <<triggered, seen, answer, held, was, disturbed>>

InitStamp ==
  /\ Main("initStamp", "idle")
  /\ triggered_timestamp_ms' = Elapsed(Delay, tick)
  /\ UNCHANGED <<triggered, seen, answer, held, was, disturbed>>

-----------------------------------------------------------------------------
(* limit_switch_active.                                                    *)

Answer(from, a) ==
  /\ Main(from, "idle")
  /\ answer' = a
  /\ UNCHANGED <<seen, held, was, disturbed>>

\* the call begins and reads triggered
Active ==
  /\ \/ ~triggered /\ Main("idle", "notTriggered")
     \/ triggered /\ Main("idle", "readPin")
  /\ was' = {HeldLongEnough}
  /\ UNCHANGED <<switch, seen, answer, held, disturbed>>

AnswerNotTriggered == Answer("notTriggered", FALSE) /\ UNCHANGED switch

ReadPin ==
  /\ \/ pin /\ Main("readPin", "readTime")
     \/ ~pin /\ Main("readPin", "reset")
  /\ UNCHANGED <<switch, seen, answer, held, was, disturbed>>

Reset ==
  /\ Answer("reset", FALSE)
  /\ triggered' = FALSE
  /\ UNCHANGED triggered_timestamp_ms

\* C leaves it open which operand of the difference is read first
ReadFirst ==
  /\ \/ TRUE \in TickFirst /\ Main("readTime", "readStamp") /\ seen' = tick
     \/ FALSE \in TickFirst /\ Main("readTime", "readTick")
        /\ seen' = triggered_timestamp_ms
  /\ UNCHANGED <<switch, answer, held, was, disturbed>>

AnswerElapsed ==
  /\ \/ Answer("readStamp", Elapsed(triggered_timestamp_ms, seen) >= Delay)
     \/ Answer("readTick", Elapsed(seen, tick) >= Delay)
  /\ UNCHANGED switch

-----------------------------------------------------------------------------
Init ==
  /\ pin \in BOOLEAN
  /\ tick = 0
  /\ triggered = FALSE /\ triggered_timestamp_ms = 0
  /\ pc = "init"
  /\ seen = 0 /\ answer = FALSE
  /\ held = 0 /\ was = {} /\ disturbed = "none"

Next ==
  \/ PinSet \/ PinReset \/ Tick
  \/ InitRead \/ InitTriggered \/ InitStamp
  \/ Active \/ AnswerNotTriggered \/ ReadPin \/ Reset \/ ReadFirst \/ AnswerElapsed

Spec == Init /\ [][Next]_vars

-----------------------------------------------------------------------------
(* Properties.                                                             *)

\* Every variable has a value of its kind.
TypeOK ==
  /\ pin \in BOOLEAN /\ tick \in Ticks
  /\ triggered \in BOOLEAN /\ triggered_timestamp_ms \in Ticks
  /\ pc \in {"init", "idle"} \cup Initialising \cup Calling
  /\ seen \in Ticks /\ answer \in BOOLEAN
  /\ held \in 0 .. MaxHeld /\ was \subseteq BOOLEAN /\ disturbed \in {"none", "init", "active"}

Answers == pc \in Calling /\ pc' = "idle"

\* A call answers yes only when the pin was set for the delay, and no only
\* when at some moment of the call it was not, unless the pin was set while a
\* call, or the initialisation, was using what it had read
\* (limit_switch_active, limit_switch_init).
AnswerRight ==
  [][Answers /\ disturbed = "none" =>
       IF answer' THEN held >= Delay ELSE FALSE \in was]_vars

\* "returns true if limit switch was triggered and remained active for delay
\* period": a switch that is held during the whole call, and has been for the
\* delay, is seen (limit_switch_active), edges during the boot aside.
HeldIsSeen ==
  [][Answers /\ ~answer' => FALSE \in was \/ disturbed = "init"]_vars

\* The same sentence, the other way round: a switch that is seen had been held
\* for the delay at some moment of the call (limit_switch_active).
SeenIsHeld ==
  [][Answers /\ answer' =>
       held >= Delay \/ TRUE \in was \/ disturbed = "init"]_vars
=============================================================================
