-------------------------- MODULE LimitSwitch_proofs --------------------------
(* What tlapm checks of LimitSwitch: the answers of limit_switch_active are *)
(* right, for every delay and every width of the tick.                      *)
EXTENDS LimitSwitch, TLAPS

\* ms between the last trigger and now, as the code computes them
Age == Elapsed(triggered_timestamp_ms, tick)

\* What limit_switch_init knows: the pin it has read as set counts as held.
InitInv ==
  /\ pc = "storeSet" => held >= Delay
  /\ pc = "storeReset" => ~pin
  /\ pc = "initStamp" => (triggered => held >= Delay) /\ (pin => triggered)

\* What the fields tell of the pin: the age of the trigger is the time for which
\* the pin has been set, or both are past the delay.
SwitchInv ==
  /\ pin => triggered
  /\ triggered => \/ Age = held
                  \/ held >= Delay /\ (pin => Age >= Delay /\ Age <= held)

\* What a call has read, which holds until an edge disturbs it.
CallInv ==
  /\ pc \in {"notTriggered", "reset"} => FALSE \in was
  /\ pc = "reset" => ~pin
  /\ pc = "readStamp" =>
       IF Elapsed(triggered_timestamp_ms, seen) >= Delay
       THEN held >= Delay ELSE FALSE \in was
  /\ pc = "readTick" => seen = triggered_timestamp_ms

Undisturbed ==
  disturbed = "none" =>
    /\ InitInv /\ CallInv
    /\ pc \notin {"init"} \cup Initialising => SwitchInv

\* The answer that is right now is among those that were right during the call.
Present == pc \in Calling => HeldLongEnough \in was

IInv ==
  /\ TypeOK
  /\ pc \in Calling \ {"notTriggered"} => triggered
  /\ Present /\ Undisturbed

-----------------------------------------------------------------------------
LEMMA TickRangePositive == TickRange \in Nat \ {0} /\ Delay \in 0 .. TickRange - 1
  BY LimitSwitchAssumption

\* the unsigned difference of two ticks
LEMMA ElapsedValue ==
  ASSUME NEW a \in Ticks, NEW b \in Ticks
  PROVE  Elapsed(a, b) = IF a <= b THEN b - a ELSE b - a + TickRange
<1> USE TickRangePositive DEF Ticks, Elapsed
<1>1. CASE a <= b
  BY <1>1
<1>2. CASE ~(a <= b)
  BY <1>2
<1> QED  BY <1>1, <1>2

LEMMA NextTick ==
  ASSUME NEW t \in Ticks
  PROVE  (t + 1) % TickRange = IF t + 1 = TickRange THEN 0 ELSE t + 1
<1> USE TickRangePositive DEF Ticks
<1>1. CASE t + 1 = TickRange
  BY <1>1
<1>2. CASE t + 1 # TickRange
  BY <1>2
<1> QED  BY <1>1, <1>2


LEMMA AgeInTicks == TypeOK => Age \in Ticks
  BY ElapsedValue, TickRangePositive DEF TypeOK, Age, Ticks

-----------------------------------------------------------------------------
LEMMA InitTypeOK == Init => TypeOK
<1>1. 0 \in Ticks /\ 0 \in 0 .. MaxHeld
  BY TickRangePositive, LimitSwitchAssumption DEF Ticks
<1> QED  BY <1>1, Zenon DEF Init, TypeOK

\* the environment
LEMMA EdgeTypeOK == TypeOK /\ (PinSet \/ PinReset) => TypeOK'
<1> SUFFICES ASSUME TypeOK, PinSet \/ PinReset PROVE TypeOK'
  OBVIOUS
<1>1. pin' \in BOOLEAN /\ HeldLongEnough' \in BOOLEAN
  BY DEF PinSet, PinReset, HeldLongEnough
<1>2. was' \subseteq BOOLEAN
  BY <1>1 DEF TypeOK, PinSet, PinReset, Records
<1>3. CASE PinSet
  <2>1. disturbed' \in {"none", "init", "active"}
    BY <1>3 DEF PinSet
  <2>2. held' \in 0 .. MaxHeld
    BY <1>3, LimitSwitchAssumption DEF PinSet
  <2> QED  BY <1>1, <1>2, <1>3, <2>1, <2>2 DEF TypeOK, PinSet, TriggeredIsr
<1>4. CASE PinReset
  BY <1>1, <1>2, <1>4 DEF TypeOK, PinReset, switch
<1> QED  BY <1>3, <1>4

LEMMA TickTypeOK == TypeOK /\ Tick => TypeOK'
<1> SUFFICES ASSUME TypeOK, Tick PROVE TypeOK'
  OBVIOUS
<1>1. tick' \in Ticks
  BY NextTick, TickRangePositive DEF TypeOK, Tick, Ticks
<1>2. held' \in 0 .. MaxHeld
  BY LimitSwitchAssumption DEF TypeOK, Tick
<1>3. HeldLongEnough' \in BOOLEAN
  BY DEF TypeOK, Tick, HeldLongEnough
<1>4. was' \subseteq BOOLEAN
  BY <1>3 DEF TypeOK, Tick, Records
<1> QED  BY <1>1, <1>2, <1>4 DEF TypeOK, Tick, switch

\* the main loop
Boot == InitRead \/ InitTriggered \/ InitStamp
Call == \/ Active \/ AnswerNotTriggered \/ ReadPin \/ Reset \/ ReadFirst
        \/ AnswerElapsed

LEMMA BootTypeOK == TypeOK /\ Boot => TypeOK'
<1> SUFFICES ASSUME TypeOK, Boot PROVE TypeOK'
  OBVIOUS
<1>1. CASE InitRead
  BY <1>1, LimitSwitchAssumption DEF TypeOK, InitRead, switch, Initialising
<1>2. CASE InitTriggered
  BY <1>2 DEF TypeOK, InitTriggered, Main, Initialising
<1>3. CASE InitStamp
  <2>1. Elapsed(Delay, tick) \in Ticks
    BY ElapsedValue, TickRangePositive DEF TypeOK, Ticks
  <2> QED  BY <1>3, <2>1 DEF TypeOK, InitStamp, Main
<1> QED  BY <1>1, <1>2, <1>3 DEF Boot

LEMMA CallTypeOK == TypeOK /\ Call => TypeOK'
<1> SUFFICES ASSUME TypeOK, Call PROVE TypeOK'
  OBVIOUS
<1> USE DEF TypeOK, Calling, Main, Answer, switch
<1>1. CASE Active
  <2>1. was' \subseteq BOOLEAN
    BY <1>1 DEF Active, HeldLongEnough
  <2> QED  BY <1>1, <2>1 DEF Active
<1>2. CASE AnswerNotTriggered
  BY <1>2 DEF AnswerNotTriggered
<1>3. CASE ReadPin
  BY <1>3 DEF ReadPin
<1>4. CASE Reset
  BY <1>4 DEF Reset
<1>5. CASE ReadFirst
  BY <1>5 DEF ReadFirst
<1>6. CASE AnswerElapsed
  <2>1. answer' \in BOOLEAN
    <3>1. /\ Elapsed(triggered_timestamp_ms, seen) \in Nat
          /\ Elapsed(seen, tick) \in Nat
      BY ElapsedValue, TickRangePositive DEF Ticks
    <3>2. /\ (Elapsed(triggered_timestamp_ms, seen) >= Delay) \in BOOLEAN
          /\ (Elapsed(seen, tick) >= Delay) \in BOOLEAN
      BY <3>1, LimitSwitchAssumption
    <3> QED  BY <1>6, <3>2, Zenon DEF AnswerElapsed
  <2> QED  BY <1>6, <2>1 DEF AnswerElapsed
<1> QED  BY <1>1, <1>2, <1>3, <1>4, <1>5, <1>6 DEF Call

\* Tick, timestamp and history keep to their ranges, and the difference of two
\* ticks is one (limit_switch_init stores tick - delay, unsigned).
THEOREM SwitchTypeCorrect == Spec => []TypeOK
<1>1. TypeOK /\ [Next]_vars => TypeOK'
  <2> SUFFICES ASSUME TypeOK, [Next]_vars PROVE TypeOK'
    OBVIOUS
  <2>1. CASE UNCHANGED vars
    BY <2>1 DEF vars, switch, TypeOK
  <2> QED  BY <2>1, EdgeTypeOK, TickTypeOK, BootTypeOK, CallTypeOK
              DEF Next, Boot, Call
<1> QED  BY InitTypeOK, <1>1, PTL DEF Spec

-----------------------------------------------------------------------------
LEMMA InitIInv == Init => IInv
  BY InitTypeOK DEF Init, IInv, Present, Undisturbed, InitInv, CallInv, Calling,
                    Initialising

\* an edge begins a new contact; whoever was using an older one is disturbed
LEMMA PinSetIInv == IInv /\ PinSet => IInv'
<1> SUFFICES ASSUME IInv, PinSet PROVE IInv'
  OBVIOUS
<1>1. TypeOK /\ TypeOK'
  BY EdgeTypeOK DEF IInv
<1>2. pc' = pc /\ seen' = seen /\ pin' /\ ~pin /\ triggered' /\ held' = 0
  BY DEF PinSet, TriggeredIsr
<1>3. Present'
  BY <1>2 DEF IInv, Present, PinSet, Records
<1>4. Undisturbed'
  <2> SUFFICES ASSUME disturbed' = "none" PROVE Undisturbed'
    BY DEF Undisturbed
  <2>1. pc \notin Initialising /\ pc \notin Using
    BY DEF PinSet, Initialising, Using
  <2>2. Age' = held'
    BY <1>1, ElapsedValue DEF TypeOK, PinSet, TriggeredIsr, Age, Ticks
  <2>3. pc = "notTriggered" => FALSE \in was'
    BY <1>2 DEF IInv, Present, Calling, HeldLongEnough, PinSet, Records
  <2>4. InitInv' /\ CallInv'
    BY <1>2, <2>1, <2>3 DEF InitInv, CallInv, Initialising, Using
  <2>5. SwitchInv'
    BY <1>2, <2>2 DEF SwitchInv
  <2> QED  BY <2>4, <2>5 DEF Undisturbed
<1> QED  BY <1>1, <1>2, <1>3, <1>4 DEF IInv

LEMMA PinResetIInv == IInv /\ PinReset => IInv'
<1> SUFFICES ASSUME IInv, PinReset PROVE IInv'
  OBVIOUS
<1>1. TypeOK'
  BY EdgeTypeOK DEF IInv
<1>2. /\ pc' = pc /\ seen' = seen /\ ~pin' /\ held' = held /\ tick' = tick
      /\ triggered' = triggered /\ disturbed' = disturbed
      /\ triggered_timestamp_ms' = triggered_timestamp_ms
  BY DEF PinReset, switch
<1>3. Present' /\ was \subseteq was'
  BY DEF Present, PinReset, Records
<1>4. Age' = Age
  BY <1>2 DEF Age, Elapsed
<1>5. CallInv => CallInv'
  BY <1>2, <1>3 DEF CallInv, Elapsed
<1>6. (InitInv => InitInv') /\ (SwitchInv => SwitchInv')
  BY <1>2, <1>4 DEF InitInv, SwitchInv
<1> QED  BY <1>1, <1>2, <1>3, <1>5, <1>6 DEF IInv, Undisturbed

\* a ms in which the contact, if there is one, gets older
LEMMA TickIInv ==
  ASSUME MaxHeld < TickRange, IInv, Tick
  PROVE  IInv'
<1>1. TypeOK /\ TypeOK'
  BY TickTypeOK DEF IInv
<1>2. /\ pc' = pc /\ seen' = seen /\ pin' = pin /\ triggered' = triggered
      /\ disturbed' = disturbed
      /\ triggered_timestamp_ms' = triggered_timestamp_ms
  BY DEF Tick, switch
<1>3. Present' /\ was \subseteq was'
  BY DEF Present, Tick, Records
<1>4. held \in 0 .. MaxHeld /\ MaxHeld \in Nat /\ Delay \in 0 .. MaxHeld
  BY <1>1, LimitSwitchAssumption DEF TypeOK
<1>5. held' = (IF held < MaxHeld THEN held + 1 ELSE held) /\ (pin => held < MaxHeld)
  BY DEF Tick
<1>6. held' >= held
  BY <1>4, <1>5
<1>7. Age + 1 < TickRange => Age' = Age + 1
  <2>1. /\ tick \in Ticks /\ tick' \in Ticks /\ triggered_timestamp_ms \in Ticks
        /\ tick' = IF tick + 1 = TickRange THEN 0 ELSE tick + 1
    BY <1>1, NextTick DEF TypeOK, Tick
  <2>2. /\ Age = IF triggered_timestamp_ms <= tick
                 THEN tick - triggered_timestamp_ms
                 ELSE tick - triggered_timestamp_ms + TickRange
        /\ Age' = IF triggered_timestamp_ms <= tick'
                  THEN tick' - triggered_timestamp_ms
                  ELSE tick' - triggered_timestamp_ms + TickRange
    BY <1>2, <2>1, ElapsedValue DEF Age
  <2> QED  BY <2>1, <2>2, TickRangePositive DEF Ticks
<1>8. Age \in Ticks /\ TickRange \in Nat
  BY <1>1, AgeInTicks, TickRangePositive
<1>9. SwitchInv => SwitchInv'
  <2> SUFFICES ASSUME SwitchInv PROVE SwitchInv'
    OBVIOUS
  <2>1. CASE ~triggered
    BY <1>2, <2>1 DEF SwitchInv
  <2>2. CASE triggered /\ held < MaxHeld /\ Age = held
    BY <1>2, <1>4, <1>5, <1>7, <1>8, <2>2 DEF SwitchInv
  <2>3. CASE triggered /\ ~(held < MaxHeld)
    BY <1>2, <1>4, <1>5, <2>3 DEF SwitchInv
  <2>4. CASE /\ triggered /\ held < MaxHeld /\ held >= Delay
             /\ pin => Age >= Delay /\ Age <= held
    BY <1>2, <1>4, <1>5, <1>7, <1>8, <2>4 DEF SwitchInv, Ticks
  <2> QED  BY <2>1, <2>2, <2>3, <2>4 DEF SwitchInv
<1>10. InitInv => InitInv'
  BY <1>2, <1>4, <1>5 DEF InitInv
<1>11. CallInv => CallInv'
  <2>1. Elapsed(triggered_timestamp_ms, seen)' = Elapsed(triggered_timestamp_ms, seen)
    BY <1>2 DEF Elapsed
  <2>2. held >= Delay => held' >= Delay
    BY <1>4, <1>5
  <2> QED  BY <1>2, <1>3, <2>1, <2>2 DEF CallInv
<1> QED  BY <1>1, <1>2, <1>3, <1>9, <1>10, <1>11 DEF IInv, Undisturbed

LEMMA BootIInv == IInv /\ Boot => IInv'
<1> SUFFICES ASSUME IInv, Boot PROVE IInv'
  OBVIOUS
<1>1. TypeOK /\ TypeOK'
  BY BootTypeOK DEF IInv
<1>2. Delay \in Nat /\ MaxHeld \in Nat
  BY LimitSwitchAssumption
<1>3. CASE InitRead
  <2>1. InitInv' /\ CallInv' /\ pc' \in Initialising
    BY <1>2, <1>3 DEF InitRead, InitInv, CallInv, Initialising, switch
  <2> QED  BY <1>1, <2>1 DEF IInv, Present, Undisturbed, Calling, Initialising
<1>4. CASE InitTriggered
  <2>1. /\ disturbed' = disturbed /\ pin' = pin /\ held' = held /\ pc' = "initStamp"
        /\ \/ pc = "storeSet" /\ triggered'
           \/ pc = "storeReset" /\ ~triggered'
    BY <1>4 DEF InitTriggered, Main
  <2>2. disturbed = "none" => InitInv
    BY DEF IInv, Undisturbed
  <2>3. disturbed' = "none" => InitInv'
    BY <2>1, <2>2 DEF InitInv
  <2>4. CallInv'
    BY <2>1 DEF CallInv
  <2> QED  BY <1>1, <2>1, <2>3, <2>4
           DEF IInv, Present, Undisturbed, Calling, Initialising
<1>5. CASE InitStamp
  <2>1. /\ disturbed' = disturbed /\ pin' = pin /\ held' = held /\ pc' = "idle"
        /\ triggered' = triggered /\ pc = "initStamp" /\ tick' = tick
        /\ triggered_timestamp_ms' = Elapsed(Delay, tick)
    BY <1>5 DEF InitStamp, Main
  <2>2. disturbed = "none" => InitInv
    BY DEF IInv, Undisturbed
  <2>3. Age' = Delay
    <3>1. Delay \in Ticks /\ tick \in Ticks /\ Elapsed(Delay, tick) \in Ticks
      BY <1>1, <2>1, TickRangePositive DEF TypeOK, Ticks
    <3>2. Age' = Elapsed(Elapsed(Delay, tick), tick)
      BY <2>1 DEF Age, Elapsed
    <3> QED  BY <3>1, <3>2, ElapsedValue, TickRangePositive DEF Ticks
  <2>4. disturbed' = "none" => SwitchInv'
    BY <1>1, <1>2, <2>1, <2>2, <2>3 DEF InitInv, SwitchInv, TypeOK
  <2>5. InitInv' /\ CallInv'
    BY <2>1 DEF InitInv, CallInv
  <2> QED  BY <1>1, <2>1, <2>4, <2>5 DEF IInv, Present, Undisturbed, Calling
<1> QED  BY <1>3, <1>4, <1>5 DEF Boot

\* the steps of a call touch neither the pin nor the time
LEMMA CallFrame ==
  ASSUME Call
  PROVE  /\ pin' = pin /\ tick' = tick /\ held' = held /\ disturbed' = disturbed
         /\ triggered_timestamp_ms' = triggered_timestamp_ms
         /\ triggered' = triggered \/ Reset
         /\ was' = was \/ Active
BY DEF Call, Active, AnswerNotTriggered, ReadPin, Reset, ReadFirst, AnswerElapsed,
       Main, Answer, switch

LEMMA CallIInv == IInv /\ Call => IInv'
<1> SUFFICES ASSUME IInv, Call PROVE IInv'
  OBVIOUS
<1>1. TypeOK /\ TypeOK'
  BY CallTypeOK DEF IInv
<1>2. /\ pin' = pin /\ tick' = tick /\ held' = held /\ disturbed' = disturbed
      /\ triggered_timestamp_ms' = triggered_timestamp_ms
  BY CallFrame
<1>3. Age' = Age
  BY <1>2 DEF Age, Elapsed
<1>4. HeldLongEnough' = HeldLongEnough
  BY <1>2 DEF HeldLongEnough
<1>5. InitInv'
  BY DEF Call, Active, AnswerNotTriggered, ReadPin, Reset, ReadFirst, AnswerElapsed,
         Main, Answer, InitInv
<1>6. disturbed = "none" => SwitchInv /\ CallInv
  BY DEF IInv, Undisturbed, Call, Active, AnswerNotTriggered, ReadPin, Reset,
         ReadFirst, AnswerElapsed, Main, Answer, Initialising
<1>7. CASE Active
  <2>1. /\ triggered' = triggered /\ was' = {HeldLongEnough}
        /\ pc' = IF triggered THEN "readPin" ELSE "notTriggered"
    BY <1>1, <1>7 DEF Active, Main, switch
  <2>2. disturbed = "none" => SwitchInv' /\ CallInv'
    BY <1>2, <1>3, <1>6, <2>1 DEF SwitchInv, CallInv, HeldLongEnough
  <2> QED  BY <1>1, <1>2, <1>4, <1>5, <2>1, <2>2
           DEF IInv, Present, Undisturbed, Calling
<1>8. CASE pc' = "idle"
  <2>1. disturbed = "none" => SwitchInv'
    <3>1. CASE Reset
      <4>1. pc = "reset" /\ ~triggered'
        BY <3>1 DEF Reset, Answer, Main
      <4> QED  BY <1>2, <1>6, <4>1 DEF SwitchInv, CallInv
    <3>2. CASE triggered' = triggered
      BY <1>2, <1>3, <1>6, <3>2 DEF SwitchInv
    <3> QED  BY <3>1, <3>2, CallFrame
  <2>2. CallInv'
    BY <1>8 DEF CallInv
  <2> QED  BY <1>1, <1>2, <1>5, <1>8, <2>1, <2>2
           DEF IInv, Present, Undisturbed, Calling
<1>9. CASE ReadPin
  <2>1. /\ triggered' = triggered /\ was' = was /\ pc = "readPin"
        /\ \/ pin /\ pc' = "readTime"
           \/ ~pin /\ pc' = "reset"
    BY <1>9 DEF ReadPin, Main, switch
  <2>2. triggered /\ HeldLongEnough \in was
    BY <2>1 DEF IInv, Present, Calling
  <2>3. CallInv'
    BY <1>2, <2>1, <2>2 DEF CallInv, HeldLongEnough
  <2>4. disturbed = "none" => SwitchInv'
    BY <1>2, <1>3, <1>6, <2>1 DEF SwitchInv
  <2> QED  BY <1>1, <1>2, <1>4, <1>5, <2>1, <2>2, <2>3, <2>4
           DEF IInv, Present, Undisturbed
<1>10. CASE ReadFirst
  <2>1. /\ triggered' = triggered /\ was' = was /\ pc = "readTime"
        /\ \/ pc' = "readStamp" /\ seen' = tick
           \/ pc' = "readTick" /\ seen' = triggered_timestamp_ms
    BY <1>10 DEF ReadFirst, Main, switch
  <2>2. triggered /\ HeldLongEnough \in was
    BY <2>1 DEF IInv, Present, Calling
  <2>3. disturbed = "none" /\ Age >= Delay => held >= Delay
    BY <1>6, <2>2 DEF SwitchInv
  <2>4. disturbed = "none" /\ ~(Age >= Delay) => FALSE \in was
    BY <1>1, <1>6, <2>2, LimitSwitchAssumption DEF SwitchInv, HeldLongEnough, TypeOK
  <2>5. disturbed = "none" => CallInv'
    BY <1>2, <2>1, <2>3, <2>4 DEF CallInv, Age, Elapsed
  <2>6. disturbed = "none" => SwitchInv'
    BY <1>2, <1>3, <1>6, <2>1 DEF SwitchInv
  <2> QED  BY <1>1, <1>2, <1>4, <1>5, <2>1, <2>2, <2>5, <2>6
           DEF IInv, Present, Undisturbed
<1> QED  BY <1>7, <1>8, <1>9, <1>10
         DEF Call, AnswerNotTriggered, Reset, AnswerElapsed, Answer, Main

\* an answer is given from what the call has read
LEMMA AnswerStep ==
  ASSUME IInv, Call, Answers, disturbed = "none"
  PROVE  IF answer' THEN held >= Delay ELSE FALSE \in was
<1>1. CallInv /\ SwitchInv /\ TypeOK
  BY DEF IInv, Undisturbed, Answers, Calling, Initialising
<1>2. CASE AnswerNotTriggered \/ Reset
  BY <1>1, <1>2 DEF AnswerNotTriggered, Reset, Answer, Main, CallInv
<1>3. CASE AnswerElapsed
  <2>1. CASE pc = "readStamp"
    BY <1>1, <1>3, <2>1 DEF AnswerElapsed, Answer, Main, CallInv
  <2>2. CASE pc = "readTick"
    <3>1. seen = triggered_timestamp_ms /\ triggered /\ HeldLongEnough \in was
      BY <1>1, <2>2 DEF CallInv, IInv, Present, Calling
    <3>2. answer' = (Age >= Delay)
      BY <1>3, <2>2, <3>1 DEF AnswerElapsed, Answer, Main, Age
    <3> QED  BY <1>1, <3>1, <3>2, LimitSwitchAssumption
             DEF SwitchInv, HeldLongEnough, TypeOK
  <2> QED  BY <1>3, <2>1, <2>2 DEF AnswerElapsed, Answer, Main
<1> QED  BY <1>2, <1>3
         DEF Answers, Calling, Call, Active, ReadPin, ReadFirst, Main

\* A call that no edge meets while it uses what it has read answers yes only when
\* the switch was held for the delay, and no only when at some moment of the call
\* it was not - for every delay and order of the reads, as long as a contact ends
\* before the tick has gone round (limit_switch_init, limit_switch_active).
THEOREM AnswersRight ==
  ASSUME MaxHeld < TickRange
  PROVE  Spec => AnswerRight
<1>1. IInv /\ [Next]_vars => IInv'
  <2> SUFFICES ASSUME IInv, [Next]_vars PROVE IInv'
    OBVIOUS
  <2>1. CASE UNCHANGED vars
    BY <2>1 DEF vars, switch, IInv, TypeOK, Present, Undisturbed, InitInv, CallInv,
                SwitchInv, Age, Elapsed, HeldLongEnough
  <2> QED  BY <2>1, PinSetIInv, PinResetIInv, TickIInv, BootIInv, CallIInv
              DEF Next, Boot, Call
<1>2. IInv /\ [Next]_vars =>
        [Answers /\ disturbed = "none" =>
           IF answer' THEN held >= Delay ELSE FALSE \in was]_vars
  <2> SUFFICES ASSUME IInv, Next, Answers, disturbed = "none"
               PROVE  IF answer' THEN held >= Delay ELSE FALSE \in was
    OBVIOUS
  <2>1. Call
    BY DEF Next, Call, Answers, Calling, PinSet, PinReset, Tick, InitRead,
           InitTriggered, InitStamp, Main
  <2> QED  BY <2>1, AnswerStep
<1> QED  BY InitIInv, <1>1, <1>2, PTL DEF Spec, AnswerRight
=============================================================================
