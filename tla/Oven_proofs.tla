----------------------------- MODULE Oven_proofs -----------------------------
(* What holds of module Oven for every machine, profile, set of readings,    *)
(* commands and mishaps: the types first, then the safety properties.  Each  *)
(* group of those is carried by the part of the inductive invariant it needs: *)
(*   the heater by itself, the exclusion of reflow and selftest by itself,    *)
(*   the conditions of a reflow by that exclusion, the homing of the lift by  *)
(*   the exclusion and the regulator, and where the lift is left and how it   *)
(*   keeps clear of the lid by all of them and the orders of boot and test.   *)
EXTENDS Oven, TLAPS

-----------------------------------------------------------------------------
(* Every function of axis.c leaves an axis of the same travel.              *)

\* axis_init leaves a well-formed axis.
LEMMA InitType ==
  ASSUME NEW s \in Nat \ {0}, NEW lo \in Int, NEW hi \in Int, NEW l \in 0 .. s
  PROVE  AxisInit(s, lo, hi, l) \in AxisType(s, lo, hi)
BY DEF AxisInit, AxisType, Modes, Directions

\* motor_stop leaves a well-formed axis.
LEMMA StopType ==
  ASSUME NEW s, NEW lo, NEW hi, NEW a \in AxisType(s, lo, hi)
  PROVE  MotorStop(a) \in AxisType(s, lo, hi)
BY DEF MotorStop, AxisType, Directions

\* axis_move leaves a well-formed axis.
LEMMA MoveType ==
  ASSUME NEW s, NEW lo, NEW hi, NEW a \in AxisType(s, lo, hi),
         NEW d \in {"FWD", "BWD"}
  PROVE  Move(a, d) \in AxisType(s, lo, hi)
<1>1. (IF d = "FWD" THEN Far ELSE -Far) \in Int
  BY AxisAssumption
<1> QED
  BY <1>1 DEF Move, AxisType, Directions

\* axis_move_to leaves a well-formed axis.
LEMMA MoveToType ==
  ASSUME NEW s, NEW lo, NEW hi, NEW a \in AxisType(s, lo, hi), NEW t \in Int
  PROVE  MoveTo(a, t) \in AxisType(s, lo, hi)
BY DEF MoveTo, AxisType, Directions

\* axis_cal leaves a well-formed axis.
LEMMA CalType ==
  ASSUME NEW s, NEW lo, NEW hi, NEW a \in AxisType(s, lo, hi), NEW d
  PROVE  Cal(a, d) \in AxisType(s, lo, hi)
BY DEF Cal, AxisType, Modes

\* motor_run leaves a well-formed axis.
LEMMA RunType ==
  ASSUME NEW s, NEW lo, NEW hi, NEW a \in AxisType(s, lo, hi), NEW d \in Directions
  PROVE  MotorRun(a, d) \in AxisType(s, lo, hi)
BY DEF MotorRun, AxisType

\* axis_limitswitch_worker leaves a well-formed axis.
LEMMA LimitSwitchType ==
  ASSUME NEW s, NEW lo, NEW hi, NEW a \in AxisType(s, lo, hi)
  PROVE  LimitSwitchWorker(a) \in AxisType(s, lo, hi)
<1>1. ASSUME NEW c \in AxisType(s, lo, hi)
      PROVE  ClearPosition(c) \in AxisType(s, lo, hi)
  BY DEF ClearPosition, AxisType
<1>2. ASSUME NEW c \in AxisType(s, lo, hi)
      PROVE  [c EXCEPT !.cal_done = TRUE, !.mode = "NORMAL"] \in AxisType(s, lo, hi)
  BY DEF AxisType, Modes
<1>3. LimswRoutine(a) \in AxisType(s, lo, hi)
  BY <1>1, <1>2, StopType DEF LimswRoutine
<1> QED
  BY <1>3 DEF LimitSwitchWorker

\* Every case of axis_worker leaves a well-formed axis.
LEMMA ByModeType ==
  ASSUME NEW s, NEW lo, NEW hi, NEW a \in AxisType(s, lo, hi), NEW e \in BOOLEAN
  PROVE  ByMode(a, e) \in AxisType(s, lo, hi)
<1>1. CheckTarget(a) \in AxisType(s, lo, hi)
  BY StopType DEF CheckTarget
<1>2. ASSUME NEW d \in {"FWD", "BWD"}, NEW active
      PROVE  CalStart(a, d, active) \in AxisType(s, lo, hi)
  <2>1. ASSUME NEW c \in AxisType(s, lo, hi)
        PROVE  /\ [c EXCEPT !.mode = "CAL_FREE", !.cal_free_waiting = FALSE]
                    \in AxisType(s, lo, hi)
               /\ [c EXCEPT !.mode = "CAL_FIND"] \in AxisType(s, lo, hi)
    BY DEF AxisType, Modes
  <2>2. MotorRun(a, d) \in AxisType(s, lo, hi)
        /\ MotorRun(a, Opposite(d)) \in AxisType(s, lo, hi)
    BY RunType DEF Opposite, Directions
  <2> QED
    BY <2>1, <2>2 DEF CalStart
<1>3. CalFree(a, e) \in AxisType(s, lo, hi)
  <2>1. ASSUME NEW c \in AxisType(s, lo, hi)
        PROVE  /\ [c EXCEPT !.cal_free_waiting = TRUE, !.cal_free_direction = a.dir]
                    \in AxisType(s, lo, hi)
               /\ [c EXCEPT !.mode = "CAL_FIND"] \in AxisType(s, lo, hi)
    BY DEF AxisType, Modes
  <2>2. MotorRun(a, Opposite(a.cal_free_direction)) \in AxisType(s, lo, hi)
    BY RunType DEF Opposite, Directions
  <2> QED
    BY <2>1, <2>2, StopType DEF CalFree
<1> QED
  BY <1>1, <1>2, <1>3 DEF ByMode

\* axis_worker leaves a well-formed axis.
LEMMA WorkerType ==
  ASSUME NEW s, NEW lo, NEW hi, NEW a \in AxisType(s, lo, hi), NEW e \in BOOLEAN
  PROVE  Worker(a, e) \in AxisType(s, lo, hi)
<1>1. ByMode(LimitSwitchWorker(a), e) \in AxisType(s, lo, hi)
  BY LimitSwitchType, ByModeType
<1> QED
  BY <1>1 DEF Worker, AxisType

\* A stride of the carriage leaves a well-formed axis.
LEMMA AdvanceType ==
  ASSUME NEW s \in Nat \ {0}, NEW lo, NEW hi, NEW a \in AxisType(s, lo, hi),
         NEW n \in Nat
  PROVE  Advance(a, n) \in AxisType(s, lo, hi)
<1>1. a.loc \in 0 .. s /\ a.span = s /\ a.pos \in Int
  BY DEF AxisType
<1>2. Reach(a, n) \in 0 .. s
  BY <1>1 DEF Reach
<1>3. a.pos + (Reach(a, n) - a.loc) \in Int
  BY <1>1, <1>2
<1> QED
  BY <1>2, <1>3 DEF Advance, AxisType

-----------------------------------------------------------------------------
(* What the functions keep of an axis that is not being homed.              *)

\* axis_worker of an axis in normal mode can only stop its motor.
LEMMA WorkerNormal ==
  ASSUME NEW s, NEW lo, NEW hi, NEW a \in AxisType(s, lo, hi), NEW e,
         a.mode = "NORMAL"
  PROVE  /\ Worker(a, e).mode = "NORMAL"
         /\ Worker(a, e).dir \in {a.dir, "NONE"}
         /\ Worker(a, e).cal_done = a.cal_done
BY DEF Worker, ByMode, LimitSwitchWorker, LimswRoutine, ClearPosition, MotorStop, CheckTarget, AxisType

\* axis_worker never forgets a homing.
LEMMA WorkerKeepsHoming ==
  ASSUME NEW s, NEW lo, NEW hi, NEW a \in AxisType(s, lo, hi), NEW e,
         a.cal_done
  PROVE  Worker(a, e).cal_done
BY DEF Worker, ByMode, LimitSwitchWorker, LimswRoutine, ClearPosition, MotorStop, MotorRun,
       CheckTarget, CalStart, CalFree, AxisType

\* No command but axis_cal touches the mode and the homing.
LEMMA CommandsKeepMode ==
  ASSUME NEW s, NEW lo, NEW hi, NEW a \in AxisType(s, lo, hi), NEW d, NEW t
  PROVE  /\ Move(a, d).mode = a.mode /\ Move(a, d).cal_done = a.cal_done
         /\ MoveTo(a, t).mode = a.mode /\ MoveTo(a, t).cal_done = a.cal_done
         /\ MotorStop(a).mode = a.mode /\ MotorStop(a).cal_done = a.cal_done
         /\ Advance(a, t).mode = a.mode /\ Advance(a, t).cal_done = a.cal_done
         /\ Advance(a, t).dir = a.dir
BY DEF Move, MoveTo, MotorStop, Advance, AxisType

-----------------------------------------------------------------------------
(* Homing forward.                                                          *)

\* axis_worker homes forward and sets the origin at the forward switch.
LEMMA WorkerHomes ==
  ASSUME NEW s \in Nat \ {0}, NEW lo, NEW hi, NEW a \in AxisType(s, lo, hi),
         NEW e \in BOOLEAN, HomesForward(a), CountsFromTop(a)
  PROVE  HomesForward(Worker(a, e)) /\ CountsFromTop(Worker(a, e))
<1> DEFINE b == LimitSwitchWorker(a)
<1>1. b \in AxisType(s, lo, hi) /\ HomesForward(b) /\ CountsFromTop(b)
  <2>1. CASE ~AtLimit(a)
    BY <2>1 DEF LimitSwitchWorker
  <2>2. CASE AtLimit(a) /\ a.mode = "CAL_FIND"
    <3>1. b = [ClearPosition(MotorStop(a)) EXCEPT !.cal_done = TRUE, !.mode = "NORMAL"]
      BY <2>2 DEF LimitSwitchWorker, LimswRoutine
    <3>2. a.loc = a.span /\ a.loc \in 0 .. s
      BY <2>2 DEF AtLimit, FwdActive, HomesForward, AxisType
    <3>3. /\ b.mode = "NORMAL" /\ b.cal_done /\ b.pos = 0
          /\ b.loc = a.loc /\ b.span = a.span
      BY <3>1 DEF ClearPosition, MotorStop, AxisType
    <3> QED
      BY <3>2, <3>3, LimitSwitchType DEF HomesForward, CountsFromTop
  <2>3. CASE AtLimit(a) /\ a.mode # "CAL_FIND"
    <3>1. b = MotorStop(a)
      BY <2>3 DEF LimitSwitchWorker, LimswRoutine
    <3> QED
      BY <2>3, <3>1 DEF MotorStop, HomesForward, CountsFromTop, AxisType, Modes, Directions
  <2> QED
    BY <2>1, <2>2, <2>3
<1> HIDE DEF b
<1>2. ByMode(b, e) \in AxisType(s, lo, hi)
      /\ HomesForward(ByMode(b, e)) /\ CountsFromTop(ByMode(b, e))
  <2>1. CASE b.mode = "NORMAL"
    BY <1>1, <2>1 DEF ByMode, CheckTarget, MotorStop, HomesForward, CountsFromTop,
                      AxisType, Modes, Directions
  <2>2. CASE b.mode = "CAL_FWD"
    BY ZenonT(40), <1>1, <2>2 DEF ByMode, CalStart, MotorRun, Opposite, HomesForward,
                                  CountsFromTop, AxisType, Modes, Directions
  <2>3. CASE b.mode = "CAL_FREE"
    BY ZenonT(40), <1>1, <2>3 DEF ByMode, CalFree, MotorRun, MotorStop, Opposite,
                                  HomesForward, CountsFromTop, AxisType, Modes, Directions
  <2>4. CASE b.mode = "CAL_FIND"
    BY <1>1, <2>4 DEF ByMode
  <2> QED
    BY <1>1, <2>1, <2>2, <2>3, <2>4 DEF HomesForward, AxisType, Modes
<1> QED
  BY <1>2 DEF Worker, b, HomesForward, CountsFromTop, AxisType

\* A stride keeps the count.
LEMMA AdvanceHomes ==
  ASSUME NEW s \in Nat \ {0}, NEW lo, NEW hi, NEW a \in AxisType(s, lo, hi),
         NEW n \in Nat, HomesForward(a), CountsFromTop(a)
  PROVE  HomesForward(Advance(a, n)) /\ CountsFromTop(Advance(a, n))
<1>1. a.loc \in 0 .. s /\ a.span = s /\ a.pos \in Int /\ Reach(a, n) \in Int
  BY DEF AxisType, Reach
<1> QED
  BY <1>1 DEF Advance, HomesForward, CountsFromTop, AxisType

\* A command to an axis that is not being homed keeps its origin.
LEMMA CommandsHome ==
  ASSUME NEW s, NEW lo, NEW hi, NEW a \in AxisType(s, lo, hi), NEW d, NEW t,
         a.mode = "NORMAL", CountsFromTop(a)
  PROVE  /\ HomesForward(Move(a, d)) /\ CountsFromTop(Move(a, d))
         /\ HomesForward(MoveTo(a, t)) /\ CountsFromTop(MoveTo(a, t))
         /\ HomesForward(MotorStop(a)) /\ CountsFromTop(MotorStop(a))
<1>1. HomesForward(Move(a, d)) /\ CountsFromTop(Move(a, d))
  BY DEF Move, HomesForward, CountsFromTop, AxisType
<1>2. HomesForward(MoveTo(a, t)) /\ CountsFromTop(MoveTo(a, t))
  BY DEF MoveTo, HomesForward, CountsFromTop, AxisType
<1>3. HomesForward(MotorStop(a)) /\ CountsFromTop(MotorStop(a))
  BY DEF MotorStop, HomesForward, CountsFromTop, AxisType
<1> QED
  BY <1>1, <1>2, <1>3

\* axis_cal forward starts a homing that homes forward.
LEMMA CalHomes ==
  ASSUME NEW s, NEW lo, NEW hi, NEW a \in AxisType(s, lo, hi)
  PROVE  HomesForward(Cal(a, "FWD")) /\ CountsFromTop(Cal(a, "FWD"))
BY DEF Cal, HomesForward, CountsFromTop, AxisType

-----------------------------------------------------------------------------
(* The functions of axis.c on the lid and on the lift.                      *)

\* What the oven control calls on the lid leaves a well-formed lid.
LEMMA LidCalls ==
  ASSUME NEW a \in LidType
  PROVE  /\ \A e \in BOOLEAN : Worker(a, e) \in LidType
         /\ \A d \in {"FWD", "BWD"} : Move(a, d) \in LidType
         /\ Cal(a, "BWD") \in LidType
         /\ MotorStop(a) \in LidType
         /\ Advance(a, 1) \in LidType
         /\ LidSpan > 0 /\ a.loc = 0 => [a EXCEPT !.loc = 1, !.pos = @ + 1] \in LidType
<1> USE OvenAssumption DEF LidType
<1>1. \A e \in BOOLEAN : Worker(a, e) \in LidType
  BY WorkerType
<1>2. \A d \in {"FWD", "BWD"} : Move(a, d) \in LidType
  BY MoveType
<1>3. Cal(a, "BWD") \in LidType /\ MotorStop(a) \in LidType
  BY CalType, StopType
<1>4. Advance(a, 1) \in LidType
  BY AdvanceType
<1>5. ASSUME a.loc = 0
      PROVE  [a EXCEPT !.loc = 1, !.pos = @ + 1] \in LidType
  <2>1. 1 \in 0 .. LidSpan /\ a.pos + 1 \in Int
    BY DEF AxisType
  <2> QED
    BY <2>1 DEF AxisType
<1> QED
  BY <1>1, <1>2, <1>3, <1>4, <1>5

\* What the oven control calls on the lift leaves a well-formed lift.
LEMMA LiftCalls ==
  ASSUME NEW a \in LiftType
  PROVE  /\ \A e \in BOOLEAN : Worker(a, e) \in LiftType
         /\ \A d \in {"FWD", "BWD"} : Move(a, d) \in LiftType
         /\ \A t \in Int : MoveTo(a, t) \in LiftType
         /\ Cal(a, "FWD") \in LiftType
         /\ MotorStop(a) \in LiftType
         /\ Advance(a, LiftStride) \in LiftType
<1> USE OvenAssumption DEF LiftType
<1>1. \A e \in BOOLEAN : Worker(a, e) \in LiftType
  BY WorkerType
<1>2. \A d \in {"FWD", "BWD"} : Move(a, d) \in LiftType
  BY MoveType
<1>3. \A t \in Int : MoveTo(a, t) \in LiftType
  BY MoveToType
<1>4. Cal(a, "FWD") \in LiftType /\ MotorStop(a) \in LiftType
  BY CalType, StopType
<1>5. Advance(a, LiftStride) \in LiftType
  BY AdvanceType
<1> QED
  BY <1>1, <1>2, <1>3, <1>4, <1>5

\* The profile entries the sequence reads are entries of the array.
LEMMA ProfileEntries ==
  ASSUME NEW i \in 0 .. TotalDatapoints + 1
  PROVE  Points[i].time \in Nat /\ Points[i].temperature \in Int
BY OvenAssumption

\* The interpolation of a step divides by its duration, which is not zero when a
\* step follows, and gives an integer.
LEMMA InterpolationType ==
  ASSUME TypeOK, NEW left \in Nat
  PROVE  InterpolatedTarget(left) \in Int
<1>1. target \in Int /\ galden \in Int /\ index \in 0 .. TotalDatapoints
  BY OvenAssumption DEF TypeOK
<1>2. CASE ~NextStep
  BY <1>2 DEF InterpolatedTarget
<1>3. CASE NextStep
  <2>1. index \in 0 .. TotalDatapoints /\ index + 1 \in 0 .. TotalDatapoints + 1
    BY <1>1, OvenAssumption
  <2>2. Points[index].time \in Nat \ {0}
    BY <1>3, <2>1, ProfileEntries, OvenAssumption DEF NextStep
  <2>3. Points[index].temperature \in Int /\ Points[index + 1].temperature \in Int
    BY <1>1, <2>1, ProfileEntries, OvenAssumption
  <2>4. Interpolation(left) \in Int
    <3> DEFINE dx == Points[index].time
               y0 == Points[index].temperature
               dy == Points[index + 1].temperature - Points[index].temperature
    <3>1. dx \in Nat \ {0} /\ y0 \in Int /\ dy \in Int
      BY <2>2, <2>3
    <3>2. (dx - left) * dy \in Int
      BY <3>1
    <3> HIDE DEF dx, y0, dy
    <3>3. y0 + (((dx - left) * dy) \div dx) \in Int
      BY <3>1, <3>2
    <3> QED
      BY <3>3 DEF Interpolation, dx, y0, dy
  <2> QED
    BY <1>1, <2>4 DEF InterpolatedTarget
<1> QED
  BY <1>2, <1>3

-----------------------------------------------------------------------------
(* Type correctness, call by call of the main loop.                         *)

\* What an abort leaves is well-formed.
LEMMA AbortType ==
  ASSUME TypeOK, SeqAbort
  PROVE  lift' \in LiftType /\ heater' \in BOOLEAN /\ regulating' \in BOOLEAN
         /\ seq' \in SeqStates
<1>1. lift \in LiftType
  BY DEF TypeOK
<1>2. MotorStop(lift) \in LiftType
  BY <1>1, LiftCalls
<1>3. MoveTo(MotorStop(lift), 0) \in LiftType
  BY <1>2, LiftCalls
<1> QED
  BY <1>3 DEF TypeOK, SeqAbort, RaiseLift, SeqStates

\* systime_worker keeps the types.
LEMMA SystimeType == TypeOK /\ Systime => TypeOK'
<1> SUFFICES ASSUME TypeOK, Systime PROVE TypeOK'
  OBVIOUS
<1> USE DEF Goto, Stages, axisVars, lidVars, seqVars, regVars, heatVars, stateVars, testVars
<1>1. CASE NoSecond
  BY <1>1 DEF NoSecond, TypeOK
<1>2. CASE HeaterSecond
  <2>1. watchdog' \in 0 .. WatchdogSeconds
    BY <1>2, OvenAssumption DEF HeaterSecond, TypeOK
  <2>2. heater' \in BOOLEAN /\ faulty' \in BOOLEAN
    BY <1>2, ZenonT(30) DEF HeaterSecond, TypeOK
  <2>3. stage' \in Stages
    BY <1>2 DEF HeaterSecond
  <2> QED
    BY <1>2, <2>1, <2>2, <2>3 DEF HeaterSecond, TypeOK
<1>3. CASE SeqSecond
  <2>1. step_time' \in Nat /\ target' \in Int
    <3>1. CASE Counting
      <4>1. step_time - 1 \in Nat
        BY <3>1 DEF Counting, TypeOK
      <4> QED
        BY <1>3, <3>1, <4>1, InterpolationType DEF SeqSecond
    <3>2. CASE ~Counting
      BY <1>3, <3>2 DEF SeqSecond, TypeOK
    <3> QED
      BY <3>1, <3>2
  <2>2. lift' \in LiftType /\ heater' \in BOOLEAN /\ regulating' \in BOOLEAN
        /\ seq' \in SeqStates
    BY <1>3, AbortType DEF SeqSecond, TypeOK
  <2> QED
    BY <1>3, <2>1, <2>2 DEF SeqSecond, TypeOK
<1>4. CASE RegulatorCompute
  <2>1. -Far \in Int /\ LiftMax \in Int
    BY AxisAssumption, OvenAssumption
  <2>2. lift' \in LiftType
    BY <1>4, <2>1, LiftCalls DEF RegulatorCompute, TypeOK
  <2> QED
    BY <1>4, <2>2 DEF RegulatorCompute, TypeOK
<1>5. CASE NoRegulatorCompute
  BY <1>5 DEF NoRegulatorCompute, TypeOK
<1> QED
  BY <1>1, <1>2, <1>3, <1>4, <1>5 DEF Systime

\* The workers of the axes and of the heater, and the lift's first travel, keep
\* the types.
LEMMA WorkersType ==
  TypeOK /\ (AxisWorkers \/ HeaterWorker \/ NoSensorCycle \/ LiftFlag) => TypeOK'
<1> SUFFICES ASSUME TypeOK, AxisWorkers \/ HeaterWorker \/ NoSensorCycle \/ LiftFlag
             PROVE  TypeOK'
  OBVIOUS
<1> USE DEF Goto, Stages, axisVars, lidVars, seqVars, regVars, heatVars, stateVars, testVars
<1>1. CASE AxisWorkers
  <2>1. PICK e1, e2 \in BOOLEAN : AxisLook(e1, e2)
    BY <1>1 DEF AxisWorkers
  <2>2. lid' \in LidType /\ lift' \in LiftType
    BY <2>1, LidCalls, LiftCalls DEF AxisLook, TypeOK
  <2> QED
    BY <2>1, <2>2 DEF AxisLook, TypeOK
<1>2. CASE HeaterWorker
  BY <1>2, OvenAssumption DEF HeaterWorker, TypeOK
<1>3. CASE NoSensorCycle
  BY <1>3 DEF NoSensorCycle, TypeOK
<1>4. CASE LiftFlag
  <2>1. lift' \in LiftType
    BY <1>4, OvenAssumption, LiftCalls DEF LiftFlag, TypeOK
  <2> QED
    BY ZenonT(40), <1>4, <2>1 DEF LiftFlag, TypeOK
<1> QED
  BY <1>1, <1>2, <1>3, <1>4

\* lid_control_worker keeps the types.
LEMMA LidControlType == TypeOK /\ LidControlWorker => TypeOK'
<1> SUFFICES ASSUME TypeOK, LidControlWorker PROVE TypeOK'
  OBVIOUS
<1>1. lid' \in LidType
  BY LidCalls DEF LidControlWorker, OpeningDue, TypeOK
<1>2. prepare' \in BOOLEAN
  BY DEF LidControlWorker, OpeningDue, TypeOK
<1>3. temp_met' \in BOOLEAN
  BY DEF LidControlWorker, OpeningDue, TemperatureMet
<1> QED
  BY <1>1, <1>2, <1>3 DEF LidControlWorker, OpeningDue, TypeOK, Goto, Stages, seqVars, regVars,
                          heatVars, stateVars, testVars

\* seq_worker keeps the types.
LEMMA SeqType == TypeOK /\ SeqWorker => TypeOK'
<1> SUFFICES ASSUME TypeOK, SeqWorker PROVE TypeOK'
  OBVIOUS
<1> USE DEF Goto, Stages, SeqStates, axisVars, lidVars, seqVars, regVars, heatVars,
            stateVars, testVars, SeqFrame
<1>0. ASSUME NEW i \in 0 .. TotalDatapoints, UpdateRegulator(i)
      PROVE  step_time' \in Nat /\ target' \in Int
  BY <1>0, ProfileEntries, OvenAssumption DEF UpdateRegulator, TypeOK
<1>1. CASE SeqPrepare
  <2>1. lift' \in LiftType
    BY <1>1, LiftCalls, OvenAssumption DEF SeqPrepare, HeaterEnable, TypeOK
  <2>2. target' \in Int
    BY <1>1, ProfileEntries, OvenAssumption DEF SeqPrepare, HeaterEnable, TypeOK
  <2> QED
    BY <1>1, <2>1, <2>2 DEF SeqPrepare, HeaterEnable, TypeOK
<1>2. CASE SeqRefused
  BY <1>2 DEF SeqRefused, TypeOK
<1>3. CASE SeqVapourReady
  BY <1>3 DEF SeqVapourReady, TypeOK
<1>4. CASE SeqPreHeated
  <2>1. step_time' \in Nat /\ target' \in Int
    BY <1>4, <1>0 DEF SeqPreHeated, TypeOK
  <2> QED
    BY <1>4, <2>1 DEF SeqPreHeated, TypeOK
<1>5. CASE SeqNextStep
  <2>1. index + 1 \in 0 .. TotalDatapoints
    BY <1>5, OvenAssumption DEF SeqNextStep, NextStep, TypeOK
  <2>2. step_time' \in Nat /\ target' \in Int
    BY <1>5, <2>1, <1>0 DEF SeqNextStep
  <2>3. heater' \in BOOLEAN
    BY <1>5 DEF SeqNextStep, ControlHeater, HeaterEnable
  <2> QED
    BY <1>5, <2>1, <2>2, <2>3 DEF SeqNextStep, TypeOK
<1>6. CASE SeqStartCoolDown
  BY <1>6, OvenAssumption DEF SeqStartCoolDown, TypeOK
<1>7. CASE SeqCooled
  <2>1. lift' \in LiftType
    BY <1>7, LiftCalls, OvenAssumption DEF SeqCooled, RaiseLift, TypeOK
  <2> QED
    BY <1>7, <2>1 DEF SeqCooled, RaiseLift, TypeOK
<1>8. CASE SeqDone
  BY <1>8 DEF SeqDone, TypeOK
<1>9. CASE SeqWait
  BY <1>9 DEF SeqWait, TypeOK
<1> QED
  BY <1>1, <1>2, <1>3, <1>4, <1>5, <1>6, <1>7, <1>8, <1>9 DEF SeqWorker

\* State_Worker keeps the types.
LEMMA StateType == TypeOK /\ StateWorker => TypeOK'
<1> SUFFICES ASSUME TypeOK, StateWorker PROVE TypeOK'
  OBVIOUS
<1> USE DEF Goto, Stages, axisVars, lidVars, seqVars, regVars, heatVars, testVars, ErrorLatch
<1>1. CASE StateBooted
  BY <1>1 DEF StateBooted, TypeOK
<1>2. CASE StateBooting
  <2>1. BootCalibration.lid \in LidType /\ BootCalibration.lift \in LiftType
        /\ BootCalibration.flag \in BOOLEAN
    BY LidCalls, LiftCalls DEF BootCalibration, TypeOK
  <2>2. MoveTo(BootCalibration.lift, LidOpenPosition) \in LiftType
    BY <2>1, LiftCalls, OvenAssumption
  <2>3. /\ lid' \in LidType /\ lift' \in LiftType
        /\ liftflag' \in BOOLEAN /\ booted' \in BOOLEAN
    <3> HIDE DEF BootCalibration
    <3> QED BY <1>2, <2>1, <2>2 DEF StateBooting, LiftBootReady, LidClosedWith
  <2> QED
    BY <1>2, <2>3 DEF StateBooting, TypeOK
<1> QED
  BY <1>1, <1>2 DEF StateWorker

\* selftest_worker keeps the types.
LEMMA SelftestType == TypeOK /\ SelftestWorker => TypeOK'
<1> SUFFICES ASSUME TypeOK, SelftestWorker PROVE TypeOK'
  OBVIOUS
<1> USE DEF Goto, TestGoto, TestFrame, Stages, Selftests, axisVars, lidVars, seqVars,
            regVars, heatVars, stateVars, testVars
<1>1. CASE TestLidDone
  BY <1>1, LidCalls, LiftCalls DEF TestLidDone, TypeOK
<1>2. CASE TestLidCalibrated
  BY <1>2 DEF TestLidCalibrated, TypeOK
<1>3. CASE TestLidUp
  <2>0. lid \in LidType /\ lift \in LiftType /\ 0 \in Int
    BY DEF TypeOK
  <2>1. MoveTo(lift, 0) \in LiftType /\ Move(lid, "FWD") \in LidType
    BY <2>0, LidCalls, LiftCalls
  <2>2. lift' \in LiftType
    BY <1>3, <2>1 DEF TestLidUp, TypeOK
  <2>3. lid' \in LidType
    BY <1>3, <2>1 DEF TestLidUp, TypeOK
  <2> QED
    BY <1>3, <2>2, <2>3 DEF TestLidUp, TypeOK
<1>4. CASE TestLidIsUp
  BY <1>4 DEF TestLidIsUp, TypeOK
<1>5. CASE TestLidDown
  BY <1>5, LidCalls DEF TestLidDown, TypeOK
<1>6. CASE TestLiftCalibrated
  BY <1>6, LiftCalls DEF TestLiftCalibrated, TypeOK
<1>7. CASE TestLiftIsDown
  BY <1>7, LiftCalls DEF TestLiftIsDown, TypeOK
<1>8. CASE TestLiftIsUp
  BY <1>8 DEF TestLiftIsUp, TypeOK
<1>9. CASE TestFans
  BY <1>9 DEF TestFans, TypeOK
<1>10. CASE TestHeaterOn
  BY <1>10 DEF TestHeaterOn, HeaterEnable, TypeOK
<1>11. CASE TestHeaterOff
  BY <1>11 DEF TestHeaterOff, TypeOK
<1>12. CASE TestCooled
  BY <1>12 DEF TestCooled, TypeOK
<1>13. CASE TestWait
  BY <1>13 DEF TestWait, TypeOK
<1> QED
  BY <1>1, <1>2, <1>3, <1>4, <1>5, <1>6, <1>7, <1>8, <1>9, <1>10, <1>11, <1>12, <1>13
     DEF SelftestWorker

\* Packet_Worker keeps the types.
LEMMA PacketType == TypeOK /\ PacketWorker => TypeOK'
<1> SUFFICES ASSUME TypeOK, PacketWorker PROVE TypeOK'
  OBVIOUS
<1> USE DEF Goto, Received, Stages, axisVars, lidVars, seqVars, regVars, heatVars,
            stateVars, testVars
<1>1. CASE ReflowOn
  BY <1>1, OvenAssumption DEF ReflowOn, SeqStates, TypeOK
<1>2. CASE ReflowOff
  <2>1. lift' \in LiftType /\ heater' \in BOOLEAN /\ regulating' \in BOOLEAN
        /\ seq' \in SeqStates
    BY <1>2, AbortType DEF ReflowOff, TypeOK
  <2> QED
    BY <1>2, <2>1 DEF ReflowOff, TypeOK
<1>3. CASE LidOpen
  <2>1. lift' \in LiftType
    BY <1>3, LiftCalls, OvenAssumption DEF LidOpen, TypeOK
  <2> QED
    BY <1>3, <2>1 DEF LidOpen, TypeOK
<1>4. CASE LidClose
  BY <1>4, LidCalls DEF LidClose, TypeOK
<1>5. CASE SetLidMode
  BY <1>5 DEF SetLidMode, TypeOK
<1>6. CASE StartSelftest
  <2>1. lid' \in LidType
    BY <1>6, LidCalls DEF StartSelftest, TypeOK
  <2>2. selftest' \in Selftests
    BY <1>6 DEF StartSelftest, Selftests, TypeOK
  <2> QED
    BY <1>6, <2>1, <2>2 DEF StartSelftest, TypeOK
<1>7. CASE NoPacket
  BY <1>7 DEF NoPacket, TypeOK
<1> QED
  BY <1>1, <1>2, <1>3, <1>4, <1>5, <1>6, <1>7 DEF PacketWorker

\* The machine keeps the types.
LEMMA MachineType == TypeOK /\ (LidMotion \/ LiftMotion \/ LidLifted) => TypeOK'
<1> SUFFICES ASSUME TypeOK, LidMotion \/ LiftMotion \/ LidLifted PROVE TypeOK'
  OBVIOUS
<1> USE DEF lidVars, seqVars, regVars, heatVars, stateVars, testVars
<1>1. CASE LidMotion
  BY <1>1, LidCalls DEF LidMotion, TypeOK
<1>2. CASE LiftMotion
  BY <1>2, LiftCalls DEF LiftMotion, TypeOK
<1>3. CASE LidLifted
  <2>1. LidSpan > 0 /\ lid.loc = 0 /\ lid \in LidType
    BY <1>3, OvenAssumption DEF LidLifted, TypeOK
  <2>2. [lid EXCEPT !.loc = 1, !.pos = @ + 1] \in LidType
    BY <2>1, LidCalls
  <2> QED
    BY <1>3, <2>2 DEF LidLifted, TypeOK
<1> QED
  BY <1>1, <1>2, <1>3

\* Every variable keeps its type, whatever the display asks for and whatever goes
\* wrong.
THEOREM TypeCorrect == Spec => []TypeOK
<1>1. Init => TypeOK
  <2> SUFFICES ASSUME Init PROVE TypeOK
    OBVIOUS
  <2>1. PICK l \in 0 .. LidSpan : lid = AxisInit(LidSpan, -Far, Far, l)
    BY DEF Init
  <2>2. PICK p \in 0 .. LiftSpan : lift = AxisInit(LiftSpan, -Far, LiftMax, p)
    BY DEF Init
  <2>3. -Far \in Int /\ Far \in Int /\ LiftMax \in Int
        /\ LidSpan \in Nat \ {0} /\ LiftSpan \in Nat \ {0}
    BY AxisAssumption, OvenAssumption
  <2>4. lid \in LidType
    BY <2>1, <2>3, InitType DEF LidType
  <2>5. lift \in LiftType
    BY <2>2, <2>3, InitType DEF LiftType
  <2>6. /\ watchdog \in 0 .. WatchdogSeconds /\ index \in 0 .. TotalDatapoints
        /\ step_time \in Nat /\ target \in Int
    BY OvenAssumption DEF Init
  <2>7. /\ stage \in Stages /\ lid_mode \in LidModes /\ seq \in SeqStates
        /\ selftest \in Selftests
    BY DEF Init, Stages, LidModes, SeqStates, Selftests
  <2> QED
    BY <2>4, <2>5, <2>6, <2>7 DEF Init, TypeOK
<1>2. TypeOK /\ [Next]_vars => TypeOK'
  <2> SUFFICES ASSUME TypeOK, [Next]_vars PROVE TypeOK'
    OBVIOUS
  <2>1. CASE UNCHANGED vars
    BY <2>1 DEF vars, axisVars, lidVars, seqVars, regVars, heatVars, stateVars, testVars,
                TypeOK
  <2> QED
    BY <2>1, SystimeType, WorkersType, LidControlType, SeqType, StateType, SelftestType,
       PacketType, MachineType DEF Next, MainLoop
<1> QED
  BY <1>1, <1>2, PTL DEF Spec

-----------------------------------------------------------------------------
(* The heater.                                                              *)

\* systime_worker and the workers before the sequence power no heater.
LEMMA HeaterEarly ==
  HeaterGuarded /\ (\/ Systime \/ AxisWorkers \/ HeaterWorker \/ NoSensorCycle \/ LiftFlag
                \/ LidControlWorker)
    => HeaterGuarded'
<1> SUFFICES ASSUME HeaterGuarded,
                    \/ Systime \/ AxisWorkers \/ HeaterWorker \/ NoSensorCycle
                    \/ LiftFlag \/ LidControlWorker
             PROVE  HeaterGuarded'
  OBVIOUS
<1> USE DEF HeaterGuarded, HeaterOnlyInUse, HeaterOffOnFault, seqVars, heatVars, testVars
<1>1. CASE HeaterSecond
  BY <1>1 DEF HeaterSecond
<1>2. CASE SeqSecond
  <2>1. faulty' = faulty /\ selftest' = selftest
    BY <1>2 DEF SeqSecond
  <2>2. \/ heater' = heater /\ seq' = seq
        \/ heater' = FALSE
    BY <1>2 DEF SeqSecond, SeqAbort
  <2> QED
    BY <2>1, <2>2
<1>3. CASE HeaterWorker
  BY <1>3 DEF HeaterWorker
<1>4. CASE NoSecond \/ RegulatorCompute \/ NoRegulatorCompute \/ NoSensorCycle
  BY <1>4 DEF NoSecond, RegulatorCompute, NoRegulatorCompute, NoSensorCycle
<1>5. CASE AxisWorkers \/ LiftFlag \/ LidControlWorker
  <2>1. UNCHANGED <<seq, heater, faulty, selftest>>
    BY <1>5 DEF AxisWorkers, AxisLook, LiftFlag, LidControlWorker
  <2> QED
    BY <2>1
<1> QED
  BY <1>1, <1>2, <1>3, <1>4, <1>5 DEF Systime

\* The sequence powers the heater only on its way into the heating states and
\* only without a fault.
LEMMA HeaterSeq == HeaterGuarded /\ SeqWorker => HeaterGuarded'
<1> SUFFICES ASSUME HeaterGuarded, SeqWorker PROVE HeaterGuarded'
  OBVIOUS
<1> USE DEF HeaterGuarded, HeaterOnlyInUse, HeaterOffOnFault, Heating, SeqFrame, seqVars,
            heatVars, testVars
<1>1. CASE SeqPrepare
  BY <1>1 DEF SeqPrepare, HeaterEnable
<1>2. CASE SeqRefused
  BY <1>2 DEF SeqRefused
<1>3. CASE SeqVapourReady \/ SeqPreHeated
  BY <1>3 DEF SeqVapourReady, SeqPreHeated
<1>4. CASE SeqNextStep
  BY <1>4 DEF SeqNextStep, ControlHeater, HeaterEnable
<1>5. CASE SeqStartCoolDown \/ SeqCooled
  BY <1>5 DEF SeqStartCoolDown, SeqCooled
<1>6. CASE SeqDone \/ SeqWait
  BY <1>6 DEF SeqDone, SeqWait
<1> QED
  BY <1>1, <1>2, <1>3, <1>4, <1>5, <1>6 DEF SeqWorker

\* The selftest powers the heater only to heat up and only without a fault.
LEMMA HeaterTest == HeaterGuarded /\ SelftestWorker => HeaterGuarded'
<1> SUFFICES ASSUME HeaterGuarded, SelftestWorker PROVE HeaterGuarded'
  OBVIOUS
<1> USE DEF HeaterGuarded, HeaterOnlyInUse, HeaterOffOnFault, TestGoto, TestFrame, seqVars,
            heatVars, testVars
<1>1. CASE TestHeaterOn \/ TestHeaterOff
  <2>1. faulty' = faulty /\ seq' = seq
    BY <1>1 DEF TestHeaterOn, TestHeaterOff
  <2>2. \/ heater' = ~faulty /\ selftest' = "HEAT_UP"
        \/ heater' = FALSE
    BY <1>1 DEF TestHeaterOn, TestHeaterOff, HeaterEnable
  <2> QED
    BY <2>1, <2>2
<1>2. CASE TestLidDone \/ TestLidCalibrated \/ TestLidUp \/ TestLidIsUp \/ TestLidDown
  BY <1>2 DEF TestLidDone, InLidTest, TestLidCalibrated, TestLidUp, TestLidIsUp, TestLidDown
<1>3. CASE TestLiftCalibrated \/ TestLiftIsDown \/ TestLiftIsUp \/ TestFans
  BY <1>3 DEF TestLiftCalibrated, TestLiftIsDown, TestLiftIsUp, TestFans
<1>4. CASE TestCooled \/ TestWait
  BY <1>4 DEF TestCooled, TestWait
<1> QED
  BY <1>1, <1>2, <1>3, <1>4 DEF SelftestWorker

\* No command and no motion powers the heater.
LEMMA HeaterLate ==
  HeaterGuarded /\ (StateWorker \/ PacketWorker \/ LidMotion \/ LiftMotion \/ LidLifted)
    => HeaterGuarded'
<1> SUFFICES ASSUME HeaterGuarded,
                    StateWorker \/ PacketWorker \/ LidMotion \/ LiftMotion \/ LidLifted
             PROVE  HeaterGuarded'
  OBVIOUS
<1> USE DEF HeaterGuarded, HeaterOnlyInUse, HeaterOffOnFault, seqVars, heatVars, testVars
<1>1. CASE StateWorker
  BY <1>1 DEF StateWorker, StateBooted, StateBooting
<1>2. CASE ReflowOn
  BY <1>2 DEF ReflowOn, CanStartReflow, BaseStartCondition, Heating
<1>3. CASE ReflowOff
  <2>1. faulty' = faulty /\ selftest' = selftest
    BY <1>3 DEF ReflowOff
  <2>2. \/ heater' = heater /\ seq' = seq
        \/ heater' = FALSE
    BY <1>3 DEF ReflowOff, SeqAbort
  <2> QED
    BY <2>1, <2>2
<1>4. CASE LidOpen \/ LidClose \/ SetLidMode \/ NoPacket
  BY <1>4 DEF LidOpen, LidClose, SetLidMode, NoPacket
<1>5. CASE StartSelftest
  BY <1>5 DEF StartSelftest, CanStartSelftest, BaseStartCondition
<1>6. CASE LidMotion \/ LiftMotion \/ LidLifted
  BY <1>6 DEF LidMotion, LiftMotion, LidLifted
<1> QED
  BY <1>1, <1>2, <1>3, <1>4, <1>5, <1>6 DEF PacketWorker

\* The heater is powered only while a reflow heats or the selftest heats up, and
\* never with a fault flag, for every profile and every sequence of faults and
\* commands.
THEOREM HeaterSafe == Spec => []HeaterGuarded
<1>1. Init => HeaterGuarded
  BY DEF Init, HeaterGuarded, HeaterOnlyInUse, HeaterOffOnFault
<1>2. HeaterGuarded /\ [Next]_vars => HeaterGuarded'
  <2> SUFFICES ASSUME HeaterGuarded, [Next]_vars PROVE HeaterGuarded'
    OBVIOUS
  <2>1. CASE UNCHANGED vars
    BY <2>1 DEF HeaterGuarded, HeaterOnlyInUse, HeaterOffOnFault, vars, seqVars, heatVars, testVars
  <2> QED
    BY <2>1, HeaterEarly, HeaterSeq, HeaterTest, HeaterLate DEF Next, MainLoop
<1> QED
  BY <1>1, <1>2, PTL DEF Spec

-----------------------------------------------------------------------------
(* Reflow and selftest.                                                     *)

\* A reflow starts only from the idle sequence of a booted oven without a
\* selftest, a selftest only without a reflow.
LEMMA ExclusionStep == ReflowExcludesSelftest /\ [Next]_vars => ReflowExcludesSelftest'
<1> SUFFICES ASSUME ReflowExcludesSelftest, [Next]_vars PROVE ReflowExcludesSelftest'
  OBVIOUS
<1> USE DEF ReflowExcludesSelftest, seqVars, stateVars, testVars
<1>1. CASE UNCHANGED vars
  BY <1>1 DEF vars
<1>2. CASE Systime
  <2>1. booted' = booted /\ selftest' = selftest
    BY <1>2 DEF Systime, NoSecond, HeaterSecond, SeqSecond, RegulatorCompute, NoRegulatorCompute
  <2>2. seq' = seq \/ seq # "IDLE"
    BY <1>2 DEF Systime, NoSecond, HeaterSecond, SeqSecond, SeqAbort, CanAbort,
                RegulatorCompute, NoRegulatorCompute
  <2> QED
    BY <2>1, <2>2
<1>3. CASE AxisWorkers \/ HeaterWorker \/ NoSensorCycle \/ LiftFlag \/ LidControlWorker
  BY <1>3 DEF AxisWorkers, AxisLook, HeaterWorker, NoSensorCycle, LiftFlag, LidControlWorker
<1>4. CASE SeqWorker
  <2>1. booted' = booted /\ selftest' = selftest
    BY <1>4 DEF SeqWorker, SeqPrepare, SeqRefused, SeqVapourReady, SeqPreHeated, SeqNextStep,
                SeqStartCoolDown, SeqCooled, SeqDone, SeqWait, SeqFrame
  <2>2. seq' = seq \/ seq # "IDLE"
    BY <1>4 DEF SeqWorker, SeqPrepare, SeqRefused, SeqVapourReady, SeqPreHeated, SeqNextStep,
                SeqStartCoolDown, SeqCooled, SeqDone, SeqWait, SeqFrame
  <2> QED
    BY <2>1, <2>2
<1>5. CASE StateWorker
  BY <1>5 DEF StateWorker, StateBooted, StateBooting
<1>6. CASE SelftestWorker
  <2>1. booted' = booted /\ seq' = seq
    BY <1>6 DEF SelftestWorker, TestLidDone, TestLidCalibrated, TestLidUp, TestLidIsUp,
                TestLidDown, TestLiftCalibrated, TestLiftIsDown, TestLiftIsUp, TestFans,
                TestHeaterOn, TestHeaterOff, TestCooled, TestWait, TestFrame
  <2>2. selftest' = selftest \/ selftest # "STOPPED"
    BY <1>6 DEF SelftestWorker, TestLidDone, InLidTest, TestLidCalibrated, TestLidUp,
                TestLidIsUp, TestLidDown, TestLiftCalibrated, TestLiftIsDown, TestLiftIsUp,
                TestFans, TestHeaterOn, TestHeaterOff, TestCooled, TestWait, TestGoto
  <2> QED
    BY <2>1, <2>2
<1>7. CASE ReflowOn
  BY <1>7 DEF ReflowOn, CanStartReflow, BaseStartCondition
<1>8. CASE StartSelftest
  BY <1>8 DEF StartSelftest, CanStartSelftest, BaseStartCondition
<1>9. CASE ReflowOff
  <2>1. booted' = booted /\ selftest' = selftest /\ (seq' = seq \/ seq # "IDLE")
    BY <1>9 DEF ReflowOff, SeqAbort, CanAbort
  <2> QED
    BY <2>1
<1>10. CASE LidOpen \/ LidClose \/ SetLidMode \/ NoPacket
  BY <1>10 DEF LidOpen, LidClose, SetLidMode, NoPacket
<1>11. CASE LidMotion \/ LiftMotion \/ LidLifted
  BY <1>11 DEF LidMotion, LiftMotion, LidLifted
<1> QED
  BY <1>1, <1>2, <1>3, <1>4, <1>5, <1>6, <1>7, <1>8, <1>9, <1>10, <1>11
     DEF Next, MainLoop, PacketWorker

\* Reflow and selftest never overlap and neither precedes the homing of boot.
THEOREM Exclusion == Spec => []ReflowExcludesSelftest
<1>1. Init => ReflowExcludesSelftest
  BY DEF Init, ReflowExcludesSelftest
<1> QED
  BY <1>1, ExclusionStep, PTL DEF Spec

-----------------------------------------------------------------------------
(* The conditions of a reflow.                                              *)

\* What the reflow conditions look at.
reflowVars == <<lid, lift, prepare, seq, regulating>>

\* A step that leaves all that alone keeps the conditions.
LEMMA ReflowStutter == ReflowGuarded /\ UNCHANGED reflowVars => ReflowGuarded'
BY DEF ReflowGuarded, LidNotOpenedInReflow, RegulatorOnlyInReflow, CalibratedInReflow, reflowVars

\* An abort ends the reflow and its regulation and lets the lid be.
LEMMA AbortReflow ==
  ASSUME TypeOK, ReflowGuarded, SeqAbort, UNCHANGED <<lid, prepare>>
  PROVE  ReflowGuarded'
<1> USE DEF ReflowGuarded, LidNotOpenedInReflow, RegulatorOnlyInReflow, CalibratedInReflow,
            Reflowing, Heating
<1>1. CASE CanAbort
  BY <1>1 DEF SeqAbort, CanAbort, RaiseLift
<1>2. CASE ~CanAbort
  BY <1>2 DEF SeqAbort
<1> QED
  BY <1>1, <1>2

\* A lift told to move keeps its homing, so only the rest can break the conditions.
LEMMA ReflowLiftMoves ==
  ASSUME ReflowGuarded, UNCHANGED <<lid, prepare, seq, regulating>>,
         lift.cal_done => lift'.cal_done
  PROVE  ReflowGuarded'
BY DEF ReflowGuarded, LidNotOpenedInReflow, RegulatorOnlyInReflow, CalibratedInReflow

\* systime_worker and the axes keep the conditions of a reflow.
LEMMA ReflowEarly ==
  TypeOK /\ ReflowGuarded /\ (Systime \/ AxisWorkers \/ HeaterWorker \/ NoSensorCycle
                          \/ LiftFlag \/ LidControlWorker)
    => ReflowGuarded'
<1> SUFFICES ASSUME TypeOK, ReflowGuarded,
                    \/ Systime \/ AxisWorkers \/ HeaterWorker \/ NoSensorCycle
                    \/ LiftFlag \/ LidControlWorker
             PROVE  ReflowGuarded'
  OBVIOUS
<1>0. lid \in LidType /\ lift \in LiftType
  BY DEF TypeOK
<1>1. CASE NoSecond \/ HeaterSecond \/ NoRegulatorCompute \/ HeaterWorker \/ NoSensorCycle
  <2>1. UNCHANGED reflowVars
    BY <1>1 DEF NoSecond, HeaterSecond, NoRegulatorCompute, HeaterWorker, NoSensorCycle,
                axisVars, lidVars, seqVars, regVars, reflowVars
  <2> QED
    BY <2>1, ReflowStutter
<1>2. CASE SeqSecond
  <2>1. UNCHANGED <<lid, prepare>>
    BY <1>2 DEF SeqSecond, lidVars
  <2>2. SeqAbort \/ UNCHANGED reflowVars
    BY <1>2, <2>1 DEF SeqSecond, reflowVars
  <2> QED
    BY <2>1, <2>2, AbortReflow, ReflowStutter
<1>3. CASE RegulatorCompute
  <2>1. PICK down \in BOOLEAN : lift' = MoveTo(lift, IF down THEN -Far ELSE LiftMax)
    BY <1>3 DEF RegulatorCompute
  <2>2. lift'.cal_done = lift.cal_done
    BY <1>0, <2>1, CommandsKeepMode DEF LiftType
  <2> QED
    BY <1>3, <2>2, ReflowLiftMoves DEF RegulatorCompute, lidVars, seqVars, regVars
<1>4. CASE AxisWorkers
  <2>1. PICK e1, e2 \in BOOLEAN : AxisLook(e1, e2)
    BY <1>4 DEF AxisWorkers
  <2>2. UNCHANGED <<prepare, seq, regulating>>
    BY <2>1 DEF AxisLook, lidVars, seqVars, regVars
  <2>3. lid' = Worker(lid, e1) /\ lift' = Worker(lift, e2)
    BY <2>1 DEF AxisLook
  <2>4. /\ lid.cal_done => lid'.cal_done
        /\ lift.cal_done => lift'.cal_done
        /\ lid.mode = "NORMAL" => lid'.mode = "NORMAL" /\ lid'.dir \in {lid.dir, "NONE"}
    BY <1>0, <2>3, WorkerKeepsHoming, WorkerNormal DEF LidType, LiftType
  <2> QED
    BY <2>2, <2>4 DEF ReflowGuarded, LidNotOpenedInReflow, RegulatorOnlyInReflow, CalibratedInReflow
<1>5. CASE LiftFlag
  <2>1. lift'.cal_done = lift.cal_done
    BY <1>0, <1>5, CommandsKeepMode DEF LiftFlag, LiftType
  <2> QED
    BY <1>5, <2>1, ReflowLiftMoves DEF LiftFlag, lidVars, seqVars, regVars
<1>6. CASE LidControlWorker
  <2>1. UNCHANGED <<seq, lift, regulating>>
    BY <1>6 DEF LidControlWorker, seqVars, regVars
  <2>2. ~prepare => UNCHANGED <<lid, prepare>>
    BY <1>6 DEF LidControlWorker, OpeningDue
  <2>3. lid'.cal_done = lid.cal_done
    BY <1>0, <1>6, CommandsKeepMode DEF LidControlWorker, LidType
  <2> QED
    BY <2>1, <2>2, <2>3
       DEF ReflowGuarded, LidNotOpenedInReflow, RegulatorOnlyInReflow, CalibratedInReflow, Reflowing,
           Heating
<1> QED
  BY <1>1, <1>2, <1>3, <1>4, <1>5, <1>6 DEF Systime

\* The sequence starts to heat on homed axes under a closed lid and lets the
\* regulator go with the reflow.
LEMMA ReflowSeq == TypeOK /\ ReflowGuarded /\ SeqWorker => ReflowGuarded'
<1> SUFFICES ASSUME TypeOK, ReflowGuarded, SeqWorker PROVE ReflowGuarded'
  OBVIOUS
<1> USE DEF ReflowGuarded, LidNotOpenedInReflow, RegulatorOnlyInReflow, CalibratedInReflow,
            Reflowing, Heating, SeqFrame, lidVars, seqVars, regVars
<1>0. lift \in LiftType
  BY DEF TypeOK
<1>1. CASE SeqPrepare
  <2>1. lift'.cal_done = lift.cal_done
    <3>1. MotorStop(lift) \in LiftType
      BY <1>0, LiftCalls
    <3>2. MotorStop(lift).cal_done = lift.cal_done
      BY <1>0, CommandsKeepMode DEF LiftType
    <3>3. MoveTo(MotorStop(lift), LidOpenPosition).cal_done = MotorStop(lift).cal_done
      BY <3>1, CommandsKeepMode DEF LiftType
    <3> QED
      BY <1>1, <3>2, <3>3 DEF SeqPrepare
  <2> QED
    BY <1>1, <2>1 DEF SeqPrepare, SafetyChecks
<1>2. CASE SeqRefused
  BY <1>2 DEF SeqRefused
<1>3. CASE SeqVapourReady \/ SeqPreHeated \/ SeqNextStep
  BY <1>3 DEF SeqVapourReady, SeqPreHeated, SeqNextStep
<1>4. CASE SeqStartCoolDown
  BY <1>4 DEF SeqStartCoolDown
<1>5. CASE SeqCooled
  BY <1>5 DEF SeqCooled, RaiseLift
<1>6. CASE SeqDone
  BY <1>6 DEF SeqDone
<1>7. CASE SeqWait
  BY <1>7 DEF SeqWait, axisVars
<1> QED
  BY <1>1, <1>2, <1>3, <1>4, <1>5, <1>6, <1>7 DEF SeqWorker

\* Boot and selftest, which home the axes, find the sequence idle.
LEMMA ReflowHoming ==
  ReflowExcludesSelftest /\ ReflowGuarded /\ (StateWorker \/ SelftestWorker) => ReflowGuarded'
<1> SUFFICES ASSUME ReflowExcludesSelftest, ReflowGuarded, StateWorker \/ SelftestWorker
             PROVE  ReflowGuarded'
  OBVIOUS
<1>0. UNCHANGED <<prepare, seq, regulating>>
  BY DEF StateWorker, StateBooted, StateBooting, SelftestWorker, TestLidDone,
         TestLidCalibrated, TestLidUp, TestLidIsUp, TestLidDown, TestLiftCalibrated,
         TestLiftIsDown, TestLiftIsUp, TestFans, TestHeaterOn, TestHeaterOff, TestCooled,
         TestWait, TestFrame, lidVars, seqVars, regVars
<1>1. seq = "IDLE" \/ UNCHANGED <<lid, lift>>
  BY DEF StateWorker, StateBooted, StateBooting, SelftestWorker, TestLidDone, InLidTest,
         TestLidCalibrated, TestLidUp, TestLidIsUp, TestLidDown, TestLiftCalibrated,
         TestLiftIsDown, TestLiftIsUp, TestFans, TestHeaterOn, TestHeaterOff, TestCooled,
         TestWait, TestGoto, axisVars, ReflowExcludesSelftest
<1> QED
  BY <1>0, <1>1 DEF ReflowGuarded, LidNotOpenedInReflow, RegulatorOnlyInReflow, CalibratedInReflow,
                    Reflowing, Heating

\* No command opens or homes an axis of a reflow, and neither does a motion.
LEMMA ReflowLate ==
  TypeOK /\ ReflowExcludesSelftest /\ ReflowGuarded
  /\ (PacketWorker \/ LidMotion \/ LiftMotion \/ LidLifted)
    => ReflowGuarded'
<1> SUFFICES ASSUME TypeOK, ReflowExcludesSelftest, ReflowGuarded,
                    PacketWorker \/ LidMotion \/ LiftMotion \/ LidLifted
             PROVE  ReflowGuarded'
  OBVIOUS
<1> USE DEF Reflowing, Heating
<1>0. lid \in LidType /\ lift \in LiftType
  BY DEF TypeOK
<1>1. CASE ReflowOn
  BY <1>1 DEF ReflowOn, CanStartReflow, BaseStartCondition, LidClosed, LidClosedWith, axisVars,
              lidVars, regVars,
              ReflowGuarded, LidNotOpenedInReflow, RegulatorOnlyInReflow, CalibratedInReflow
<1>2. CASE ReflowOff
  <2>1. UNCHANGED <<lid, prepare>>
    BY <1>2 DEF ReflowOff, lidVars
  <2>2. SeqAbort \/ UNCHANGED reflowVars
    BY <1>2, <2>1 DEF ReflowOff, reflowVars
  <2> QED
    BY <2>1, <2>2, AbortReflow, ReflowStutter
<1>3. CASE LidOpen
  <2>1. UNCHANGED <<lid, seq, regulating>> /\ (seq = "IDLE" \/ UNCHANGED <<prepare, lift>>)
    BY <1>3 DEF LidOpen, CanOpenLid, BaseStartCondition, seqVars, regVars
  <2> QED
    BY <2>1 DEF ReflowGuarded, LidNotOpenedInReflow, RegulatorOnlyInReflow, CalibratedInReflow
<1>4. CASE LidClose
  <2>1. UNCHANGED <<lift, prepare, seq, regulating>> /\ lid' \in {lid, Move(lid, "BWD")}
    BY <1>4 DEF LidClose, lidVars, seqVars, regVars
  <2>2. /\ lid'.cal_done = lid.cal_done /\ lid'.mode = lid.mode
        /\ lid'.dir = lid.dir \/ lid'.dir = "BWD"
    BY <1>0, <2>1 DEF Move, LidType, AxisType
  <2> QED
    BY <2>1, <2>2
       DEF ReflowGuarded, LidNotOpenedInReflow, RegulatorOnlyInReflow, CalibratedInReflow
<1>5. CASE SetLidMode \/ NoPacket
  BY <1>5, ReflowStutter DEF SetLidMode, NoPacket, axisVars, lidVars, seqVars, regVars, reflowVars
<1>6. CASE StartSelftest
  <2>1. UNCHANGED <<lift, prepare, seq, regulating>> /\ (seq = "IDLE" \/ UNCHANGED lid)
    BY <1>6 DEF StartSelftest, CanStartSelftest, BaseStartCondition, lidVars, seqVars, regVars
  <2> QED
    BY <2>1 DEF ReflowGuarded, LidNotOpenedInReflow, RegulatorOnlyInReflow, CalibratedInReflow
<1>7. CASE LidMotion \/ LidLifted
  <2>1. UNCHANGED <<lift, prepare, seq, regulating>>
    BY <1>7 DEF LidMotion, LidLifted, lidVars, seqVars, regVars
  <2>2. lid'.mode = lid.mode /\ lid'.dir = lid.dir /\ lid'.cal_done = lid.cal_done
    <3>1. CASE LidMotion
      BY <1>0, <3>1, CommandsKeepMode DEF LidMotion, LidType
    <3>2. CASE LidLifted
      BY <1>0, <3>2 DEF LidLifted, LidType, AxisType
    <3> QED
      BY <1>7, <3>1, <3>2
  <2> QED
    BY <2>1, <2>2
       DEF ReflowGuarded, LidNotOpenedInReflow, RegulatorOnlyInReflow, CalibratedInReflow
<1>8. CASE LiftMotion
  <2>1. lift'.cal_done = lift.cal_done
    BY <1>0, <1>8, CommandsKeepMode DEF LiftMotion, LiftType
  <2> QED
    BY <1>8, <2>1, ReflowLiftMoves DEF LiftMotion, lidVars, seqVars, regVars
<1> QED
  BY <1>1, <1>2, <1>3, <1>4, <1>5, <1>6, <1>7, <1>8 DEF PacketWorker

\* While a reflow runs nothing opens the lid, both axes stay homed, and the
\* regulator moves the lift of no other time.
THEOREM ReflowSafe == Spec => []ReflowGuarded
<1>1. Init => ReflowGuarded
  BY DEF Init, ReflowGuarded, LidNotOpenedInReflow, RegulatorOnlyInReflow, CalibratedInReflow,
         Reflowing, Heating
<1>2. TypeOK /\ ReflowExcludesSelftest /\ ReflowGuarded /\ [Next]_vars => ReflowGuarded'
  <2> SUFFICES ASSUME TypeOK, ReflowExcludesSelftest, ReflowGuarded, [Next]_vars PROVE ReflowGuarded'
    OBVIOUS
  <2>1. CASE UNCHANGED vars
    <3>1. UNCHANGED reflowVars
      BY <2>1 DEF vars, axisVars, lidVars, seqVars, regVars, reflowVars
    <3> QED
      BY <3>1, ReflowStutter
  <2> QED
    BY <2>1, ReflowEarly, ReflowSeq, ReflowHoming, ReflowLate DEF Next, MainLoop
<1> QED
  BY <1>1, <1>2, TypeCorrect, Exclusion, PTL DEF Spec

-----------------------------------------------------------------------------
(* The homing of the lift.                                                  *)

\* What makes the lift's commands safe: they come when the lift is homed, hence in
\* normal mode.
LEMMA HomedIsNormal ==
  ASSUME TypeOK, ReflowExcludesSelftest, RegulatorOnlyInReflow, LiftFindsTop
  PROVE  /\ lift \in LiftType /\ CountsFromTop(lift)
         /\ lift.cal_done => lift.mode = "NORMAL"
         /\ booted /\ selftest # "LIFT_CAL" => lift.cal_done
         /\ seq # "IDLE" => booted /\ selftest = "STOPPED"
         /\ regulating => booted /\ selftest = "STOPPED"
BY DEF TypeOK, ReflowExcludesSelftest, RegulatorOnlyInReflow, Reflowing, Heating, LiftFindsTop,
       LiftHomed, LiftHoming, HomesForward

\* A command to a homed lift keeps it homed.
LEMMA LiftCommand ==
  ASSUME TypeOK, ReflowExcludesSelftest, RegulatorOnlyInReflow, LiftFindsTop, lift.cal_done,
         \/ \E t \in Int : lift' \in {MoveTo(lift, t), MoveTo(MotorStop(lift), t)}
         \/ \E d \in {"FWD", "BWD"} : lift' = Move(lift, d)
  PROVE  lift'.cal_done /\ LiftFindsTop'
<1>1. lift \in LiftType /\ CountsFromTop(lift) /\ lift.mode = "NORMAL"
  BY HomedIsNormal
<1>2. MotorStop(lift) \in LiftType /\ CountsFromTop(MotorStop(lift))
      /\ MotorStop(lift).mode = "NORMAL" /\ MotorStop(lift).cal_done
  BY <1>1, LiftCalls, CommandsHome, CommandsKeepMode DEF LiftType
<1>3. ASSUME NEW a \in LiftType, CountsFromTop(a), a.mode = "NORMAL", a.cal_done, NEW t, NEW d
      PROVE  /\ HomesForward(MoveTo(a, t)) /\ CountsFromTop(MoveTo(a, t)) /\ MoveTo(a, t).cal_done
             /\ HomesForward(Move(a, d)) /\ CountsFromTop(Move(a, d)) /\ Move(a, d).cal_done
  BY <1>3, CommandsHome, CommandsKeepMode DEF LiftType
<1>4. HomesForward(lift') /\ CountsFromTop(lift') /\ lift'.cal_done
  BY <1>1, <1>2, <1>3
<1>5. HomesForward(lift)' /\ CountsFromTop(lift)' /\ lift'.cal_done
  BY <1>4 DEF HomesForward, CountsFromTop
<1> QED
  BY <1>5 DEF LiftFindsTop, LiftHomed, LiftHoming

\* An abort commands a homed lift.
LEMMA AbortLift ==
  ASSUME TypeOK, ReflowExcludesSelftest, RegulatorOnlyInReflow, LiftFindsTop, SeqAbort,
         UNCHANGED <<booted, selftest>>
  PROVE  LiftFindsTop'
<1>1. CASE CanAbort
  <2>1. lift.cal_done
    BY <1>1, HomedIsNormal DEF CanAbort
  <2>2. lift' = MoveTo(MotorStop(lift), 0) /\ 0 \in Int
    BY <1>1 DEF SeqAbort, RaiseLift
  <2>3. \E t \in Int : lift' \in {MoveTo(lift, t), MoveTo(MotorStop(lift), t)}
    BY <2>2
  <2> QED
    BY <2>1, <2>3, LiftCommand
<1>2. CASE ~CanAbort
  BY <1>2 DEF SeqAbort, LiftFindsTop, LiftHomed, LiftHoming, HomesForward, CountsFromTop
<1> QED
  BY <1>1, <1>2

LiftPrecondition == TypeOK /\ ReflowExcludesSelftest /\ RegulatorOnlyInReflow /\ LiftFindsTop

\* What the homing looks at.
liftVars == <<lift, booted, selftest>>

\* A step that leaves all that alone keeps the homing.
LEMMA LiftStutter == LiftFindsTop /\ UNCHANGED liftVars => LiftFindsTop'
BY DEF LiftFindsTop, LiftHomed, LiftHoming, HomesForward, CountsFromTop, liftVars

\* systime_worker, the axes and the sequence move only a homed lift, and homing
\* ends at the top switch.
LEMMA LiftEarly ==
  LiftPrecondition /\ (Systime \/ AxisWorkers \/ HeaterWorker \/ NoSensorCycle \/ LiftFlag
                       \/ LidControlWorker)
    => LiftFindsTop'
<1> SUFFICES ASSUME LiftPrecondition,
                    \/ Systime \/ AxisWorkers \/ HeaterWorker \/ NoSensorCycle
                    \/ LiftFlag \/ LidControlWorker
             PROVE  LiftFindsTop'
  OBVIOUS
<1> USE DEF LiftPrecondition
<1>1. CASE NoSecond \/ HeaterSecond \/ NoRegulatorCompute \/ HeaterWorker \/ NoSensorCycle
           \/ LidControlWorker
  <2>1. UNCHANGED liftVars
    BY <1>1 DEF NoSecond, HeaterSecond, NoRegulatorCompute, HeaterWorker, NoSensorCycle,
                LidControlWorker, axisVars, stateVars, testVars, liftVars
  <2> QED
    BY <2>1, LiftStutter
<1>2. CASE SeqSecond
  <2>1. UNCHANGED <<booted, selftest>>
    BY <1>2 DEF SeqSecond, stateVars, testVars
  <2>2. SeqAbort \/ UNCHANGED liftVars
    BY <1>2, <2>1 DEF SeqSecond, liftVars
  <2> QED
    BY <2>1, <2>2, AbortLift, LiftStutter
<1>3. CASE RegulatorCompute
  <2>1. lift.cal_done
    BY <1>3, HomedIsNormal DEF RegulatorCompute
  <2>2. -Far \in Int /\ LiftMax \in Int
    BY AxisAssumption, OvenAssumption
  <2>3. PICK down \in BOOLEAN : lift' = MoveTo(lift, IF down THEN -Far ELSE LiftMax)
    BY <1>3 DEF RegulatorCompute
  <2>4. \E t \in Int : lift' \in {MoveTo(lift, t), MoveTo(MotorStop(lift), t)}
    BY <2>2, <2>3
  <2> QED
    BY <2>1, <2>4, LiftCommand
<1>4. CASE AxisWorkers
  <2>1. PICK e1, e2 \in BOOLEAN : AxisLook(e1, e2)
    BY <1>4 DEF AxisWorkers
  <2>2. lift' = Worker(lift, e2) /\ UNCHANGED <<booted, selftest>>
    BY <2>1 DEF AxisLook, stateVars
  <2>3. lift \in LiftType /\ HomesForward(lift) /\ CountsFromTop(lift) /\ LiftSpan \in Nat \ {0}
    BY OvenAssumption DEF TypeOK, LiftFindsTop, LiftHomed, LiftHoming
  <2>4. /\ HomesForward(Worker(lift, e2)) /\ CountsFromTop(Worker(lift, e2))
        /\ lift.cal_done => Worker(lift, e2).cal_done
    BY <2>3, WorkerHomes, WorkerKeepsHoming DEF LiftType
  <2>5. HomesForward(lift)' /\ CountsFromTop(lift)'
    BY <2>2, <2>4 DEF HomesForward, CountsFromTop
  <2> QED
    BY <2>2, <2>4, <2>5 DEF LiftFindsTop, LiftHomed, LiftHoming
<1>5. CASE LiftFlag
  <2>1. CASE LiftFlagSet
    <3>1. \E t \in Int : lift' \in {MoveTo(lift, t), MoveTo(MotorStop(lift), t)}
      BY <1>5, <2>1, OvenAssumption DEF LiftFlag
    <3> QED
      BY <2>1, <3>1, LiftCommand DEF LiftFlagSet
  <2>2. CASE ~LiftFlagSet
    <3>1. UNCHANGED liftVars
      BY <1>5, <2>2 DEF LiftFlag, stateVars, testVars, liftVars
    <3> QED
      BY <3>1, LiftStutter
  <2> QED
    BY <2>1, <2>2
<1> QED
  BY <1>1, <1>2, <1>3, <1>4, <1>5 DEF Systime

\* The sequence moves the lift of a reflow, which is homed.
LEMMA LiftSeq == LiftPrecondition /\ SeqWorker => LiftFindsTop'
<1> SUFFICES ASSUME LiftPrecondition, SeqWorker PROVE LiftFindsTop'
  OBVIOUS
<1> USE DEF LiftPrecondition
<1>1. CASE SeqPrepare \/ SeqCooled
  <2>1. lift.cal_done
    BY <1>1, HomedIsNormal DEF SeqPrepare, SeqCooled
  <2>2. \E t \in Int : lift' \in {MoveTo(lift, t), MoveTo(MotorStop(lift), t)}
    BY <1>1, OvenAssumption DEF SeqPrepare, SeqCooled, RaiseLift
  <2> QED
    BY <2>1, <2>2, LiftCommand
<1>2. CASE SeqRefused \/ SeqVapourReady \/ SeqPreHeated \/ SeqNextStep \/ SeqStartCoolDown
           \/ SeqDone \/ SeqWait
  <2>1. UNCHANGED liftVars
    BY <1>2 DEF SeqRefused, SeqVapourReady, SeqPreHeated, SeqNextStep, SeqStartCoolDown,
                SeqDone, SeqWait, SeqFrame, axisVars, stateVars, testVars, liftVars
  <2> QED
    BY <2>1, LiftStutter
<1> QED
  BY <1>1, <1>2 DEF SeqWorker

\* Boot homes the lift forward and ends only with a homed lift.
LEMMA LiftBoot == LiftPrecondition /\ StateWorker => LiftFindsTop'
<1> SUFFICES ASSUME LiftPrecondition, StateWorker PROVE LiftFindsTop'
  OBVIOUS
<1> USE DEF LiftPrecondition
<1>1. CASE StateBooted
  <2>1. UNCHANGED liftVars
    BY <1>1 DEF StateBooted, axisVars, testVars, liftVars
  <2> QED
    BY <2>1, LiftStutter
<1>2. CASE StateBooting
  <2> DEFINE cal  == BootCalibration
             go   == cal.flag /\ cal.lid.cal_done /\ cal.lift.cal_done
             next == IF go THEN MoveTo(cal.lift, LidOpenPosition) ELSE cal.lift
  <2>1. /\ cal.lift \in LiftType /\ HomesForward(cal.lift) /\ CountsFromTop(cal.lift)
    <3>1. cal.lift \in {lift, Cal(lift, "FWD")}
      BY DEF BootCalibration
    <3>2. lift \in LiftType /\ HomesForward(lift) /\ CountsFromTop(lift)
      BY DEF TypeOK, LiftFindsTop, LiftHomed, LiftHoming
    <3> HIDE DEF cal
    <3> QED
      BY <3>1, <3>2, LiftCalls, CalHomes DEF LiftType
  <2>2. lift' = next /\ (booted' => next.cal_done) /\ selftest' = selftest
    BY <1>2 DEF StateBooting, LiftBootReady, testVars
  <2> HIDE DEF cal
  <2>3. HomesForward(next) /\ CountsFromTop(next)
    <3>1. go => cal.lift.mode = "NORMAL"
      BY <2>1 DEF HomesForward
    <3>2. go => HomesForward(MoveTo(cal.lift, LidOpenPosition))
                /\ CountsFromTop(MoveTo(cal.lift, LidOpenPosition))
      BY <2>1, <3>1, CommandsHome DEF LiftType
    <3> QED
      BY <2>1, <3>2
  <2> HIDE DEF next
  <2>4. HomesForward(lift)' /\ CountsFromTop(lift)' /\ (booted' => lift'.cal_done)
    BY <2>2, <2>3 DEF HomesForward, CountsFromTop
  <2> QED
    BY <2>4 DEF LiftFindsTop, LiftHomed, LiftHoming
<1> QED
  BY <1>1, <1>2 DEF StateWorker

\* The selftest forgets the homing only to home again, and moves only a homed lift.
LEMMA LiftTest == LiftPrecondition /\ SelftestWorker => LiftFindsTop'
<1> SUFFICES ASSUME LiftPrecondition, SelftestWorker PROVE LiftFindsTop'
  OBVIOUS
<1> USE DEF LiftPrecondition
<1>1. CASE TestLidDone
  <2>1. lift' = Cal(lift, "FWD") /\ selftest' = "LIFT_CAL"
    BY <1>1 DEF TestLidDone
  <2>2. HomesForward(Cal(lift, "FWD")) /\ CountsFromTop(Cal(lift, "FWD"))
    BY CalHomes DEF TypeOK, LiftType
  <2>3. HomesForward(lift)' /\ CountsFromTop(lift)'
    BY <2>1, <2>2 DEF HomesForward, CountsFromTop
  <2> QED
    BY <2>1, <2>3 DEF LiftFindsTop, LiftHomed, LiftHoming
<1>2. CASE TestLidUp
  <2>1. lift.cal_done /\ 0 \in Int
    BY <1>2, HomedIsNormal DEF TestLidUp, ReflowExcludesSelftest
  <2>2. lift' = MoveTo(lift, 0) \/ UNCHANGED <<lift>>
    BY <1>2 DEF TestLidUp
  <2>3. CASE lift' = MoveTo(lift, 0)
    BY <2>1, <2>3, LiftCommand
  <2>4. CASE UNCHANGED <<lift>>
    BY <2>1, <2>4 DEF LiftFindsTop, LiftHomed, LiftHoming, HomesForward, CountsFromTop
  <2> QED
    BY <2>2, <2>3, <2>4
<1>3. CASE TestLiftCalibrated \/ TestLiftIsDown
  <2>1. lift.cal_done
    BY <1>3, HomedIsNormal DEF TestLiftCalibrated, TestLiftIsDown, TestGoto,
                               ReflowExcludesSelftest
  <2>2. \E d \in {"FWD", "BWD"} : lift' = Move(lift, d)
    BY <1>3 DEF TestLiftCalibrated, TestLiftIsDown
  <2> QED
    BY <2>1, <2>2, LiftCommand
<1>4. CASE TestLidCalibrated \/ TestLidIsUp \/ TestLidDown \/ TestLiftIsUp \/ TestFans
           \/ TestHeaterOn \/ TestHeaterOff \/ TestCooled \/ TestWait
  <2>1. UNCHANGED <<lift, booted>> /\ (selftest = "LIFT_CAL" => selftest' = "LIFT_CAL")
    BY <1>4 DEF TestLidCalibrated, TestLidIsUp, TestLidDown, TestLiftIsUp, TestFans,
                TestHeaterOn, TestHeaterOff, TestCooled, TestWait, TestGoto, TestFrame,
                axisVars, stateVars, testVars
  <2> QED
    BY <2>1 DEF LiftFindsTop, LiftHomed, LiftHoming, HomesForward, CountsFromTop
<1> QED
  BY <1>1, <1>2, <1>3, <1>4 DEF SelftestWorker

\* The commands of the display find the lift homed, and a stride keeps its count.
LEMMA LiftLate ==
  LiftPrecondition /\ (PacketWorker \/ LidMotion \/ LiftMotion \/ LidLifted) => LiftFindsTop'
<1> SUFFICES ASSUME LiftPrecondition, PacketWorker \/ LidMotion \/ LiftMotion \/ LidLifted
             PROVE  LiftFindsTop'
  OBVIOUS
<1> USE DEF LiftPrecondition
<1>1. CASE ReflowOff
  <2>1. UNCHANGED <<booted, selftest>>
    BY <1>1 DEF ReflowOff, stateVars, testVars
  <2>2. SeqAbort \/ UNCHANGED liftVars
    BY <1>1, <2>1 DEF ReflowOff, liftVars
  <2> QED
    BY <2>1, <2>2, AbortLift, LiftStutter
<1>2. CASE LidOpen
  <2>1. CASE ~error /\ CanOpenLid
    <3>1. lift.cal_done
      BY <2>1, HomedIsNormal DEF CanOpenLid, BaseStartCondition
    <3>2. \E t \in Int : lift' \in {MoveTo(lift, t), MoveTo(MotorStop(lift), t)}
      BY <1>2, <2>1, OvenAssumption DEF LidOpen
    <3> QED
      BY <3>1, <3>2, LiftCommand
  <2>2. CASE ~(~error /\ CanOpenLid)
    <3>1. UNCHANGED liftVars
      BY <1>2, <2>2 DEF LidOpen, stateVars, testVars, liftVars
    <3> QED
      BY <3>1, LiftStutter
  <2> QED
    BY <2>1, <2>2
<1>3. CASE StartSelftest
  <2>1. UNCHANGED <<lift, booted>> /\ (selftest' = selftest \/ selftest = "STOPPED")
    BY <1>3 DEF StartSelftest, CanStartSelftest, BaseStartCondition, stateVars
  <2> QED
    BY <2>1 DEF LiftFindsTop, LiftHomed, LiftHoming, HomesForward, CountsFromTop
<1>4. CASE ReflowOn \/ LidClose \/ SetLidMode \/ NoPacket \/ LidMotion \/ LidLifted
  <2>1. UNCHANGED liftVars
    BY <1>4 DEF ReflowOn, LidClose, SetLidMode, NoPacket, LidMotion, LidLifted, axisVars,
                stateVars, testVars, liftVars
  <2> QED
    BY <2>1, LiftStutter
<1>5. CASE LiftMotion
  <2>1. lift' = Advance(lift, LiftStride) /\ UNCHANGED <<booted, selftest>>
    BY <1>5 DEF LiftMotion, stateVars, testVars
  <2>2. /\ HomesForward(Advance(lift, LiftStride)) /\ CountsFromTop(Advance(lift, LiftStride))
        /\ Advance(lift, LiftStride).cal_done = lift.cal_done
    <3>1. /\ lift \in AxisType(LiftSpan, -Far, LiftMax) /\ HomesForward(lift)
          /\ CountsFromTop(lift) /\ LiftSpan \in Nat \ {0} /\ LiftStride \in Nat
      BY OvenAssumption DEF TypeOK, LiftType, LiftFindsTop, LiftHomed, LiftHoming
    <3> QED
      BY <3>1, AdvanceHomes, CommandsKeepMode
  <2>3. HomesForward(lift)' /\ CountsFromTop(lift)'
    BY <2>1, <2>2 DEF HomesForward, CountsFromTop
  <2> QED
    BY <2>1, <2>2, <2>3 DEF LiftFindsTop, LiftHomed, LiftHoming
<1> QED
  BY <1>1, <1>2, <1>3, <1>4, <1>5 DEF PacketWorker

\* Whoever moves the lift during its homing, it homes at its top switch and its
\* encoder counts from there; only the lift test leaves a booted lift unhomed.
THEOREM LiftSafe == Spec => []LiftFindsTop
<1>1. Init => LiftFindsTop
  <2> SUFFICES ASSUME Init PROVE LiftFindsTop
    OBVIOUS
  <2>1. PICK l \in 0 .. LiftSpan : lift = AxisInit(LiftSpan, -Far, LiftMax, l)
    BY DEF Init
  <2> QED
    BY <2>1 DEF Init, AxisInit, LiftFindsTop, LiftHomed, LiftHoming, HomesForward, CountsFromTop
<1>2. LiftPrecondition /\ [Next]_vars => LiftFindsTop'
  <2> SUFFICES ASSUME LiftPrecondition, [Next]_vars PROVE LiftFindsTop'
    OBVIOUS
  <2>1. CASE UNCHANGED vars
    <3>1. UNCHANGED liftVars
      BY <2>1 DEF vars, axisVars, stateVars, testVars, liftVars
    <3> QED
      BY <3>1, LiftStutter DEF LiftPrecondition
  <2> QED
    BY <2>1, LiftEarly, LiftSeq, LiftBoot, LiftTest, LiftLate DEF Next, MainLoop
<1>3. LiftPrecondition <=> TypeOK /\ ReflowExcludesSelftest /\ RegulatorOnlyInReflow /\ LiftFindsTop
  BY DEF LiftPrecondition
<1>4. ReflowGuarded => RegulatorOnlyInReflow
  BY DEF ReflowGuarded
<1> QED
  BY <1>1, <1>2, <1>3, <1>4, TypeCorrect, Exclusion, ReflowSafe, PTL DEF Spec
-----------------------------------------------------------------------------
(* The steps of the profile.                                                *)

LEMMA StepsStutter == StepsInOrder /\ UNCHANGED seqVars => StepsInOrder'
BY DEF StepsInOrder, StepTimeInStep, NoStepAfterZero, seqVars

\* An aborted reflow runs no step.
LEMMA AbortSteps ==
  ASSUME SeqAbort, seq' = "RUN"
  PROVE  seq = "RUN"
BY DEF SeqAbort

\* Within a step only the second counts, and it counts down.
LEMMA StepsSystime == TypeOK /\ StepsInOrder /\ Systime => StepsInOrder'
<1> SUFFICES ASSUME TypeOK, StepsInOrder, Systime PROVE StepsInOrder'
  OBVIOUS
<1>1. CASE SeqSecond
  <2>1. index' = index /\ (seq' = "RUN" => seq = "RUN")
    BY <1>1, AbortSteps DEF SeqSecond
  <2>2. step_time \in Nat /\ step_time' \in {step_time, step_time - 1}
    BY <1>1 DEF SeqSecond, TypeOK
  <2>3. index \in 0 .. TotalDatapoints /\ index \in 0 .. TotalDatapoints + 1
    BY OvenAssumption DEF TypeOK
  <2>4. Points[index].time \in Nat
    BY <2>3, ProfileEntries
  <2>5. StepTimeInStep'
    <3> SUFFICES ASSUME seq' = "RUN" PROVE step_time' <= Points[index].time
      BY <2>1 DEF StepTimeInStep
    <3>1. step_time <= Points[index].time
      BY <2>1 DEF StepsInOrder, StepTimeInStep
    <3> QED
      BY <3>1, <2>2, <2>4
  <2>6. NoStepAfterZero'
    BY <2>1 DEF StepsInOrder, NoStepAfterZero
  <2> QED
    BY <2>5, <2>6 DEF StepsInOrder
<1>2. CASE NoSecond \/ HeaterSecond \/ RegulatorCompute \/ NoRegulatorCompute
  BY <1>2, StepsStutter DEF NoSecond, HeaterSecond, RegulatorCompute, NoRegulatorCompute
<1> QED
  BY <1>1, <1>2 DEF Systime

\* A step is begun with its own duration, and never one behind the zero.
LEMMA StepsSeq == TypeOK /\ StepsInOrder /\ SeqWorker => StepsInOrder'
<1> SUFFICES ASSUME TypeOK, StepsInOrder, SeqWorker PROVE StepsInOrder'
  OBVIOUS
<1>0. index \in 0 .. TotalDatapoints /\ TotalDatapoints \in Nat
  BY OvenAssumption DEF TypeOK
<1>1. CASE SeqPreHeated
  <2>1. index' = index /\ step_time' = Points[index].time
    BY <1>0, <1>1 DEF SeqPreHeated, UpdateRegulator
  <2>2. Points[index].time \in Nat
    BY <1>0, ProfileEntries
  <2> QED
    BY <2>1, <2>2 DEF StepsInOrder, StepTimeInStep, NoStepAfterZero
<1>2. CASE SeqNextStep
  <2>1. /\ index' = index + 1 /\ index + 1 <= TotalDatapoints
        /\ Points[index + 1].time # 0
    BY <1>2 DEF SeqNextStep, NextStep
  <2>2. step_time' = Points[index + 1].time
    BY <1>0, <1>2, <2>1 DEF SeqNextStep, UpdateRegulator
  <2>3. Points[index + 1].time \in Nat
    BY <1>0, <2>1, ProfileEntries
  <2>4. StepTimeInStep'
    BY <2>1, <2>2, <2>3 DEF StepTimeInStep
  <2>5. NoStepAfterZero'
    <3> SUFFICES ASSUME NEW i \in 1 .. index' PROVE Points[i].time # 0
      BY DEF NoStepAfterZero
    <3>1. i \in 1 .. index \/ i = index + 1
      BY <1>0, <2>1
    <3> QED
      BY <2>1, <3>1 DEF StepsInOrder, NoStepAfterZero
  <2> QED
    BY <2>4, <2>5 DEF StepsInOrder
<1>3. CASE SeqWait
  BY <1>3, StepsStutter DEF SeqWait
<1>4. CASE SeqPrepare \/ SeqRefused \/ SeqVapourReady \/ SeqStartCoolDown \/ SeqCooled \/ SeqDone
  <2>1. UNCHANGED <<index, step_time>> /\ seq' # "RUN"
    BY <1>4 DEF SeqPrepare, SeqRefused, SeqVapourReady, SeqStartCoolDown, SeqCooled, SeqDone
  <2> QED
    BY <2>1 DEF StepsInOrder, StepTimeInStep, NoStepAfterZero
<1> QED
  BY <1>1, <1>2, <1>3, <1>4 DEF SeqWorker

\* A reflow that is started or stopped runs no step yet, or none any more.
LEMMA StepsPacket == TypeOK /\ StepsInOrder /\ PacketWorker => StepsInOrder'
<1> SUFFICES ASSUME TypeOK, StepsInOrder, PacketWorker PROVE StepsInOrder'
  OBVIOUS
<1>1. CASE ReflowOn
  <2>1. \/ UNCHANGED <<seq, index>>
        \/ seq' = "SAFETY_CHECK" /\ index' = 0
    BY <1>1 DEF ReflowOn
  <2>2. step_time' = step_time
    BY <1>1 DEF ReflowOn
  <2> QED
    BY <2>1, <2>2 DEF StepsInOrder, StepTimeInStep, NoStepAfterZero
<1>2. CASE ReflowOff
  <2>1. UNCHANGED <<index, step_time>> /\ (seq' = "RUN" => seq = "RUN")
    BY <1>2, AbortSteps DEF ReflowOff
  <2> QED
    BY <2>1 DEF StepsInOrder, StepTimeInStep, NoStepAfterZero
<1>3. CASE LidOpen \/ LidClose \/ SetLidMode \/ StartSelftest \/ NoPacket
  BY <1>3, StepsStutter DEF LidOpen, LidClose, SetLidMode, StartSelftest, NoPacket
<1> QED
  BY <1>1, <1>2, <1>3 DEF PacketWorker

\* Nothing else touches the sequence.
LEMMA StepsElsewhere ==
  StepsInOrder /\ (\/ AxisWorkers \/ HeaterWorker \/ NoSensorCycle \/ LiftFlag
                   \/ LidControlWorker \/ StateWorker \/ SelftestWorker
                   \/ LidMotion \/ LiftMotion \/ LidLifted)
    => StepsInOrder'
<1> SUFFICES ASSUME StepsInOrder,
                    \/ AxisWorkers \/ HeaterWorker \/ NoSensorCycle \/ LiftFlag
                    \/ LidControlWorker \/ StateWorker \/ SelftestWorker
                    \/ LidMotion \/ LiftMotion \/ LidLifted
             PROVE  StepsInOrder'
  OBVIOUS
<1>1. CASE AxisWorkers \/ HeaterWorker \/ NoSensorCycle \/ LiftFlag \/ LidControlWorker
  <2>1. UNCHANGED seqVars
    BY <1>1 DEF AxisWorkers, AxisLook, HeaterWorker, NoSensorCycle, LiftFlag, LidControlWorker
  <2> QED
    BY <2>1, StepsStutter
<1>2. CASE StateWorker \/ LidMotion \/ LiftMotion \/ LidLifted
  <2>1. UNCHANGED seqVars
    BY <1>2 DEF StateWorker, StateBooted, StateBooting, LidMotion, LiftMotion, LidLifted
  <2> QED
    BY <2>1, StepsStutter
<1>3. CASE SelftestWorker
  <2>1. UNCHANGED seqVars
    BY <1>3 DEF SelftestWorker, TestLidDone, TestLidCalibrated, TestLidUp, TestLidIsUp,
       TestLidDown, TestLiftCalibrated, TestLiftIsDown, TestLiftIsUp, TestFans,
       TestHeaterOn, TestHeaterOff, TestCooled, TestWait, TestFrame
  <2> QED
    BY <2>1, StepsStutter
<1> QED
  BY <1>1, <1>2, <1>3

\* A running step counts down from its own duration, whatever an earlier reflow
\* has left in the countdown, and the profile ends before its first zero duration.
THEOREM StepsSafe == Spec => []StepsInOrder
<1>1. Init => StepsInOrder
  BY DEF Init, StepsInOrder, StepTimeInStep, NoStepAfterZero
<1>2. TypeOK /\ StepsInOrder /\ [Next]_vars => StepsInOrder'
  <2> SUFFICES ASSUME TypeOK, StepsInOrder, [Next]_vars PROVE StepsInOrder'
    OBVIOUS
  <2>1. CASE UNCHANGED vars
    BY <2>1, StepsStutter DEF vars
  <2> QED
    BY <2>1, StepsSystime, StepsSeq, StepsPacket, StepsElsewhere DEF Next, MainLoop
<1> QED
  BY <1>1, <1>2, TypeCorrect, PTL DEF Spec

-----------------------------------------------------------------------------
(* The heat under an opening lid.                                           *)

\* From lid_control_worker to the last packet of the same pass the temperature
\* condition speaks of the last reading and of the mode it was computed for. That
\* mode is the current one until Packet_Worker serves a command that sets another.
ConditionFresh ==
  /\ stage \in {"seq", "state", "selftest", "packet"} /\ temp_met
       => galden < OpenTemperatureOf(met_mode)
  /\ stage # "packet" => met_mode = lid_mode

\* a step of the loop that leaves the condition, the modes and the reading alone
LEMMA FreshStutter ==
  ASSUME ConditionFresh, UNCHANGED <<temp_met, lid_mode, met_mode, galden>>,
         \/ UNCHANGED stage
         \/ stage \in {"seq", "state", "selftest"}
  PROVE  ConditionFresh'
BY DEF ConditionFresh, OpenTemperatureOf

\* The calls before lid_control_worker do not reach the stages of the condition.
LEMMA FreshEarly ==
  ConditionFresh /\ (Systime \/ AxisWorkers \/ HeaterWorker \/ NoSensorCycle \/ LiftFlag)
    => ConditionFresh'
<1> SUFFICES ASSUME ConditionFresh,
                    Systime \/ AxisWorkers \/ HeaterWorker \/ NoSensorCycle \/ LiftFlag
             PROVE  ConditionFresh'
  OBVIOUS
<1>1. /\ stage' \in {"seq_second", "millis", "axes", "heater", "lift_flag", "lid_control"}
      /\ stage # "packet" /\ UNCHANGED <<lid_mode, met_mode>>
  <2>1. CASE Systime
    BY <2>1 DEF Systime, NoSecond, HeaterSecond, SeqSecond, RegulatorCompute,
       NoRegulatorCompute, Goto, lidVars
  <2>2. CASE AxisWorkers \/ HeaterWorker \/ NoSensorCycle \/ LiftFlag
    BY <2>2 DEF AxisWorkers, AxisLook, HeaterWorker, NoSensorCycle, LiftFlag, Goto, lidVars
  <2> QED
    BY <2>1, <2>2
<1> QED
  BY <1>1 DEF ConditionFresh

\* lid_control_worker computes it from the reading and the mode of the pass.
LEMMA FreshLidControl == TypeOK /\ ConditionFresh /\ LidControlWorker => ConditionFresh'
<1> SUFFICES ASSUME TypeOK, ConditionFresh, LidControlWorker PROVE ConditionFresh'
  OBVIOUS
<1>1. galden \in Int /\ OpenTemperatureOf(lid_mode) \in Int
  BY OvenAssumption DEF TypeOK, OpenTemperatureOf
<1>2. /\ stage = "lid_control" /\ temp_met' = TemperatureMet
      /\ UNCHANGED <<galden, lid_mode, met_mode>>
  BY DEF LidControlWorker, Goto
<1>3. TemperatureMet => galden < OpenTemperatureOf(lid_mode)
  BY <1>1 DEF TemperatureMet, OpenTemperature
<1>4. met_mode = lid_mode
  BY <1>2 DEF ConditionFresh
<1> QED
  BY <1>2, <1>3, <1>4 DEF ConditionFresh, OpenTemperatureOf

\* The sequence, State_Worker and the selftest look at it and leave it alone.
LEMMA FreshLate ==
  ConditionFresh /\ (SeqWorker \/ StateWorker \/ SelftestWorker) => ConditionFresh'
<1> SUFFICES ASSUME ConditionFresh, SeqWorker \/ StateWorker \/ SelftestWorker
             PROVE  ConditionFresh'
  OBVIOUS
<1>1. stage \in {"seq", "state", "selftest"}
      /\ UNCHANGED <<temp_met, lid_mode, met_mode, galden>>
  <2>1. CASE SeqWorker
    BY <2>1 DEF SeqWorker, SeqPrepare, SeqRefused, SeqVapourReady, SeqPreHeated,
       SeqNextStep, SeqStartCoolDown, SeqCooled, SeqDone, SeqWait, SeqFrame, lidVars, Goto
  <2>2. CASE StateWorker
    BY <2>2 DEF StateWorker, StateBooted, StateBooting, lidVars, Goto
  <2>3. CASE SelftestWorker
    BY <2>3 DEF SelftestWorker, TestLidDone, TestLidCalibrated, TestLidUp, TestLidIsUp,
       TestLidDown, TestLiftCalibrated, TestLiftIsDown, TestLiftIsUp, TestFans,
       TestHeaterOn, TestHeaterOff, TestCooled, TestWait, TestFrame, TestGoto, lidVars, Goto
  <2> QED
    BY <2>1, <2>2, <2>3
<1> QED
  BY <1>1, FreshStutter

\* A command leaves the condition and what it was computed from as they are, though
\* it may set another mode; with the last one the pass ends, and the next pass
\* computes the condition for the mode there is then. The motors turn without the
\* loop.
LEMMA FreshElsewhere ==
  ConditionFresh /\ (PacketWorker \/ LidMotion \/ LiftMotion \/ LidLifted \/ UNCHANGED vars)
    => ConditionFresh'
<1> SUFFICES ASSUME ConditionFresh,
                    PacketWorker \/ LidMotion \/ LiftMotion \/ LidLifted \/ UNCHANGED vars
             PROVE  ConditionFresh'
  OBVIOUS
<1>1. CASE PacketWorker /\ ~NoPacket
  <2>1. /\ stage = "packet" /\ stage' = "packet"
        /\ UNCHANGED <<temp_met, met_mode, galden>>
    BY <1>1 DEF PacketWorker, ReflowOn, ReflowOff, LidOpen, LidClose, SetLidMode,
       StartSelftest, Received, lidVars
  <2> QED
    BY <2>1 DEF ConditionFresh, OpenTemperatureOf
<1>2. CASE NoPacket
  <2>1. stage' = "heater_second" /\ met_mode' = lid_mode /\ lid_mode' = lid_mode
    BY <1>2 DEF NoPacket, Goto
  <2> QED
    BY <2>1 DEF ConditionFresh
<1>3. CASE LidMotion \/ LiftMotion \/ LidLifted \/ UNCHANGED vars
  <2>1. UNCHANGED <<stage, temp_met, lid_mode, met_mode, galden>>
    BY <1>3 DEF LidMotion, LiftMotion, LidLifted, vars, lidVars
  <2> QED
    BY <2>1, FreshStutter
<1> QED
  BY <1>1, <1>2, <1>3

\* Only the command that opens the lid makes an opening pending, and it looks at
\* the condition first.
LEMMA OpeningAsksCondition ==
  ASSUME ConditionFresh, [Next]_vars, prepare', ~prepare
  PROVE  galden < OpenTemperatureOf(met_mode)
<1>1. CASE LidOpen
  BY <1>1 DEF LidOpen, Received, CanOpenLid, ConditionFresh
<1>2. CASE PacketWorker /\ ~LidOpen
  BY <1>2 DEF PacketWorker, ReflowOn, ReflowOff, LidClose, SetLidMode, StartSelftest,
     NoPacket, lidVars
<1>3. CASE Systime \/ AxisWorkers \/ HeaterWorker \/ NoSensorCycle \/ LiftFlag
  BY <1>3 DEF Systime, NoSecond, HeaterSecond, SeqSecond, RegulatorCompute,
     NoRegulatorCompute, AxisWorkers, AxisLook, HeaterWorker, NoSensorCycle, LiftFlag, lidVars
<1>4. CASE LidControlWorker
  BY <1>4 DEF LidControlWorker
<1>5. CASE SeqWorker
  BY <1>5 DEF SeqWorker, SeqPrepare, SeqRefused, SeqVapourReady, SeqPreHeated,
     SeqNextStep, SeqStartCoolDown, SeqCooled, SeqDone, SeqWait, SeqFrame, lidVars
<1>6. CASE StateWorker
  BY <1>6 DEF StateWorker, StateBooted, StateBooting, lidVars
<1>7. CASE SelftestWorker
  BY <1>7 DEF SelftestWorker, TestLidDone, TestLidCalibrated, TestLidUp, TestLidIsUp,
     TestLidDown, TestLiftCalibrated, TestLiftIsDown, TestLiftIsUp, TestFans,
     TestHeaterOn, TestHeaterOff, TestCooled, TestWait, TestFrame, lidVars
<1>8. CASE LidMotion \/ LiftMotion \/ LidLifted \/ UNCHANGED vars
  BY <1>8 DEF LidMotion, LiftMotion, LidLifted, vars, lidVars
<1> QED
  BY <1>1, <1>2, <1>3, <1>4, <1>5, <1>6, <1>7, <1>8 DEF Next, MainLoop

\* The lid starts to prepare its opening only while the last reading of the galden
\* is below the limit of the mode that was set when Packet_Worker was entered, for
\* which the condition it asks was computed earlier in the pass: however many
\* commands one call of Packet_Worker serves, and in whatever order they set the
\* mode and open the lid, the condition is never older than that call.
THEOREM OpensWhenCool == Spec => LidOpensOnlyWhenCool
<1>1. Init => ConditionFresh
  BY DEF Init, ConditionFresh
<1>2. TypeOK /\ ConditionFresh /\ [Next]_vars => ConditionFresh'
  BY FreshEarly, FreshLidControl, FreshLate, FreshElsewhere DEF Next, MainLoop
<1>3. ConditionFresh /\ [Next]_vars
        => [prepare' /\ ~prepare => galden < OpenTemperatureOf(met_mode)]_vars
  BY OpeningAsksCondition
<1> QED
  BY <1>1, <1>2, <1>3, TypeCorrect, PTL DEF Spec, LidOpensOnlyWhenCool

-----------------------------------------------------------------------------
(* Where the lift comes to rest.                                            *)

\* The access position is on the travel, which no command to go as far as
\* possible falls short of, and a stride is a move that is not worth making.
Fits ==
  /\ LidOpenPosition \in -LiftSpan .. 0
  /\ LiftSpan <= Far
  /\ LiftStride <= MinPosOffset

(* The lift a stands at the position rest, as exactly as a lift does, or is  *)
(* on its way there and, unless it has not been looked at since, short of it. *)
Heading(a, rest) ==
  LET slack == IF a.fresh THEN 0 ELSE LiftStride
  IN  \/ a.dir = "NONE" /\ ~MinDelta(a, rest)
      \/ a.dir = "FWD" /\ a.target = rest /\ a.pos < rest + slack
      \/ a.dir = "BWD" /\ a.target = rest /\ a.pos > rest - slack

\* The numbers of a homed lift.
LEMMA LiftNumbers ==
  ASSUME NEW a \in LiftType, CountsFromTop(a), a.cal_done
  PROVE  /\ LiftSpan \in Nat \ {0} /\ LiftStride \in Nat \ {0} /\ LiftMax \in Nat
         /\ Far \in Nat /\ MinPosOffset \in Nat /\ LidOpenPosition \in Int
         /\ a.loc \in 0 .. LiftSpan /\ a.span = LiftSpan /\ a.pos = a.loc - LiftSpan
         /\ a.pos_min = -Far /\ a.pos_max = LiftMax /\ a.target \in Int /\ a.pos \in Int
         /\ a.dir \in {"NONE", "FWD", "BWD"} /\ a.fresh \in BOOLEAN
BY OvenAssumption, AxisAssumption DEF LiftType, AxisType, CountsFromTop, Directions

\* The lift that has not moved since it was looked at is stopped or goes on.
LEMMA WorkerStops ==
  ASSUME NEW a \in LiftType, NEW e, a.mode = "NORMAL"
  PROVE  /\ Worker(a, e).pos = a.pos /\ Worker(a, e).target = a.target
         /\ Worker(a, e).loc = a.loc /\ Worker(a, e).fresh = TRUE
         /\ Worker(a, e).dir = IF AtLimit(a) \/ TargetReached(a) THEN "NONE" ELSE a.dir
<1>1. LimitSwitchWorker(a) = IF AtLimit(a) THEN MotorStop(a) ELSE a
  BY DEF LimitSwitchWorker, LimswRoutine
<1>2. CASE AtLimit(a)
  <2>1. Worker(a, e) = [CheckTarget(MotorStop(a)) EXCEPT !.fresh = TRUE]
    BY <1>1, <1>2 DEF Worker, ByMode, MotorStop, LiftType, AxisType
  <2>2. CheckTarget(MotorStop(a)) = MotorStop(a)
    BY DEF CheckTarget, TargetReached, MotorStop, LiftType, AxisType
  <2> QED
    BY <1>2, <2>1, <2>2 DEF MotorStop, LiftType, AxisType
<1>3. CASE ~AtLimit(a)
  <2>1. Worker(a, e) = [CheckTarget(a) EXCEPT !.fresh = TRUE]
    BY <1>1, <1>3 DEF Worker, ByMode
  <2> QED
    BY <1>3, <2>1 DEF CheckTarget, MotorStop, LiftType, AxisType
<1> QED
  BY <1>2, <1>3

\* axis_worker stops the lift where it was sent, or lets it go on.
LEMMA HeadingWorker ==
  ASSUME Fits, NEW a \in LiftType, CountsFromTop(a), a.cal_done, a.mode = "NORMAL",
         NEW rest \in -LiftSpan .. 0, NEW e, Heading(a, rest)
  PROVE  Heading(Worker(a, e), rest)
<1> DEFINE w == Worker(a, e)
<1>1. /\ LiftSpan \in Nat \ {0} /\ LiftStride \in Nat \ {0} /\ LiftMax \in Nat
      /\ Far \in Nat /\ MinPosOffset \in Nat
      /\ a.loc \in 0 .. LiftSpan /\ a.span = LiftSpan /\ a.pos = a.loc - LiftSpan
      /\ a.pos_min = -Far /\ a.pos_max = LiftMax /\ a.target \in Int /\ a.pos \in Int
  BY LiftNumbers
<1>2. /\ w.pos = a.pos /\ w.target = a.target /\ w.fresh = TRUE
      /\ w.dir = IF AtLimit(a) \/ TargetReached(a) THEN "NONE" ELSE a.dir
  BY WorkerStops
<1>3. rest \in Int /\ rest <= 0 /\ -LiftSpan <= rest
  BY <1>1
<1> HIDE DEF w
<1>4. CASE a.dir = "NONE"
  <2>1. w.dir = "NONE" /\ ~MinDelta(a, rest)
    BY <1>2, <1>4 DEF Heading
  <2> QED
    BY <1>2, <2>1 DEF Heading, MinDelta, w
<1>5. CASE a.dir = "FWD"
  <2>1. a.target = rest /\ a.pos < rest + LiftStride
    BY <1>1, <1>3, <1>5 DEF Heading
  <2>2. CASE AtLimit(a) \/ TargetReached(a)
    <3>1. a.pos >= rest
      <4>1. CASE AtLimit(a)
        <5>1. a.loc = a.span
          BY <1>5, <4>1 DEF AtLimit, FwdActive
        <5> QED
          BY <1>1, <1>3, <5>1
      <4>2. CASE TargetReached(a)
        <5>1. a.pos >= a.target \/ a.pos >= a.pos_max
          BY <1>5, <4>2 DEF TargetReached
        <5> QED
          BY <1>1, <1>3, <2>1, <5>1
      <4> QED
        BY <2>2, <4>1, <4>2
    <3>2. ~(Abs(rest - w.pos) > MinPosOffset)
      BY <1>1, <1>2, <1>3, <2>1, <3>1 DEF Abs, Fits
    <3> QED
      BY <1>2, <2>2, <3>2 DEF Heading, MinDelta, w
  <2>3. CASE ~(AtLimit(a) \/ TargetReached(a))
    <3>1. ~(a.pos >= a.target)
      BY <1>5, <2>3 DEF TargetReached
    <3>2. w.pos < rest + 0
      BY <1>1, <1>2, <1>3, <2>1, <3>1
    <3> QED
      BY <1>2, <1>5, <2>1, <2>3, <3>2 DEF Heading, w
  <2> QED
    BY <2>2, <2>3
<1>6. CASE a.dir = "BWD"
  <2>1. a.target = rest /\ a.pos > rest - LiftStride
    BY <1>1, <1>3, <1>6 DEF Heading
  <2>2. CASE AtLimit(a) \/ TargetReached(a)
    <3>1. a.pos <= rest
      <4>1. CASE AtLimit(a)
        <5>1. a.loc = 0
          BY <1>6, <4>1 DEF AtLimit, BwdActive
        <5> QED
          BY <1>1, <1>3, <5>1
      <4>2. CASE TargetReached(a)
        <5>1. a.pos <= a.target \/ a.pos <= a.pos_min
          BY <1>6, <4>2 DEF TargetReached
        <5> QED
          BY <1>1, <1>3, <2>1, <5>1 DEF Fits
      <4> QED
        BY <2>2, <4>1, <4>2
    <3>2. ~(Abs(rest - w.pos) > MinPosOffset)
      BY <1>1, <1>2, <1>3, <2>1, <3>1 DEF Abs, Fits
    <3> QED
      BY <1>2, <2>2, <3>2 DEF Heading, MinDelta, w
  <2>3. CASE ~(AtLimit(a) \/ TargetReached(a))
    <3>1. ~(a.pos <= a.target)
      BY <1>6, <2>3 DEF TargetReached
    <3>2. w.pos > rest - 0
      BY <1>1, <1>2, <1>3, <2>1, <3>1
    <3> QED
      BY <1>2, <1>6, <2>1, <2>3, <3>2 DEF Heading, w
  <2> QED
    BY <2>2, <2>3
<1> QED
  BY <1>4, <1>5, <1>6 DEF Heading

\* A stride takes the lift no further past its goal than a stride.
LEMMA HeadingAdvance ==
  ASSUME NEW a \in LiftType, CountsFromTop(a), a.cal_done, CanAdvance(a),
         NEW rest \in -LiftSpan .. 0, Heading(a, rest)
  PROVE  Heading(Advance(a, LiftStride), rest)
<1> DEFINE w == Advance(a, LiftStride)
           to == Reach(a, LiftStride)
<1>1. /\ LiftSpan \in Nat \ {0} /\ LiftStride \in Nat \ {0}
      /\ a.loc \in 0 .. LiftSpan /\ a.span = LiftSpan /\ a.pos \in Int
  BY LiftNumbers
<1>2. rest \in Int
  BY <1>1
<1>3. a.fresh /\ a.dir # "NONE"
  BY DEF CanAdvance
<1>4. w.pos = a.pos + (to - a.loc) /\ w.fresh = FALSE /\ w.dir = a.dir /\ w.target = a.target
  BY DEF Advance, LiftType, AxisType
<1>5. /\ to \in Int /\ a.loc \in Int
      /\ a.dir = "FWD" => to - a.loc <= LiftStride
      /\ a.dir # "FWD" => to - a.loc >= -LiftStride
  BY <1>1 DEF Reach
<1> HIDE DEF w, to
<1>6. CASE a.dir = "FWD"
  <2>1. a.target = rest /\ a.pos < rest + 0
    BY <1>3, <1>6 DEF Heading
  <2>2. w.pos < rest + LiftStride
    BY <1>1, <1>2, <1>4, <1>5, <1>6, <2>1
  <2> QED
    BY <1>4, <1>6, <2>1, <2>2 DEF Heading, w
<1>7. CASE a.dir = "BWD"
  <2>1. a.target = rest /\ a.pos > rest - 0
    BY <1>3, <1>7 DEF Heading
  <2>2. w.pos > rest - LiftStride
    BY <1>1, <1>2, <1>4, <1>5, <1>7, <2>1
  <2> QED
    BY <1>4, <1>7, <2>1, <2>2 DEF Heading, w
<1> QED
  BY <1>3, <1>6, <1>7 DEF Heading

\* A lift that stands is sent, or is near enough not to be.
LEMMA HeadingMoveTo ==
  ASSUME Fits, NEW a \in LiftType, CountsFromTop(a), a.cal_done, a.dir = "NONE",
         NEW rest \in -LiftSpan .. 0
  PROVE  Heading(MoveTo(a, rest), rest)
<1> DEFINE w == MoveTo(a, rest)
<1>1. /\ LiftSpan \in Nat \ {0} /\ LiftStride \in Nat \ {0} /\ LiftMax \in Nat
      /\ Far \in Nat /\ MinPosOffset \in Nat
      /\ a.loc \in 0 .. LiftSpan /\ a.span = LiftSpan /\ a.pos = a.loc - LiftSpan
      /\ a.pos_min = -Far /\ a.pos_max = LiftMax /\ a.pos \in Int /\ a.fresh \in BOOLEAN
  BY LiftNumbers
<1>2. rest \in Int /\ rest <= 0 /\ -LiftSpan <= rest
  BY <1>1
<1>3. ~MoveToRefused(a, rest)
  <2>1. ~(rest < a.pos_min)
    BY <1>1, <1>2 DEF Fits
  <2>2. ~(rest > a.pos /\ FwdActive(a))
    BY <1>1, <1>2 DEF FwdActive
  <2>3. ~(rest < a.pos /\ BwdActive(a))
    BY <1>1, <1>2 DEF BwdActive
  <2> QED
    BY <2>1, <2>2, <2>3 DEF MoveToRefused
<1>4. CASE ~MinDelta(a, rest)
  <2>1. w = [a EXCEPT !.target = rest]
    BY <1>3, <1>4 DEF MoveTo
  <2>2. w.dir = "NONE" /\ w.pos = a.pos
    BY <2>1 DEF LiftType, AxisType
  <2> HIDE DEF w
  <2> QED
    BY <1>4, <2>2 DEF Heading, MinDelta, w
<1>5. CASE MinDelta(a, rest)
  <2>1. w = [a EXCEPT !.target = rest, !.dir = IF rest > a.pos THEN "FWD" ELSE "BWD"]
    BY <1>3, <1>5 DEF MoveTo
  <2>2. /\ w.dir = IF rest > a.pos THEN "FWD" ELSE "BWD"
        /\ w.pos = a.pos /\ w.target = rest /\ w.fresh = a.fresh
    BY <2>1 DEF LiftType, AxisType
  <2>3. rest # a.pos
    BY <1>1, <1>2, <1>5 DEF MinDelta, Abs
  <2> DEFINE slack == IF w.fresh THEN 0 ELSE LiftStride
  <2>4. slack \in Nat
    BY <1>1
  <2> HIDE DEF w, slack
  <2>5. CASE rest > a.pos
    <3>1. w.pos < rest + slack
      BY <1>1, <1>2, <2>2, <2>4, <2>5
    <3> QED
      BY <2>2, <2>5, <3>1 DEF Heading, w, slack
  <2>6. CASE ~(rest > a.pos)
    <3>1. w.pos > rest - slack
      BY <1>1, <1>2, <2>2, <2>3, <2>4, <2>6
    <3> QED
      BY <2>2, <2>6, <3>1 DEF Heading, w, slack
  <2> QED
    BY <2>5, <2>6
<1> QED
  BY <1>4, <1>5

\* raise_lift and raise_lift_to_access stop the lift first.
LEMMA HeadingRaise ==
  ASSUME Fits, NEW a \in LiftType, CountsFromTop(a), a.cal_done, a.mode = "NORMAL",
         NEW rest \in -LiftSpan .. 0
  PROVE  Heading(MoveTo(MotorStop(a), rest), rest)
<1>1. MotorStop(a) \in LiftType /\ MotorStop(a).cal_done
  BY LiftCalls, CommandsKeepMode DEF LiftType
<1>2. CountsFromTop(MotorStop(a)) /\ MotorStop(a).dir = "NONE"
  BY CommandsHome DEF LiftType, MotorStop, AxisType
<1> QED
  BY <1>1, <1>2, HeadingMoveTo

\* The sequence moves on and nothing else does.
Quiet ==
  /\ UNCHANGED <<lid, lift, liftflag, prepare, booted>>
  /\ \/ seq' = seq
     \/ seq \in Reflowing /\ seq' \in Reflowing
     \/ seq = "SAFETY_CHECK" /\ seq' = "IDLE"
     \/ seq = "CLEANUP" /\ seq' = "IDLE" /\ lift.dir = "NONE"
     \/ seq = "IDLE" /\ seq' = "SAFETY_CHECK" /\ booted /\ LidClosed

\* seq_abort raises the lift.
Raised ==
  /\ seq # "IDLE" /\ seq' = "CLEANUP"
  /\ lift' = MoveTo(MotorStop(lift), 0)
  /\ UNCHANGED <<lid, liftflag, prepare, booted>>

(* What else moves the lid or the lift outside the selftest. *)
Moving ==
  \/ RegulatorCompute \/ AxisWorkers
  \/ LiftFlag /\ LiftFlagSet
  \/ LidControlWorker /\ OpeningDue
  \/ SeqPrepare \/ SeqCooled \/ StateBooting
  \/ LidOpen /\ ~error /\ CanOpenLid
  \/ LidClose \/ LidMotion \/ LiftMotion \/ LidLifted

\* An abort raises the lift, or there is nothing to abort.
LEMMA AbortRaises ==
  ASSUME SeqAbort, UNCHANGED <<lid, liftflag, prepare, booted>>
  PROVE  Raised \/ Quiet
BY DEF SeqAbort, CanAbort, RaiseLift, Raised, Quiet

\* Every step is one of these or the selftest's.
LEMMA Movers ==
  ASSUME [Next]_vars
  PROVE  \/ selftest' = selftest /\ (Quiet \/ Raised \/ Moving)
         \/ StartSelftest \/ SelftestWorker
<1>1. CASE NoSecond \/ HeaterSecond \/ NoRegulatorCompute \/ HeaterWorker \/ NoSensorCycle
           \/ SeqWait \/ StateBooted \/ SetLidMode \/ NoPacket \/ UNCHANGED vars
  <2>1. UNCHANGED <<lid, lift, liftflag, prepare, seq, booted, selftest>>
    BY <1>1 DEF NoSecond, HeaterSecond, NoRegulatorCompute, HeaterWorker, NoSensorCycle,
                SeqWait, StateBooted, SetLidMode, NoPacket, vars, axisVars, lidVars,
                seqVars, stateVars, testVars
  <2> QED
    BY <2>1 DEF Quiet
<1>2. CASE SeqSecond \/ ReflowOff
  <2>1. UNCHANGED <<lid, liftflag, prepare, booted, selftest>>
    BY <1>2 DEF SeqSecond, ReflowOff, lidVars, stateVars, testVars
  <2>2. SeqAbort \/ UNCHANGED <<lift, seq>>
    BY <1>2 DEF SeqSecond, ReflowOff
  <2> QED
    BY <2>1, <2>2, AbortRaises DEF Quiet
<1>3. CASE SeqRefused \/ SeqVapourReady \/ SeqPreHeated \/ SeqNextStep \/ SeqStartCoolDown
           \/ SeqDone
  <2>1. UNCHANGED <<lid, lift, liftflag, prepare, booted, selftest>>
    BY <1>3 DEF SeqRefused, SeqVapourReady, SeqPreHeated, SeqNextStep, SeqStartCoolDown,
                SeqDone, SeqFrame, lidVars, stateVars, testVars
  <2>2. \/ seq \in Reflowing /\ seq' \in Reflowing
        \/ seq = "SAFETY_CHECK" /\ seq' = "IDLE"
        \/ seq = "CLEANUP" /\ seq' = "IDLE" /\ lift.dir = "NONE"
    BY <1>3 DEF SeqRefused, SeqVapourReady, SeqPreHeated, SeqNextStep, SeqStartCoolDown,
                SeqDone, Reflowing, Heating
  <2> QED
    BY <2>1, <2>2 DEF Quiet
<1>4. CASE ReflowOn
  <2>1. UNCHANGED <<lid, lift, liftflag, prepare, booted, selftest>>
    BY <1>4 DEF ReflowOn, axisVars, lidVars, stateVars, testVars
  <2>2. seq' = seq \/ (CanStartReflow /\ seq' = "SAFETY_CHECK")
    BY <1>4 DEF ReflowOn
  <2> QED
    BY <2>1, <2>2 DEF Quiet, CanStartReflow, BaseStartCondition
<1>5. CASE LiftFlag \/ LidControlWorker \/ LidOpen
  <2>1. UNCHANGED <<booted, seq, selftest>>
    BY <1>5 DEF LiftFlag, LidControlWorker, LidOpen, seqVars, stateVars, testVars
  <2>2. Moving \/ UNCHANGED <<lid, lift, liftflag, prepare>>
    BY <1>5 DEF LiftFlag, LidControlWorker, LidOpen, Moving, lidVars
  <2> QED
    BY <2>1, <2>2 DEF Quiet
<1>6. CASE RegulatorCompute \/ AxisWorkers \/ SeqPrepare \/ SeqCooled \/ StateBooting
           \/ LidClose \/ LidMotion \/ LiftMotion \/ LidLifted
  <2>1. selftest' = selftest
    BY <1>6 DEF RegulatorCompute, AxisWorkers, AxisLook, SeqPrepare, SeqCooled, SeqFrame,
                StateBooting, LidClose, LidMotion, LiftMotion, LidLifted, testVars
  <2>2. Moving
    BY <1>6 DEF Moving
  <2> QED
    BY <2>1, <2>2
<1> QED
  BY <1>1, <1>2, <1>3, <1>4, <1>5, <1>6
  DEF Next, MainLoop, Systime, SeqWorker, StateWorker, PacketWorker

\* While no selftest runs its worker waits.
LEMMA NoTestWaits ==
  ASSUME SelftestWorker, selftest = "STOPPED"
  PROVE  UNCHANGED <<lid, lift, liftflag, prepare, seq, booted, selftest>>
<1>1. TestWait
  BY DEF SelftestWorker, TestLidDone, TestLidCalibrated, TestLidUp, TestLidIsUp, TestLidDown,
         TestLiftCalibrated, TestLiftIsDown, TestLiftIsUp, TestFans, TestHeaterOn,
         TestHeaterOff, TestCooled, TestGoto, InLidTest
<1> QED
  BY <1>1 DEF TestWait, axisVars, lidVars, seqVars, stateVars, testVars

\* main_loop goes from the look at the axes to the lift flag without a detour.
LEMMA StageMoves ==
  ASSUME [Next]_vars, stage \in {"heater", "lift_flag"}
  PROVE  LiftFlag \/ stage' \in {"heater", "lift_flag"}
BY DEF Next, MainLoop, Systime, NoSecond, HeaterSecond, SeqSecond, RegulatorCompute,
       NoRegulatorCompute, AxisWorkers, AxisLook, HeaterWorker, NoSensorCycle,
       LidControlWorker, SeqWorker, SeqPrepare, SeqRefused, SeqVapourReady, SeqPreHeated,
       SeqNextStep, SeqStartCoolDown, SeqCooled, SeqDone, SeqWait, StateWorker, StateBooted,
       StateBooting, SelftestWorker, TestLidDone, TestLidCalibrated, TestLidUp, TestLidIsUp,
       TestLidDown, TestLiftCalibrated, TestLiftIsDown, TestLiftIsUp, TestFans, TestHeaterOn,
       TestHeaterOff, TestCooled, TestWait, TestGoto, PacketWorker, ReflowOn, ReflowOff,
       LidOpen, LidClose, SetLidMode, StartSelftest, NoPacket, Received, LidMotion,
       LiftMotion, LidLifted, Goto, vars

\* An oven that is not asked for a selftest runs none.
LEMMA NeverTested ==
  ASSUME "selftest" \notin Commands
  PROVE  Spec => [](selftest = "STOPPED")
<1>1. Init => selftest = "STOPPED"
  BY DEF Init
<1>2. selftest = "STOPPED" /\ [Next]_vars => (selftest = "STOPPED")'
  <2>1. ~StartSelftest
    BY DEF StartSelftest, Received
  <2> QED
    BY <2>1, Movers, NoTestWaits
<1> QED
  BY <1>1, <1>2, PTL DEF Spec

\* An oven without the mishap sees no overcurrent.
LEMMA NoOvercurrent ==
  ASSUME "overcurrent" \notin Mishaps
  PROVE  Spec => [](~overcurrent)
<1>1. Init => ~overcurrent
  BY DEF Init
<1>2. ~overcurrent /\ [Next]_vars => ~overcurrent'
  <2> SUFFICES ASSUME [Next]_vars, ~overcurrent PROVE ~overcurrent'
    OBVIOUS
  <2>1. CASE AxisWorkers
    <3>1. overcurrent' = overcurrent
      BY <2>1 DEF AxisWorkers, AxisLook
    <3> QED
      BY <3>1, Zenon
  <2>2. CASE SelftestWorker
    <3>1. UNCHANGED overcurrent
      BY <2>2 DEF SelftestWorker, TestLidDone, TestLidCalibrated, TestLidUp, TestLidIsUp,
                  TestLidDown, TestLiftCalibrated, TestLiftIsDown, TestLiftIsUp, TestFans,
                  TestHeaterOn, TestHeaterOff, TestCooled, TestWait, TestFrame, testVars
    <3> QED
      BY <3>1, Zenon
  <2>3. CASE Systime \/ HeaterWorker \/ NoSensorCycle \/ LiftFlag \/ LidControlWorker
             \/ SeqWorker \/ StateWorker
    <3>1. UNCHANGED overcurrent
      BY <2>3 DEF Systime, NoSecond, HeaterSecond, SeqSecond, RegulatorCompute,
                  NoRegulatorCompute, HeaterWorker, NoSensorCycle, LiftFlag, LidControlWorker,
                  SeqWorker, SeqPrepare, SeqRefused, SeqVapourReady, SeqPreHeated,
                  SeqNextStep, SeqStartCoolDown, SeqCooled, SeqDone, SeqWait, SeqFrame,
                  StateWorker, StateBooted, StateBooting, testVars
    <3> QED
      BY <3>1, Zenon
  <2>4. CASE PacketWorker \/ LidMotion \/ LiftMotion \/ LidLifted \/ UNCHANGED vars
    <3>1. UNCHANGED overcurrent
      BY <2>4 DEF PacketWorker, ReflowOn, ReflowOff, LidOpen, LidClose, SetLidMode,
                  StartSelftest, NoPacket, LidMotion, LiftMotion, LidLifted, testVars, vars
    <3> QED
      BY <3>1, Zenon
  <2> QED
    BY <2>1, <2>2, <2>3, <2>4 DEF Next, MainLoop
<1> QED
  BY <1>1, <1>2, PTL DEF Spec

(* The order of boot and of the selftest: the lift is homed after the lid, and  *)
(* calib.liftflag is up from the start of that homing until the lift has been   *)
(* sent to its access position, which a lift test awaits in the same pass.      *)
BootOrder ==
  /\ lift.mode # "NORMAL" => liftflag
  /\ ~booted /\ (lift.mode # "NORMAL" \/ lift.cal_done) => lid.cal_done
  /\ booted /\ selftest # "LIFT_CAL" => ~liftflag /\ lift.mode = "NORMAL"

LiftTested == {"PUMP", "RADIATOR_FANS", "QUICKCOOL_FANS", "HEAT_UP", "COOL_DOWN"}

TestOrder ==
  /\ selftest \notin {"STOPPED", "LID_CAL"} => lid.cal_done
  /\ selftest = "LIFT_CAL" /\ lift.cal_done /\ stage \notin {"heater", "lift_flag"} => ~liftflag
  /\ selftest = "LIFT_UP" =>
       \/ lift.dir = "FWD" /\ lift.target = Far
       \/ lift.dir = "NONE" /\ lift.loc = LiftSpan
  /\ selftest \in LiftTested => lift.dir = "NONE" /\ lift.loc = LiftSpan

\* What the lemmas below know of the other invariants: also that no selftest is cut
\* short.
Known ==
  /\ TypeOK /\ ReflowExcludesSelftest /\ ReflowGuarded /\ LiftFindsTop
  /\ selftest = "STOPPED" \/ ~overcurrent

LEMMA KnownFacts ==
  ASSUME Known
  PROVE  /\ lid \in LidType /\ lift \in LiftType /\ CountsFromTop(lift)
         /\ lift.cal_done => lift.mode = "NORMAL"
         /\ booted /\ selftest # "LIFT_CAL" => lift.cal_done
         /\ seq # "IDLE" => booted /\ lid.mode = "NORMAL" /\ lid.dir # "FWD" /\ ~prepare
         /\ seq # "IDLE" => selftest = "STOPPED"
         /\ selftest # "STOPPED" => booted /\ ~overcurrent
         /\ regulating => seq \in Reflowing
         /\ seq \in SeqStates /\ prepare \in BOOLEAN /\ booted \in BOOLEAN /\ liftflag \in BOOLEAN
BY DEF Known, TypeOK, ReflowExcludesSelftest, ReflowGuarded, LidNotOpenedInReflow,
       RegulatorOnlyInReflow, LiftFindsTop, LiftHomed, LiftHoming, HomesForward

\* State_Worker homes the lid, then the lift, and ends boot after both.
LEMMA BootBoots ==
  ASSUME Known, BootOrder, StateBooting
  PROVE  BootOrder'
<1> DEFINE cal  == BootCalibration
           go   == cal.flag /\ cal.lid.cal_done /\ cal.lift.cal_done
           next == IF go THEN MoveTo(cal.lift, LidOpenPosition) ELSE cal.lift
<1>1. /\ lid' = cal.lid /\ lift' = next /\ liftflag' = (cal.flag /\ ~go)
      /\ booted' = (LiftBootReady(next) /\ LidClosedWith(cal.lid))
      /\ ~booted
  BY DEF StateBooting
<1>2. /\ lid \in LidType /\ lift \in LiftType
      /\ lift.cal_done => lift.mode = "NORMAL"
  BY KnownFacts
<1>3. CASE lid.cal_done /\ ~lift.cal_done /\ lift.mode = "NORMAL"
  <2>1. cal.lid = lid /\ cal.lift = Cal(lift, "FWD") /\ cal.flag
    BY <1>3 DEF BootCalibration
  <2>2. cal.lift.mode = "CAL_FWD" /\ ~cal.lift.cal_done
    BY <1>2, <2>1 DEF Cal, LiftType, AxisType
  <2> HIDE DEF cal
  <2>3. next = cal.lift /\ ~go
    BY <2>2
  <2>4. lift'.mode = "CAL_FWD" /\ ~lift'.cal_done /\ liftflag' /\ lid' = lid /\ ~booted'
    BY <1>1, <2>1, <2>2, <2>3 DEF LiftBootReady
  <2> QED
    BY <1>3, <2>4 DEF BootOrder
<1>4. CASE ~lid.cal_done /\ lid.mode = "NORMAL"
  <2>1. cal.lid = Cal(lid, "BWD") /\ cal.lift = lift /\ cal.flag = liftflag
    BY <1>4 DEF BootCalibration
  <2>2. lift.mode = "NORMAL" /\ ~lift.cal_done
    BY <1>1, <1>4 DEF BootOrder
  <2> HIDE DEF cal
  <2>3. next = lift /\ ~go
    BY <2>1, <2>2
  <2>4. lift' = lift /\ ~booted'
    BY <1>1, <2>2, <2>3 DEF LiftBootReady
  <2> QED
    BY <2>2, <2>4 DEF BootOrder
<1>5. CASE ~(lid.cal_done /\ ~lift.cal_done /\ lift.mode = "NORMAL")
           /\ ~(~lid.cal_done /\ lid.mode = "NORMAL")
  <2>1. cal.lid = lid /\ cal.lift = lift /\ cal.flag = liftflag
    BY <1>5 DEF BootCalibration
  <2> HIDE DEF cal
  <2>2. /\ next.mode = lift.mode /\ next.cal_done = lift.cal_done
    BY <1>2, <2>1, CommandsKeepMode DEF LiftType
  <2>3. lid' = lid /\ lift'.mode = lift.mode /\ lift'.cal_done = lift.cal_done
    BY <1>1, <2>1, <2>2
  <2>4. lift'.mode # "NORMAL" => liftflag'
    BY <1>1, <1>2, <2>1, <2>3 DEF BootOrder
  <2>5. booted' => lift'.mode = "NORMAL" /\ lift'.cal_done
    BY <1>1, <2>1 DEF LiftBootReady
  <2>6. booted' => ~liftflag'
    BY <1>1, <2>1, <2>3, <2>5 DEF BootOrder
  <2> QED
    BY <1>1, <2>3, <2>4, <2>5, <2>6 DEF BootOrder
<1> QED
  BY <1>3, <1>4, <1>5

\* No step but the start of a selftest forgets the homing of the lid.
LEMMA LidStaysHomed ==
  ASSUME Known, [Next]_vars, ~StartSelftest, lid.cal_done
  PROVE  lid'.cal_done
<1>1. \/ Quiet \/ Raised \/ Moving \/ SelftestWorker
  BY Movers
<1>2. lid \in LidType
  BY KnownFacts
<1>3. /\ \A d : Move(lid, d).cal_done = lid.cal_done
      /\ MotorStop(lid).cal_done = lid.cal_done
  BY <1>2 DEF Move, MotorStop, LidType, AxisType
<1>4. CASE AxisWorkers
  BY <1>2, <1>4, WorkerKeepsHoming DEF AxisWorkers, AxisLook, LidType
<1>5. CASE StateBooting
  <2>1. BootCalibration.lid = lid
    BY DEF BootCalibration
  <2> QED
    BY <1>5, <2>1 DEF StateBooting
<1>6. CASE SelftestWorker
  <2>1. lid' = lid \/ lid' = MotorStop(lid) \/ \E d : lid' = Move(lid, d)
    BY <1>6 DEF SelftestWorker, TestLidDone, TestLidCalibrated, TestLidUp, TestLidIsUp,
                TestLidDown, TestLiftCalibrated, TestLiftIsDown, TestLiftIsUp, TestFans,
                TestHeaterOn, TestHeaterOff, TestCooled, TestWait, axisVars
  <2> QED
    BY <1>3, <2>1
<1>7. CASE LidMotion \/ LidLifted
  <2>1. lid' = Advance(lid, 1) \/ lid' = [lid EXCEPT !.loc = 1, !.pos = @ + 1]
    BY <1>7 DEF LidMotion, LidLifted
  <2> QED
    BY <1>2, <2>1 DEF Advance, LidType, AxisType
<1>8. CASE Quiet \/ Raised \/ RegulatorCompute \/ LiftFlag \/ LidControlWorker \/ SeqPrepare
           \/ SeqCooled \/ LidOpen \/ LidClose \/ LiftMotion
  <2>1. lid' = lid \/ \E d : lid' = Move(lid, d)
    BY <1>8 DEF Quiet, Raised, RegulatorCompute, LiftFlag, LidControlWorker, SeqPrepare,
                SeqCooled, SeqFrame, LidOpen, LidClose, LiftMotion
  <2> QED
    BY <1>3, <2>1
<1> QED
  BY <1>1, <1>4, <1>5, <1>6, <1>7, <1>8 DEF Moving

\* The selftest homes the lift with the flag up, and leaves the homing with it down.
LEMMA BootTest ==
  ASSUME Known, BootOrder, TestOrder, SelftestWorker
  PROVE  BootOrder'
<1>1. /\ lift \in LiftType
      /\ lift.cal_done => lift.mode = "NORMAL"
      /\ selftest # "STOPPED" => booted
  BY KnownFacts
<1>2. CASE selftest = "STOPPED"
  BY <1>2, NoTestWaits DEF BootOrder
<1>3. CASE selftest # "STOPPED"
  <2>1. booted /\ booted' = booted
    BY <1>1, <1>3 DEF SelftestWorker, TestLidDone, TestLidCalibrated, TestLidUp, TestLidIsUp,
                TestLidDown, TestLiftCalibrated, TestLiftIsDown, TestLiftIsUp, TestFans,
                TestHeaterOn, TestHeaterOff, TestCooled, TestWait, TestFrame, stateVars
  <2>2. CASE TestLidDone
    BY <2>1, <2>2 DEF TestLidDone, BootOrder
  <2>3. CASE TestLiftCalibrated
    <3>1. lift.cal_done /\ selftest = "LIFT_CAL" /\ stage = "selftest"
          /\ lift' = Move(lift, "BWD") /\ liftflag' = liftflag
      BY <2>3 DEF TestLiftCalibrated, TestGoto, Goto
    <3>2. ~liftflag
      BY <3>1 DEF TestOrder
    <3>3. lift'.mode = "NORMAL"
      BY <1>1, <3>1, CommandsKeepMode DEF LiftType
    <3> QED
      BY <2>1, <3>1, <3>2, <3>3 DEF BootOrder
  <2>4. CASE ~TestLidDone /\ ~TestLiftCalibrated
    <3>1. UNCHANGED liftflag /\ (selftest' # "LIFT_CAL" => selftest # "LIFT_CAL")
      BY <2>4 DEF SelftestWorker, TestLidCalibrated, TestLidUp, TestLidIsUp, TestLidDown,
                  TestLiftIsDown, TestLiftIsUp, TestFans, TestHeaterOn, TestHeaterOff,
                  TestCooled, TestWait, TestGoto, axisVars, testVars
    <3>2. lift' = lift \/ (\E t : lift' = MoveTo(lift, t)) \/ (\E d : lift' = Move(lift, d))
      BY <2>4 DEF SelftestWorker, TestLidCalibrated, TestLidUp, TestLidIsUp, TestLidDown,
                  TestLiftIsDown, TestLiftIsUp, TestFans, TestHeaterOn, TestHeaterOff,
                  TestCooled, TestWait, axisVars
    <3>3. lift'.mode = lift.mode
      BY <1>1, <3>2 DEF Move, MoveTo, LiftType, AxisType
    <3> QED
      BY <2>1, <3>1, <3>3 DEF BootOrder
  <2> QED
    BY <2>2, <2>3, <2>4
<1> QED
  BY <1>2, <1>3

LEMMA BootStep ==
  ASSUME Known, BootOrder, TestOrder, [Next]_vars
  PROVE  BootOrder'
<1>1. CASE SelftestWorker
  BY <1>1, BootTest
<1>2. CASE StartSelftest
  <2>1. CASE CanStartSelftest
    BY <1>2, <2>1 DEF StartSelftest, CanStartSelftest, BaseStartCondition, BootOrder, stateVars
  <2>2. CASE ~CanStartSelftest
    BY <1>2, <2>2 DEF StartSelftest, BootOrder, stateVars
  <2> QED
    BY <2>1, <2>2
<1>3. CASE selftest' = selftest /\ (Quiet \/ Raised \/ Moving) /\ ~StartSelftest
  <2>1. /\ lid \in LidType /\ lift \in LiftType
        /\ lift.cal_done => lift.mode = "NORMAL"
        /\ lid.cal_done => lid'.cal_done
    BY <1>3, KnownFacts, LidStaysHomed
  <2>2. \A t : /\ MoveTo(lift, t).mode = lift.mode /\ MoveTo(lift, t).cal_done = lift.cal_done
               /\ MoveTo(MotorStop(lift), t).mode = lift.mode
               /\ MoveTo(MotorStop(lift), t).cal_done = lift.cal_done
    BY <2>1, CommandsKeepMode, StopType DEF LiftType
  <2>3. CASE AxisWorkers
    <3>1. PICK e1, e2 \in BOOLEAN : AxisLook(e1, e2)
      BY <2>3 DEF AxisWorkers
    <3>2. lift' = Worker(lift, e2) /\ UNCHANGED <<liftflag, booted>>
      BY <3>1 DEF AxisLook, stateVars
    <3>3. lift.mode = "NORMAL" => lift'.mode = "NORMAL" /\ lift'.cal_done = lift.cal_done
      BY <2>1, <3>2, WorkerNormal DEF LiftType
    <3> QED
      BY <1>3, <2>1, <3>2, <3>3 DEF BootOrder
  <2>4. CASE LiftFlag /\ LiftFlagSet
    <3>1. UNCHANGED booted /\ lift' = MoveTo(lift, LidOpenPosition) /\ ~liftflag'
      BY <2>4 DEF LiftFlag, stateVars
    <3>2. lift.cal_done /\ lid.cal_done
      BY <2>4 DEF LiftFlagSet
    <3>3. lift'.mode = "NORMAL"
      BY <2>1, <2>2, <3>1, <3>2
    <3> QED
      BY <2>1, <3>1, <3>2, <3>3 DEF BootOrder
  <2>5. CASE StateBooting
    BY <2>5, BootBoots
  <2>6. CASE ~AxisWorkers /\ ~(LiftFlag /\ LiftFlagSet) /\ ~StateBooting
    <3>1. UNCHANGED <<liftflag, booted>>
      BY <1>3, <2>6 DEF Quiet, Raised, Moving, RegulatorCompute, LidControlWorker, SeqPrepare,
                        SeqCooled, SeqFrame, LidOpen, LidClose, LidMotion, LiftMotion,
                        LidLifted, stateVars
    <3>2. lift'.mode = lift.mode /\ lift'.cal_done = lift.cal_done
      <4>1. CASE LiftMotion
        BY <2>1, <4>1, CommandsKeepMode DEF LiftMotion, LiftType
      <4>2. CASE ~LiftMotion
        BY <1>3, <2>2, <2>6, <4>2 DEF Quiet, Raised, Moving, RegulatorCompute,
           LidControlWorker, SeqPrepare, SeqCooled, RaiseLift, LidOpen, LidClose, LidMotion,
           LidLifted
      <4> QED
        BY <4>1, <4>2
    <3> QED
      BY <1>3, <2>1, <3>1, <3>2 DEF BootOrder
  <2> QED
    BY <2>3, <2>4, <2>5, <2>6
<1> QED
  BY <1>1, <1>2, <1>3, Movers

\* During a selftest only the selftest commands a lift that is homed.
LEMMA LiftAlone ==
  ASSUME Known, BootOrder, [Next]_vars, ~SelftestWorker, selftest \notin {"STOPPED", "LIFT_CAL"}
  PROVE  selftest' = selftest /\ (lift' = lift \/ AxisWorkers \/ LiftMotion)
<1>1. /\ booted /\ ~liftflag /\ seq = "IDLE" /\ ~regulating
  BY KnownFacts DEF BootOrder, Reflowing, Heating
<1>2. CASE StartSelftest
  BY <1>2 DEF StartSelftest, CanStartSelftest, BaseStartCondition
<1>3. CASE selftest' = selftest /\ (Quiet \/ Raised \/ Moving)
  BY <1>1, <1>3 DEF Quiet, Raised, Moving, RegulatorCompute, LiftFlag, LiftFlagSet,
     LidControlWorker, SeqPrepare, SeqCooled, StateBooting, LidOpen, CanOpenLid,
     BaseStartCondition, LidClose, LidMotion, LidLifted
<1> QED
  BY <1>2, <1>3, Movers

\* The selftest lets the lift up from wherever it stands, and leaves it at the top.
LEMMA TestLiftGoesUp ==
  ASSUME Known, BootOrder, TestOrder, [Next]_vars, ~SelftestWorker,
         \/ selftest = "LIFT_UP" /\ lift.dir = "FWD" /\ lift.target = Far
         \/ selftest \in LiftTested \cup {"LIFT_UP"} /\ lift.dir = "NONE" /\ lift.loc = LiftSpan,
         LiftSpan <= Far
  PROVE  \/ selftest = "LIFT_UP" /\ lift'.dir = "FWD" /\ lift'.target = Far
         \/ lift'.dir = "NONE" /\ lift'.loc = LiftSpan
<1>1. lift' = lift \/ AxisWorkers \/ LiftMotion
  BY LiftAlone DEF LiftTested
<1>2. /\ lift \in LiftType /\ CountsFromTop(lift) /\ lift.cal_done /\ lift.mode = "NORMAL"
  BY KnownFacts DEF LiftTested, BootOrder
<1>3. /\ LiftSpan \in Nat \ {0} /\ LiftMax \in Nat /\ Far \in Nat
      /\ lift.loc \in 0 .. LiftSpan /\ lift.span = LiftSpan /\ lift.pos = lift.loc - LiftSpan
      /\ lift.pos_max = LiftMax
  BY <1>2, LiftNumbers
<1>4. CASE lift' = lift
  BY <1>4
<1>5. CASE AxisWorkers
  <2>1. PICK e1, e2 \in BOOLEAN : AxisLook(e1, e2)
    BY <1>5 DEF AxisWorkers
  <2>2. lift' = Worker(lift, e2)
    BY <2>1 DEF AxisLook
  <2>3. /\ lift'.target = lift.target /\ lift'.loc = lift.loc
        /\ lift'.dir = IF AtLimit(lift) \/ TargetReached(lift) THEN "NONE" ELSE lift.dir
    BY <1>2, <2>2, WorkerStops
  <2>4. CASE lift.dir = "NONE"
    BY <2>3, <2>4
  <2>5. CASE lift.dir = "FWD" /\ lift.target = Far /\ selftest = "LIFT_UP"
    <3>1. AtLimit(lift) \/ TargetReached(lift) => lift.loc = LiftSpan
      <4>1. AtLimit(lift) => lift.loc = LiftSpan
        BY <1>3, <2>5 DEF AtLimit, FwdActive
      <4>2. TargetReached(lift) => lift.pos >= Far \/ lift.pos >= LiftMax
        BY <1>3, <2>5 DEF TargetReached
      <4>3. lift.pos >= Far \/ lift.pos >= LiftMax => lift.loc = LiftSpan
        BY <1>3
      <4> QED
        BY <4>1, <4>2, <4>3
    <3> QED
      BY <2>3, <2>5, <3>1
  <2> QED
    BY <2>4, <2>5
<1>6. CASE LiftMotion
  <2>1. CanAdvance(lift) /\ lift' = Advance(lift, LiftStride)
    BY <1>6 DEF LiftMotion
  <2>2. lift.dir # "NONE"
    BY <2>1 DEF CanAdvance
  <2>3. lift'.dir = lift.dir /\ lift'.target = lift.target
    BY <1>2, <2>1 DEF Advance, LiftType, AxisType
  <2> QED
    BY <2>2, <2>3
<1> QED
  BY <1>1, <1>4, <1>5, <1>6

\* The selftest's own steps.
LEMMA TestOrderTest ==
  ASSUME Known, BootOrder, TestOrder, SelftestWorker, [Next]_vars, LiftSpan <= Far
  PROVE  TestOrder'
<1>1. /\ lid \in LidType /\ lift \in LiftType
      /\ selftest # "STOPPED" => ~overcurrent
      /\ lid.cal_done => lid'.cal_done
  <2>1. ~StartSelftest
    BY DEF StartSelftest, Received, SelftestWorker, TestLidDone, TestLidCalibrated, TestLidUp,
           TestLidIsUp, TestLidDown, TestLiftCalibrated, TestLiftIsDown, TestLiftIsUp,
           TestFans, TestHeaterOn, TestHeaterOff, TestCooled, TestWait, TestGoto, Goto
  <2> QED
    BY <2>1, KnownFacts, LidStaysHomed
<1>2. stage = "selftest" /\ stage' = "packet"
  BY DEF SelftestWorker, TestLidDone, TestLidCalibrated, TestLidUp, TestLidIsUp, TestLidDown,
         TestLiftCalibrated, TestLiftIsDown, TestLiftIsUp, TestFans, TestHeaterOn,
         TestHeaterOff, TestCooled, TestWait, TestGoto, Goto
<1>3. CASE TestLidDone
  <2>1. selftest = "LID_DOWN"
    BY <1>1, <1>3 DEF TestLidDone, InLidTest
  <2>2. ~lift'.cal_done /\ selftest' = "LIFT_CAL"
    BY <1>1, <1>3 DEF TestLidDone, Cal, LiftType, AxisType
  <2> QED
    BY <1>1, <2>1, <2>2 DEF TestOrder, LiftTested
<1>4. CASE TestLidCalibrated \/ TestLidUp \/ TestLidIsUp \/ TestLidDown
  <2>1. /\ selftest = "LID_CAL" => lid.cal_done
        /\ selftest # "STOPPED"
        /\ selftest' \in {"LID_CAL_WAIT", "LID_UP", "LID_UP_WAIT", "LID_DOWN"}
    BY <1>4 DEF TestLidCalibrated, TestLidUp, TestLidIsUp, TestLidDown, TestGoto
  <2>2. lid'.cal_done
    BY <1>1, <2>1 DEF TestOrder
  <2> QED
    BY <2>1, <2>2 DEF TestOrder, LiftTested
<1>5. CASE TestLiftCalibrated
  BY <1>1, <1>5 DEF TestLiftCalibrated, TestGoto, TestOrder, LiftTested
<1>6. CASE TestLiftIsDown
  <2>1. selftest = "LIFT_DOWN" /\ selftest' = "LIFT_UP" /\ lift.dir = "NONE"
        /\ lift' = Move(lift, "FWD")
    BY <1>6 DEF TestLiftIsDown, TestGoto, Stopped
  <2>2. \/ lift' = lift /\ lift.loc = lift.span
        \/ lift'.dir = "FWD" /\ lift'.target = Far
    BY <1>1, <2>1 DEF Move, FwdActive, LiftType, AxisType
  <2>3. lift.span = LiftSpan
    BY <1>1 DEF LiftType, AxisType
  <2> QED
    BY <1>1, <2>1, <2>2, <2>3 DEF TestOrder, LiftTested
<1>7. CASE TestLiftIsUp \/ TestFans \/ TestHeaterOn \/ TestHeaterOff
  <2>1. /\ selftest \in LiftTested \/ (selftest = "LIFT_UP" /\ lift.dir = "NONE")
        /\ selftest' \in LiftTested /\ lift' = lift
    BY <1>7 DEF TestLiftIsUp, TestFans, TestHeaterOn, TestHeaterOff, TestGoto, Stopped,
                LiftTested, axisVars
  <2> QED
    BY <1>1, <2>1 DEF TestOrder, LiftTested
<1>8. CASE TestCooled
  BY <1>8 DEF TestCooled, TestGoto, TestOrder, LiftTested
<1>9. CASE TestWait
  <2>1. UNCHANGED <<lid, lift, liftflag, selftest>>
    BY <1>9 DEF TestWait, axisVars, testVars
  <2> QED
    BY <1>2, <2>1 DEF TestOrder
<1> QED
  BY <1>3, <1>4, <1>5, <1>6, <1>7, <1>8, <1>9 DEF SelftestWorker

LEMMA TestStep ==
  ASSUME Known, BootOrder, TestOrder, [Next]_vars, LiftSpan <= Far
  PROVE  TestOrder'
<1>1. CASE SelftestWorker
  BY <1>1, TestOrderTest
<1>2. CASE StartSelftest
  <2>1. selftest' = "LID_CAL" \/ (UNCHANGED <<lid, lift, liftflag, selftest>> /\ stage = "packet")
    BY <1>2 DEF StartSelftest, Received, Goto
  <2> QED
    BY <2>1 DEF TestOrder, LiftTested
<1>3. CASE selftest' = selftest /\ (Quiet \/ Raised \/ Moving) /\ ~StartSelftest
           /\ ~SelftestWorker
  <2>1. lid.cal_done => lid'.cal_done
    BY <1>3, LidStaysHomed
  <2>2. selftest = "LIFT_CAL" /\ lift'.cal_done /\ stage' \notin {"heater", "lift_flag"}
          => ~liftflag'
    <3> SUFFICES ASSUME selftest = "LIFT_CAL", lift'.cal_done,
                        stage' \notin {"heater", "lift_flag"}
                 PROVE  ~liftflag'
      OBVIOUS
    <3>1. /\ lid.cal_done /\ booted /\ seq = "IDLE" /\ ~regulating /\ lift \in LiftType
          /\ liftflag \in BOOLEAN
      BY KnownFacts DEF TestOrder, Reflowing, Heating
    <3>2. CASE LiftFlag
      <4>1. CASE LiftFlagSet
        BY <3>2, <4>1 DEF LiftFlag
      <4>2. CASE ~LiftFlagSet
        BY <3>1, <3>2, <4>2 DEF LiftFlag, LiftFlagSet
      <4> QED
        BY <4>1, <4>2
    <3>3. CASE ~LiftFlag
      <4>1. stage \notin {"heater", "lift_flag"} /\ ~AxisWorkers
        <5>1. stage \notin {"heater", "lift_flag"}
          BY <3>3, StageMoves
        <5>2. AxisWorkers => stage' = "heater"
          BY DEF AxisWorkers, AxisLook, Goto
        <5> QED
          BY <5>1, <5>2
      <4>2. liftflag' = liftflag
        BY <1>3, <3>1, <3>3, <4>1 DEF Quiet, Raised, Moving, RegulatorCompute,
           LidControlWorker, SeqPrepare, SeqCooled, StateBooting, LidOpen, LidClose, LidMotion,
           LiftMotion, LidLifted
      <4>3. lift'.cal_done = lift.cal_done
        <5>1. CASE LiftMotion
          BY <3>1, <5>1, CommandsKeepMode DEF LiftMotion, LiftType
        <5>2. CASE ~LiftMotion
          BY <1>3, <3>1, <3>3, <4>1, <5>2 DEF Quiet, Raised, Moving, RegulatorCompute,
             LidControlWorker, SeqPrepare, SeqCooled, StateBooting, LidOpen, CanOpenLid,
             BaseStartCondition, LidClose, LidMotion, LidLifted
        <5> QED
          BY <5>1, <5>2
      <4> QED
        BY <4>1, <4>2, <4>3 DEF TestOrder
    <3> QED
      BY <3>2, <3>3
  <2>3. CASE selftest \in LiftTested \cup {"LIFT_UP"}
    <3>1. \/ selftest = "LIFT_UP" /\ lift'.dir = "FWD" /\ lift'.target = Far
          \/ lift'.dir = "NONE" /\ lift'.loc = LiftSpan
      BY <1>3, <2>3, TestLiftGoesUp DEF TestOrder
    <3> QED
      BY <1>3, <2>1, <2>2, <2>3, <3>1 DEF TestOrder, LiftTested
  <2>4. CASE selftest \notin LiftTested \cup {"LIFT_UP"}
    BY <1>3, <2>1, <2>2, <2>4 DEF TestOrder
  <2> QED
    BY <2>3, <2>4
<1> QED
  BY <1>1, <1>2, <1>3, Movers

\* The look that ends a homing leaves the lift stopped.
LEMMA WorkerHomesStopped ==
  ASSUME NEW a \in LiftType, NEW e \in BOOLEAN, ~a.cal_done, Worker(a, e).cal_done
  PROVE  Worker(a, e).dir = "NONE"
<1> DEFINE b == LimitSwitchWorker(a)
<1>1. b \in LiftType
  BY LimitSwitchType DEF LiftType
<1>2. CASE ~b.cal_done
  <2>1. ByMode(b, e).cal_done = b.cal_done
    BY <1>1 DEF ByMode, CheckTarget, CalStart, CalFree, MotorRun, MotorStop, LiftType, AxisType
  <2>2. Worker(a, e).cal_done = ByMode(b, e).cal_done
    BY <1>1, ByModeType DEF Worker, LiftType, AxisType
  <2> QED
    BY <1>2, <2>1, <2>2
<1>3. CASE b.cal_done
  <2>1. b = [ClearPosition(MotorStop(a)) EXCEPT !.cal_done = TRUE, !.mode = "NORMAL"]
    BY <1>3 DEF LimitSwitchWorker, LimswRoutine, MotorStop, LiftType, AxisType
  <2>2. b.mode = "NORMAL" /\ b.dir = "NONE"
    BY <2>1 DEF ClearPosition, MotorStop, LiftType, AxisType
  <2> HIDE DEF b
  <2>3. ByMode(b, e) = b
    BY <2>2 DEF ByMode, CheckTarget, TargetReached
  <2> QED
    BY <1>1, <2>2, <2>3 DEF Worker, b, LiftType, AxisType
<1> QED
  BY <1>1, <1>2, <1>3 DEF LiftType, AxisType

(* Outside reflow and selftest a homed lift rests at the top or at its access   *)
(* position, or is on its way to one of them: to the access position at boot,   *)
(* and nowhere while no job runs and no opening is pending.                     *)
LiftHeads ==
  /\ ~booted /\ lift.cal_done /\ liftflag => lift.dir = "NONE"
  /\ ~booted /\ lift.cal_done /\ ~liftflag => Heading(lift, LidOpenPosition)
  /\ booted /\ selftest = "STOPPED" /\ seq \notin Reflowing =>
       Heading(lift, 0) \/ Heading(lift, LidOpenPosition)
  /\ booted /\ selftest = "STOPPED" /\ seq \in {"IDLE", "SAFETY_CHECK"} /\ ~prepare =>
       lift.dir = "NONE"
  /\ prepare => booted

\* Both places to rest are on the travel.
LEMMA Rests ==
  ASSUME Fits
  PROVE  0 \in -LiftSpan .. 0 /\ LidOpenPosition \in -LiftSpan .. 0
BY OvenAssumption DEF Fits

\* A lift that only goes on is heading where it was.
LEMMA HeadsOn ==
  ASSUME LiftHeads, UNCHANGED <<booted, liftflag, prepare, seq, selftest>>,
         lift.cal_done' => lift.cal_done,
         Heading(lift, 0) => Heading(lift, 0)',
         Heading(lift, LidOpenPosition) => Heading(lift, LidOpenPosition)',
         lift.dir = "NONE" => (lift.dir = "NONE")'
  PROVE  LiftHeads'
BY DEF LiftHeads

\* Boot ends with the lift at the access position.
LEMMA HeadsBoot ==
  ASSUME Fits, Known, BootOrder, LiftHeads, StateBooting
  PROVE  LiftHeads'
<1> DEFINE cal  == BootCalibration
           go   == cal.flag /\ cal.lid.cal_done /\ cal.lift.cal_done
           next == IF go THEN MoveTo(cal.lift, LidOpenPosition) ELSE cal.lift
<1>1. /\ lid' = cal.lid /\ lift' = next /\ liftflag' = (cal.flag /\ ~go)
      /\ booted' = (LiftBootReady(next) /\ LidClosedWith(cal.lid))
      /\ UNCHANGED <<prepare, seq>> /\ ~booted
  BY DEF StateBooting, lidVars, seqVars
<1>2. /\ lid \in LidType /\ lift \in LiftType /\ CountsFromTop(lift)
      /\ lift.cal_done => lift.mode = "NORMAL"
      /\ seq = "IDLE"
  BY <1>1, KnownFacts
<1>3. ~prepare
  BY <1>1 DEF LiftHeads
<1>4. CASE ~lift.cal_done
  <2>1. cal.lift \in {lift, Cal(lift, "FWD")}
    BY DEF BootCalibration
  <2>2. ~cal.lift.cal_done
    BY <1>2, <1>4, <2>1 DEF Cal, LiftType, AxisType
  <2> HIDE DEF cal
  <2>3. next = cal.lift
    BY <2>2
  <2>4. ~lift'.cal_done /\ ~booted' /\ ~prepare'
    BY <1>1, <1>3, <2>2, <2>3 DEF LiftBootReady
  <2> QED
    BY <2>4 DEF LiftHeads
<1>5. CASE lift.cal_done
  <2>1. lid.cal_done
    BY <1>1, <1>5 DEF BootOrder
  <2>2. cal.lid = lid /\ cal.lift = lift /\ cal.flag = liftflag
    BY <1>5, <2>1 DEF BootCalibration
  <2> HIDE DEF cal
  <2>3. go <=> liftflag
    BY <1>5, <2>1, <2>2
  <2>4. ~liftflag'
    BY <1>1, <2>2, <2>3
  <2>5. Heading(lift', LidOpenPosition)
    <3>1. CASE liftflag
      <4>1. lift' = MoveTo(lift, LidOpenPosition)
        BY <1>1, <2>2, <2>3, <3>1
      <4>2. lift.dir = "NONE"
        BY <1>1, <1>5, <3>1 DEF LiftHeads
      <4> QED
        BY <1>2, <1>5, <4>1, <4>2, Rests, HeadingMoveTo
    <3>2. CASE ~liftflag
      <4>1. lift' = lift
        BY <1>1, <2>2, <2>3, <3>2
      <4> QED
        BY <1>1, <1>5, <3>2, <4>1 DEF LiftHeads
    <3> QED
      BY <3>1, <3>2
  <2>6. Heading(lift, LidOpenPosition)'
    BY <2>5 DEF Heading, MinDelta
  <2>7. booted' => lift'.dir = "NONE"
    BY <1>1 DEF LiftBootReady
  <2> QED
    BY <1>1, <1>2, <1>3, <2>4, <2>6, <2>7 DEF LiftHeads, Reflowing, Heating
<1> QED
  BY <1>4, <1>5

\* axis_worker: the lift goes on, or its homing ends with a stop.
LEMMA HeadsAxes ==
  ASSUME Fits, Known, BootOrder, LiftHeads, AxisWorkers
  PROVE  LiftHeads'
<1>1. PICK e1, e2 \in BOOLEAN : AxisLook(e1, e2)
  BY DEF AxisWorkers
<1>2. lift' = Worker(lift, e2) /\ UNCHANGED <<liftflag, booted, prepare, seq, selftest>>
  BY <1>1 DEF AxisLook, stateVars, lidVars, seqVars
<1>3. /\ lid \in LidType /\ lift \in LiftType /\ CountsFromTop(lift)
      /\ lift.cal_done => lift.mode = "NORMAL"
      /\ booted /\ selftest # "LIFT_CAL" => lift.cal_done
  BY KnownFacts
<1>4. prepare => booted
  BY DEF LiftHeads
<1>5. CASE lift.cal_done
  <2>1. lift.mode = "NORMAL"
    BY <1>3, <1>5
  <2>2. Heading(lift, 0) => Heading(Worker(lift, e2), 0)
    BY <1>3, <1>5, <2>1, HeadingWorker, Rests
  <2>3. Heading(lift, LidOpenPosition) => Heading(Worker(lift, e2), LidOpenPosition)
    BY <1>3, <1>5, <2>1, HeadingWorker, Rests
  <2>4. Heading(lift, 0) => Heading(lift, 0)'
    BY <1>2, <2>2 DEF Heading, MinDelta
  <2>5. Heading(lift, LidOpenPosition) => Heading(lift, LidOpenPosition)'
    BY <1>2, <2>3 DEF Heading, MinDelta
  <2>6. lift.dir = "NONE" => lift'.dir = "NONE"
    BY <1>2, <1>3, <2>1, WorkerStops
  <2> QED
    BY <1>2, <1>5, <2>4, <2>5, <2>6, HeadsOn
<1>6. CASE ~lift.cal_done
  <2>1. booted => selftest # "STOPPED"
    BY <1>3, <1>6
  <2>2. ~booted /\ lift'.cal_done => liftflag /\ lift'.dir = "NONE"
    <3> SUFFICES ASSUME Worker(lift, e2).cal_done PROVE liftflag /\ lift'.dir = "NONE"
      BY <1>2
    <3>1. lift.mode # "NORMAL"
      BY <1>3, <1>6, WorkerNormal DEF LiftType
    <3>2. liftflag
      BY <3>1 DEF BootOrder
    <3>3. Worker(lift, e2).dir = "NONE"
      BY <1>3, <1>6, WorkerHomesStopped
    <3> QED
      BY <1>2, <3>2, <3>3
  <2> QED
    BY <1>2, <1>4, <2>1, <2>2 DEF LiftHeads
<1> QED
  BY <1>5, <1>6

\* Commands to the lift outside boot and selftest send it to one of the two places,
\* or belong to a reflow.
LEMMA HeadsJobs ==
  ASSUME Fits, Known, BootOrder, LiftHeads, selftest' = selftest, selftest = "STOPPED",
         Quiet \/ Raised \/ Moving
  PROVE  LiftHeads'
<1>2. /\ lift \in LiftType /\ CountsFromTop(lift)
      /\ lift.cal_done => lift.mode = "NORMAL"
      /\ booted => lift.cal_done
      /\ seq # "IDLE" => booted /\ ~prepare
      /\ regulating => seq \in Reflowing
      /\ seq \in SeqStates
  BY KnownFacts
<1>3. prepare => booted
  BY DEF LiftHeads
<1>4. CASE Quiet
  BY <1>2, <1>4 DEF Quiet, LiftHeads, Heading, MinDelta, Reflowing, Heating, LidClosed,
                    LidClosedWith
<1>5. CASE Raised
  <2>1. booted /\ ~prepare /\ lift.cal_done /\ lift.mode = "NORMAL"
    BY <1>2, <1>5 DEF Raised
  <2>2. Heading(MoveTo(MotorStop(lift), 0), 0)
    BY <1>2, <2>1, HeadingRaise, Rests
  <2>3. Heading(lift, 0)'
    BY <1>5, <2>2 DEF Raised, Heading, MinDelta
  <2> QED
    BY <1>5, <2>1, <2>3 DEF Raised, LiftHeads
<1>6. CASE SeqCooled
  <2>1. booted /\ ~prepare /\ lift.cal_done /\ lift.mode = "NORMAL"
    BY <1>2, <1>6 DEF SeqCooled
  <2>2. lift' = MoveTo(MotorStop(lift), LidOpenPosition)
        /\ UNCHANGED <<booted, prepare>> /\ seq' = "CLEANUP"
    BY <1>6 DEF SeqCooled, RaiseLift, SeqFrame, stateVars, lidVars
  <2>3. Heading(MoveTo(MotorStop(lift), LidOpenPosition), LidOpenPosition)
    BY <1>2, <2>1, HeadingRaise, Rests
  <2>4. Heading(lift, LidOpenPosition)'
    BY <2>2, <2>3 DEF Heading, MinDelta
  <2> QED
    BY <2>1, <2>2, <2>4 DEF LiftHeads
<1>7. CASE SeqPrepare \/ RegulatorCompute
  <2>1. booted /\ ~prepare /\ UNCHANGED <<booted, prepare>> /\ seq' \in Reflowing
    <3>1. CASE SeqPrepare
      BY <1>2, <3>1 DEF SeqPrepare, SeqFrame, stateVars, lidVars, Reflowing, Heating
    <3>2. CASE RegulatorCompute
      BY <1>2, <3>2 DEF RegulatorCompute, stateVars, lidVars, seqVars, Reflowing, Heating
    <3> QED
      BY <1>7, <3>1, <3>2
  <2> QED
    BY <2>1 DEF LiftHeads, Reflowing, Heating
<1>8. CASE AxisWorkers
  BY <1>8, HeadsAxes
<1>9. CASE LiftFlag /\ LiftFlagSet
  <2>1. /\ UNCHANGED <<booted, prepare, seq>> /\ lift' = MoveTo(lift, LidOpenPosition)
        /\ ~liftflag'
    BY <1>9 DEF LiftFlag, stateVars, lidVars, seqVars
  <2>2. ~booted /\ lift.cal_done /\ lift.dir = "NONE" /\ ~prepare
    BY <1>3, <1>9 DEF LiftFlagSet, BootOrder, LiftHeads
  <2>3. Heading(MoveTo(lift, LidOpenPosition), LidOpenPosition)
    BY <1>2, <2>2, HeadingMoveTo, Rests
  <2>4. Heading(lift, LidOpenPosition)'
    BY <2>1, <2>3 DEF Heading, MinDelta
  <2> QED
    BY <2>1, <2>2, <2>4 DEF LiftHeads
<1>10. CASE LidControlWorker /\ OpeningDue
  <2>1. UNCHANGED <<lift, liftflag, booted, seq>> /\ ~prepare' /\ prepare /\ lift.dir = "NONE"
    BY <1>10 DEF LidControlWorker, OpeningDue, LiftAtAccess, stateVars, seqVars
  <2> QED
    BY <1>3, <2>1 DEF LiftHeads, Heading, MinDelta
<1>11. CASE StateBooting
  BY <1>11, HeadsBoot
<1>12. CASE LidOpen /\ ~error /\ CanOpenLid
  <2>1. /\ booted /\ seq = "IDLE" /\ ~prepare
        /\ UNCHANGED <<booted, seq>> /\ lift' = MoveTo(lift, LidOpenPosition)
    BY <1>12 DEF LidOpen, CanOpenLid, BaseStartCondition, LidClosed, LidClosedWith, stateVars,
                 seqVars
  <2>2. lift.dir = "NONE" /\ lift.cal_done
    BY <1>2, <2>1 DEF LiftHeads
  <2>3. Heading(MoveTo(lift, LidOpenPosition), LidOpenPosition)
    BY <1>2, <2>2, HeadingMoveTo, Rests
  <2>4. Heading(lift, LidOpenPosition)'
    BY <2>1, <2>3 DEF Heading, MinDelta
  <2>5. prepare'
    BY <1>12 DEF LidOpen
  <2> QED
    BY <2>1, <2>4, <2>5 DEF LiftHeads
<1>13. CASE LidClose \/ LidMotion \/ LidLifted
  <2>1. UNCHANGED <<lift, liftflag, booted, prepare, seq>>
    BY <1>13 DEF LidClose, LidMotion, LidLifted, stateVars, lidVars, seqVars
  <2> QED
    BY <2>1 DEF LiftHeads, Heading, MinDelta
<1>14. CASE LiftMotion
  <2>1. /\ CanAdvance(lift) /\ lift' = Advance(lift, LiftStride)
        /\ UNCHANGED <<liftflag, booted, prepare, seq>>
    BY <1>14 DEF LiftMotion, stateVars, lidVars, seqVars
  <2>2. lift.dir # "NONE"
    BY <2>1 DEF CanAdvance
  <2>3. lift'.cal_done = lift.cal_done
    BY <1>2, <2>1, CommandsKeepMode DEF LiftType
  <2>4. CASE lift.cal_done
    <3>1. Heading(lift, 0) => Heading(Advance(lift, LiftStride), 0)
      BY <1>2, <2>1, <2>4, HeadingAdvance, Rests
    <3>2. Heading(lift, LidOpenPosition) => Heading(Advance(lift, LiftStride), LidOpenPosition)
      BY <1>2, <2>1, <2>4, HeadingAdvance, Rests
    <3>3. /\ Heading(lift, 0) => Heading(lift, 0)'
          /\ Heading(lift, LidOpenPosition) => Heading(lift, LidOpenPosition)'
      BY <2>1, <3>1, <3>2 DEF Heading, MinDelta
    <3> QED
      BY <2>1, <2>2, <2>4, <3>3, HeadsOn
  <2>5. CASE ~lift.cal_done
    BY <1>2, <1>3, <2>1, <2>3, <2>5 DEF LiftHeads
  <2> QED
    BY <2>4, <2>5
<1> QED
  BY <1>4, <1>5, <1>6, <1>7, <1>8, <1>9, <1>10, <1>11, <1>12, <1>13, <1>14 DEF Moving

\* A selftest ends with the lift at the top.
LEMMA HeadsTest ==
  ASSUME Known, BootOrder, TestOrder, LiftHeads, SelftestWorker, selftest # "STOPPED"
  PROVE  LiftHeads'
<1>1. /\ booted /\ seq = "IDLE" /\ lift \in LiftType /\ CountsFromTop(lift)
      /\ selftest # "LIFT_CAL" => lift.cal_done
  BY KnownFacts
<1>2. booted' = booted /\ seq' = seq
  BY DEF SelftestWorker, TestLidDone, TestLidCalibrated, TestLidUp, TestLidIsUp, TestLidDown,
         TestLiftCalibrated, TestLiftIsDown, TestLiftIsUp, TestFans, TestHeaterOn,
         TestHeaterOff, TestCooled, TestWait, TestFrame, stateVars, seqVars
<1>3. CASE TestCooled
  <2>1. lift' = lift /\ selftest = "COOL_DOWN"
    BY <1>3 DEF TestCooled, TestGoto, axisVars
  <2>2. lift.dir = "NONE" /\ lift.loc = LiftSpan /\ lift.cal_done
    BY <1>1, <2>1 DEF TestOrder, LiftTested
  <2>3. lift.pos = 0 /\ MinPosOffset \in Nat
    BY <1>1, <2>2, LiftNumbers
  <2>4. ~(Abs(0 - lift.pos) > MinPosOffset)
    BY <2>3 DEF Abs
  <2>5. lift'.dir = "NONE" /\ Heading(lift, 0)'
    BY <2>1, <2>2, <2>4 DEF Heading, MinDelta
  <2> QED
    BY <1>1, <1>2, <2>5 DEF LiftHeads, Reflowing, Heating
<1>4. CASE ~TestCooled
  <2>1. selftest' # "STOPPED"
    BY <1>4 DEF SelftestWorker, TestLidDone, TestLidCalibrated, TestLidUp, TestLidIsUp,
                TestLidDown, TestLiftCalibrated, TestLiftIsDown, TestLiftIsUp, TestFans,
                TestHeaterOn, TestHeaterOff, TestWait, TestGoto, testVars
  <2> QED
    BY <1>1, <1>2, <2>1 DEF LiftHeads
<1> QED
  BY <1>3, <1>4

LEMMA HeadsStep ==
  ASSUME Fits, Known, BootOrder, TestOrder, LiftHeads, [Next]_vars
  PROVE  LiftHeads'
<1>1. CASE SelftestWorker
  <2>1. CASE selftest = "STOPPED"
    BY <1>1, <2>1, NoTestWaits DEF LiftHeads, Heading, MinDelta
  <2> QED
    BY <1>1, <2>1, HeadsTest
<1>2. CASE StartSelftest
  <2>1. UNCHANGED <<lift, liftflag, booted, prepare, seq>>
    BY <1>2 DEF StartSelftest, stateVars, lidVars, seqVars
  <2>2. selftest' = "LID_CAL" \/ selftest' = selftest
    BY <1>2 DEF StartSelftest
  <2> QED
    BY <2>1, <2>2 DEF LiftHeads, Heading, MinDelta
<1>3. CASE selftest' = selftest /\ (Quiet \/ Raised \/ Moving)
  <2>1. CASE selftest = "STOPPED"
    BY <1>3, <2>1, HeadsJobs
  <2>2. CASE selftest # "STOPPED"
    <3>1. booted
      BY <2>2, KnownFacts
    <3>2. booted'
      BY <1>3, <3>1 DEF Quiet, Raised, Moving, RegulatorCompute, AxisWorkers, AxisLook,
         LiftFlag, LidControlWorker, SeqPrepare, SeqCooled, SeqFrame, StateBooting, LidOpen,
         LidClose, LidMotion, LiftMotion, LidLifted, stateVars
    <3> QED
      BY <1>3, <2>2, <3>1, <3>2 DEF LiftHeads
  <2> QED
    BY <2>1, <2>2
<1> QED
  BY <1>1, <1>2, <1>3, Movers

\* No selftest is cut short by an overcurrent.
Undisturbed == "selftest" \notin Commands \/ "overcurrent" \notin Mishaps

\* The orders of boot and selftest, and the way of the lift.
LEMMA LiftHeadsHome ==
  ASSUME Fits, Undisturbed
  PROVE  Spec => [](Known /\ BootOrder /\ TestOrder /\ LiftHeads)
<1>1. Init => BootOrder /\ TestOrder /\ LiftHeads
  <2> SUFFICES ASSUME Init PROVE BootOrder /\ TestOrder /\ LiftHeads
    OBVIOUS
  <2>1. ~booted /\ ~liftflag /\ ~prepare /\ selftest = "STOPPED"
    BY DEF Init
  <2>2. lift.mode = "NORMAL" /\ ~lift.cal_done
    BY DEF Init, AxisInit
  <2> QED
    BY <2>1, <2>2 DEF BootOrder, TestOrder, LiftTested, LiftHeads
<1>2. Known /\ BootOrder /\ TestOrder /\ LiftHeads /\ [Next]_vars
        => (BootOrder /\ TestOrder /\ LiftHeads)'
  BY BootStep, TestStep, HeadsStep DEF Fits
<1>3. Spec => []Known
  <2>1. Known <=> TypeOK /\ ReflowExcludesSelftest /\ ReflowGuarded /\ LiftFindsTop
                  /\ (selftest = "STOPPED" \/ ~overcurrent)
    BY DEF Known
  <2>2. Spec => [](selftest = "STOPPED" \/ ~overcurrent)
    <3>1. CASE "selftest" \notin Commands
      <4>1. Spec => [](selftest = "STOPPED")
        BY <3>1, NeverTested
      <4> QED
        BY <4>1, PTL
    <3>2. CASE "overcurrent" \notin Mishaps
      <4>1. Spec => [](~overcurrent)
        BY <3>2, NoOvercurrent
      <4> QED
        BY <4>1, PTL
    <3> QED
      BY <3>1, <3>2 DEF Undisturbed
  <2> QED
    BY <2>1, <2>2, TypeCorrect, Exclusion, ReflowSafe, LiftSafe, PTL
<1> QED
  BY <1>1, <1>2, <1>3, PTL DEF Spec

\* The lift is left at the top or at its access position, however a job ends and
\* whatever it was, if no selftest is cut short by an overcurrent.
THEOREM LiftParks ==
  ASSUME Fits, Undisturbed
  PROVE  Spec => []LiftParked
<1>1. Known /\ BootOrder /\ TestOrder /\ LiftHeads => LiftParked
  <2> SUFFICES ASSUME LiftHeads, booted, seq = "IDLE", selftest = "STOPPED", Stopped(lift)
               PROVE  \E rest \in {0, LidOpenPosition} : ~MinDelta(lift, rest)
    BY DEF LiftParked
  <2>1. Heading(lift, 0) \/ Heading(lift, LidOpenPosition)
    BY DEF LiftHeads, Reflowing, Heating
  <2> QED
    BY <2>1 DEF Heading, Stopped
<1> QED
  BY <1>1, LiftHeadsHome, PTL

-----------------------------------------------------------------------------
(* Lid and lift keep apart.                                                 *)

(* The lid runs open only over a lift at its access position; and it is shut,   *)
(* with its motor off, whenever the lift travels or a job is on.                *)
LidOpens == booted /\ lid.dir = "FWD" => LiftAtAccess(lift) /\ seq = "IDLE" /\ ~prepare

LidRests ==
  booted /\ (lift.dir # "NONE" \/ seq # "IDLE" \/ prepare) => lid.loc = 0 /\ lid.dir = "NONE"

LidMoves == LidOpens /\ LidRests /\ (booted => lid.mode = "NORMAL")

\* A pending opening has sent the lift to its access position.
PendingHeads == prepare => Heading(lift, LidOpenPosition)

\* Without selftests every step is one of these.
LEMMA MoversUntested ==
  ASSUME "selftest" \notin Commands, selftest = "STOPPED", [Next]_vars
  PROVE  selftest' = "STOPPED" /\ (Quiet \/ Raised \/ Moving)
<1>1. ~StartSelftest
  BY DEF StartSelftest, Received
<1>2. SelftestWorker => Quiet /\ selftest' = selftest
  BY NoTestWaits DEF Quiet
<1> QED
  BY <1>1, <1>2, Movers

\* A closed lid is at its switch and stands.
LEMMA ClosedRests ==
  ASSUME NEW l, LidClosedWith(l)
  PROVE  l.loc = 0 /\ l.dir = "NONE"
BY DEF LidClosedWith, BwdActive

\* axis_worker starts neither carriage that was still, and takes neither along.
LEMMA LidMovesAxes ==
  ASSUME Known, BootOrder, selftest = "STOPPED", LidMoves, AxisWorkers
  PROVE  LidMoves'
<1>1. PICK e1, e2 \in BOOLEAN : AxisLook(e1, e2)
  BY DEF AxisWorkers
<1>2. lid' = Worker(lid, e1) /\ lift' = Worker(lift, e2) /\ UNCHANGED <<booted, prepare, seq>>
  BY <1>1 DEF AxisLook, stateVars, lidVars, seqVars
<1>3. CASE booted
  <2>1. lid \in LidType /\ lift \in LiftType /\ lid.mode = "NORMAL" /\ lift.mode = "NORMAL"
    BY <1>3, KnownFacts DEF BootOrder, LidMoves
  <2>1a. lid'.mode = "NORMAL"
    BY <1>2, <2>1, WorkerNormal DEF LidType
  <2>2. lid'.dir \in {lid.dir, "NONE"} /\ lid'.loc = lid.loc
    <3>1. lid'.dir \in {lid.dir, "NONE"}
      BY <1>2, <2>1, WorkerNormal DEF LidType
    <3>2. LimitSwitchWorker(lid).loc = lid.loc /\ LimitSwitchWorker(lid).mode = "NORMAL"
      BY <2>1 DEF LimitSwitchWorker, LimswRoutine, MotorStop, LidType, AxisType
    <3>3. LimitSwitchWorker(lid) \in LidType
      BY <2>1, LimitSwitchType DEF LidType
    <3>4. Worker(lid, e1).loc = lid.loc
      BY <3>2, <3>3 DEF Worker, ByMode, CheckTarget, MotorStop, LidType, AxisType
    <3> QED
      BY <1>2, <3>1, <3>4
  <2>3. lift'.pos = lift.pos /\ lift'.dir \in {lift.dir, "NONE"}
    BY <1>2, <2>1, WorkerStops
  <2>4. CASE lid.dir = "FWD"
    <3>1. LiftAtAccess(lift) /\ seq = "IDLE" /\ ~prepare /\ lift.dir = "NONE"
      BY <1>3, <2>4 DEF LidMoves, LidOpens, LiftAtAccess
    <3>2. LiftAtAccess(lift)' /\ seq' = "IDLE" /\ ~prepare' /\ lift'.dir = "NONE"
      BY <1>2, <2>3, <3>1 DEF LiftAtAccess
    <3> QED
      BY <2>1a, <3>2 DEF LidMoves, LidOpens, LidRests, LiftAtAccess
  <2>5. CASE lid.dir # "FWD"
    <3>1. lid'.dir # "FWD"
      BY <2>2, <2>5
    <3>2. LidRests'
      BY <1>2, <1>3, <2>2, <2>3 DEF LidMoves, LidRests
    <3> QED
      BY <2>1a, <3>1, <3>2 DEF LidMoves, LidOpens
  <2> QED
    BY <2>4, <2>5
<1>4. CASE ~booted
  BY <1>2, <1>4 DEF LidMoves, LidOpens, LidRests
<1> QED
  BY <1>3, <1>4

\* Whatever starts the lift finds the lid shut, and what opens the lid finds the
\* lift still.
LEMMA LidMovesStep ==
  ASSUME "lid_lifted" \notin Mishaps, Known, BootOrder, selftest = "STOPPED", LiftHeads,
         LidMoves, Quiet \/ Raised \/ Moving
  PROVE  LidMoves'
<1>2. /\ lid \in LidType /\ lift \in LiftType
      /\ seq # "IDLE" => booted /\ lid.dir # "FWD" /\ ~prepare
      /\ regulating => seq \in Reflowing
      /\ prepare => booted
  BY KnownFacts DEF LiftHeads
<1>3. CASE Quiet
  <2>1. UNCHANGED <<lid, lift, prepare, booted>>
    BY <1>3 DEF Quiet
  <2>2. seq' # "IDLE" /\ seq = "IDLE" => lid.loc = 0 /\ lid.dir = "NONE"
    BY <1>3, ClosedRests DEF Quiet, LidClosed, Reflowing, Heating
  <2>3. LidRests'
    BY <2>1, <2>2 DEF LidMoves, LidRests
  <2>4. LidOpens'
    BY <1>2, <2>1, <2>2 DEF LidMoves, LidOpens, LiftAtAccess
  <2> QED
    BY <2>1, <2>3, <2>4 DEF LidMoves
<1>4. CASE Raised \/ SeqCooled \/ SeqPrepare \/ RegulatorCompute
  <2>1. booted /\ seq # "IDLE" /\ UNCHANGED <<lid, booted>>
    BY <1>2, <1>4 DEF Raised, SeqCooled, SeqPrepare, SeqFrame, RegulatorCompute, Reflowing,
                      Heating, stateVars
  <2>2. lid.loc = 0 /\ lid.dir = "NONE"
    BY <2>1 DEF LidMoves, LidRests
  <2> QED
    BY <2>1, <2>2 DEF LidMoves, LidOpens, LidRests
<1>5. CASE AxisWorkers
  BY <1>5, LidMovesAxes
<1>6. CASE LiftFlag /\ LiftFlagSet
  <2>1. ~booted /\ ~booted'
    BY <1>6 DEF LiftFlag, LiftFlagSet, BootOrder, stateVars
  <2> QED
    BY <2>1 DEF LidMoves, LidOpens, LidRests
<1>7. CASE LidControlWorker /\ OpeningDue
  <2>1. /\ UNCHANGED <<lift, booted, seq>> /\ ~prepare' /\ lid' = Move(lid, "FWD")
        /\ prepare /\ LiftAtAccess(lift) /\ lift.dir = "NONE"
    BY <1>7 DEF LidControlWorker, OpeningDue, LiftAtAccess, stateVars, seqVars
  <2>2. seq = "IDLE"
    BY <1>2, <2>1
  <2>3. lid'.mode = lid.mode
    BY <1>2, <2>1, CommandsKeepMode DEF LidType
  <2> QED
    BY <2>1, <2>2, <2>3 DEF LidMoves, LidOpens, LidRests, LiftAtAccess
<1>8. CASE StateBooting
  <2>1. booted' => LidClosedWith(lid')
    BY <1>8 DEF StateBooting
  <2>2. booted' => lid'.loc = 0 /\ lid'.dir = "NONE" /\ lid'.mode = "NORMAL"
    BY <2>1, ClosedRests DEF LidClosedWith
  <2> QED
    BY <2>2 DEF LidMoves, LidOpens, LidRests
<1>9. CASE LidOpen /\ ~error /\ CanOpenLid
  <2>1. LidClosedWith(lid) /\ UNCHANGED lid
    BY <1>9 DEF LidOpen, CanOpenLid, LidClosed
  <2>2. lid'.loc = 0 /\ lid'.dir = "NONE" /\ lid'.mode = "NORMAL"
    BY <2>1, ClosedRests DEF LidClosedWith
  <2> QED
    BY <2>2 DEF LidMoves, LidOpens, LidRests
<1>10. CASE LidClose
  <2>1. UNCHANGED <<lift, booted, seq, prepare>> /\ lid' \in {lid, Move(lid, "BWD")}
    BY <1>10 DEF LidClose, stateVars, seqVars, lidVars
  <2>2. /\ lid'.loc = lid.loc /\ lid'.dir \in {lid.dir, "BWD"} /\ lid'.mode = lid.mode
        /\ lid.loc = 0 => lid'.dir = lid.dir
    BY <1>2, <2>1 DEF Move, BwdActive, LidType, AxisType
  <2>3. LidRests'
    BY <2>1, <2>2 DEF LidMoves, LidRests
  <2>4. LidOpens'
    BY <2>1, <2>2 DEF LidMoves, LidOpens, LiftAtAccess
  <2> QED
    BY <2>1, <2>2, <2>3, <2>4 DEF LidMoves
<1>11. CASE LidMotion
  <2>1. UNCHANGED <<lift, booted, seq, prepare>> /\ lid' = Advance(lid, 1) /\ lid.dir # "NONE"
    BY <1>11 DEF LidMotion, CanAdvance, stateVars, seqVars, lidVars
  <2>2. lid'.dir = lid.dir /\ lid'.mode = lid.mode
    BY <1>2, <2>1, CommandsKeepMode DEF LidType
  <2> QED
    BY <2>1, <2>2 DEF LidMoves, LidOpens, LidRests, LiftAtAccess
<1>12. CASE LiftMotion
  <2>1. /\ UNCHANGED <<lid, booted, seq, prepare>> /\ lift' = Advance(lift, LiftStride)
        /\ lift.dir # "NONE"
    BY <1>12 DEF LiftMotion, CanAdvance, stateVars, seqVars, lidVars
  <2>2. booted => lid.loc = 0 /\ lid.dir = "NONE"
    BY <2>1 DEF LidMoves, LidRests
  <2> QED
    BY <2>1, <2>2 DEF LidMoves, LidOpens, LidRests
<1>13. ~LidLifted
  BY DEF LidLifted
<1> QED
  BY <1>3, <1>4, <1>5, <1>6, <1>7, <1>8, <1>9, <1>10, <1>11, <1>12, <1>13 DEF Moving

\* Nothing but the lid's start ends the way of the lift to its access position.
LEMMA PendingStep ==
  ASSUME Fits, Known, BootOrder, selftest = "STOPPED", LiftHeads, PendingHeads,
         Quiet \/ Raised \/ Moving
  PROVE  PendingHeads'
<1>1. /\ lift \in LiftType /\ CountsFromTop(lift)
      /\ lift.cal_done => lift.mode = "NORMAL"
      /\ booted => lift.cal_done
      /\ seq # "IDLE" => ~prepare
      /\ regulating => seq # "IDLE"
      /\ prepare => booted
  BY KnownFacts DEF LiftHeads, Reflowing, Heating
<1>2. CASE Raised \/ SeqCooled \/ SeqPrepare \/ RegulatorCompute
  <2>1. ~prepare /\ prepare' = prepare
    BY <1>1, <1>2 DEF Raised, SeqCooled, SeqPrepare, SeqFrame, RegulatorCompute, lidVars
  <2> QED
    BY <2>1 DEF PendingHeads
<1>3. CASE AxisWorkers
  <2>1. PICK e1, e2 \in BOOLEAN : AxisLook(e1, e2)
    BY <1>3 DEF AxisWorkers
  <2>2. lift' = Worker(lift, e2) /\ prepare' = prepare
    BY <2>1 DEF AxisLook, lidVars
  <2>3. prepare => Heading(Worker(lift, e2), LidOpenPosition)
    BY <1>1, HeadingWorker, Rests DEF PendingHeads
  <2> QED
    BY <2>2, <2>3 DEF PendingHeads, Heading, MinDelta
<1>4. CASE LiftFlag /\ LiftFlagSet
  <2>1. ~prepare /\ prepare' = prepare
    BY <1>1, <1>4 DEF LiftFlag, LiftFlagSet, BootOrder, lidVars
  <2> QED
    BY <2>1 DEF PendingHeads
<1>5. CASE LidControlWorker /\ OpeningDue
  BY <1>5 DEF LidControlWorker, PendingHeads
<1>6. CASE StateBooting
  <2>1. ~prepare /\ prepare' = prepare
    BY <1>1, <1>6 DEF StateBooting, lidVars
  <2> QED
    BY <2>1 DEF PendingHeads
<1>7. CASE LidOpen /\ ~error /\ CanOpenLid
  <2>1. booted /\ seq = "IDLE" /\ ~prepare /\ lift' = MoveTo(lift, LidOpenPosition)
    BY <1>7 DEF LidOpen, CanOpenLid, BaseStartCondition, LidClosed, LidClosedWith
  <2>2. lift.dir = "NONE" /\ lift.cal_done
    BY <1>1, <2>1 DEF LiftHeads
  <2>3. Heading(MoveTo(lift, LidOpenPosition), LidOpenPosition)
    BY <1>1, <2>2, HeadingMoveTo, Rests
  <2> QED
    BY <2>1, <2>3 DEF PendingHeads, Heading, MinDelta
<1>8. CASE Quiet \/ LidClose \/ LidMotion \/ LidLifted
  <2>1. UNCHANGED <<lift, prepare>>
    BY <1>8 DEF Quiet, LidClose, LidMotion, LidLifted, lidVars
  <2> QED
    BY <2>1 DEF PendingHeads, Heading, MinDelta
<1>9. CASE LiftMotion
  <2>1. CanAdvance(lift) /\ lift' = Advance(lift, LiftStride) /\ prepare' = prepare
    BY <1>9 DEF LiftMotion, lidVars
  <2>2. prepare => Heading(Advance(lift, LiftStride), LidOpenPosition)
    BY <1>1, <2>1, HeadingAdvance, Rests DEF PendingHeads
  <2> QED
    BY <2>1, <2>2 DEF PendingHeads, Heading, MinDelta
<1> QED
  BY <1>2, <1>3, <1>4, <1>5, <1>6, <1>7, <1>8, <1>9 DEF Moving

\* Where strides take a lift that starts a number of strides above its bottom.
Stands ==
  {l \in 0 .. LiftSpan : \E k \in Nat : l = k * LiftStride \/ LiftSpan - l = k * LiftStride}

\* None of these places is exactly a whole offset away from the access position:
\* there axis_move_to discards the move, and lift_lid_open_state_reached does not
\* yet hold (axis.c:197, lift.c:64).
NeverJustAway == \A l \in Stands : Abs((l - LiftSpan) - LidOpenPosition) # MinPosOffset

\* A stride leads from stand to stand.
LEMMA StrideStands ==
  ASSUME NEW a, a.loc \in Stands, a.span = LiftSpan
  PROVE  Reach(a, LiftStride) \in Stands
<1>1. /\ LiftSpan \in Nat \ {0} /\ LiftStride \in Nat \ {0}
  BY OvenAssumption
<1>2. PICK k \in Nat : a.loc = k * LiftStride \/ LiftSpan - a.loc = k * LiftStride
  BY DEF Stands
<1>3. a.loc \in 0 .. LiftSpan
  BY DEF Stands
<1>4. 0 \in Stands /\ LiftSpan \in Stands
  <2>1. 0 = 0 * LiftStride /\ LiftSpan - LiftSpan = 0 * LiftStride
    BY <1>1
  <2>2. 0 \in 0 .. LiftSpan /\ LiftSpan \in 0 .. LiftSpan /\ 0 \in Nat
    BY <1>1
  <2> QED
    BY <2>1, <2>2 DEF Stands
<1>5. CASE a.dir = "FWD" /\ ~(a.loc + LiftStride > a.span)
  <2> DEFINE l == a.loc + LiftStride
  <2>1. Reach(a, LiftStride) = l
    BY <1>5 DEF Reach
  <2>2. l \in 0 .. LiftSpan
    BY <1>1, <1>3, <1>5
  <2>3. \E j \in Nat : l = j * LiftStride \/ LiftSpan - l = j * LiftStride
    <3>1. CASE a.loc = k * LiftStride
      <4>1. l = (k + 1) * LiftStride /\ k + 1 \in Nat
        BY <1>1, <1>2, <3>1
      <4> QED
        BY <4>1
    <3>2. CASE LiftSpan - a.loc = k * LiftStride
      <4>1. LiftSpan - l = (k - 1) * LiftStride
        BY <1>1, <1>2, <1>3, <3>2
      <4>2. k # 0
        <5>1. k = 0 => k * LiftStride = 0
          BY <1>1
        <5> QED
          BY <1>1, <1>3, <1>5, <3>2, <5>1
      <4>3. k - 1 \in Nat
        BY <1>2, <4>2
      <4> QED
        BY <4>1, <4>3
    <3> QED
      BY <1>2, <3>1, <3>2
  <2> HIDE DEF l
  <2> QED
    BY <2>1, <2>2, <2>3 DEF Stands
<1>6. CASE a.dir # "FWD" /\ ~(a.loc - LiftStride < 0)
  <2> DEFINE l == a.loc - LiftStride
  <2>1. Reach(a, LiftStride) = l
    BY <1>6 DEF Reach
  <2>2. l \in 0 .. LiftSpan
    BY <1>1, <1>3, <1>6
  <2>3. \E j \in Nat : l = j * LiftStride \/ LiftSpan - l = j * LiftStride
    <3>1. CASE LiftSpan - a.loc = k * LiftStride
      <4>1. LiftSpan - l = (k + 1) * LiftStride /\ k + 1 \in Nat
        BY <1>1, <1>2, <1>3, <3>1
      <4> QED
        BY <4>1
    <3>2. CASE a.loc = k * LiftStride
      <4>1. l = (k - 1) * LiftStride
        BY <1>1, <1>2, <3>2
      <4>2. k # 0
        <5>1. k = 0 => k * LiftStride = 0
          BY <1>1
        <5> QED
          BY <1>1, <1>3, <1>6, <3>2, <5>1
      <4>3. k - 1 \in Nat
        BY <1>2, <4>2
      <4> QED
        BY <4>1, <4>3
    <3> QED
      BY <1>2, <3>1, <3>2
  <2> HIDE DEF l
  <2> QED
    BY <2>1, <2>2, <2>3 DEF Stands
<1> QED
  BY <1>4, <1>5, <1>6 DEF Reach

\* Only a stride changes where the lift is.
LEMMA LiftStandsStep ==
  ASSUME Known, lift.loc \in Stands, Quiet \/ Raised \/ Moving
  PROVE  (lift.loc \in Stands)'
<1>2. lift \in LiftType
  BY KnownFacts
<1>3. \A t : MoveTo(lift, t).loc = lift.loc /\ MoveTo(MotorStop(lift), t).loc = lift.loc
  BY <1>2 DEF MoveTo, MotorStop, LiftType, AxisType
<1>4. CASE AxisWorkers
  <2>1. PICK e1, e2 \in BOOLEAN : AxisLook(e1, e2)
    BY <1>4 DEF AxisWorkers
  <2>2. lift' = Worker(lift, e2)
    BY <2>1 DEF AxisLook
  <2>3. LimitSwitchWorker(lift).loc = lift.loc
    BY <1>2 DEF LimitSwitchWorker, LimswRoutine, ClearPosition, MotorStop, LiftType, AxisType
  <2>4. LimitSwitchWorker(lift) \in LiftType
    BY <1>2, LimitSwitchType DEF LiftType
  <2>5. \A b \in LiftType : ByMode(b, e2).loc = b.loc
    BY DEF ByMode, CheckTarget, CalStart, CalFree, MotorRun, MotorStop, LiftType, AxisType
  <2>6. ByMode(LimitSwitchWorker(lift), e2) \in LiftType
    BY <2>1, <2>4, ByModeType DEF LiftType
  <2>7. Worker(lift, e2).loc = lift.loc
    BY <2>3, <2>4, <2>5, <2>6 DEF Worker, LiftType, AxisType
  <2> QED
    BY <2>2, <2>7
<1>5. CASE StateBooting
  <2>1. BootCalibration.lift \in {lift, Cal(lift, "FWD")}
    BY DEF BootCalibration
  <2>2. BootCalibration.lift \in LiftType /\ BootCalibration.lift.loc = lift.loc
    BY <1>2, <2>1, LiftCalls DEF Cal, LiftType, AxisType
  <2>3. lift' \in {BootCalibration.lift, MoveTo(BootCalibration.lift, LidOpenPosition)}
    BY <1>5 DEF StateBooting
  <2>4. MoveTo(BootCalibration.lift, LidOpenPosition).loc = lift.loc
    BY <2>2 DEF MoveTo, LiftType, AxisType
  <2> QED
    BY <2>2, <2>3, <2>4
<1>6. CASE LiftMotion
  <2>1. lift' = Advance(lift, LiftStride) /\ lift.span = LiftSpan
    BY <1>2, <1>6 DEF LiftMotion, LiftType, AxisType
  <2>2. lift'.loc = Reach(lift, LiftStride)
    BY <1>2, <2>1 DEF Advance, LiftType, AxisType
  <2> QED
    BY <2>1, <2>2, StrideStands DEF Stands
<1>7. CASE Quiet \/ Raised \/ RegulatorCompute \/ LiftFlag \/ LidControlWorker \/ SeqPrepare
           \/ SeqCooled \/ LidOpen \/ LidClose \/ LidMotion \/ LidLifted
  <2>1. lift'.loc = lift.loc
    BY <1>3, <1>7 DEF Quiet, Raised, RegulatorCompute, LiftFlag, LidControlWorker, SeqPrepare,
                      SeqCooled, RaiseLift, LidOpen, LidClose, LidMotion, LidLifted
  <2> QED
    BY <2>1 DEF Stands
<1> QED
  BY <1>4, <1>5, <1>6, <1>7 DEF Moving

\* Lid and lift of an oven without selftests, whose lid is not lifted by hand, never
\* get into each other's way, and no granted opening finds the lift neither there
\* nor moving.
THEOREM LidAndLiftKeepApart ==
  ASSUME Fits, NeverJustAway, "selftest" \notin Commands, "lid_lifted" \notin Mishaps
  PROVE  Spec => []LidAndLiftApart
<1> DEFINE Others == Known /\ BootOrder /\ TestOrder /\ LiftHeads
           Apart == LidMoves /\ PendingHeads /\ lift.loc \in Stands
<1>1. Init => Apart
  <2> SUFFICES ASSUME Init PROVE Apart
    OBVIOUS
  <2>1. PICK l \in 0 .. LiftSpan :
          l % LiftStride = 0 /\ lift = AxisInit(LiftSpan, -Far, LiftMax, l)
    BY DEF Init
  <2>2. lift.loc = l
    BY <2>1 DEF AxisInit
  <2>3. l = (l \div LiftStride) * LiftStride /\ l \div LiftStride \in Nat
    <3>1. l \in Nat /\ LiftStride \in Nat \ {0} /\ l % LiftStride = 0
      BY <2>1, OvenAssumption
    <3>2. \A i \in Nat, s \in Nat \ {0} : i = s * (i \div s) + (i % s)
      OBVIOUS
    <3>3. \A i \in Nat, s \in Nat \ {0} : i \div s \in Nat
      OBVIOUS
    <3>4. \A i \in Int, j \in Int : i * j = j * i
      OBVIOUS
    <3> QED
      BY <3>1, <3>2, <3>3, <3>4
  <2>4. lift.loc \in Stands
    BY <2>2, <2>3 DEF Stands
  <2>5. ~booted /\ ~prepare
    BY DEF Init
  <2> QED
    BY <2>4, <2>5 DEF LidMoves, LidOpens, LidRests, PendingHeads
<1>2. Others /\ selftest = "STOPPED" /\ Apart /\ [Next]_vars => Apart'
  <2> SUFFICES ASSUME Others, selftest = "STOPPED", Apart, [Next]_vars PROVE Apart'
    OBVIOUS
  <2>1. Quiet \/ Raised \/ Moving
    BY MoversUntested
  <2> QED
    BY <2>1, LidMovesStep, PendingStep, LiftStandsStep
<1>3. Others /\ selftest = "STOPPED" /\ Apart => LidAndLiftApart
  <2> SUFFICES ASSUME Others, selftest = "STOPPED", Apart PROVE LidAndLiftApart
    OBVIOUS
  <2>1. LiftStillWhileLidOpens
    BY DEF LiftStillWhileLidOpens, LidMoves, LidOpens
  <2>2. LiftTravelsUnderClosedLid
    BY DEF LiftTravelsUnderClosedLid, LidMoves, LidRests
  <2>3. PendingOpeningMoves
    <3> SUFFICES ASSUME prepare, lift.dir = "NONE" PROVE LiftAtAccess(lift)
      BY DEF PendingOpeningMoves, Stopped
    <3>1. booted /\ ~MinDelta(lift, LidOpenPosition)
      BY DEF LiftHeads, PendingHeads, Heading
    <3>2. lift.cal_done /\ CountsFromTop(lift) /\ lift \in LiftType
      BY <3>1, KnownFacts
    <3>3. /\ lift.pos = lift.loc - LiftSpan /\ lift.loc \in 0 .. LiftSpan
          /\ LiftSpan \in Nat /\ LidOpenPosition \in Int /\ MinPosOffset \in Nat
      BY <3>2, LiftNumbers
    <3>4. Abs(lift.pos - LidOpenPosition) # MinPosOffset
      BY <3>3 DEF NeverJustAway
    <3>5. ~(Abs(LidOpenPosition - lift.pos) > MinPosOffset)
      BY <3>1 DEF MinDelta
    <3>6. Abs(lift.pos - LidOpenPosition) < MinPosOffset
      BY <3>3, <3>4, <3>5 DEF Abs
    <3> QED
      BY <3>6 DEF LiftAtAccess
  <2> QED
    BY <2>1, <2>2, <2>3 DEF LidAndLiftApart
<1>4. Spec => []Others /\ [](selftest = "STOPPED")
  BY LiftHeadsHome, NeverTested, PTL DEF Undisturbed
<1> QED
  BY <1>1, <1>2, <1>3, <1>4, PTL DEF Spec
=============================================================================
