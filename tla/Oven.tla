-------------------------------- MODULE Oven --------------------------------
(***************************************************************************)
(* The oven control of core-fw: the reflow sequence (control/sequence.c),  *)
(* the state arbitration (control/state.c), the lid control                *)
(* (control/lid_control.c), the selftest (control/selftest.c), the heater  *)
(* with its watchdog (modules/heater.c), the lift regulator                *)
(* (modules/regulator.c) and the two axes, run by the main loop            *)
(* (main/loop.c) against the commands of the display                       *)
(* (com_stack/properties.c).                                               *)
(*                                                                         *)
(* One pass of the main loop is a cycle of the variable stage; each stage  *)
(* is one call of the loop, in the order of the loop.  Between any two     *)
(* stages a carriage may travel a stride (LidMotion, LiftMotion) and a closed lid may be  *)
(* lifted off its limit switch by hand (LidLifted).                        *)
(***************************************************************************)
EXTENDS Axis

CONSTANTS
  LidSpan, LiftSpan, LiftStride, \* the machine, in counts of the model
  LiftMax,                       \* LIFT_MAX; LIFT_MIN is beyond the travel
  LidOpenPosition,               \* LIFT_LID_OPEN_POSITION
  HeaterBand,                    \* the -5000 of control_heater
  GaldenSetting, AcTemp,         \* globalGalden.galdenTemp, globalACT.acTemp
  GaldenTemps, PcbTemps,         \* readings the sensors can deliver
  TotalDatapoints, Points,       \* globalProfile: totalDatapoints, datapoints
  WatchdogSeconds,               \* HEATER_WD_S
  Commands,                      \* what the display may ask for
  Mishaps                        \* what may go wrong

CommandKinds ==
  {"reflow_on", "reflow_off", "lid_open", "lid_close", "lid_mode", "selftest"}
MishapKinds == {"heater_hot", "sensors_stall", "pins", "overcurrent", "lid_lifted"}

LidType == AxisType(LidSpan, -Far, Far)
LiftType == AxisType(LiftSpan, -Far, LiftMax)

ASSUME OvenAssumption ==
  /\ LidSpan \in Nat \ {0}
  /\ LiftSpan \in Nat \ {0}
  /\ LiftStride \in Nat \ {0}
  /\ LiftMax \in Nat
  /\ LidOpenPosition \in Int
  /\ HeaterBand \in Int
  /\ GaldenSetting \in Int
  /\ AcTemp \in Int
  /\ GaldenTemps \subseteq Int
  /\ PcbTemps \subseteq Int
  /\ TotalDatapoints \in Nat
  /\ Points \in [0 .. TotalDatapoints + 1 -> [temperature : Int, time : Nat]]
  /\ \A i \in 0 .. TotalDatapoints : Points[i + 1].time # 0 => Points[i].time # 0
  /\ WatchdogSeconds \in Nat
  /\ Commands \subseteq CommandKinds
  /\ Mishaps \subseteq MishapKinds

VARIABLES
  stage,            \* the call of main_loop that comes next
  lid, lift,        \* lid_axis, lift_axis
  liftflag,         \* calib.liftflag
  prepare,          \* lid_prepare_opening
  temp_met,         \* lid_temperature_requirements_met
  lid_mode,         \* lid_control_lid_open_mode
  met_mode,         \* history: lid_mode when Packet_Worker last returned, hence
                    \* the mode lid_control_worker computes temp_met for
  seq,              \* seq_state
  index, step_time, \* of struct sequence
  regulating,       \* regulator.c: enabled
  target,           \* regulator_target_temperature
  heater,           \* heater.c: enabled
  faulty,           \* heater.c: flags # 0
  watchdog,         \* watchdog_s
  galden,           \* the reading of the galden sensor
  booted,           \* State_Booted
  error,            \* some error_* latch of state.c
  overcurrent,      \* lid_overcurrent
  selftest,         \* selftest_state, with the sub-state of the lid, lift, heater
  first_selftest    \* x = 1 of selftest.c

axisVars == <<lid, lift, liftflag>>
lidVars  == <<prepare, temp_met, lid_mode, met_mode>>
seqVars  == <<seq, index, step_time>>
regVars  == <<regulating, target>>
heatVars == <<heater, faulty, watchdog>>
stateVars == <<booted, error>>
testVars == <<selftest, first_selftest, overcurrent>>
vars == <<stage, axisVars, lidVars, seqVars, regVars, heatVars, galden,
          stateVars, testVars>>

SeqStates == {"IDLE", "SAFETY_CHECK", "GENERATE_VAPOUR", "PRE_HEAT", "RUN",
              "COOL_DOWN", "CLEANUP"}
Stages == {"heater_second", "seq_second", "millis", "axes", "heater",
           "lift_flag", "lid_control", "seq", "state", "selftest", "packet"}
Selftests == {"STOPPED", "LID_CAL", "LID_CAL_WAIT", "LID_UP", "LID_UP_WAIT",
              "LID_DOWN", "LIFT_CAL", "LIFT_DOWN", "LIFT_UP", "PUMP",
              "RADIATOR_FANS", "QUICKCOOL_FANS", "HEAT_UP", "COOL_DOWN"}
LidModes == {"ECO", "STANDARD", "FAST"}

-----------------------------------------------------------------------------
(* Queries.                                                                *)

\* lid_control_lid_state() == LID_STATE_CLOSED
LidClosedWith(l) ==
  /\ l.mode = "NORMAL"
  /\ ~prepare
  /\ l.dir = "NONE"
  /\ BwdActive(l)

LidClosed == LidClosedWith(lid)

OpenTemperatureOf(mode) ==
  CASE mode = "ECO"  -> 70
    [] mode = "FAST" -> 90
    [] OTHER         -> 80

\* lid_control_lid_open_temperature
OpenTemperature == OpenTemperatureOf(lid_mode)

\* mutant: the exact position, where the axis stops near it
LiftAtAccessExactly(l) == l.dir = "NONE" /\ l.pos = LidOpenPosition

\* lift_lid_open_state_reached
LiftAtAccess(l) ==
  /\ l.dir = "NONE"
  /\ Abs(l.pos - LidOpenPosition) < MinPosOffset

\* mutant: the open lid is not looked at
SafetyChecksWithoutLid == lid.cal_done /\ lift.cal_done

\* safety_checks
SafetyChecks == lid.cal_done /\ lift.cal_done /\ LidClosed

\* seq_can_abort
CanAbort == seq \notin {"IDLE", "CLEANUP"}

\* mutant: the zero duration does not end the profile
NextStepToTheEnd == index + 1 <= TotalDatapoints

\* next_step, with the profile array read up to and including its length
NextStep == index + 1 <= TotalDatapoints /\ Points[index + 1].time # 0

\* State_BaseStartCondition
BaseStartCondition == booted /\ seq = "IDLE" /\ selftest = "STOPPED"

\* mutant: the lid may be open
CanStartReflowOpen == BaseStartCondition

\* State_CanStartReflow, but for the water temperature
CanStartReflow == BaseStartCondition /\ LidClosed

\* mutant: a reflow may be running
CanStartSelftestInReflow == booted /\ selftest = "STOPPED" /\ galden < 50

\* State_CanStartSelftest
CanStartSelftest == BaseStartCondition /\ galden < 50

\* State_CanOpenLid
CanOpenLid == BaseStartCondition /\ LidClosed /\ temp_met

\* mutant: fault flags are not looked at
HeaterEnableUnchecked == TRUE

\* heater_enable, from a heater that is off
HeaterEnable == ~faulty

\* heater_temperature_reached
HeaterTemperatureReached == galden >= GaldenSetting - 8

-----------------------------------------------------------------------------
(* Shared effects.                                                         *)

Goto(from, to) == stage = from /\ stage' = to

\* mutant: the regulator keeps running
RaiseLiftRegulating(position) ==
  UNCHANGED regulating /\ lift' = MoveTo(MotorStop(lift), position)

\* mutant: the stop comes after the move
RaiseLiftStopped(position) ==
  regulating' = FALSE /\ lift' = MotorStop(MoveTo(lift, position))

\* raise_lift (top) and raise_lift_to_access: both stop the regulator first
RaiseLift(position) ==
  /\ regulating' = FALSE
  /\ lift' = MoveTo(MotorStop(lift), position)

\* seq_abort, seq_cleanup
SeqAbort ==
  IF CanAbort
  THEN /\ heater' = FALSE
       /\ RaiseLift(0)
       /\ seq' = "CLEANUP"
  ELSE UNCHANGED <<heater, lift, regulating, seq>>

\* calc_interpolaion, for the countdown value left
Interpolation(left) ==
  LET dx == Points[index].time
      y0 == Points[index].temperature
      y1 == Points[index + 1].temperature
  IN  y0 + ((dx - left) * (y1 - y0)) \div dx

\* try_interpolation: the new regulator target
InterpolatedTarget(left) ==
  IF ~NextStep THEN 0
  ELSE IF Interpolation(left) = 0 THEN target
  ELSE IF /\ Points[index + 1].temperature > galden
          /\ Points[index].temperature > galden
       THEN galden - 2
       ELSE Interpolation(left)

-----------------------------------------------------------------------------
(* systime_worker: the handlers of a second, then those of a millisecond.  *)

\* no second has passed since the last look
NoSecond == Goto("heater_second", "millis") /\ UNCHANGED
  <<axisVars, lidVars, seqVars, regVars, heatVars, galden, stateVars, testVars>>

\* mutant: the expired watchdog only flags the fault
HeaterSecondFlagOnly ==
  /\ Goto("heater_second", "seq_second")
  /\ IF watchdog > 0 THEN watchdog' = watchdog - 1 /\ UNCHANGED faulty
     ELSE faulty' = TRUE /\ UNCHANGED watchdog
  /\ UNCHANGED <<axisVars, lidVars, seqVars, regVars, heater, galden, stateVars, testVars>>

\* heater_seconds_sync
HeaterSecond ==
  /\ Goto("heater_second", "seq_second")
  /\ IF watchdog > 0
     THEN watchdog' = watchdog - 1 /\ UNCHANGED <<heater, faulty>>
     ELSE faulty' = TRUE /\ heater' = FALSE /\ UNCHANGED watchdog
  /\ UNCHANGED <<axisVars, lidVars, seqVars, regVars, galden, stateVars, testVars>>

\* mutant: one second too many
CountingPastZero == seq # "IDLE" /\ step_time >= 0

\* a step, or what an ended reflow left of one, counts down
Counting == seq # "IDLE" /\ step_time > 0

\* seq_seconds_sync
SeqSecond ==
  /\ Goto("seq_second", "millis")
  /\ IF Counting
     THEN /\ step_time' = step_time - 1
          /\ target' = InterpolatedTarget(step_time - 1)
     ELSE UNCHANGED <<step_time, target>>
  /\ IF seq \notin {"IDLE", "COOL_DOWN"} /\ ~SafetyChecks
     THEN SeqAbort
     ELSE UNCHANGED <<heater, lift, regulating, seq>>
  /\ UNCHANGED <<lid, liftflag, lidVars, index, faulty, watchdog, galden,
                 stateVars, testVars>>

\* main_millis_sync, when it is the turn of regulator_compute; the sign of the
\* PID output decides the direction, its value only the speed
RegulatorCompute ==
  /\ Goto("millis", "axes")
  /\ regulating
  /\ \E down \in BOOLEAN :
       lift' = MoveTo(lift, IF down THEN -Far ELSE LiftMax)
  /\ UNCHANGED <<lid, liftflag, lidVars, seqVars, regVars, heatVars, galden,
                 stateVars, testVars>>

NoRegulatorCompute == Goto("millis", "axes") /\ UNCHANGED
  <<axisVars, lidVars, seqVars, regVars, heatVars, galden, stateVars, testVars>>

-----------------------------------------------------------------------------
(* lid_worker, lift_worker, heater_worker and the lift's first travel.     *)

AxisLook(lidElapsed, liftElapsed) ==
  /\ Goto("axes", "heater")
  /\ overcurrent' \in IF "overcurrent" \in Mishaps
                     THEN {overcurrent, TRUE} ELSE {overcurrent}
  /\ lid' = Worker(lid, lidElapsed)
  /\ lift' = Worker(lift, liftElapsed)
  /\ UNCHANGED <<liftflag, lidVars, seqVars, regVars, heatVars, galden,
                 stateVars, selftest, first_selftest>>

AxisWorkers == \E lidElapsed, liftElapsed \in BOOLEAN : AxisLook(lidElapsed, liftElapsed)

\* heater_worker after a complete sensor cycle; hot: a heater sensor is over
\* the limit or the thermal switch is open.  regulation is never enabled by
\* the oven control.
HeaterWorker ==
  /\ Goto("heater", "lift_flag")
  /\ galden' \in GaldenTemps
  /\ \E hot \in IF "heater_hot" \in Mishaps THEN BOOLEAN ELSE {FALSE} :
       /\ faulty' = (faulty \/ hot)
       /\ heater' = (heater /\ ~hot)
       /\ watchdog' = IF faulty \/ hot THEN watchdog ELSE WatchdogSeconds
  /\ UNCHANGED <<axisVars, lidVars, seqVars, regVars, stateVars, testVars>>

\* the sensor cycle is not complete in this pass
NoSensorCycle ==
  /\ "sensors_stall" \in Mishaps
  /\ Goto("heater", "lift_flag")
  /\ galden' \in GaldenTemps
  /\ UNCHANGED <<axisVars, lidVars, seqVars, regVars, heatVars, stateVars, testVars>>

LiftFlagSet == liftflag /\ lid.cal_done /\ lift.cal_done

\* main_loop: once both axes are calibrated the lift goes to its access position
LiftFlag ==
  /\ Goto("lift_flag", "lid_control")
  /\ IF LiftFlagSet
     THEN liftflag' = FALSE /\ lift' = MoveTo(lift, LidOpenPosition)
     ELSE UNCHANGED <<liftflag, lift>>
  /\ UNCHANGED <<lid, lidVars, seqVars, regVars, heatVars, galden, stateVars, testVars>>

-----------------------------------------------------------------------------
(* lid_control_worker                                                      *)

\* mutant: once met, the condition is never withdrawn
TemperatureMetForGood == temp_met \/ galden < OpenTemperature - 2

\* update_lid_temperature_requirements
TemperatureMet ==
  galden < IF temp_met THEN OpenTemperature ELSE OpenTemperature - 2

\* mutant: the lid does not wait for the lift
OpeningDueAtOnce == prepare

OpeningDue == prepare /\ LiftAtAccess(lift)

LidControlWorker ==
  /\ Goto("lid_control", "seq")
  /\ IF OpeningDue
     THEN prepare' = FALSE /\ lid' = Move(lid, "FWD")
     ELSE UNCHANGED <<prepare, lid>>
  /\ temp_met' = TemperatureMet
  /\ UNCHANGED <<lift, liftflag, lid_mode, met_mode, seqVars, regVars, heatVars, galden,
                 stateVars, testVars>>

-----------------------------------------------------------------------------
(* seq_worker: one case of seq_fsm per action.                             *)

SeqFrame == UNCHANGED
  <<lid, liftflag, lidVars, faulty, watchdog, galden, stateVars, testVars>>

\* SEQ_SAFETY_CHECK passed: seq_prepare
SeqPrepare ==
  /\ Goto("seq", "state")
  /\ seq = "SAFETY_CHECK" /\ SafetyChecks
  /\ seq' = "GENERATE_VAPOUR"
  /\ heater' = HeaterEnable
  /\ lift' = MoveTo(MotorStop(lift), LidOpenPosition)
  /\ regulating' = TRUE
  /\ target' = IF TotalDatapoints > 0 THEN Points[0].temperature ELSE target
  /\ SeqFrame /\ UNCHANGED <<index, step_time>>

\* SEQ_SAFETY_CHECK failed
SeqRefused ==
  /\ Goto("seq", "state")
  /\ seq = "SAFETY_CHECK" /\ ~SafetyChecks
  /\ seq' = "IDLE"
  /\ SeqFrame /\ UNCHANGED <<index, step_time, regVars, heater, lift>>

SeqVapourReady ==
  /\ Goto("seq", "state")
  /\ seq = "GENERATE_VAPOUR" /\ HeaterTemperatureReached
  /\ seq' = "PRE_HEAT"
  /\ SeqFrame /\ UNCHANGED <<index, step_time, regVars, heater, lift>>

\* update_regulator, for the step i
UpdateRegulator(i) ==
  IF i > TotalDatapoints THEN UNCHANGED <<step_time, target>>
  ELSE step_time' = Points[i].time /\ target' = Points[i].temperature

\* mutant: the countdown of the first step is not loaded
SeqPreHeatedUnloaded ==
  /\ Goto("seq", "state")
  /\ seq = "PRE_HEAT" /\ (\E pcb \in PcbTemps : pcb >= target - 2)
  /\ seq' = "RUN"
  /\ SeqFrame /\ UNCHANGED <<index, step_time, regVars, heater, lift>>

\* regulator_temperature_reached
SeqPreHeated ==
  /\ Goto("seq", "state")
  /\ seq = "PRE_HEAT"
  /\ \E pcb \in PcbTemps : pcb >= target - 2
  /\ seq' = "RUN"
  /\ UpdateRegulator(index)
  /\ SeqFrame /\ UNCHANGED <<index, regulating, heater, lift>>

\* control_heater, after index has moved on to the step i
ControlHeater(i, pcb) ==
  LET next == Points[i + 1].temperature
      on   == heater \/ (pcb < Points[i].temperature /\ HeaterEnable)
      off  == pcb > next /\ (next = 0 \/ lift.pos > HeaterBand)
  IN  heater' = (on /\ ~off)

SeqNextStep ==
  /\ Goto("seq", "state")
  /\ seq = "RUN" /\ step_time = 0 /\ NextStep
  /\ index' = index + 1
  /\ UpdateRegulator(index + 1)
  /\ \E pcb \in PcbTemps : ControlHeater(index + 1, pcb)
  /\ SeqFrame /\ UNCHANGED <<seq, regulating, lift>>

\* mutant: the heater is not switched off
SeqStartCoolDownHeating ==
  /\ Goto("seq", "state")
  /\ seq = "RUN" /\ step_time = 0 /\ ~NextStep
  /\ seq' = "COOL_DOWN"
  /\ target' = AcTemp
  /\ regulating' = TRUE
  /\ SeqFrame /\ UNCHANGED <<heater, index, step_time, lift>>

\* start_cool_down
SeqStartCoolDown ==
  /\ Goto("seq", "state")
  /\ seq = "RUN" /\ step_time = 0 /\ ~NextStep
  /\ seq' = "COOL_DOWN"
  /\ heater' = FALSE
  /\ target' = AcTemp
  /\ regulating' = TRUE
  /\ SeqFrame /\ UNCHANGED <<index, step_time, lift>>

\* SEQ_COOL_DOWN, the galden is cold: raise_lift_to_access, seq_cleanup
SeqCooled ==
  /\ Goto("seq", "state")
  /\ seq = "COOL_DOWN" /\ galden < OpenTemperature
  /\ seq' = "CLEANUP"
  /\ RaiseLift(LidOpenPosition)
  /\ heater' = FALSE
  /\ SeqFrame /\ UNCHANGED <<index, step_time, target>>

SeqDone ==
  /\ Goto("seq", "state")
  /\ seq = "CLEANUP" /\ lift.dir = "NONE"
  /\ seq' = "IDLE"
  /\ SeqFrame /\ UNCHANGED <<index, step_time, regVars, heater, lift>>

\* no case of seq_fsm has anything to do
SeqWait ==
  /\ Goto("seq", "state")
  /\ \/ seq = "IDLE"
     \/ seq = "GENERATE_VAPOUR" /\ ~HeaterTemperatureReached
     \/ seq = "PRE_HEAT" /\ \E pcb \in PcbTemps : pcb < target - 2
     \/ seq = "RUN" /\ step_time > 0
     \/ seq = "COOL_DOWN" /\ galden >= OpenTemperature
     \/ seq = "CLEANUP" /\ lift.dir # "NONE"
  /\ UNCHANGED <<axisVars, lidVars, seqVars, regVars, heatVars, galden,
                 stateVars, testVars>>

SeqWorker ==
  \/ SeqPrepare \/ SeqRefused \/ SeqVapourReady \/ SeqPreHeated \/ SeqNextStep
  \/ SeqStartCoolDown \/ SeqCooled \/ SeqDone \/ SeqWait

-----------------------------------------------------------------------------
(* State_Worker                                                            *)

\* the axes after the calibration branch of State_Worker: the lid comes first
BootCalibration ==
  IF lid.cal_done /\ ~lift.cal_done /\ lift.mode = "NORMAL"
  THEN [lid |-> lid, lift |-> Cal(lift, "FWD"), flag |-> TRUE]
  ELSE IF ~lid.cal_done /\ lid.mode = "NORMAL"
  THEN [lid |-> Cal(lid, "BWD"), lift |-> lift, flag |-> liftflag]
  ELSE [lid |-> lid, lift |-> lift, flag |-> liftflag]

\* lift_boot_ready, with the lift l
LiftBootReady(l) == l.mode = "NORMAL" /\ l.dir = "NONE" /\ l.cal_done

\* an error pin seen once is latched
ErrorLatch ==
  \/ error' = error
  \/ "pins" \in Mishaps /\ error' = TRUE

StateBooted ==
  /\ Goto("state", "selftest")
  /\ booted
  /\ ErrorLatch
  /\ UNCHANGED <<axisVars, lidVars, seqVars, regVars, heatVars, galden, booted, testVars>>

\* LIFT_LID_OPEN_POSITION is approached here too when the flag is still set
StateBooting ==
  /\ Goto("state", "selftest")
  /\ ~booted
  /\ ErrorLatch
  /\ LET cal  == BootCalibration
         go   == cal.flag /\ cal.lid.cal_done /\ cal.lift.cal_done
         next == IF go THEN MoveTo(cal.lift, LidOpenPosition) ELSE cal.lift
     IN  /\ lid' = cal.lid
         /\ lift' = next
         /\ liftflag' = (cal.flag /\ ~go)
         /\ booted' = (LiftBootReady(next) /\ LidClosedWith(cal.lid))
  /\ UNCHANGED <<lidVars, seqVars, regVars, heatVars, galden, testVars>>

StateWorker == StateBooted \/ StateBooting

-----------------------------------------------------------------------------
(* selftest_worker: the current sub-state, left when its condition is met. *)

TestFrame == UNCHANGED
  <<lidVars, seqVars, regVars, faulty, watchdog, galden, stateVars, overcurrent>>

TestGoto(from, to) == Goto("selftest", "packet") /\ selftest = from /\ selftest' = to

InLidTest ==
  selftest \in {"LID_CAL", "LID_CAL_WAIT", "LID_UP", "LID_UP_WAIT", "LID_DOWN"}

\* selftest_lid_worker completed: selftest_lid_cleanup, selftest_lift_init
TestLidDone ==
  /\ Goto("selftest", "packet")
  /\ InLidTest
  /\ \/ overcurrent
     \/ selftest = "LID_DOWN" /\ Stopped(lid)
  /\ selftest' = "LIFT_CAL"
  /\ lid' = MotorStop(lid)
  /\ lift' = Cal(lift, "FWD")
  /\ liftflag' = TRUE
  /\ TestFrame /\ UNCHANGED <<heater, first_selftest>>

TestLidCalibrated ==
  /\ TestGoto("LID_CAL", "LID_CAL_WAIT")
  /\ ~overcurrent /\ lid.cal_done
  /\ TestFrame /\ UNCHANGED <<axisVars, heater, first_selftest>>

\* SELFTEST_LID_AFTER_CAL_WAIT is over: the first selftest since power-on sends
\* the lift to the top, and the lid waits for the lift to stand still
TestLidUp ==
  /\ Goto("selftest", "packet")
  /\ selftest = "LID_CAL_WAIT" /\ ~overcurrent
  /\ first_selftest' = FALSE
  /\ lift' = IF first_selftest THEN MoveTo(lift, 0) ELSE lift
  /\ IF Stopped(lift')
     THEN selftest' = "LID_UP" /\ lid' = Move(lid, "FWD")
     ELSE UNCHANGED <<selftest, lid>>
  /\ TestFrame /\ UNCHANGED <<liftflag, heater>>

TestLidIsUp ==
  /\ TestGoto("LID_UP", "LID_UP_WAIT")
  /\ ~overcurrent /\ Stopped(lid)
  /\ TestFrame /\ UNCHANGED <<axisVars, heater, first_selftest>>

TestLidDown ==
  /\ TestGoto("LID_UP_WAIT", "LID_DOWN")
  /\ ~overcurrent
  /\ lid' = Move(lid, "BWD")
  /\ TestFrame /\ UNCHANGED <<lift, liftflag, heater, first_selftest>>

TestLiftCalibrated ==
  /\ TestGoto("LIFT_CAL", "LIFT_DOWN")
  /\ lift.cal_done
  /\ lift' = Move(lift, "BWD")
  /\ TestFrame /\ UNCHANGED <<lid, liftflag, heater, first_selftest>>

TestLiftIsDown ==
  /\ TestGoto("LIFT_DOWN", "LIFT_UP")
  /\ Stopped(lift)
  /\ lift' = Move(lift, "FWD")
  /\ TestFrame /\ UNCHANGED <<lid, liftflag, heater, first_selftest>>

\* selftest_lift_cleanup stops the motor
TestLiftIsUp ==
  /\ TestGoto("LIFT_UP", "PUMP")
  /\ Stopped(lift)
  /\ TestFrame /\ UNCHANGED <<axisVars, heater, first_selftest>>

\* the durations of the pump and fan tests are over
TestFans ==
  /\ \/ TestGoto("PUMP", "RADIATOR_FANS")
     \/ TestGoto("RADIATOR_FANS", "QUICKCOOL_FANS")
  /\ TestFrame /\ UNCHANGED <<axisVars, heater, first_selftest>>

\* selftest_heater_init
TestHeaterOn ==
  /\ TestGoto("QUICKCOOL_FANS", "HEAT_UP")
  /\ heater' = HeaterEnable
  /\ TestFrame /\ UNCHANGED <<axisVars, first_selftest>>

\* a heater sensor is above SELFTEST_HEATER_TARGET_TEMPERATURE
TestHeaterOff ==
  /\ TestGoto("HEAT_UP", "COOL_DOWN")
  /\ heater' = FALSE
  /\ TestFrame /\ UNCHANGED <<axisVars, first_selftest>>

\* SELFTEST_HEATER_COOL_DOWN_TEMPERATURE
TestCooled ==
  /\ TestGoto("COOL_DOWN", "STOPPED")
  /\ galden < 70
  /\ TestFrame /\ UNCHANGED <<axisVars, heater, first_selftest>>

\* the condition that ends the current sub-state does not hold; durations and
\* the heater sensors may always say so
TestWait ==
  /\ Goto("selftest", "packet")
  /\ \/ selftest \in {"STOPPED", "PUMP", "RADIATOR_FANS", "QUICKCOOL_FANS", "HEAT_UP"}
     \/ /\ ~overcurrent
        /\ \/ selftest = "LID_CAL" /\ ~lid.cal_done
           \/ selftest \in {"LID_CAL_WAIT", "LID_UP_WAIT"}
           \/ selftest \in {"LID_UP", "LID_DOWN"} /\ ~Stopped(lid)
     \/ selftest = "LIFT_CAL" /\ ~lift.cal_done
     \/ selftest \in {"LIFT_DOWN", "LIFT_UP"} /\ ~Stopped(lift)
     \/ selftest = "COOL_DOWN" /\ galden >= 70
  /\ UNCHANGED <<axisVars, lidVars, seqVars, regVars, heatVars, galden,
                 stateVars, testVars>>

SelftestWorker ==
  \/ TestLidDone \/ TestLidCalibrated \/ TestLidUp \/ TestLidIsUp \/ TestLidDown
  \/ TestLiftCalibrated \/ TestLiftIsDown \/ TestLiftIsUp \/ TestFans
  \/ TestHeaterOn \/ TestHeaterOff \/ TestCooled \/ TestWait

-----------------------------------------------------------------------------
(* Packet_Worker: one command of the display after the other (app_prop_set), *)
(* as many as have come since the last call.                               *)

Received(c) == c \in Commands /\ stage = "packet" /\ UNCHANGED stage

\* State_SetReflow(true)
ReflowOn ==
  /\ Received("reflow_on")
  /\ \E waterCold, profileLoaded \in BOOLEAN :
       IF ~error /\ CanStartReflow /\ waterCold /\ profileLoaded
       THEN seq' = "SAFETY_CHECK" /\ index' = 0
       ELSE UNCHANGED <<seq, index>>
  /\ UNCHANGED <<axisVars, lidVars, step_time, regVars, heatVars, galden,
                 stateVars, testVars>>

\* State_SetReflow(false)
ReflowOff ==
  /\ Received("reflow_off")
  /\ IF ~error THEN SeqAbort ELSE UNCHANGED <<heater, lift, regulating, seq>>
  /\ UNCHANGED <<lid, liftflag, lidVars, index, step_time, target, faulty,
                 watchdog, galden, stateVars, testVars>>

\* State_SetLidOpen(true): lid_control_lid_open
LidOpen ==
  /\ Received("lid_open")
  /\ IF ~error /\ CanOpenLid
     THEN prepare' = TRUE /\ lift' = MoveTo(lift, LidOpenPosition)
     ELSE UNCHANGED <<prepare, lift>>
  /\ UNCHANGED <<lid, liftflag, temp_met, lid_mode, met_mode, seqVars, regVars, heatVars,
                 galden, stateVars, testVars>>

\* State_SetLidOpen(false): lid_control_lid_close
LidClose ==
  /\ Received("lid_close")
  /\ lid' = IF ~error THEN Move(lid, "BWD") ELSE lid
  /\ UNCHANGED <<lift, liftflag, lidVars, seqVars, regVars, heatVars, galden,
                 stateVars, testVars>>

\* State_SetLidOpenMode
SetLidMode ==
  /\ Received("lid_mode")
  /\ lid_mode' \in LidModes
  /\ UNCHANGED <<axisVars, prepare, temp_met, met_mode, seqVars, regVars, heatVars, galden,
                 stateVars, testVars>>

\* mutant: the homing is forgotten and not started again
StartSelftestUnhomed ==
  /\ Received("selftest")
  /\ IF CanStartSelftest
     THEN selftest' = "LID_CAL" /\ lid' = [lid EXCEPT !.cal_done = FALSE]
     ELSE UNCHANGED <<selftest, lid>>
  /\ UNCHANGED <<lift, liftflag, lidVars, seqVars, regVars, heatVars, galden,
                 stateVars, first_selftest, overcurrent>>

\* State_StartSelftest: selftest_lid_init
StartSelftest ==
  /\ Received("selftest")
  /\ IF CanStartSelftest
     THEN selftest' = "LID_CAL" /\ lid' = Cal(lid, "BWD")
     ELSE UNCHANGED <<selftest, lid>>
  /\ UNCHANGED <<lift, liftflag, lidVars, seqVars, regVars, heatVars, galden,
                 stateVars, first_selftest, overcurrent>>

\* no more of them
NoPacket ==
  /\ Goto("packet", "heater_second")
  /\ met_mode' = lid_mode
  /\ UNCHANGED <<axisVars, prepare, temp_met, lid_mode, seqVars, regVars, heatVars,
                 galden, stateVars, testVars>>

PacketWorker ==
  ReflowOn \/ ReflowOff \/ LidOpen \/ LidClose \/ SetLidMode \/ StartSelftest \/ NoPacket

-----------------------------------------------------------------------------
(* The machine.                                                            *)

LidMotion ==
  /\ CanAdvance(lid)
  /\ lid' = Advance(lid, 1)
  /\ UNCHANGED <<stage, lift, liftflag, lidVars, seqVars, regVars, heatVars,
                 galden, stateVars, testVars>>

LiftMotion ==
  /\ CanAdvance(lift)
  /\ lift' = Advance(lift, LiftStride)
  /\ UNCHANGED <<stage, lid, liftflag, lidVars, seqVars, regVars, heatVars,
                 galden, stateVars, testVars>>

\* the closed lid comes off its limit switch
LidLifted ==
  /\ "lid_lifted" \in Mishaps
  /\ lid.dir = "NONE" /\ lid.loc = 0
  /\ lid' = [lid EXCEPT !.loc = 1, !.pos = @ + 1]
  /\ UNCHANGED <<stage, lift, liftflag, lidVars, seqVars, regVars, heatVars,
                 galden, stateVars, testVars>>

-----------------------------------------------------------------------------
Systime == NoSecond \/ HeaterSecond \/ SeqSecond \/ RegulatorCompute \/ NoRegulatorCompute

MainLoop ==
  \/ Systime \/ AxisWorkers \/ HeaterWorker \/ NoSensorCycle \/ LiftFlag
  \/ LidControlWorker \/ SeqWorker \/ StateWorker \/ SelftestWorker \/ PacketWorker

\* init_modules; the lid and the lift may stand anywhere at power-on
Init ==
  /\ stage = "heater_second"
  /\ \E l \in 0 .. LidSpan : lid = AxisInit(LidSpan, -Far, Far, l)
  /\ \E l \in 0 .. LiftSpan : l % LiftStride = 0 /\ lift = AxisInit(LiftSpan, -Far, LiftMax, l)
  /\ liftflag = FALSE
  /\ prepare = FALSE /\ temp_met = FALSE /\ lid_mode = "STANDARD" /\ met_mode = lid_mode
  /\ seq = "IDLE" /\ index = 0 /\ step_time = 0
  /\ regulating = FALSE /\ target = 0
  /\ heater = FALSE /\ faulty = FALSE /\ watchdog = WatchdogSeconds
  /\ galden \in GaldenTemps
  /\ booted = FALSE /\ error = FALSE
  /\ overcurrent = FALSE /\ selftest = "STOPPED" /\ first_selftest = TRUE

Next == MainLoop \/ LidMotion \/ LiftMotion \/ LidLifted

Spec == Init /\ [][Next]_vars

\* The loop runs for ever, a call of Packet_Worker included, which handles what has
\* come until it began, and a running motor moves its axis; seconds pass, and so do
\* the half seconds an axis waits to turn around.
Fairness ==
  /\ WF_vars(MainLoop)
  /\ WF_vars(NoPacket)
  /\ WF_vars(LidMotion)
  /\ WF_vars(LiftMotion)
  /\ SF_vars(HeaterSecond)
  /\ SF_vars(AxisLook(TRUE, TRUE))

\* the steps of the selftest that end with a duration or a temperature
TestTimed == TestLidUp \/ TestLidDown \/ TestFans \/ TestHeaterOn \/ TestHeaterOff

\* The waits and temperatures of the selftest come about.
SelftestFairness ==
  /\ SF_vars(TestTimed)
  /\ SF_vars(HeaterWorker /\ galden' < 70)

FairSpec == Spec /\ Fairness
FairSelftestSpec == FairSpec /\ SelftestFairness

-----------------------------------------------------------------------------
(* Safety.                                                                 *)

\* Every variable keeps to its values: a countdown never passes zero and the
\* profile is never read past its array.
TypeOK ==
  /\ stage \in Stages
  /\ lid \in LidType /\ lift \in LiftType /\ liftflag \in BOOLEAN
  /\ prepare \in BOOLEAN /\ temp_met \in BOOLEAN /\ {lid_mode, met_mode} \subseteq LidModes
  /\ seq \in SeqStates /\ index \in 0 .. TotalDatapoints /\ step_time \in Nat
  /\ regulating \in BOOLEAN /\ target \in Int
  /\ heater \in BOOLEAN /\ faulty \in BOOLEAN /\ watchdog \in 0 .. WatchdogSeconds
  /\ galden \in GaldenTemps
  /\ booted \in BOOLEAN /\ error \in BOOLEAN
  /\ overcurrent \in BOOLEAN /\ selftest \in Selftests /\ first_selftest \in BOOLEAN

Heating == {"GENERATE_VAPOUR", "PRE_HEAT", "RUN"}
Reflowing == Heating \cup {"COOL_DOWN"}

\* Whatever ends a reflow or a heater test (completion, the display's stop, an
\* open lid, a fault) has also switched the heater off: it is powered only while
\* a reflow heats or the selftest heats up.
HeaterOnlyInUse == heater => seq \in Heating \/ selftest = "HEAT_UP"

\* A heater with a fault flag is off, and no heater_enable of the sequence or of
\* the selftest powers it again.
HeaterOffOnFault == faulty => ~heater

\* The heater, whoever switches it: both of the above.
HeaterGuarded == HeaterOnlyInUse /\ HeaterOffOnFault

\* Reflow and selftest, which drive the same axes and heater, never overlap, and
\* neither starts before the axes are homed.
ReflowExcludesSelftest ==
  /\ seq # "IDLE" => booted /\ selftest = "STOPPED"
  /\ selftest # "STOPPED" => booted

\* From the request to the end of a reflow nothing opens the lid: it has no
\* pending opening, no homing and no motor running forward.
LidNotOpenedInReflow ==
  seq # "IDLE" => lid.mode = "NORMAL" /\ lid.dir # "FWD" /\ ~prepare

\* The regulator never moves the lift of a reflow that is over.
RegulatorOnlyInReflow == regulating => seq \in Reflowing

\* A reflow runs on homed axes although a selftest forgets both homings and may
\* be cut short by an overcurrent.
CalibratedInReflow == seq \in Reflowing => lid.cal_done /\ lift.cal_done

\* A reflow owns the machine: it is not opened, the regulator is its own, and its
\* axes are homed, whatever the display asks for and whichever fault comes.
ReflowGuarded == LidNotOpenedInReflow /\ RegulatorOnlyInReflow /\ CalibratedInReflow

\* The lift's encoder counts from its top switch: nothing that moves the lift
\* during its homing makes it home at the bottom switch.
LiftHomed == CountsFromTop(lift)

\* The lift searches its top switch only upwards, whoever drives it during its
\* homing, and after boot only the first part of the lift test leaves it unhomed.
LiftHoming == HomesForward(lift) /\ (booted /\ selftest # "LIFT_CAL" => lift.cal_done)

\* The lift finds its top switch and no other: both of the above.
LiftFindsTop == LiftHomed /\ LiftHoming

\* Outside the selftest the lid opens only over a lift that rests at its access
\* position.
LiftStillWhileLidOpens ==
  (booted /\ selftest = "STOPPED" /\ lid.mode = "NORMAL" /\ lid.dir = "FWD")
    => LiftAtAccess(lift)

\* Outside boot and selftest the lift travels only under a closed lid at rest.
LiftTravelsUnderClosedLid ==
  (booted /\ selftest = "STOPPED" /\ lift.dir # "NONE")
    => lid.loc = 0 /\ lid.dir = "NONE"

\* At rest between two jobs the lift stands at the top or at its access position,
\* never down in the vapour, however the last job ended.  (A selftest that an
\* overcurrent cuts short may leave it a stride further away: the homing of the lid
\* then ends during the lift test, and main_loop sends the lift off in mid-travel.)
LiftParked ==
  (booted /\ seq = "IDLE" /\ selftest = "STOPPED" /\ Stopped(lift))
    => \E rest \in {0, LidOpenPosition} : ~MinDelta(lift, rest)

\* A granted lid opening always has a lift that is at its access position or on
\* its way there; axis.h:86, "pos changes that are smaller than
\* AXIS_MIN_POS_OFFSET are discarded", lets a lift a whole offset away move.
PendingOpeningMoves == prepare => LiftAtAccess(lift) \/ ~Stopped(lift)

\* Lid and lift never get into each other's way and never wait for each other for
\* ever, in any order of openings, closings, reflows and faults.  (The first selftest
\* after power-on may send the lift to the top although an opening is pending.)
LidAndLiftApart == LiftStillWhileLidOpens /\ LiftTravelsUnderClosedLid /\ PendingOpeningMoves

\* A running step counts down from its own duration, whatever the countdown was
\* when the reflow before it ended.
StepTimeInStep == seq = "RUN" => step_time <= Points[index].time

\* No step from the first zero duration on is run.
NoStepAfterZero == \A i \in 1 .. index : Points[i].time # 0

\* The countdown is that of the step that runs, and the profile ends where it
\* says: both of the above.
StepsInOrder == StepTimeInStep /\ NoStepAfterZero

\* The request to open the lid is granted only on a reading below the limit of
\* the lid mode the temperature condition was last computed for, however many
\* changes of mode and requests one call of Packet_Worker serves.
LidOpensOnlyWhenCool ==
  [][prepare' /\ ~prepare => galden < OpenTemperatureOf(met_mode)]_vars

\* The same of the mode that is set when the request is granted.
LidOpensBelowItsLimit ==
  [][prepare' /\ ~prepare => galden < OpenTemperature]_vars

-----------------------------------------------------------------------------
(* Liveness.                                                               *)

\* Without commands and mishaps the oven boots wherever its axes stood.
Boots == <>booted

\* An ended reflow becomes idle: the lift comes to rest.
CleanupEnds == seq = "CLEANUP" ~> seq = "IDLE"

\* A granted lid opening is not forgotten: the lift gets to its access position
\* and the lid moves.
LidOpeningEnds == prepare ~> ~prepare

\* The lid coming off its switch while the oven heats ends the reflow unless it
\* is back first.
OpenLidEndsHeating == (seq \in Heating /\ ~LidClosed) ~> (seq \notin Heating \/ LidClosed)

\* A selftest comes to its end.
SelftestEnds == selftest # "STOPPED" ~> selftest = "STOPPED"

\* If no complete sensor cycle restarts the watchdog any more, the heater goes off
\* for good.
WatchdogTrips == []<>(watchdog = WatchdogSeconds) \/ <>[]~heater

-----------------------------------------------------------------------------
(* What the comments of the code say.                                      *)

\* sequence.c:130, "start regulating to the temperature of the first step"
FirstStepRegulated ==
  seq \in {"GENERATE_VAPOUR", "PRE_HEAT"} => target = Points[0].temperature

\* sequence.c:254, "end sequence at max or at first zero duration": of a profile
\* of totalDatapoints steps, the last one is at most number totalDatapoints - 1
EndsAtMax == TotalDatapoints > 0 => index <= TotalDatapoints - 1

\* state.c:212, "first calibrate lid axis and after lid is closed and calibrated
\* do the lift"
LiftHomedUnderClosedLid == (~booted /\ lift.mode # "NORMAL") => lid.loc = 0
=============================================================================
