-------------------------------- MODULE Axis --------------------------------
(***************************************************************************)
(* One motorised axis of the oven (core-fw/Modules/modules/axis.c with     *)
(* motor.c): the lid, a DC motor, and the lift, a stepper motor.  The      *)
(* module has no variables.  An axis is a record, and a function of axis.c *)
(* is an operator from the axis before the call to the axis after it.      *)
(*                                                                         *)
(* A record has the fields of struct axis_t the control code looks at,     *)
(*   mode, dir (motor->direction), pos (encoder->position), target,        *)
(*   pos_min, pos_max, cal_done, cal_free_waiting, cal_free_direction,     *)
(* and three of the machine itself: span, the length of the travel, loc,   *)
(* where the carriage really is, from 0 at the backward limit switch to    *)
(* span at the forward one, and fresh, TRUE when the carriage has not      *)
(* moved since axis_worker last looked.                                    *)
(*                                                                         *)
(* A switch is active exactly while the carriage stands at it; module      *)
(* LimitSwitch looks inside limit_switch.c.                                *)
(***************************************************************************)
EXTENDS Integers

CONSTANTS
  MinPosOffset,  \* AXIS_MIN_POS_OFFSET
  Far            \* stands for INT32_MAX and -INT32_MIN: beyond any travel

ASSUME AxisAssumption == MinPosOffset \in Nat /\ Far \in Nat

Modes == {"NORMAL", "CAL_FWD", "CAL_BWD", "CAL_FREE", "CAL_FIND"}
Directions == {"NONE", "FWD", "BWD"}

AxisType(length, min, max) ==
  [mode : Modes, dir : Directions, pos : Int, target : Int,
   pos_min : {min}, pos_max : {max}, cal_done : BOOLEAN,
   cal_free_waiting : BOOLEAN, cal_free_direction : Directions,
   span : {length}, loc : 0 .. length, fresh : BOOLEAN]

\* axis_init, with the carriage found at l when the power comes on
AxisInit(length, min, max, l) ==
  [mode |-> "NORMAL", dir |-> "NONE", pos |-> 0, target |-> 0,
   pos_min |-> min, pos_max |-> max, cal_done |-> FALSE,
   cal_free_waiting |-> FALSE, cal_free_direction |-> "NONE",
   span |-> length, loc |-> l, fresh |-> TRUE]

-----------------------------------------------------------------------------
(* Limit switches and motor.                                               *)

FwdActive(a) == a.loc = a.span
BwdActive(a) == a.loc = 0

MotorRun(a, d) == [a EXCEPT !.dir = d]
MotorStop(a) == [a EXCEPT !.dir = "NONE"]

Stopped(a) == a.dir = "NONE"

Abs(n) == IF n < 0 THEN -n ELSE n
Opposite(d) == IF d = "FWD" THEN "BWD" ELSE "FWD"

-----------------------------------------------------------------------------
(* Commands.  No caller in the oven control enters AXIS_ERROR.             *)

\* axis_move: refused at the limit switch it would run to
Move(a, d) ==
  IF (d = "FWD" /\ FwdActive(a)) \/ (d = "BWD" /\ BwdActive(a)) THEN a
  ELSE [a EXCEPT !.dir = d, !.target = IF d = "FWD" THEN Far ELSE -Far]

\* axis_move_to
MoveToRefused(a, t) ==
  \/ t < a.pos_min /\ t > a.pos_max
  \/ t > a.pos /\ FwdActive(a)
  \/ t < a.pos /\ BwdActive(a)

\* mutant: moves of one more are discarded
MinDeltaTooWide(a, t) == Abs(t - a.pos) > MinPosOffset + 1

MinDelta(a, t) == Abs(t - a.pos) > MinPosOffset

MoveTo(a, t) ==
  IF MoveToRefused(a, t) THEN a
  ELSE IF ~MinDelta(a, t) THEN [a EXCEPT !.target = t]
  ELSE [a EXCEPT !.target = t, !.dir = IF t > a.pos THEN "FWD" ELSE "BWD"]

\* axis_cal
Cal(a, d) ==
  [a EXCEPT !.cal_done = FALSE,
            !.mode = IF d = "FWD" THEN "CAL_FWD" ELSE "CAL_BWD"]

-----------------------------------------------------------------------------
(* axis_worker.                                                            *)

\* mutant: the encoder goes on counting from where it was
ClearPositionForgotten(a) == a

\* axis_limsw_routine
ClearPosition(a) == [a EXCEPT !.pos = 0]

LimswRoutine(a) ==
  IF a.mode = "CAL_FIND"
  THEN [ClearPosition(MotorStop(a)) EXCEPT !.cal_done = TRUE, !.mode = "NORMAL"]
  ELSE MotorStop(a)

\* axis_limitswitch_worker
AtLimit(a) ==
  \/ FwdActive(a) /\ a.dir = "FWD"
  \/ BwdActive(a) /\ a.dir = "BWD"

LimitSwitchWorker(a) == IF AtLimit(a) THEN LimswRoutine(a) ELSE a

\* axis_check_target
TargetReached(a) ==
  \/ a.dir = "FWD" /\ (a.pos >= a.target \/ a.pos >= a.pos_max)
  \/ a.dir = "BWD" /\ (a.pos <= a.target \/ a.pos <= a.pos_min)

CheckTarget(a) == IF TargetReached(a) THEN MotorStop(a) ELSE a

\* cases AXIS_CAL_FWD and AXIS_CAL_BWD, homing towards d
CalStart(a, d, active) ==
  IF active
  THEN [MotorRun(a, Opposite(d)) EXCEPT !.mode = "CAL_FREE",
                                        !.cal_free_waiting = FALSE]
  ELSE [MotorRun(a, d) EXCEPT !.mode = "CAL_FIND"]

\* mutant: the motor does not turn around
CalFreeOnwards(a, elapsed) ==
  IF a.cal_free_waiting
  THEN IF elapsed
       THEN [MotorRun(a, a.cal_free_direction) EXCEPT !.mode = "CAL_FIND"]
       ELSE a
  ELSE IF ~FwdActive(a) /\ ~BwdActive(a)
       THEN [MotorStop(a) EXCEPT !.cal_free_waiting = TRUE,
                                 !.cal_free_direction = a.dir]
       ELSE a

\* case AXIS_CAL_FREE; elapsed: CAL_FREE_STOP_TIME_MS have passed since the stop
CalFree(a, elapsed) ==
  IF a.cal_free_waiting
  THEN IF elapsed
       THEN [MotorRun(a, Opposite(a.cal_free_direction)) EXCEPT !.mode = "CAL_FIND"]
       ELSE a
  ELSE IF ~FwdActive(a) /\ ~BwdActive(a)
       THEN [MotorStop(a) EXCEPT !.cal_free_waiting = TRUE,
                                 !.cal_free_direction = a.dir]
       ELSE a

ByMode(a, elapsed) ==
  CASE a.mode = "NORMAL"   -> CheckTarget(a)
    [] a.mode = "CAL_FWD"  -> CalStart(a, "FWD", FwdActive(a))
    [] a.mode = "CAL_BWD"  -> CalStart(a, "BWD", BwdActive(a))
    [] a.mode = "CAL_FREE" -> CalFree(a, elapsed)
    [] OTHER               -> a

Worker(a, elapsed) == [ByMode(LimitSwitchWorker(a), elapsed) EXCEPT !.fresh = TRUE]

-----------------------------------------------------------------------------
(* The machine.  A running motor carries the axis a stride further and the *)
(* encoder counts it.  The main loop looks at an axis far more often than  *)
(* the motor covers a stride, hence at most one stride between two looks.  *)

CanAdvance(a) ==
  /\ a.fresh
  /\ \/ a.dir = "FWD" /\ ~FwdActive(a)
     \/ a.dir = "BWD" /\ ~BwdActive(a)

Reach(a, stride) ==
  IF a.dir = "FWD"
  THEN IF a.loc + stride > a.span THEN a.span ELSE a.loc + stride
  ELSE IF a.loc - stride < 0 THEN 0 ELSE a.loc - stride

Advance(a, stride) ==
  [a EXCEPT !.loc = Reach(a, stride),
            !.pos = a.pos + (Reach(a, stride) - a.loc),
            !.fresh = FALSE]

-----------------------------------------------------------------------------
(* What homing forward looks like: the axis searches the switch only by     *)
(* running forward, and an axis that still has to come free of the switch   *)
(* has not been told to run forward.  Once homed, the encoder counts from   *)
(* the forward switch.                                                      *)

HomesForward(a) ==
  /\ a.mode # "CAL_BWD"
  /\ a.cal_done => a.mode = "NORMAL"
  /\ a.mode = "CAL_FIND" => a.dir = "FWD"
  /\ a.mode = "CAL_FREE" =>
       /\ a.dir # "FWD"
       /\ a.cal_free_waiting => a.cal_free_direction # "FWD"

CountsFromTop(a) == a.cal_done => a.pos = a.loc - a.span
=============================================================================
