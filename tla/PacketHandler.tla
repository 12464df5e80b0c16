---------------------------- MODULE PacketHandler ----------------------------
(***************************************************************************)
(* The calls of the display to the core: the communication task polls the  *)
(* core's properties with usart_sync_prop_get, one call after the other,   *)
(* each with a timeout, while the user interface sends commands that are   *)
(* not answered (shared/core_com/src/packet_handler.c and                  *)
(* packet_comunication.c; CoreCom_Task of the display; properties.c and    *)
(* log.c of the core).                                                     *)
(*                                                                         *)
(* A frame is on its way in up (display to core) or down (core to          *)
(* display): rings, line and all.  Frames get lost there, calls time out   *)
(* with their answer still to come, and the core logs and restarts when it *)
(* likes.  The answer a call waits for stays in the one decode buffer,     *)
(* into which the bytes of the frame behind it are already being decoded;  *)
(* and both tasks encode into one build buffer.                            *)
(***************************************************************************)
EXTENDS Integers, Sequences

CONSTANTS
  Rounds,      \* the polled properties: a sequence of groups, each a sequence
  IdMod,       \* how many packet ids there are (uint8_t: 256)
  MaxUp,       \* bound on the frames on their way to the core ...
  MaxDown,     \* ... and to the display: what is sent beyond is refused
  MaxFaults,   \* bound on lost frames, late answers, logs and restarts
  MaxCommands  \* bound on the commands of the user interface

ASSUME PacketAssumption ==
  /\ Rounds \in Seq(Seq(STRING)) /\ Rounds # <<>>
  /\ \A g \in 1 .. Len(Rounds) : Rounds[g] # <<>>
  /\ IdMod \in Nat /\ IdMod > 1
  /\ MaxUp \in Nat \ {0} /\ MaxDown \in Nat \ {0}
  /\ MaxFaults \in Nat /\ MaxCommands \in Nat

VARIABLES
  packet_counter,  \* of the display
  call,            \* the call of the communication task
  res,             \* <<>>: packet_res_buf = NULL; <<f>>: it points into the
                   \* decode buffer, where f was last complete
  whole,           \* packet_res_payload_len is that of a property's value
  up, down,
  command,         \* the user interface in Packet_SendNonBlocking
  core_kept,       \* packet_res_buf # NULL on the core
  executed,        \* the commands the core has executed, by number
  result,          \* how the last call ended
  faults           \* how many faults there have been

display == <<packet_counter, call, res, whole, result>>
core == <<core_kept, executed>>
vars == <<display, core, up, down, command, faults>>

Ids == 0 .. IdMod - 1
Groups == 1 .. Len(Rounds)
Steps(g) == 1 .. Len(Rounds[g])
Polled == UNION {{Rounds[g][i] : i \in Steps(g)} : g \in Groups}
Nothing == "nothing"

(* A frame.  whole: its payload has the length of a property's value.  The *)
(* model knows of each request, and of the answer to it, whether it is the *)
(* last call's own; the code has only the id.                              *)
Frames == [type : {"get", "set", "response", "log"}, id : Ids, own : BOOLEAN,
           prop : Polled \cup {Nothing}, num : 0 .. MaxCommands,
           whole : BOOLEAN]
Get(id, prop) == [type |-> "get", id |-> id, own |-> TRUE, prop |-> prop,
                  num |-> 0, whole |-> FALSE]
Set(n) == [type |-> "set", id |-> 0, own |-> FALSE, prop |-> Nothing,
           num |-> n, whole |-> FALSE]
Log == [type |-> "log", id |-> 0, own |-> FALSE, prop |-> Nothing,
        num |-> 0, whole |-> FALSE]
Answer(f) == [f EXCEPT !.type = "response", !.whole = TRUE]

(* What is sent back for a response nobody has room for: the code it is    *)
(* answered with is positive, hence a response, of PRES_COMMS_ERROR bytes. *)
(* Its payload begins with that of the answer.                             *)
Returned(f) == [f EXCEPT !.whole = FALSE]

PropOf(c) == Rounds[c.group][c.step]
Append1(line, f, max) == IF Len(line) < max THEN Append(line, f) ELSE line
Older(line) == [i \in 1 .. Len(line) |-> [line[i] EXCEPT !.own = FALSE]]
Numbered(line) ==
  {line[i] : i \in {j \in 1 .. Len(line) : line[j].type \in {"get", "response"}}}
InFlight == Numbered(up) \cup Numbered(down)

-----------------------------------------------------------------------------
(* The build buffer of Packet_SendNonBlocking.  The communication task has *)
(* the higher priority: its frame replaces one that the user interface has *)
(* begun to encode or has not yet appended.                                *)

Overwritten(f) ==
  IF command.stage = "build" THEN [command EXCEPT !.over = <<f>>] ELSE command

Encode ==
  /\ command.stage = "none" /\ command.num < MaxCommands
  /\ command' = [stage |-> "build", num |-> command.num + 1, over |-> <<>>]
  /\ UNCHANGED <<display, core, up, down, faults>>

\* mutant: the command stays in the build buffer and is sent again
AppendCommandAgain ==
  /\ command.stage = "build"
  /\ UNCHANGED command
  /\ up' = Append1(up, Set(command.num), MaxUp)
  /\ UNCHANGED <<call, packet_counter, res, whole, result, core, down, faults>>

(* Appends what the buffer holds in the length of the command, which no    *)
(* frame of the communication task exceeds: the command, or the whole      *)
(* frame that has replaced it, or a mixture of both that no receiver takes.*)
AppendCommand ==
  /\ command.stage = "build"
  /\ command' = [command EXCEPT !.stage = "none", !.over = <<>>]
  /\ \/ /\ command.over = <<>>
        /\ up' = Append1(up, Set(command.num), MaxUp)
        /\ UNCHANGED call
     \/ /\ command.over # <<>>
        /\ UNCHANGED <<up, call>>
     \/ /\ command.over # <<>>
        /\ up' = Append1(up, command.over[1], MaxUp)
        /\ call' = [call EXCEPT !.alone = FALSE]
  /\ UNCHANGED <<packet_counter, res, whole, result, core, down, faults>>

-----------------------------------------------------------------------------
(* The communication task.                                                 *)

(* The call after one that has ended: the next value of the group, and the *)
(* next group after its last value or a failure.                           *)
Following(success) ==
  IF success /\ call.step < Len(Rounds[call.group])
  THEN [call EXCEPT !.stage = "next", !.step = @ + 1]
  ELSE [call EXCEPT !.stage = "next", !.group = (@ % Len(Rounds)) + 1, !.step = 1]

\* The call returns the value; part: it was looked at while the next frame was
\* being decoded.
End(value, part) ==
  /\ call' = Following(value # Nothing)
  /\ result' = [group |-> call.group, step |-> call.step, id |-> call.id,
                alone |-> call.alone, reused |-> call.reused, value |-> value, part |-> part]

\* mutant: the id does not wrap
NextPacketIdUnwrapped == packet_counter + 1

NextPacketId ==
  (packet_counter + 1) % IdMod

(* The next id is taken and the request encoded.                           *)
Request ==
  /\ call.stage = "next"
  /\ packet_counter' = NextPacketId
  /\ down' = Older(down)
  /\ command' = Overwritten(Get(packet_counter', PropOf(call)))
  /\ UNCHANGED <<res, whole, core>>

(* alone: no request or answer of an earlier call is on its way any more,  *)
(* and none of this call twice; reused: one is that has the call's id.     *)
StartCall ==
  /\ Request
  /\ Len(up) < MaxUp
  /\ up' = Append(Older(up), Get(packet_counter', PropOf(call)))
  /\ call' = [call EXCEPT !.stage = "wait", !.id = packet_counter',
                          !.alone = InFlight = {},
                          !.reused = \E f \in InFlight : f.id = packet_counter']
  /\ UNCHANGED <<result, faults>>

(* packet_received on the display, for the next frame that is complete.    *)
Receive ==
  /\ call.stage = "wait" /\ down # <<>>
  /\ LET f == Head(down)
     IN /\ down' = Tail(down)
        /\ IF f.type = "response" /\ res # <<>>
           THEN /\ up' = Append1(up, Returned(f), MaxUp)
                /\ command' = Overwritten(Returned(f))
           ELSE UNCHANGED <<up, command>>
        /\ IF f.type = "response" /\ res = <<>>
           THEN res' = <<f>> /\ whole' = f.whole
           ELSE /\ res' = IF res = <<>> THEN <<>> ELSE <<f>>
                /\ UNCHANGED whole
  /\ UNCHANGED <<packet_counter, call, result, core, faults>>

(* What a value is worth that is taken from the payload of frame f.        *)
Worth(f) ==
  IF f.type # "response" THEN "garbage"
  ELSE IF f.own /\ f.prop = PropOf(call) THEN "own" ELSE "old"

(* What the buffer may show when the answer is looked at: the frame that   *)
(* was complete, or with its id replaced by that of the frame behind it,   *)
(* or with its payload replaced as well, or a part of that.                *)
Views ==
  LET f == res[1]
  IN {[id |-> f.id, worth |-> Worth(f), part |-> FALSE]} \cup
     IF down = <<>> THEN {}
     ELSE {[id |-> Head(down).id, worth |-> w, part |-> TRUE] :
             w \in {Worth(f), Worth(Head(down)), "garbage"}}

(* What the call returns for what it sees.                                 *)
Return(v) == End(IF whole THEN v.worth ELSE Nothing, v.part)

\* mutant: the ids are not compared
TakeAnyAnswer ==
  /\ call.stage = "wait" /\ res # <<>>
  /\ res' = <<>>
  /\ \E v \in Views : Return(v)
  /\ UNCHANGED <<packet_counter, whole, core, up, down, command, faults>>

\* mutant: packet_res_buf is not reset where an answer is discarded
TakeAnswerKept ==
  /\ call.stage = "wait" /\ res # <<>>
  /\ \E v \in Views :
       IF v.id # call.id THEN UNCHANGED <<res, call, result>>
       ELSE res' = <<>> /\ Return(v)
  /\ UNCHANGED <<packet_counter, whole, core, up, down, command, faults>>

(* One look of usart_sync_await_response at the answer that is kept.       *)
TakeAnswer ==
  /\ call.stage = "wait" /\ res # <<>>
  /\ res' = <<>>
  /\ \E v \in Views :
       IF v.id # call.id THEN UNCHANGED <<call, result>> ELSE Return(v)
  /\ UNCHANGED <<packet_counter, whole, core, up, down, command, faults>>

TimeOut ==
  /\ call.stage = "wait" /\ res = <<>>
  /\ End(Nothing, FALSE)
  /\ UNCHANGED <<packet_counter, res, whole, core, up, down, command>>

\* No answer comes any more; what was in the ring has been received.
TimeOutAlone == TimeOut /\ InFlight = {} /\ down = <<>> /\ UNCHANGED faults

-----------------------------------------------------------------------------
(* The core: Packet_Worker of its main loop, frame by frame.               *)

CoreReceive ==
  /\ up # <<>>
  /\ up' = Tail(up)
  /\ LET f == Head(up)
     IN \/ /\ f.type = "get"
           /\ down' = Append1(down, Answer(f), MaxDown)
           /\ UNCHANGED core
        \/ /\ f.type = "set"
           /\ executed' = Append(executed, f.num)
           /\ UNCHANGED <<down, core_kept>>
        \/ /\ f.type = "response"
           /\ down' = IF core_kept THEN Append1(down, Returned(f), MaxDown)
                      ELSE down
           /\ core_kept' = TRUE
           /\ UNCHANGED executed
  /\ UNCHANGED <<display, command, faults>>

-----------------------------------------------------------------------------
(* Faults.                                                                 *)

Fault == faults < MaxFaults /\ faults' = faults + 1

(* The transmit ring is full.                                              *)
RequestRefused ==
  /\ Fault /\ Request
  /\ up' = Older(up)
  /\ call' = [Following(FALSE) EXCEPT !.id = packet_counter']
  /\ result' = [result EXCEPT !.value = Nothing]

TimeOutEarly == Fault /\ TimeOut /\ InFlight # {}

LoseUp ==
  /\ Fault /\ up # <<>> /\ up' = Tail(up)
  /\ UNCHANGED <<display, core, down, command>>

LoseDown ==
  /\ Fault /\ down # <<>> /\ down' = Tail(down)
  /\ UNCHANGED <<display, core, up, command>>

CoreLogs ==
  /\ Fault /\ down' = Append1(down, Log, MaxDown)
  /\ UNCHANGED <<display, core, up, command>>

(* What has reached the display's ring stays there.                        *)
CoreRestarts ==
  /\ Fault /\ core_kept' = FALSE
  /\ up' = <<>>
  /\ \E n \in 0 .. Len(down) : down' = SubSeq(down, 1, n)
  /\ UNCHANGED <<display, executed, command>>

-----------------------------------------------------------------------------
Init ==
  /\ packet_counter = 0
  /\ call = [stage |-> "next", group |-> 1, step |-> 1, id |-> 0,
           alone |-> TRUE, reused |-> FALSE]
  /\ res = <<>> /\ whole = FALSE
  /\ up = <<>> /\ down = <<>>
  /\ command = [stage |-> "none", num |-> 0, over |-> <<>>]
  /\ core_kept = FALSE
  /\ executed = <<>>
  /\ result = [group |-> 1, step |-> 1, id |-> 0,
             alone |-> TRUE, reused |-> FALSE, value |-> Nothing, part |-> FALSE]
  /\ faults = 0

Next ==
  \/ StartCall \/ Receive \/ TakeAnswer \/ TimeOutAlone
  \/ Encode \/ AppendCommand
  \/ CoreReceive
  \/ RequestRefused \/ TimeOutEarly \/ LoseUp \/ LoseDown \/ CoreLogs \/ CoreRestarts

Spec == Init /\ [][Next]_vars

(* An answer is looked at within a millisecond and a frame takes longer:   *)
(* the next one is complete before only where two have gathered between    *)
(* two calls, and each time one frame fewer is left to do so.              *)
LooksInTime == <>[][Receive => res = <<>>]_vars

(* The tasks and the core's loop run; faults and commands need not come.   *)
FairSpec ==
  /\ Spec
  /\ WF_vars(StartCall) /\ WF_vars(Receive) /\ WF_vars(TakeAnswer)
  /\ WF_vars(TimeOutAlone) /\ WF_vars(CoreReceive)
  /\ LooksInTime

-----------------------------------------------------------------------------
TypeOK ==
  /\ packet_counter \in Ids
  /\ call \in [stage : {"next", "wait"}, group : Groups, step : Nat, id : Ids,
               alone : BOOLEAN, reused : BOOLEAN]
  /\ call.step \in Steps(call.group)
  /\ res \in Seq(Frames) /\ Len(res) <= 1
  /\ whole \in BOOLEAN
  /\ up \in Seq(Frames) /\ Len(up) <= MaxUp
  /\ down \in Seq(Frames) /\ Len(down) <= MaxDown
  /\ command \in [stage : {"none", "build"}, num : 0 .. MaxCommands, over : Seq(Frames)]
  /\ Len(command.over) <= 1
  /\ core_kept \in BOOLEAN
  /\ executed \in Seq(1 .. MaxCommands)
  /\ result \in [group : Groups, step : Nat, id : Ids, alone : BOOLEAN,
                 reused : BOOLEAN, value : {Nothing, "own", "old", "garbage"},
                 part : BOOLEAN]
  /\ faults \in 0 .. MaxFaults

(* A call returns the answer to its own request or fails, however late the *)
(* answers of earlier calls are, as long as the answer is looked at before *)
(* the next frame reaches the buffer it is in.  Where no other answer can  *)
(* come, because nothing of earlier calls was on its way and the request   *)
(* went out once, the next frame does no harm either.  Exempt are a call   *)
(* whose id is still on its way, which takes 255 calls, and call 0, whose  *)
(* id the frames without a number have.                                    *)
AnswerOwn ==
  result.id # 0 /\ ~result.reused /\ (result.alone \/ ~result.part) =>
    result.value \in {"own", Nothing}

(* "discard old packets" (packet_handler.c:249): whatever the call, the    *)
(* answer to an earlier one is not taken for its own.                      *)
OldDiscarded == result.value # "old"

(* The commands that reach the core reach it once and in order, although   *)
(* their frames are copied through a buffer that another task writes.      *)
CommandsInOrder ==
  \A i \in 1 .. Len(executed) : \A j \in 1 .. i - 1 : executed[j] < executed[i]

(* Every group of properties is read again and again, once faults have     *)
(* stopped.                                                                *)
KeepsPolling ==
  \A g \in Groups :
    []<>(result.group = g /\ result.step = Len(Rounds[g]) /\ result.value # Nothing)
=============================================================================
