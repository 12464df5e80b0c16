----------------------------- MODULE FlashUpdate -----------------------------
(***************************************************************************)
(* A firmware update: the bootloader of the display programs the core over *)
(* the serial line, then its own flash and the flash of the assets         *)
(* (display-bootloader, Main_Menu of bootloader.c); the bootloader of the  *)
(* core executes its commands (core-bootloader, app_handler.c); and both   *)
(* decide at every start whether to run the firmware they find             *)
(* (shared/bootloader, jump_to_user_fw.c).                                 *)
(*                                                                         *)
(* The commands that identify, erase and write all carry packet id 0, so   *)
(* that an answer that comes after the display has given up waiting is     *)
(* taken for the answer to the next command.  Frames get lost, operations  *)
(* on the flash fail, and power goes away at any moment: what was being    *)
(* erased or programmed is then torn, and may still read as it did.        *)
(***************************************************************************)
EXTENDS Integers, Sequences

CONSTANTS
  Cells,         \* how many writes the image of the core takes; the first
                 \* one has the header and the interrupt vector
  RetryCounter,  \* retry_counter
  MaxFaults      \* bound on lost frames, early timeouts, failures and resets

ASSUME UpdateAssumption ==
  /\ Cells \in Nat \ {0}
  /\ RetryCounter \in Nat /\ MaxFaults \in Nat

VARIABLES
  \* display
  stage,    \* where Main_Menu is
  pos,      \* the cell that is written; of the display's own: it is erased
  try,      \* 0: the first attempt; i + 1: retry i
  only,     \* flash_only_display
  local,    \* the display's flash and that of the assets
  \* line
  up, down,
  \* core
  mode,     \* what it runs
  op, cell, \* the command that is executed, and where
  kept,     \* packet_res_buf # NULL: nothing ever takes a response there
  flash,    \* the user flash
  skips,    \* the header, whole or torn, says "VPX": do not verify
  \* history
  clean,    \* each command of the last attempt was sent when nothing of an
            \* earlier one was on its way
  faults

display == <<stage, pos, try, only, local, clean>>
core == <<mode, op, cell, kept, flash, skips>>
vars == <<display, up, down, core, faults>>

Cell == 1 .. Cells
Contents == {"old", "erased", "torn", "part", "new"}
Calls == {"identify", "third", "erase", "write"}
Parts == {"internal", "assets"}
Stages == {"start", "button", "check", "complete", "stopped", "app"} \cup Calls \cup Parts

(* The packet ids: packet_counter is 0 when the display identifies the     *)
(* core and 2 when it reads the third party property.                      *)
IdOf(call) == IF call = "third" THEN 2 ELSE 0

(* Answers are told apart by the length of their payload: "code" is that   *)
(* of an error of app_packet_handler, which is positive and so sent as a   *)
(* response.                                                               *)
Answers == [kind : {"bootloader", "application", "value", "empty", "code"},
            id : {0, 2}]
Requests == [type : (Calls \cup {"response"}) \ {"write"}, cell : {0}, id : {0, 2}]
            \cup [type : {"write"}, cell : Cell, id : {0}]

Request(call, c) == [type |-> call, cell |-> c, id |-> IdOf(call)]
Outstanding == up # <<>> \/ down # <<>> \/ op # "idle"

-----------------------------------------------------------------------------
(* What a reset starts (jump_to_user_fw).                                  *)

\* A header that is marked is believed, without a look at the rest.
Bootable(f, marked) ==
  \/ marked
  \/ \A c \in Cell : f[c] = "old"
  \/ \A c \in Cell : f[c] = "new"

\* BOOTLOADER_CHECK_Pin is read at every start
CoreBoots(pressed, f, marked) ==
  IF pressed \/ ~Bootable(f, marked) THEN "bootloader" ELSE "application"

\* a torn image may be marked too
DisplayBoots(pressed, f) ==
  IF pressed \/ f["internal"] \in {"erased", "part"} THEN "start" ELSE "app"

-----------------------------------------------------------------------------
(* The display.                                                            *)


\* mutant: no attempt is the last
FailUnbounded(again) ==
  try' = try + 1 /\ stage' = again

(* An attempt has failed: another one, or the end of the update.           *)
Fail(again) ==
  IF try <= RetryCounter THEN try' = try + 1 /\ stage' = again
  ELSE stage' = "stopped" /\ UNCHANGED try

(* A call: the request is sent behind what is on the line.                 *)
Call(line, call, c) ==
  /\ up' = Append(line, Request(call, c))
  /\ stage' = call
  /\ pos' = c
  /\ clean' = (line = <<>> /\ down' = <<>> /\ op = "idle" /\ (call = "write" => clean))

Identify ==
  /\ stage = "start"
  /\ UNCHANGED <<try, local, down, core, faults>>
  /\ Call(up, "identify", 0)
  /\ only' = FALSE

(* The files are there, and the user presses the button.                   *)
UserButton ==
  /\ stage = "button"
  /\ stage' = IF only THEN "internal" ELSE "check"
  /\ pos' = 0 /\ try' = 0
  /\ UNCHANGED <<only, local, clean, up, down, core, faults>>

(* Main_FlashUserCoreFirmware after a dry run that found the file well.    *)
EraseCore ==
  /\ stage = "check"
  /\ UNCHANGED <<try, only, local, down, core, faults>>
  /\ Call(up, "erase", 0)

\* mutant: the length of an answer is not compared
FitsAnything(call, kind) ==
  TRUE

Fits(call, kind) ==
  CASE call = "identify" -> kind \in {"bootloader", "application"}
    [] call = "third" -> kind = "value"
    [] OTHER -> kind = "empty"

(* What follows a call that returns an answer, on a line ...               *)
Return(kind, line) ==
  \/ /\ stage = "identify" /\ kind = "bootloader"
     /\ Call(line, "third", 0)
     /\ UNCHANGED <<try, only>>
  \/ /\ stage = "identify" /\ kind # "bootloader"
     /\ stage' = "stopped" /\ up' = line
     /\ UNCHANGED <<pos, try, only, clean>>
  \/ /\ stage = "third"
     /\ stage' = "button" /\ up' = line
     /\ UNCHANGED <<pos, try, only, clean>>
  \/ /\ stage \in {"erase", "write"} /\ pos < Cells
     /\ Call(line, "write", pos + 1)
     /\ UNCHANGED <<try, only>>
  \/ /\ stage \in {"erase", "write"} /\ pos = Cells
     /\ stage' = "internal" /\ pos' = 0 /\ try' = 0 /\ up' = line
     /\ UNCHANGED <<only, clean>>

(* ... and one that returns an error.                                      *)
ReturnError(line) ==
  /\ up' = line
  /\ \/ /\ stage = "identify"
        /\ stage' = "button" /\ only' = TRUE
        /\ UNCHANGED try
     \/ /\ stage = "third"
        /\ stage' = "stopped"
        /\ UNCHANGED <<try, only>>
     \/ /\ stage \in {"erase", "write"}
        /\ Fail("check")
        /\ UNCHANGED only
  /\ UNCHANGED <<pos, clean>>

\* the answers behind the one that is kept, up to the n-th, go back to the core
SentBack(n) ==
  [i \in 1 .. n - 1 |-> [type |-> "response", cell |-> 0, id |-> down[i + 1].id]]

(* usart_sync_await_response: the first answer is kept, and those that are *)
(* complete before it is looked at are sent back.                          *)
AwaitResponse ==
  /\ stage \in Calls /\ down # <<>>
  /\ \E n \in 1 .. Len(down) :
       LET line == up \o SentBack(n)
           f == Head(down)
       IN /\ down' = SubSeq(down, n + 1, Len(down))
          /\ IF f.id # IdOf(stage)
             THEN up' = line /\ UNCHANGED <<stage, pos, try, only, clean>>
             ELSE IF Fits(stage, f.kind) THEN Return(f.kind, line)
             ELSE ReturnError(line)
  /\ UNCHANGED <<local, core, faults>>

TimeOut ==
  /\ stage \in Calls /\ down = <<>>
  /\ ReturnError(up)
  /\ UNCHANGED <<local, down, core>>

\* Nothing comes any more.
TimeOutAlone == TimeOut /\ ~Outstanding /\ UNCHANGED faults

(* The display's own flash, and that of the assets.                        *)
EraseLocal ==
  /\ stage \in Parts /\ pos = 0
  /\ pos' = 1
  /\ local' = [local EXCEPT ![stage] = "erased"]
  /\ UNCHANGED <<stage, try, only, clean, up, down, core, faults>>

ProgramLocal ==
  /\ stage \in Parts /\ pos = 1
  /\ local' = [local EXCEPT ![stage] = "new"]
  /\ stage' = IF stage = "internal" THEN "assets" ELSE "complete"
  /\ pos' = 0 /\ try' = 0
  /\ UNCHANGED <<only, clean, up, down, core, faults>>

-----------------------------------------------------------------------------
(* The core.                                                               *)

Answer(kind, id) == down' = Append(down, [kind |-> kind, id |-> id])

(* packet_received and app_packet_handler for the next frame.              *)
CoreReceive ==
  /\ op = "idle" /\ up # <<>>
  /\ up' = Tail(up)
  /\ LET f == Head(up)
     IN \/ /\ f.type = "identify"
           /\ Answer(mode, f.id)
           /\ UNCHANGED <<op, cell, kept>>
        \/ /\ f.type = "third"
           /\ Answer(IF mode = "bootloader" THEN "value" ELSE "code", f.id)
           /\ UNCHANGED <<op, cell, kept>>
        \/ /\ f.type \in {"erase", "write"} /\ mode = "bootloader"
           /\ op' = f.type
           /\ cell' = IF f.type = "erase" THEN 1 ELSE f.cell
           /\ UNCHANGED <<kept, down>>
        \/ /\ f.type \in {"erase", "write"} /\ mode = "application"
           /\ Answer("code", f.id)
           /\ UNCHANGED <<op, cell, kept>>
        \/ /\ f.type = "response"
           /\ IF kept THEN Answer("code", f.id) ELSE UNCHANGED down
           /\ kept' = TRUE
           /\ UNCHANGED <<op, cell>>
  /\ UNCHANGED <<display, mode, flash, skips, faults>>

(* What is left of a cell on which an operation did not succeed: all of it *)
(* or anything; of a header, the mark may be left.                         *)
Tear ==
  \E left \in {flash[cell], "torn"} :
    /\ flash' = [flash EXCEPT ![cell] = left]
    /\ skips' \in IF cell = 1 /\ left = "torn" THEN {skips, FALSE} ELSE {skips}

\* mutant: the header is the last to be erased
ErasePageBackwards ==
  /\ op = "erase"
  /\ flash' = [flash EXCEPT ![Cells + 1 - cell] = "erased"]
  /\ skips' = (skips /\ cell # Cells)
  /\ IF cell < Cells
     THEN cell' = cell + 1 /\ UNCHANGED <<op, down>>
     ELSE op' = "idle" /\ Answer("empty", 0) /\ UNCHANGED cell
  /\ UNCHANGED <<display, up, mode, kept, faults>>

(* cmd_flash_erase, page by page from the header on.                       *)
ErasePage ==
  /\ op = "erase"
  /\ flash' = [flash EXCEPT ![cell] = "erased"]
  /\ skips' = (skips /\ cell # 1)
  /\ IF cell < Cells
     THEN cell' = cell + 1 /\ UNCHANGED <<op, down>>
     ELSE op' = "idle" /\ Answer("empty", 0) /\ UNCHANGED cell
  /\ UNCHANGED <<display, up, mode, kept, faults>>

(* cmd_flash_write: only what is erased can be programmed, but for zeros,  *)
(* which the flash takes anywhere and the write of a cell may begin with.  *)
WriteCell ==
  /\ op = "write"
  /\ op' = "idle"
  /\ \/ /\ flash[cell] = "erased"
        /\ flash' = [flash EXCEPT ![cell] = "new"] /\ Answer("empty", 0)
        /\ UNCHANGED skips
     \/ /\ flash[cell] = "new"
        /\ Answer("code", 0) /\ UNCHANGED <<flash, skips>>
     \/ /\ flash[cell] \notin {"erased", "new"}
        /\ Answer("code", 0) /\ Tear
  /\ UNCHANGED <<display, up, mode, cell, kept, faults>>

-----------------------------------------------------------------------------
(* Faults.                                                                 *)

Fault == faults < MaxFaults /\ faults' = faults + 1

TimeOutEarly == Fault /\ TimeOut /\ Outstanding

LoseUp ==
  /\ Fault /\ up # <<>> /\ up' = Tail(up)
  /\ UNCHANGED <<display, down, core>>

LoseDown ==
  /\ Fault /\ down # <<>> /\ down' = Tail(down)
  /\ UNCHANGED <<display, up, core>>

\* The file cannot be read, or its signature is wrong.
FileError ==
  /\ Fault /\ stage \in Parts \cup {"check"}
  /\ Fail(IF stage \in Parts THEN stage ELSE "check")
  /\ pos' = 0
  /\ local' = IF stage \in Parts /\ pos = 1
              THEN [local EXCEPT ![stage] = "part"] ELSE local
  /\ UNCHANGED <<only, clean, up, down, core>>

\* The flash of the core cannot be erased or programmed.
FlashError ==
  /\ Fault /\ op # "idle"
  /\ op' = "idle"
  /\ Tear
  /\ Answer("code", 0)
  /\ UNCHANGED <<display, up, mode, cell, kept>>

(* A reset: what was being erased or programmed is left undefined.         *)
ResetCore ==
  /\ IF op = "idle" THEN UNCHANGED <<flash, skips>> ELSE Tear
  /\ op' = "idle" /\ kept' = FALSE
  /\ \E pressed \in BOOLEAN : mode' = CoreBoots(pressed, flash', skips')
  /\ up' = <<>>
  /\ UNCHANGED cell

ResetDisplay ==
  /\ \/ UNCHANGED local
     \/ stage \in Parts /\ local' = [local EXCEPT ![stage] = "torn"]
  /\ \E pressed \in BOOLEAN : stage' = DisplayBoots(pressed, local')
  /\ pos' = 0 /\ try' = 0
  /\ UNCHANGED <<only, clean>>

\* what has come to the display's ring stays there
CoreReset ==
  /\ Fault /\ ResetCore
  /\ \E n \in 0 .. Len(down) : down' = SubSeq(down, 1, n)
  /\ UNCHANGED display

DisplayReset ==
  /\ Fault /\ ResetDisplay
  /\ \E n \in 0 .. Len(up) : up' = SubSeq(up, 1, n)
  /\ down' = <<>>
  /\ UNCHANGED core

PowerCycle ==
  /\ Fault /\ ResetCore /\ ResetDisplay
  /\ down' = <<>>

-----------------------------------------------------------------------------
Init ==
  /\ stage = "start" /\ pos = 0 /\ try = 0 /\ only = FALSE
  /\ local = [p \in Parts |-> "old"]
  /\ up = <<>> /\ down = <<>>
  /\ mode \in {"bootloader", "application"}
  /\ op = "idle" /\ cell = 1 /\ kept = FALSE
  /\ flash \in {[c \in Cell |-> x] : x \in {"old", "erased"}}
  /\ skips \in BOOLEAN /\ (skips => flash[1] = "old")
  /\ mode = "application" => Bootable(flash, skips)
  /\ clean = TRUE
  /\ faults = 0

DisplayNext == Identify \/ EraseCore \/ AwaitResponse \/ TimeOutAlone \/ EraseLocal \/ ProgramLocal
CoreNext == CoreReceive \/ ErasePage \/ WriteCell
FaultNext ==
  TimeOutEarly \/ LoseUp \/ LoseDown \/ FileError \/ FlashError
  \/ CoreReset \/ DisplayReset \/ PowerCycle

Next == DisplayNext \/ UserButton \/ CoreNext \/ FaultNext

Spec == Init /\ [][Next]_vars

(* Both programs run; the user need not press the button.                  *)
FairSpec == Spec /\ WF_vars(DisplayNext) /\ WF_vars(CoreNext)

-----------------------------------------------------------------------------
TypeOK ==
  /\ stage \in Stages /\ pos \in 0 .. Cells /\ try \in 0 .. RetryCounter + 1
  /\ only \in BOOLEAN /\ clean \in BOOLEAN
  /\ local \in [Parts -> Contents]
  /\ up \in Seq(Requests) /\ down \in Seq(Answers)
  /\ mode \in {"bootloader", "application"}
  /\ op \in {"idle", "erase", "write"} /\ cell \in Cell
  /\ kept \in BOOLEAN /\ skips \in BOOLEAN
  /\ flash \in [Cell -> Contents]
  /\ faults \in 0 .. MaxFaults

(* Whatever goes wrong and whenever the power goes away, the core does not *)
(* run a firmware that is only in part in its flash, also when its header  *)
(* says that it need not be verified: an update erases the header first.   *)
(* What is left out is a header that is torn itself and still says so.     *)
StartsWhole ==
  mode = "application" =>
    \/ \A c \in Cell : flash[c] = "old"
    \/ \A c \in Cell : flash[c] = "new"
    \/ flash[1] = "torn" /\ skips

(* The same without the exception.                                         *)
StartsUntorn == mode = "application" => flash[1] # "torn"

(* The display goes on to its own flash with the core programmed, and says *)
(* "Programming complete" with everything programmed, unless a command was *)
(* sent before an earlier one was done with.                               *)
CompleteProgrammed ==
  /\ stage \in Parts \cup {"complete"} /\ ~only /\ clean =>
       \A c \in Cell : flash[c] = "new"
  /\ stage \in {"assets", "complete"} => local["internal"] = "new"
  /\ stage = "complete" => local["assets"] = "new"

(* The same of every update that is complete, once the core has done what  *)
(* is on its way to it.                                                    *)
CompleteAlways ==
  stage = "complete" /\ ~only /\ ~Outstanding => \A c \in Cell : flash[c] = "new"

=============================================================================
