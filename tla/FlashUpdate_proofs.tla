-------------------------- MODULE FlashUpdate_proofs --------------------------
(* What tlapm checks of FlashUpdate: whatever is lost, fails or loses its   *)
(* power, the core starts whole images only, but for a torn header that     *)
(* still asks not to be verified, and an update that reports its completion *)
(* has programmed everything; for every size of the image, every number of  *)
(* retries and of faults.                                                   *)
EXTENDS FlashUpdate, SequenceTheorems, TLAPS

-----------------------------------------------------------------------------
(* The sequences of the line.                                              *)

\* what is behind the n-th answer
LEMMA RestType ==
  ASSUME NEW S, NEW line \in Seq(S), NEW n \in 0 .. Len(line)
  PROVE  /\ SubSeq(line, n + 1, Len(line)) \in Seq(S)
         /\ Len(SubSeq(line, n + 1, Len(line))) = Len(line) - n
<1>1. Len(line) \in Nat /\ \A i \in n + 1 .. Len(line) : line[i] \in S
  BY LenProperties, ElementOfSeq
<1>2. n + 1 \in Int /\ Len(line) \in Int
  BY <1>1
<1>3. QED
  BY <1>1, <1>2, SubSeqProperties

\* what a reset leaves of a line
LEMMA FrontType ==
  ASSUME NEW S, NEW line \in Seq(S), NEW n \in 0 .. Len(line)
  PROVE  /\ SubSeq(line, 1, n) \in Seq(S)
         /\ line = <<>> => SubSeq(line, 1, n) = <<>>
<1>1. Len(line) \in Nat /\ \A i \in 1 .. n : line[i] \in S
  BY LenProperties, ElementOfSeq
<1>2. SubSeq(line, 1, n) \in Seq(S)
  BY <1>1, SubSeqProperties
<1>3. ASSUME line = <<>>
      PROVE  SubSeq(line, 1, n) = <<>>
  <2>1. n = 0
    BY <1>3, EmptySeq
  <2>2. QED
    BY <2>1, SubSeqEmpty
<1>4. QED
  BY <1>2, <1>3

Responses == {r \in Requests : r.type = "response"}

\* the answers that are sent back are responses, and none if one was kept alone
LEMMA SentBackType ==
  ASSUME down \in Seq(Answers), NEW n \in 1 .. Len(down)
  PROVE  /\ SentBack(n) \in Seq(Responses)
         /\ n = 1 => SentBack(n) = <<>>
<1>1. Len(down) \in Nat
  BY LenProperties
<1>2. \A i \in 1 .. n - 1 : down[i + 1] \in Answers
  BY <1>1, ElementOfSeq
<1>3. \A i \in 1 .. n - 1 :
        [type |-> "response", cell |-> 0, id |-> down[i + 1].id] \in Responses
  BY <1>2, UpdateAssumption DEF Responses, Requests, Answers
<1>4. SentBack(n) \in [1 .. n - 1 -> Responses]
  BY <1>3 DEF SentBack
<1>5. n - 1 \in Nat
  BY <1>1
<1>6. SentBack(n) \in Seq(Responses)
  BY <1>4, <1>5, SeqDef
<1>7. ASSUME n = 1
      PROVE  SentBack(n) = <<>>
  <2>1. SentBack(n) \in Seq(Responses) /\ Len(SentBack(n)) = 0
    <3>1. DOMAIN SentBack(n) = 1 .. 0
      BY <1>7 DEF SentBack
    <3>2. Len(SentBack(n)) \in Nat /\ DOMAIN SentBack(n) = 1 .. Len(SentBack(n))
      BY <1>6, LenProperties
    <3>3. QED
      BY <1>6, <3>1, <3>2
  <2>2. QED
    BY <2>1, EmptySeq
<1>8. QED
  BY <1>6, <1>7

-----------------------------------------------------------------------------
(* Type correctness, one lemma for each action.                            *)

\* the variables of the display in their types ...
DisplayOK ==
  /\ stage \in Stages /\ pos \in 0 .. Cells /\ try \in 0 .. RetryCounter + 1
  /\ only \in BOOLEAN /\ clean \in BOOLEAN

\* ... and those of the core
CoreOK ==
  /\ mode \in {"bootloader", "application"}
  /\ op \in {"idle", "erase", "write"} /\ cell \in Cell
  /\ kept \in BOOLEAN /\ skips \in BOOLEAN
  /\ flash \in [Cell -> Contents]

LEMMA TypeParts ==
  TypeOK <=> /\ DisplayOK /\ CoreOK
             /\ local \in [Parts -> Contents]
             /\ up \in Seq(Requests) /\ down \in Seq(Answers)
             /\ faults \in 0 .. MaxFaults
  BY DEF TypeOK, DisplayOK, CoreOK

LEMMA CallType ==
  ASSUME NEW line \in Seq(Requests), NEW call \in Calls, NEW c \in 0 .. Cells,
         call = "write" => c \in Cell, call # "write" => c = 0,
         Call(line, call, c), try' \in 0 .. RetryCounter + 1, only' \in BOOLEAN,
         clean \in BOOLEAN
  PROVE  DisplayOK' /\ up' \in Seq(Requests)
<1>1. Request(call, c) \in Requests
  BY DEF Request, Requests, IdOf
<1>2. up' \in Seq(Requests)
  BY <1>1, AppendProperties DEF Call
<1>3. clean' \in BOOLEAN
  BY DEF Call
<1>4. stage' \in Stages /\ pos' \in 0 .. Cells
  BY DEF Call, Stages
<1>5. QED
  BY <1>2, <1>3, <1>4 DEF DisplayOK

LEMMA FailType ==
  ASSUME DisplayOK, NEW again \in Stages, Fail(again)
  PROVE  stage' \in Stages /\ try' \in 0 .. RetryCounter + 1
  BY UpdateAssumption DEF DisplayOK, Fail, Stages

LEMMA ReturnErrorType ==
  ASSUME DisplayOK, NEW line \in Seq(Requests), ReturnError(line)
  PROVE  DisplayOK' /\ up' \in Seq(Requests)
<1>1. "check" \in Stages /\ "button" \in Stages /\ "stopped" \in Stages
  BY DEF Stages
<1>2. stage' \in Stages /\ try' \in 0 .. RetryCounter + 1 /\ only' \in BOOLEAN
  <2>1. CASE stage \in {"erase", "write"} /\ Fail("check") /\ UNCHANGED only
    BY <1>1, <2>1, FailType DEF DisplayOK
  <2>2. CASE stage = "identify" /\ stage' = "button" /\ only' = TRUE /\ UNCHANGED try
    BY <1>1, <2>2 DEF DisplayOK
  <2>3. CASE stage = "third" /\ stage' = "stopped" /\ UNCHANGED <<try, only>>
    BY <1>1, <2>3 DEF DisplayOK
  <2>4. QED
    BY <2>1, <2>2, <2>3 DEF ReturnError
<1>3. QED
  BY <1>2 DEF ReturnError, DisplayOK

LEMMA ReturnType ==
  ASSUME DisplayOK, NEW line \in Seq(Requests), NEW kind, Return(kind, line)
  PROVE  DisplayOK' /\ up' \in Seq(Requests)
<1>1. {"button", "stopped", "internal"} \subseteq Stages /\ Calls \subseteq Stages
  BY DEF Stages, Parts
<1>2. CASE Call(line, "third", 0) /\ UNCHANGED <<try, only>>
  BY <1>2, CallType, UpdateAssumption DEF DisplayOK, Calls
<1>3. CASE pos < Cells /\ Call(line, "write", pos + 1) /\ UNCHANGED <<try, only>>
  <2>1. pos + 1 \in Cell /\ pos + 1 \in 0 .. Cells /\ "write" \in Calls
    BY <1>3, UpdateAssumption DEF DisplayOK, Calls, Cell
  <2>2. QED
    BY <1>3, <2>1, CallType DEF DisplayOK
<1>4. CASE /\ stage' \in {"stopped", "button"} /\ up' = line
           /\ UNCHANGED <<pos, try, only, clean>>
  BY <1>1, <1>4 DEF DisplayOK
<1>5. CASE /\ stage' = "internal" /\ pos' = 0 /\ try' = 0 /\ up' = line
           /\ UNCHANGED <<only, clean>>
  BY <1>1, <1>5, UpdateAssumption DEF DisplayOK
<1>6. QED
  BY <1>2, <1>3, <1>4, <1>5 DEF Return

LEMMA DisplayType ==
  ASSUME TypeOK, DisplayNext \/ UserButton
  PROVE  TypeOK'
<1> USE TypeParts
<1>1. CASE Identify
  <2>1. Call(up, "identify", 0) /\ only' = FALSE /\ try' = try
    BY <1>1 DEF Identify
  <2>2. only' \in BOOLEAN
    BY <2>1, Zenon
  <2>3. "identify" \in Calls /\ 0 \in 0 .. Cells
    BY UpdateAssumption DEF Calls
  <2>4. DisplayOK' /\ up' \in Seq(Requests)
    BY <2>1, <2>2, <2>3, CallType DEF TypeOK
  <2>5. QED
    BY <1>1, <2>4 DEF Identify, core, CoreOK, DisplayOK, TypeOK
<1>2. CASE EraseCore
  <2>1. DisplayOK' /\ up' \in Seq(Requests)
    BY <1>2, CallType, UpdateAssumption DEF EraseCore, DisplayOK, Calls
  <2>2. QED
    BY <1>2, <2>1 DEF EraseCore, core, CoreOK, DisplayOK, TypeOK
<1>3. CASE AwaitResponse
  <2>1. PICK n \in 1 .. Len(down) :
          LET line == up \o SentBack(n)
              f == Head(down)
          IN /\ down' = SubSeq(down, n + 1, Len(down))
             /\ IF f.id # IdOf(stage)
                THEN up' = line /\ UNCHANGED <<stage, pos, try, only, clean>>
                ELSE IF Fits(stage, f.kind) THEN Return(f.kind, line)
                ELSE ReturnError(line)
    BY <1>3 DEF AwaitResponse
  <2> DEFINE line == up \o SentBack(n)
             f == Head(down)
  <2>2. line \in Seq(Requests)
    <3>1. SentBack(n) \in Seq(Requests)
      BY SentBackType, SeqMonotonic DEF Responses
    <3>2. QED
      BY <3>1, ConcatProperties
  <2>3. down' \in Seq(Answers)
    <3>1. n \in 0 .. Len(down)
      BY LenProperties
    <3>2. QED
      BY <2>1, <3>1, RestType
  <2>4. DisplayOK' /\ up' \in Seq(Requests)
    <3> HIDE DEF line
    <3>1. CASE up' = line /\ UNCHANGED <<stage, pos, try, only, clean>>
      BY <2>2, <3>1 DEF DisplayOK
    <3>2. CASE Return(f.kind, line)
      BY <2>2, <3>2, ReturnType
    <3>3. CASE ReturnError(line)
      BY <2>2, <3>3, ReturnErrorType
    <3>4. QED
      BY <2>1, <3>1, <3>2, <3>3 DEF line
  <2>5. CoreOK' /\ local' \in [Parts -> Contents] /\ faults' \in 0 .. MaxFaults
    BY <1>3 DEF AwaitResponse, core, CoreOK
  <2>6. QED
    BY <2>3, <2>4, <2>5 DEF TypeOK, DisplayOK, CoreOK
<1>4. CASE TimeOutAlone
  <2>1. DisplayOK' /\ up' \in Seq(Requests)
    BY <1>4, ReturnErrorType DEF TimeOutAlone, TimeOut
  <2>2. QED
    BY <1>4, <2>1 DEF TimeOutAlone, TimeOut, core, CoreOK, DisplayOK, TypeOK
<1>5. CASE EraseLocal
  BY <1>5, UpdateAssumption DEF EraseLocal, core, TypeOK, Contents
<1>6. CASE ProgramLocal
  BY <1>6, UpdateAssumption DEF ProgramLocal, core, TypeOK, Contents, Stages, Parts
<1>7. CASE UserButton
  BY <1>7, UpdateAssumption DEF UserButton, core, TypeOK, Stages, Parts
<1>8. QED
  BY <1>1, <1>2, <1>3, <1>4, <1>5, <1>6, <1>7 DEF DisplayNext

LEMMA AnswerType ==
  ASSUME down \in Seq(Answers),
         NEW kind \in {"bootloader", "application", "value", "empty", "code"},
         NEW id \in {0, 2}, Answer(kind, id)
  PROVE  down' \in Seq(Answers)
<1>1. [kind |-> kind, id |-> id] \in Answers
  BY DEF Answers
<1>2. QED
  BY <1>1, AppendProperties DEF Answer

LEMMA TearType ==
  ASSUME flash \in [Cell -> Contents], cell \in Cell, skips \in BOOLEAN, Tear
  PROVE  flash' \in [Cell -> Contents] /\ skips' \in BOOLEAN
<1>1. PICK left \in {flash[cell], "torn"} :
        /\ flash' = [flash EXCEPT ![cell] = left]
        /\ skips' \in IF cell = 1 /\ left = "torn" THEN {skips, FALSE} ELSE {skips}
  BY DEF Tear
<1>2. left \in Contents
  BY <1>1 DEF Contents
<1>3. skips' \in {skips, FALSE}
  BY <1>1
<1>4. QED
  BY <1>1, <1>2, <1>3

LEMMA CoreType ==
  ASSUME TypeOK, CoreNext
  PROVE  TypeOK'
<1> USE DEF TypeOK
<1>1. CASE CoreReceive
  <2> DEFINE f == Head(up)
  <2>1. f \in Requests /\ up' \in Seq(Requests)
    BY <1>1, HeadTailProperties DEF CoreReceive
  <2>2. f.id \in {0, 2} /\ (f.type = "write" => f.cell \in Cell)
    BY <2>1 DEF Requests
  <2>3. UNCHANGED down \/ \E kind \in {"bootloader", "application", "value", "code"} : Answer(kind, f.id)
    BY <1>1 DEF CoreReceive
  <2>4. down' \in Seq(Answers)
    BY <2>2, <2>3, AnswerType
  <2>5. op' \in {"idle", "erase", "write"} /\ kept' \in BOOLEAN
    BY <1>1 DEF CoreReceive
  <2>6. cell' \in Cell
    BY <1>1, <2>2, UpdateAssumption DEF CoreReceive, Cell
  <2>7. QED
    BY <1>1, <2>1, <2>4, <2>5, <2>6 DEF CoreReceive, display
<1>2. CASE ErasePage
  <2>1. down' \in Seq(Answers)
    BY <1>2, AnswerType DEF ErasePage
  <2>2. cell' \in Cell
    BY <1>2, UpdateAssumption DEF ErasePage, Cell
  <2>3. flash' \in [Cell -> Contents]
    BY <1>2 DEF ErasePage, Contents
  <2>4. QED
    BY <1>2, <2>1, <2>2, <2>3 DEF ErasePage, display
<1>3. CASE WriteCell
  <2>1. down' \in Seq(Answers)
    BY <1>3, AnswerType DEF WriteCell
  <2>2. flash' \in [Cell -> Contents] /\ skips' \in BOOLEAN
    <3>1. CASE Tear
      BY <3>1, TearType
    <3>2. CASE flash' = [flash EXCEPT ![cell] = "new"] /\ UNCHANGED skips
      BY <3>2 DEF Contents
    <3>3. CASE UNCHANGED <<flash, skips>>
      BY <3>3
    <3>4. QED
      BY <1>3, <3>1, <3>2, <3>3 DEF WriteCell
  <2>3. QED
    BY <1>3, <2>1, <2>2 DEF WriteCell, display
<1>4. QED
  BY <1>1, <1>2, <1>3 DEF CoreNext

LEMMA ResetCoreType ==
  ASSUME TypeOK, ResetCore
  PROVE  CoreOK' /\ up' \in Seq(Requests)
<1>1. flash' \in [Cell -> Contents] /\ skips' \in BOOLEAN
  BY TearType DEF TypeOK, ResetCore
<1>2. mode' \in {"bootloader", "application"}
  BY DEF ResetCore, CoreBoots
<1>3. up' \in Seq(Requests)
  BY EmptySeq DEF ResetCore
<1>4. QED
  BY <1>1, <1>2, <1>3 DEF TypeOK, ResetCore, CoreOK

LEMMA ResetDisplayType ==
  ASSUME TypeOK, ResetDisplay
  PROVE  DisplayOK' /\ local' \in [Parts -> Contents]
<1>1. stage' \in Stages
  BY DEF ResetDisplay, DisplayBoots, Stages
<1>2. local' \in [Parts -> Contents]
  BY DEF TypeOK, ResetDisplay, Contents
<1>3. QED
  BY <1>1, <1>2, UpdateAssumption DEF TypeOK, ResetDisplay, DisplayOK

LEMMA FaultType ==
  ASSUME TypeOK, FaultNext
  PROVE  TypeOK'
<1> USE TypeParts
<1>1. faults' \in 0 .. MaxFaults
  BY UpdateAssumption DEF TypeOK, FaultNext, TimeOutEarly, LoseUp, LoseDown, FileError,
     FlashError, CoreReset, DisplayReset, PowerCycle, Fault
<1>2. CASE TimeOutEarly
  <2>1. DisplayOK' /\ up' \in Seq(Requests)
    BY <1>2, ReturnErrorType DEF TimeOutEarly, TimeOut
  <2>2. QED
    BY <1>1, <1>2, <2>1 DEF TimeOutEarly, TimeOut, core, CoreOK, DisplayOK, TypeOK
<1>3. CASE LoseUp
  <2>1. up' \in Seq(Requests)
    BY <1>3, HeadTailProperties DEF LoseUp
  <2>2. QED
    BY <1>1, <1>3, <2>1 DEF LoseUp, core, display, TypeOK
<1>4. CASE LoseDown
  <2>1. down' \in Seq(Answers)
    BY <1>4, HeadTailProperties DEF LoseDown
  <2>2. QED
    BY <1>1, <1>4, <2>1 DEF LoseDown, core, display, TypeOK
<1>5. CASE FileError
  <2>1. stage' \in Stages /\ try' \in 0 .. RetryCounter + 1
    <3>1. (IF stage \in Parts THEN stage ELSE "check") \in Stages
      BY DEF Stages
    <3>2. QED
      BY <1>5, <3>1, FailType DEF FileError
  <2>2. local' \in [Parts -> Contents]
    BY <1>5 DEF FileError, Contents
  <2>3. QED
    BY <1>1, <1>5, <2>1, <2>2, UpdateAssumption DEF FileError, core, TypeOK
<1>6. CASE FlashError
  <2>1. down' \in Seq(Answers)
    BY <1>6, AnswerType DEF FlashError
  <2>2. flash' \in [Cell -> Contents] /\ skips' \in BOOLEAN
    BY <1>6, TearType DEF FlashError, TypeOK
  <2>3. QED
    BY <1>1, <1>6, <2>1, <2>2 DEF FlashError, display, TypeOK
<1>7. CASE CoreReset
  <2>1. CoreOK' /\ up' \in Seq(Requests)
    BY <1>7, ResetCoreType DEF CoreReset
  <2>2. down' \in Seq(Answers)
    BY <1>7, FrontType DEF CoreReset
  <2>3. QED
    BY <1>1, <1>7, <2>1, <2>2 DEF CoreReset, display, DisplayOK, TypeOK, CoreOK
<1>8. CASE DisplayReset
  <2>1. DisplayOK' /\ local' \in [Parts -> Contents]
    BY <1>8, ResetDisplayType DEF DisplayReset
  <2>2. up' \in Seq(Requests) /\ down' \in Seq(Answers)
    BY <1>8, FrontType, EmptySeq DEF DisplayReset
  <2>3. QED
    BY <1>1, <1>8, <2>1, <2>2 DEF DisplayReset, core, CoreOK, DisplayOK, TypeOK
<1>9. CASE PowerCycle
  <2>1. CoreOK' /\ up' \in Seq(Requests)
    BY <1>9, ResetCoreType DEF PowerCycle
  <2>2. DisplayOK' /\ local' \in [Parts -> Contents]
    BY <1>9, ResetDisplayType DEF PowerCycle
  <2>3. down' \in Seq(Answers)
    BY <1>9, EmptySeq DEF PowerCycle
  <2>4. QED
    BY <1>1, <1>9, <2>1, <2>2, <2>3 DEF CoreOK, DisplayOK, TypeOK
<1>10. QED
  BY <1>2, <1>3, <1>4, <1>5, <1>6, <1>7, <1>8, <1>9 DEF FaultNext

LEMMA InitType == Init => TypeOK
<1> SUFFICES ASSUME Init
             PROVE  TypeOK
  OBVIOUS
<1>1. up \in Seq(Requests) /\ down \in Seq(Answers)
  BY EmptySeq DEF Init
<1>2. local \in [Parts -> Contents] /\ flash \in [Cell -> Contents]
  BY DEF Init, Contents
<1>3. faults \in 0 .. MaxFaults /\ try \in 0 .. RetryCounter + 1 /\ pos \in 0 .. Cells
      /\ cell \in Cell
  BY UpdateAssumption DEF Init, Cell
<1>4. stage \in Stages /\ only \in BOOLEAN /\ clean \in BOOLEAN
  BY DEF Init, Stages
<1>5. /\ mode \in {"bootloader", "application"} /\ op \in {"idle", "erase", "write"}
      /\ kept \in BOOLEAN /\ skips \in BOOLEAN
  BY DEF Init
<1>6. QED
  BY <1>1, <1>2, <1>3, <1>4, <1>5 DEF TypeOK

LEMMA NextType == TypeOK /\ [Next]_vars => TypeOK'
<1> SUFFICES ASSUME TypeOK, [Next]_vars
             PROVE  TypeOK'
  OBVIOUS
<1>1. CASE DisplayNext \/ UserButton
  BY <1>1, DisplayType
<1>2. CASE CoreNext
  BY <1>2, CoreType
<1>3. CASE FaultNext
  BY <1>3, FaultType
<1>4. CASE UNCHANGED vars
  BY <1>4 DEF TypeOK, vars, display, core
<1>5. QED
  BY <1>1, <1>2, <1>3, <1>4 DEF Next

(* Every variable keeps to its values: in particular no part is tried more *)
(* often than retry_counter says, and no write goes past the image.        *)
THEOREM UpdateTypeCorrect == Spec => []TypeOK
<1>1. QED
  BY InitType, NextType, PTL DEF Spec

-----------------------------------------------------------------------------
(* What the core starts.  Its header is the first to be erased and the     *)
(* first to be written: as long as it is the old one nothing has been      *)
(* erased, hence no command has been executed and no write is on its way.  *)

NoWrites == {r \in Requests : r.type # "write"}
NotDone == {a \in Answers : a.kind # "empty"}

Untouched ==
  /\ \A c \in Cell : flash[c] = "old"
  /\ stage # "write" /\ op # "write" /\ (op = "erase" => cell = 1)
  /\ up \in Seq(NoWrites) /\ down \in Seq(NotDone)

StartInv ==
  /\ mode = "application" => op = "idle"
  /\ flash[1] = "old" => Untouched
  /\ skips => flash[1] \in {"old", "torn"}
  /\ StartsWhole

LEMMA FirstCell == 1 \in Cell
  BY UpdateAssumption DEF Cell

\* nothing but the display's own state and the line changes
LEMMA CoreKept ==
  ASSUME TypeOK, StartInv, UNCHANGED <<mode, op, cell, flash, skips>>,
         flash[1] = "old" =>
           stage' # "write" /\ up' \in Seq(NoWrites) /\ down' \in Seq(NotDone)
  PROVE  StartInv'
  BY DEF StartInv, Untouched, StartsWhole

LEMMA CallHarmless ==
  ASSUME NEW line \in Seq(NoWrites), NEW call \in Calls \ {"write"}, Call(line, call, 0)
  PROVE  stage' # "write" /\ up' \in Seq(NoWrites)
<1>1. Request(call, 0) \in NoWrites
  BY DEF Request, Requests, IdOf, NoWrites, Calls
<1>2. QED
  BY <1>1, AppendProperties DEF Call

LEMMA ReturnErrorHarmless ==
  ASSUME NEW line \in Seq(NoWrites), stage # "write", ReturnError(line)
  PROVE  stage' # "write" /\ up' \in Seq(NoWrites)
  BY DEF ReturnError, Fail

LEMMA DisplayStarts ==
  ASSUME TypeOK, StartInv, DisplayNext \/ UserButton
  PROVE  StartInv'
<1>1. UNCHANGED <<mode, op, cell, flash, skips>>
  BY DEF DisplayNext, UserButton, Identify, EraseCore, AwaitResponse, TimeOutAlone,
     TimeOut, EraseLocal, ProgramLocal, core
<1>2. SUFFICES ASSUME flash[1] = "old"
               PROVE  stage' # "write" /\ up' \in Seq(NoWrites) /\ down' \in Seq(NotDone)
  BY <1>1, CoreKept
<1>3. up \in Seq(NoWrites) /\ down \in Seq(NotDone) /\ stage # "write"
  BY <1>2 DEF StartInv, Untouched
<1>4. CASE Identify
  BY <1>3, <1>4, CallHarmless DEF Identify, Calls
<1>5. CASE EraseCore
  BY <1>3, <1>5, CallHarmless DEF EraseCore, Calls
<1>6. CASE AwaitResponse
  <2>1. PICK n \in 1 .. Len(down) :
          LET line == up \o SentBack(n)
              f == Head(down)
          IN /\ down' = SubSeq(down, n + 1, Len(down))
             /\ IF f.id # IdOf(stage)
                THEN up' = line /\ UNCHANGED <<stage, pos, try, only, clean>>
                ELSE IF Fits(stage, f.kind) THEN Return(f.kind, line)
                ELSE ReturnError(line)
    BY <1>6 DEF AwaitResponse
  <2> DEFINE line == up \o SentBack(n)
             f == Head(down)
  <2>2. line \in Seq(NoWrites)
    <3>1. SentBack(n) \in Seq(Responses)
      BY SentBackType DEF TypeOK
    <3>2. Responses \subseteq NoWrites
      BY DEF Responses, NoWrites
    <3>3. SentBack(n) \in Seq(NoWrites)
      BY <3>1, <3>2, SeqMonotonic
    <3>4. QED
      BY <1>3, <3>3, ConcatProperties
  <2>3. down' \in Seq(NotDone)
    <3>1. n \in 0 .. Len(down)
      BY <1>3, LenProperties
    <3>2. QED
      BY <1>3, <2>1, <3>1, RestType
  <2>4. f.kind # "empty"
    BY <1>3, <1>6, HeadTailProperties DEF AwaitResponse, NotDone
  <2>5. stage' # "write" /\ up' \in Seq(NoWrites)
    <3> HIDE DEF line
    <3>1. CASE up' = line /\ UNCHANGED <<stage, pos, try, only, clean>>
      BY <1>3, <2>2, <3>1
    <3>2. CASE Fits(stage, f.kind) /\ Return(f.kind, line)
      <4>1. stage \notin {"erase", "write"}
        BY <2>4, <3>2 DEF Fits
      <4>2. CASE Call(line, "third", 0)
        BY <2>2, <4>2, CallHarmless DEF Calls
      <4>3. CASE stage' \in {"stopped", "button"} /\ up' = line
        BY <2>2, <4>3
      <4>4. QED
        BY <3>2, <4>1, <4>2, <4>3 DEF Return
    <3>3. CASE ReturnError(line)
      BY <1>3, <2>2, <3>3, ReturnErrorHarmless
    <3>4. QED
      BY <2>1, <3>1, <3>2, <3>3 DEF line
  <2>6. QED
    BY <2>3, <2>5
<1>7. CASE TimeOutAlone
  BY <1>3, <1>7, ReturnErrorHarmless DEF TimeOutAlone, TimeOut
<1>8. CASE EraseLocal \/ ProgramLocal \/ UserButton
  BY <1>3, <1>8 DEF EraseLocal, ProgramLocal, UserButton, Parts
<1>9. QED
  BY <1>4, <1>5, <1>6, <1>7, <1>8 DEF DisplayNext

LEMMA AnswerHarmless ==
  ASSUME down \in Seq(NotDone),
         NEW kind \in {"bootloader", "application", "value", "code"},
         NEW id \in {0, 2}, Answer(kind, id)
  PROVE  down' \in Seq(NotDone)
<1>1. [kind |-> kind, id |-> id] \in NotDone
  BY DEF Answers, NotDone
<1>2. QED
  BY <1>1, AppendProperties DEF Answer

\* what an operation that does not succeed leaves of the header
LEMMA TornHeader ==
  ASSUME TypeOK, StartInv, Tear
  PROVE  /\ flash'[1] = "old" => flash[1] = "old"
         /\ flash'[1] = "old" /\ cell = 1 => UNCHANGED <<flash, skips>>
         /\ skips' => skips /\ flash'[1] \in {"old", "torn"}
<1>1. PICK left \in {flash[cell], "torn"} :
        /\ flash' = [flash EXCEPT ![cell] = left]
        /\ skips' \in IF cell = 1 /\ left = "torn" THEN {skips, FALSE} ELSE {skips}
  BY DEF Tear
<1>2. 1 \in Cell /\ cell \in Cell /\ flash \in [Cell -> Contents] /\ skips \in BOOLEAN
  BY FirstCell DEF TypeOK
<1>3. skips => flash[1] \in {"old", "torn"}
  BY DEF StartInv
<1>4. CASE cell = 1
  BY <1>1, <1>2, <1>3, <1>4
<1>5. CASE cell # 1
  BY <1>1, <1>2, <1>3, <1>5
<1>6. QED
  BY <1>4, <1>5

LEMMA CoreStarts ==
  ASSUME TypeOK, StartInv, CoreNext
  PROVE  StartInv'
<1>1. CASE CoreReceive
  <2> DEFINE f == Head(up)
  <2>1. f \in Requests
    BY <1>1, HeadTailProperties DEF CoreReceive, TypeOK
  <2>2. /\ UNCHANGED <<stage, mode, flash, skips>> /\ (mode = "application" => op' = "idle")
    BY <1>1 DEF CoreReceive, display
  <2>3. StartsWhole'
    BY <2>2 DEF StartInv, StartsWhole
  <2>4. ASSUME flash[1] = "old"
        PROVE  Untouched'
    <3>1. up \in Seq(NoWrites) /\ down \in Seq(NotDone) /\ stage # "write"
          /\ \A c \in Cell : flash[c] = "old"
      BY <2>4 DEF StartInv, Untouched
    <3>2. f.type # "write" /\ f.id \in {0, 2} /\ up' \in Seq(NoWrites)
      BY <1>1, <2>1, <3>1, HeadTailProperties DEF CoreReceive, NoWrites, Requests
    <3>3. op' # "write" /\ (op' = "erase" => cell' = 1)
      BY <1>1, <3>2 DEF CoreReceive
    <3>4. UNCHANGED down \/ \E kind \in {"bootloader", "application", "value", "code"} :
            Answer(kind, f.id)
      BY <1>1 DEF CoreReceive, TypeOK
    <3>5. down' \in Seq(NotDone)
      BY <3>1, <3>2, <3>4, AnswerHarmless
    <3>6. QED
      BY <2>2, <3>1, <3>2, <3>3, <3>5 DEF Untouched
  <2>5. QED
    BY <2>2, <2>3, <2>4 DEF StartInv
<1>2. CASE ErasePage
  <2>1. mode' = "bootloader" /\ flash'[1] # "old"
    BY <1>2, FirstCell DEF ErasePage, StartInv, Untouched, TypeOK
  <2>2. skips' => flash'[1] \in {"old", "torn"}
    BY <1>2, FirstCell DEF ErasePage, StartInv, TypeOK
  <2>3. QED
    BY <2>1, <2>2 DEF StartInv, StartsWhole
<1>3. CASE WriteCell
  <2>1. mode' = "bootloader" /\ flash[1] # "old"
    BY <1>3 DEF WriteCell, StartInv, Untouched, TypeOK
  <2>2. flash'[1] # "old" /\ (skips' => flash'[1] \in {"old", "torn"})
    <3>1. CASE Tear
      BY <2>1, <3>1, TornHeader
    <3>2. CASE flash' = [flash EXCEPT ![cell] = "new"] /\ flash[cell] = "erased"
               /\ UNCHANGED skips
      BY <2>1, <3>2, FirstCell DEF StartInv, TypeOK
    <3>3. CASE UNCHANGED <<flash, skips>>
      BY <2>1, <3>3 DEF StartInv
    <3>4. QED
      BY <1>3, <3>1, <3>2, <3>3 DEF WriteCell
  <2>3. QED
    BY <2>1, <2>2 DEF StartInv, StartsWhole
<1>4. QED
  BY <1>1, <1>2, <1>3 DEF CoreNext

LEMMA ResetStarts ==
  ASSUME TypeOK, StartInv, ResetCore
  PROVE  /\ (mode' = "application" => op' = "idle") /\ StartsWhole'
         /\ flash'[1] = "old" => Untouched /\ op' = "idle" /\ up' = <<>> /\ UNCHANGED flash
         /\ skips' => flash'[1] \in {"old", "torn"}
<1>1. op' = "idle" /\ up' = <<>>
  BY DEF ResetCore
<1>2. ASSUME flash'[1] = "old"
      PROVE  Untouched /\ UNCHANGED flash
  <2>1. CASE op = "idle"
    BY <1>2, <2>1 DEF ResetCore, StartInv
  <2>2. CASE op # "idle" /\ Tear
    <3>1. flash[1] = "old"
      BY <1>2, <2>2, TornHeader
    <3>2. Untouched
      BY <3>1 DEF StartInv
    <3>3. cell = 1
      BY <2>2, <3>2 DEF Untouched, TypeOK
    <3>4. QED
      BY <1>2, <2>2, <3>2, <3>3, TornHeader
  <2>3. QED
    BY <2>1, <2>2 DEF ResetCore
<1>3. skips' => flash'[1] \in {"old", "torn"}
  BY TornHeader DEF ResetCore, StartInv
<1>4. StartsWhole'
  <2>1. mode' = "application" => Bootable(flash', skips')
    BY DEF ResetCore, CoreBoots
  <2>2. QED
    BY <1>2, <1>3, <2>1 DEF Bootable, StartsWhole, Untouched
<1>5. QED
  BY <1>1, <1>2, <1>3, <1>4

LEMMA FaultStarts ==
  ASSUME TypeOK, StartInv, FaultNext
  PROVE  StartInv'
<1>1. CASE TimeOutEarly
  <2>1. UNCHANGED <<mode, op, cell, flash, skips, down>> /\ ReturnError(up)
    BY <1>1 DEF TimeOutEarly, TimeOut, core
  <2>2. QED
    BY <2>1, CoreKept, ReturnErrorHarmless DEF StartInv, Untouched
<1>2. CASE LoseUp
  <2>1. UNCHANGED <<mode, op, cell, flash, skips, down, stage>> /\ up # <<>> /\ up' = Tail(up)
    BY <1>2 DEF LoseUp, core, display
  <2>2. QED
    BY <2>1, CoreKept, HeadTailProperties DEF StartInv, Untouched
<1>3. CASE LoseDown
  <2>1. UNCHANGED <<mode, op, cell, flash, skips, up, stage>> /\ down # <<>> /\ down' = Tail(down)
    BY <1>3 DEF LoseDown, core, display
  <2>2. QED
    BY <2>1, CoreKept, HeadTailProperties DEF StartInv, Untouched
<1>4. CASE FileError
  <2>1. UNCHANGED <<mode, op, cell, flash, skips, up, down>>
    BY <1>4 DEF FileError, core
  <2>2. stage' # "write"
    BY <1>4 DEF FileError, Fail, Parts
  <2>3. QED
    BY <2>1, <2>2, CoreKept DEF StartInv, Untouched
<1>5. CASE FlashError
  <2>1. /\ mode = "bootloader" /\ op # "idle" /\ op' = "idle"
        /\ Tear /\ Answer("code", 0) /\ UNCHANGED <<stage, up, mode>>
    BY <1>5 DEF FlashError, StartInv, TypeOK, display
  <2>2. ASSUME flash'[1] = "old"
        PROVE  Untouched'
    <3>1. Untouched
      BY <2>1, <2>2, TornHeader DEF StartInv
    <3>2. cell = 1
      BY <2>1, <3>1 DEF Untouched, TypeOK
    <3>3. UNCHANGED flash
      BY <2>1, <2>2, <3>2, TornHeader
    <3>4. down' \in Seq(NotDone)
      BY <2>1, <3>1, AnswerHarmless DEF Untouched
    <3>5. QED
      BY <2>1, <3>1, <3>3, <3>4 DEF Untouched
  <2>3. skips' => flash'[1] \in {"old", "torn"}
    BY <2>1, TornHeader
  <2>4. QED
    BY <2>1, <2>2, <2>3 DEF StartInv, StartsWhole
<1>6. CASE CoreReset
  <2>1. ASSUME flash'[1] = "old"
        PROVE  Untouched'
    <3>1. Untouched /\ op' = "idle" /\ up' = <<>> /\ UNCHANGED <<flash, stage>>
      BY <1>6, <2>1, ResetStarts DEF CoreReset, display
    <3>2. down' \in Seq(NotDone)
      BY <1>6, <3>1, FrontType DEF CoreReset, Untouched
    <3>3. QED
      BY <3>1, <3>2, EmptySeq DEF Untouched
  <2>2. QED
    BY <1>6, <2>1, ResetStarts DEF CoreReset, StartInv
<1>7. CASE DisplayReset
  <2>1. UNCHANGED <<mode, op, cell, flash, skips>>
    BY <1>7 DEF DisplayReset, core
  <2>2. stage' # "write" /\ down' \in Seq(NotDone)
    BY <1>7, EmptySeq DEF DisplayReset, ResetDisplay, DisplayBoots
  <2>3. up \in Seq(NoWrites) => up' \in Seq(NoWrites)
    BY <1>7, FrontType DEF DisplayReset
  <2>4. QED
    BY <2>1, <2>2, <2>3, CoreKept DEF StartInv, Untouched
<1>8. CASE PowerCycle
  <2>1. ASSUME flash'[1] = "old"
        PROVE  Untouched'
    <3>1. Untouched /\ op' = "idle" /\ up' = <<>> /\ UNCHANGED flash
      BY <1>8, <2>1, ResetStarts DEF PowerCycle
    <3>2. stage' # "write" /\ down' = <<>>
      BY <1>8 DEF PowerCycle, ResetDisplay, DisplayBoots
    <3>3. QED
      BY <3>1, <3>2, EmptySeq DEF Untouched
  <2>2. QED
    BY <1>8, <2>1, ResetStarts DEF PowerCycle, StartInv
<1>9. QED
  BY <1>1, <1>2, <1>3, <1>4, <1>5, <1>6, <1>7, <1>8 DEF FaultNext

LEMMA InitStarts == Init => StartInv
<1> SUFFICES ASSUME Init
             PROVE  StartInv
  OBVIOUS
<1>1. up \in Seq(NoWrites) /\ down \in Seq(NotDone)
  BY EmptySeq DEF Init
<1>2. flash[1] = "old" => \A c \in Cell : flash[c] = "old"
  BY FirstCell DEF Init
<1>3. StartsWhole
  BY FirstCell DEF Init, StartsWhole, Bootable
<1>4. QED
  BY <1>1, <1>2, <1>3 DEF Init, StartInv, Untouched

LEMMA NextStarts == TypeOK /\ StartInv /\ [Next]_vars => StartInv'
<1> SUFFICES ASSUME TypeOK, StartInv, [Next]_vars
             PROVE  StartInv'
  OBVIOUS
<1>1. CASE DisplayNext \/ UserButton
  BY <1>1, DisplayStarts
<1>2. CASE CoreNext
  BY <1>2, CoreStarts
<1>3. CASE FaultNext
  BY <1>3, FaultStarts
<1>4. CASE UNCHANGED vars
  BY <1>4 DEF StartInv, Untouched, StartsWhole, vars, display, core
<1>5. QED
  BY <1>1, <1>2, <1>3, <1>4 DEF Next

(* The core never runs a firmware that is only in part in its flash, with  *)
(* whatever commands, losses, failures and resets, but for one whose       *)
(* header is torn and still says that it need not be verified.             *)
THEOREM CoreStartsWhole == Spec => []StartsWhole
<1>1. StartInv => StartsWhole
  BY DEF StartInv
<1>2. QED
  BY <1>1, InitType, NextType, InitStarts, NextStarts, PTL DEF Spec

-----------------------------------------------------------------------------
(* What the display reports.  While the commands of an attempt are sent    *)
(* one at a time, the only one under way tells how far the flash is.       *)

\* the first p cells have been written and the others erased
Written(p) == \A c \in Cell : flash[c] = IF c <= p THEN "new" ELSE "erased"

Sent ==
  /\ up = <<Request(stage, pos)>> /\ down = <<>> /\ op = "idle"
  /\ stage = "write" => pos \in Cell /\ Written(pos - 1)

Executed ==
  /\ up = <<>> /\ down = <<>> /\ op = stage
  /\ stage = "erase" => pos = 0 /\ \A c \in 1 .. cell - 1 : flash[c] = "erased"
  /\ stage = "write" => cell = pos /\ Written(pos - 1)

Answered ==
  /\ up = <<>> /\ op = "idle"
  /\ \E f \in Answers : down = <<f>> /\ (f.kind = "empty" => Written(pos))

Gone == up = <<>> /\ down = <<>> /\ op = "idle"

CoreDone == Gone /\ \A c \in Cell : flash[c] = "new"

CompleteInv ==
  /\ clean /\ stage \in {"erase", "write"} => Sent \/ Executed \/ Answered \/ Gone
  /\ stage = "erase" => pos = 0
  /\ clean /\ ~only /\ stage \in Parts \cup {"complete"} => CoreDone
  /\ stage \in {"assets", "complete"} => local["internal"] = "new"
  /\ stage = "complete" => local["assets"] = "new"

LEMMA CompleteInvImplies == CompleteInv => CompleteProgrammed
  BY DEF CompleteInv, CompleteProgrammed, CoreDone

LEMMA OneFrame ==
  ASSUME NEW e
  PROVE  /\ Append(<<>>, e) = <<e>> /\ <<e>> # <<>> /\ Len(<<e>>) = 1
         /\ Head(<<e>>) = e /\ Tail(<<e>>) = <<>>
  OBVIOUS

\* an answer that came alone leaves nothing behind
LEMMA AloneTaken ==
  ASSUME TypeOK, Answered, down # <<>>, NEW n \in 1 .. Len(down)
  PROVE  /\ up \o SentBack(n) = <<>> /\ SubSeq(down, n + 1, Len(down)) = <<>>
         /\ Head(down).kind = "empty" => Written(pos)
<1>1. PICK f \in Answers : down = <<f>> /\ (f.kind = "empty" => Written(pos))
  BY DEF Answered
<1>2. Len(down) = 1 /\ n = 1 /\ Head(down) = f
  BY <1>1, OneFrame
<1>3. SubSeq(down, n + 1, Len(down)) = <<>>
  BY <1>2, SubSeqEmpty
<1>4. up = <<>> /\ SentBack(n) = <<>>
  BY <1>2, SentBackType DEF Answered, TypeOK
<1>5. up \o SentBack(n) = <<>>
  BY <1>4, EmptySeq, ConcatEmptySeq
<1>6. QED
  BY <1>1, <1>2, <1>3, <1>5

\* stages for which the invariant claims nothing
LEMMA Elsewhere ==
  ASSUME stage' \notin {"erase", "write", "complete"} \cup Parts
  PROVE  CompleteInv'
  BY DEF CompleteInv, Parts

LEMMA ReturnErrorLeaves ==
  ASSUME NEW line, ReturnError(line)
  PROVE  stage' \notin {"erase", "write", "complete"} \cup Parts
  BY DEF ReturnError, Fail, Parts

LEMMA DisplayCompletes ==
  ASSUME TypeOK, CompleteInv, DisplayNext \/ UserButton
  PROVE  CompleteInv'
<1>1. CASE Identify
  BY <1>1, Elsewhere DEF Identify, Call, Parts
<1>2. CASE EraseCore
  <2>1. stage' = "erase" /\ pos' = 0 /\ UNCHANGED <<down, op>>
        /\ up' = Append(up, Request("erase", 0))
        /\ (clean' => up = <<>> /\ down' = <<>> /\ op = "idle")
    BY <1>2 DEF EraseCore, Call, core
  <2>2. clean' => Sent'
    BY <2>1, OneFrame DEF Sent, Request, IdOf
  <2>3. QED
    BY <2>1, <2>2 DEF CompleteInv, Parts
<1>3. CASE AwaitResponse
  <2>1. PICK n \in 1 .. Len(down) :
          LET line == up \o SentBack(n)
              f == Head(down)
          IN /\ down' = SubSeq(down, n + 1, Len(down))
             /\ IF f.id # IdOf(stage)
                THEN up' = line /\ UNCHANGED <<stage, pos, try, only, clean>>
                ELSE IF Fits(stage, f.kind) THEN Return(f.kind, line)
                ELSE ReturnError(line)
    BY <1>3 DEF AwaitResponse
  <2> DEFINE line == up \o SentBack(n)
             f == Head(down)
  <2>2. stage \in Calls /\ down # <<>> /\ UNCHANGED <<local, op, flash>>
    BY <1>3 DEF AwaitResponse, core
  <2>3. ASSUME clean, stage \in {"erase", "write"}
        PROVE  /\ line = <<>> /\ down' = <<>> /\ op = "idle"
               /\ f.kind = "empty" => Written(pos)
    <3>1. Answered
      BY <2>2, <2>3 DEF CompleteInv, Sent, Executed, Gone
    <3>2. QED
      BY <2>1, <2>2, <3>1, AloneTaken DEF Answered
  <2> HIDE DEF line, f
  <2>4. CASE up' = line /\ UNCHANGED <<stage, pos, try, only, clean>>
    <3>1. clean' /\ stage' \in {"erase", "write"} => Gone'
      BY <2>2, <2>3, <2>4 DEF Gone
    <3>2. stage' \notin {"complete"} \cup Parts
      BY <2>2, <2>4 DEF Calls, Parts
    <3>3. QED
      BY <2>4, <3>1, <3>2 DEF CompleteInv, Parts
  <2>5. CASE Fits(stage, f.kind) /\ Return(f.kind, line)
    <3>1. CASE stage' \in {"third", "stopped", "button"}
      BY <3>1, Elsewhere DEF Parts
    <3>2. CASE /\ stage \in {"erase", "write"} /\ pos < Cells
               /\ Call(line, "write", pos + 1)
      <4>1. stage' = "write" /\ pos' = pos + 1 /\ up' = Append(line, Request("write", pos + 1))
            /\ (clean' => clean)
        BY <3>2 DEF Call
      <4>2. ASSUME clean'
            PROVE  Sent'
        <5>1. line = <<>> /\ down' = <<>> /\ op = "idle" /\ Written(pos)
          BY <2>3, <2>5, <3>2, <4>1, <4>2 DEF Fits
        <5>2. pos' - 1 = pos /\ pos' \in Cell
          BY <3>2, <4>1, UpdateAssumption DEF TypeOK, Cell
        <5>3. Written(pos - 1)'
          BY <2>2, <5>1, <5>2 DEF Written
        <5>4. up' = <<Request(stage, pos)>>'
          BY <4>1, <5>1, OneFrame DEF Request, IdOf
        <5>5. QED
          BY <2>2, <5>1, <5>2, <5>3, <5>4 DEF Sent
      <4>3. QED
        BY <4>1, <4>2 DEF CompleteInv, Parts
    <3>3. CASE /\ stage \in {"erase", "write"} /\ pos = Cells
               /\ stage' = "internal" /\ pos' = 0 /\ try' = 0 /\ up' = line
               /\ UNCHANGED <<only, clean>>
      <4>1. ASSUME clean
            PROVE  CoreDone'
        <5>1. line = <<>> /\ down' = <<>> /\ op = "idle" /\ Written(Cells)
          BY <2>3, <2>5, <3>3, <4>1 DEF Fits
        <5>2. \A c \in Cell : flash[c] = "new"
          BY <5>1, UpdateAssumption DEF Written, Cell
        <5>3. QED
          BY <2>2, <3>3, <5>1, <5>2 DEF CoreDone, Gone
      <4>2. QED
        BY <3>3, <4>1 DEF CompleteInv
    <3>4. QED
      BY <2>5, <3>1, <3>2, <3>3 DEF Return, Call
  <2>6. CASE ReturnError(line)
    BY <2>6, ReturnErrorLeaves, Elsewhere
  <2>7. QED
    BY <2>1, <2>4, <2>5, <2>6 DEF line, f
<1>4. CASE TimeOutAlone
  BY <1>4, ReturnErrorLeaves, Elsewhere DEF TimeOutAlone, TimeOut
<1>5. CASE EraseLocal \/ ProgramLocal
  <2>1. UNCHANGED <<only, clean, up, down, op, flash>> /\ stage \in Parts
        /\ stage' \in Parts \cup {"complete"}
    BY <1>5 DEF EraseLocal, ProgramLocal, core, Parts
  <2>2. clean' /\ ~only' => CoreDone'
    BY <2>1 DEF CompleteInv, CoreDone, Gone
  <2>3. (stage' \in {"assets", "complete"} => local'["internal"] = "new")
        /\ (stage' = "complete" => local'["assets"] = "new")
    BY <1>5, <2>1 DEF EraseLocal, ProgramLocal, CompleteInv, TypeOK, Parts
  <2>4. QED
    BY <2>1, <2>2, <2>3 DEF CompleteInv, Parts
<1>6. CASE UserButton
  BY <1>6 DEF UserButton, CompleteInv, Parts
<1>7. QED
  BY <1>1, <1>2, <1>3, <1>4, <1>5, <1>6 DEF DisplayNext

\* the core does something only while a command is under way
LEMMA CoreCompletes ==
  ASSUME TypeOK, CompleteInv, CoreNext
  PROVE  CompleteInv'
<1>1. UNCHANGED <<stage, pos, only, clean, local>>
  BY DEF CoreNext, CoreReceive, ErasePage, WriteCell, display
<1>2. up # <<>> \/ op # "idle"
  BY DEF CoreNext, CoreReceive, ErasePage, WriteCell
<1>3. ASSUME clean, stage \in {"erase", "write"}
      PROVE  (Executed \/ Answered)'
  <2>1. Sent \/ Executed
    BY <1>2, <1>3 DEF CompleteInv, Answered, Gone
  <2>2. CASE Sent
    <3>1. CoreReceive
      BY <2>2 DEF CoreNext, ErasePage, WriteCell, Sent
    <3>2. /\ Head(up) = Request(stage, pos) /\ up' = <<>> /\ UNCHANGED flash
          /\ Request(stage, pos).type = stage /\ Request(stage, pos).cell = pos
          /\ Request(stage, pos).id = 0
      BY <1>3, <2>2, <3>1, OneFrame DEF Sent, CoreReceive, Request, IdOf
    <3>3. CASE mode = "bootloader"
      <4>1. op' = stage /\ down' = down /\ cell' = IF stage = "erase" THEN 1 ELSE pos
        BY <1>3, <3>1, <3>2, <3>3 DEF CoreReceive
      <4>2. QED
        BY <1>1, <1>3, <2>2, <3>2, <4>1 DEF Sent, Executed, CompleteInv, Written
    <3>4. CASE mode # "bootloader"
      <4>1. op' = op /\ down' = Append(down, [kind |-> "code", id |-> 0])
        BY <1>3, <3>1, <3>2, <3>4 DEF CoreReceive, Answer
      <4>2. [kind |-> "code", id |-> 0] \in Answers
        BY DEF Answers
      <4>3. QED
        BY <2>2, <3>2, <4>1, <4>2, OneFrame DEF Sent, Answered
    <3>5. QED
      BY <3>3, <3>4
  <2>3. CASE Executed /\ stage = "erase"
    <3>1. ErasePage
      BY <1>3, <2>3 DEF CoreNext, CoreReceive, WriteCell, Executed
    <3>2. flash' = [flash EXCEPT ![cell] = "erased"] /\ up' = <<>> /\ pos' = 0
      BY <1>1, <2>3, <3>1 DEF ErasePage, Executed
    <3>3. \A c \in 1 .. cell : flash'[c] = "erased"
      BY <2>3, <3>2 DEF Executed, TypeOK, Cell
    <3>4. CASE cell < Cells
      <4>1. cell' = cell + 1 /\ op' = op /\ down' = <<>>
        BY <2>3, <3>1, <3>4 DEF ErasePage, Executed
      <4>2. QED
        BY <1>1, <2>3, <3>2, <3>3, <4>1 DEF Executed, TypeOK, Cell
    <3>5. CASE ~(cell < Cells)
      <4>1. op' = "idle" /\ down' = <<[kind |-> "empty", id |-> 0]>>
        BY <2>3, <3>1, <3>5, OneFrame DEF ErasePage, Executed, Answer
      <4>2. [kind |-> "empty", id |-> 0] \in Answers
        BY DEF Answers
      <4>3. \A c \in Cell : c \in 1 .. cell /\ ~(c <= pos')
        BY <3>2, <3>5, UpdateAssumption DEF TypeOK, Cell, UpdateAssumption
      <4>4. Written(pos)'
        BY <3>3, <4>3 DEF Written
      <4>5. QED
        BY <3>2, <4>1, <4>2, <4>4 DEF Answered
    <3>6. QED
      BY <3>4, <3>5
  <2>4. CASE Executed /\ stage = "write"
    <3>1. WriteCell
      BY <1>3, <2>4 DEF CoreNext, CoreReceive, ErasePage, Executed
    <3>2. up' = <<>> /\ op' = "idle" /\ down = <<>> /\ cell = pos /\ Written(pos - 1)
      BY <2>4, <3>1 DEF WriteCell, Executed
    <3>3. flash[cell] = "erased"
      BY <3>2 DEF Written, TypeOK, Cell
    <3>4. flash' = [flash EXCEPT ![cell] = "new"] /\ down' = <<[kind |-> "empty", id |-> 0]>>
      BY <3>1, <3>2, <3>3, OneFrame DEF WriteCell, Answer
    <3>5. [kind |-> "empty", id |-> 0] \in Answers
      BY DEF Answers
    <3>6. Written(pos)'
      BY <1>1, <3>2, <3>4 DEF Written, TypeOK, Cell
    <3>7. QED
      BY <3>2, <3>4, <3>5, <3>6 DEF Answered
  <2>5. QED
    BY <1>3, <2>1, <2>2, <2>3, <2>4
<1>4. ~(clean /\ ~only /\ stage \in Parts \cup {"complete"})
  BY <1>2 DEF CompleteInv, CoreDone, Gone
<1>5. QED
  BY <1>1, <1>3, <1>4 DEF CompleteInv

\* a reset of the core leaves a command that is under way without an answer
LEMMA ResetCompletes ==
  ASSUME TypeOK, CompleteInv, CoreReset
  PROVE  CompleteInv'
<1>1. UNCHANGED <<stage, pos, only, clean, local>> /\ op' = "idle" /\ up' = <<>>
  BY DEF CoreReset, ResetCore, display
<1>2. PICK n \in 0 .. Len(down) : down' = SubSeq(down, 1, n)
  BY DEF CoreReset
<1>3. down = <<>> => down' = <<>>
  BY <1>2, FrontType DEF TypeOK
<1>4. op = "idle" => UNCHANGED flash
  BY DEF CoreReset, ResetCore
<1>5. ASSUME Answered
      PROVE  (Answered \/ Gone)'
  <2>1. PICK f \in Answers : down = <<f>> /\ (f.kind = "empty" => Written(pos))
    BY <1>5 DEF Answered
  <2>2. n \in {0, 1}
    BY <2>1, OneFrame
  <2>3. CASE n = 0
    BY <1>1, <1>2, <2>3, SubSeqEmpty DEF Gone
  <2>4. CASE n = 1
    <3>1. down' = down
      BY <1>2, <2>1, <2>4, OneFrame, SubSeqFull DEF TypeOK
    <3>2. UNCHANGED flash
      BY <1>4, <1>5 DEF Answered
    <3>3. QED
      BY <1>1, <2>1, <3>1, <3>2 DEF Answered, Written
  <2>5. QED
    BY <2>2, <2>3, <2>4
<1>6. Sent \/ Executed \/ Gone => Gone'
  BY <1>1, <1>3 DEF Sent, Executed, Gone
<1>7. CoreDone => CoreDone'
  BY <1>1, <1>3, <1>4 DEF CoreDone, Gone
<1>8. QED
  BY <1>1, <1>5, <1>6, <1>7 DEF CompleteInv

LEMMA FaultCompletes ==
  ASSUME TypeOK, CompleteInv, FaultNext
  PROVE  CompleteInv'
<1>1. CASE TimeOutEarly
  BY <1>1, ReturnErrorLeaves, Elsewhere DEF TimeOutEarly, TimeOut
<1>2. CASE LoseUp
  <2>1. up # <<>> /\ up' = Tail(up) /\ UNCHANGED <<stage, pos, only, clean, local, down, op, flash>>
    BY <1>2 DEF LoseUp, core, display
  <2>2. Sent => Gone'
    BY <2>1, OneFrame DEF Sent, Gone
  <2>3. ~Executed /\ ~Answered /\ ~Gone /\ ~CoreDone
    BY <2>1 DEF Executed, Answered, Gone, CoreDone
  <2>4. QED
    BY <2>1, <2>2, <2>3 DEF CompleteInv
<1>3. CASE LoseDown
  <2>1. down # <<>> /\ down' = Tail(down) /\ UNCHANGED <<stage, pos, only, clean, local, up, op, flash>>
    BY <1>3 DEF LoseDown, core, display
  <2>2. Answered => Gone'
    BY <2>1, OneFrame DEF Answered, Gone
  <2>3. ~Sent /\ ~Executed /\ ~Gone /\ ~CoreDone
    BY <2>1 DEF Sent, Executed, Gone, CoreDone
  <2>4. QED
    BY <2>1, <2>2, <2>3 DEF CompleteInv
<1>4. CASE FileError
  <2>1. /\ UNCHANGED <<only, clean, up, down, op, flash>>
        /\ stage' \in {"check", "stopped"} \/ (stage \in Parts /\ stage' = stage)
    BY <1>4 DEF FileError, Fail, core, Parts
  <2>2. stage = "assets" => local'["internal"] = local["internal"]
    BY <1>4 DEF FileError, TypeOK, Parts
  <2>3. QED
    BY <2>1, <2>2 DEF CompleteInv, CoreDone, Gone, Parts
<1>5. CASE FlashError
  <2>1. UNCHANGED <<stage, pos, only, clean, local, up>> /\ op # "idle" /\ op' = "idle"
        /\ down' = Append(down, [kind |-> "code", id |-> 0])
    BY <1>5 DEF FlashError, display, Answer
  <2>2. [kind |-> "code", id |-> 0] \in Answers
    BY DEF Answers
  <2>3. Executed => Answered'
    BY <2>1, <2>2, OneFrame DEF Executed, Answered
  <2>4. ~Sent /\ ~Answered /\ ~Gone /\ ~CoreDone
    BY <2>1 DEF Sent, Answered, Gone, CoreDone
  <2>5. QED
    BY <2>1, <2>3, <2>4 DEF CompleteInv
<1>6. CASE CoreReset
  BY <1>6, ResetCompletes
<1>7. CASE DisplayReset \/ PowerCycle
  BY <1>7, Elsewhere DEF DisplayReset, PowerCycle, ResetDisplay, DisplayBoots, Parts
<1>8. QED
  BY <1>1, <1>2, <1>3, <1>4, <1>5, <1>6, <1>7 DEF FaultNext

LEMMA NextCompletes == TypeOK /\ CompleteInv /\ [Next]_vars => CompleteInv'
<1> SUFFICES ASSUME TypeOK, CompleteInv, [Next]_vars
             PROVE  CompleteInv'
  OBVIOUS
<1>1. CASE DisplayNext \/ UserButton
  BY <1>1, DisplayCompletes
<1>2. CASE CoreNext
  BY <1>2, CoreCompletes
<1>3. CASE FaultNext
  BY <1>3, FaultCompletes
<1>4. CASE UNCHANGED vars
  BY <1>4 DEF CompleteInv, Sent, Executed, Answered, Gone, CoreDone, Written, vars, display, core
<1>5. QED
  BY <1>1, <1>2, <1>3, <1>4 DEF Next

(* The display goes on to its own flash, and reports its completion, with  *)
(* everything programmed that it says is, unless commands have overlapped. *)
THEOREM ReportsProgrammed == Spec => []CompleteProgrammed
<1>1. Init => CompleteInv
  BY DEF Init, CompleteInv, Parts
<1>2. QED
  BY <1>1, InitType, NextType, NextCompletes, CompleteInvImplies, PTL DEF Spec
=============================================================================
