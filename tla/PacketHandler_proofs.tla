------------------------ MODULE PacketHandler_proofs ------------------------
(* What tlapm checks of PacketHandler: every variable keeps to its values,  *)
(* and commands are executed once and in order, for every list of polled    *)
(* properties, number of ids, bounds of the line, faults and commands.      *)
EXTENDS PacketHandler, SequenceTheorems, TLAPS

-----------------------------------------------------------------------------
(* The sequences of the line.                                              *)

\* what is appended to a line, if there is room
LEMMA Append1Type ==
  ASSUME NEW S, NEW line \in Seq(S), NEW f \in S, NEW max \in Nat, Len(line) <= max
  PROVE  Append1(line, f, max) \in Seq(S) /\ Len(Append1(line, f, max)) <= max
<1>1. Append(line, f) \in Seq(S) /\ Len(Append(line, f)) = Len(line) + 1 /\ Len(line) \in Nat
  BY AppendProperties, LenProperties
<1>2. QED
  BY <1>1 DEF Append1

\* what is behind the first frame of a line
LEMMA TailType ==
  ASSUME NEW S, NEW line \in Seq(S), line # <<>>
  PROVE  /\ Head(line) \in S /\ Head(line) = line[1]
         /\ Tail(line) \in Seq(S) /\ Len(Tail(line)) = Len(line) - 1
         /\ Len(line) \in Nat \ {0}
         /\ \A i \in 1 .. Len(line) - 1 : Tail(line)[i] = line[i + 1]
  BY HeadTailProperties, LenProperties, EmptySeq

\* what a restart leaves of a line
LEMMA FrontType ==
  ASSUME NEW S, NEW line \in Seq(S), NEW n \in 0 .. Len(line)
  PROVE  SubSeq(line, 1, n) \in Seq(S) /\ Len(SubSeq(line, 1, n)) <= Len(line)
<1>1. Len(line) \in Nat /\ \A i \in 1 .. n : line[i] \in S
  BY LenProperties, ElementOfSeq
<1>2. QED
  BY <1>1, SubSeqProperties

\* frames of earlier calls stay what they are
LEMMA OlderType ==
  ASSUME NEW line \in Seq(Frames)
  PROVE  /\ Older(line) \in Seq(Frames) /\ Len(Older(line)) = Len(line)
         /\ \A i \in 1 .. Len(line) : /\ Older(line)[i].type = line[i].type
                                      /\ Older(line)[i].num = line[i].num
<1>1. Len(line) \in Nat /\ \A i \in 1 .. Len(line) : line[i] \in Frames
  BY LenProperties, ElementOfSeq
<1>2. \A f \in Frames : [f EXCEPT !.own = FALSE] \in Frames
  BY DEF Frames
<1>3. Older(line) \in [1 .. Len(line) -> Frames]
  BY <1>1, <1>2 DEF Older
<1>4. Older(line) \in Seq(Frames)
  BY <1>1, <1>3, SeqDef
<1>5. Len(Older(line)) = Len(line)
  BY <1>1, <1>3, <1>4, LenProperties
<1>6. \A f \in Frames : [f EXCEPT !.own = FALSE].type = f.type
                        /\ [f EXCEPT !.own = FALSE].num = f.num
  BY DEF Frames
<1>7. QED
  BY <1>1, <1>4, <1>5, <1>6 DEF Older

LEMMA OneFrame ==
  ASSUME NEW S, NEW f \in S
  PROVE  <<f>> \in Seq(S) /\ Len(<<f>>) = 1 /\ <<f>>[1] = f /\ <<f>> # <<>>
  OBVIOUS

LEMMA NoFrame ==
  ASSUME NEW S
  PROVE  <<>> \in Seq(S) /\ Len(<<>>) = 0
  BY EmptySeq

-----------------------------------------------------------------------------
(* Frames and calls.                                                       *)

LEMMA FrameTypes ==
  /\ Log \in Frames
  /\ \A n \in 1 .. MaxCommands : Set(n) \in Frames
  /\ \A id \in Ids, p \in Polled : Get(id, p) \in Frames
  /\ \A f \in Frames : Answer(f) \in Frames /\ Returned(f) \in Frames
<1>1. 0 \in Ids /\ MaxCommands \in Nat
  BY PacketAssumption DEF Ids
<1>2. Log \in Frames
  BY <1>1 DEF Frames, Log
<1>3. \A n \in 1 .. MaxCommands : Set(n) \in Frames
  BY <1>1 DEF Frames, Set
<1>4. \A id \in Ids, p \in Polled : Get(id, p) \in Frames
  BY <1>1 DEF Frames, Get
<1>5. \A f \in Frames : Answer(f) \in Frames
  BY DEF Frames, Answer
<1>6. \A f \in Frames : Returned(f) \in Frames
  BY DEF Frames, Returned
<1>7. QED
  BY <1>2, <1>3, <1>4, <1>5, <1>6

LEMMA GroupLen ==
  /\ Len(Rounds) \in Nat \ {0}
  /\ \A g \in Groups : Len(Rounds[g]) \in Nat \ {0}
<1>1. Len(Rounds) \in Nat /\ Len(Rounds) # 0
  BY PacketAssumption, LenProperties, EmptySeq
<1>2. \A g \in Groups : Rounds[g] \in Seq(STRING) /\ Rounds[g] # <<>>
  BY <1>1, PacketAssumption, ElementOfSeq DEF Groups
<1>3. QED
  BY <1>1, <1>2, LenProperties, EmptySeq

LEMMA NextIdType ==
  ASSUME packet_counter \in Ids
  PROVE  NextPacketId \in Ids
  BY PacketAssumption DEF NextPacketId, Ids

LEMMA PropType ==
  ASSUME TypeOK
  PROVE  PropOf(call) \in Polled
  BY DEF TypeOK, PropOf, Polled

CallType == [stage : {"next", "wait"}, group : Groups, step : Nat, id : Ids,
             alone : BOOLEAN, reused : BOOLEAN]
ResultType == [group : Groups, step : Nat, id : Ids, alone : BOOLEAN,
               reused : BOOLEAN, value : {Nothing, "own", "old", "garbage"},
               part : BOOLEAN]
CommandType == [stage : {"none", "build"}, num : 0 .. MaxCommands, over : Seq(Frames)]

LEMMA FollowingType ==
  ASSUME TypeOK, NEW success \in BOOLEAN
  PROVE  /\ Following(success) \in CallType
         /\ Following(success).step \in Steps(Following(success).group)
<1>1. call \in CallType /\ call.step \in 1 .. Len(Rounds[call.group]) /\ call.group \in Groups
  BY DEF TypeOK, CallType, Steps
<1>2. Len(Rounds[call.group]) \in Nat
  BY <1>1, GroupLen
<1>3. CASE success /\ call.step < Len(Rounds[call.group])
  <2>1. Following(success) = [call EXCEPT !.stage = "next", !.step = @ + 1]
    BY <1>3 DEF Following
  <2>2. call.step + 1 \in Nat /\ call.step + 1 \in 1 .. Len(Rounds[call.group])
    BY <1>1, <1>2, <1>3
  <2>3. Following(success) = [call EXCEPT !.stage = "next", !.step = call.step + 1]
    BY <2>1
  <2>4. /\ Following(success) \in CallType
        /\ Following(success).step = call.step + 1
        /\ Following(success).group = call.group
    BY <1>1, <2>2, <2>3 DEF CallType
  <2>5. QED
    BY <2>2, <2>4 DEF Steps
<1>4. CASE ~(success /\ call.step < Len(Rounds[call.group]))
  <2>1. PICK g \in Groups : g = (call.group % Len(Rounds)) + 1
    BY <1>1, GroupLen DEF Groups
  <2>2. Following(success) = [call EXCEPT !.stage = "next", !.group = g, !.step = 1]
    BY <1>4, <2>1 DEF Following
  <2>3. /\ Following(success) \in CallType
        /\ Following(success).step = 1 /\ Following(success).group = g
    <3>1. Following(success) \in CallType
      <4>1. g \in Groups /\ call \in CallType
        BY <1>1, <2>1
      <4>2. [call EXCEPT !.stage = "next", !.group = g, !.step = 1] \in CallType
        BY <4>1 DEF CallType
      <4>3. QED
        BY <2>2, <4>2
    <3>2. Following(success).step = 1 /\ Following(success).group = g
      BY <1>1, <2>2 DEF CallType
    <3>3. QED
      BY <3>1, <3>2
  <2>4. 1 \in 1 .. Len(Rounds[g])
    BY GroupLen
  <2>5. QED
    BY <2>3, <2>4 DEF Steps
<1>5. QED
  BY <1>3, <1>4

LEMMA EndType ==
  ASSUME TypeOK, NEW value \in {Nothing, "own", "old", "garbage"}, NEW part \in BOOLEAN,
         End(value, part)
  PROVE  /\ call' \in CallType /\ call'.step \in Steps(call'.group)
         /\ result' \in ResultType
<1>1. call' = Following(value # Nothing) /\ (value # Nothing) \in BOOLEAN
  BY DEF End
<1>2. call \in CallType
  BY DEF TypeOK, CallType
<1>3. result' \in ResultType
  BY <1>2 DEF End, CallType, ResultType
<1>4. QED
  BY <1>1, <1>3, FollowingType

LEMMA OverwrittenType ==
  ASSUME TypeOK, NEW f \in Frames
  PROVE  Overwritten(f) \in CommandType /\ Len(Overwritten(f).over) <= 1
         /\ Overwritten(f).stage = command.stage /\ Overwritten(f).num = command.num
<1>1. command \in CommandType /\ Len(command.over) <= 1
  BY DEF TypeOK, CommandType
<1>2. CASE command.stage = "build"
  <2>1. Overwritten(f) = [command EXCEPT !.over = <<f>>]
    BY <1>2 DEF Overwritten
  <2>2. <<f>> \in Seq(Frames) /\ Len(<<f>>) = 1
    BY OneFrame
  <2>3. Overwritten(f) \in CommandType
    BY <1>1, <2>1, <2>2 DEF CommandType
  <2>4. Overwritten(f).over = <<f>>
    BY <1>1, <2>1 DEF CommandType
  <2>5. Overwritten(f).stage = command.stage /\ Overwritten(f).num = command.num
    BY <1>1, <2>1 DEF CommandType
  <2>6. QED
    BY <2>2, <2>3, <2>4, <2>5
<1>3. CASE command.stage # "build"
  BY <1>1, <1>3 DEF Overwritten
<1>4. QED
  BY <1>2, <1>3

-----------------------------------------------------------------------------
(* The type, call by call.                                                 *)

LEMMA InitType == Init => TypeOK
<1>1. SUFFICES ASSUME Init PROVE TypeOK
  OBVIOUS
<1>2. 0 \in Ids /\ 1 \in Groups /\ 1 \in Steps(1) /\ 0 \in 0 .. MaxCommands /\ 0 \in 0 .. MaxFaults
  BY GroupLen, PacketAssumption DEF Ids, Groups, Steps
<1>3. /\ <<>> \in Seq(Frames) /\ <<>> \in Seq(1 .. MaxCommands)
      /\ Len(<<>>) <= 1 /\ Len(<<>>) <= MaxUp /\ Len(<<>>) <= MaxDown
  BY PacketAssumption
<1>4. call \in CallType /\ call.step \in Steps(call.group)
  <2>1. call = [stage |-> "next", group |-> 1, step |-> 1, id |-> 0,
                alone |-> TRUE, reused |-> FALSE]
    BY <1>1 DEF Init
  <2>2. call \in CallType
    BY <1>2, <2>1 DEF CallType
  <2>3. call.step = 1 /\ call.group = 1
    BY <2>1
  <2>4. QED
    BY <1>2, <2>2, <2>3
<1>5. command \in CommandType /\ Len(command.over) <= 1
  <2>1. command = [stage |-> "none", num |-> 0, over |-> <<>>]
    BY <1>1 DEF Init
  <2>2. command \in CommandType
    BY <1>2, <1>3, <2>1 DEF CommandType
  <2>3. QED
    BY <1>3, <2>1, <2>2
<1>6. result \in ResultType
  <2>1. result = [group |-> 1, step |-> 1, id |-> 0, alone |-> TRUE, reused |-> FALSE,
                  value |-> Nothing, part |-> FALSE]
    BY <1>1 DEF Init
  <2>2. QED
    BY <1>2, <2>1 DEF ResultType
<1>7. /\ packet_counter = 0 /\ res = <<>> /\ whole = FALSE /\ up = <<>> /\ down = <<>>
      /\ core_kept = FALSE /\ executed = <<>> /\ faults = 0
  BY <1>1 DEF Init
<1>8. QED
  BY <1>2, <1>3, <1>4, <1>5, <1>6, <1>7 DEF TypeOK, CallType, CommandType, ResultType

\* what a request makes of the answers on their way, the id and the build buffer
LEMMA RequestType ==
  ASSUME TypeOK, Request
  PROVE  /\ packet_counter' \in Ids
         /\ down' \in Seq(Frames) /\ Len(down') <= MaxDown
         /\ command' \in CommandType /\ Len(command'.over) <= 1
         /\ Get(packet_counter', PropOf(call)) \in Frames
<1>1. packet_counter' \in Ids
  BY NextIdType DEF TypeOK, Request
<1>2. down' \in Seq(Frames) /\ Len(down') <= MaxDown
  BY OlderType DEF TypeOK, Request
<1>3. Get(packet_counter', PropOf(call)) \in Frames
  BY <1>1, PropType, FrameTypes
<1>4. command' \in CommandType /\ Len(command'.over) <= 1
  BY <1>3, OverwrittenType DEF Request
<1>5. QED
  BY <1>1, <1>2, <1>3, <1>4

LEMMA StartCallType ==
  ASSUME TypeOK, StartCall
  PROVE  TypeOK'
<1>1. Request
  BY DEF StartCall
<1>2. up' \in Seq(Frames) /\ Len(up') <= MaxUp
  <2>1. Older(up) \in Seq(Frames) /\ Len(Older(up)) = Len(up) /\ Len(up) \in Nat /\ Len(up) < MaxUp
    BY OlderType, LenProperties DEF TypeOK, StartCall
  <2>2. up' = Append(Older(up), Get(packet_counter', PropOf(call)))
    BY DEF StartCall
  <2>3. QED
    BY <1>1, <2>1, <2>2, RequestType, AppendProperties, PacketAssumption
<1>3. call' \in CallType /\ call'.step \in Steps(call'.group)
  <2>1. call \in CallType /\ call.step \in Steps(call.group) /\ packet_counter' \in Ids
    BY <1>1, RequestType DEF TypeOK, CallType
  <2>2. PICK b \in BOOLEAN, r \in BOOLEAN :
          call' = [call EXCEPT !.stage = "wait", !.id = packet_counter', !.alone = b, !.reused = r]
    BY DEF StartCall
  <2>3. call' \in CallType
    BY <2>1, <2>2 DEF CallType
  <2>4. call'.step = call.step /\ call'.group = call.group
    BY <2>1, <2>2 DEF CallType
  <2>5. QED
    BY <2>1, <2>3, <2>4 DEF Steps
<1>4. QED
  BY <1>1, <1>2, <1>3, RequestType
     DEF TypeOK, StartCall, Request, core, CallType, CommandType

LEMMA RequestRefusedType ==
  ASSUME TypeOK, RequestRefused
  PROVE  TypeOK'
<1>1. Request
  BY DEF RequestRefused
<1>2. up' \in Seq(Frames) /\ Len(up') <= MaxUp
  BY OlderType DEF TypeOK, RequestRefused
<1>3. call' \in CallType /\ call'.step \in Steps(call'.group)
  <2>1. /\ Following(FALSE) \in CallType
        /\ Following(FALSE).step \in Steps(Following(FALSE).group)
    BY FollowingType
  <2>2. call' = [Following(FALSE) EXCEPT !.id = packet_counter'] /\ packet_counter' \in Ids
    BY <1>1, RequestType DEF RequestRefused
  <2>3. call' \in CallType
    BY <2>1, <2>2 DEF CallType
  <2>4. call'.step = Following(FALSE).step /\ call'.group = Following(FALSE).group
    BY <2>1, <2>2 DEF CallType
  <2>5. QED
    BY <2>1, <2>3, <2>4 DEF Steps
<1>4. result' \in ResultType
  <2>1. result \in ResultType
    BY DEF TypeOK, ResultType
  <2>2. QED
    BY <2>1 DEF RequestRefused, ResultType
<1>5. faults' \in 0 .. MaxFaults
  BY SMTT(20), PacketAssumption DEF TypeOK, RequestRefused, Fault
<1>6. QED
  BY <1>1, <1>2, <1>3, <1>4, <1>5, RequestType
     DEF TypeOK, RequestRefused, Request, core, CallType, CommandType, ResultType

LEMMA ReceiveType ==
  ASSUME TypeOK, Receive
  PROVE  TypeOK'
<1>1. /\ Head(down) \in Frames
      /\ Tail(down) \in Seq(Frames) /\ Len(Tail(down)) <= MaxDown
  BY TailType, PacketAssumption DEF TypeOK, Receive
<1>2. Returned(Head(down)) \in Frames
  BY <1>1, FrameTypes
<1>3. up' \in Seq(Frames) /\ Len(up') <= MaxUp
  <2>1. MaxUp \in Nat /\ up \in Seq(Frames) /\ Len(up) <= MaxUp
    BY PacketAssumption DEF TypeOK
  <2>2. up' = up \/ up' = Append1(up, Returned(Head(down)), MaxUp)
    BY DEF Receive
  <2>3. QED
    BY <1>2, <2>1, <2>2, Append1Type
<1>4. command' \in CommandType /\ Len(command'.over) <= 1
  <2>1. command' = command \/ command' = Overwritten(Returned(Head(down)))
    BY DEF Receive
  <2>2. QED
    BY <1>2, <2>1, OverwrittenType DEF TypeOK, CommandType
<1>5. res' \in Seq(Frames) /\ Len(res') <= 1
  <2>1. res' \in {<<>>, <<Head(down)>>}
    BY DEF Receive
  <2>2. <<Head(down)>> \in Seq(Frames) /\ Len(<<Head(down)>>) <= 1
    BY <1>1, OneFrame
  <2>3. <<>> \in Seq(Frames) /\ Len(<<>>) <= 1
    BY NoFrame
  <2>4. QED
    BY <2>1, <2>2, <2>3, Zenon
<1>6. whole' \in BOOLEAN
  <2>1. whole \in BOOLEAN /\ Head(down).whole \in BOOLEAN
    BY <1>1 DEF TypeOK, Frames
  <2>2. whole' = whole \/ whole' = Head(down).whole
    BY DEF Receive
  <2>3. QED
    BY <2>1, <2>2, Zenon
<1>7. down' = Tail(down) /\ UNCHANGED <<packet_counter, call, result, core, faults>>
  BY DEF Receive
<1>8. QED
  BY <1>1, <1>3, <1>4, <1>5, <1>6, <1>7 DEF TypeOK, core, CommandType

LEMMA ViewsType ==
  ASSUME NEW v \in Views
  PROVE  v.worth \in {"own", "old", "garbage"} /\ v.part \in BOOLEAN
<1>1. \A f : Worth(f) \in {"own", "old", "garbage"}
  BY DEF Worth
<1>2. CASE v = [id |-> res[1].id, worth |-> Worth(res[1]), part |-> FALSE]
  BY <1>1, <1>2
<1>3. CASE \E w \in {Worth(res[1]), Worth(Head(down)), "garbage"} :
             v = [id |-> Head(down).id, worth |-> w, part |-> TRUE]
  BY <1>1, <1>3
<1>4. QED
  BY <1>2, <1>3 DEF Views

LEMMA TakeAnswerType ==
  ASSUME TypeOK, TakeAnswer
  PROVE  TypeOK'
<1>1. PICK v \in Views : IF v.id # call.id THEN UNCHANGED <<call, result>> ELSE Return(v)
  BY DEF TakeAnswer
<1>2. /\ call' \in CallType /\ call'.step \in Steps(call'.group)
      /\ result' \in ResultType
  <2>1. CASE v.id # call.id
    BY <1>1, <2>1 DEF TypeOK, CallType, ResultType, Steps
  <2>2. CASE v.id = call.id
    <3>1. PICK value \in {Nothing, "own", "old", "garbage"} : End(value, v.part)
      BY <1>1, <2>2, ViewsType DEF Return
    <3>2. QED
      BY <1>1, <3>1, ViewsType, EndType
  <2>3. QED
    BY <2>1, <2>2
<1>3. res' = <<>> /\ UNCHANGED <<packet_counter, whole, core, up, down, command, faults>>
  BY DEF TakeAnswer
<1>4. QED
  BY <1>2, <1>3, NoFrame DEF TypeOK, core, CallType, ResultType

LEMMA TimeOutType ==
  ASSUME TypeOK, TimeOut, faults' \in 0 .. MaxFaults
  PROVE  TypeOK'
<1>1. /\ call' \in CallType /\ call'.step \in Steps(call'.group)
      /\ result' \in ResultType
  BY EndType DEF TimeOut
<1>2. QED
  BY <1>1 DEF TypeOK, TimeOut, core, CallType, ResultType

LEMMA EncodeType ==
  ASSUME TypeOK, Encode
  PROVE  TypeOK'
<1>1. command \in CommandType /\ command.num + 1 \in 0 .. MaxCommands
  BY SMTT(20), PacketAssumption DEF TypeOK, CommandType, Encode
<1>2. command' \in CommandType /\ Len(command'.over) <= 1
  <2>1. command' = [stage |-> "build", num |-> command.num + 1, over |-> <<>>]
    BY DEF Encode
  <2>2. command' \in CommandType
    BY <1>1, <2>1, NoFrame DEF CommandType
  <2>3. QED
    BY <2>1, <2>2, NoFrame
<1>3. UNCHANGED <<display, core, up, down, faults>>
  BY DEF Encode
<1>4. QED
  BY <1>2, <1>3 DEF TypeOK, display, core, CommandType

LEMMA AppendCommandType ==
  ASSUME TypeOK, AppendCommand, command.num # 0
  PROVE  TypeOK'
<1>1. command \in CommandType /\ Len(command.over) <= 1
  BY DEF TypeOK, CommandType
<1>2. command' \in CommandType /\ Len(command'.over) <= 1
  <2>1. command' = [command EXCEPT !.stage = "none", !.over = <<>>]
    BY DEF AppendCommand
  <2>2. command' \in CommandType
    BY <1>1, <2>1, NoFrame DEF CommandType
  <2>3. command'.over = <<>>
    BY <1>1, <2>1 DEF CommandType
  <2>4. QED
    BY <2>2, <2>3, NoFrame
<1>3. up' \in Seq(Frames) /\ Len(up') <= MaxUp
  <2>1. MaxUp \in Nat /\ up \in Seq(Frames) /\ Len(up) <= MaxUp
    BY PacketAssumption DEF TypeOK
  <2>2. Set(command.num) \in Frames
    BY <1>1, FrameTypes, PacketAssumption DEF CommandType
  <2>3. command.over # <<>> => command.over[1] \in Frames
    BY <1>1, TailType DEF CommandType
  <2>4. \/ up' = up \/ up' = Append1(up, Set(command.num), MaxUp)
        \/ command.over # <<>> /\ up' = Append1(up, command.over[1], MaxUp)
    BY DEF AppendCommand
  <2>5. QED
    BY <2>1, <2>2, <2>3, <2>4, Append1Type
<1>4. call' \in CallType /\ call'.step \in Steps(call'.group)
  <2>1. call \in CallType /\ call.step \in Steps(call.group)
    BY DEF TypeOK, CallType
  <2>2. call' = call \/ call' = [call EXCEPT !.alone = FALSE]
    BY DEF AppendCommand
  <2>3. [call EXCEPT !.alone = FALSE] \in CallType
    BY <2>1 DEF CallType
  <2>4. call'.step = call.step /\ call'.group = call.group
    BY <2>1, <2>2 DEF CallType
  <2>5. QED
    BY <2>1, <2>2, <2>3, <2>4 DEF Steps
<1>5. UNCHANGED <<packet_counter, res, whole, result, core, down, faults>>
  BY DEF AppendCommand
<1>6. QED
  BY <1>2, <1>3, <1>4, <1>5 DEF TypeOK, core, CallType, CommandType

\* sets: the frames that are commands have numbers the user interface has begun
LEMMA CoreReceiveType ==
  ASSUME TypeOK, CoreReceive, Head(up).type = "set" => Head(up).num # 0
  PROVE  TypeOK'
<1>1. /\ Head(up) \in Frames
      /\ up' \in Seq(Frames) /\ Len(up') <= MaxUp
  BY TailType, PacketAssumption DEF TypeOK, CoreReceive
<1>2. Answer(Head(up)) \in Frames /\ Returned(Head(up)) \in Frames
  BY <1>1, FrameTypes
<1>3. down' \in Seq(Frames) /\ Len(down') <= MaxDown
  <2>1. MaxDown \in Nat /\ down \in Seq(Frames) /\ Len(down) <= MaxDown
    BY PacketAssumption DEF TypeOK
  <2>2. \/ down' = down \/ down' = Append1(down, Answer(Head(up)), MaxDown)
        \/ down' = Append1(down, Returned(Head(up)), MaxDown)
    BY DEF CoreReceive
  <2>3. QED
    BY <1>2, <2>1, <2>2, Append1Type
<1>4. executed' \in Seq(1 .. MaxCommands)
  <2>1. CASE UNCHANGED executed
    BY <2>1 DEF TypeOK
  <2>2. CASE Head(up).type = "set" /\ executed' = Append(executed, Head(up).num)
    <3>1. Head(up).num \in 1 .. MaxCommands
      BY <1>1, <2>2, PacketAssumption DEF Frames
    <3>2. QED
      BY <2>2, <3>1, AppendProperties DEF TypeOK
  <2>3. QED
    BY <2>1, <2>2 DEF CoreReceive, core
<1>5. core_kept' \in BOOLEAN
  <2>1. core_kept \in BOOLEAN
    BY DEF TypeOK
  <2>2. core_kept' = core_kept \/ core_kept' = TRUE
    BY DEF CoreReceive, core
  <2>3. QED
    BY <2>1, <2>2, Zenon
<1>6. UNCHANGED <<display, command, faults>>
  BY DEF CoreReceive
<1>7. QED
  BY <1>1, <1>3, <1>4, <1>5, <1>6 DEF TypeOK, display

LEMMA LineFaultType ==
  ASSUME TypeOK, LoseUp \/ LoseDown \/ CoreLogs \/ CoreRestarts
  PROVE  TypeOK'
<1>1. faults' \in 0 .. MaxFaults
  BY SMTT(20), PacketAssumption DEF TypeOK, LoseUp, LoseDown, CoreLogs, CoreRestarts, Fault
<1>2. up \in Seq(Frames) /\ Len(up) <= MaxUp /\ down \in Seq(Frames) /\ Len(down) <= MaxDown
  BY DEF TypeOK
<1>3. up' \in Seq(Frames) /\ Len(up') <= MaxUp
  <2>1. up # <<>> => Tail(up) \in Seq(Frames) /\ Len(Tail(up)) <= MaxUp
    BY <1>2, TailType, PacketAssumption
  <2>2. <<>> \in Seq(Frames) /\ Len(<<>>) <= MaxUp
    BY NoFrame, PacketAssumption
  <2>3. up' = up \/ (up # <<>> /\ up' = Tail(up)) \/ up' = <<>>
    BY DEF LoseUp, LoseDown, CoreLogs, CoreRestarts
  <2>4. QED
    BY <1>2, <2>1, <2>2, <2>3, Zenon
<1>4. down' \in Seq(Frames) /\ Len(down') <= MaxDown
  <2>1. down # <<>> => Tail(down) \in Seq(Frames) /\ Len(Tail(down)) <= MaxDown
    BY <1>2, TailType, PacketAssumption
  <2>2. Append1(down, Log, MaxDown) \in Seq(Frames) /\ Len(Append1(down, Log, MaxDown)) <= MaxDown
    BY <1>2, Append1Type, FrameTypes, PacketAssumption
  <2>3. \A n \in 0 .. Len(down) : SubSeq(down, 1, n) \in Seq(Frames)
                                  /\ Len(SubSeq(down, 1, n)) <= MaxDown
    <3>1. TAKE n \in 0 .. Len(down)
    <3>2. SubSeq(down, 1, n) \in Seq(Frames) /\ Len(SubSeq(down, 1, n)) <= Len(down)
      BY <1>2, FrontType
    <3>3. QED
      BY <1>2, <3>2, LenProperties, PacketAssumption
  <2>4. \/ down' = down \/ (down # <<>> /\ down' = Tail(down))
        \/ down' = Append1(down, Log, MaxDown)
        \/ \E n \in 0 .. Len(down) : down' = SubSeq(down, 1, n)
    BY DEF LoseUp, LoseDown, CoreLogs, CoreRestarts
  <2>5. QED
    BY <1>2, <2>1, <2>2, <2>3, <2>4, Zenon
<1>5. core_kept' \in BOOLEAN
  <2>1. core_kept' = core_kept \/ core_kept' = FALSE
    BY DEF LoseUp, LoseDown, CoreLogs, CoreRestarts, core
  <2>2. core_kept \in BOOLEAN
    BY DEF TypeOK
  <2>3. QED
    BY <2>1, <2>2, Zenon
<1>6. UNCHANGED <<display, executed, command>>
  BY DEF LoseUp, LoseDown, CoreLogs, CoreRestarts, core
<1>7. QED
  BY <1>1, <1>3, <1>4, <1>5, <1>6 DEF TypeOK, display

-----------------------------------------------------------------------------
(* The order of the commands.  Those on their way are numbered upwards,    *)
(* come after all that are executed, and are not beyond the last one the   *)
(* user interface has appended; and what overwrites a command in the build *)
(* buffer is none.                                                         *)

Begun == IF command.stage = "build" THEN command.num - 1 ELSE command.num

Ahead(line, done, top) ==
  \A j \in 1 .. Len(line) : line[j].type = "set" =>
    /\ line[j].num \in 1 .. top
    /\ \A i \in 1 .. Len(done) : done[i] < line[j].num
    /\ \A i \in 1 .. j - 1 : line[i].type = "set" => line[i].num < line[j].num

OrderInv ==
  /\ command.stage = "build" => command.num # 0
  /\ \A i \in 1 .. Len(command.over) : command.over[i].type # "set"
  /\ Ahead(up, executed, Begun)
  /\ \A i \in 1 .. Len(executed) : executed[i] <= Begun
  /\ CommandsInOrder

\* frames that are no commands do not matter
LEMMA AheadAppend ==
  ASSUME NEW line \in Seq(Frames), NEW done \in Seq(Nat), NEW top \in Nat,
         Ahead(line, done, top), NEW f \in Frames, f.type # "set", NEW max
  PROVE  Ahead(Append(line, f), done, top) /\ Ahead(Append1(line, f, max), done, top)
<1>1. /\ Len(line) \in Nat /\ Len(Append(line, f)) = Len(line) + 1
      /\ Append(line, f)[Len(line) + 1] = f
      /\ \A i \in 1 .. Len(line) : Append(line, f)[i] = line[i]
  BY AppendProperties, LenProperties
<1>2. Ahead(Append(line, f), done, top)
  BY <1>1 DEF Ahead
<1>3. QED
  BY <1>2 DEF Append1

LEMMA AheadOlder ==
  ASSUME NEW line \in Seq(Frames), NEW done \in Seq(Nat), NEW top \in Nat,
         Ahead(line, done, top)
  PROVE  Ahead(Older(line), done, top)
<1> DEFINE older == Older(line)
<1>1. Len(line) \in Nat /\ Len(older) = Len(line)
  BY LenProperties, OlderType
<1>2. \A i \in 1 .. Len(line) : older[i].type = line[i].type /\ older[i].num = line[i].num
  BY OlderType
<1> HIDE DEF older
<1>3. ASSUME NEW j \in 1 .. Len(line), line[j].type = "set"
      PROVE  /\ line[j].num \in 1 .. top
             /\ \A i \in 1 .. Len(done) : done[i] < line[j].num
             /\ \A i \in 1 .. j - 1 : line[i].type = "set" => line[i].num < line[j].num
  BY <1>3 DEF Ahead
<1>4. \A j \in 1 .. Len(line) : \A i \in 1 .. j - 1 : i \in 1 .. Len(line)
  BY <1>1
<1>5. Ahead(older, done, top)
  BY <1>1, <1>2, <1>3, <1>4 DEF Ahead
<1>6. QED
  BY <1>5 DEF older

LEMMA AheadTail ==
  ASSUME NEW line \in Seq(Frames), line # <<>>, NEW done \in Seq(Nat), NEW top \in Nat,
         Ahead(line, done, top)
  PROVE  Ahead(Tail(line), done, top)
  BY TailType DEF Ahead

\* the next command
LEMMA AheadNext ==
  ASSUME NEW line \in Seq(Frames), NEW done \in Seq(Nat), NEW top \in Nat,
         Ahead(line, done, top), \A i \in 1 .. Len(done) : done[i] <= top, NEW max,
         top + 1 <= MaxCommands
  PROVE  /\ Ahead(Append1(line, Set(top + 1), max), done, top + 1)
         /\ Ahead(line, done, top + 1)
<1>1. Set(top + 1).type = "set" /\ Set(top + 1).num = top + 1
  BY DEF Set
<1>2. Set(top + 1) \in Frames
  BY FrameTypes, PacketAssumption
<1>3. /\ Len(line) \in Nat /\ Len(Append(line, Set(top + 1))) = Len(line) + 1
      /\ Append(line, Set(top + 1))[Len(line) + 1] = Set(top + 1)
      /\ \A i \in 1 .. Len(line) : Append(line, Set(top + 1))[i] = line[i]
  BY <1>2, AppendProperties, LenProperties
<1>4. \A i \in 1 .. Len(done) : done[i] \in Nat /\ done[i] < top + 1
  BY ElementOfSeq
<1>5. \A j \in 1 .. Len(line) : line[j].type = "set" => line[j].num < top + 1
  BY DEF Ahead
<1>6. Ahead(line, done, top + 1)
  BY DEF Ahead
<1>7. Ahead(Append(line, Set(top + 1)), done, top + 1)
  <2>1. SUFFICES ASSUME NEW j \in 1 .. Len(line) + 1,
                        Append(line, Set(top + 1))[j].type = "set"
                 PROVE  LET g == Append(line, Set(top + 1))
                        IN /\ g[j].num \in 1 .. top + 1
                           /\ \A i \in 1 .. Len(done) : done[i] < g[j].num
                           /\ \A i \in 1 .. j - 1 : g[i].type = "set" => g[i].num < g[j].num
    BY <1>3 DEF Ahead
  <2>2. CASE j \in 1 .. Len(line)
    BY <1>3, <1>6, <2>1, <2>2 DEF Ahead
  <2>3. CASE j = Len(line) + 1
    BY <1>1, <1>3, <1>4, <1>5, <2>3
  <2>4. QED
    BY <1>3, <2>2, <2>3
<1>8. QED
  BY <1>6, <1>7 DEF Append1

\* what an action does that neither begins nor executes a command
LEMMA SameOrder ==
  ASSUME TypeOK, OrderInv, UNCHANGED executed,
         command'.stage = command.stage, command'.num = command.num,
         \A i \in 1 .. Len(command'.over) : command'.over[i].type # "set",
         Ahead(up', executed, Begun)
  PROVE  OrderInv'
<1>1. Begun' = Begun
  BY DEF Begun
<1>2. QED
  BY <1>1 DEF OrderInv, CommandsInOrder

LEMMA OrderTypes ==
  ASSUME TypeOK, OrderInv
  PROVE  /\ up \in Seq(Frames) /\ executed \in Seq(Nat) /\ Begun \in Nat
         /\ Ahead(up, executed, Begun)
<1>1. \A n \in 1 .. MaxCommands : n \in Nat
  BY PacketAssumption
<1>2. executed \in Seq(Nat)
  BY <1>1, SeqMonotonic DEF TypeOK
<1>3. command.num \in Nat
  BY PacketAssumption DEF TypeOK
<1>4. Begun \in Nat
  BY <1>3 DEF OrderInv, Begun
<1>5. QED
  BY <1>2, <1>4 DEF TypeOK, OrderInv

\* no command takes the place of another in the build buffer
LEMMA OverwrittenOrder ==
  ASSUME TypeOK, OrderInv, NEW f \in Frames, f.type # "set", command' = Overwritten(f)
  PROVE  /\ command'.stage = command.stage /\ command'.num = command.num
         /\ \A i \in 1 .. Len(command'.over) : command'.over[i].type # "set"
<1>1. command \in CommandType
  BY DEF TypeOK, CommandType
<1>2. CASE command.stage = "build"
  <2>1. command'.over = <<f>>
    BY <1>1, <1>2 DEF Overwritten, CommandType
  <2>2. QED
    BY <2>1, OneFrame, OverwrittenType
<1>3. CASE command.stage # "build"
  BY <1>3 DEF Overwritten, OrderInv
<1>4. QED
  BY <1>2, <1>3

-----------------------------------------------------------------------------
(* Each call keeps the order.                                              *)

LEMMA NotSets ==
  /\ \A id \in Ids, p \in Polled : Get(id, p).type # "set"
  /\ \A f \in Frames : f.type = "response" => Returned(f).type # "set"
  BY DEF Get, Returned, Frames

LEMMA StartCallOrder ==
  ASSUME TypeOK, OrderInv, StartCall
  PROVE  OrderInv'
<1>1. Request /\ UNCHANGED core
  BY DEF StartCall, Request
<1>2. Get(packet_counter', PropOf(call)) \in Frames /\ Get(packet_counter', PropOf(call)).type # "set"
  BY <1>1, RequestType, PropType, NotSets
<1>3. Ahead(Older(up), executed, Begun) /\ Older(up) \in Seq(Frames)
  BY OrderTypes, AheadOlder, OlderType
<1>4. up' = Append(Older(up), Get(packet_counter', PropOf(call)))
  BY DEF StartCall
<1>5. Ahead(up', executed, Begun)
  BY <1>2, <1>3, <1>4, OrderTypes, AheadAppend
<1>6. command' = Overwritten(Get(packet_counter', PropOf(call)))
  BY <1>1 DEF Request
<1>7. QED
  BY <1>1, <1>2, <1>5, <1>6, OverwrittenOrder, SameOrder DEF core

LEMMA RequestRefusedOrder ==
  ASSUME TypeOK, OrderInv, RequestRefused
  PROVE  OrderInv'
<1>1. Request /\ UNCHANGED core
  BY DEF RequestRefused, Request
<1>2. Get(packet_counter', PropOf(call)) \in Frames /\ Get(packet_counter', PropOf(call)).type # "set"
  BY <1>1, RequestType, PropType, NotSets
<1>3. Ahead(up', executed, Begun)
  BY OrderTypes, AheadOlder DEF RequestRefused
<1>4. command' = Overwritten(Get(packet_counter', PropOf(call)))
  BY <1>1 DEF Request
<1>5. QED
  BY <1>1, <1>2, <1>3, <1>4, OverwrittenOrder, SameOrder DEF core

LEMMA ReceiveOrder ==
  ASSUME TypeOK, OrderInv, Receive
  PROVE  OrderInv'
<1>1. UNCHANGED core
  BY DEF Receive
<1>2. CASE UNCHANGED <<up, command>>
  BY <1>1, <1>2, OrderTypes, SameOrder DEF core, OrderInv
<1>3. CASE /\ Head(down).type = "response"
           /\ up' = Append1(up, Returned(Head(down)), MaxUp)
           /\ command' = Overwritten(Returned(Head(down)))
  <2>1. Head(down) \in Frames
    BY TailType DEF TypeOK, Receive
  <2>2. Returned(Head(down)) \in Frames /\ Returned(Head(down)).type # "set"
    BY <1>3, <2>1, FrameTypes, NotSets
  <2>3. Ahead(up', executed, Begun)
    BY <1>3, <2>2, OrderTypes, AheadAppend
  <2>4. QED
    BY <1>1, <1>3, <2>2, <2>3, OverwrittenOrder, SameOrder DEF core
<1>4. QED
  BY <1>2, <1>3 DEF Receive

LEMMA EncodeOrder ==
  ASSUME TypeOK, OrderInv, Encode
  PROVE  OrderInv'
<1>1. command.num \in Nat
  BY PacketAssumption DEF TypeOK
<1>2. command'.stage = "build" /\ command'.num = command.num + 1 /\ command'.over = <<>>
  BY DEF Encode
<1>3. Begun' = Begun
  BY <1>1, <1>2 DEF Encode, Begun
<1>4. UNCHANGED <<up, executed>>
  BY DEF Encode, core
<1>5. QED
  BY <1>1, <1>2, <1>3, <1>4, NoFrame DEF OrderInv, CommandsInOrder

LEMMA AppendCommandOrder ==
  ASSUME TypeOK, OrderInv, AppendCommand
  PROVE  OrderInv'
<1>1. command.num \in 1 .. MaxCommands /\ Begun = command.num - 1 /\ Begun \in Nat
  <2>1. command.num \in 0 .. MaxCommands /\ MaxCommands \in Nat
    BY PacketAssumption DEF TypeOK
  <2>2. command.stage = "build" /\ command.num # 0
    BY DEF OrderInv, AppendCommand
  <2>3. QED
    BY <2>1, <2>2 DEF Begun
<1>2. command'.stage = "none" /\ command'.num = command.num /\ command'.over = <<>>
  BY DEF TypeOK, AppendCommand
<1>3. Begun' = Begun + 1 /\ Begun + 1 = command.num /\ Begun + 1 <= MaxCommands
  BY <1>1, <1>2, PacketAssumption DEF Begun
<1>4. UNCHANGED executed
  BY DEF AppendCommand, core
<1>5. /\ Ahead(up, executed, Begun + 1)
      /\ Ahead(Append1(up, Set(Begun + 1), MaxUp), executed, Begun + 1)
  BY <1>3, OrderTypes, AheadNext DEF OrderInv
<1>6. Ahead(up', executed, Begun + 1)
  <2>1. CASE up' = up
    BY <1>5, <2>1
  <2>2. CASE up' = Append1(up, Set(command.num), MaxUp)
    BY <1>3, <1>5, <2>2
  <2>3. CASE command.over # <<>> /\ up' = Append1(up, command.over[1], MaxUp)
    <3>1. command.over[1] \in Frames /\ 1 \in 1 .. Len(command.over)
      BY <2>3, TailType DEF TypeOK
    <3>2. command.over[1].type # "set"
      BY <3>1 DEF OrderInv
    <3>3. Begun + 1 \in Nat
      BY <1>1
    <3>4. QED
      BY <1>5, <2>3, <3>1, <3>2, <3>3, OrderTypes, AheadAppend
  <2>4. QED
    BY <2>1, <2>2, <2>3 DEF AppendCommand
<1>7. \A i \in 1 .. Len(executed) : executed[i] <= Begun + 1
  BY <1>1, OrderTypes, ElementOfSeq DEF OrderInv
<1>8. QED
  BY <1>2, <1>3, <1>4, <1>6, <1>7, NoFrame DEF OrderInv, CommandsInOrder

LEMMA CoreReceiveOrder ==
  ASSUME TypeOK, OrderInv, CoreReceive
  PROVE  OrderInv' /\ (Head(up).type = "set" => Head(up).num # 0)
<1>1. /\ up # <<>> /\ up' = Tail(up) /\ UNCHANGED command
      /\ Head(up) = up[1] /\ Tail(up) \in Seq(Frames) /\ Len(up) \in Nat \ {0}
      /\ Len(Tail(up)) = Len(up) - 1
      /\ \A i \in 1 .. Len(up) - 1 : Tail(up)[i] = up[i + 1]
  BY TailType, OrderTypes DEF CoreReceive
<1>2. Ahead(Tail(up), executed, Begun)
  BY <1>1, OrderTypes, AheadTail
<1>3. Head(up).type = "set" => Head(up).num # 0
  BY <1>1, OrderTypes DEF Ahead
<1>4. CASE UNCHANGED executed
  <2>1. /\ command'.stage = command.stage /\ command'.num = command.num
        /\ \A i \in 1 .. Len(command'.over) : command'.over[i].type # "set"
    BY <1>1 DEF OrderInv
  <2>2. Ahead(up', executed, Begun)
    BY <1>1, <1>2
  <2>3. QED
    BY <1>3, <1>4, <2>1, <2>2, SameOrder
<1>5. CASE Head(up).type = "set" /\ executed' = Append(executed, Head(up).num)
  <2>1. /\ up[1].num \in 1 .. Begun
        /\ \A i \in 1 .. Len(executed) : executed[i] < up[1].num
        /\ \A j \in 2 .. Len(up) : up[j].type = "set" => up[1].num < up[j].num
    BY <1>1, <1>5, OrderTypes DEF Ahead
  <2>2. /\ Len(executed) \in Nat /\ Len(executed') = Len(executed) + 1
        /\ executed'[Len(executed) + 1] = up[1].num
        /\ \A i \in 1 .. Len(executed) : executed'[i] = executed[i]
    BY <1>1, <1>5, <2>1, OrderTypes, AppendProperties, LenProperties
  <2>3. Ahead(up', executed', Begun)
    <3>1. SUFFICES ASSUME NEW j \in 1 .. Len(Tail(up)), Tail(up)[j].type = "set"
                   PROVE  \A i \in 1 .. Len(executed') : executed'[i] < Tail(up)[j].num
      BY <1>1, <1>2 DEF Ahead
    <3>2. j + 1 \in 2 .. Len(up) /\ Tail(up)[j] = up[j + 1]
      BY <1>1
    <3>3. up[1].num < Tail(up)[j].num
      BY <2>1, <3>1, <3>2
    <3>4. \A i \in 1 .. Len(executed) : executed[i] < Tail(up)[j].num
      BY <1>2, <3>1 DEF Ahead
    <3>5. QED
      BY <2>2, <3>3, <3>4
  <2>4. \A i \in 1 .. Len(executed') : executed'[i] <= Begun
    BY SMTT(20), <2>1, <2>2, OrderTypes DEF OrderInv
  <2>5. CommandsInOrder'
    BY <2>1, <2>2 DEF OrderInv, CommandsInOrder
  <2>6. Begun' = Begun
    BY <1>1 DEF Begun
  <2>7. QED
    <3>1. command' = command
      BY <1>1
    <3>2. /\ command'.stage = "build" => command'.num # 0
          /\ \A i \in 1 .. Len(command'.over) : command'.over[i].type # "set"
      BY <3>1 DEF OrderInv
    <3>3. Ahead(up', executed', Begun') /\ \A i \in 1 .. Len(executed') : executed'[i] <= Begun'
      BY <2>3, <2>4, <2>6
    <3>4. QED
      BY <1>3, <2>5, <3>2, <3>3 DEF OrderInv
<1>6. QED
  BY <1>4, <1>5 DEF CoreReceive, core

LEMMA LineFaultOrder ==
  ASSUME TypeOK, OrderInv, LoseUp \/ LoseDown \/ CoreLogs \/ CoreRestarts
  PROVE  OrderInv'
<1>1. UNCHANGED <<executed, command>>
  BY DEF LoseUp, LoseDown, CoreLogs, CoreRestarts, core
<1>2. up' = up \/ (up # <<>> /\ up' = Tail(up)) \/ up' = <<>>
  BY DEF LoseUp, LoseDown, CoreLogs, CoreRestarts
<1>3. Ahead(<<>>, executed, Begun)
  BY NoFrame DEF Ahead
<1>4. Ahead(up', executed, Begun)
  BY <1>2, <1>3, OrderTypes, AheadTail
<1>5. QED
  BY <1>1, <1>4, SameOrder DEF OrderInv

-----------------------------------------------------------------------------
(* Whose answer a call takes.  Of the frames with a number, requests and   *)
(* answers, those that carry the id of the call that waits are its own,    *)
(* unless the id was still on its way (AllMine); and a call that began     *)
(* with nothing on its way has one frame in all, or what waits behind the  *)
(* answer in the decode buffer could be another one (Alone).               *)

IsNumbered(f) == f.type \in {"get", "response"}

Quiet(line) == \A i \in 1 .. Len(line) : ~IsNumbered(line[i])

Single(line) ==
  \A i \in 1 .. Len(line), j \in 1 .. Len(line) :
    IsNumbered(line[i]) /\ IsNumbered(line[j]) => i = j

Mine(f, id, prop) ==
  IsNumbered(f) /\ f.id = id => f.own /\ f.prop = prop

AllMine(line, id, prop) == \A i \in 1 .. Len(line) : Mine(line[i], id, prop)

FromCore(f) == f.type = "response" \/ (f.type = "log" /\ f.id = 0)

AllFromCore(line) == \A i \in 1 .. Len(line) : FromCore(line[i])

MineInv ==
  call.stage = "wait" /\ call.id # 0 /\ ~call.reused =>
    \A line \in {up, down, res, command.over} : AllMine(line, call.id, PropOf(call))

Alone ==
  /\ Single(up) /\ Single(down)
  /\ Quiet(up) \/ Quiet(down)
  /\ res # <<>> => Quiet(up) /\ Quiet(down)

AnswerInv ==
  /\ call.stage = "next" => res = <<>>
  /\ command.stage = "none" => command.over = <<>>
  /\ AllFromCore(down) /\ AllFromCore(res)
  /\ MineInv
  /\ call.stage = "wait" /\ call.alone => Alone
  /\ AnswerOwn

-----------------------------------------------------------------------------
(* What the lines keep of that.                                            *)

LEMMA EmptyKeeps ==
  /\ Quiet(<<>>) /\ Single(<<>>) /\ AllFromCore(<<>>)
  /\ \A id, prop : AllMine(<<>>, id, prop)
  BY NoFrame DEF Quiet, Single, AllFromCore, AllMine

LEMMA QuietSingle ==
  ASSUME NEW line, Quiet(line)
  PROVE  Single(line)
  BY DEF Quiet, Single

LEMMA OneKeeps ==
  ASSUME NEW f \in Frames
  PROVE  /\ FromCore(f) => AllFromCore(<<f>>)
         /\ \A id, prop : Mine(f, id, prop) => AllMine(<<f>>, id, prop)
<1>1. Len(<<f>>) = 1 /\ <<f>>[1] = f
  OBVIOUS
<1>2. QED
  BY <1>1 DEF AllFromCore, AllMine

LEMMA AppendKeeps ==
  ASSUME NEW line \in Seq(Frames), NEW f \in Frames, NEW max
  PROVE  LET long == Append(line, f)
             long1 == Append1(line, f, max)
         IN /\ Quiet(line) /\ ~IsNumbered(f) => Quiet(long) /\ Quiet(long1)
            /\ Single(line) /\ ~IsNumbered(f) => Single(long) /\ Single(long1)
            /\ Quiet(line) => Single(long) /\ Single(long1)
            /\ AllFromCore(line) /\ FromCore(f) => AllFromCore(long) /\ AllFromCore(long1)
            /\ \A id, prop : AllMine(line, id, prop) /\ Mine(f, id, prop) =>
                  AllMine(long, id, prop) /\ AllMine(long1, id, prop)
<1>1. /\ Len(line) \in Nat /\ Len(Append(line, f)) = Len(line) + 1
      /\ Append(line, f)[Len(line) + 1] = f
      /\ \A i \in 1 .. Len(line) : Append(line, f)[i] = line[i]
  BY AppendProperties, LenProperties
<1>2. \A i \in 1 .. Len(line) + 1 : i \in 1 .. Len(line) \/ i = Len(line) + 1
  BY <1>1
<1>3. Append1(line, f, max) \in {line, Append(line, f)}
  BY DEF Append1
<1>4. Quiet(line) /\ ~IsNumbered(f) => Quiet(Append(line, f))
  BY <1>1, <1>2 DEF Quiet
<1>5. Single(line) /\ ~IsNumbered(f) => Single(Append(line, f))
  BY <1>1, <1>2 DEF Single
<1>6. Quiet(line) => Single(Append(line, f))
  BY <1>1, <1>2 DEF Quiet, Single
<1>7. AllFromCore(line) /\ FromCore(f) => AllFromCore(Append(line, f))
  BY <1>1, <1>2 DEF AllFromCore
<1>8. \A id, prop : AllMine(line, id, prop) /\ Mine(f, id, prop) =>
        AllMine(Append(line, f), id, prop)
  BY <1>1, <1>2 DEF AllMine
<1>9. QED
  BY <1>3, <1>4, <1>5, <1>6, <1>7, <1>8, QuietSingle

LEMMA TailKeeps ==
  ASSUME NEW line \in Seq(Frames), line # <<>>
  PROVE  /\ Quiet(line) => Quiet(Tail(line)) /\ ~IsNumbered(Head(line))
         /\ Single(line) => Single(Tail(line))
         /\ Single(line) /\ IsNumbered(Head(line)) => Quiet(Tail(line))
         /\ AllFromCore(line) => AllFromCore(Tail(line)) /\ FromCore(Head(line))
         /\ \A id, prop : AllMine(line, id, prop) =>
               AllMine(Tail(line), id, prop) /\ Mine(Head(line), id, prop)
<1>1. /\ Head(line) = line[1] /\ Len(Tail(line)) = Len(line) - 1 /\ Len(line) \in Nat \ {0}
      /\ \A i \in 1 .. Len(line) - 1 : Tail(line)[i] = line[i + 1]
  BY TailType
<1>2. \A i \in 1 .. Len(Tail(line)) : i + 1 \in 1 .. Len(line) /\ Tail(line)[i] = line[i + 1]
                                     /\ i \in Nat /\ i + 1 # 1
  BY <1>1
<1>3. Quiet(line) => Quiet(Tail(line)) /\ ~IsNumbered(Head(line))
  BY <1>1, <1>2 DEF Quiet
<1>4. Single(line) => Single(Tail(line))
  BY <1>1, <1>2 DEF Single
<1>5. Single(line) /\ IsNumbered(Head(line)) => Quiet(Tail(line))
  BY <1>1, <1>2 DEF Quiet, Single
<1>6. AllFromCore(line) => AllFromCore(Tail(line)) /\ FromCore(Head(line))
  BY <1>1, <1>2 DEF AllFromCore
<1>7. \A id, prop : AllMine(line, id, prop) =>
        AllMine(Tail(line), id, prop) /\ Mine(Head(line), id, prop)
  BY <1>1, <1>2 DEF AllMine
<1>8. QED
  BY <1>3, <1>4, <1>5, <1>6, <1>7

LEMMA FrontKeeps ==
  ASSUME NEW line \in Seq(Frames), NEW n \in 0 .. Len(line)
  PROVE  LET front == SubSeq(line, 1, n)
         IN /\ Quiet(line) => Quiet(front)
            /\ Single(line) => Single(front)
            /\ AllFromCore(line) => AllFromCore(front)
            /\ \A id, prop : AllMine(line, id, prop) => AllMine(front, id, prop)
<1>1. Len(line) \in Nat /\ \A i \in 1 .. n : line[i] \in Frames
  BY LenProperties, ElementOfSeq
<1>2. /\ Len(SubSeq(line, 1, n)) = n
      /\ \A i \in 1 .. n : SubSeq(line, 1, n)[i] = line[i] /\ i \in 1 .. Len(line)
  BY <1>1, SubSeqProperties
<1>3. QED
  BY <1>2 DEF Quiet, Single, AllFromCore, AllMine

\* the request of a call is sent when the frames on their way are no longer its own
LEMMA OlderKeeps ==
  ASSUME NEW line \in Seq(Frames)
  PROVE  /\ Numbered(line) = {} => Quiet(Older(line))
         /\ AllFromCore(line) => AllFromCore(Older(line))
         /\ \A id, prop : (\A f \in Numbered(line) : f.id # id) => AllMine(Older(line), id, prop)
<1>1. Len(line) \in Nat /\ Len(Older(line)) = Len(line)
  BY LenProperties, OlderType
<1>2. \A i \in 1 .. Len(line) : /\ Older(line)[i].type = line[i].type
                                /\ Older(line)[i].id = line[i].id
  <2>1. \A i \in 1 .. Len(line) : line[i] \in Frames
    BY <1>1, ElementOfSeq
  <2>2. \A f \in Frames : [f EXCEPT !.own = FALSE].type = f.type
                          /\ [f EXCEPT !.own = FALSE].id = f.id
    BY DEF Frames
  <2>3. QED
    BY <2>1, <2>2 DEF Older
<1>3. \A i \in 1 .. Len(line) : IsNumbered(line[i]) => line[i] \in Numbered(line)
  BY DEF IsNumbered, Numbered
<1>4. Numbered(line) = {} => Quiet(Older(line))
  BY <1>1, <1>2, <1>3 DEF Quiet, IsNumbered
<1>5. AllFromCore(line) => AllFromCore(Older(line))
  BY <1>1, <1>2 DEF AllFromCore, FromCore
<1>6. \A id, prop : (\A f \in Numbered(line) : f.id # id) => AllMine(Older(line), id, prop)
  BY <1>1, <1>2, <1>3 DEF AllMine, Mine, IsNumbered
<1>7. QED
  BY <1>4, <1>5, <1>6

\* frames on their way back
LEMMA AnswerKeeps ==
  ASSUME NEW f \in Frames
  PROVE  /\ FromCore(Answer(f))
         /\ f.type = "response" => FromCore(Returned(f))
         /\ \A id, prop : Mine(f, id, prop) /\ f.type = "get" => Mine(Answer(f), id, prop)
         /\ \A id, prop : Mine(f, id, prop) => Mine(Returned(f), id, prop)
<1>1. /\ Answer(f).type = "response" /\ Answer(f).id = f.id /\ Answer(f).own = f.own
      /\ Answer(f).prop = f.prop
  BY DEF Answer, Frames
<1>2. /\ Returned(f).type = f.type /\ Returned(f).id = f.id /\ Returned(f).own = f.own
      /\ Returned(f).prop = f.prop
  BY DEF Returned, Frames
<1>3. QED
  BY <1>1, <1>2 DEF FromCore, Mine, IsNumbered

-----------------------------------------------------------------------------
(* Each call keeps whose answers they are.                                 *)

\* while a call waits, or none does
LEMMA SameCall ==
  ASSUME TypeOK, AnswerInv, UNCHANGED result,
         call' = call \/ call' = [call EXCEPT !.alone = FALSE],
         call.stage = "next" => res' = <<>>,
         command'.stage = "none" => command'.over = <<>>,
         AllFromCore(down'), AllFromCore(res'),
         \A id, prop :
           (\A line \in {up, down, res, command.over} : AllMine(line, id, prop)) =>
             (\A line \in {up', down', res', command'.over} : AllMine(line, id, prop)),
         call'.alone /\ Alone => Alone'
  PROVE  AnswerInv'
<1>1. /\ call'.stage = call.stage /\ call'.id = call.id /\ call'.group = call.group
      /\ call'.step = call.step /\ call'.reused = call.reused /\ (call'.alone => call.alone)
  <2>1. call \in CallType
    BY DEF TypeOK, CallType
  <2>2. CASE call' = call
    BY <2>2
  <2>3. CASE call' = [call EXCEPT !.alone = FALSE]
    BY <2>1, <2>3 DEF CallType
  <2>4. QED
    BY <2>2, <2>3
<1>2. PropOf(call)' = PropOf(call)
  BY <1>1 DEF PropOf
<1>3. MineInv'
  BY <1>1, <1>2 DEF AnswerInv, MineInv
<1>4. AnswerOwn'
  BY DEF AnswerInv, AnswerOwn
<1>5. (call.stage = "wait" /\ call.alone => Alone)'
  BY <1>1 DEF AnswerInv
<1>6. QED
  BY <1>1, <1>3, <1>4, <1>5 DEF AnswerInv

\* where a call ends
LEMMA CallEnds ==
  ASSUME call'.stage = "next", res' = <<>>, command'.stage = "none" => command'.over = <<>>,
         AllFromCore(down'), AnswerOwn'
  PROVE  AnswerInv'
  BY EmptyKeeps DEF AnswerInv, MineInv

LEMMA FollowingNext == \A b \in BOOLEAN : TypeOK => Following(b).stage = "next"
<1>1. SUFFICES ASSUME NEW b \in BOOLEAN, TypeOK PROVE Following(b).stage = "next"
  OBVIOUS
<1>2. call \in CallType
  BY <1>1 DEF TypeOK, CallType
<1>3. QED
  BY <1>2 DEF Following, CallType

\* what a request leaves in the build buffer
LEMMA OverwrittenAnswer ==
  ASSUME TypeOK, AnswerInv, NEW f \in Frames
  PROVE  /\ Overwritten(f).over \in {<<>>, <<f>>}
         /\ Overwritten(f).stage = "none" => Overwritten(f).over = <<>>
<1>1. command \in CommandType
  BY DEF TypeOK, CommandType
<1>2. CASE command.stage = "build"
  <2>1. Overwritten(f).over = <<f>> /\ Overwritten(f).stage = "build"
    BY <1>1, <1>2 DEF Overwritten, CommandType
  <2>2. QED
    BY <2>1
<1>3. CASE command.stage # "build"
  <2>1. command.stage = "none"
    BY <1>1, <1>3 DEF CommandType
  <2>2. QED
    BY <1>3, <2>1 DEF Overwritten, AnswerInv
<1>4. QED
  BY <1>2, <1>3

LEMMA LineTypes ==
  ASSUME TypeOK
  PROVE  /\ up \in Seq(Frames) /\ down \in Seq(Frames) /\ res \in Seq(Frames)
         /\ command \in CommandType /\ call \in CallType
  BY DEF TypeOK, CallType, CommandType

LEMMA StartCallAnswer ==
  ASSUME TypeOK, AnswerInv, StartCall
  PROVE  AnswerInv'
<1> DEFINE f == Get(packet_counter', PropOf(call))
<1>1. Request /\ call.stage = "next" /\ UNCHANGED <<res, result>> /\ res = <<>>
  BY DEF StartCall, Request, AnswerInv
<1>2. f \in Frames /\ IsNumbered(f)
  BY <1>1, RequestType DEF Get, IsNumbered
<1>3. /\ call'.stage = "wait" /\ call'.id = packet_counter' /\ PropOf(call') = PropOf(call)
      /\ call'.alone = (InFlight = {})
      /\ call'.reused = (\E g \in InFlight : g.id = packet_counter')
  <2>1. call' = [call EXCEPT !.stage = "wait", !.id = packet_counter', !.alone = InFlight = {},
                             !.reused = \E g \in InFlight : g.id = packet_counter']
    BY DEF StartCall
  <2>2. QED
    BY <2>1, LineTypes DEF CallType, PropOf
<1>4. up' = Append(Older(up), f) /\ down' = Older(down)
  BY <1>1 DEF StartCall, Request
<1>5. command'.over \in {<<>>, <<f>>} /\ (command'.stage = "none" => command'.over = <<>>)
  BY <1>1, <1>2, OverwrittenAnswer DEF Request
<1>6. AllFromCore(down') /\ AllFromCore(res')
  BY <1>1, <1>4, LineTypes, OlderKeeps, EmptyKeeps DEF AnswerInv
<1>7. ASSUME ~call'.reused
      PROVE  \A line \in {up', down', res', command'.over} :
               AllMine(line, packet_counter', PropOf(call))
  <2>1. Mine(f, packet_counter', PropOf(call))
    BY DEF Mine, Get
  <2>2. \A g \in Numbered(up) \cup Numbered(down) : g.id # packet_counter'
    BY <1>3, <1>7 DEF InFlight
  <2>3. /\ AllMine(Older(up), packet_counter', PropOf(call))
        /\ AllMine(Older(down), packet_counter', PropOf(call))
    BY <2>2, LineTypes, OlderKeeps
  <2>4. AllMine(up', packet_counter', PropOf(call))
    BY <1>2, <1>4, <2>1, <2>3, LineTypes, OlderType, AppendKeeps
  <2>5. AllMine(command'.over, packet_counter', PropOf(call))
    BY <1>2, <1>5, <2>1, OneKeeps, EmptyKeeps
  <2>6. QED
    BY <1>1, <1>4, <2>3, <2>4, <2>5, EmptyKeeps
<1>8. ASSUME call'.alone
      PROVE  Alone'
  <2>1. Numbered(up) = {} /\ Numbered(down) = {}
    BY <1>3, <1>8 DEF InFlight
  <2>2. Quiet(Older(up)) /\ Quiet(Older(down))
    BY <2>1, LineTypes, OlderKeeps
  <2>3. Single(up') /\ Quiet(down') /\ Single(down')
    BY <1>2, <1>4, <2>2, LineTypes, OlderType, AppendKeeps, QuietSingle
  <2>4. QED
    BY <1>1, <2>3 DEF Alone
<1>9. MineInv'
  BY <1>3, <1>7 DEF MineInv
<1>10. AnswerOwn'
  BY <1>1 DEF AnswerInv, AnswerOwn
<1>11. QED
  BY <1>3, <1>5, <1>6, <1>8, <1>9, <1>10 DEF AnswerInv

LEMMA RequestRefusedAnswer ==
  ASSUME TypeOK, AnswerInv, RequestRefused
  PROVE  AnswerInv'
<1>1. Request /\ UNCHANGED res /\ res = <<>>
  BY DEF RequestRefused, Request, AnswerInv
<1>2. Get(packet_counter', PropOf(call)) \in Frames
  BY <1>1, RequestType
<1>3. command'.stage = "none" => command'.over = <<>>
  BY <1>1, <1>2, OverwrittenAnswer DEF Request
<1>4. AllFromCore(down')
  BY <1>1, LineTypes, OlderKeeps DEF Request, AnswerInv
<1>5. call'.stage = "next"
  <2>1. Following(FALSE) \in CallType /\ Following(FALSE).stage = "next"
    BY FollowingType, FollowingNext
  <2>2. QED
    BY <2>1 DEF RequestRefused, CallType
<1>6. AnswerOwn'
  <2>1. result' = [result EXCEPT !.value = Nothing] /\ result \in ResultType
    BY DEF RequestRefused, TypeOK, ResultType
  <2>2. result'.value = Nothing
    BY <2>1 DEF ResultType
  <2>3. QED
    BY <2>2 DEF AnswerOwn
<1>7. QED
  BY <1>1, <1>3, <1>4, <1>5, <1>6, CallEnds

LEMMA ReceiveAnswer ==
  ASSUME TypeOK, AnswerInv, Receive
  PROVE  AnswerInv'
<1> DEFINE f == Head(down)
<1>1. down # <<>> /\ down' = Tail(down) /\ call.stage = "wait" /\ UNCHANGED <<call, result>>
  BY DEF Receive
<1>2. f \in Frames /\ FromCore(f) /\ AllFromCore(Tail(down))
  BY <1>1, LineTypes, TailType, TailKeeps DEF AnswerInv
<1>3. Returned(f) \in Frames
  BY <1>2, FrameTypes
<1>4. \/ /\ f.type = "response" /\ res # <<>>
         /\ up' = Append1(up, Returned(f), MaxUp)
         /\ command' = Overwritten(Returned(f)) /\ res' = <<f>>
      \/ /\ ~(f.type = "response" /\ res # <<>>)
         /\ UNCHANGED <<up, command>>
         /\ res' = IF f.type = "response" \/ res # <<>> THEN <<f>> ELSE <<>>
  BY DEF Receive
<1>5. AllFromCore(res')
  BY <1>2, <1>4, OneKeeps, EmptyKeeps
<1>6. command'.stage = "none" => command'.over = <<>>
  BY <1>3, <1>4, OverwrittenAnswer DEF AnswerInv
<1>7. ASSUME NEW id, NEW prop,
             \A line \in {up, down, res, command.over} : AllMine(line, id, prop)
      PROVE  \A line \in {up', down', res', command'.over} : AllMine(line, id, prop)
  <2>1. Mine(f, id, prop) /\ AllMine(down', id, prop)
    BY <1>1, <1>7, LineTypes, TailKeeps
  <2>2. Mine(Returned(f), id, prop)
    BY <1>2, <2>1, AnswerKeeps
  <2>3. AllMine(res', id, prop)
    BY <1>2, <1>4, <2>1, OneKeeps, EmptyKeeps
  <2>4. AllMine(up', id, prop)
    BY <1>3, <1>4, <1>7, <2>2, LineTypes, AppendKeeps
  <2>5. AllMine(command'.over, id, prop)
    BY <1>3, <1>4, <1>7, <2>2, OverwrittenAnswer, OneKeeps, EmptyKeeps
  <2>6. QED
    BY <2>1, <2>3, <2>4, <2>5
<1>8. ASSUME Alone
      PROVE  Alone'
  <2>1. CASE f.type = "response"
    <3>1. IsNumbered(f)
      BY <2>1 DEF IsNumbered
    <3>2. ~Quiet(down) /\ Quiet(Tail(down))
      BY <1>1, <1>8, <3>1, LineTypes, TailKeeps DEF Alone
    <3>3. res = <<>> /\ Quiet(up)
      BY <1>8, <3>2 DEF Alone
    <3>4. up' = up
      BY <1>4, <3>3
    <3>5. QED
      BY <1>1, <3>2, <3>3, <3>4, QuietSingle DEF Alone
  <2>2. CASE f.type # "response"
    <3>1. up' = up /\ (res' # <<>> => res # <<>>)
      BY <1>4, <2>2
    <3>2. /\ Single(down) => Single(Tail(down))
          /\ Quiet(down) => Quiet(Tail(down))
      BY <1>1, LineTypes, TailKeeps
    <3>3. QED
      BY <1>1, <1>8, <3>1, <3>2 DEF Alone
  <2>3. QED
    BY <2>1, <2>2
<1>9. QED
  BY <1>1, <1>2, <1>5, <1>6, <1>7, <1>8, SameCall

\* what the call that waits takes is its own answer
LEMMA OwnTaken ==
  ASSUME TypeOK, AnswerInv, res # <<>>, call.stage = "wait", NEW v \in Views,
         v.id = call.id, call.id # 0, ~call.reused, call.alone \/ ~v.part
  PROVE  v.worth = "own"
<1> DEFINE f == res[1]
<1>1. f \in Frames /\ FromCore(f) /\ AllMine(res, call.id, PropOf(call)) /\ 1 \in 1 .. Len(res)
  BY LineTypes, TailType DEF AnswerInv, MineInv, AllFromCore
<1>2. CASE v = [id |-> f.id, worth |-> Worth(f), part |-> FALSE]
  <2>1. f.type = "response" /\ IsNumbered(f)
    BY <1>1, <1>2 DEF FromCore, IsNumbered
  <2>2. f.own /\ f.prop = PropOf(call)
    BY <1>1, <1>2, <2>1 DEF AllMine, Mine
  <2>3. QED
    BY <1>2, <2>1, <2>2 DEF Worth
<1>3. CASE /\ down # <<>>
           /\ \E w \in {Worth(f), Worth(Head(down)), "garbage"} :
                v = [id |-> Head(down).id, worth |-> w, part |-> TRUE]
  <2>1. v.part /\ v.id = Head(down).id
    BY <1>3
  <2>2. Alone
    BY <2>1 DEF AnswerInv
  <2>3. ~IsNumbered(Head(down)) /\ FromCore(Head(down))
    BY <1>3, <2>2, LineTypes, TailKeeps DEF Alone, AnswerInv
  <2>4. Head(down).id = 0
    BY <2>3 DEF IsNumbered, FromCore
  <2>5. QED
    BY <2>1, <2>4
<1>4. QED
  BY <1>2, <1>3 DEF Views

LEMMA TakeAnswerAnswer ==
  ASSUME TypeOK, AnswerInv, TakeAnswer
  PROVE  AnswerInv'
<1>1. /\ call.stage = "wait" /\ res # <<>> /\ res' = <<>>
      /\ UNCHANGED <<up, down, command>>
  BY DEF TakeAnswer
<1>2. PICK v \in Views : IF v.id # call.id THEN UNCHANGED <<call, result>> ELSE Return(v)
  BY DEF TakeAnswer
<1>3. AllFromCore(down') /\ (command'.stage = "none" => command'.over = <<>>)
  BY <1>1 DEF AnswerInv
<1>4. CASE v.id # call.id
  <2>1. \A id, prop : AllMine(res', id, prop)
    BY <1>1, EmptyKeeps
  <2>2. Alone => Alone'
    BY <1>1 DEF Alone
  <2>3. AllFromCore(res')
    BY <1>1, EmptyKeeps
  <2>4. UNCHANGED <<call, result>>
    BY <1>2, <1>4
  <2>5. QED
    BY <1>1, <1>3, <2>1, <2>2, <2>3, <2>4, SameCall
<1>5. CASE v.id = call.id
  <2>1. End(IF whole THEN v.worth ELSE Nothing, v.part)
    BY <1>2, <1>5 DEF Return
  <2>2. call'.stage = "next"
    BY <2>1, FollowingNext DEF End
  <2>3. /\ result'.id = call.id /\ result'.reused = call.reused /\ result'.alone = call.alone
        /\ result'.part = v.part /\ result'.value \in {v.worth, Nothing}
    BY <2>1 DEF End
  <2>4. AnswerOwn'
    BY <1>1, <1>5, <2>3, OwnTaken DEF AnswerOwn
  <2>5. QED
    BY <1>1, <1>3, <2>2, <2>4, CallEnds
<1>6. QED
  BY <1>4, <1>5

LEMMA TimeOutAnswer ==
  ASSUME TypeOK, AnswerInv, TimeOut
  PROVE  AnswerInv'
<1>1. call'.stage = "next"
  BY FollowingNext DEF TimeOut, End
<1>2. result'.value = Nothing
  BY DEF TimeOut, End
<1>3. res' = <<>> /\ UNCHANGED <<down, command>>
  BY DEF TimeOut
<1>4. QED
  BY <1>1, <1>2, <1>3, CallEnds DEF AnswerOwn, AnswerInv

LEMMA EncodeAnswer ==
  ASSUME TypeOK, AnswerInv, Encode
  PROVE  AnswerInv'
<1>1. UNCHANGED <<call, result, res, up, down>> /\ command'.over = <<>>
  BY DEF Encode, display
<1>2. \A id, prop : AllMine(command'.over, id, prop)
  BY <1>1, EmptyKeeps
<1>3. Alone => Alone'
  BY <1>1 DEF Alone
<1>4. QED
  BY <1>1, <1>2, <1>3, SameCall DEF AnswerInv

LEMMA AppendCommandAnswer ==
  ASSUME TypeOK, AnswerInv, AppendCommand, command.num # 0
  PROVE  AnswerInv'
<1>1. UNCHANGED <<result, res, down>> /\ command'.over = <<>>
  BY LineTypes DEF AppendCommand, CommandType
<1>2. Set(command.num) \in Frames /\ ~IsNumbered(Set(command.num))
  BY LineTypes, FrameTypes, PacketAssumption DEF CommandType, Set, IsNumbered
<1>3. command.over # <<>> =>
        /\ command.over[1] \in Frames /\ command.over[1] = Head(command.over)
        /\ command.over \in Seq(Frames)
  BY LineTypes, TailType DEF CommandType
<1>4. \/ call' = call /\ (up' = up \/ up' = Append1(up, Set(command.num), MaxUp))
      \/ /\ command.over # <<>> /\ up' = Append1(up, command.over[1], MaxUp)
         /\ call' = [call EXCEPT !.alone = FALSE]
  BY DEF AppendCommand
<1>5. ASSUME NEW id, NEW prop,
             \A line \in {up, down, res, command.over} : AllMine(line, id, prop)
      PROVE  \A line \in {up', down', res', command'.over} : AllMine(line, id, prop)
  <2>1. Mine(Set(command.num), id, prop)
    BY <1>2 DEF Mine
  <2>2. command.over # <<>> => Mine(command.over[1], id, prop)
    BY <1>3, <1>5, TailKeeps
  <2>3. AllMine(up', id, prop)
    BY <1>2, <1>3, <1>4, <1>5, <2>1, <2>2, LineTypes, AppendKeeps
  <2>4. QED
    BY <1>1, <1>5, <2>3, EmptyKeeps
<1>6. ASSUME call'.alone, Alone
      PROVE  Alone'
  <2>1. up' = up \/ up' = Append1(up, Set(command.num), MaxUp)
    BY <1>4, <1>6, LineTypes DEF CallType
  <2>2. Single(up') /\ (Quiet(up) => Quiet(up'))
    BY <1>2, <1>6, <2>1, LineTypes, AppendKeeps DEF Alone
  <2>3. QED
    BY <1>1, <1>6, <2>2 DEF Alone
<1>7. call' = call \/ call' = [call EXCEPT !.alone = FALSE]
  BY <1>4
<1>8. QED
  BY <1>1, <1>5, <1>6, <1>7, SameCall DEF AnswerInv

LEMMA CoreReceiveAnswer ==
  ASSUME TypeOK, AnswerInv, CoreReceive
  PROVE  AnswerInv'
<1> DEFINE f == Head(up)
<1>1. up # <<>> /\ up' = Tail(up) /\ UNCHANGED <<call, result, res, command>>
  BY DEF CoreReceive, display
<1>2. f \in Frames
  BY <1>1, LineTypes, TailType
<1>3. \/ f.type = "get" /\ down' = Append1(down, Answer(f), MaxDown)
      \/ f.type = "response" /\ down' = Append1(down, Returned(f), MaxDown)
      \/ down' = down
  BY DEF CoreReceive
<1>4. Answer(f) \in Frames /\ Returned(f) \in Frames
  BY <1>2, FrameTypes
<1>5. AllFromCore(down')
  <2>1. AllFromCore(down) /\ FromCore(Answer(f)) /\ (f.type = "response" => FromCore(Returned(f)))
    BY <1>2, AnswerKeeps DEF AnswerInv
  <2>2. QED
    BY <1>3, <1>4, <2>1, LineTypes, AppendKeeps
<1>6. ASSUME NEW id, NEW prop,
             \A line \in {up, down, res, command.over} : AllMine(line, id, prop)
      PROVE  \A line \in {up', down', res', command'.over} : AllMine(line, id, prop)
  <2>1. Mine(f, id, prop) /\ AllMine(up', id, prop)
    BY <1>1, <1>6, LineTypes, TailKeeps
  <2>2. /\ f.type = "get" => Mine(Answer(f), id, prop)
        /\ Mine(Returned(f), id, prop)
    BY <1>2, <2>1, AnswerKeeps
  <2>3. AllMine(down', id, prop)
    BY <1>3, <1>4, <1>6, <2>2, LineTypes, AppendKeeps
  <2>4. QED
    BY <1>1, <1>6, <2>1, <2>3
<1>7. ASSUME Alone
      PROVE  Alone'
  <2>1. CASE IsNumbered(f)
    <3>1. ~Quiet(up) /\ Quiet(Tail(up))
      BY <1>1, <1>7, <2>1, LineTypes, TailKeeps DEF Alone
    <3>2. Quiet(down) /\ res = <<>>
      BY <1>7, <3>1 DEF Alone
    <3>3. Single(down')
      BY <1>3, <1>4, <3>2, LineTypes, AppendKeeps, QuietSingle
    <3>4. QED
      BY <1>1, <3>1, <3>2, <3>3, QuietSingle DEF Alone
  <2>2. CASE ~IsNumbered(f)
    <3>1. down' = down
      BY <1>3, <2>2 DEF IsNumbered
    <3>2. /\ Single(up) => Single(Tail(up))
          /\ Quiet(up) => Quiet(Tail(up))
      BY <1>1, LineTypes, TailKeeps
    <3>3. QED
      BY <1>1, <1>7, <3>1, <3>2 DEF Alone
  <2>3. QED
    BY <2>1, <2>2
<1>8. QED
  BY <1>1, <1>5, <1>6, <1>7, SameCall DEF AnswerInv

LEMMA LineFaultAnswer ==
  ASSUME TypeOK, AnswerInv, LoseUp \/ LoseDown \/ CoreLogs \/ CoreRestarts
  PROVE  AnswerInv'
<1>1. UNCHANGED <<call, result, res, command>>
  BY DEF LoseUp, LoseDown, CoreLogs, CoreRestarts, display
<1>2. up' = up \/ (up # <<>> /\ up' = Tail(up)) \/ up' = <<>>
  BY DEF LoseUp, LoseDown, CoreLogs, CoreRestarts
<1>3. \/ down' = down \/ (down # <<>> /\ down' = Tail(down))
      \/ down' = Append1(down, Log, MaxDown)
      \/ \E n \in 0 .. Len(down) : down' = SubSeq(down, 1, n)
  BY DEF LoseUp, LoseDown, CoreLogs, CoreRestarts
<1>4. Log \in Frames /\ ~IsNumbered(Log) /\ FromCore(Log) /\ \A id, prop : Mine(Log, id, prop)
  BY FrameTypes DEF Log, IsNumbered, FromCore, Mine
<1>5. /\ AllFromCore(down) => AllFromCore(down')
      /\ Single(down) => Single(down')
      /\ Quiet(down) => Quiet(down')
      /\ \A id, prop : AllMine(down, id, prop) => AllMine(down', id, prop)
  <2>1. CASE down' = down
    BY <2>1
  <2>2. CASE down # <<>> /\ down' = Tail(down)
    BY <2>2, LineTypes, TailKeeps
  <2>3. CASE down' = Append1(down, Log, MaxDown)
    BY <1>4, <2>3, LineTypes, AppendKeeps
  <2>4. CASE \E n \in 0 .. Len(down) : down' = SubSeq(down, 1, n)
    BY <2>4, LineTypes, FrontKeeps
  <2>5. QED
    BY <1>3, <2>1, <2>2, <2>3, <2>4
<1>6. /\ Single(up) => Single(up')
      /\ Quiet(up) => Quiet(up')
      /\ \A id, prop : AllMine(up, id, prop) => AllMine(up', id, prop)
  BY <1>2, LineTypes, TailKeeps, EmptyKeeps
<1>7. Alone => Alone'
  BY <1>1, <1>5, <1>6 DEF Alone
<1>8. \A id, prop :
        (\A line \in {up, down, res, command.over} : AllMine(line, id, prop)) =>
          (\A line \in {up', down', res', command'.over} : AllMine(line, id, prop))
  BY <1>1, <1>5, <1>6
<1>9. QED
  BY <1>1, <1>5, <1>7, <1>8, SameCall DEF AnswerInv


-----------------------------------------------------------------------------
(* The theorems.                                                           *)

LEMMA InitOrder == Init => OrderInv
<1>1. SUFFICES ASSUME Init PROVE OrderInv
  OBVIOUS
<1>2. /\ command.stage = "none" /\ command.num = 0 /\ command.over = <<>>
      /\ up = <<>> /\ executed = <<>>
  BY <1>1 DEF Init
<1>3. QED
  BY <1>2, NoFrame DEF OrderInv, Ahead, Begun, CommandsInOrder

LEMMA NextOrder == TypeOK /\ OrderInv /\ [Next]_vars => TypeOK' /\ OrderInv'
<1>1. SUFFICES ASSUME TypeOK, OrderInv, [Next]_vars PROVE TypeOK' /\ OrderInv'
  OBVIOUS
<1>2. CASE StartCall
  BY <1>1, <1>2, StartCallType, StartCallOrder
<1>3. CASE Receive
  BY <1>1, <1>3, ReceiveType, ReceiveOrder
<1>4. CASE TakeAnswer
  <2>1. UNCHANGED <<up, command, executed>>
    BY <1>4 DEF TakeAnswer, core
  <2>2. QED
    BY <1>1, <1>4, <2>1, TakeAnswerType, OrderTypes, SameOrder DEF OrderInv
<1>5. CASE TimeOutAlone \/ TimeOutEarly
  <2>1. TimeOut /\ faults' \in 0 .. MaxFaults
    <3>1. faults \in 0 .. MaxFaults /\ MaxFaults \in Nat
      BY <1>1, PacketAssumption DEF TypeOK
    <3>2. QED
      BY <1>5, <3>1 DEF TimeOutAlone, TimeOutEarly, Fault
  <2>2. UNCHANGED <<up, command, executed>>
    BY <2>1 DEF TimeOut, core
  <2>3. QED
    BY <1>1, <2>1, <2>2, TimeOutType, OrderTypes, SameOrder DEF OrderInv
<1>6. CASE Encode
  BY <1>1, <1>6, EncodeType, EncodeOrder
<1>7. CASE AppendCommand
  <2>1. command.num # 0
    BY <1>1, <1>7 DEF OrderInv, AppendCommand
  <2>2. QED
    BY <1>1, <1>7, <2>1, AppendCommandType, AppendCommandOrder
<1>8. CASE CoreReceive
  BY <1>1, <1>8, CoreReceiveType, CoreReceiveOrder
<1>9. CASE RequestRefused
  BY <1>1, <1>9, RequestRefusedType, RequestRefusedOrder
<1>10. CASE LoseUp \/ LoseDown \/ CoreLogs \/ CoreRestarts
  BY <1>1, <1>10, LineFaultType, LineFaultOrder
<1>11. CASE UNCHANGED vars
  <2>1. TypeOK'
    BY <1>1, <1>11 DEF TypeOK, vars, display, core
  <2>2. UNCHANGED <<up, command, executed>>
    BY <1>11 DEF vars, core
  <2>3. QED
    BY <1>1, <2>1, <2>2, OrderTypes, SameOrder DEF OrderInv
<1>12. QED
  BY <1>1, <1>2, <1>3, <1>4, <1>5, <1>6, <1>7, <1>8, <1>9, <1>10, <1>11 DEF Next

LEMMA InitAnswer == Init => AnswerInv
<1>1. SUFFICES ASSUME Init PROVE AnswerInv
  OBVIOUS
<1>2. /\ call.stage = "next" /\ res = <<>> /\ command.over = <<>> /\ down = <<>> /\ result.id = 0
  BY <1>1 DEF Init
<1>3. QED
  BY <1>2, EmptyKeeps DEF AnswerInv, MineInv, AnswerOwn

LEMMA NextAnswer == TypeOK /\ OrderInv /\ AnswerInv /\ [Next]_vars => AnswerInv'
<1>1. SUFFICES ASSUME TypeOK, OrderInv, AnswerInv, [Next]_vars PROVE AnswerInv'
  OBVIOUS
<1>2. CASE StartCall
  BY <1>1, <1>2, StartCallAnswer
<1>3. CASE Receive
  BY <1>1, <1>3, ReceiveAnswer
<1>4. CASE TakeAnswer
  BY <1>1, <1>4, TakeAnswerAnswer
<1>5. CASE TimeOutAlone \/ TimeOutEarly
  BY <1>1, <1>5, TimeOutAnswer DEF TimeOutAlone, TimeOutEarly
<1>6. CASE Encode
  BY <1>1, <1>6, EncodeAnswer
<1>7. CASE AppendCommand
  BY <1>1, <1>7, AppendCommandAnswer DEF AppendCommand, OrderInv
<1>8. CASE CoreReceive
  BY <1>1, <1>8, CoreReceiveAnswer
<1>9. CASE RequestRefused
  BY <1>1, <1>9, RequestRefusedAnswer
<1>10. CASE LoseUp \/ LoseDown \/ CoreLogs \/ CoreRestarts
  BY <1>1, <1>10, LineFaultAnswer
<1>11. CASE UNCHANGED vars
  <2>1. UNCHANGED <<call, result, res, up, down, command>>
    BY <1>11 DEF vars, display
  <2>2. Alone => Alone'
    BY <2>1 DEF Alone
  <2>3. QED
    BY <1>1, <2>1, <2>2, SameCall DEF AnswerInv
<1>12. QED
  BY <1>1, <1>2, <1>3, <1>4, <1>5, <1>6, <1>7, <1>8, <1>9, <1>10, <1>11 DEF Next

(* Every variable keeps to its values: in particular the packet counter     *)
(* wraps, and no call is beyond the properties that are polled.             *)
THEOREM PacketTypeCorrect == Spec => []TypeOK
<1>1. QED
  BY InitType, InitOrder, NextOrder, PTL DEF Spec

(* The commands that reach the core are executed once and in order, however *)
(* the tasks share the build buffer and whatever the line loses.            *)
THEOREM ExecutesInOrder == Spec => []CommandsInOrder
<1>1. OrderInv => CommandsInOrder
  BY DEF OrderInv
<1>2. QED
  BY InitType, InitOrder, NextOrder, <1>1, PTL DEF Spec

(* A call returns the answer to its own request or none, however late the   *)
(* answers of earlier calls come, with the exceptions AnswerOwn names.      *)
THEOREM AnswersOwn == Spec => []AnswerOwn
<1>1. AnswerInv => AnswerOwn
  BY DEF AnswerInv
<1>2. QED
  BY InitType, InitOrder, InitAnswer, NextOrder, NextAnswer, <1>1, PTL DEF Spec

=============================================================================
