----------------------- MODULE ProfileTransfer_proofs -----------------------
(* What tlapm checks of ProfileTransfer, for every set of profiles and every *)
(* number of starts, losses and restarts.                                    *)
EXTENDS ProfileTransfer, SequenceTheorems, TLAPS

-----------------------------------------------------------------------------
(* The frames of a profile.                                                  *)

\* no profile has more datapoints than a frame has room for
OneFrameEach == \A p \in Profiles : Datapoints[p] <= FrameEntries

\* the profiles that have any, and hence a frame
Filled == {p \in Profiles : Datapoints[p] # 0}

\* the frame of a profile that fits into one
WholeFrame(p, id) ==
  [type |-> "profile", profileId |-> id, profile |-> p, totalEntries |-> Datapoints[p],
   entriesOffset |-> 0, numberEntries |-> Datapoints[p]]

ProfileFrames ==
  UNION {{Frames(p, id)[k] : k \in DOMAIN Frames(p, id)} : p \in Profiles, id \in Ids}

\* what can be on the line
Messages == ProfileFrames \cup [type : {"start"}, profile : Profiles] \cup [type : {"poll"}]

\* A profile is a sequence of its frames.
LEMMA FramesMany ==
  ASSUME NEW p \in Profiles, NEW id \in Ids
  PROVE  /\ Frames(p, id) \in Seq(ProfileFrames)
         /\ \A k \in 1 .. Len(Frames(p, id)) : Frames(p, id)[k].type = "profile"
<1> DEFINE m == (Datapoints[p] + FrameEntries - 1) \div FrameEntries
<1>1. m \in Nat
  BY TransferAssumption
<1>2. DOMAIN Frames(p, id) = 1 .. m
  BY DEF Frames, Offsets
<1> HIDE DEF m
<1>3. \A k \in 1 .. m : Frames(p, id)[k] \in ProfileFrames
  <2> DEFINE S == {Frames(p, id)[k] : k \in DOMAIN Frames(p, id)}
  <2>1. \A k \in 1 .. m : Frames(p, id)[k] \in S
    BY <1>2
  <2>2. S \in {{Frames(q, i)[k] : k \in DOMAIN Frames(q, i)} : q \in Profiles, i \in Ids}
    OBVIOUS
  <2> HIDE DEF S
  <2>3. S \subseteq ProfileFrames
    BY <2>2 DEF ProfileFrames
  <2> QED
    BY <2>1, <2>3
<1>4. Frames(p, id) = [k \in 1 .. m |-> Frames(p, id)[k]]
  BY <1>2 DEF Frames
<1>5. Frames(p, id) \in [1 .. m -> ProfileFrames]
  BY <1>3, <1>4
<1>6. Frames(p, id) \in Seq(ProfileFrames) /\ Len(Frames(p, id)) = m
  BY <1>1, <1>5, SeqDef, LenProperties
<1>7. \A k \in 1 .. m : Frames(p, id)[k].type = "profile"
  BY <1>2 DEF Frames
<1> QED
  BY <1>6, <1>7

\* One that has datapoints and fits into a frame has one.
LEMMA FramesOne ==
  ASSUME NEW p \in Filled, NEW id, OneFrameEach
  PROVE  Frames(p, id) = [k \in 1 .. 1 |-> WholeFrame(p, id)]
<1>1. (Datapoints[p] + FrameEntries - 1) \div FrameEntries = 1
  BY TransferAssumption DEF OneFrameEach, Filled
<1>2. Offsets(Datapoints[p]) = [k \in 1 .. 1 |-> (k - 1) * FrameEntries]
  BY <1>1 DEF Offsets
<1>3. Offsets(Datapoints[p])[1] = 0 /\ DOMAIN Offsets(Datapoints[p]) = 1 .. 1
  BY <1>2, TransferAssumption
<1>4. Datapoints[p] - 0 = Datapoints[p]
  BY TransferAssumption DEF Filled
<1>5. \A k \in 1 .. 1 : k = 1
  OBVIOUS
<1> HIDE DEF Offsets
<1> QED
  BY <1>3, <1>4, <1>5 DEF Frames, WholeFrame

\* The messages have their types.
LEMMA MessageTypes ==
  ASSUME NEW f \in Messages
  PROVE  /\ f.type \in {"profile", "start", "poll"}
         /\ f.type = "start" => f.profile \in Profiles
         /\ f.type = "profile" => f \in ProfileFrames
<1>1. CASE f \in ProfileFrames
  <2>1. PICK p \in Profiles, id \in Ids : \E k \in DOMAIN Frames(p, id) : f = Frames(p, id)[k]
    BY <1>1 DEF ProfileFrames
  <2>2. f.type = "profile"
    BY <2>1 DEF Frames
  <2> QED
    BY <1>1, <2>2
<1>2. CASE f \in [type : {"start"}, profile : Profiles]
  BY <1>2
<1>3. CASE f \in [type : {"poll"}]
  BY <1>3
<1> QED
  BY <1>1, <1>2, <1>3 DEF Messages

\* A profile frame is whole where every profile fits.
LEMMA WholeFrames ==
  ASSUME NEW f \in ProfileFrames, OneFrameEach
  PROVE  \E p \in Filled, id \in Ids : f = WholeFrame(p, id)
<1>1. PICK p \in Profiles, id \in Ids : \E k \in DOMAIN Frames(p, id) : f = Frames(p, id)[k]
  BY DEF ProfileFrames
<1>2. p \in Filled
  <2>1. DOMAIN Frames(p, id) = 1 .. (Datapoints[p] + FrameEntries - 1) \div FrameEntries
    BY DEF Frames, Offsets
  <2>2. ASSUME Datapoints[p] = 0
        PROVE  (Datapoints[p] + FrameEntries - 1) \div FrameEntries = 0
    BY <2>2, TransferAssumption
  <2> QED
    BY <1>1, <2>1, <2>2 DEF Filled
<1> QED
  BY <1>1, <1>2, FramesOne

\* The next id is an id and another.
LEMMA NextIdOther ==
  ASSUME NEW id \in Ids
  PROVE  (id + 1) % IdRange \in Ids /\ (id + 1) % IdRange # id
  BY TransferAssumption DEF Ids

-----------------------------------------------------------------------------
(* The line.                                                                 *)

Polls(l)     == \A i \in 1 .. Len(l) : IsPoll(l[i])
NoPolls(l)   == \A i \in 1 .. Len(l) : ~IsPoll(l[i])
NoStart(l)   == \A i \in 1 .. Len(l) : l[i].type # "start"
NoProfiles(l) == \A i \in 1 .. Len(l) : l[i].type # "profile"
OnePoll(l)   == \A i, j \in 1 .. Len(l) : IsPoll(l[i]) /\ IsPoll(l[j]) => i = j
OneProfile(l) ==
  \A i, j \in 1 .. Len(l) : l[i].type = "profile" /\ l[j].type = "profile" => i = j
\* only polls come after a start, and after a poll
StartLast(l) == \A i, j \in 1 .. Len(l) : i < j /\ l[i].type = "start" => IsPoll(l[j])
PollLast(l)  == \A i, j \in 1 .. Len(l) : i < j /\ IsPoll(l[i]) => IsPoll(l[j])
\* m is l up to its polls
SameButPolls(l, m) ==
  /\ NoProfiles(m) => NoProfiles(l)
  /\ OneProfile(l) => OneProfile(m)
  /\ \A i \in 1 .. Len(m) : IsPoll(m[i]) \/ \E j \in 1 .. Len(l) : m[i] = l[j]

\* What is behind the first message.
LEMMA TailLine ==
  ASSUME NEW l \in Seq(Messages), l # <<>>
  PROVE  /\ Tail(l) \in Seq(Messages) /\ Head(l) = l[1] /\ Head(l) \in Messages
         /\ Len(l) \in Nat \ {0} /\ Len(Tail(l)) = Len(l) - 1
         /\ \A i \in 1 .. Len(l) - 1 : Tail(l)[i] = l[i + 1]
  BY HeadTailProperties, LenProperties, EmptySeq

\* It is as ordered as the whole.
LEMMA TailOrder ==
  ASSUME NEW l \in Seq(Messages), l # <<>>
  PROVE  /\ Polls(l) => Polls(Tail(l))
         /\ NoPolls(l) => NoPolls(Tail(l))
         /\ NoStart(l) => NoStart(Tail(l))
         /\ NoProfiles(l) => NoProfiles(Tail(l))
         /\ OnePoll(l) => OnePoll(Tail(l))
         /\ StartLast(l) => StartLast(Tail(l))
         /\ PollLast(l) => PollLast(Tail(l))
         /\ StartLast(l) /\ Head(l).type = "start" => Polls(Tail(l))
         /\ PollLast(l) /\ IsPoll(Head(l)) => Polls(Tail(l))
         /\ OnePoll(l) /\ IsPoll(Head(l)) => NoPolls(Tail(l))
         /\ IsPoll(Head(l)) => SameButPolls(l, Tail(l))
         /\ OneProfile(l) /\ Head(l).type = "profile" => NoProfiles(Tail(l))
<1> DEFINE t == Tail(l)
<1>1. /\ Len(l) \in Nat \ {0} /\ Len(t) = Len(l) - 1 /\ Head(l) = l[1]
      /\ \A i \in 1 .. Len(t) : t[i] = l[i + 1] /\ i + 1 \in 1 .. Len(l) /\ 1 < i + 1
      /\ \A i, j \in 1 .. Len(t) : i < j => i + 1 < j + 1
      /\ \A i, j \in 1 .. Len(t) : i + 1 = j + 1 => i = j
      /\ 1 \in 1 .. Len(l)
      /\ \A i \in 1 .. Len(t) : i + 1 # 1
  BY TailLine
<1> HIDE DEF t
<1>2. /\ Polls(l) => Polls(t)
      /\ NoPolls(l) => NoPolls(t)
      /\ NoStart(l) => NoStart(t)
      /\ NoProfiles(l) => NoProfiles(t)
  BY <1>1 DEF Polls, NoPolls, NoStart, NoProfiles
<1>3. OnePoll(l) => OnePoll(t)
  BY <1>1 DEF OnePoll
<1>4. (StartLast(l) => StartLast(t)) /\ (PollLast(l) => PollLast(t))
  BY <1>1 DEF StartLast, PollLast
<1>5. /\ StartLast(l) /\ Head(l).type = "start" => Polls(t)
      /\ PollLast(l) /\ IsPoll(Head(l)) => Polls(t)
  BY <1>1 DEF StartLast, PollLast, Polls
<1>6. OnePoll(l) /\ IsPoll(Head(l)) => NoPolls(t)
  BY <1>1 DEF OnePoll, NoPolls
<1>7. OneProfile(l) /\ Head(l).type = "profile" => NoProfiles(t)
  BY <1>1 DEF OneProfile, NoProfiles
<1>8. IsPoll(Head(l)) => SameButPolls(l, t)
  <2>1. \A i \in 1 .. Len(l) : i # 1 => i - 1 \in 1 .. Len(t) /\ (i - 1) + 1 = i
    BY <1>1
  <2>2. ASSUME NEW i \in 1 .. Len(l), i # 1
        PROVE  \E j \in 1 .. Len(t) : t[j] = l[i]
    <3>1. i - 1 \in 1 .. Len(t) /\ (i - 1) + 1 = i
      BY <2>1, <2>2
    <3>2. t[i - 1] = l[(i - 1) + 1]
      BY <1>1, <3>1
    <3> QED
      BY <3>1, <3>2
  <2>3. IsPoll(Head(l)) /\ NoProfiles(t) => NoProfiles(l)
    BY ZenonT(40), <1>1, <2>2 DEF NoProfiles, IsPoll
  <2>4. OneProfile(l) => OneProfile(t)
    BY SMTT(20), <1>1 DEF OneProfile
  <2> QED
    BY <1>1, <2>3, <2>4 DEF SameButPolls
<1> QED
  BY <1>2, <1>3, <1>4, <1>5, <1>6, <1>7, <1>8 DEF t

\* A message behind the others.
LEMMA AppendLine ==
  ASSUME NEW l \in Seq(Messages), NEW f \in Messages
  PROVE  /\ Append(l, f) \in Seq(Messages) /\ Len(l) \in Nat
         /\ Len(Append(l, f)) = Len(l) + 1
         /\ Append(l, f)[Len(l) + 1] = f
         /\ \A i \in 1 .. Len(l) : Append(l, f)[i] = l[i]
  BY AppendProperties, LenProperties

\* Where there is no poll, one can be appended.
LEMMA AppendPoll ==
  ASSUME NEW l \in Seq(Messages), NEW f \in Messages, IsPoll(f), NoPolls(l)
  PROVE  /\ OnePoll(Append(l, f)) /\ PollLast(Append(l, f))
         /\ Polls(l) => Polls(Append(l, f))
         /\ NoStart(l) => NoStart(Append(l, f))
         /\ NoProfiles(l) => NoProfiles(Append(l, f))
         /\ StartLast(l) => StartLast(Append(l, f))
         /\ SameButPolls(l, Append(l, f))
<1> DEFINE a == Append(l, f)
<1>1. /\ Len(l) \in Nat /\ Len(a) = Len(l) + 1
      /\ \A i \in 1 .. Len(a) : /\ i \in 1 .. Len(l) => a[i] = l[i]
                                /\ i \notin 1 .. Len(l) => i = Len(l) + 1 /\ a[i] = f
      /\ \A i, j \in 1 .. Len(a) : i < j => i \in 1 .. Len(l)
  BY AppendLine
<1> HIDE DEF a
<1>2. /\ OnePoll(a) /\ PollLast(a)
  BY <1>1 DEF OnePoll, PollLast, NoPolls
<1>3. /\ Polls(l) => Polls(a)
      /\ NoStart(l) => NoStart(a)
      /\ NoProfiles(l) => NoProfiles(a)
  BY <1>1 DEF Polls, NoStart, NoProfiles, IsPoll
<1>4. StartLast(l) => StartLast(a)
  BY <1>1 DEF StartLast
<1>5. SameButPolls(l, a)
  <2>1. \A i \in 1 .. Len(l) : i \in 1 .. Len(a) /\ a[i] = l[i]
    BY <1>1
  <2>2. NoProfiles(a) => NoProfiles(l)
    BY <2>1 DEF NoProfiles
  <2>3. OneProfile(l) => OneProfile(a)
    BY <1>1 DEF OneProfile, IsPoll
  <2> QED
    BY <1>1, <2>2, <2>3 DEF SameButPolls
<1> QED
  BY <1>2, <1>3, <1>4, <1>5 DEF a

\* Where there is no start, one can be appended.
LEMMA AppendStart ==
  ASSUME NEW l \in Seq(Messages), NEW f \in Messages, f.type = "start", NoStart(l)
  PROVE  /\ OnePoll(l) => OnePoll(Append(l, f))
         /\ NoPolls(l) => NoPolls(Append(l, f))
         /\ NoProfiles(l) => NoProfiles(Append(l, f))
         /\ StartLast(Append(l, f))
<1> DEFINE a == Append(l, f)
<1>1. /\ Len(l) \in Nat /\ Len(a) = Len(l) + 1
      /\ \A i \in 1 .. Len(a) : /\ i \in 1 .. Len(l) => a[i] = l[i]
                                /\ i \notin 1 .. Len(l) => i = Len(l) + 1 /\ a[i] = f
      /\ \A i, j \in 1 .. Len(a) : i < j => i \in 1 .. Len(l)
  BY AppendLine
<1> HIDE DEF a
<1>2. OnePoll(l) => OnePoll(a)
  BY <1>1 DEF OnePoll, IsPoll
<1>3. /\ NoPolls(l) => NoPolls(a)
      /\ NoProfiles(l) => NoProfiles(a)
  BY <1>1 DEF NoPolls, NoProfiles, IsPoll
<1>4. StartLast(a)
  BY <1>1 DEF StartLast, NoStart
<1> QED
  BY <1>2, <1>3, <1>4 DEF a

\* A message can be taken out of a line.
LEMMA WithoutLine ==
  ASSUME NEW l \in Seq(Messages), NEW k \in 1 .. Len(l)
  PROVE  /\ Without(l, k) \in Seq(Messages)
         /\ IsPoll(l[k]) /\ OnePoll(l) => NoPolls(Without(l, k))
         /\ Polls(l) => Polls(Without(l, k))
         /\ NoStart(l) => NoStart(Without(l, k))
         /\ NoProfiles(l) => NoProfiles(Without(l, k))
         /\ StartLast(l) => StartLast(Without(l, k))
         /\ IsPoll(l[k]) => SameButPolls(l, Without(l, k))
<1> DEFINE w == Without(l, k)
           at(i) == IF i < k THEN i ELSE i + 1
<1>1. Len(l) \in Nat /\ k \in Nat /\ Len(l) - 1 \in Nat /\ \A i \in 1 .. Len(l) : l[i] \in Messages
  BY LenProperties, ElementOfSeq
<1>2. \A i \in 1 .. Len(l) - 1 : at(i) \in 1 .. Len(l) /\ at(i) # k
  BY <1>1
<1>3. \A i, j \in 1 .. Len(l) - 1 : i < j => at(i) < at(j)
  BY <1>1
<1>4. w = [i \in 1 .. Len(l) - 1 |-> l[at(i)]]
  BY DEF Without
<1> HIDE DEF w, at
<1>5. w \in [1 .. Len(l) - 1 -> Messages]
  BY <1>1, <1>2, <1>4
<1>6. w \in Seq(Messages)
  BY <1>1, <1>5, SeqDef
<1>7. Len(w) = Len(l) - 1
  BY <1>1, <1>5, <1>6, LenProperties
<1>8. \A i \in 1 .. Len(w) : w[i] = l[at(i)] /\ at(i) \in 1 .. Len(l) /\ at(i) # k
  BY <1>2, <1>4, <1>7
<1>9. IsPoll(l[k]) /\ OnePoll(l) => NoPolls(w)
  BY <1>8 DEF NoPolls, OnePoll
<1>10. /\ Polls(l) => Polls(w)
       /\ NoStart(l) => NoStart(w)
       /\ NoProfiles(l) => NoProfiles(w)
  BY <1>8 DEF Polls, NoStart, NoProfiles
<1>11. StartLast(l) => StartLast(w)
  BY <1>3, <1>7, <1>8 DEF StartLast
<1>12. IsPoll(l[k]) => SameButPolls(l, w)
  <2>1. \A i \in 1 .. Len(l) : i # k => \E j \in 1 .. Len(w) : at(j) = i
    <3>1. \A i \in 1 .. Len(l) : i # k =>
            IF i < k THEN i \in 1 .. Len(w) /\ at(i) = i
                     ELSE i - 1 \in 1 .. Len(w) /\ at(i - 1) = i
      BY <1>1, <1>7 DEF at
    <3> QED
      BY <3>1
  <2>2. IsPoll(l[k]) /\ NoProfiles(w) => NoProfiles(l)
    BY <1>8, <2>1 DEF NoProfiles, IsPoll
  <2>3. \A i, j \in 1 .. Len(w) : at(i) = at(j) => i = j
    BY <1>1, <1>7 DEF at
  <2>4. OneProfile(l) => OneProfile(w)
    BY <1>8, <2>3 DEF OneProfile
  <2> QED
    BY <1>8, <2>2, <2>4 DEF SameButPolls
<1> QED
  BY <1>6, <1>9, <1>10, <1>11, <1>12 DEF w

\* The frames of a profile behind other messages, behind polls in particular.
LEMMA ConcatLine ==
  ASSUME NEW l \in Seq(Messages), NEW p \in Profiles, NEW id \in Ids
  PROVE  /\ l \o Frames(p, id) \in Seq(Messages)
         /\ Polls(l) => NoStart(l \o Frames(p, id)) /\ StartLast(l \o Frames(p, id))
         /\ OnePoll(l) => OnePoll(l \o Frames(p, id))
         /\ NoPolls(l) => NoPolls(l \o Frames(p, id))
<1> DEFINE fs == Frames(p, id)
           c == l \o fs
<1>1. fs \in Seq(Messages) /\ \A i \in 1 .. Len(fs) : fs[i].type = "profile"
  <2>1. ProfileFrames \subseteq Messages
    BY DEF Messages
  <2>2. Seq(ProfileFrames) \subseteq Seq(Messages)
    BY <2>1, SeqDef
  <2> QED
    BY <2>2, FramesMany
<1> HIDE DEF fs
<1>2. /\ c \in Seq(Messages) /\ Len(c) = Len(l) + Len(fs)
      /\ Len(l) \in Nat /\ Len(fs) \in Nat
      /\ \A i \in 1 .. Len(l) + Len(fs) :
           c[i] = IF i <= Len(l) THEN l[i] ELSE fs[i - Len(l)]
  BY <1>1, ConcatProperties, LenProperties
<1> HIDE DEF c
<1>3. \A i \in 1 .. Len(c) : /\ i \in 1 .. Len(l) => c[i] = l[i]
                             /\ i \notin 1 .. Len(l) => c[i].type = "profile"
  <2> SUFFICES ASSUME NEW i \in 1 .. Len(c)
               PROVE  /\ i \in 1 .. Len(l) => c[i] = l[i]
                      /\ i \notin 1 .. Len(l) => c[i].type = "profile"
    OBVIOUS
  <2>1. CASE i \in 1 .. Len(l)
    BY <1>2, <2>1
  <2>2. CASE i \notin 1 .. Len(l)
    <3>1. i - Len(l) \in 1 .. Len(fs) /\ c[i] = fs[i - Len(l)]
      BY <1>2, <2>2
    <3> QED
      BY <1>1, <2>2, <3>1
  <2> QED
    BY <2>1, <2>2
<1>4. Polls(l) => NoStart(c)
  BY <1>3 DEF NoStart, Polls, IsPoll
<1>5. Polls(l) => StartLast(c)
  BY <1>4 DEF StartLast, NoStart
<1>6. (OnePoll(l) => OnePoll(c)) /\ (NoPolls(l) => NoPolls(c))
  BY <1>3 DEF OnePoll, NoPolls, IsPoll
<1> QED
  BY <1>2, <1>4, <1>5, <1>6 DEF c, fs

-----------------------------------------------------------------------------
(* One start at a time.                                                      *)

Base ==
  /\ line \in Seq(Messages)
  /\ nextId \in Ids /\ starting \in Profiles \cup {NoProfile}
  /\ can_start \in BOOLEAN /\ polling \in BOOLEAN
  /\ reply \in {"none", "ready", "busy"}
  /\ fresh \in BOOLEAN /\ startedSince \in BOOLEAN

\* nothing is sent or run
Quiet == starting = NoProfile /\ running = NoProfile /\ Polls(line)

\* what is started is not run yet, and behind a start nothing is sent
SessionInv ==
  /\ StartLast(line)
  /\ starting # NoProfile =>
       running = NoProfile /\ NoStart(line) /\ ~fresh /\ (polling => startedSince)
  /\ running # NoProfile => Polls(line)

\* a poll that was made after the last start finds out that nothing is run
PollInv ==
  /\ OnePoll(line) /\ (NoPolls(line) \/ (polling /\ reply = "none"))
  /\ reply # "none" => polling
  /\ polling /\ ~startedSince => PollLast(line)
  /\ reply = "ready" /\ ~startedSince => Quiet
  /\ fresh /\ can_start => Quiet

TransferInv == Base /\ SessionInv /\ PollInv

\* The display's other messages are messages.
LEMMA SendMessages ==
  /\ \A p \in Profiles : [type |-> "start", profile |-> p] \in Messages
  /\ [type |-> "poll"] \in Messages
BY DEF Messages

\* What is sent is well formed.
LEMMA BaseStep == ASSUME Base, [Next]_vars PROVE Base'
<1>1. CASE StartProfile
  <2>1. nextId' \in Ids
    BY <1>1, NextIdOther DEF StartProfile, NextId, Base
  <2> QED
    BY <1>1, <2>1, ConcatLine DEF StartProfile, Base
<1>2. CASE StartReflow
  <2>1. starting \in Profiles
    BY <1>2 DEF StartReflow, Base
  <2>2. line' \in Seq(Messages)
    BY <1>2, <2>1, SendMessages, AppendLine DEF StartReflow, Base
  <2> QED
    BY <1>2, <2>2 DEF StartReflow, Base
<1>3. CASE Poll
  <2>1. line' \in Seq(Messages)
    BY <1>3, SendMessages, AppendLine DEF Poll, Base
  <2>2. startedSince' \in BOOLEAN
    BY <1>3 DEF Poll
  <2> QED
    BY <1>3, <2>1, <2>2 DEF Poll, Base
<1>4. CASE PollAnswered
  <2>1. can_start' \in BOOLEAN /\ fresh' \in BOOLEAN
    BY <1>4 DEF PollAnswered
  <2> QED
    BY <1>4, <2>1 DEF PollAnswered, Base
<1>5. CASE PollTimeout
  <2>1. DOMAIN line = 1 .. Len(line)
    BY LenProperties DEF Base
  <2>2. line' \in Seq(Messages)
    BY <1>5, <2>1, WithoutLine DEF PollTimeout, Base
  <2> QED
    BY <1>5, <2>2 DEF PollTimeout, Base
<1>6. CASE DisplayRestart
  <2>1. line' \in Seq(Messages) /\ nextId' \in Ids
    BY <1>6, EmptySeq, TransferAssumption DEF DisplayRestart, Ids
  <2> QED
    BY <1>6, <2>1 DEF DisplayRestart, Base
<1>7. CASE Lose \/ ReceiveProfile \/ ReceiveStart \/ ReceivePoll
  <2>1. line' \in Seq(Messages)
    BY <1>7, TailLine DEF Lose, ReceiveProfile, ReceiveStart, ReceivePoll, Receive, Base
  <2>2. UNCHANGED <<display, fresh, startedSince>> /\ reply' \in {reply, "ready", "busy"}
    BY <1>7 DEF Lose, ReceiveProfile, ReceiveStart, ReceivePoll
  <2> QED
    BY <2>1, <2>2 DEF display, Base
<1>8. CASE Finish \/ CoreRestart \/ UNCHANGED vars
  BY <1>8 DEF Finish, CoreRestart, vars, display, Base
<1> QED
  BY <1>1, <1>2, <1>3, <1>4, <1>5, <1>6, <1>7, <1>8 DEF Next

\* A start goes out only when nothing is sent or run.
LEMMA TransferStarts ==
  ASSUME ~Hurried, TransferInv, StartProfile \/ StartReflow
  PROVE  SessionInv' /\ PollInv'
<1> USE DEF TransferInv
<1>1. CASE StartProfile
  <2>1. Quiet
    BY <1>1 DEF StartProfile, PollInv
  <2>2. PICK p \in Profiles : line' = line \o Frames(p, nextId) /\ starting' = p
    BY <1>1 DEF StartProfile
  <2>3. /\ NoStart(line') /\ StartLast(line') /\ OnePoll(line')
        /\ NoPolls(line) => NoPolls(line')
    BY <2>1, <2>2, ConcatLine DEF Quiet, Base, PollInv
  <2>4. /\ fresh' = FALSE /\ startedSince' = TRUE /\ running' = running
        /\ can_start' = can_start /\ polling' = polling /\ reply' = reply
    BY <1>1 DEF StartProfile
  <2>5. SessionInv'
    BY <2>1, <2>3, <2>4 DEF SessionInv, Quiet
  <2>6. PollInv'
    BY <2>3, <2>4 DEF PollInv
  <2> QED
    BY <2>5, <2>6
<1>2. CASE StartReflow /\ can_start
  <2>1. starting \in Profiles /\ line' = Append(line, [type |-> "start", profile |-> starting])
    BY <1>2 DEF StartReflow, Base
  <2>2. /\ StartLast(line') /\ OnePoll(line')
        /\ NoPolls(line) => NoPolls(line')
    <3> DEFINE f == [type |-> "start", profile |-> starting]
    <3>1. f \in Messages /\ f.type = "start"
      BY <2>1, SendMessages
    <3> HIDE DEF f
    <3>2. line' = Append(line, f)
      BY <2>1 DEF f
    <3> QED
      BY <1>2, <3>1, <3>2, AppendLine, AppendStart DEF StartReflow, Base, SessionInv, PollInv
  <2>3. /\ starting' = NoProfile /\ can_start' = can_start
        /\ polling' = polling /\ reply' = reply /\ running' = running
        /\ fresh' = fresh /\ startedSince' = startedSince
    BY <1>2 DEF StartReflow
  <2>4. running = NoProfile /\ ~fresh /\ (polling => startedSince)
    BY <1>2 DEF StartReflow, SessionInv
  <2>5. SessionInv'
    BY <2>2, <2>3, <2>4 DEF SessionInv
  <2>6. PollInv'
    BY <2>2, <2>3, <2>4 DEF PollInv, Base
  <2> QED
    BY <2>5, <2>6
<1>3. CASE StartReflow /\ ~can_start
  BY <1>3 DEF StartReflow, Base, SessionInv, PollInv, Quiet
<1> QED
  BY <1>1, <1>2, <1>3

\* A poll finds out what came before it.
LEMMA TransferPolls ==
  ASSUME TransferInv, Poll \/ PollAnswered \/ PollTimeout \/ DisplayRestart
  PROVE  SessionInv' /\ PollInv'
<1> USE DEF TransferInv
<1>1. CASE Poll
  <2>1. NoPolls(line) /\ reply = "none"
    BY <1>1 DEF Poll, PollInv, Base
  <2> DEFINE f == [type |-> "poll"]
  <2>2. f \in Messages /\ IsPoll(f) /\ line' = Append(line, f)
    BY <1>1, SendMessages DEF Poll, IsPoll
  <2> HIDE DEF f
  <2>3. /\ OnePoll(line') /\ PollLast(line')
        /\ Polls(line) => Polls(line')
        /\ NoStart(line) => NoStart(line')
        /\ StartLast(line) => StartLast(line')
    BY <2>1, <2>2, AppendLine, AppendPoll DEF Base
  <2>4. /\ polling' = TRUE /\ startedSince' = (starting # NoProfile)
        /\ starting' = starting /\ can_start' = can_start /\ reply' = reply
        /\ running' = running /\ fresh' = fresh
    BY <1>1 DEF Poll
  <2>5. SessionInv'
    BY <2>3, <2>4 DEF SessionInv
  <2>6. PollInv'
    BY <2>1, <2>3, <2>4 DEF PollInv, Quiet
  <2> QED
    BY <2>5, <2>6
<1>2. CASE PollAnswered
  <2>1. /\ reply # "none" /\ reply' = "none" /\ polling' = FALSE
        /\ can_start' = (reply = "ready") /\ fresh' = ~startedSince
        /\ starting' = starting /\ line' = line
        /\ running' = running /\ startedSince' = startedSince
    BY <1>2 DEF PollAnswered
  <2>2. polling /\ NoPolls(line)
    BY <2>1 DEF PollInv
  <2>3. SessionInv'
    BY <2>1, <2>2 DEF SessionInv
  <2>4. PollInv'
    BY <2>1, <2>2 DEF PollInv, Quiet
  <2> QED
    BY <2>3, <2>4
<1>3. CASE PollTimeout
  <2>1. /\ NoPolls(line')
        /\ Polls(line) => Polls(line')
        /\ NoStart(line) => NoStart(line')
        /\ StartLast(line) => StartLast(line')
    <3>1. CASE line' = line /\ \A k \in DOMAIN line : ~IsPoll(line[k])
      BY <3>1, LenProperties DEF NoPolls, Base
    <3>2. CASE \E k \in DOMAIN line : IsPoll(line[k]) /\ line' = Without(line, k)
      <4>1. PICK k \in 1 .. Len(line) : IsPoll(line[k]) /\ line' = Without(line, k)
        BY <3>2, LenProperties DEF Base
      <4> QED
        BY <4>1, WithoutLine DEF Base, PollInv
    <3> QED
      BY <1>3, <3>1, <3>2 DEF PollTimeout
  <2>2. /\ polling' = FALSE /\ reply' = "none"
        /\ starting' = starting /\ can_start' = can_start
        /\ running' = running /\ fresh' = fresh /\ startedSince' = startedSince
    BY <1>3 DEF PollTimeout
  <2>3. SessionInv'
    BY <2>1, <2>2 DEF SessionInv
  <2>4. OnePoll(line')
    BY <2>1 DEF OnePoll, NoPolls
  <2>5. PollInv'
    BY <2>1, <2>2, <2>4 DEF PollInv, Quiet
  <2> QED
    BY <2>3, <2>5
<1>4. CASE DisplayRestart
  <2>1. /\ line' = <<>> /\ Len(line') = 0 /\ starting' = NoProfile
        /\ can_start' = FALSE /\ polling' = FALSE /\ reply' = "none"
        /\ fresh' = FALSE /\ startedSince' = FALSE /\ running' = running
    BY <1>4, EmptySeq DEF DisplayRestart
  <2>2. \A i \in 1 .. Len(line') : FALSE
    BY <2>1
  <2>3. /\ Polls(line') /\ NoPolls(line') /\ OnePoll(line') /\ StartLast(line')
    BY <2>2 DEF Polls, NoPolls, OnePoll, StartLast
  <2> QED
    BY <2>1, <2>3 DEF SessionInv, PollInv
<1> QED
  BY <1>1, <1>2, <1>3, <1>4

\* The core receives, or the line loses, one message after the other.
LEMMA TransferReceives ==
  ASSUME TransferInv, Lose \/ ReceiveProfile \/ ReceiveStart \/ ReceivePoll
  PROVE  SessionInv' /\ PollInv'
<1> USE DEF TransferInv
<1>1. /\ line # <<>> /\ line' = Tail(line)
      /\ starting' = starting /\ can_start' = can_start
      /\ polling' = polling /\ fresh' = fresh /\ startedSince' = startedSince
  BY DEF Lose, ReceiveProfile, ReceiveStart, ReceivePoll, Receive, display
<1>2. /\ line' \in Seq(Messages) /\ Head(line) \in Messages /\ Head(line) = line[1]
      /\ 1 \in 1 .. Len(line)
  BY <1>1, TailLine DEF Base
<1>3. /\ StartLast(line') /\ OnePoll(line')
      /\ Polls(line) => Polls(line')
      /\ NoPolls(line) => NoPolls(line')
      /\ NoStart(line) => NoStart(line')
      /\ PollLast(line) => PollLast(line')
      /\ Head(line).type = "start" => Polls(line')
      /\ PollLast(line) /\ IsPoll(Head(line)) => Polls(line')
      /\ IsPoll(Head(line)) => NoPolls(line')
  BY <1>1, TailOrder DEF Base, SessionInv, PollInv
<1>4. CASE Lose \/ ReceiveProfile
  <2>1. reply' = reply /\ running' = running
    BY <1>4 DEF Lose, ReceiveProfile
  <2> QED
    BY <1>1, <1>2, <1>3, <2>1 DEF Base, SessionInv, PollInv, Quiet
<1>5. CASE ReceiveStart
  <2>1. reply' = reply /\ Head(line).type = "start"
    BY <1>5 DEF ReceiveStart, Receive
  <2>2. ~NoStart(line) /\ ~Polls(line) /\ Polls(line')
    BY <1>2, <1>3, <2>1 DEF NoStart, Polls, IsPoll
  <2>3. SessionInv'
    BY <1>1, <1>3, <2>2 DEF SessionInv
  <2>4. PollInv'
    BY <1>1, <1>3, <2>1, <2>2 DEF PollInv, Quiet
  <2> QED
    BY <2>3, <2>4
<1>6. CASE ReceivePoll
  <2>1. /\ IsPoll(Head(line)) /\ running' = running
        /\ reply' \in {"ready", "busy"} /\ (reply' = "ready" => running = NoProfile)
    BY <1>6 DEF ReceivePoll, Receive, IsPoll
  <2>2. ~NoPolls(line) /\ NoPolls(line') /\ polling
    BY <1>2, <1>3, <2>1 DEF NoPolls, PollInv
  <2>3. SessionInv'
    BY <1>1, <1>3, <2>1 DEF SessionInv
  <2>4. ~startedSince => starting = NoProfile /\ Polls(line')
    BY <1>3, <2>1, <2>2 DEF PollInv, SessionInv
  <2>5. PollInv'
    BY <1>1, <1>3, <2>1, <2>2, <2>4 DEF PollInv, Quiet
  <2> QED
    BY <2>3, <2>5
<1> QED
  BY <1>4, <1>5, <1>6

\* The end of a reflow and a restart of the core only stop it.
LEMMA TransferKept ==
  ASSUME TransferInv, Finish \/ CoreRestart \/ UNCHANGED vars
  PROVE  SessionInv' /\ PollInv'
<1>1. UNCHANGED <<display, line, reply, fresh, startedSince>>
  BY DEF Finish, CoreRestart, vars, display
<1>2. running' \in {running, NoProfile}
  BY DEF Finish, CoreRestart, vars
<1> QED
  BY <1>1, <1>2 DEF TransferInv, Base, SessionInv, PollInv, Quiet, display

\* Nothing is sent at first.
LEMMA TransferInit == Init => TransferInv
<1> SUFFICES ASSUME Init PROVE TransferInv
  OBVIOUS
<1>1. line \in Seq(Messages) /\ 0 \in Ids /\ Len(line) = 0
  BY EmptySeq, TransferAssumption DEF Init, Ids
<1>2. Polls(line) /\ NoPolls(line) /\ OnePoll(line) /\ StartLast(line)
  BY <1>1 DEF Polls, NoPolls, OnePoll, StartLast
<1> QED
  BY <1>1, <1>2 DEF Init, TransferInv, Base, SessionInv, PollInv

\* Every step keeps it, if the user waits for a fresh poll.
LEMMA TransferStep == ASSUME ~Hurried, TransferInv, [Next]_vars PROVE TransferInv'
<1>1. Base'
  BY BaseStep DEF TransferInv
<1>2. SessionInv' /\ PollInv'
  BY TransferStarts, TransferPolls, TransferReceives, TransferKept DEF Next
<1> QED
  BY <1>1, <1>2 DEF TransferInv

-----------------------------------------------------------------------------
(* The datapoints of a reflow.                                               *)

\* Nothing is received but polls while a reflow runs.
LEMMA KeptStep ==
  ASSUME TransferInv, NotOverwritten, [Next]_vars
  PROVE  NotOverwritten'
<1> USE DEF NotOverwritten, Loaded
<1>1. CASE ReceiveProfile
  <2>1. ~Polls(line)
    <3>1. line # <<>> /\ Head(line).type = "profile"
      BY <1>1 DEF ReceiveProfile, Receive
    <3>2. 1 \in 1 .. Len(line) /\ Head(line) = line[1]
      BY <3>1, TailLine DEF TransferInv, Base
    <3> QED
      BY <3>1, <3>2 DEF Polls, IsPoll
  <2>2. running' = NoProfile
    BY <1>1, <2>1 DEF ReceiveProfile, TransferInv, SessionInv
  <2> QED
    BY <2>2
<1>2. CASE ReceiveStart
  BY <1>2 DEF ReceiveStart
<1>3. CASE Finish \/ CoreRestart
  BY <1>3 DEF Finish, CoreRestart
<1>4. CASE StartProfile \/ StartReflow \/ Poll \/ PollAnswered \/ PollTimeout
           \/ DisplayRestart \/ Lose \/ ReceivePoll \/ UNCHANGED vars
  BY <1>4 DEF StartProfile, StartReflow, Poll, PollAnswered, PollTimeout, DisplayRestart,
     Lose, ReceivePoll, vars
<1> QED
  BY <1>1, <1>2, <1>3, <1>4 DEF Next

\* While a reflow runs, the datapoints it reads stay those it began with, if the user
\* waits for a poll made after the last start: whatever is lost, restarted or late.
THEOREM DatapointsKept ==
  ASSUME ~Hurried
  PROVE  Spec => []NotOverwritten
<1>1. Init => NotOverwritten
  BY DEF Init, NotOverwritten
<1>2. TransferInv /\ [Next]_vars => TransferInv'
  BY TransferStep
<1>3. TransferInv /\ NotOverwritten /\ [Next]_vars => NotOverwritten'
  BY KeptStep
<1> QED
  BY <1>1, <1>2, <1>3, TransferInit, PTL DEF Spec

-----------------------------------------------------------------------------
(* What the core holds, where every profile fits into a frame.               *)

Holding(p, id) ==
  [profileId |-> id, tempProfileId |-> id, totalDatapoints |-> Datapoints[p],
   availableDatapoints |-> Datapoints[p], datapoints |-> p]

\* nothing, or one whole profile
HoldInv == globalProfile = NoTransfer \/ \E p \in Filled, id \in Ids : globalProfile = Holding(p, id)

\* A whole profile replaces another, unless it has the same id.
LEMMA WholeReceived ==
  ASSUME HoldInv, NEW p \in Filled, NEW id \in Ids
  PROVE  ProfileReceived(globalProfile, WholeFrame(p, id)) =
           IF globalProfile.tempProfileId = id THEN globalProfile ELSE Holding(p, id)
<1> DEFINE g == globalProfile
           f == WholeFrame(p, id)
<1>1. Datapoints[p] \in Nat \ {0} /\ id \in Nat /\ id # NoId
  BY TransferAssumption DEF Filled, Ids, NoId
<1>2. /\ f.profileId = id /\ f.profile = p /\ f.totalEntries = Datapoints[p]
      /\ f.entriesOffset = 0 /\ f.numberEntries = Datapoints[p]
  BY DEF WholeFrame
<1>3. CASE g.tempProfileId # id
  <2>1. DOMAIN g = {"profileId", "tempProfileId", "totalDatapoints", "availableDatapoints", "datapoints"}
        /\ g = [x \in DOMAIN g |-> g[x]]
    BY DEF HoldInv, NoTransfer, Holding
  <2>2. Accepting(g, f) = [g EXCEPT !.tempProfileId = id, !.profileId = NoId,
                                    !.totalDatapoints = Datapoints[p], !.availableDatapoints = 0]
    BY <1>2, <1>3 DEF Accepting
  <2> DEFINE a == Accepting(g, f)
  <2>3. /\ a.tempProfileId = id /\ a.availableDatapoints = 0 /\ a.totalDatapoints = Datapoints[p]
        /\ DOMAIN a = DOMAIN g /\ a = [x \in DOMAIN a |-> a[x]]
    BY <2>1, <2>2
  <2> HIDE DEF a, f
  <2>4. ProfileReceived(g, f) = [a EXCEPT !.datapoints = p, !.availableDatapoints = Datapoints[p],
                                          !.profileId = id]
    <3>1. ProfileReceived(g, f) =
            [a EXCEPT !.datapoints = f.profile,
                      !.availableDatapoints = a.availableDatapoints + f.numberEntries,
                      !.profileId = IF a.availableDatapoints + f.numberEntries = a.totalDatapoints
                                    THEN a.tempProfileId ELSE a.profileId]
      BY <1>2, <2>3, Zenon DEF ProfileReceived, a
    <3>2. a.availableDatapoints + f.numberEntries = Datapoints[p]
      BY <1>1, <1>2, <2>3
    <3> QED
      BY <1>2, <2>3, <3>1, <3>2
  <2>5. ProfileReceived(g, f) = Holding(p, id)
    BY <2>1, <2>3, <2>4 DEF Holding
  <2> QED
    BY <1>3, <2>5 DEF f
<1>4. CASE g.tempProfileId = id
  <2>1. PICK q \in Filled : g = Holding(q, id)
    BY <1>1, <1>4 DEF HoldInv, NoTransfer, Holding
  <2>2. g.availableDatapoints # 0
    BY <2>1, TransferAssumption DEF Filled, Holding
  <2>3. Accepting(g, f) = g
    BY <1>2, <1>4 DEF Accepting
  <2> HIDE DEF f
  <2>4. ProfileReceived(g, f) = g
    BY <1>2, <2>2, <2>3 DEF ProfileReceived
  <2> QED
    BY <1>4, <2>4 DEF f
<1> QED
  BY <1>3, <1>4

\* A restart empties it, a frame that is received fills it.
LEMMA HoldStep == ASSUME OneFrameEach, Base, HoldInv, [Next]_vars PROVE HoldInv'
<1>1. CASE ReceiveProfile
  <2>1. /\ line # <<>> /\ Head(line).type = "profile"
        /\ globalProfile' = ProfileReceived(globalProfile, Head(line))
    BY <1>1 DEF ReceiveProfile, Receive
  <2>2. Head(line) \in ProfileFrames
    BY <2>1, TailLine, MessageTypes DEF Base
  <2>3. PICK p \in Filled, id \in Ids : Head(line) = WholeFrame(p, id)
    BY <2>2, WholeFrames
  <2>4. globalProfile' \in {globalProfile, Holding(p, id)}
    BY <2>1, <2>3, WholeReceived
  <2> QED
    BY <2>4 DEF HoldInv, Holding, NoTransfer
<1>2. CASE CoreRestart
  BY <1>2 DEF CoreRestart, HoldInv, NoTransfer
<1>3. CASE StartProfile \/ StartReflow \/ Poll \/ PollAnswered \/ PollTimeout
           \/ DisplayRestart \/ Lose \/ ReceiveStart \/ ReceivePoll \/ Finish
           \/ UNCHANGED vars
  <2>1. globalProfile' = globalProfile
    BY <1>3 DEF StartProfile, StartReflow, Poll, PollAnswered, PollTimeout, DisplayRestart,
       Lose, ReceiveStart, ReceivePoll, Finish, vars
  <2> QED
    BY <2>1 DEF HoldInv, Holding, NoTransfer
<1> QED
  BY <1>1, <1>2, <1>3 DEF Next

RunningType == running \in Profiles \cup {NoProfile}

\* What runs is a profile.
LEMMA RunningStep == ASSUME HoldInv, RunningType, [Next]_vars PROVE RunningType'
<1>1. globalProfile.datapoints \in Profiles \cup {NoProfile}
  BY DEF HoldInv, NoTransfer, Holding, Filled
<1>2. running' \in {running, NoProfile, globalProfile.datapoints}
  BY DEF Next, StartProfile, StartReflow, Poll, PollAnswered, PollTimeout, DisplayRestart,
     Lose, ReceiveProfile, ReceiveStart, ReceivePoll, Finish, CoreRestart, vars
<1> QED
  BY <1>1, <1>2 DEF RunningType

\* Every variable keeps to its values where every profile fits into a frame, also
\* when frames are lost and ids are used again: the ids wrap and no profile has more
\* datapoints than were announced.
THEOREM TransferTypeCorrect ==
  ASSUME OneFrameEach
  PROVE  Spec => []TypeOK
<1>1. Init => Base /\ HoldInv /\ RunningType
  BY TransferInit DEF TransferInv, Init, HoldInv, RunningType
<1>2. Base /\ HoldInv /\ RunningType /\ [Next]_vars => (Base /\ HoldInv /\ RunningType)'
  BY BaseStep, HoldStep, RunningStep
<1>3. Base /\ HoldInv /\ RunningType => TypeOK
  <2> SUFFICES ASSUME Base, HoldInv, RunningType PROVE TypeOK
    OBVIOUS
  <2>1. \A k \in DOMAIN line : line[k].type \in {"profile", "start", "poll"}
    BY MessageTypes, LenProperties, ElementOfSeq DEF Base
  <2>2. /\ globalProfile.profileId \in {NoId, globalProfile.tempProfileId}
        /\ globalProfile.tempProfileId \in Ids \cup {NoId}
        /\ globalProfile.availableDatapoints \in 0 .. globalProfile.totalDatapoints
    BY TransferAssumption DEF HoldInv, NoTransfer, Holding, Filled
  <2> QED
    BY <2>1, <2>2 DEF Base, RunningType, TypeOK
<1> QED
  BY <1>1, <1>2, <1>3, PTL DEF Spec

-----------------------------------------------------------------------------
(* The profile that is run.                                                  *)

Calm == losses = 0 /\ displayRestarts = 0

\* no profile is without datapoints
NoneEmpty == \A p \in Profiles : Datapoints[p] # 0

\* p is the profile of the start that is on its way or to be sent
Asked(p) ==
  \/ starting = p
  \/ \E i \in 1 .. Len(line) : line[i].type = "start" /\ line[i].profile = p

\* the ids go round behind the profile the core holds, and what is asked for is what
\* is on its way or held
SelectedInv ==
  /\ RunsSelected
  /\ OneProfile(line)
  /\ NoProfiles(line) /\ globalProfile.tempProfileId # NoId =>
       nextId = (globalProfile.tempProfileId + 1) % IdRange
  /\ \A i \in 1 .. Len(line) : line[i].type = "profile" =>
       /\ nextId = (line[i].profileId + 1) % IdRange
       /\ globalProfile.tempProfileId # line[i].profileId
  /\ \A p \in Profiles : Asked(p) =>
       /\ \A i \in 1 .. Len(line) : line[i].type = "profile" => line[i].profile = p
       /\ NoProfiles(line) /\ Loaded => globalProfile.datapoints = p

CalmInv ==
  /\ losses \in Nat /\ displayRestarts \in Nat
  /\ Calm => SelectedInv

\* Polls do not matter to it.
LEMMA SelectedPolls ==
  ASSUME SelectedInv, SameButPolls(line, line'),
         UNCHANGED <<nextId, starting, globalProfile, begun>>
  PROVE  SelectedInv'
<1>1. \A i \in 1 .. Len(line') : line'[i].type # "poll" =>
        \E j \in 1 .. Len(line) : line'[i] = line[j]
  BY DEF SameButPolls, IsPoll
<1>2. \A p : Asked(p)' => Asked(p)
  BY <1>1 DEF Asked
<1>3. (NoProfiles(line') => NoProfiles(line)) /\ OneProfile(line')
  BY DEF SameButPolls, SelectedInv
<1>4. \A i \in 1 .. Len(line') : line'[i].type = "profile" =>
        \E j \in 1 .. Len(line) : line'[i] = line[j] /\ line[j].type = "profile"
  BY <1>1
<1>5. RunsSelected' /\ (Loaded' <=> Loaded)
  BY DEF SelectedInv, RunsSelected, Loaded
<1> QED
  BY <1>2, <1>3, <1>4, <1>5 DEF SelectedInv

\* A start sends one profile under an id the core does not hold.
LEMMA SelectedStarts ==
  ASSUME ~Hurried, OneFrameEach, NoneEmpty, TransferInv, HoldInv, SelectedInv, StartProfile
  PROVE  SelectedInv'
<1>1. Polls(line) /\ starting = NoProfile
  BY DEF StartProfile, TransferInv, PollInv, Quiet
<1>2. PICK p \in Profiles : line' = line \o Frames(p, nextId) /\ starting' = p
  BY DEF StartProfile
<1>3. /\ nextId \in Ids /\ nextId' = (nextId + 1) % IdRange
      /\ globalProfile' = globalProfile /\ begun' = begun
  BY DEF StartProfile, NextId, TransferInv, Base
<1> DEFINE f == WholeFrame(p, nextId)
<1>4. f.type = "profile" /\ f.profileId = nextId /\ f.profile = p
  BY DEF WholeFrame
<1>5. /\ Len(line) \in Nat /\ Len(line') = Len(line) + 1
      /\ \A i \in 1 .. Len(line) : line'[i] = line[i]
      /\ line'[Len(line) + 1] = f
  <2>1. Frames(p, nextId) = [k \in 1 .. 1 |-> f]
    BY FramesOne DEF NoneEmpty, Filled
  <2> HIDE DEF f
  <2>2. Frames(p, nextId) \in Seq(ProfileFrames)
    BY <1>3, FramesMany
  <2>3. Len(Frames(p, nextId)) = 1 /\ Frames(p, nextId)[1] = f
    BY <2>1, <2>2, LenProperties
  <2>4. line \in Seq(Messages) /\ Frames(p, nextId) \in Seq(Messages)
    <3>1. Seq(ProfileFrames) \subseteq Seq(Messages)
      BY SeqDef DEF Messages
    <3> QED
      BY <2>2, <3>1 DEF TransferInv, Base
  <2>5. Len(line) \in Nat
    BY <2>4, LenProperties
  <2>6. /\ Len(line') = Len(line) + 1
        /\ \A i \in 1 .. Len(line) + 1 :
             line'[i] = IF i <= Len(line) THEN line[i] ELSE Frames(p, nextId)[i - Len(line)]
    <3> DEFINE fs == Frames(p, nextId)
    <3>1. line \in Seq(Messages) /\ fs \in Seq(Messages) /\ Len(fs) = 1 /\ line' = line \o fs
      BY <1>2, <2>3, <2>4
    <3> HIDE DEF fs
    <3>2. /\ Len(line \o fs) = Len(line) + Len(fs)
          /\ \A i \in 1 .. Len(line) + Len(fs) :
               (line \o fs)[i] = IF i <= Len(line) THEN line[i] ELSE fs[i - Len(line)]
      BY <3>1, ConcatProperties
    <3> QED
      BY <3>1, <3>2 DEF fs
  <2>7. Len(line) + 1 \in 1 .. Len(line) + 1 /\ ~(Len(line) + 1 <= Len(line))
        /\ (Len(line) + 1) - Len(line) = 1
    BY <2>5
  <2>8. \A i \in 1 .. Len(line) : i \in 1 .. Len(line) + 1 /\ i <= Len(line)
    BY <2>5
  <2> QED
    BY <2>3, <2>5, <2>6, <2>7, <2>8
<1> HIDE DEF f
<1>6. \A i \in 1 .. Len(line') : \/ i = Len(line) + 1 /\ line'[i] = f
                                 \/ i # Len(line) + 1 /\ IsPoll(line'[i])
  BY <1>1, <1>5 DEF Polls
<1>7. ~NoProfiles(line') /\ OneProfile(line')
  <2>1. Len(line) + 1 \in 1 .. Len(line')
    BY <1>5
  <2> QED
    BY <1>4, <1>5, <1>6, <2>1 DEF NoProfiles, OneProfile, IsPoll
<1>8. globalProfile.tempProfileId # nextId
  <2>1. NoProfiles(line)
    BY <1>1 DEF NoProfiles, Polls, IsPoll
  <2>2. CASE globalProfile.tempProfileId = NoId
    BY <1>3, <2>2 DEF Ids, NoId
  <2>3. CASE globalProfile.tempProfileId # NoId
    <3>1. globalProfile.tempProfileId \in Ids
      BY <2>3 DEF HoldInv, Holding, NoTransfer
    <3> QED
      BY <2>1, <2>3, <3>1, NextIdOther DEF SelectedInv
  <2> QED
    BY <2>2, <2>3
<1>9. \A q : Asked(q)' => q = p
  BY <1>2, <1>4, <1>6 DEF Asked, IsPoll
<1>10. RunsSelected'
  BY <1>3 DEF SelectedInv, RunsSelected
<1> QED
  BY <1>3, <1>4, <1>6, <1>7, <1>8, <1>9, <1>10 DEF SelectedInv, IsPoll

\* The start goes out for the profile that was sent.
LEMMA SelectedSends ==
  ASSUME TransferInv, SelectedInv, StartReflow
  PROVE  SelectedInv'
<1>1. /\ starting \in Profiles /\ starting' = NoProfile
      /\ nextId' = nextId /\ globalProfile' = globalProfile /\ begun' = begun
  BY DEF StartReflow, TransferInv, Base
<1>2. NoProfile \notin Profiles
  BY TransferAssumption
<1>3. RunsSelected' /\ (Loaded' <=> Loaded)
  BY <1>1 DEF SelectedInv, RunsSelected, Loaded
<1>4. CASE ~can_start
  <2>1. line' = line
    BY <1>4 DEF StartReflow
  <2>2. \A p \in Profiles : Asked(p)' => Asked(p)
    BY <1>1, <1>2, <2>1 DEF Asked
  <2> QED
    BY <1>1, <1>3, <2>1, <2>2 DEF SelectedInv
<1>5. CASE can_start
  <2> DEFINE f == [type |-> "start", profile |-> starting]
  <2>1. f \in Messages /\ f.type = "start" /\ f.profile = starting /\ line' = Append(line, f)
    BY <1>1, <1>5, SendMessages DEF StartReflow
  <2> HIDE DEF f
  <2>2. /\ Len(line) \in Nat /\ Len(line') = Len(line) + 1 /\ line'[Len(line) + 1] = f
        /\ \A i \in 1 .. Len(line) : line'[i] = line[i]
    BY <2>1, AppendLine DEF TransferInv, Base
  <2>3. \A i \in 1 .. Len(line') : \/ i \in 1 .. Len(line) /\ line'[i] = line[i]
                                   \/ line'[i] = f
    BY <2>2
  <2>4. \A i \in 1 .. Len(line') : line'[i].type = "profile" =>
          i \in 1 .. Len(line) /\ line'[i] = line[i]
    BY <2>1, <2>3
  <2>5. OneProfile(line') /\ (NoProfiles(line') => NoProfiles(line))
    <3>1. \A i \in 1 .. Len(line) : i \in 1 .. Len(line') /\ line'[i] = line[i]
      BY <2>2
    <3> QED
      BY <2>4, <3>1 DEF OneProfile, NoProfiles, SelectedInv
  <2>6. \A p \in Profiles : Asked(p)' => Asked(p)
    BY <1>1, <1>2, <2>1, <2>3 DEF Asked
  <2> QED
    BY <1>1, <1>3, <2>4, <2>5, <2>6 DEF SelectedInv
<1> QED
  BY <1>4, <1>5

\* The core takes the profile it is sent, and starts the one it was asked for.
LEMMA SelectedReceives ==
  ASSUME OneFrameEach, TransferInv, HoldInv, SelectedInv, ReceiveProfile \/ ReceiveStart
  PROVE  SelectedInv'
<1>1. /\ line # <<>> /\ line' = Tail(line)
      /\ nextId' = nextId /\ starting' = starting
  BY DEF ReceiveProfile, ReceiveStart, Receive, display
<1>2. /\ Head(line) \in Messages /\ Head(line) = line[1] /\ 1 \in 1 .. Len(line)
      /\ \A i \in 1 .. Len(line') : line'[i] = line[i + 1] /\ i + 1 \in 1 .. Len(line)
  BY <1>1, TailLine DEF TransferInv, Base
<1>3. \A p : Asked(p)' => Asked(p)
  BY <1>1, <1>2 DEF Asked
<1>4. CASE ReceiveProfile
  <2>1. /\ Head(line).type = "profile" /\ begun' = begun
        /\ globalProfile' = ProfileReceived(globalProfile, Head(line))
    BY <1>4 DEF ReceiveProfile, Receive
  <2>2. PICK p \in Filled, id \in Ids : Head(line) = WholeFrame(p, id)
    BY <1>2, <2>1, MessageTypes, WholeFrames
  <2>3. Head(line).profileId = id /\ Head(line).profile = p
    BY <2>2 DEF WholeFrame
  <2>4. globalProfile' = Holding(p, id)
    <3>1. globalProfile.tempProfileId # id
      BY <1>2, <2>1, <2>3 DEF SelectedInv
    <3> QED
      BY <2>1, <2>2, <3>1, WholeReceived
  <2>5. NoProfiles(line') /\ OneProfile(line')
    BY <1>1, <2>1, TailOrder DEF TransferInv, Base, SelectedInv, NoProfiles, OneProfile
  <2>6. nextId' = (globalProfile'.tempProfileId + 1) % IdRange
    BY <1>1, <1>2, <2>1, <2>3, <2>4 DEF SelectedInv, Holding
  <2>7. \A q \in Profiles : Asked(q)' => globalProfile'.datapoints = q
    BY <1>2, <1>3, <2>1, <2>3, <2>4 DEF SelectedInv, Holding
  <2>8. RunsSelected'
    BY <2>1 DEF SelectedInv, RunsSelected
  <2> QED
    BY <2>5, <2>6, <2>7, <2>8 DEF SelectedInv, NoProfiles
<1>5. CASE ReceiveStart
  <2>1. Head(line).type = "start" /\ globalProfile' = globalProfile
    BY <1>5 DEF ReceiveStart, Receive
  <2>2. Polls(line')
    BY <1>1, <2>1, TailOrder DEF TransferInv, Base, SessionInv
  <2>3. NoProfiles(line') /\ OneProfile(line')
    BY <2>2 DEF Polls, NoProfiles, OneProfile, IsPoll
  <2>4. NoProfiles(line)
    <3>1. \A i \in 1 .. Len(line) : 1 < i => IsPoll(line[i])
      BY <1>2, <2>1 DEF TransferInv, SessionInv, StartLast
    <3>2. \A i \in 1 .. Len(line) : i = 1 \/ 1 < i
      OBVIOUS
    <3> QED
      BY <1>2, <2>1, <3>1, <3>2 DEF NoProfiles, IsPoll
  <2>5. Loaded => globalProfile.datapoints = Head(line).profile
    <3>1. Head(line).profile \in Profiles /\ Asked(Head(line).profile)
      BY <1>2, <2>1, MessageTypes DEF Asked
    <3> QED
      BY <2>4, <3>1 DEF SelectedInv
  <2>6. RunsSelected'
    <3>1. CASE begun' = begun
      BY <3>1 DEF SelectedInv, RunsSelected
    <3>2. CASE Loaded /\ begun' = [asked |-> Head(line).profile,
                                    ran |-> globalProfile.datapoints]
      BY <2>5, <3>2 DEF RunsSelected
    <3> QED
      BY <1>5, <3>1, <3>2 DEF ReceiveStart
  <2>7. Loaded' <=> Loaded
    BY <2>1 DEF Loaded
  <2> QED
    BY <1>1, <1>3, <2>1, <2>3, <2>4, <2>6, <2>7 DEF SelectedInv, NoProfiles
<1> QED
  BY <1>4, <1>5

\* Every step keeps it as long as nothing is lost and the display keeps its ids.
LEMMA SelectedStep ==
  ASSUME ~Hurried, OneFrameEach, NoneEmpty, TransferInv, HoldInv, CalmInv, [Next]_vars
  PROVE  CalmInv'
<1>1. CASE DisplayRestart \/ Lose
  <2>1. losses' \in Nat /\ displayRestarts' \in Nat /\ ~Calm'
    BY <1>1 DEF DisplayRestart, Lose, CalmInv, Calm
  <2> QED
    BY <2>1 DEF CalmInv
<1>2. CASE ~(DisplayRestart \/ Lose)
  <2>1. losses' = losses /\ displayRestarts' = displayRestarts
    BY <1>2 DEF Next, StartProfile, StartReflow, Poll, PollAnswered, PollTimeout,
       ReceiveProfile, ReceiveStart, ReceivePoll, Finish, CoreRestart, counts, vars
  <2> SUFFICES ASSUME SelectedInv PROVE SelectedInv'
    BY <2>1 DEF CalmInv, Calm
  <2>2. CASE Poll
    <3> DEFINE f == [type |-> "poll"]
    <3>1. f \in Messages /\ IsPoll(f) /\ line' = Append(line, f)
      BY <2>2, SendMessages DEF Poll, IsPoll
    <3> HIDE DEF f
    <3>2. NoPolls(line) /\ UNCHANGED <<nextId, starting, globalProfile, begun>>
      BY <2>2 DEF Poll, TransferInv, PollInv
    <3> QED
      BY <3>1, <3>2, AppendPoll, SelectedPolls DEF TransferInv, Base
  <2>3. CASE ReceivePoll
    <3>1. /\ line # <<>> /\ IsPoll(Head(line)) /\ line' = Tail(line)
          /\ UNCHANGED <<nextId, starting, globalProfile, begun>>
      BY <2>3 DEF ReceivePoll, Receive, IsPoll, display
    <3> QED
      BY <3>1, TailOrder, SelectedPolls DEF TransferInv, Base
  <2>4. CASE PollTimeout /\ line' # line
    <3>1. PICK k \in 1 .. Len(line) : IsPoll(line[k]) /\ line' = Without(line, k)
      BY <2>4, LenProperties DEF PollTimeout, TransferInv, Base
    <3>2. UNCHANGED <<nextId, starting, globalProfile, begun>>
      BY <2>4 DEF PollTimeout
    <3> QED
      BY <3>1, <3>2, WithoutLine, SelectedPolls DEF TransferInv, Base
  <2>5. CASE PollAnswered \/ (PollTimeout /\ line' = line) \/ Finish \/ UNCHANGED vars
    <3>1. UNCHANGED <<line, nextId, starting, globalProfile, begun>>
      BY <2>5 DEF PollAnswered, PollTimeout, Finish, vars, display
    <3> QED
      BY <3>1 DEF SelectedInv, RunsSelected, Asked, Loaded
  <2>6. CASE CoreRestart
    <3>1. /\ UNCHANGED <<line, nextId, starting, begun>> /\ globalProfile' = NoTransfer
      BY <2>6 DEF CoreRestart, display
    <3>2. ~Loaded' /\ globalProfile'.tempProfileId = NoId
      BY <3>1 DEF Loaded, NoTransfer, NoId
    <3>3. \A i \in 1 .. Len(line) : line[i].type = "profile" => line[i].profileId # NoId
      <4>1. ASSUME NEW i \in 1 .. Len(line), line[i].type = "profile"
            PROVE  line[i].profileId # NoId
        <5>1. line[i] \in ProfileFrames
          BY <4>1, MessageTypes, ElementOfSeq DEF TransferInv, Base
        <5> QED
          BY <5>1, WholeFrames DEF WholeFrame, Ids, NoId
      <4> QED
        BY <4>1
    <3>4. \A p : Asked(p)' => Asked(p)
      BY <3>1 DEF Asked
    <3> QED
      BY <3>1, <3>2, <3>3, <3>4 DEF SelectedInv, RunsSelected
  <2> QED
    BY <1>2, <2>2, <2>3, <2>4, <2>5, <2>6, SelectedStarts, SelectedSends, SelectedReceives
       DEF Next
<1> QED
  BY <1>1, <1>2

\* What is run is what was selected, whatever restarts the core and however the ids
\* wrap, over a line that loses nothing, with a display that keeps running, profiles
\* that have datapoints and fit into a frame, and a user who waits for a poll made
\* after the last start.
THEOREM SelectionKept ==
  ASSUME ~Hurried, OneFrameEach, NoneEmpty
  PROVE  Spec => []SelectedUndisturbed
<1>1. Init => HoldInv /\ CalmInv
  <2> SUFFICES ASSUME Init PROVE HoldInv /\ CalmInv
    OBVIOUS
  <2>1. line = <<>> /\ Len(line) = 0 /\ globalProfile = NoTransfer
    BY EmptySeq DEF Init
  <2>2. OneProfile(line) /\ RunsSelected /\ globalProfile.tempProfileId = NoId
    BY <2>1 DEF OneProfile, RunsSelected, Init, NoTransfer
  <2>3. \A p \in Profiles : ~Asked(p)
    BY <2>1, TransferAssumption DEF Asked, Init
  <2> QED
    BY <2>1, <2>2, <2>3 DEF HoldInv, CalmInv, SelectedInv, Init
<1>2. TransferInv /\ [Next]_vars => TransferInv'
  BY TransferStep
<1>3. TransferInv /\ HoldInv /\ [Next]_vars => HoldInv'
  BY HoldStep DEF TransferInv
<1>4. TransferInv /\ HoldInv /\ CalmInv /\ [Next]_vars => CalmInv'
  BY SelectedStep
<1>5. CalmInv => SelectedUndisturbed
  BY DEF CalmInv, Calm, SelectedInv, SelectedUndisturbed
<1> QED
  BY <1>1, <1>2, <1>3, <1>4, <1>5, TransferInit, PTL DEF Spec
=============================================================================
