---------------------------- MODULE ProfileTransfer ----------------------------
(***************************************************************************)
(* How a reflow profile gets from the display to the core and is run:      *)
(* CoreCom_StartProfile and CoreCom_StartReflow of the display             *)
(* (display-fw/Modules/core_com/src/core-communication.cpp), the frames on *)
(* the serial line, and app_profile_frame_received and State_SetReflow of  *)
(* the core (core-fw/Modules/com_stack/profile_com.c, control/state.c).    *)
(*                                                                         *)
(* The line keeps frames in order; a frame whose check sum fails is        *)
(* dropped, and nobody acknowledges a profile or a start.  The display     *)
(* learns by polling whether the core would start.  Each side can restart. *)
(*                                                                         *)
(* A profile may have no datapoints: ProfileParser.cpp (display-fw) skips  *)
(* each line it cannot read and calls what is left valid.  No frame is     *)
(* sent for it, but its start is.                                          *)
(***************************************************************************)
EXTENDS Integers, Sequences

CONSTANTS
  Profiles,     \* that can be selected on the display
  NoProfile,    \* none of them
  Datapoints,   \* how many each has
  FrameEntries, \* 60: the entries of ProfileTransmissionPacket
  IdRange,      \* 128: an int8_t that is reset when it gets negative
  Hurried,      \* BOOLEAN: the user may start again before a poll made after
                \* the last start has been answered
  MaxStarts, MaxLosses, MaxDisplayRestarts, MaxCoreRestarts \* bounds

ASSUME TransferAssumption ==
  /\ NoProfile \notin Profiles
  /\ Datapoints \in [Profiles -> Nat]
  /\ FrameEntries \in Nat \ {0} /\ IdRange \in Nat \ {0, 1}
  /\ Hurried \in BOOLEAN
  /\ {MaxStarts, MaxLosses, MaxDisplayRestarts, MaxCoreRestarts} \subseteq Nat

VARIABLES
  \* display
  nextId,        \* the static profileId of CoreCom_StartProfile
  starting,      \* the profile CoreCom_StartProfile has sent, or NoProfile
  can_start,     \* core_state.can_start_reflow, as last polled
  polling,       \* a poll is under way
  \* line
  line,          \* the frames on their way to the core
  reply,         \* the answer to the poll
  \* core
  globalProfile, \* profileId, tempProfileId, totalDatapoints,
                 \* availableDatapoints and whose datapoints it holds
  running,       \* the profile the reflow began with, or NoProfile
  \* history
  fresh,         \* no start was sent after the poll that was answered last
  startedSince,  \* a start was sent after the poll that is under way
  begun,         \* what was asked for and what was run, at the last start
  starts, losses, displayRestarts, coreRestarts

display == <<nextId, starting, can_start, polling>>
counts == <<starts, losses, displayRestarts, coreRestarts>>
vars == <<display, line, reply, globalProfile, running, fresh, startedSince,
          begun, counts>>

Ids == 0 .. IdRange - 1
NoId == -1

-----------------------------------------------------------------------------
(* The display.                                                            *)

\* the offsets of the frames: for (i = 0; i < numberOfDatapoints; i += 60)
Offsets(n) == [k \in 1 .. (n + FrameEntries - 1) \div FrameEntries |->
                 (k - 1) * FrameEntries]

\* the frames of a profile: a frame takes all entries from its offset on
Frames(p, id) ==
  [k \in DOMAIN Offsets(Datapoints[p]) |->
     [type |-> "profile", profileId |-> id, profile |-> p,
      totalEntries |-> Datapoints[p],
      entriesOffset |-> Offsets(Datapoints[p])[k],
      numberEntries |-> Datapoints[p] - Offsets(Datapoints[p])[k]]]

\* mutant: every profile is sent under the same id
NextIdKept == nextId

\* mutant: the id is not kept from becoming negative
NextIdUnwrapped == nextId + 1

NextId == (nextId + 1) % IdRange

\* start_reflow_btn_onClick and CoreCom_StartProfile: the frames are queued
StartProfile ==
  /\ starting = NoProfile
  /\ can_start /\ (Hurried \/ fresh)
  /\ starts < MaxStarts
  /\ \E p \in Profiles :
       /\ line' = line \o Frames(p, nextId)
       /\ starting' = p
  /\ nextId' = NextId
  /\ starts' = starts + 1
  /\ fresh' = FALSE /\ startedSince' = TRUE
  /\ UNCHANGED <<can_start, polling, reply, globalProfile, running, begun,
                 losses, displayRestarts, coreRestarts>>

\* CoreCom_StartReflow, if the last poll still allows it
StartReflow ==
  /\ starting # NoProfile
  /\ line' = IF can_start
             THEN Append(line, [type |-> "start", profile |-> starting])
             ELSE line
  /\ starting' = NoProfile
  /\ UNCHANGED <<nextId, can_start, polling, reply, globalProfile, running,
                 fresh, startedSince, begun, counts>>

\* CoreCom_UpdateState, of a task of its own: the request ...
Poll ==
  /\ ~polling
  /\ polling' = TRUE
  /\ line' = Append(line, [type |-> "poll"])
  /\ startedSince' = (starting # NoProfile)
  /\ UNCHANGED <<nextId, starting, can_start, reply, globalProfile, running,
                 fresh, begun, counts>>

\* ... its answer ...
PollAnswered ==
  /\ reply # "none"
  /\ can_start' = (reply = "ready")
  /\ reply' = "none" /\ polling' = FALSE
  /\ fresh' = ~startedSince
  /\ UNCHANGED <<nextId, starting, line, globalProfile, running, startedSince,
                 begun, counts>>

IsPoll(m) == m.type = "poll"
Without(l, k) == [i \in 1 .. Len(l) - 1 |-> l[IF i < k THEN i ELSE i + 1]]

\* ... or nothing within the timeout; a late answer is dropped by its id
PollTimeout ==
  /\ polling
  /\ polling' = FALSE /\ reply' = "none"
  /\ \/ \E k \in DOMAIN line : IsPoll(line[k]) /\ line' = Without(line, k)
     \/ /\ \A k \in DOMAIN line : ~IsPoll(line[k])
        /\ UNCHANGED line
  /\ UNCHANGED <<nextId, starting, can_start, globalProfile, running, fresh,
                 startedSince, begun, counts>>

DisplayRestart ==
  /\ displayRestarts < MaxDisplayRestarts
  /\ displayRestarts' = displayRestarts + 1
  /\ nextId' = 0 /\ starting' = NoProfile /\ can_start' = FALSE
  /\ polling' = FALSE /\ reply' = "none" /\ line' = <<>>
  /\ fresh' = FALSE /\ startedSince' = FALSE
  /\ UNCHANGED <<globalProfile, running, begun, starts, losses, coreRestarts>>

-----------------------------------------------------------------------------
(* The line.                                                               *)

Lose ==
  /\ losses < MaxLosses
  /\ losses' = losses + 1
  /\ line # <<>> /\ ~IsPoll(Head(line))
  /\ line' = Tail(line)
  /\ UNCHANGED <<display, reply, globalProfile, running, fresh, startedSince,
                 begun, starts, displayRestarts, coreRestarts>>

Receive(type) ==
  /\ line # <<>> /\ Head(line).type = type
  /\ line' = Tail(line)

-----------------------------------------------------------------------------
(* The core.                                                               *)

NoTransfer == [profileId |-> NoId, tempProfileId |-> NoId,
               totalDatapoints |-> 0, availableDatapoints |-> 0,
               datapoints |-> NoProfile]

\* a frame of a new profile drops the one that was there
Accepting(g, f) ==
  IF f.profileId # g.tempProfileId /\ f.entriesOffset = 0
  THEN [g EXCEPT !.tempProfileId = f.profileId, !.profileId = NoId,
                 !.totalDatapoints = f.totalEntries, !.availableDatapoints = 0]
  ELSE g

\* app_profile_frame_received
ProfileReceived(g, f) ==
  LET a == Accepting(g, f)
      n == a.availableDatapoints + f.numberEntries
  IN  IF f.profileId # a.tempProfileId \/ f.entriesOffset # a.availableDatapoints
      THEN a
      ELSE [a EXCEPT !.datapoints = f.profile, !.availableDatapoints = n,
                     !.profileId = IF n = a.totalDatapoints
                                   THEN a.tempProfileId ELSE a.profileId]

ReceiveProfile ==
  /\ Receive("profile")
  /\ globalProfile' = ProfileReceived(globalProfile, Head(line))
  /\ UNCHANGED <<display, reply, running, fresh, startedSince, begun, counts>>

Loaded == globalProfile.profileId >= 0

\* State_SetReflow(true): the core may refuse for its own reasons
ReceiveStart ==
  /\ Receive("start")
  /\ \/ UNCHANGED <<running, begun>>
     \/ /\ running = NoProfile /\ Loaded
        /\ running' = globalProfile.datapoints
        /\ begun' = [asked |-> Head(line).profile, ran |-> globalProfile.datapoints]
  /\ UNCHANGED <<display, reply, globalProfile, fresh, startedSince, counts>>

\* mutant: a reflow that runs does not keep the core from being ready
ReceivePollAlwaysReady ==
  /\ Receive("poll")
  /\ reply' \in {"ready", "busy"}
  /\ UNCHANGED <<display, globalProfile, running, fresh, startedSince, begun,
                 counts>>

ReceivePoll ==
  /\ Receive("poll")
  /\ reply' \in IF running = NoProfile THEN {"ready", "busy"} ELSE {"busy"}
  /\ UNCHANGED <<display, globalProfile, running, fresh, startedSince, begun,
                 counts>>

\* the reflow ends, or is aborted
Finish ==
  /\ running # NoProfile
  /\ running' = NoProfile
  /\ UNCHANGED <<display, line, reply, globalProfile, fresh, startedSince, begun,
                 counts>>

\* profile_com_init
CoreRestart ==
  /\ coreRestarts < MaxCoreRestarts
  /\ coreRestarts' = coreRestarts + 1
  /\ globalProfile' = NoTransfer
  /\ running' = NoProfile
  /\ UNCHANGED <<display, line, reply, fresh, startedSince, begun,
                 starts, losses, displayRestarts>>

-----------------------------------------------------------------------------
Init ==
  /\ nextId = 0 /\ starting = NoProfile /\ can_start = FALSE /\ polling = FALSE
  /\ line = <<>> /\ reply = "none"
  /\ globalProfile = NoTransfer /\ running = NoProfile
  /\ fresh = FALSE /\ startedSince = FALSE
  /\ begun = [asked |-> NoProfile, ran |-> NoProfile]
  /\ starts = 0 /\ losses = 0 /\ displayRestarts = 0 /\ coreRestarts = 0

Next ==
  \/ StartProfile \/ StartReflow \/ Poll \/ PollAnswered \/ PollTimeout
  \/ DisplayRestart \/ Lose
  \/ ReceiveProfile \/ ReceiveStart \/ ReceivePoll \/ Finish \/ CoreRestart

Spec == Init /\ [][Next]_vars

-----------------------------------------------------------------------------
(* Properties.                                                             *)

\* Every variable has a value of its kind.
TypeOK ==
  /\ nextId \in Ids /\ starting \in Profiles \cup {NoProfile}
  /\ can_start \in BOOLEAN /\ polling \in BOOLEAN
  /\ \A k \in DOMAIN line : line[k].type \in {"profile", "start", "poll"}
  /\ reply \in {"none", "ready", "busy"}
  /\ globalProfile.profileId \in {NoId, globalProfile.tempProfileId}
  /\ globalProfile.tempProfileId \in Ids \cup {NoId}
  /\ globalProfile.availableDatapoints \in 0 .. globalProfile.totalDatapoints
  /\ running \in Profiles \cup {NoProfile}
  /\ fresh \in BOOLEAN /\ startedSince \in BOOLEAN

\* The core runs the profile that was selected when the start was asked for
\* (CoreCom_StartProfile, State_SetReflow).  State_SetReflow refuses a start
\* with "error starting profile, not loaded!" when it is not there.
RunsSelected == begun.asked = begun.ran

\* Over a line that loses nothing, and with a display that keeps its ids, the
\* core runs what was selected, also when it restarts between a profile and its
\* start or when ids wrap. It does so where every profile has datapoints; after
\* the start of one that has none RunsSelected fails on its own.
SelectedUndisturbed == losses = 0 /\ displayRestarts = 0 => RunsSelected

\* The datapoints a reflow is run from stay those it began with, although
\* app_profile_frame_received writes where the sequence reads.
NotOverwritten ==
  running # NoProfile => globalProfile.datapoints = running /\ Loaded

\* A frame has no more entries than the packet has room for
\* ("int16_t times[60]", filled by CoreCom_StartProfile).
FitsFrame ==
  \A k \in DOMAIN line :
    line[k].type = "profile" => line[k].numberEntries <= FrameEntries
=============================================================================
