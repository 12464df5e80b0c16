-------------------------------- MODULE Systime --------------------------------
(***************************************************************************)
(* The system time (core-fw/Modules/system/systime.c): the tick interrupt  *)
(* counts milliseconds, seconds, ... and sets a flag for each that is      *)
(* full; the worker of the main loop turns flags into synchronous events,  *)
(* of which the seconds drive the reflow sequence and the heater watchdog. *)
(*                                                                         *)
(* Level 1 is the millisecond, level 2 the second, and so on.  The tick is *)
(* one step; the worker is interrupted between any two accesses to a flag, *)
(* and while an event runs.                                                *)
(***************************************************************************)
EXTENDS Integers

CONSTANTS
  Depth,     \* how many levels there are: 5, up to the day
  Radix,     \* what a level counts up to: 1000, 60, 60, 24
  MaxDays,   \* the last level counts up to here and stays there: 0xFFFF
  MaxMillis, \* bound on the ticks
  SlowLoop   \* BOOLEAN: an event may fire before the last one was cleared

Levels == 1 .. Depth

ASSUME SystimeAssumption ==
  /\ Depth \in Nat \ {0}
  /\ Radix \in [1 .. Depth - 1 -> Nat \ {0}]
  /\ MaxDays \in Nat /\ MaxMillis \in Nat
  /\ SlowLoop \in BOOLEAN

VARIABLES
  systime_tp, sync_flag, \* as in systime.c, by level
  pc, level, uncleared,  \* where systime_worker is
  fired, synced,         \* how many events of each level there were
  hit                    \* a tick came inside the worker, or before the last
                         \* event of a level was cleared

vars == <<systime_tp, sync_flag, pc, level, uncleared, fired, synced, hit>>
worker == <<pc, level, uncleared>>

\* the levels a tick counts: those above which every level is full
Counted == {l \in Levels : \A k \in 1 .. l - 1 : systime_tp[k] = Radix[k] - 1}

\* mutant: a level is full one too late
AdvancedLate(l) ==
  IF l = Depth
  THEN IF systime_tp[l] < MaxDays THEN systime_tp[l] + 1 ELSE systime_tp[l]
  ELSE (systime_tp[l] + 1) % (Radix[l] + 1)

\* a level wraps when it is full, the last one stays at its end
Advanced(l) ==
  IF l = Depth
  THEN IF systime_tp[l] < MaxDays THEN systime_tp[l] + 1 ELSE systime_tp[l]
  ELSE (systime_tp[l] + 1) % Radix[l]

One(S) == [l \in Levels |-> IF l \in S THEN 1 ELSE 0]
Plus(f, g) == [l \in Levels |-> f[l] + g[l]]

\* systime_slicer, from SysTick_Handler
Slicer ==
  LET overrun == \E l \in Counted \ {1} : sync_flag[l]
  IN  /\ fired[1] < MaxMillis
      /\ overrun => SlowLoop
      /\ systime_tp' = [l \in Levels |->
                         IF l \in Counted THEN Advanced(l) ELSE systime_tp[l]]
      /\ sync_flag' = [l \in Levels |-> sync_flag[l] \/ l \in Counted]
      /\ fired' = Plus(fired, One(Counted))
      /\ hit' = (hit \/ overrun \/ pc # "idle")
      /\ UNCHANGED <<worker, synced>>

\* systime_worker: a millisecond has passed
Enter ==
  /\ pc = "idle" /\ sync_flag[1]
  /\ pc' = "read" /\ level' = 1
  /\ UNCHANGED <<systime_tp, sync_flag, uncleared, fired, synced, hit>>

\* mutant: the worker does not look whether the next level was reached
ReadUnchecked ==
  /\ pc = "read"
  /\ IF level < Depth
     THEN level' = level + 1 /\ UNCHANGED pc
     ELSE pc' = "sync" /\ UNCHANGED level
  /\ UNCHANGED <<systime_tp, sync_flag, uncleared, fired, synced, hit>>

\* it looks at one flag after the other, down to the first that is not set
Read ==
  /\ pc = "read"
  /\ IF level < Depth /\ sync_flag[level + 1]
     THEN level' = level + 1 /\ UNCHANGED pc
     ELSE pc' = "sync" /\ UNCHANGED level
  /\ UNCHANGED <<systime_tp, sync_flag, uncleared, fired, synced, hit>>

\* the events, the longest period first
Sync ==
  /\ pc = "sync"
  /\ synced' = Plus(synced, One({level}))
  /\ level' = level - 1
  /\ IF level = 1
     THEN pc' = "clear" /\ uncleared' = Levels
     ELSE UNCHANGED <<pc, uncleared>>
  /\ UNCHANGED <<systime_tp, sync_flag, fired, hit>>

\* mutant: only the flag of the millisecond is reset
ClearMillis ==
  /\ pc = "clear"
  /\ sync_flag' = [sync_flag EXCEPT ![1] = FALSE]
  /\ uncleared' = {}
  /\ pc' = "idle"
  /\ UNCHANGED <<systime_tp, level, fired, synced, hit>>

\* "reset all sync flags": a struct of bytes, cleared in the order and in the
\* pieces the build stores it
Clear ==
  /\ pc = "clear"
  /\ \E S \in SUBSET uncleared \ {{}} :
       /\ sync_flag' = [l \in Levels |-> sync_flag[l] /\ l \notin S]
       /\ uncleared' = uncleared \ S
       /\ pc' = IF uncleared = S THEN "idle" ELSE pc
  /\ UNCHANGED <<systime_tp, level, fired, synced, hit>>

-----------------------------------------------------------------------------
Init ==
  /\ systime_tp = One({}) /\ sync_flag = [l \in Levels |-> FALSE]
  /\ pc = "idle" /\ level = 0 /\ uncleared = {}
  /\ fired = One({}) /\ synced = One({})
  /\ hit = FALSE

Next == Slicer \/ Enter \/ Read \/ Sync \/ Clear

Spec == Init /\ [][Next]_vars

-----------------------------------------------------------------------------
(* Properties.                                                             *)

\* Every variable has a value of its kind.
TypeOK ==
  /\ systime_tp \in [Levels -> Nat]
  /\ \A l \in Levels :
       IF l = Depth THEN systime_tp[l] <= MaxDays ELSE systime_tp[l] < Radix[l]
  /\ sync_flag \in [Levels -> BOOLEAN]
  /\ pc \in {"idle", "read", "sync", "clear"}
  /\ level \in 0 .. Depth /\ uncleared \subseteq Levels
  /\ fired \in [Levels -> Nat] /\ synced \in [Levels -> Nat]
  /\ hit \in BOOLEAN

\* No event of a level is delivered twice, whatever interrupts the worker.
NeverTwice == \A l \in Levels : synced[l] <= fired[l]

Pending(l) == IF sync_flag[l] THEN 1 ELSE 0

\* Every event above the millisecond is delivered or waits in its flag, unless
\* a tick met the worker at work or an event came before the last was cleared.
KeptUndisturbed ==
  pc = "idle" /\ ~hit =>
    \A l \in Levels \ {1} : fired[l] = synced[l] + Pending(l)

\* "translate asynchronous systime events into synchronous events": each event
\* above the millisecond is delivered or waits in its flag, the loop being
\* faster than they come (systime_worker).
Kept == pc = "idle" => \A l \in Levels \ {1} : fired[l] = synced[l] + Pending(l)
=============================================================================
