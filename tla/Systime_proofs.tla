---------------------------- MODULE Systime_proofs ----------------------------
(* What tlapm checks of Systime: the worker never delivers an event twice. *)
EXTENDS Systime, TLAPS

\* an event of level l has fired that was not delivered
Owed(l) == synced[l] < fired[l]

\* A set flag stands for an event that is still owed - except, once the worker
\* has begun to deliver, for the levels it is delivering or has yet to reset.
OnceInv ==
  /\ NeverTwice
  /\ pc \in {"idle", "read"} => \A l \in Levels : sync_flag[l] => Owed(l)
  /\ pc = "read" => level >= 1 /\ \A l \in 1 .. level : sync_flag[l]
  /\ pc = "sync" => level >= 1 /\ \A l \in 1 .. level : Owed(l)
  /\ pc = "clear" => \A l \in Levels \ uncleared : sync_flag[l] => Owed(l)

IInv == TypeOK /\ OnceInv

-----------------------------------------------------------------------------
LEMMA CountedLevels == Counted \subseteq Levels
  BY DEF Counted

\* adding one event to each level of a set
LEMMA PlusOne ==
  ASSUME NEW f \in [Levels -> Nat], NEW S \in SUBSET Levels
  PROVE  /\ Plus(f, One(S)) \in [Levels -> Nat]
         /\ \A l \in Levels :
              Plus(f, One(S))[l] = IF l \in S THEN f[l] + 1 ELSE f[l]
  BY DEF Plus, One

\* a level that is advanced stays in its range
LEMMA AdvancedInRange ==
  ASSUME TypeOK, NEW l \in Levels
  PROVE  /\ Advanced(l) \in Nat
         /\ IF l = Depth THEN Advanced(l) <= MaxDays ELSE Advanced(l) < Radix[l]
<1>1. CASE l = Depth
  BY <1>1, SystimeAssumption DEF TypeOK, Advanced, Levels
<1>2. CASE l # Depth
  <2>1. l \in 1 .. Depth - 1
    BY <1>2, SystimeAssumption DEF Levels
  <2>2. Radix[l] \in Nat \ {0}
    BY <2>1, SystimeAssumption
  <2>3. systime_tp[l] \in Nat
    BY DEF TypeOK
  <2> QED  BY <1>2, <2>2, <2>3 DEF Advanced
<1> QED  BY <1>1, <1>2

-----------------------------------------------------------------------------
LEMMA InitIInv == Init => IInv
<1> SUFFICES ASSUME Init PROVE IInv
  OBVIOUS
<1>1. One({}) = [l \in Levels |-> 0]
  BY DEF One
<1>2. \A l \in Levels : l # Depth => Radix[l] \in Nat \ {0}
  BY SystimeAssumption DEF Levels
<1>3. TypeOK
  <2>1. \A l \in Levels :
          IF l = Depth THEN systime_tp[l] <= MaxDays ELSE systime_tp[l] < Radix[l]
    BY <1>1, <1>2, SystimeAssumption DEF Init
  <2>2. /\ systime_tp \in [Levels -> Nat] /\ fired \in [Levels -> Nat]
        /\ synced \in [Levels -> Nat] /\ sync_flag \in [Levels -> BOOLEAN]
    BY <1>1 DEF Init
  <2>3. level \in 0 .. Depth
    BY SystimeAssumption DEF Init
  <2> QED  BY <2>1, <2>2, <2>3 DEF Init, TypeOK
<1>4. OnceInv
  BY <1>1 DEF Init, OnceInv, NeverTwice
<1> QED  BY <1>3, <1>4 DEF IInv

LEMMA SlicerIInv == IInv /\ Slicer => IInv'
<1> SUFFICES ASSUME IInv, Slicer PROVE IInv'
  OBVIOUS
<1> USE DEF IInv
<1>1. /\ fired' \in [Levels -> Nat]
      /\ \A l \in Levels :
           fired'[l] = IF l \in Counted THEN fired[l] + 1 ELSE fired[l]
  BY CountedLevels, PlusOne DEF Slicer, TypeOK
<1>2. \A l \in Levels : sync_flag'[l] <=> (sync_flag[l] \/ l \in Counted)
  BY DEF Slicer
<1>3. \A l \in Levels : Owed(l) \/ (l \in Counted /\ synced[l] <= fired[l]) => Owed(l)'
  BY <1>1 DEF Slicer, Owed, TypeOK
<1>4. systime_tp' \in [Levels -> Nat]
  BY AdvancedInRange DEF Slicer, TypeOK
<1>5. \A l \in Levels :
        IF l = Depth THEN systime_tp'[l] <= MaxDays ELSE systime_tp'[l] < Radix[l]
  BY AdvancedInRange DEF Slicer, TypeOK
<1>6. sync_flag' \in [Levels -> BOOLEAN]
  BY Zenon DEF Slicer, TypeOK
<1>7. hit' \in BOOLEAN
  BY Zenon DEF Slicer, TypeOK
<1>8. TypeOK'
  BY <1>1, <1>4, <1>5, <1>6, <1>7 DEF Slicer, worker, TypeOK
<1>9. NeverTwice'
  BY <1>1 DEF Slicer, OnceInv, NeverTwice, TypeOK
<1>10. \A l \in Levels : (sync_flag[l] => Owed(l)) => (sync_flag'[l] => Owed(l)')
  BY <1>2, <1>3 DEF OnceInv, NeverTwice
<1>11. level \in 0 .. Depth /\ \A l \in 1 .. level : l \in Levels
  BY SystimeAssumption DEF TypeOK, Levels
<1>12. OnceInv'
  <2>1. (pc \in {"idle", "read"} => \A l \in Levels : sync_flag[l] => Owed(l))'
    BY <1>10 DEF Slicer, worker, OnceInv
  <2>2. (pc = "read" => level >= 1 /\ \A l \in 1 .. level : sync_flag[l])'
    BY <1>2, <1>11 DEF Slicer, worker, OnceInv
  <2>3. (pc = "sync" => level >= 1 /\ \A l \in 1 .. level : Owed(l))'
    BY <1>3, <1>11 DEF Slicer, worker, OnceInv
  <2>4. (pc = "clear" => \A l \in Levels \ uncleared : sync_flag[l] => Owed(l))'
    BY <1>10 DEF Slicer, worker, OnceInv
  <2> QED  BY <1>9, <2>1, <2>2, <2>3, <2>4 DEF OnceInv
<1> QED  BY <1>8, <1>12

LEMMA EnterIInv == IInv /\ Enter => IInv'
<1> SUFFICES ASSUME IInv, Enter PROVE IInv'
  OBVIOUS
<1>1. TypeOK'
  BY SystimeAssumption DEF IInv, Enter, TypeOK
<1>2. \A l \in Levels : Owed(l)' <=> Owed(l)
  BY DEF Enter, Owed
<1>3. OnceInv'
  BY <1>2 DEF IInv, Enter, OnceInv, NeverTwice
<1> QED  BY <1>1, <1>3 DEF IInv

\* when the reading ends, the levels whose flags it found set are owed
LEMMA ReadIInv == IInv /\ Read => IInv'
<1> SUFFICES ASSUME IInv, Read PROVE IInv'
  OBVIOUS
<1>1. level \in 0 .. Depth /\ level >= 1 /\ \A l \in 1 .. level : l \in Levels
  BY SystimeAssumption DEF IInv, TypeOK, OnceInv, Read, Levels
<1>2. TypeOK'
  BY <1>1, SystimeAssumption DEF IInv, Read, TypeOK
<1>3. \A l \in Levels : Owed(l)' <=> Owed(l)
  BY DEF Read, Owed
<1>4. CASE level < Depth /\ sync_flag[level + 1]
  <2>1. \A l \in 1 .. level + 1 : sync_flag[l]
    BY <1>1, <1>4 DEF IInv, OnceInv, Read
  <2> QED  BY <1>1, <1>2, <1>3, <1>4, <2>1 DEF IInv, Read, OnceInv, NeverTwice
<1>5. CASE ~(level < Depth /\ sync_flag[level + 1])
  <2>1. \A l \in 1 .. level : Owed(l)
    BY <1>1 DEF IInv, OnceInv, Read
  <2> QED  BY <1>1, <1>2, <1>3, <1>5, <2>1 DEF IInv, Read, OnceInv, NeverTwice
<1> QED  BY <1>4, <1>5

LEMMA SyncIInv == IInv /\ Sync => IInv'
<1> SUFFICES ASSUME IInv, Sync PROVE IInv'
  OBVIOUS
<1>1. level \in 1 .. Depth /\ level \in Levels /\ Depth \in Nat
  BY SystimeAssumption DEF IInv, TypeOK, OnceInv, Sync, Levels
<1>2. /\ synced' \in [Levels -> Nat]
      /\ \A l \in Levels :
           synced'[l] = IF l = level THEN synced[l] + 1 ELSE synced[l]
  <2>1. synced \in [Levels -> Nat] /\ {level} \in SUBSET Levels
    BY <1>1 DEF IInv, TypeOK
  <2>2. synced' = Plus(synced, One({level}))
    BY DEF Sync
  <2> QED  BY <2>1, <2>2, PlusOne
<1>3. synced[level] < fired[level] /\ \A l \in 1 .. level - 1 : l \in Levels /\ Owed(l)
  <2>1. pc = "sync" /\ \A l \in 1 .. level : Owed(l)
    BY DEF IInv, OnceInv, Sync
  <2> QED  BY <1>1, <2>1 DEF Owed, Levels
<1>4. TypeOK'
  <2>1. level' \in 0 .. Depth
    BY <1>1 DEF Sync
  <2>2. pc' \in {"idle", "read", "sync", "clear"} /\ uncleared' \subseteq Levels
    BY Zenon DEF IInv, TypeOK, Sync
  <2> QED  BY <1>2, <2>1, <2>2 DEF IInv, Sync, TypeOK
<1>5. NeverTwice'
  <2> SUFFICES ASSUME NEW l \in Levels PROVE synced'[l] <= fired'[l]
    BY DEF NeverTwice
  <2>1. synced[l] \in Nat /\ fired[l] \in Nat /\ synced[l] <= fired[l] /\ fired' = fired
    BY DEF IInv, TypeOK, OnceInv, NeverTwice, Sync
  <2> QED  BY <1>2, <1>3, <2>1
<1>6. \A l \in 1 .. level - 1 : Owed(l)'
  <2> SUFFICES ASSUME NEW l \in 1 .. level - 1 PROVE Owed(l)'
    OBVIOUS
  <2>1. l # level /\ l \in Levels /\ Owed(l)
    BY <1>1, <1>3
  <2>2. fired' = fired /\ synced'[l] = synced[l]
    BY <1>2, <2>1 DEF Sync
  <2> QED  BY <2>1, <2>2 DEF Owed
<1>7. OnceInv'
  <2>1. CASE level = 1
    BY <1>5, <2>1 DEF Sync, OnceInv
  <2>2. CASE level # 1
    <3>1. pc' = "sync" /\ level' = level - 1 /\ level - 1 >= 1
      BY <1>1, <2>2 DEF IInv, Sync
    <3> QED  BY <1>5, <1>6, <3>1 DEF OnceInv
  <2> QED  BY <2>1, <2>2
<1> QED  BY <1>4, <1>7 DEF IInv

\* a flag that has been reset and is set again stands for a new event
LEMMA ClearIInv == IInv /\ Clear => IInv'
<1> SUFFICES ASSUME IInv, Clear PROVE IInv'
  OBVIOUS
<1>1. PICK S \in SUBSET uncleared \ {{}} :
        /\ sync_flag' = [l \in Levels |-> sync_flag[l] /\ l \notin S]
        /\ uncleared' = uncleared \ S
        /\ pc' = IF uncleared = S THEN "idle" ELSE pc
  BY DEF Clear
<1>2. sync_flag' \in [Levels -> BOOLEAN]
  BY <1>1, Zenon DEF IInv, TypeOK
<1>3. TypeOK'
  BY <1>1, <1>2 DEF IInv, Clear, TypeOK
<1>4. \A l \in Levels : Owed(l)' <=> Owed(l)
  BY DEF Clear, Owed
<1>5. \A l \in Levels \ uncleared' : sync_flag'[l] => Owed(l)'
  BY <1>1, <1>4 DEF IInv, Clear, OnceInv
<1>6. pc' = "idle" => uncleared' = {}
  BY <1>1 DEF Clear
<1>7. pc' \in {"idle", "clear"}
  BY <1>1 DEF Clear
<1>8. NeverTwice'
  BY DEF IInv, Clear, OnceInv, NeverTwice
<1>9. OnceInv'
  BY <1>4, <1>5, <1>6, <1>7, <1>8 DEF OnceInv
<1> QED  BY <1>3, <1>9 DEF IInv

LEMMA NextIInv == IInv /\ [Next]_vars => IInv'
<1> SUFFICES ASSUME IInv, [Next]_vars PROVE IInv'
  OBVIOUS
<1>1. CASE UNCHANGED vars
  BY <1>1 DEF IInv, TypeOK, OnceInv, NeverTwice, Owed, vars
<1> QED  BY <1>1, SlicerIInv, EnterIInv, ReadIInv, SyncIInv, ClearIInv DEF Next

-----------------------------------------------------------------------------
\* The counters of the time and the place of the worker keep to their ranges,
\* for any number of levels and any radix (systime_slicer, systime_worker).
THEOREM SystimeTypeCorrect == Spec => []TypeOK
<1>1. Spec => []IInv
  BY InitIInv, NextIInv, PTL DEF Spec
<1>2. IInv => TypeOK
  BY DEF IInv
<1> QED  BY <1>1, <1>2, PTL

\* No event of the time is delivered twice, wherever the tick meets the worker
\* and in whatever pieces the build resets the flags (systime_worker).
THEOREM DeliveredOnce == Spec => []NeverTwice
<1>1. Spec => []IInv
  BY InitIInv, NextIInv, PTL DEF Spec
<1>2. IInv => NeverTwice
  BY DEF IInv, OnceInv
<1> QED  BY <1>1, <1>2, PTL

-----------------------------------------------------------------------------
(* Nothing is lost while no tick meets the worker.                         *)

\* A tick sets the flags of a level and of all below it, and without a tick in
\* between the worker takes them all: what it delivers is what they stood for.
KeptInv ==
  ~hit =>
    /\ pc \in {"idle", "read"} =>
         /\ \A l \in Levels \ {1} : fired[l] = synced[l] + Pending(l)
         /\ \A l \in Levels : \A k \in 1 .. l : sync_flag[l] => sync_flag[k]
    /\ pc = "sync" =>
         \A l \in Levels \ {1} :
           fired[l] = synced[l] + (IF l <= level THEN 1 ELSE 0)
    /\ pc = "clear" =>
         /\ \A l \in Levels \ {1} : fired[l] = synced[l]
         /\ \A l \in Levels \ uncleared : ~sync_flag[l]

LEMMA SlicerKeptInv == IInv /\ KeptInv /\ Slicer => KeptInv'
<1> SUFFICES ASSUME IInv, KeptInv, Slicer, ~hit' PROVE KeptInv'
  BY DEF KeptInv
<1>1. ~hit /\ pc = "idle" /\ pc' = pc /\ \A l \in Counted \ {1} : ~sync_flag[l]
  BY DEF Slicer, worker
<1>2. /\ \A l \in Levels :
           fired'[l] = IF l \in Counted THEN fired[l] + 1 ELSE fired[l]
      /\ synced' = synced
  BY CountedLevels, PlusOne DEF Slicer, IInv, TypeOK
<1>3. \A l \in Levels : sync_flag'[l] <=> (sync_flag[l] \/ l \in Counted)
  BY DEF Slicer
<1>4. \A l \in Levels \ {1} : fired'[l] = synced'[l] + Pending(l)'
  <2> SUFFICES ASSUME NEW l \in Levels \ {1}
               PROVE  fired'[l] = synced'[l] + Pending(l)'
    OBVIOUS
  <2>1. fired[l] = synced[l] + Pending(l) /\ fired[l] \in Nat /\ synced[l] \in Nat
    BY <1>1 DEF KeptInv, IInv, TypeOK
  <2>2. CASE l \in Counted
    BY <1>1, <1>2, <1>3, <2>1, <2>2 DEF Pending
  <2>3. CASE l \notin Counted
    BY <1>2, <1>3, <2>1, <2>3 DEF Pending
  <2> QED  BY <2>2, <2>3
<1>5. \A l \in Levels : \A k \in 1 .. l : k \in Levels
  BY SystimeAssumption DEF Levels
<1>6. \A l \in Counted : \A k \in 1 .. l : k \in Counted
  BY <1>5, SystimeAssumption DEF Counted, Levels
<1>7. \A l \in Levels : \A k \in 1 .. l : sync_flag'[l] => sync_flag'[k]
  BY <1>1, <1>3, <1>5, <1>6 DEF KeptInv
<1> QED  BY <1>1, <1>4, <1>7 DEF KeptInv

\* the reading ends at the first level whose flag is not set, and none above is
LEMMA ReadKeptInv == IInv /\ KeptInv /\ Read => KeptInv'
<1> SUFFICES ASSUME IInv, KeptInv, Read, ~hit PROVE KeptInv'
  BY DEF KeptInv, Read
<1>1. /\ sync_flag' = sync_flag /\ fired' = fired /\ synced' = synced
      /\ hit' = hit /\ pc = "read"
  BY DEF Read
<1>2. /\ \A l \in Levels \ {1} : fired[l] = synced[l] + Pending(l)
      /\ \A l \in Levels : \A k \in 1 .. l : sync_flag[l] => sync_flag[k]
  BY <1>1 DEF KeptInv
<1>3. CASE level < Depth /\ sync_flag[level + 1]
  BY <1>1, <1>2, <1>3 DEF Read, KeptInv, Pending
<1>4. CASE ~(level < Depth /\ sync_flag[level + 1])
  <2>1. pc' = "sync" /\ level' = level
    BY <1>4 DEF Read
  <2>2. level \in 1 .. Depth /\ \A l \in 1 .. level : sync_flag[l]
    BY <1>1 DEF IInv, TypeOK, OnceInv
  <2>3. \A l \in Levels : l > level => ~sync_flag[l]
    <3> SUFFICES ASSUME NEW l \in Levels, l > level, sync_flag[l] PROVE FALSE
      OBVIOUS
    <3>1. level + 1 \in 1 .. l /\ level < Depth
      BY <2>2, SystimeAssumption DEF Levels
    <3> QED  BY <1>2, <1>4, <3>1
  <2>4. \A l \in Levels : Pending(l) = IF l <= level THEN 1 ELSE 0
    BY <2>2, <2>3, SystimeAssumption DEF Pending, Levels
  <2> QED  BY <1>1, <1>2, <2>1, <2>4 DEF KeptInv
<1> QED  BY <1>3, <1>4

LEMMA SyncKeptInv == IInv /\ KeptInv /\ Sync => KeptInv'
<1> SUFFICES ASSUME IInv, KeptInv, Sync, ~hit' PROVE KeptInv'
  BY DEF KeptInv
<1>1. fired' = fired /\ hit' = hit /\ ~hit /\ pc = "sync" /\ level' = level - 1
  BY DEF Sync
<1>2. level \in 1 .. Depth /\ level \in Levels
  BY <1>1, SystimeAssumption DEF IInv, TypeOK, OnceInv, Levels
<1>3. \A l \in Levels :
        synced'[l] = IF l = level THEN synced[l] + 1 ELSE synced[l]
  BY <1>2, PlusOne DEF Sync, IInv, TypeOK
<1>4. \A l \in Levels \ {1} :
        fired'[l] = synced'[l] + (IF l <= level' THEN 1 ELSE 0)
  <2> SUFFICES ASSUME NEW l \in Levels \ {1}
               PROVE  fired'[l] = synced'[l] + (IF l <= level' THEN 1 ELSE 0)
    OBVIOUS
  <2>1. /\ fired[l] = synced[l] + (IF l <= level THEN 1 ELSE 0)
        /\ synced[l] \in Nat /\ l \in Int /\ level \in Int
    BY <1>1, <1>2 DEF KeptInv, IInv, TypeOK, Levels
  <2> QED  BY <1>1, <1>3, <2>1
<1>5. CASE level = 1
  <2>1. pc' = "clear" /\ uncleared' = Levels
    BY <1>5 DEF Sync
  <2>2. \A l \in Levels \ {1} : fired'[l] = synced'[l]
    <3> SUFFICES ASSUME NEW l \in Levels \ {1} PROVE fired'[l] = synced'[l]
      OBVIOUS
    <3>1. ~(l <= level') /\ synced'[l] = synced[l] /\ synced[l] \in Nat
      BY <1>1, <1>3, <1>5 DEF Levels, IInv, TypeOK
    <3> QED  BY <1>4, <3>1
  <2> QED  BY <2>1, <2>2 DEF KeptInv
<1>6. CASE level # 1
  BY <1>1, <1>4, <1>6 DEF Sync, KeptInv
<1> QED  BY <1>5, <1>6

LEMMA ClearKeptInv == IInv /\ KeptInv /\ Clear => KeptInv'
<1> SUFFICES ASSUME IInv, KeptInv, Clear, ~hit PROVE KeptInv'
  BY DEF KeptInv, Clear
<1>1. PICK S \in SUBSET uncleared \ {{}} :
        /\ sync_flag' = [l \in Levels |-> sync_flag[l] /\ l \notin S]
        /\ uncleared' = uncleared \ S
        /\ pc' = IF uncleared = S THEN "idle" ELSE pc
  BY DEF Clear
<1>2. pc = "clear" /\ fired' = fired /\ synced' = synced /\ hit' = hit
  BY DEF Clear
<1>3. \A l \in Levels \ uncleared' : ~sync_flag'[l]
  BY <1>1, <1>2 DEF KeptInv
<1>4. \A l \in Levels \ {1} : fired'[l] = synced'[l] /\ fired'[l] \in Nat
  BY <1>2 DEF KeptInv, IInv, TypeOK
<1>5. CASE uncleared = S
  <2>1. pc' = "idle" /\ \A l \in Levels : ~sync_flag'[l]
    BY <1>1, <1>3, <1>5
  <2>2. \A l \in Levels \ {1} : fired'[l] = synced'[l] + Pending(l)'
    BY <1>4, <2>1 DEF Pending
  <2> QED  BY <2>1, <2>2 DEF KeptInv
<1>6. CASE uncleared # S
  BY <1>1, <1>2, <1>3, <1>4, <1>6 DEF KeptInv
<1> QED  BY <1>5, <1>6

\* Every event above the millisecond is delivered or waits in its flag, as long as
\* no tick meets the worker at work and none comes before the last was cleared
\* (systime_slicer, systime_worker): what is lost is lost to those two.
THEOREM KeptWhileUndisturbed == Spec => []KeptUndisturbed
<1>1. Init => KeptInv
  BY SystimeAssumption DEF Init, KeptInv, Pending, One, Levels
<1>2. IInv /\ KeptInv /\ [Next]_vars => KeptInv'
  <2> SUFFICES ASSUME IInv, KeptInv, [Next]_vars PROVE KeptInv'
    OBVIOUS
  <2>1. CASE UNCHANGED vars
    BY <2>1 DEF vars, KeptInv, Pending
  <2>2. CASE Enter
    BY <2>2 DEF Enter, KeptInv, Pending
  <2> QED  BY <2>1, <2>2, SlicerKeptInv, ReadKeptInv, SyncKeptInv, ClearKeptInv
           DEF Next
<1>3. KeptInv => KeptUndisturbed
  BY DEF KeptInv, KeptUndisturbed
<1> QED  BY InitIInv, NextIInv, <1>1, <1>2, <1>3, PTL DEF Spec
=============================================================================
