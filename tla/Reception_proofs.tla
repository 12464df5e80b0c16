--------------------------- MODULE Reception_proofs ---------------------------
(* What holds of module Reception for every set of packets, ring, decode     *)
(* buffer, noise and number of faults: the types, that a line error costs no *)
(* more than the ring holds, that the decoder finds its way back, and that   *)
(* the reception implements LossyLine.                                       *)
(*                                                                           *)
(* What the wire holds is defined by recursion.  It is proved by the least   *)
(* counterexample: a set of numbers that is not empty has a least element    *)
(* (WFMin of the library), and there is none that it could be.               *)
EXTENDS Reception, SequenceTheorems, WellFoundedInduction, TLAPS

-----------------------------------------------------------------------------
(* Least elements, and the sequences that are built by recursion.           *)

\* A set of natural numbers that is not empty has a least element.
LEMMA Least ==
  ASSUME NEW T \in SUBSET Nat, T # {}
  PROVE \E x \in T : \A y \in T : x <= y
<1> DEFINE R == OpToRel(<, Nat)
<1>1. IsWellFoundedOn(R, Nat)
  BY NatLessThanWellFounded
<1>2. \A x, y \in Nat : x < y => <<x, y>> \in R
  BY DEF OpToRel
<1> HIDE DEF R
<1>3. PICK x \in T : \A y \in T : ~ (<<y, x>> \in R)
  BY <1>1, WFMin
<1>4. x \in Nat /\ \A y \in T : y \in Nat
  OBVIOUS
<1>5. \A y \in T : ~ (y < x)
  BY <1>2, <1>3, <1>4
<1>6. \A y \in T : x <= y
  BY <1>4, <1>5
<1>. QED
  BY <1>6

\* FlattenSeq is the last of the sequences that begin with the first one of
\* ss and are extended by one more of them at a time.
LEMMA Flatten ==
  ASSUME NEW S, NEW ss \in Seq(Seq(S)), ss # <<>>
  PROVE  \E f \in [1 .. Len(ss) -> Seq(S)] :
           /\ f[1] = ss[1]
           /\ \A i \in 2 .. Len(ss) : f[i] = f[i - 1] \o ss[i]
           /\ FlattenSeq(ss) = f[Len(ss)]
<1> DEFINE n == Len(ss)
           Prefix(k) == {f \in [1 .. k -> Seq(S)] : f[1] = ss[1] /\ \A i \in 2 .. k : f[i] = f[i - 1] \o ss[i]}
           T == {k \in 1 .. n : Prefix(k) = {}}
<1>n. n \in Nat \ {0}
  BY EmptySeq, LenProperties
<1>s. \A i \in 1 .. n : ss[i] \in Seq(S)
  BY ElementOfSeq
<1> HIDE DEF n
<1>1. ASSUME T # {} PROVE FALSE
  <2> HIDE DEF Prefix
  <2>1. T \in SUBSET Nat
    BY <1>n
  <2> HIDE DEF T
  <2>2. PICK k \in T : \A j \in T : k <= j
    BY <1>1, <2>1, Least
  <2> USE DEF T
  <2>a. k \in 1 .. n /\ Prefix(k) = {}
    BY <2>2
  <2>b. \A j \in 1 .. n : j < k => Prefix(j) # {}
    BY SMTT(20), <2>2, <1>n
  <2> USE DEF Prefix
  <2>3. k # 1
    <3>1. [i \in 1 .. 1 |-> ss[1]] \in Prefix(1)
      BY <1>n, <1>s
    <3>. QED
      BY <3>1, <2>a
  <2>4. k - 1 \in 1 .. n /\ k \in 2 .. n /\ k - 1 < k
    BY <2>3, <2>a, <1>n
  <2>5. Prefix(k - 1) # {}
    BY <2>b, <2>4
  <2>6. PICK f \in Prefix(k - 1) : TRUE
    BY <2>5
  <2> DEFINE g == [i \in 1 .. k |-> IF i = k THEN f[k - 1] \o ss[k] ELSE f[i]]
  <2>7. f \in [1 .. k - 1 -> Seq(S)] /\ f[1] = ss[1] /\ \A i \in 2 .. k - 1 : f[i] = f[i - 1] \o ss[i]
    BY <2>6
  <2>8. f[k - 1] \o ss[k] \in Seq(S)
    BY <2>4, <2>7, <1>s, ConcatProperties
  <2>9. g \in [1 .. k -> Seq(S)]
    BY <2>4, <2>7, <2>8
  <2>10. g[1] = ss[1]
    BY <2>4, <2>7
  <2>11. ASSUME NEW i \in 2 .. k PROVE g[i] = g[i - 1] \o ss[i]
    <3>1. i - 1 \in 1 .. k /\ i - 1 # k /\ g[i - 1] = f[i - 1]
      BY <2>4
    <3>2. CASE i = k
      <4>0. k \in 1 .. k
        BY <2>4
      <4>1. g[k] = f[k - 1] \o ss[k]
        BY <4>0
      <4>. QED
        BY <4>1, <3>1, <3>2
    <3>3. CASE i # k
      <4>1. g[i] = f[i] /\ i \in 2 .. k - 1
        BY <3>3, <2>4
      <4>. QED
        BY <4>1, <3>1, <2>7
    <3>. QED
      BY <3>2, <3>3
  <2>12. g \in Prefix(k)
    BY <2>9, <2>10, <2>11
  <2>. QED
    BY <2>a, <2>12
<1>2. PICK f \in Prefix(n) : TRUE
  <2> HIDE DEF Prefix
  <2>1. n \in 1 .. n
    BY <1>n
  <2>. QED
    BY <1>1, <2>1
<1>3. f \in [1 .. n -> Seq(S)] /\ f[1] = ss[1] /\ \A i \in 2 .. n : f[i] = f[i - 1] \o ss[i]
  BY <1>2
<1> DEFINE Rec(h) == h = [i \in 1 .. n |-> IF i = 1 THEN ss[i] ELSE h[i - 1] \o ss[i]]
           fl == CHOOSE h : Rec(h)
<1>4. Rec(f)
  <2>1. \A i \in 1 .. n : f[i] = IF i = 1 THEN ss[i] ELSE f[i - 1] \o ss[i]
    <3>1. \A i \in 1 .. n : i # 1 => i \in 2 .. n
      BY <1>n
    <3>. QED
      BY <3>1, <1>3
  <2>. QED
    BY <2>1, <1>3
<1>5. Rec(fl)
  BY <1>4
<1>6. FlattenSeq(ss) = fl[n]
  BY <1>n DEF FlattenSeq, n
<1> HIDE DEF fl
<1>7. \A i \in 1 .. n : fl[i] = IF i = 1 THEN ss[i] ELSE fl[i - 1] \o ss[i]
  BY <1>5
<1> HIDE DEF Rec
<1> DEFINE U == {k \in 1 .. n : fl[k] # f[k]}
<1>8. ASSUME U # {} PROVE FALSE
  <2>1. U \in SUBSET Nat
    BY <1>n
  <2> HIDE DEF U
  <2>2. PICK k \in U : \A j \in U : k <= j
    BY <1>8, <2>1, Least
  <2> USE DEF U
  <2>3. k # 1
    BY <1>3, <1>7, <2>2, <1>n
  <2>4. k - 1 \in 1 .. n /\ k \in 2 .. n
    BY <2>3, <1>n
  <2>5. k - 1 \notin U
    BY <2>2, <2>4
  <2>6. fl[k] = fl[k - 1] \o ss[k]
    BY <1>7, <2>4
  <2>. QED
    BY <1>3, <2>4, <2>5, <2>6
<1>9. FlattenSeq(ss) = f[n]
  <2>1. n \in 1 .. n
    BY <1>n
  <2>. QED
    BY <2>1, <1>6, <1>8
<1>. QED
  BY <1>3, <1>9 DEF n

-----------------------------------------------------------------------------
(* cobs_encode.                                                             *)

\* The number that NextZero is the least of is among those it chooses from.
LEMMA NextZeroLeast ==
  ASSUME NEW m \in Seq(Byte), NEW p \in 1 .. Len(m) + 1
  PROVE  /\ NextZero(m, p) \in {q \in p .. Len(m) : m[q] = 0} \cup {Len(m) + 1}
         /\ \A q \in {q \in p .. Len(m) : m[q] = 0} \cup {Len(m) + 1} : NextZero(m, p) <= q
<1> DEFINE S == {q \in p .. Len(m) : m[q] = 0} \cup {Len(m) + 1}
<1>1. Len(m) \in Nat
  BY LenProperties
<1>2. S \in SUBSET Nat /\ S # {}
  BY <1>1
<1>3. NextZero(m, p) = CHOOSE x \in S : \A y \in S : x =< y
  BY DEF NextZero, Min
<1> HIDE DEF S
<1>4. \E x \in S : \A y \in S : x <= y
  BY <1>2, Least
<1>5. NextZero(m, p) \in S /\ \A y \in S : NextZero(m, p) <= y
  BY <1>3, <1>4
<1> QED
  BY <1>5 DEF S

\* The distance to the next zero shrinks by one with every byte that is none.
LEMMA NextZeroFacts ==
  ASSUME NEW m \in Seq(Byte), NEW p \in 1 .. Len(m) + 1
  PROVE  /\ NextZero(m, p) \in p .. Len(m) + 1
         /\ p = Len(m) + 1 => NextZero(m, p) = p
         /\ p <= Len(m) /\ m[p] = 0 => NextZero(m, p) = p
         /\ p <= Len(m) /\ m[p] # 0 => NextZero(m, p) = NextZero(m, p + 1) /\ NextZero(m, p) # p
<1>1. Len(m) \in Nat
  BY LenProperties
<1>2. /\ NextZero(m, p) \in {q \in p .. Len(m) : m[q] = 0} \cup {Len(m) + 1}
      /\ \A q \in {q \in p .. Len(m) : m[q] = 0} \cup {Len(m) + 1} : NextZero(m, p) <= q
  BY NextZeroLeast
<1>3. NextZero(m, p) \in p .. Len(m) + 1
  BY <1>1, <1>2
<1>4. p <= Len(m) /\ m[p] = 0 => NextZero(m, p) = p
  BY <1>1, <1>2, <1>3
<1>5. ASSUME p <= Len(m), m[p] # 0
      PROVE  NextZero(m, p) = NextZero(m, p + 1) /\ NextZero(m, p) # p
  <2>1. p + 1 \in 1 .. Len(m) + 1
    BY <1>1, <1>5
  <2>2. /\ NextZero(m, p + 1) \in {q \in p + 1 .. Len(m) : m[q] = 0} \cup {Len(m) + 1}
        /\ \A q \in {q \in p + 1 .. Len(m) : m[q] = 0} \cup {Len(m) + 1} : NextZero(m, p + 1) <= q
    BY <2>1, NextZeroLeast
  <2>3. {q \in p .. Len(m) : m[q] = 0} \cup {Len(m) + 1}
          = {q \in p + 1 .. Len(m) : m[q] = 0} \cup {Len(m) + 1}
    <3>1. \A q \in p .. Len(m) : m[q] = 0 => q \in p + 1 .. Len(m)
      BY <1>1, <1>5
    <3>2. \A q \in p + 1 .. Len(m) : q \in p .. Len(m)
      BY <1>1
    <3> QED
      BY <3>1, <3>2
  <2>4. NextZero(m, p) <= NextZero(m, p + 1) /\ NextZero(m, p + 1) <= NextZero(m, p)
    BY <1>2, <2>2, <2>3
  <2>5. NextZero(m, p) \in Int /\ NextZero(m, p + 1) \in Int
    BY <1>1, <1>3, <2>2
  <2>6. NextZero(m, p) # p
    BY <1>1, <1>2, <1>5
  <2> QED
    BY <2>4, <2>5, <2>6
<1> QED
  BY <1>1, <1>3, <1>4, <1>5

\* cobs_encode writes bytes, two more than it is given, and the last one alone
\* is a zero.
LEMMA EncodeFacts ==
  ASSUME NEW m \in Packets
  PROVE  /\ m \in Seq(Byte) /\ Len(m) \in Nat /\ Len(m) >= HeaderSize /\ Len(m) <= DecodeSize
         /\ DOMAIN Encode(m) = 1 .. Len(m) + 2
         /\ \A p \in 1 .. Len(m) + 2 : Encode(m)[p] \in Byte
         /\ \A p \in 1 .. Len(m) + 2 : Encode(m)[p] = 0 <=> p = Len(m) + 2
         /\ \A p \in 1 .. Len(m) + 1 :
              Encode(m)[p] = IF p > 1 /\ m[p - 1] # 0 THEN m[p - 1] ELSE NextZero(m, p) - p + 1
<1>1. m \in Seq(Byte) /\ Len(m) \in HeaderSize .. 254 /\ Len(m) <= DecodeSize
  BY ReceptionAssumption
<1>2. HeaderSize \in Nat
  BY ReceptionAssumption
<1>3. Len(m) \in Nat /\ Len(m) >= HeaderSize /\ Len(m) <= 254
  BY <1>1, <1>2
<1>4. \A q \in 1 .. Len(m) : m[q] \in Byte
  BY <1>1, ElementOfSeq
<1>5. ASSUME NEW p \in 1 .. Len(m) + 1
      PROVE  /\ Encode(m)[p] = IF p > 1 /\ m[p - 1] # 0 THEN m[p - 1] ELSE NextZero(m, p) - p + 1
             /\ Encode(m)[p] \in Byte /\ Encode(m)[p] # 0
  <2>1. Encode(m)[p] = IF p > 1 /\ m[p - 1] # 0 THEN m[p - 1] ELSE (NextZero(m, p) - p + 1) % 256
    BY <1>3 DEF Encode
  <2>2. NextZero(m, p) \in p .. Len(m) + 1
    BY <1>1, NextZeroFacts
  <2> DEFINE x == NextZero(m, p) - p + 1
  <2>3. x \in 1 .. 255
    <3>1. p \in Int /\ 1 <= p
      BY <1>3
    <3>2. \A z \in p .. Len(m) + 1 : z - p + 1 \in 1 .. 255
      BY <1>3, <3>1
    <3> QED
      BY <2>2, <3>2
  <2>4. x % 256 = x
    <3> HIDE DEF x
    <3> QED
      BY <2>3
  <2>5. p > 1 => m[p - 1] \in Byte
    BY <1>3, <1>4
  <2>6. x \in Byte /\ x # 0
    <3> HIDE DEF x
    <3> QED
      BY <2>3 DEF Byte
  <2>7. CASE p > 1 /\ m[p - 1] # 0
    BY <2>1, <2>5, <2>7
  <2>8. CASE ~(p > 1 /\ m[p - 1] # 0)
    <3>1. Encode(m)[p] = x
      BY <2>1, <2>4, <2>8
    <3> QED
      BY <3>1, <2>6, <2>8
  <2> QED
    BY <2>7, <2>8
<1>6. Encode(m)[Len(m) + 2] = 0 /\ DOMAIN Encode(m) = 1 .. Len(m) + 2
  BY <1>3 DEF Encode
<1>7. \A p \in 1 .. Len(m) + 2 : p = Len(m) + 2 \/ p \in 1 .. Len(m) + 1
  BY <1>3
<1>8. Len(m) + 2 \notin 1 .. Len(m) + 1 /\ 0 \in Byte
  BY <1>3 DEF Byte
<1> HIDE DEF Encode
<1> QED
  BY <1>1, <1>3, <1>5, <1>6, <1>7, <1>8

-----------------------------------------------------------------------------
(* What the wire holds.                                                     *)

Item == [value : Byte, packet : 1 .. PacketCount]

(* Frame k of the packets ps takes the places on the wire w from start[k]   *)
(* on, and the next one begins where it ends.                               *)
IsLayout(ps, w, start) ==
  /\ start \in [1 .. PacketCount + 1 -> Nat] /\ start[1] = 0
  /\ \A k \in 1 .. PacketCount : start[k + 1] = start[k] + Len(ps[k]) + 2
  /\ w \in Seq(Item) /\ Len(w) = start[PacketCount + 1]
  /\ \A k \in 1 .. PacketCount : \A i \in 1 .. Len(ps[k]) + 2 :
       w[start[k] + i] = [value |-> Encode(ps[k])[i], packet |-> k]

\* The frames one after the other are laid out in that way.
LEMMA WireHasLayout ==
  ASSUME NEW ps \in [1 .. PacketCount -> Packets]
  PROVE  \E start : IsLayout(ps, WireOf(ps), start)
<1> DEFINE n == PacketCount
           L(k) == Len(ps[k]) + 2
           It(k, i) == [value |-> Encode(ps[k])[i], packet |-> k]
           ss == [k \in 1 .. n |-> [i \in 1 .. L(k) |-> It(k, i)]]
<1>1. n \in Nat \ {0}
  BY ReceptionAssumption
<1>2. ASSUME NEW k \in 1 .. n
      PROVE  /\ Len(ps[k]) \in Nat /\ L(k) \in Nat
             /\ DOMAIN Encode(ps[k]) = 1 .. L(k)
             /\ \A i \in 1 .. L(k) : It(k, i) \in Item
  <2>1. ps[k] \in Packets
    OBVIOUS
  <2>2. /\ Len(ps[k]) \in Nat /\ DOMAIN Encode(ps[k]) = 1 .. Len(ps[k]) + 2
        /\ \A p \in 1 .. Len(ps[k]) + 2 : Encode(ps[k])[p] \in Byte
    BY <2>1, EncodeFacts
  <2> QED
    BY <2>2 DEF Item
<1>3. WireOf(ps) = FlattenSeq(ss)
  <2>1. DOMAIN ps = 1 .. n
    OBVIOUS
  <2>2. WireOf(ps) = FlattenSeq([k \in 1 .. n |-> [i \in DOMAIN Encode(ps[k]) |-> It(k, i)]])
    BY <2>1 DEF WireOf
  <2>3. [k \in 1 .. n |-> [i \in DOMAIN Encode(ps[k]) |-> It(k, i)]] = ss
    <3>1. ASSUME NEW k \in 1 .. n
          PROVE  [i \in DOMAIN Encode(ps[k]) |-> It(k, i)] = [i \in 1 .. L(k) |-> It(k, i)]
      <4>1. DOMAIN Encode(ps[k]) = 1 .. L(k)
        BY <1>2
      <4> QED
        BY <4>1
    <3> QED
      BY <3>1
  <2> QED
    BY <2>2, <2>3
<1> HIDE DEF It, L
<1>4. \A k \in 1 .. n : ss[k] \in Seq(Item) /\ Len(ss[k]) = L(k)
                         /\ \A i \in 1 .. L(k) : ss[k][i] = It(k, i)
  <2> SUFFICES ASSUME NEW k \in 1 .. n
               PROVE  ss[k] \in Seq(Item) /\ Len(ss[k]) = L(k)
                      /\ \A i \in 1 .. L(k) : ss[k][i] = It(k, i)
    OBVIOUS
  <2>1. ss[k] = [i \in 1 .. L(k) |-> It(k, i)]
    OBVIOUS
  <2>2. ss[k] \in [1 .. L(k) -> Item] /\ L(k) \in Nat
    BY <1>2, <2>1
  <2>3. ss[k] \in Seq(Item) /\ Len(ss[k]) = L(k)
    <3> HIDE DEF ss
    <3> QED
      BY <2>2, SeqDef, LenProperties
  <2> QED
    BY <2>1, <2>3
<1>5. ss \in Seq(Seq(Item)) /\ Len(ss) = n /\ ss # <<>>
  <2>1. ss \in [1 .. n -> Seq(Item)]
    <3>1. DOMAIN ss = 1 .. n /\ ss = [k \in 1 .. n |-> ss[k]]
      OBVIOUS
    <3> HIDE DEF ss
    <3> QED
      BY <1>4, <3>1
  <2> HIDE DEF ss
  <2>2. ss \in Seq(Seq(Item)) /\ Len(ss) = n
    <3> HIDE DEF n
    <3>1. ss \in Seq(Seq(Item))
      BY <1>1, <2>1, SeqDef
    <3> QED
      BY <1>1, <2>1, <3>1, LenProperties
  <2> QED
    BY <1>1, <2>2, EmptySeq
<1> HIDE DEF ss
<1>6. PICK f \in [1 .. n -> Seq(Item)] :
        /\ f[1] = ss[1]
        /\ \A i \in 2 .. n : f[i] = f[i - 1] \o ss[i]
        /\ WireOf(ps) = f[n]
  <2>1. \E f \in [1 .. Len(ss) -> Seq(Item)] :
          /\ f[1] = ss[1]
          /\ \A i \in 2 .. Len(ss) : f[i] = f[i - 1] \o ss[i]
          /\ FlattenSeq(ss) = f[Len(ss)]
    BY <1>5, Flatten
  <2> QED
    BY <1>3, <1>5, <2>1
<1> DEFINE start == [k \in 1 .. n + 1 |-> IF k = 1 THEN 0 ELSE Len(f[k - 1])]
           Good(k) == \A j \in 1 .. k : /\ start[j + 1] <= start[k + 1]
                                        /\ \A i \in 1 .. L(j) : f[k][start[j] + i] = It(j, i)
<1>7. \A k \in 1 .. n : f[k] \in Seq(Item) /\ Len(f[k]) \in Nat
  <2>1. \A k \in 1 .. n : f[k] \in Seq(Item)
    OBVIOUS
  <2> QED
    BY <2>1, LenProperties
<1>8. /\ start \in [1 .. n + 1 -> Nat] /\ start[1] = 0
      /\ \A k \in 1 .. n : start[k + 1] = Len(f[k])
  <2>1. \A k \in 1 .. n + 1 : k # 1 => k - 1 \in 1 .. n
    BY <1>1
  <2>2. start \in [1 .. n + 1 -> Nat]
    BY <1>7, <2>1
  <2>3. start[1] = 0
    BY <1>1
  <2>4. ASSUME NEW k \in 1 .. n PROVE start[k + 1] = Len(f[k])
    <3>1. k + 1 \in 1 .. n + 1 /\ k + 1 # 1 /\ (k + 1) - 1 = k
      BY <1>1
    <3> QED
      BY <3>1
  <2> QED
    BY <2>2, <2>3, <2>4
<1> HIDE DEF start
<1>9. ASSUME NEW k \in 1 .. n PROVE start[k + 1] = start[k] + L(k)
  <2>1. CASE k = 1
    BY <1>4, <1>6, <1>8, <2>1, <1>1, <1>2
  <2>2. CASE k # 1
    <3>1. k \in 2 .. n /\ k - 1 \in 1 .. n /\ (k - 1) + 1 = k
      BY <1>1, <2>2
    <3>2. f[k] = f[k - 1] \o ss[k]
      BY <1>6, <3>1
    <3>3. Len(f[k]) = Len(f[k - 1]) + Len(ss[k])
      BY <1>4, <1>7, <3>1, <3>2, ConcatProperties
    <3>4. start[k] = Len(f[k - 1])
      BY <1>8, <3>1
    <3> QED
      BY <1>4, <1>8, <3>3, <3>4
  <2> QED
    BY <2>1, <2>2
<1>10. Good(1)
  <2>1. \A j \in 1 .. 1 : j = 1
    OBVIOUS
  <2>2. start[1 + 1] \in Nat /\ 1 \in 1 .. n
    BY <1>1, <1>8
  <2>3. \A i \in 1 .. L(1) : f[1][start[1] + i] = It(1, i)
    BY <1>4, <1>6, <1>8, <2>2, <1>2
  <2> QED
    BY <2>1, <2>2, <2>3
<1>11. ASSUME NEW k \in 2 .. n, Good(k - 1) PROVE Good(k)
  <2>1. k \in 1 .. n /\ k - 1 \in 1 .. n /\ (k - 1) + 1 = k /\ k \in Nat
    BY <1>1
  <2>2. f[k] = f[k - 1] \o ss[k] /\ start[k] = Len(f[k - 1]) /\ Len(ss[k]) = L(k) /\ L(k) \in Nat
    BY <1>2, <1>4, <1>6, <1>8, <2>1
  <2>3. /\ \A i \in 1 .. Len(f[k - 1]) : f[k][i] = f[k - 1][i]
        /\ \A i \in 1 .. L(k) : f[k][start[k] + i] = ss[k][i]
    <3>0. /\ f[k - 1] \in Seq(Item) /\ ss[k] \in Seq(Item)
          /\ Len(f[k - 1]) \in Nat
      BY <1>4, <1>7, <2>1
    <3>1. /\ \A i \in 1 .. Len(f[k - 1]) + Len(ss[k]) :
               f[k][i] = IF i <= Len(f[k - 1]) THEN f[k - 1][i] ELSE ss[k][i - Len(f[k - 1])]
      <4> DEFINE a == f[k - 1]
                 b == ss[k]
      <4>1. f[k] = a \o b /\ a \in Seq(Item) /\ b \in Seq(Item)
        BY <2>2, <3>0
      <4> HIDE DEF a, b
      <4>2. \A i \in 1 .. Len(a) + Len(b) : (a \o b)[i] = IF i <= Len(a) THEN a[i] ELSE b[i - Len(a)]
        BY <4>1, ConcatProperties
      <4> QED
        BY <4>1, <4>2 DEF a, b
    <3>2. ASSUME NEW i \in 1 .. L(k) PROVE f[k][start[k] + i] = ss[k][i]
      <4>1. /\ start[k] + i \in 1 .. Len(f[k - 1]) + Len(ss[k])
            /\ ~(start[k] + i <= Len(f[k - 1])) /\ (start[k] + i) - Len(f[k - 1]) = i
        BY <2>2, <3>0
      <4> QED
        BY <3>1, <4>1
    <3>3. \A i \in 1 .. Len(f[k - 1]) : i \in 1 .. Len(f[k - 1]) + Len(ss[k]) /\ i <= Len(f[k - 1])
      BY <2>2, <3>0
    <3> QED
      BY <3>1, <3>2, <3>3
  <2>4. start[k + 1] = start[k] + L(k)
    BY <1>9, <2>1
  <2>5. \A j \in 1 .. n : start[j] \in Nat /\ start[j + 1] \in Nat
    BY <1>1, <1>8
  <2>6. ASSUME NEW j \in 1 .. k
        PROVE  start[j + 1] <= start[k + 1] /\ \A i \in 1 .. L(j) : f[k][start[j] + i] = It(j, i)
    <3>1. CASE j = k
      <4>1. \A i \in 1 .. L(k) : f[k][start[k] + i] = It(k, i)
        BY <1>4, <2>1, <2>3
      <4>2. start[k + 1] <= start[k + 1]
        BY <2>1, <2>5
      <4> QED
        BY <3>1, <4>1, <4>2
    <3>2. CASE j # k
      <4>1. j \in 1 .. k - 1 /\ j \in 1 .. n
        BY <1>1, <2>1, <3>2
      <4>2. /\ start[j + 1] <= start[k]
            /\ \A i \in 1 .. L(j) : f[k - 1][start[j] + i] = It(j, i)
        BY <1>11, <2>1, <4>1
      <4>3. start[j + 1] = start[j] + L(j) /\ L(j) \in Nat
        BY <1>2, <1>9, <4>1
      <4>4. \A i \in 1 .. L(j) : start[j] + i \in 1 .. Len(f[k - 1])
        BY SMTT(20), <2>2, <2>5, <4>1, <4>2, <4>3
      <4>5. start[k] \in Nat /\ start[k] <= start[k + 1] /\ start[k + 1] \in Nat
        BY <2>1, <2>2, <2>4, <2>5
      <4>6. start[j + 1] <= start[k + 1]
        BY <2>5, <4>1, <4>2, <4>5
      <4>7. \A i \in 1 .. L(j) : f[k][start[j] + i] = It(j, i)
        BY <2>3, <4>2, <4>4
      <4> QED
        BY <4>6, <4>7
    <3> QED
      BY <3>1, <3>2
  <2> QED
    BY <2>6
<1> HIDE DEF Good
<1>12. Good(n)
  <2> DEFINE T == {k \in 1 .. n : ~Good(k)}
  <2>1. ASSUME T # {} PROVE FALSE
    <3>1. T \in SUBSET Nat
      BY <1>1
    <3> HIDE DEF T
    <3>2. PICK k \in T : \A j \in T : k <= j
      BY <2>1, <3>1, Least
    <3> USE DEF T
    <3>3. k \in 1 .. n /\ ~Good(k)
      BY <3>2
    <3>4. k \in 2 .. n /\ k - 1 \in 1 .. n /\ k - 1 < k
      BY <1>1, <1>10, <3>3
    <3>5. Good(k - 1)
      BY <1>1, <3>2, <3>4
    <3> QED
      BY <1>11, <3>3, <3>4, <3>5
  <2>2. n \in 1 .. n
    BY <1>1
  <2> QED
    BY <2>1, <2>2
<1>13. IsLayout(ps, WireOf(ps), start)
  <2>1. n \in 1 .. n
    BY <1>1
  <2>2. WireOf(ps) \in Seq(Item) /\ Len(WireOf(ps)) = start[n + 1]
    BY <1>6, <1>7, <1>8, <2>1
  <2>3. \A k \in 1 .. n : \A i \in 1 .. L(k) : WireOf(ps)[start[k] + i] = It(k, i)
    BY <1>6, <1>12 DEF Good
  <2>4. \A k \in 1 .. n : start[k + 1] = start[k] + Len(ps[k]) + 2
    <3>1. \A k \in 1 .. n : start[k] \in Nat
      BY <1>1, <1>8
    <3> QED
      BY <1>2, <1>9, <3>1 DEF L
  <2> QED
    BY <1>8, <2>2, <2>3, <2>4 DEF IsLayout, L, It
<1> QED
  BY <1>13

\* The frames lie in the order of their numbers.
LEMMA LayoutOrder ==
  ASSUME NEW ps \in [1 .. PacketCount -> Packets], NEW w, NEW start, IsLayout(ps, w, start),
         NEW j \in 1 .. PacketCount, NEW k \in 1 .. PacketCount + 1, j < k
  PROVE  start[j + 1] <= start[k]
<1> DEFINE T == {h \in j + 1 .. PacketCount + 1 : start[h] < start[j + 1]}
<1>1. PacketCount \in Nat \ {0}
  BY ReceptionAssumption
<1>2. \A h \in 1 .. PacketCount + 1 : start[h] \in Nat
  BY DEF IsLayout
<1>3. \A h \in 1 .. PacketCount : Len(ps[h]) \in Nat
  BY EncodeFacts
<1>4. \A h \in 1 .. PacketCount : start[h + 1] = start[h] + Len(ps[h]) + 2
  BY DEF IsLayout
<1>5. ASSUME T # {} PROVE FALSE
  <2>1. T \in SUBSET Nat
    BY <1>1
  <2> HIDE DEF T
  <2>2. PICK h \in T : \A i \in T : h <= i
    BY <1>5, <2>1, Least
  <2> USE DEF T
  <2>3. h \in j + 1 .. PacketCount + 1 /\ start[h] < start[j + 1]
    BY <2>2
  <2>4. j + 1 \in 1 .. PacketCount + 1 /\ h # j + 1
    BY <1>1, <1>2, <2>3
  <2>5. h - 1 \in j + 1 .. PacketCount + 1 /\ h - 1 \in 1 .. PacketCount /\ (h - 1) + 1 = h /\ ~(h <= h - 1)
    BY <1>1, <2>3, <2>4
  <2>6. ~(start[h - 1] < start[j + 1])
    BY <2>2, <2>5
  <2>7. start[h] = start[h - 1] + Len(ps[h - 1]) + 2
    BY <1>4, <2>5
  <2>8. start[h - 1] \in Nat /\ start[h] \in Nat /\ start[j + 1] \in Nat /\ Len(ps[h - 1]) \in Nat
    BY <1>1, <1>2, <1>3, <2>3, <2>4, <2>5
  <2> QED
    BY <2>3, <2>6, <2>7, <2>8
<1>6. k \in j + 1 .. PacketCount + 1 /\ j + 1 \in 1 .. PacketCount + 1
  BY <1>1
<1> QED
  BY <1>2, <1>5, <1>6

\* Every byte on the wire is a byte of the frame of the packet it belongs to.
LEMMA WireByte ==
  ASSUME NEW ps \in [1 .. PacketCount -> Packets], NEW w, NEW start, IsLayout(ps, w, start),
         NEW n \in 1 .. Len(w), NEW k, k = w[n].packet
  PROVE  /\ k \in 1 .. PacketCount
         /\ n \in start[k] + 1 .. start[k] + Len(ps[k]) + 2
         /\ w[n].value = Encode(ps[k])[n - start[k]]
         /\ w[n].value \in Byte
         /\ w[n].value = 0 <=> n = start[k + 1]
<1> DEFINE T == {h \in 1 .. PacketCount : n <= start[h + 1]}
<1>1. PacketCount \in Nat \ {0}
  BY ReceptionAssumption
<1>2. /\ \A h \in 1 .. PacketCount + 1 : start[h] \in Nat
      /\ start[1] = 0 /\ Len(w) = start[PacketCount + 1]
      /\ \A h \in 1 .. PacketCount : start[h + 1] = start[h] + Len(ps[h]) + 2
      /\ \A h \in 1 .. PacketCount : \A i \in 1 .. Len(ps[h]) + 2 :
           w[start[h] + i] = [value |-> Encode(ps[h])[i], packet |-> h]
  BY DEF IsLayout
<1>3. \A h \in 1 .. PacketCount : Len(ps[h]) \in Nat
  BY EncodeFacts
<1>4. PacketCount \in T /\ n \in Nat
  BY <1>1, <1>2
<1>5. PICK h \in T : \A i \in T : h <= i
  <2>1. T \in SUBSET Nat
    BY <1>1
  <2> HIDE DEF T
  <2> QED
    BY <1>4, <2>1, Least
<1>6. h \in 1 .. PacketCount /\ n <= start[h + 1]
  BY <1>5
<1>7. start[h] < n
  <2>1. CASE h = 1
    BY <1>2, <1>4, <2>1
  <2>2. CASE h # 1
    <3>1. h - 1 \in 1 .. PacketCount /\ (h - 1) + 1 = h /\ ~(h <= h - 1)
      BY <1>1, <1>6, <2>2
    <3>2. ~(n <= start[h])
      BY <1>5, <3>1
    <3>3. start[h] \in Nat
      BY <1>1, <1>2, <1>6
    <3> QED
      BY <1>4, <3>2, <3>3
  <2> QED
    BY <2>1, <2>2
<1>8. start[h] \in Nat /\ start[h + 1] = start[h] + Len(ps[h]) + 2 /\ Len(ps[h]) \in Nat
  BY <1>1, <1>2, <1>3, <1>6
<1>9. n - start[h] \in 1 .. Len(ps[h]) + 2 /\ start[h] + (n - start[h]) = n
  BY SMTT(20), <1>4, <1>6, <1>7, <1>8
<1>10. w[n] = [value |-> Encode(ps[h])[n - start[h]], packet |-> h]
  BY <1>2, <1>6, <1>9
<1>11. k = h /\ w[n].value = Encode(ps[h])[n - start[h]]
  BY <1>10
<1>12. /\ Encode(ps[h])[n - start[h]] \in Byte
       /\ Encode(ps[h])[n - start[h]] = 0 <=> n - start[h] = Len(ps[h]) + 2
  BY <1>6, <1>9, EncodeFacts
<1>13. n - start[h] = Len(ps[h]) + 2 <=> n = start[h + 1]
  <2> HIDE DEF T
  <2>1. n \in Int /\ start[h] \in Int /\ Len(ps[h]) \in Int
    BY <1>4, <1>8
  <2> QED
    BY SMTT(20), <1>8, <2>1
<1>14. n \in start[h] + 1 .. start[h] + Len(ps[h]) + 2
  BY SMTT(20), <1>4, <1>8, <1>9
<1> QED
  BY <1>6, <1>11, <1>12, <1>13, <1>14

\* Later bytes are of the same packet or of a later one, and after a delimiter
\* of a later one.
LEMMA WireOrder ==
  ASSUME NEW ps \in [1 .. PacketCount -> Packets], NEW w, NEW start, IsLayout(ps, w, start),
         NEW a \in 1 .. Len(w), NEW b \in 1 .. Len(w), a < b
  PROVE  /\ w[a].packet <= w[b].packet
         /\ w[a].value = 0 => w[a].packet < w[b].packet
         /\ w[a].value # 0 /\ b = a + 1 => w[a].packet = w[b].packet
<1> DEFINE j == w[a].packet
           k == w[b].packet
<1>1. PacketCount \in Nat \ {0}
  BY ReceptionAssumption
<1>2. /\ j \in 1 .. PacketCount /\ k \in 1 .. PacketCount
      /\ a \in start[j] + 1 .. start[j] + Len(ps[j]) + 2
      /\ b \in start[k] + 1 .. start[k] + Len(ps[k]) + 2
      /\ w[a].value = 0 <=> a = start[j + 1]
  <2>1. j = w[a].packet /\ k = w[b].packet
    OBVIOUS
  <2> HIDE DEF j, k
  <2>2. j \in 1 .. PacketCount /\ a \in start[j] + 1 .. start[j] + Len(ps[j]) + 2
    BY <2>1, WireByte
  <2>4. w[a].value = 0 <=> a = start[j + 1]
    BY <2>1, WireByte
  <2>3. k \in 1 .. PacketCount /\ b \in start[k] + 1 .. start[k] + Len(ps[k]) + 2
    BY <2>1, WireByte
  <2> QED
    BY <2>2, <2>3, <2>4
<1>3. \A h \in 1 .. PacketCount :
        /\ start[h] \in Nat /\ Len(ps[h]) \in Nat
        /\ start[h + 1] = start[h] + Len(ps[h]) + 2
  BY SMTT(20), <1>1, EncodeFacts DEF IsLayout
<1> HIDE DEF j, k
<1>a. j \in 1 .. PacketCount + 1 /\ k \in 1 .. PacketCount + 1
  BY <1>1, <1>2
<1>4. j < k => start[j + 1] <= start[k]
  BY <1>2, <1>a, LayoutOrder
<1>5. k < j => start[k + 1] <= start[j]
  BY <1>2, <1>a, LayoutOrder
<1>b. /\ j \in Nat /\ k \in Nat /\ a \in Nat /\ b \in Nat
      /\ start[j] \in Nat /\ start[k] \in Nat /\ Len(ps[j]) \in Nat /\ Len(ps[k]) \in Nat
      /\ start[j + 1] = start[j] + Len(ps[j]) + 2 /\ start[k + 1] = start[k] + Len(ps[k]) + 2
  BY <1>1, <1>2, <1>3
<1>c. start[j] < a /\ a <= start[j + 1] /\ start[k] < b /\ b <= start[k + 1]
  <2>1. start[j] + 1 <= a /\ a <= start[j] + Len(ps[j]) + 2
    BY <1>2
  <2>2. start[k] + 1 <= b /\ b <= start[k] + Len(ps[k]) + 2
    BY <1>2
  <2>3. start[j] < a
    BY <1>b, <2>1
  <2>4. a <= start[j + 1]
    BY <1>b, <2>1
  <2>5. start[k] < b
    BY <1>b, <2>2
  <2>6. b <= start[k + 1]
    BY <1>b, <2>2
  <2> QED
    BY <2>3, <2>4, <2>5, <2>6
<1>6. j <= k
  BY SMTT(20), <1>5, <1>b, <1>c
<1>7. w[a].value = 0 => j # k
  BY <1>2, <1>b, <1>c
<1>8. ASSUME w[a].value # 0, b = a + 1 PROVE j = k
  <2>1. a # start[j + 1]
    BY <1>2, <1>8
  <2>2. a < start[j + 1]
    BY SMTT(20), <1>b, <1>c, <2>1
  <2>3. ~(j < k)
    BY SMTT(20), <1>4, <1>8, <1>b, <1>c, <2>2
  <2> QED
    BY <1>6, <1>b, <2>3
<1> QED
  BY <1>1, <1>2, <1>6, <1>7, <1>8 DEF j, k

-----------------------------------------------------------------------------
(* Places in the ring.                                                      *)

\* What is left of a sum is what is left of its first part and the second one,
\* or that less the size of the ring.
LEMMA ModSum ==
  ASSUME NEW d \in Nat \ {0}, NEW a \in Nat, NEW i \in Nat
  PROVE  /\ a % d \in 0 .. d - 1
         /\ (a % d) + i < d => (a + i) % d = (a % d) + i
         /\ (a % d) + i >= d /\ (a % d) + i < d + d => (a + i) % d = (a % d) + i - d
<1>1. a % d \in 0 .. d - 1
  OBVIOUS
<1>2. a = d * (a \div d) + (a % d) /\ a \div d \in Int
  <2>1. \A x \in Nat, y \in Nat \ {0} : x \div y \in Int
    OBVIOUS
  <2>2. \A x \in Nat, y \in Nat \ {0} : x = y * (x \div y) + (x % y)
    OBVIOUS
  <2> QED
    BY <2>1, <2>2
<1> DEFINE q == a \div d
           r == a % d
<1>3. a = d * q + r /\ q \in Int /\ r \in Int
  BY <1>1, <1>2
<1> HIDE DEF q, r
<1>4. ASSUME r + i < d, 0 <= r PROVE (a + i) % d = r + i
  <2>1. a + i = d * q + (r + i)
    BY <1>3
  <2>2. \A x \in Int, y \in 0 .. d - 1 : (d * x + y) % d = y
    OBVIOUS
  <2> QED
    BY <1>3, <1>4, <2>1, <2>2
<1>5. ASSUME r + i >= d, r + i < d + d PROVE (a + i) % d = r + i - d
  <2>1. a + i = d * (q + 1) + (r + i - d) /\ q + 1 \in Int /\ r + i - d \in 0 .. d - 1
    BY <1>3, <1>5
  <2>2. \A x \in Int, y \in 0 .. d - 1 : (d * x + y) % d = y
    OBVIOUS
  <2> QED
    BY <1>3, <1>5, <2>1, <2>2
<1> QED
  BY <1>1, <1>4, <1>5 DEF r

\* Two positions less than a ring apart are different cells.
LEMMA ModDiffers ==
  ASSUME NEW d \in Nat \ {0}, NEW a \in Nat, NEW b \in Nat, a < b, b < a + d
  PROVE  a % d # b % d
<1>1. b - a \in Nat /\ b - a < d /\ b - a > 0 /\ a + (b - a) = b
  OBVIOUS
<1>2. /\ a % d \in 0 .. d - 1
      /\ (a % d) + (b - a) < d => (a + (b - a)) % d = (a % d) + (b - a)
      /\ (a % d) + (b - a) >= d /\ (a % d) + (b - a) < d + d => (a + (b - a)) % d = (a % d) + (b - a) - d
  BY <1>1, ModSum
<1> QED
  BY <1>1, <1>2

\* The cells to read are those of the bytes after the ones already read.
LEMMA CellsFacts ==
  ASSUME NEW read \in Nat, NEW bytes \in 1 .. BufferSize
  PROVE  LET todo == CellsToRead(read % BufferSize, bytes, read + bytes)
         IN  /\ todo \in Seq(Cells) /\ Len(todo) = bytes
             /\ \A j \in 1 .. bytes : todo[j] = (read + j - 1) % BufferSize
<1> DEFINE d == BufferSize
           o == read % d
           todo == CellsToRead(o, bytes, read + bytes)
           cells == [j \in 1 .. bytes |-> (read + j - 1) % d]
<1>1. d \in Nat \ {0}
  BY ReceptionAssumption
<1>2. o \in 0 .. d - 1 /\ bytes \in Nat
  BY <1>1, ModSum
<1>3. ASSUME NEW i \in Nat, i <= d
      PROVE  /\ o + i < d => (read + i) % d = o + i
             /\ o + i >= d => (read + i) % d = o + i - d
             /\ (read + i) % d \in Cells
  <2>1. /\ o + i < d => (read + i) % d = o + i
        /\ o + i >= d /\ o + i < d + d => (read + i) % d = o + i - d
    BY <1>1, ModSum
  <2>2. o + i < d + d
    BY <1>1, <1>2, <1>3
  <2>3. read + i \in Nat
    OBVIOUS
  <2>4. (read + i) % d \in 0 .. d - 1
    BY <1>1, <2>3
  <2> QED
    BY <2>1, <2>2, <2>4 DEF Cells
<1> HIDE DEF o
<1>4. cells \in [1 .. bytes -> Cells]
  <2>1. ASSUME NEW j \in 1 .. bytes PROVE (read + j - 1) % d \in Cells
    <3>1. j - 1 \in Nat /\ j - 1 <= d /\ read + (j - 1) = read + j - 1
      BY <1>1, <1>2
    <3>2. (read + (j - 1)) % d \in Cells
      BY <1>3, <3>1
    <3> QED
      BY <3>1, <3>2
  <2> QED
    BY <2>1
<1>5. todo = cells
  <2>1. CASE o + bytes < d
    <3>1. todo = [j \in 1 .. bytes |-> o + j - 1]
      BY <2>1 DEF CellsToRead
    <3>2. ASSUME NEW j \in 1 .. bytes PROVE (read + j - 1) % d = o + j - 1
      <4>1. j - 1 \in Nat /\ j - 1 <= d /\ read + (j - 1) = read + j - 1 /\ o + (j - 1) < d
        BY <1>1, <1>2, <2>1
      <4>2. (read + (j - 1)) % d = o + (j - 1)
        BY <1>3, <4>1
      <4> QED
        BY <1>2, <4>1, <4>2
    <3> QED
      BY <3>1, <3>2
  <2>2. CASE ~(o + bytes < d)
    <3> DEFINE p == [j \in 1 .. d - o |-> o + j - 1]
               q == [j \in 1 .. (read + bytes) % d |-> j - 1]
    <3>1. todo = p \o q
      BY <2>2 DEF CellsToRead
    <3>2. (read + bytes) % d = o + bytes - d /\ o + bytes - d \in Nat /\ d - o \in Nat
      <4>1. bytes <= d /\ o + bytes >= d
        BY <1>1, <1>2, <2>2
      <4>2. (read + bytes) % d = o + bytes - d
        BY <1>2, <1>3, <4>1
      <4> QED
        BY <1>1, <1>2, <4>1, <4>2
    <3>3. p \in [1 .. d - o -> Int] /\ q \in [1 .. (read + bytes) % d -> Int]
      BY <1>2
    <3>4. p \in Seq(Int) /\ q \in Seq(Int) /\ Len(p) = d - o /\ Len(q) = o + bytes - d
      <4> HIDE DEF p, q
      <4> QED
        BY <3>2, <3>3, SeqDef, LenProperties
    <3>5. /\ p \o q \in Seq(Int) /\ Len(p \o q) = bytes
          /\ \A j \in 1 .. bytes : (p \o q)[j] = IF j <= d - o THEN p[j] ELSE q[j - (d - o)]
      <4> HIDE DEF p, q
      <4>1. Len(p) + Len(q) = bytes
        BY <1>1, <1>2, <3>4
      <4> QED
        BY <3>4, <4>1, ConcatProperties
    <3>6. ASSUME NEW j \in 1 .. bytes PROVE (p \o q)[j] = (read + j - 1) % d
      <4>1. j - 1 \in Nat /\ j - 1 <= d /\ read + (j - 1) = read + j - 1 /\ j \in Nat
        BY <1>1, <1>2
      <4>2. CASE j <= d - o
        <5>1. o + (j - 1) < d /\ j \in 1 .. d - o
          BY <1>1, <1>2, <4>1, <4>2
        <5>2. (read + (j - 1)) % d = o + (j - 1)
          BY <1>3, <4>1, <5>1
        <5>3. (p \o q)[j] = o + j - 1
          <6>1. p[j] = o + j - 1
            BY <5>1
          <6> HIDE DEF p, q
          <6> QED
            BY <3>5, <4>2, <6>1
        <5> QED
          BY <1>2, <4>1, <5>2, <5>3
      <4>3. CASE ~(j <= d - o)
        <5>1. o + (j - 1) >= d /\ j - (d - o) \in 1 .. o + bytes - d
          BY <1>1, <1>2, <4>1, <4>3
        <5>2. (read + (j - 1)) % d = o + (j - 1) - d
          BY <1>3, <4>1, <5>1
        <5>3. (p \o q)[j] = (j - (d - o)) - 1
          <6>1. q[j - (d - o)] = (j - (d - o)) - 1
            BY <3>2, <5>1
          <6> HIDE DEF p, q
          <6> QED
            BY <3>5, <4>3, <6>1
        <5>4. o + (j - 1) - d = (j - (d - o)) - 1
          BY <1>1, <1>2, <4>1
        <5> QED
          BY <4>1, <5>2, <5>3, <5>4
      <4> QED
        BY <4>2, <4>3
    <3>7. p \o q = cells
      <4>1. DOMAIN cells = 1 .. bytes /\ \A j \in 1 .. bytes : cells[j] = (read + j - 1) % d
        OBVIOUS
      <4>2. cells \in Seq(Cells) /\ Len(cells) = bytes
        <5> HIDE DEF cells
        <5> QED
          BY <1>2, <1>4, SeqDef, LenProperties
      <4>3. DOMAIN (p \o q) = 1 .. bytes /\ p \o q = [j \in 1 .. bytes |-> (p \o q)[j]]
        <5> HIDE DEF p, q
        <5> QED
          BY <3>5, LenProperties
      <4> HIDE DEF p, q, cells
      <4> QED
        BY <1>4, <3>6, <4>1, <4>3
    <3> QED
      BY <3>1, <3>7
  <2> QED
    BY <2>1, <2>2
<1>6. cells \in Seq(Cells) /\ Len(cells) = bytes /\ \A j \in 1 .. bytes : cells[j] = (read + j - 1) % d
  <2>1. \A j \in 1 .. bytes : cells[j] = (read + j - 1) % d
    OBVIOUS
  <2> HIDE DEF cells
  <2> QED
    BY <1>2, <1>4, <2>1, SeqDef, LenProperties
<1> QED
  BY <1>5, <1>6 DEF o

\* Wherever the reader begins and however much it takes there to be, it reads
\* cells of the ring.
LEMMA CellsType ==
  ASSUME NEW offset \in Cells, NEW bytes \in Nat, NEW received \in Nat
  PROVE  CellsToRead(offset, bytes, received) \in Seq(Cells)
<1>1. BufferSize \in Nat \ {0} /\ offset \in 0 .. BufferSize - 1
  BY ReceptionAssumption DEF Cells
<1>2. received % BufferSize \in 0 .. BufferSize - 1
  BY <1>1
<1>3. CASE offset + bytes < BufferSize
  <2>1. [i \in 1 .. bytes |-> offset + i - 1] \in [1 .. bytes -> Cells]
    BY <1>1, <1>3 DEF Cells
  <2>2. [i \in 1 .. bytes |-> offset + i - 1] \in Seq(Cells)
    BY <2>1, SeqDef
  <2> QED
    BY <1>3, <2>2 DEF CellsToRead
<1>4. CASE ~(offset + bytes < BufferSize)
  <2> DEFINE p == [i \in 1 .. BufferSize - offset |-> offset + i - 1]
             q == [i \in 1 .. received % BufferSize |-> i - 1]
  <2>1. p \in [1 .. BufferSize - offset -> Cells] /\ BufferSize - offset \in Nat
    BY <1>1 DEF Cells
  <2>2. q \in [1 .. received % BufferSize -> Cells] /\ received % BufferSize \in Nat
    BY <1>1, <1>2 DEF Cells
  <2>3. CellsToRead(offset, bytes, received) = p \o q
    BY <1>4 DEF CellsToRead
  <2> HIDE DEF p, q
  <2>4. p \in Seq(Cells) /\ q \in Seq(Cells)
    BY <2>1, <2>2, SeqDef
  <2> QED
    BY <2>3, <2>4, ConcatProperties
<1> QED
  BY <1>3, <1>4

-----------------------------------------------------------------------------
(* cobs_decode_incremental.                                                 *)

(* The states of the decoder: between frames it is as it was started, and   *)
(* within one the distance to the next zero is not yet used up.             *)
Decoders ==
  {d \in [p : Nat, c : Byte, dst : Seq(Byte)] :
     /\ Len(d.dst) <= DecodeSize
     /\ d.p = 0 => d = Started
     /\ d.p # 0 => d.c # 0 /\ Len(d.dst) = d.p - 1}

\* A delimiter always ends the frame; any other byte adds to it, within the
\* decode buffer.
LEMMA DecodeFacts ==
  ASSUME NEW d \in Decoders, NEW b \in Byte
  PROVE  /\ Decode(d, b).state \in Decoders /\ Decode(d, b).rc \in Int
         /\ b = 0 => /\ Decode(d, b).state = Started
                     /\ Decode(d, b).rc = IF d.p = 0 THEN -3 ELSE IF d.c = 1 THEN d.p - 1 ELSE -1
         /\ b # 0 => /\ Decode(d, b).state.p # 0
                     /\ Decode(d, b).rc <= 0
<1>1. /\ d \in [p : Nat, c : Byte, dst : Seq(Byte)] /\ d.p \in Nat /\ d.c \in Byte
      /\ d.dst \in Seq(Byte) /\ Len(d.dst) <= DecodeSize /\ Len(d.dst) \in Nat
      /\ d.p = 0 => d = Started
      /\ d.p # 0 => d.c # 0 /\ Len(d.dst) = d.p - 1
  BY LenProperties DEF Decoders
<1>2. DecodeSize \in Nat \ {0} /\ 0 \in Byte
  BY ReceptionAssumption DEF Byte
<1>3. Started \in Decoders
  BY <1>2, EmptySeq DEF Decoders, Started
<1>4. CASE b = 0
  <2>1. Decode(d, b) = Ended(d)
    BY <1>4 DEF Decode
  <2>2. /\ Ended(d).state = Started
        /\ Ended(d).rc = IF d.p = 0 THEN -3 ELSE IF d.c = 1 THEN d.p - 1 ELSE -1
    BY DEF Ended
  <2>3. Ended(d).rc \in Int
    BY <1>1, <2>2
  <2> QED
    BY <1>3, <1>4, <2>1, <2>2, <2>3
<1>5. CASE b # 0 /\ d.p = 0
  <2> DEFINE s == [d EXCEPT !.p = 1, !.c = b]
  <2>1. Decode(d, b) = [state |-> s, rc |-> 0]
    BY <1>5 DEF Decode
  <2>2. d.dst = <<>> /\ Len(d.dst) = 0
    <3>1. d.dst = <<>>
      BY <1>1, <1>5 DEF Started
    <3> QED
      BY <3>1, EmptySeq
  <2>3. s.p = 1 /\ s.c = b /\ s.dst = d.dst /\ s \in [p : Nat, c : Byte, dst : Seq(Byte)]
    BY <1>1
  <2> HIDE DEF s
  <2>4. s \in Decoders /\ s.p # 0
    BY <1>2, <1>5, <2>2, <2>3 DEF Decoders
  <2> QED
    BY <1>5, <2>1, <2>4
<1>6. CASE b # 0 /\ d.p # 0
  <2> DEFINE over == d.c = 1
             c == IF over THEN b ELSE d.c - 1
             v == IF over THEN 0 ELSE b
             s == [p |-> d.p + 1, c |-> c, dst |-> Append(d.dst, v)]
             t == [d EXCEPT !.c = c]
  <2>1. Decode(d, b) = IF Room(d) THEN [state |-> s, rc |-> 0] ELSE [state |-> t, rc |-> -2]
    BY <1>6 DEF Decode
  <2>2. c \in Byte /\ c # 0 /\ v \in Byte
    BY <1>1, <1>6 DEF Byte
  <2> HIDE DEF c, v, over
  <2>3. ASSUME Room(d) PROVE s \in Decoders /\ s.p # 0
    <3>1. /\ Append(d.dst, v) \in Seq(Byte)
          /\ Len(Append(d.dst, v)) = Len(d.dst) + 1
      BY <1>1, <2>2, AppendProperties
    <3>2. s.p = d.p + 1 /\ s.c = c /\ s.dst = Append(d.dst, v)
      OBVIOUS
    <3>3. s \in [p : Nat, c : Byte, dst : Seq(Byte)]
      BY <1>1, <2>2, <3>1
    <3>4. Len(s.dst) <= DecodeSize /\ Len(s.dst) = s.p - 1 /\ s.p # 0
      BY <1>1, <1>2, <1>6, <2>3, <3>1, <3>2 DEF Room
    <3> HIDE DEF s
    <3> QED
      BY <2>2, <3>2, <3>3, <3>4 DEF Decoders
  <2>4. t \in Decoders /\ t.p # 0
    <3>1. t.p = d.p /\ t.c = c /\ t.dst = d.dst
      BY <1>1
    <3>2. t \in [p : Nat, c : Byte, dst : Seq(Byte)]
      BY <1>1, <2>2
    <3> HIDE DEF t
    <3> QED
      BY <1>1, <1>6, <2>2, <3>1, <3>2 DEF Decoders
  <2> HIDE DEF s, t
  <2> QED
    BY <1>6, <2>1, <2>3, <2>4
<1> QED
  BY <1>4, <1>5, <1>6

-----------------------------------------------------------------------------
(* Types, wherever line errors fall.                                        *)

Sending ==
  /\ packets \in [1 .. PacketCount -> Packets]
  /\ wire = WireOf(packets)
  /\ sent \in 0 .. Len(wire)

Ring ==
  /\ rx_buf \in [Cells -> [number : 0 .. sent, value : Byte]]
  /\ counter \in Cells /\ rx_buffer_offset \in Nat /\ rx_bytes_already_read \in Nat

Reading ==
  /\ reader \in [pc : Places, received : Nat, bytes : Int, todo : Seq(Cells)]
  /\ reader.pc \in {"copy", "store"} => reader.bytes > 0

Decoding ==
  /\ decoder \in Decoders
  /\ accepted \in Seq(1 .. PacketCount)
  /\ seen \in 0 .. sent /\ gap \in 0 .. sent
  /\ origin \in 0 .. PacketCount

Types == Sending /\ Ring /\ Reading /\ Decoding /\ faults \in 0 .. MaxFaults

\* The numbers on the wire are those of bytes and packets there are.
LEMMA WireType ==
  Sending =>
    /\ wire \in Seq(Item) /\ Len(wire) \in Nat /\ sent \in Nat
    /\ \A n \in 1 .. Len(wire) : wire[n].value \in Byte /\ wire[n].packet \in 1 .. PacketCount
<1> SUFFICES ASSUME Sending
             PROVE  /\ wire \in Seq(Item) /\ Len(wire) \in Nat /\ sent \in Nat
                    /\ \A n \in 1 .. Len(wire) :
                         wire[n].value \in Byte /\ wire[n].packet \in 1 .. PacketCount
  OBVIOUS
<1>1. wire \in Seq(Item)
  BY WireHasLayout DEF Sending, IsLayout
<1>2. Len(wire) \in Nat /\ \A n \in 1 .. Len(wire) : wire[n] \in Item
  BY <1>1, LenProperties, ElementOfSeq
<1>3. sent \in Nat
  BY <1>2 DEF Sending
<1> QED
  BY <1>1, <1>2, <1>3 DEF Item

\* The initial state is well-formed.
LEMMA TypesInit == Init => Types
<1> SUFFICES ASSUME Init PROVE Types
  OBVIOUS
<1> USE DEF Init
<1>1. Sending
  <2>1. packets \in [1 .. PacketCount -> Packets] /\ wire = WireOf(packets) /\ sent = 0
    OBVIOUS
  <2>2. \E start : IsLayout(packets, wire, start)
    BY <2>1, WireHasLayout
  <2>3. Len(wire) \in Nat
    BY <2>2, LenProperties DEF IsLayout
  <2> QED
    BY <2>1, <2>3 DEF Sending
<1>2. Ring
  <2>1. 0 \in Cells /\ 0 \in Byte /\ 0 \in 0 .. sent
    BY ReceptionAssumption DEF Cells, Byte
  <2> QED
    BY <2>1 DEF Ring
<1>3. Reading
  BY EmptySeq DEF Reading, Places
<1>4. Decoding
  <2>1. Started \in Decoders
    BY ReceptionAssumption, EmptySeq DEF Started, Decoders, Byte
  <2> QED
    BY <2>1, ReceptionAssumption, EmptySeq DEF Decoding
<1> QED
  BY <1>1, <1>2, <1>3, <1>4, ReceptionAssumption DEF Types

\* A byte that arrives, as it was sent or not, leaves the state well-formed.
LEMMA TypesArrive ==
  ASSUME Types, NEW v \in Byte, Arrive(v)
  PROVE  Sending' /\ Ring' /\ Reading' /\ Decoding' /\ sent' = sent + 1 /\ sent' \in 0 .. Len(wire)
<1>1. Len(wire) \in Nat /\ sent \in Nat
  BY WireType DEF Types
<1>2. /\ sent < Len(wire) /\ sent' = sent + 1
      /\ rx_buf' = [rx_buf EXCEPT ![counter] = [number |-> sent', value |-> v]]
      /\ UNCHANGED <<packets, wire, rx_bytes_already_read, reader, decoder, accepted, seen, gap, origin>>
  BY DEF Arrive, fixed, decoding
<1>3. sent' \in 0 .. Len(wire) /\ 0 .. sent \subseteq 0 .. sent'
  BY <1>1, <1>2
<1>4. Sending'
  BY <1>2, <1>3 DEF Types, Sending
<1>5. Ring'
  <2>1. rx_buf \in [Cells -> [number : 0 .. sent', value : Byte]]
    <3>1. rx_buf \in [Cells -> [number : 0 .. sent, value : Byte]]
      BY DEF Types, Ring
    <3>2. [number : 0 .. sent, value : Byte] \subseteq [number : 0 .. sent', value : Byte]
      BY <1>3
    <3> QED
      BY <3>1, <3>2
  <2>2. [number |-> sent', value |-> v] \in [number : 0 .. sent', value : Byte]
    BY <1>1, <1>2
  <2>3. rx_buf' \in [Cells -> [number : 0 .. sent', value : Byte]]
    BY <1>2, <2>1, <2>2
  <2>4. counter' \in Cells /\ rx_buffer_offset' \in Nat
    BY ReceptionAssumption DEF Arrive, Advance, Types, Ring, Cells
  <2> QED
    BY <1>2, <2>3, <2>4 DEF Types, Ring
<1>6. Reading'
  BY <1>2 DEF Types, Reading
<1>7. Decoding'
  BY <1>2, <1>3 DEF Types, Decoding
<1> QED
  BY <1>2, <1>3, <1>4, <1>5, <1>6, <1>7

\* What arrives, as it was sent or not, is a byte.
LEMMA ArrivedByte == Types /\ (ArriveWell \/ ArriveWrong) => \E v \in Byte : Arrive(v)
<1>1. ASSUME Types, ArriveWell PROVE \E v \in Byte : Arrive(v)
  <2>1. sent + 1 \in 1 .. Len(wire)
    BY <1>1, WireType DEF ArriveWell, Types
  <2>2. wire[sent + 1].value \in Byte
    BY <1>1, <2>1, WireType DEF Types
  <2> QED
    BY <1>1, <2>2 DEF ArriveWell
<1>2. ASSUME ArriveWrong PROVE \E v \in Byte : Arrive(v)
  BY <1>2, ReceptionAssumption DEF ArriveWrong
<1> QED
  BY <1>1, <1>2

\* What ProcessByte does, named.
LEMMA ProcessByteFacts ==
  ASSUME Types, ProcessByte,
         NEW b, b = rx_buf[Head(reader.todo)], NEW d, d = Decode(decoder, b.value),
         NEW right, right = (b.number > 0 /\ b.value = wire[b.number].value)
  PROVE  /\ reader.pc = "copy" /\ reader.todo # <<>>
         /\ Head(reader.todo) \in Cells
         /\ b.number \in 0 .. sent /\ b.value \in Byte
         /\ decoder' = d.state
         /\ origin' = IF right /\ decoder.p = 0 THEN wire[b.number].packet
                      ELSE IF right /\ b.number = seen + 1 THEN origin ELSE 0
         /\ accepted' = IF d.rc >= HeaderSize /\ origin' # 0 /\ decoder.dst = packets[origin']
                        THEN Append(accepted, origin') ELSE accepted
         /\ seen' = b.number
         /\ gap' = IF ~right THEN b.number
                   ELSE IF b.number # seen + 1 THEN b.number - 1 ELSE gap
         /\ reader' = [reader EXCEPT !.todo = Tail(@)]
         /\ UNCHANGED <<packets, wire, sent, rx_buf, counter, rx_buffer_offset,
                        rx_bytes_already_read, faults>>
<1>1. reader.pc = "copy" /\ reader.todo # <<>>
  BY DEF ProcessByte
<1>2. reader.todo \in Seq(Cells)
  BY DEF Types, Reading
<1>3. Head(reader.todo) \in Cells
  BY <1>1, <1>2, HeadTailProperties
<1>4. b \in [number : 0 .. sent, value : Byte]
  BY <1>3 DEF Types, Ring
<1>5. b.number \in 0 .. sent /\ b.value \in Byte
  BY <1>4
<1> QED
  BY <1>1, <1>3, <1>5 DEF ProcessByte, fixed, dma

\* Every step leaves the state well-formed.
LEMMA TypesStep == Types /\ [Next]_vars => Types'
<1> SUFFICES ASSUME Types, [Next]_vars PROVE Types'
  OBVIOUS
<1>0. MaxFaults \in Nat /\ Noise \subseteq Byte /\ BufferSize \in Nat \ {0}
  BY ReceptionAssumption
<1>w. /\ Len(wire) \in Nat /\ sent \in Nat
      /\ \A n \in 1 .. Len(wire) : wire[n].value \in Byte /\ wire[n].packet \in 1 .. PacketCount
  BY WireType DEF Types
<1>1. CASE ArriveWell
  <2>1. wire[sent + 1].value \in Byte /\ Arrive(wire[sent + 1].value) /\ faults' = faults
    <3>1. sent + 1 \in 1 .. Len(wire)
      BY <1>1, <1>w DEF ArriveWell
    <3> QED
      BY <1>1, <1>w, <3>1 DEF ArriveWell
  <2> QED
    BY <2>1, TypesArrive DEF Types
<1>2. CASE ArriveWrong
  <2>1. PICK v \in Noise : Arrive(v)
    BY <1>2 DEF ArriveWrong
  <2>2. faults' \in 0 .. MaxFaults
    BY <1>0, <1>2 DEF ArriveWrong, Types
  <2>3. v \in Byte
    BY <1>0
  <2>4. Sending' /\ Ring' /\ Reading' /\ Decoding'
    BY <2>1, <2>3, TypesArrive
  <2> QED
    BY <2>2, <2>4 DEF Types
<1>3. CASE LineError
  <2>1. /\ faults' \in 0 .. MaxFaults /\ sent' \in 0 .. Len(wire) /\ sent' = sent + 1
        /\ counter' = 0 /\ rx_buffer_offset' = 0 /\ rx_bytes_already_read' = 0
        /\ UNCHANGED <<packets, wire, rx_buf, reader, decoder, accepted, seen, gap, origin>>
    BY <1>0, <1>3, <1>w DEF LineError, Types, fixed, decoding
  <2>2. 0 \in Cells /\ 0 .. sent \subseteq 0 .. sent'
    BY <1>0, <1>w, <2>1 DEF Cells
  <2>3. rx_buf \in [Cells -> [number : 0 .. sent', value : Byte]]
    <3>1. rx_buf \in [Cells -> [number : 0 .. sent, value : Byte]]
      BY DEF Types, Ring
    <3>2. [number : 0 .. sent, value : Byte] \subseteq [number : 0 .. sent', value : Byte]
      BY <2>2
    <3> QED
      BY <3>1, <3>2
  <2>4. Sending' /\ Ring'
    BY <2>1, <2>2, <2>3 DEF Types, Sending, Ring
  <2>5. Reading' /\ Decoding'
    BY <2>1, <2>2 DEF Types, Reading, Decoding
  <2> QED
    BY <2>1, <2>4, <2>5 DEF Types
<1>4. CASE ReadFirst \/ ReadSecond \/ BytesToRead \/ ReadPosition \/ LoadRead
  <2>1. UNCHANGED <<packets, wire, sent, rx_buf, counter, rx_buffer_offset,
                    rx_bytes_already_read, decoder, accepted, seen, gap, origin, faults>>
    BY <1>4 DEF ReadFirst, ReadSecond, BytesToRead, ReadPosition, LoadRead, fixed, dma, decoding
  <2>2. /\ rx_buffer_offset \in Nat /\ counter \in Nat /\ rx_bytes_already_read \in Nat
        /\ reader.received \in Nat /\ reader.bytes \in Int /\ reader.todo \in Seq(Cells)
        /\ <<>> \in Seq(Cells)
        /\ reader.pc \in {"copy", "store"} => reader.bytes > 0
    BY <1>0, EmptySeq DEF Types, Ring, Reading, Cells
  <2>3. Reading'
    <3>1. CASE ReadFirst
      BY <2>2, <3>1 DEF ReadFirst, Go, Reading, Places
    <3>2. CASE ReadSecond
      BY <2>2, <3>2 DEF ReadSecond, Go, Reading, Places
    <3>3. CASE BytesToRead
      BY <2>2, <3>3 DEF BytesToRead, Go, Reading, Places
    <3>4. CASE ReadPosition
      <4> DEFINE cells == CellsToRead(rx_bytes_already_read % BufferSize, reader.bytes, reader.received)
      <4>1. ASSUME ~(reader.bytes <= 0) PROVE cells \in Seq(Cells)
        <5>1. reader.bytes \in Nat /\ rx_bytes_already_read % BufferSize \in Cells
          BY <1>0, <2>2, <4>1 DEF Cells
        <5> QED
          BY <2>2, <5>1, CellsType
      <4>2. IF reader.bytes <= 0 THEN Go("idle", 0, 0, <<>>)
            ELSE Go("copy", reader.received, reader.bytes, cells)
        BY <3>4 DEF ReadPosition
      <4> HIDE DEF cells
      <4>3. CASE reader.bytes <= 0
        <5>1. reader' = [pc |-> "idle", received |-> 0, bytes |-> 0, todo |-> <<>>]
          BY <4>2, <4>3 DEF Go
        <5> QED
          BY <2>2, <5>1 DEF Reading, Places
      <4>4. CASE ~(reader.bytes <= 0)
        <5>1. reader' = [pc |-> "copy", received |-> reader.received, bytes |-> reader.bytes, todo |-> cells]
          BY <4>2, <4>4 DEF Go
        <5>2. reader.bytes > 0
          BY <2>2, <4>4
        <5> QED
          BY <2>2, <4>1, <4>4, <5>1, <5>2 DEF Reading, Places
      <4> QED
        BY <4>3, <4>4
    <3>5. CASE LoadRead
      BY <2>2, <3>5 DEF LoadRead, Go, Reading, Places
    <3> QED
      BY <1>4, <3>1, <3>2, <3>3, <3>4, <3>5
  <2> QED
    BY <2>1, <2>3 DEF Types, Sending, Ring, Decoding
<1>5. CASE StoreRead
  <2>1. /\ reader.pc = "store" /\ rx_bytes_already_read' = reader.received + reader.bytes
        /\ reader' = [pc |-> "idle", received |-> 0, bytes |-> 0, todo |-> <<>>]
        /\ UNCHANGED <<packets, wire, sent, rx_buf, counter, rx_buffer_offset,
                       decoder, accepted, seen, gap, origin, faults>>
    BY <1>5 DEF StoreRead, Go, fixed, dma, decoding
  <2>2. rx_bytes_already_read' \in Nat
    BY <2>1 DEF Types, Reading
  <2>3. Reading'
    BY <2>1, EmptySeq DEF Reading, Places
  <2> QED
    BY <2>1, <2>2, <2>3 DEF Types, Sending, Ring, Decoding
<1>6. CASE ProcessByte
  <2> DEFINE b == rx_buf[Head(reader.todo)]
             d == Decode(decoder, b.value)
             right == b.number > 0 /\ b.value = wire[b.number].value
  <2>1. /\ reader.pc = "copy" /\ reader.todo # <<>>
        /\ b.number \in 0 .. sent /\ b.value \in Byte
        /\ decoder' = d.state
        /\ origin' = IF right /\ decoder.p = 0 THEN wire[b.number].packet
                     ELSE IF right /\ b.number = seen + 1 THEN origin ELSE 0
        /\ accepted' = IF d.rc >= HeaderSize /\ origin' # 0 /\ decoder.dst = packets[origin']
                       THEN Append(accepted, origin') ELSE accepted
        /\ seen' = b.number
        /\ gap' = IF ~right THEN b.number
                  ELSE IF b.number # seen + 1 THEN b.number - 1 ELSE gap
        /\ reader' = [reader EXCEPT !.todo = Tail(@)]
        /\ UNCHANGED <<packets, wire, sent, rx_buf, counter, rx_buffer_offset,
                       rx_bytes_already_read, faults>>
    BY <1>6, ProcessByteFacts
  <2>2. d.state \in Decoders
    <3>1. b.value \in Byte /\ decoder \in Decoders
      BY <2>1 DEF Types, Decoding
    <3> QED
      BY <3>1, DecodeFacts
  <2> HIDE DEF b, d
  <2>3. right => b.number \in 1 .. Len(wire)
    BY <1>w, <2>1 DEF Types, Sending
  <2> HIDE DEF right
  <2>4. origin' \in 0 .. PacketCount
    <3>1. origin \in 0 .. PacketCount /\ 0 \in 0 .. PacketCount
      BY ReceptionAssumption DEF Types, Decoding
    <3>2. right => wire[b.number].packet \in 0 .. PacketCount
      BY <1>w, <2>3, ReceptionAssumption
    <3>3. CASE right /\ decoder.p = 0
      BY <2>1, <3>2, <3>3
    <3>4. CASE ~(right /\ decoder.p = 0)
      <4>1. origin' = IF right /\ b.number = seen + 1 THEN origin ELSE 0
        BY <2>1, <3>4
      <4> QED
        BY <3>1, <4>1
    <3> QED
      BY <3>3, <3>4
  <2>5. accepted' \in Seq(1 .. PacketCount)
    <3>1. accepted \in Seq(1 .. PacketCount)
      BY DEF Types, Decoding
    <3>2. origin' # 0 => Append(accepted, origin') \in Seq(1 .. PacketCount)
      <4>1. origin' # 0 => origin' \in 1 .. PacketCount
        BY <2>4, ReceptionAssumption
      <4> QED
        BY <3>1, <4>1, AppendProperties
    <3> QED
      BY <2>1, <3>1, <3>2
  <2>6. seen' \in 0 .. sent /\ gap' \in 0 .. sent
    <3>1. gap \in 0 .. sent
      BY DEF Types, Decoding
    <3>2. right => b.number - 1 \in 0 .. sent
      BY <1>w, <2>1, <2>3
    <3> QED
      BY <2>1, <3>1, <3>2
  <2>7. Reading'
    <3>1. Tail(reader.todo) \in Seq(Cells)
      BY <2>1, HeadTailProperties DEF Types, Reading
    <3> QED
      BY <2>1, <3>1 DEF Types, Reading
  <2> QED
    BY <2>1, <2>2, <2>4, <2>5, <2>6, <2>7 DEF Types, Sending, Ring, Decoding
<1>7. CASE UNCHANGED vars
  BY <1>7 DEF vars, fixed, dma, decoding, Types, Sending, Ring, Reading, Decoding
<1> QED
  BY <1>1, <1>2, <1>3, <1>4, <1>5, <1>6, <1>7 DEF Next, Reader

\* Every reachable state is well-formed in the sense the proofs need.
THEOREM Typed == Spec => []Types
<1>1. Init => Types
  BY TypesInit
<1>2. Types /\ [Next]_vars => Types'
  BY TypesStep
<1> QED
  BY <1>1, <1>2, PTL DEF Spec

\* Every reachable state has the types of the module: no byte is written past
\* the ring or the decode buffer, and no packet is handed over that was not
\* sent, wherever line errors fall.
THEOREM TypeCorrect == Spec => []TypeOK
<1>1. Types => TypeOK
  <2> SUFFICES ASSUME Types PROVE TypeOK
    OBVIOUS
  <2>1. Len(wire) \in Nat /\ sent \in Nat /\ sent <= Len(wire) /\ 0 .. sent \subseteq 0 .. Len(wire)
    BY WireType DEF Types, Sending
  <2>2. \A c \in Cells : rx_buf[c].number \in 0 .. Len(wire) /\ rx_buf[c].value \in Byte
    <3>1. \A c \in Cells : rx_buf[c] \in [number : 0 .. sent, value : Byte]
      BY DEF Types, Ring
    <3> QED
      BY <2>1, <3>1
  <2>3. reader.pc \in Places /\ \A i \in DOMAIN reader.todo : reader.todo[i] \in Cells
    <3>1. reader.pc \in Places /\ reader.todo \in Seq(Cells)
      BY DEF Types, Reading
    <3>2. DOMAIN reader.todo = 1 .. Len(reader.todo)
      BY <3>1, LenProperties
    <3> QED
      BY <3>1, <3>2, ElementOfSeq
  <2>4. decoder.p \in Nat /\ decoder.c \in Byte /\ decoder.dst \in Seq(Byte) /\ Len(decoder.dst) <= DecodeSize
    BY DEF Types, Decoding, Decoders
  <2>5. accepted \in Seq(DOMAIN packets)
    <3>1. DOMAIN packets = 1 .. PacketCount
      BY DEF Types, Sending
    <3> QED
      BY <3>1 DEF Types, Decoding
  <2>6. gap \in -1 .. sent
    BY <2>1 DEF Types, Decoding
  <2> QED
    BY <2>2, <2>3, <2>4, <2>5, <2>6 DEF TypeOK, Types, Sending, Ring, Decoding
<1> QED
  BY <1>1, Typed, PTL

-----------------------------------------------------------------------------
(* What a line error costs.                                                 *)

Total == rx_buffer_offset + counter

\* One byte more has arrived since the DMA began.
LEMMA AdvanceFacts ==
  ASSUME Types, Advance
  PROVE  /\ Total' = Total + 1 /\ Total \in Nat /\ Total' \in Nat
         /\ rx_buffer_offset <= rx_buffer_offset' /\ rx_buffer_offset' \in Nat
         /\ rx_buffer_offset' = rx_buffer_offset \/ rx_buffer_offset' = rx_buffer_offset + BufferSize
<1>1. /\ rx_buffer_offset \in Nat /\ counter \in Nat /\ BufferSize \in Nat \ {0}
  BY ReceptionAssumption DEF Types, Ring, Cells
<1>2. CASE counter + 1 = BufferSize
  BY <1>1, <1>2 DEF Advance, Total
<1>3. CASE counter + 1 # BufferSize
  BY <1>1, <1>3 DEF Advance, Total
<1> QED
  BY <1>2, <1>3

(* Between reading the DMA and storing what it has read the reader never    *)
(* takes more than there is, unless an error resets both positions; then it *)
(* still adds no more than a ring to a position that is not ahead.          *)
Little ==
  /\ Unread \in -BufferSize .. BufferSize
  /\ reader.pc = "second" => reader.received <= rx_buffer_offset
  /\ reader.pc = "compare" => reader.received <= Total
  /\ reader.pc \in {"offset", "copy", "store"} =>
       reader.bytes <= BufferSize /\ (reader.bytes > 0 => Unread >= 0)
  /\ reader.pc = "store" => reader.received = rx_bytes_already_read

\* An arrival leaves the reader no further ahead.
LEMMA LittleArrive ==
  ASSUME Types, Little, NEW v \in Byte, Arrive(v)
  PROVE  Little'
<1>1. /\ Total' = Total + 1 /\ Total \in Nat /\ Total' \in Nat
      /\ rx_buffer_offset <= rx_buffer_offset' /\ rx_buffer_offset' \in Nat
      /\ rx_buffer_offset \in Nat
  BY AdvanceFacts DEF Arrive, Types, Ring
<1>2. /\ Unread < BufferSize /\ reader' = reader /\ rx_bytes_already_read' = rx_bytes_already_read
      /\ BufferSize \in Nat /\ rx_bytes_already_read \in Nat
      /\ reader.received \in Nat /\ reader.bytes \in Int
  BY ReceptionAssumption DEF Arrive, Types, Ring, Reading
<1>3. Unread = Total - rx_bytes_already_read /\ Unread' = Total' - rx_bytes_already_read'
  <2>1. /\ rx_buffer_offset \in Int /\ counter \in Int /\ rx_bytes_already_read \in Int
        /\ rx_buffer_offset' \in Int /\ counter' \in Int /\ rx_bytes_already_read' \in Int
    <3>1. Ring'
      BY TypesArrive
    <3> QED
      BY <3>1 DEF Types, Ring, Cells
  <2> QED
    BY <2>1 DEF Unread, Total
<1>4. Unread' = Unread + 1 /\ Unread \in Int
  BY <1>1, <1>2, <1>3
<1>5. Unread \in -BufferSize .. BufferSize
  BY DEF Little
<1>6. Unread' \in -BufferSize .. BufferSize
  BY <1>2, <1>4, <1>5
<1>7. Unread >= 0 => Unread' >= 0
  BY <1>4
<1>8. reader.received <= rx_buffer_offset => reader.received <= rx_buffer_offset'
  BY <1>1, <1>2
<1>9. reader.received <= Total => reader.received <= Total'
  BY <1>1, <1>2
<1> HIDE DEF Unread, Total
<1> QED
  BY <1>2, <1>6, <1>7, <1>8, <1>9 DEF Little

\* With errors only where the reader has not yet read the DMA, or has already
\* compared it with its own position, and the offset read before the counter, it
\* never gets ahead by more than a ring.
LEMMA LittleStep ==
  ASSUME OffsetFirst, ErrorAt \subseteq {"idle", "offset", "copy"}
  PROVE  Types /\ Little /\ [Next]_vars => Little'
<1> SUFFICES ASSUME Types, Little, [Next]_vars PROVE Little'
  OBVIOUS
<1>0. /\ BufferSize \in Nat \ {0} /\ rx_buffer_offset \in Nat /\ counter \in Nat
      /\ rx_bytes_already_read \in Nat /\ reader.received \in Nat /\ reader.bytes \in Int
      /\ reader.pc \in {"copy", "store"} => reader.bytes > 0
  BY ReceptionAssumption DEF Types, Ring, Reading, Cells
<1>1. CASE ArriveWell \/ ArriveWrong
  <2>1. PICK v \in Byte : Arrive(v)
    BY <1>1, ArrivedByte
  <2> QED
    BY <2>1, LittleArrive
<1>2. CASE LineError
  <2>1. reader' = reader /\ reader.pc \in {"idle", "offset", "copy"}
    BY <1>2 DEF LineError
  <2>2. Unread' = 0
    BY <1>2 DEF LineError, Unread
  <2> HIDE DEF Unread
  <2> QED
    BY <1>0, <2>1, <2>2 DEF Little
<1>3. CASE ReadFirst \/ ReadSecond \/ BytesToRead \/ ReadPosition \/ LoadRead \/ ProcessByte
  <2>1. /\ Unread' = Unread /\ Total' = Total /\ rx_buffer_offset' = rx_buffer_offset
        /\ rx_bytes_already_read' = rx_bytes_already_read
    BY <1>3 DEF ReadFirst, ReadSecond, BytesToRead, ReadPosition, LoadRead, ProcessByte,
                dma, Unread, Total
  <2>2. Unread = Total - rx_bytes_already_read /\ Unread \in Int /\ Total \in Nat
    BY <1>0 DEF Unread, Total
  <2> HIDE DEF Unread
  <2>3. CASE ReadFirst
    BY <1>0, <2>1, <2>3 DEF ReadFirst, Go, Little
  <2>4. CASE ReadSecond
    <3>1. reader.received <= rx_buffer_offset
      BY <2>4 DEF ReadSecond, Little
    <3>2. reader.received + counter <= Total
      BY <1>0, <3>1 DEF Total
    <3>3. reader' = [pc |-> "compare", received |-> reader.received + counter, bytes |-> 0, todo |-> <<>>]
      BY <2>4 DEF ReadSecond, Go
    <3> HIDE DEF Total
    <3> QED
      BY <2>1, <3>2, <3>3 DEF Little
  <2> HIDE DEF Total
  <2>5. CASE BytesToRead
    <3>1. reader.received <= Total
      BY <2>5 DEF BytesToRead, Little
    <3>2. reader' = [pc |-> "offset", received |-> reader.received,
                     bytes |-> reader.received - rx_bytes_already_read, todo |-> <<>>]
      BY <2>5 DEF BytesToRead, Go
    <3>3. Unread <= BufferSize
      BY <2>2 DEF Little
    <3>4. /\ reader.received - rx_bytes_already_read <= BufferSize
          /\ reader.received - rx_bytes_already_read > 0 => Unread >= 0
      BY <1>0, <2>2, <3>1, <3>3
    <3> QED
      BY <2>1, <3>2, <3>4 DEF Little
  <2>6. CASE ReadPosition
    <3>1. \/ reader'.pc = "idle"
          \/ reader'.pc = "copy" /\ reader'.bytes = reader.bytes
      BY <2>6 DEF ReadPosition, Go
    <3>2. reader.pc = "offset"
      BY <2>6 DEF ReadPosition
    <3> QED
      BY <2>1, <3>1, <3>2 DEF Little
  <2>7. CASE LoadRead
    BY <2>1, <2>7 DEF LoadRead, Go, Little
  <2>8. CASE ProcessByte
    <3>1. reader'.pc = "copy" /\ reader'.bytes = reader.bytes /\ reader.pc = "copy"
      BY <2>8 DEF ProcessByte, Types, Reading
    <3> QED
      BY <2>1, <3>1 DEF Little
  <2> QED
    BY <1>3, <2>3, <2>4, <2>5, <2>6, <2>7, <2>8
<1>4. CASE StoreRead
  <2>1. /\ reader.pc = "store" /\ rx_bytes_already_read' = reader.received + reader.bytes
        /\ reader'.pc = "idle"
        /\ rx_buffer_offset' = rx_buffer_offset /\ counter' = counter
    BY <1>4 DEF StoreRead, Go, dma
  <2>2. /\ reader.received = rx_bytes_already_read /\ reader.bytes > 0 /\ reader.bytes <= BufferSize
        /\ Unread >= 0 /\ Unread \in -BufferSize .. BufferSize
    BY <1>0, <2>1 DEF Little
  <2>3. Unread' = Unread - reader.bytes
    BY <1>0, <2>1, <2>2 DEF Unread
  <2> HIDE DEF Unread
  <2>4. Unread' \in -BufferSize .. BufferSize
    BY <1>0, <2>2, <2>3
  <2> QED
    BY <2>1, <2>4 DEF Little
<1>5. CASE UNCHANGED vars
  BY <1>5 DEF vars, dma, Little, Unread, Total
<1> QED
  BY <1>1, <1>2, <1>3, <1>4, <1>5 DEF Next, Reader

\* A line error that falls where the reader has not read the DMA yet, or has
\* compared it with its position, makes it pass over no more than a ring of
\* what arrives afterwards, in a build that reads the offset first (rx.c:55).
THEOREM LittlePassedOver ==
  ASSUME OffsetFirst, ErrorAt \subseteq {"idle", "offset", "copy"}
  PROVE  Spec => []PassesOverLittle
<1>1. Init => Little
  BY ReceptionAssumption DEF Init, Little, Unread, Cells
<1>2. Types /\ Little /\ [Next]_vars => Little'
  BY LittleStep
<1>3. Little => PassesOverLittle
  BY ReceptionAssumption DEF Little, PassesOverLittle
<1> QED
  BY <1>1, <1>2, <1>3, Typed, PTL DEF Spec

-----------------------------------------------------------------------------
(* What is in the ring.                                                     *)

(* The bytes that have not been read are numbered on the line without a gap, *)
(* and the reader asks for some of them.                                     *)
Flow ==
  /\ rx_buffer_offset % BufferSize = 0
  /\ Total <= sent /\ Total <= rx_bytes_already_read + BufferSize
  /\ \A q \in rx_bytes_already_read + 1 .. Total :
       rx_buf[(q - 1) % BufferSize].number = sent - Total + q
  /\ reader.pc = "second" => reader.received <= rx_buffer_offset
  /\ reader.pc = "compare" => reader.received <= Total
  /\ reader.pc = "offset" =>
       reader.received <= Total /\ reader.bytes = reader.received - rx_bytes_already_read
  /\ reader.pc = "store" => reader.received = rx_bytes_already_read

\* The variables that the following lemmas calculate with are numbers.
LEMMA Numbers ==
  Types => /\ BufferSize \in Nat \ {0} /\ sent \in Nat
           /\ rx_buffer_offset \in Nat /\ counter \in 0 .. BufferSize - 1
           /\ rx_bytes_already_read \in Nat /\ Total \in Nat
           /\ reader.received \in Nat /\ reader.bytes \in Int /\ reader.todo \in Seq(Cells)
           /\ reader.pc \in {"copy", "store"} => reader.bytes > 0
           /\ seen \in Nat /\ gap \in Nat /\ seen <= sent
<1> SUFFICES ASSUME Types
             PROVE  /\ BufferSize \in Nat \ {0} /\ sent \in Nat
                    /\ rx_buffer_offset \in Nat /\ counter \in 0 .. BufferSize - 1
                    /\ rx_bytes_already_read \in Nat /\ Total \in Nat
                    /\ reader.received \in Nat /\ reader.bytes \in Int /\ reader.todo \in Seq(Cells)
                    /\ reader.pc \in {"copy", "store"} => reader.bytes > 0
                    /\ seen \in Nat /\ gap \in Nat /\ seen <= sent
  OBVIOUS
<1>1. BufferSize \in Nat \ {0} /\ sent \in Nat
  BY ReceptionAssumption, WireType DEF Types
<1>2. /\ rx_buffer_offset \in Nat /\ counter \in 0 .. BufferSize - 1
      /\ rx_bytes_already_read \in Nat
  BY DEF Types, Ring, Cells
<1>3. /\ reader.received \in Nat /\ reader.bytes \in Int /\ reader.todo \in Seq(Cells)
      /\ reader.pc \in {"copy", "store"} => reader.bytes > 0
  BY DEF Types, Reading
<1>4. seen \in Nat /\ gap \in Nat /\ seen <= sent
  BY <1>1 DEF Types, Decoding
<1>5. Total \in Nat
  BY <1>1, <1>2 DEF Total
<1> QED
  BY <1>1, <1>2, <1>3, <1>4, <1>5

\* A byte is written behind those that have not been read, over none of them.
LEMMA FlowArrive ==
  ASSUME Types, Flow, NEW v \in Byte, Arrive(v)
  PROVE  /\ Flow'
         /\ Total' = Total + 1 /\ sent' = sent + 1
         /\ rx_buf' = [rx_buf EXCEPT ![counter] = [number |-> sent', value |-> v]]
         /\ rx_bytes_already_read' = rx_bytes_already_read /\ reader' = reader
         /\ UNCHANGED <<packets, wire, decoder, accepted, seen, gap, origin>>
<1>1. /\ BufferSize \in Nat \ {0} /\ sent \in Nat
      /\ rx_buffer_offset \in Nat /\ counter \in 0 .. BufferSize - 1
      /\ rx_bytes_already_read \in Nat /\ Total \in Nat
      /\ reader.received \in Nat /\ reader.bytes \in Int
  BY Numbers
<1>2. /\ Total' = Total + 1 /\ Total' \in Nat
      /\ rx_buffer_offset <= rx_buffer_offset' /\ rx_buffer_offset' \in Nat
      /\ rx_buffer_offset' = rx_buffer_offset \/ rx_buffer_offset' = rx_buffer_offset + BufferSize
  BY AdvanceFacts DEF Arrive
<1>3. /\ sent' = sent + 1
      /\ rx_buf' = [rx_buf EXCEPT ![counter] = [number |-> sent', value |-> v]]
      /\ rx_bytes_already_read' = rx_bytes_already_read /\ reader' = reader
      /\ UNCHANGED <<packets, wire, decoder, accepted, seen, gap, origin>>
  BY DEF Arrive, fixed, decoding
<1>4. Total < rx_bytes_already_read + BufferSize
  <2>1. Unread < BufferSize
    BY DEF Arrive
  <2> QED
    BY <1>1, <2>1 DEF Unread, Total
<1>5. /\ rx_buffer_offset % BufferSize = 0
      /\ Total <= sent /\ Total <= rx_bytes_already_read + BufferSize
      /\ \A q \in rx_bytes_already_read + 1 .. Total :
           rx_buf[(q - 1) % BufferSize].number = sent - Total + q
  BY DEF Flow
<1>6. rx_buffer_offset' % BufferSize = 0
  <2>1. /\ (rx_buffer_offset % BufferSize) + BufferSize >= BufferSize
        /\ (rx_buffer_offset % BufferSize) + BufferSize < BufferSize + BufferSize
        /\ (rx_buffer_offset % BufferSize) + BufferSize - BufferSize = 0
    BY <1>1, <1>5
  <2>2. BufferSize \in Nat
    BY <1>1
  <2>3. (rx_buffer_offset + BufferSize) % BufferSize = 0
    BY <1>1, <2>1, <2>2, ModSum
  <2> QED
    BY <1>2, <1>5, <2>3
<1>7. Total % BufferSize = counter
  <2>1. (rx_buffer_offset % BufferSize) + counter < BufferSize
    BY <1>1, <1>5
  <2>2. counter \in Nat
    BY <1>1
  <2>3. (rx_buffer_offset + counter) % BufferSize = (rx_buffer_offset % BufferSize) + counter
    BY <1>1, <2>1, <2>2, ModSum
  <2> QED
    BY <1>1, <1>5, <2>2, <2>3 DEF Total
<1>8. ASSUME NEW q \in rx_bytes_already_read + 1 .. Total'
      PROVE  rx_buf'[(q - 1) % BufferSize].number = sent' - Total' + q
  <2>0. rx_buf \in [Cells -> [number : 0 .. sent, value : Byte]] /\ counter \in Cells
    BY DEF Types, Ring
  <2>1. CASE q = Total'
    <3>1. q - 1 = Total
      BY <1>1, <1>2, <2>1
    <3>2. rx_buf'[counter].number = sent'
      BY <1>3, <2>0
    <3>3. sent' - Total' + q = sent'
      BY <1>1, <1>2, <1>3, <2>1
    <3> QED
      BY <1>7, <3>1, <3>2, <3>3
  <2>2. CASE q # Total'
    <3>1. q \in rx_bytes_already_read + 1 .. Total /\ q - 1 \in Nat
      BY <1>1, <1>2, <2>2
    <3>2. q - 1 < Total /\ Total < (q - 1) + BufferSize
      BY <1>1, <1>4, <3>1
    <3>3. (q - 1) % BufferSize # counter
      BY <1>1, <1>7, <3>1, <3>2, ModDiffers
    <3>4. (q - 1) % BufferSize \in Cells
      BY <1>1, <3>1 DEF Cells
    <3>5. rx_buf'[(q - 1) % BufferSize] = rx_buf[(q - 1) % BufferSize]
      BY <1>3, <2>0, <3>3, <3>4
    <3>6. sent' - Total' + q = sent - Total + q
      BY <1>1, <1>2, <1>3, <3>1
    <3> QED
      BY <1>5, <3>1, <3>5, <3>6
  <2> QED
    BY <2>1, <2>2
<1>9. /\ Total' <= sent' /\ Total' <= rx_bytes_already_read + BufferSize
  BY <1>1, <1>2, <1>3, <1>4, <1>5
<1>10. /\ reader.received <= rx_buffer_offset => reader.received <= rx_buffer_offset'
       /\ reader.received <= Total => reader.received <= Total'
  BY <1>1, <1>2
<1> HIDE DEF Total
<1>11. Flow'
  BY <1>3, <1>6, <1>8, <1>9, <1>10 DEF Flow
<1> QED
  BY <1>2, <1>3, <1>11

\* What the reader asks for when it goes on to copy.
LEMMA FlowCopy ==
  ASSUME Types, Flow, ReadPosition, reader.bytes > 0
  PROVE  /\ reader' = [pc |-> "copy", received |-> reader.received, bytes |-> reader.bytes,
                       todo |-> reader'.todo]
         /\ reader.bytes \in 1 .. BufferSize
         /\ rx_bytes_already_read + reader.bytes <= Total
         /\ reader'.todo \in Seq(Cells) /\ Len(reader'.todo) = reader.bytes
         /\ \A j \in 1 .. reader.bytes :
              /\ reader'.todo[j] = (rx_bytes_already_read + j - 1) % BufferSize
              /\ rx_buf[reader'.todo[j]].number = sent - Total + rx_bytes_already_read + j
<1> DEFINE R == rx_bytes_already_read
           n == reader.bytes
           todo == CellsToRead(R % BufferSize, n, reader.received)
<1>1. /\ BufferSize \in Nat \ {0} /\ sent \in Nat /\ R \in Nat /\ Total \in Nat
      /\ reader.received \in Nat /\ n \in Int
  BY Numbers
<1>2. reader.pc = "offset" /\ reader' = [pc |-> "copy", received |-> reader.received,
                                         bytes |-> n, todo |-> todo]
  <2>1. ~(n <= 0)
    BY <1>1
  <2> QED
    BY <2>1 DEF ReadPosition, Go
<1>3. reader.received <= Total /\ n = reader.received - R /\ Total <= R + BufferSize
  BY <1>2 DEF Flow
<1>4. n \in 1 .. BufferSize /\ reader.received = R + n /\ R + n <= Total
  BY <1>1, <1>3
<1>5. /\ todo \in Seq(Cells) /\ Len(todo) = n
      /\ \A j \in 1 .. n : todo[j] = (R + j - 1) % BufferSize
  <2>1. todo = CellsToRead(R % BufferSize, n, R + n)
    BY <1>4
  <2> HIDE DEF todo, R, n
  <2> QED
    BY <1>1, <1>4, <2>1, CellsFacts
<1> HIDE DEF todo
<1>6. ASSUME NEW j \in 1 .. n PROVE rx_buf[todo[j]].number = sent - Total + R + j
  <2>1. R + j \in R + 1 .. Total /\ (R + j) - 1 = R + j - 1
    BY <1>1, <1>4
  <2>2. rx_buf[((R + j) - 1) % BufferSize].number = sent - Total + (R + j)
    BY <2>1 DEF Flow
  <2>3. sent - Total + (R + j) = sent - Total + R + j
    BY <1>1, <1>4
  <2> QED
    BY <1>5, <2>1, <2>2, <2>3
<1>7. reader'.todo = todo
  BY <1>2
<1> QED
  BY <1>2, <1>4, <1>5, <1>6, <1>7

\* With errors only between two calls or while the reader copies, what it has
\* not read stays in the ring in order.
LEMMA FlowStep ==
  ASSUME OffsetFirst, ErrorAt \subseteq {"idle", "copy"}
  PROVE  Types /\ Flow /\ [Next]_vars => Flow'
<1> SUFFICES ASSUME Types, Flow, [Next]_vars PROVE Flow'
  OBVIOUS
<1>0. /\ BufferSize \in Nat \ {0} /\ sent \in Nat /\ rx_buffer_offset \in Nat
      /\ counter \in 0 .. BufferSize - 1 /\ rx_bytes_already_read \in Nat /\ Total \in Nat
      /\ reader.received \in Nat /\ reader.bytes \in Int
      /\ reader.pc \in {"copy", "store"} => reader.bytes > 0
  BY Numbers
<1>1. CASE ArriveWell \/ ArriveWrong
  <2>1. PICK v \in Byte : Arrive(v)
    BY <1>1, ArrivedByte
  <2> QED
    BY <2>1, FlowArrive
<1>2. CASE LineError
  <2>1. /\ reader' = reader /\ reader.pc \in {"idle", "copy"}
        /\ sent' = sent + 1 /\ rx_bytes_already_read' = 0 /\ rx_buffer_offset' = 0 /\ rx_buf' = rx_buf
    BY <1>2 DEF LineError
  <2>2. Total' = 0
    BY <1>2 DEF LineError, Total
  <2>3. 0 % BufferSize = 0 /\ 0 + 1 .. 0 = {} /\ 0 <= sent' /\ 0 <= 0 + BufferSize
    BY <1>0, <2>1
  <2> QED
    BY <2>1, <2>2, <2>3 DEF Flow
<1>3. CASE ReadFirst \/ ReadSecond \/ BytesToRead \/ ReadPosition \/ LoadRead \/ ProcessByte
  <2>1. /\ Total' = Total /\ rx_buffer_offset' = rx_buffer_offset /\ counter' = counter
        /\ rx_bytes_already_read' = rx_bytes_already_read /\ sent' = sent /\ rx_buf' = rx_buf
    BY <1>3 DEF ReadFirst, ReadSecond, BytesToRead, ReadPosition, LoadRead, ProcessByte,
                dma, Total
  <2>2. CASE ReadFirst
    <3>1. reader' = [pc |-> "second", received |-> rx_buffer_offset, bytes |-> 0, todo |-> <<>>]
      BY <2>2 DEF ReadFirst, Go
    <3> QED
      BY <1>0, <2>1, <3>1 DEF Flow
  <2>3. CASE ReadSecond
    <3>1. reader' = [pc |-> "compare", received |-> reader.received + counter, bytes |-> 0, todo |-> <<>>]
      BY <2>3 DEF ReadSecond, Go
    <3>2. reader.received <= rx_buffer_offset
      BY <2>3 DEF ReadSecond, Flow
    <3>3. reader.received + counter <= Total
      BY <1>0, <3>2 DEF Total
    <3> QED
      BY <2>1, <3>1, <3>3 DEF Flow
  <2>4. CASE BytesToRead
    <3>1. reader' = [pc |-> "offset", received |-> reader.received,
                     bytes |-> reader.received - rx_bytes_already_read, todo |-> <<>>]
      BY <2>4 DEF BytesToRead, Go
    <3>2. reader.received <= Total
      BY <2>4 DEF BytesToRead, Flow
    <3> QED
      BY <2>1, <3>1, <3>2 DEF Flow
  <2>5. CASE ReadPosition
    <3>1. reader'.pc \in {"idle", "copy"}
      BY <2>5 DEF ReadPosition, Go
    <3> QED
      BY <2>1, <3>1 DEF Flow
  <2>6. CASE LoadRead
    <3>1. reader'.pc = "store" /\ reader'.received = rx_bytes_already_read
      BY <2>6 DEF LoadRead, Go
    <3> QED
      BY <2>1, <3>1 DEF Flow
  <2>7. CASE ProcessByte
    <3>1. reader'.pc = "copy"
      BY <2>7 DEF ProcessByte, Types, Reading
    <3> QED
      BY <2>1, <3>1 DEF Flow
  <2> QED
    BY <1>3, <2>2, <2>3, <2>4, <2>5, <2>6, <2>7
<1>4. CASE StoreRead
  <2>1. /\ reader.pc = "store" /\ rx_bytes_already_read' = reader.received + reader.bytes
        /\ reader'.pc = "idle" /\ rx_buf' = rx_buf /\ sent' = sent
        /\ rx_buffer_offset' = rx_buffer_offset /\ Total' = Total
    BY <1>4 DEF StoreRead, Go, dma, Total
  <2>2. rx_bytes_already_read' = rx_bytes_already_read + reader.bytes /\ reader.bytes > 0
    BY <1>0, <2>1 DEF Flow
  <2>3. /\ rx_bytes_already_read' + 1 .. Total \subseteq rx_bytes_already_read + 1 .. Total
        /\ rx_bytes_already_read + BufferSize <= rx_bytes_already_read' + BufferSize
    BY <1>0, <2>2
  <2>4. Total <= rx_bytes_already_read' + BufferSize
    <3>1. Total <= rx_bytes_already_read + BufferSize
      BY DEF Flow
    <3> QED
      BY <1>0, <2>2, <3>1
  <2> QED
    BY <2>1, <2>3, <2>4 DEF Flow
<1>5. CASE UNCHANGED vars
  BY <1>5 DEF vars, dma, Flow, Total
<1> QED
  BY <1>1, <1>2, <1>3, <1>4, <1>5 DEF Next, Reader

\* At the beginning the ring is empty.
LEMMA FlowInit == Init => Flow
<1> SUFFICES ASSUME Init PROVE Flow
  OBVIOUS
<1>1. Total = 0 /\ sent = 0 /\ rx_bytes_already_read = 0 /\ rx_buffer_offset = 0 /\ reader.pc = "idle"
  BY DEF Init, Total
<1>2. BufferSize \in Nat \ {0} /\ 0 % BufferSize = 0 /\ 0 + 1 .. 0 = {}
  BY ReceptionAssumption
<1> QED
  BY <1>1, <1>2 DEF Flow

-----------------------------------------------------------------------------
(* The decoder finds its way back.                                          *)

(* The decoder after the first i bytes of the frame of packet m, and        *)
(* nothing else.                                                            *)
DecoderAt(m, i) ==
  [p |-> i, c |-> NextZero(m, i) - i + 1, dst |-> SubSeq(m, 1, i - 1)]

\* The first byte of a frame is where the decoder begins to count.
LEMMA DecodeFirst ==
  ASSUME NEW m \in Packets
  PROVE  Decode(Started, Encode(m)[1]).state = DecoderAt(m, 1)
<1>1. /\ m \in Seq(Byte) /\ Len(m) \in Nat
      /\ Encode(m)[1] = NextZero(m, 1) - 1 + 1 /\ Encode(m)[1] # 0
  <2>1. 1 \in 1 .. Len(m) + 1 /\ 1 \in 1 .. Len(m) + 2 /\ 1 # Len(m) + 2
    BY EncodeFacts
  <2> QED
    BY <2>1, EncodeFacts
<1>2. SubSeq(m, 1, 1 - 1) = <<>>
  BY SubSeqEmpty
<1> DEFINE b == Encode(m)[1]
<1>3. Decode(Started, b).state = [Started EXCEPT !.p = 1, !.c = b]
  BY <1>1 DEF Decode, Started
<1>4. [Started EXCEPT !.p = 1, !.c = b] = [p |-> 1, c |-> b, dst |-> <<>>]
  <2> DEFINE s == [Started EXCEPT !.p = 1, !.c = b]
  <2>1. Started \in [p : Nat, c : Nat, dst : Seq(Byte)] /\ Started.dst = <<>>
    BY EmptySeq DEF Started
  <2>2. b \in Nat
    BY <1>1, NextZeroFacts
  <2>3. s \in [p : Nat, c : Nat, dst : Seq(Byte)] /\ s.p = 1 /\ s.c = b /\ s.dst = Started.dst
    BY <2>1, <2>2
  <2> HIDE DEF s
  <2>4. s = [p |-> s.p, c |-> s.c, dst |-> s.dst]
    BY <2>3
  <2> QED
    BY <2>1, <2>3, <2>4 DEF s
<1>5. DecoderAt(m, 1) = [p |-> 1, c |-> NextZero(m, 1) - 1 + 1, dst |-> <<>>]
  BY <1>2 DEF DecoderAt
<1> QED
  BY <1>1, <1>3, <1>4, <1>5

\* Every further byte of a frame adds the byte of the packet that it stands
\* for, zeros included.
LEMMA DecodeNext ==
  ASSUME NEW m \in Packets, NEW i \in 2 .. Len(m) + 1
  PROVE  Decode(DecoderAt(m, i - 1), Encode(m)[i]) = [state |-> DecoderAt(m, i), rc |-> 0]
<1>1. /\ m \in Seq(Byte) /\ Len(m) \in Nat /\ Len(m) <= DecodeSize /\ DecodeSize \in Nat
  BY EncodeFacts, ReceptionAssumption
<1>2. /\ i \in 1 .. Len(m) + 1 /\ i - 1 \in 1 .. Len(m) + 1 /\ i - 1 \in 1 .. Len(m) /\ i > 1
      /\ i \in 1 .. Len(m) + 2 /\ i # Len(m) + 2 /\ i \in Nat
  BY <1>1
<1> DEFINE d == DecoderAt(m, i - 1)
           b == Encode(m)[i]
           z == NextZero(m, i)
           y == NextZero(m, i - 1)
<1>3. b # 0 /\ b = IF m[i - 1] # 0 THEN m[i - 1] ELSE z - i + 1
  BY <1>2, EncodeFacts
<1>4. /\ z \in i .. Len(m) + 1 /\ y \in i - 1 .. Len(m) + 1
      /\ m[i - 1] = 0 => y = i - 1
      /\ m[i - 1] # 0 => y = z /\ y # i - 1
  <2>1. (i - 1) + 1 = i /\ i - 1 <= Len(m)
    BY <1>1, <1>2
  <2>2. /\ NextZero(m, i - 1) \in i - 1 .. Len(m) + 1
        /\ i - 1 <= Len(m) /\ m[i - 1] = 0 => NextZero(m, i - 1) = i - 1
        /\ i - 1 <= Len(m) /\ m[i - 1] # 0 =>
             NextZero(m, i - 1) = NextZero(m, (i - 1) + 1) /\ NextZero(m, i - 1) # i - 1
    BY <1>1, <1>2, NextZeroFacts
  <2>3. NextZero(m, i) \in i .. Len(m) + 1
    BY <1>1, <1>2, NextZeroFacts
  <2> QED
    BY <2>1, <2>2, <2>3
<1>5. d = [p |-> i - 1, c |-> y - (i - 1) + 1, dst |-> SubSeq(m, 1, (i - 1) - 1)]
  BY DEF DecoderAt
<1>6. d.p = i - 1 /\ d.c = y - (i - 1) + 1 /\ d.dst = SubSeq(m, 1, (i - 1) - 1)
  BY <1>5
<1> HIDE DEF d, b, y, z
<1>7. Room(d)
  BY <1>1, <1>2, <1>6 DEF Room
<1>8. d.c = 1 <=> m[i - 1] = 0
  BY <1>1, <1>2, <1>4, <1>6
<1>9. SubSeq(m, 1, i - 1) = Append(SubSeq(m, 1, (i - 1) - 1), m[i - 1])
  <2>1. 1 \in 1 .. Len(m) /\ i - 1 \in 1 .. Len(m)
    BY <1>1, <1>2
  <2>2. SubSeq(m, 1, i - 1) = SubSeq(m, 1, (i - 1) - 1) \o <<m[i - 1]>>
    BY <1>1, <2>1, SubSeqRecursiveSecond
  <2>3. SubSeq(m, 1, (i - 1) - 1) \in Seq(Byte) /\ m[i - 1] \in Byte
    <3>1. \A k \in 1 .. (i - 1) - 1 : m[k] \in Byte
      BY <1>1, <1>2, ElementOfSeq
    <3>2. SubSeq(m, 1, (i - 1) - 1) \in Seq(Byte)
      <4>1. (i - 1) - 1 \in Int
        BY <1>2
      <4> QED
        BY <3>1, <4>1, SubSeqProperties
    <3> QED
      BY <1>1, <2>1, <3>2, ElementOfSeq
  <2> QED
    BY <2>2, <2>3, AppendIsConcat
<1> DEFINE c == IF d.c = 1 THEN b ELSE d.c - 1
           v == IF d.c = 1 THEN 0 ELSE b
<1>10. Decode(d, b) = [state |-> [p |-> d.p + 1, c |-> c, dst |-> Append(d.dst, v)], rc |-> 0]
  <2>1. d.p # 0
    BY <1>2, <1>6
  <2> QED
    BY <1>3, <1>7, <2>1 DEF Decode
<1>11. c = z - i + 1
  <2>1. CASE m[i - 1] = 0
    BY <1>3, <1>8, <2>1
  <2>2. CASE m[i - 1] # 0
    BY <1>1, <1>2, <1>4, <1>6, <1>8, <2>2
  <2> QED
    BY <2>1, <2>2
<1>12. v = m[i - 1]
  BY <1>3, <1>8
<1> HIDE DEF c, v
<1>13. d.p + 1 = i
  BY <1>2, <1>6
<1> QED
  BY <1>6, <1>9, <1>10, <1>11, <1>12, <1>13 DEF DecoderAt, d, b, z

\* With all of a frame but the delimiter the decoder holds the packet.
LEMMA DecoderAtEnd ==
  ASSUME NEW m \in Packets, NEW i, i = Len(m) + 1
  PROVE  /\ DecoderAt(m, i).p = Len(m) + 1 /\ DecoderAt(m, i).c = 1 /\ DecoderAt(m, i).dst = m
<1>1. m \in Seq(Byte) /\ Len(m) \in Nat
  BY EncodeFacts
<1>2. i \in 1 .. Len(m) + 1 /\ i - 1 = Len(m)
  BY <1>1
<1>3. NextZero(m, i) = i
  BY <1>1, <1>2, NextZeroFacts
<1>4. SubSeq(m, 1, Len(m)) = m
  BY <1>1, SubSeqFull
<1> QED
  BY <1>1, <1>2, <1>3, <1>4 DEF DecoderAt

(* The first byte on the line is not read after another one: none of the    *)
(* cells still to be read holds it, unless nothing has been read.           *)
FirstOnce ==
  /\ reader.pc = "copy" =>
       \A j \in 1 .. Len(reader.todo) :
         /\ rx_buf[reader.todo[j]].number >= 1
         /\ rx_buf[reader.todo[j]].number = 1 => j = 1 /\ seen = 0
  /\ reader.pc \notin {"copy", "store"} /\ sent = Total /\ rx_bytes_already_read = 0 => seen = 0

\* With errors only between two calls or while the reader copies, the first
\* byte is read first or not at all.
LEMMA FirstOnceStep ==
  ASSUME OffsetFirst, ErrorAt \subseteq {"idle", "copy"}
  PROVE  Types /\ Flow /\ FirstOnce /\ [Next]_vars => FirstOnce'
<1> SUFFICES ASSUME Types, Flow, FirstOnce, [Next]_vars PROVE FirstOnce'
  OBVIOUS
<1>0. /\ sent \in Nat /\ Total \in Nat /\ Total <= sent /\ rx_bytes_already_read \in Nat
      /\ reader.received \in Nat /\ reader.bytes \in Int /\ reader.todo \in Seq(Cells)
      /\ reader.pc \in {"copy", "store"} => reader.bytes > 0
      /\ Len(reader.todo) \in Nat /\ \A j \in 1 .. Len(reader.todo) : reader.todo[j] \in Cells
  <2>1. /\ sent \in Nat /\ Total \in Nat /\ Total <= sent /\ rx_bytes_already_read \in Nat
        /\ reader.received \in Nat /\ reader.bytes \in Int /\ reader.todo \in Seq(Cells)
        /\ reader.pc \in {"copy", "store"} => reader.bytes > 0
    BY Numbers DEF Flow
  <2> QED
    BY <2>1, LenProperties, ElementOfSeq
<1>b. rx_buf \in [Cells -> [number : 0 .. sent, value : Byte]] /\ counter \in Cells
  BY DEF Types, Ring
<1>1. CASE ArriveWell \/ ArriveWrong
  <2>1. PICK v \in Byte : Arrive(v)
    BY <1>1, ArrivedByte
  <2>2. /\ Total' = Total + 1 /\ sent' = sent + 1
        /\ rx_buf' = [rx_buf EXCEPT ![counter] = [number |-> sent', value |-> v]]
        /\ rx_bytes_already_read' = rx_bytes_already_read /\ reader' = reader /\ seen' = seen
    BY <2>1, FlowArrive
  <2>3. ASSUME reader.pc = "copy", NEW j \in 1 .. Len(reader.todo)
        PROVE  /\ rx_buf'[reader.todo[j]].number >= 1
               /\ rx_buf'[reader.todo[j]].number = 1 => j = 1 /\ seen = 0
    <3>1. /\ rx_buf[reader.todo[j]].number >= 1
          /\ rx_buf[reader.todo[j]].number = 1 => j = 1 /\ seen = 0
      BY <2>3 DEF FirstOnce
    <3>2. reader.todo[j] \in Cells /\ rx_buf[reader.todo[j]].number \in 0 .. sent
      BY <1>0, <1>b
    <3>3. sent >= 1 /\ sent' >= 1 /\ sent' # 1
      BY <1>0, <2>2, <3>1, <3>2
    <3>4. CASE reader.todo[j] = counter
      <4>1. rx_buf'[reader.todo[j]].number = sent'
        BY <1>b, <2>2, <3>4
      <4> QED
        BY <3>3, <4>1
    <3>5. CASE reader.todo[j] # counter
      <4>1. rx_buf'[reader.todo[j]] = rx_buf[reader.todo[j]]
        BY <1>b, <2>2, <3>2, <3>5
      <4> QED
        BY <3>1, <4>1
    <3> QED
      BY <3>4, <3>5
  <2>4. sent' = Total' => sent = Total
    BY <1>0, <2>2
  <2> QED
    BY <2>2, <2>3, <2>4 DEF FirstOnce
<1>2. CASE LineError
  <2>1. reader' = reader /\ seen' = seen /\ rx_buf' = rx_buf /\ sent' = sent + 1 /\ Total' = 0
    BY <1>2 DEF LineError, decoding, Total
  <2>2. sent' # Total'
    BY <1>0, <2>1
  <2> QED
    BY <2>1, <2>2 DEF FirstOnce
<1>3. CASE ReadFirst \/ ReadSecond \/ BytesToRead
  <2>1. /\ Total' = Total /\ rx_bytes_already_read' = rx_bytes_already_read
        /\ sent' = sent /\ seen' = seen
    BY <1>3 DEF ReadFirst, ReadSecond, BytesToRead, dma, decoding, Total
  <2>2. reader.pc \notin {"copy", "store"} /\ reader'.pc # "copy"
    BY <1>3 DEF ReadFirst, ReadSecond, BytesToRead, Go
  <2> QED
    BY <2>1, <2>2 DEF FirstOnce
<1>4. CASE ReadPosition
  <2>1. /\ Total' = Total /\ rx_bytes_already_read' = rx_bytes_already_read
        /\ sent' = sent /\ seen' = seen /\ rx_buf' = rx_buf /\ reader.pc = "offset"
    BY <1>4 DEF ReadPosition, dma, decoding, Total
  <2>2. sent = Total /\ rx_bytes_already_read = 0 => seen = 0
    BY <2>1 DEF FirstOnce
  <2>3. CASE reader.bytes > 0
    <3>1. /\ reader'.pc = "copy" /\ Len(reader'.todo) = reader.bytes
          /\ \A j \in 1 .. reader.bytes :
               rx_buf[reader'.todo[j]].number = sent - Total + rx_bytes_already_read + j
      <4>1. /\ reader' = [pc |-> "copy", received |-> reader.received, bytes |-> reader.bytes,
                          todo |-> reader'.todo]
            /\ Len(reader'.todo) = reader.bytes
            /\ \A j \in 1 .. reader.bytes :
                 rx_buf[reader'.todo[j]].number = sent - Total + rx_bytes_already_read + j
        BY <1>4, <2>3, FlowCopy
      <4> QED
        BY <4>1
    <3>2. ASSUME NEW j \in 1 .. reader.bytes
          PROVE  /\ sent - Total + rx_bytes_already_read + j >= 1
                 /\ sent - Total + rx_bytes_already_read + j = 1 =>
                      j = 1 /\ sent = Total /\ rx_bytes_already_read = 0
      BY <1>0
    <3> QED
      BY <2>1, <2>2, <3>1, <3>2 DEF FirstOnce
  <2>4. CASE ~(reader.bytes > 0)
    <3>1. reader'.pc = "idle"
      BY <1>0, <1>4, <2>4 DEF ReadPosition, Go
    <3> QED
      BY <2>1, <2>2, <3>1 DEF FirstOnce
  <2> QED
    BY <2>3, <2>4
<1>5. CASE ProcessByte
  <2>1. /\ reader.pc = "copy" /\ reader.todo # <<>> /\ rx_buf' = rx_buf
        /\ reader' = [reader EXCEPT !.todo = Tail(@)]
    BY <1>5 DEF ProcessByte, dma
  <2>2. reader'.pc = "copy" /\ reader'.todo = Tail(reader.todo)
    BY <2>1 DEF Types, Reading
  <2>3. /\ Len(Tail(reader.todo)) = Len(reader.todo) - 1
        /\ \A j \in 1 .. Len(Tail(reader.todo)) : Tail(reader.todo)[j] = reader.todo[j + 1]
    BY <1>0, <2>1, HeadTailProperties
  <2>4. ASSUME NEW j \in 1 .. Len(Tail(reader.todo))
        PROVE  /\ rx_buf[Tail(reader.todo)[j]].number >= 1
               /\ rx_buf[Tail(reader.todo)[j]].number # 1
    <3>1. j + 1 \in 1 .. Len(reader.todo) /\ j + 1 # 1
      BY <1>0, <2>3
    <3> QED
      BY <2>1, <2>3, <3>1 DEF FirstOnce
  <2> QED
    BY <2>1, <2>2, <2>4 DEF FirstOnce
<1>6. CASE LoadRead
  <2>1. reader'.pc = "store"
    BY <1>6 DEF LoadRead, Go
  <2> QED
    BY <2>1 DEF FirstOnce
<1>7. CASE StoreRead
  <2>1. reader'.pc = "idle" /\ rx_bytes_already_read' = reader.received + reader.bytes /\ reader.pc = "store"
    BY <1>7 DEF StoreRead, Go
  <2>2. rx_bytes_already_read' # 0
    BY <1>0, <2>1
  <2> QED
    BY <2>1, <2>2 DEF FirstOnce
<1>8. CASE UNCHANGED vars
  BY <1>8 DEF vars, dma, decoding, FirstOnce, Total
<1> QED
  BY <1>1, <1>2, <1>3, <1>4, <1>5, <1>6, <1>7, <1>8 DEF Next, Reader

\* The bytes from before the frame of packet k on have been decoded one after
\* the other as they were sent.
Synced(start, k) == gap = 0 \/ gap < start[k]

(* After a delimiter the decoder is as it was started; within a frame, if    *)
(* the delimiter before it was decoded, it has what was sent of the frame;   *)
(* and the packets that were decoded from delimiter to delimiter have been   *)
(* handed over.                                                              *)
Sync(start) ==
  /\ IsLayout(packets, wire, start)
  /\ gap <= seen
  /\ seen = 0 => gap = 0 /\ decoder = Started
  /\ seen # 0 /\ gap < seen /\ wire[seen].value = 0 => decoder = Started
  /\ \A k \in 1 .. PacketCount : \A i \in 1 .. Len(packets[k]) + 1 :
       seen = start[k] + i /\ Synced(start, k) =>
         decoder = DecoderAt(packets[k], i) /\ origin = k
  /\ \A k \in 1 .. PacketCount :
       start[k + 1] <= seen /\ Synced(start, k) => \E j \in DOMAIN accepted : accepted[j] = k

\* What a byte does to the decoder and to what has been handed over.
LEMMA SyncProcess ==
  ASSUME Types, FirstOnce, NEW start, Sync(start), ProcessByte
  PROVE  Sync(start)'
<1> DEFINE b == rx_buf[Head(reader.todo)]
           n == b.number
           d == Decode(decoder, b.value)
           right == b.number > 0 /\ b.value = wire[b.number].value
<1>1. /\ reader.pc = "copy" /\ reader.todo # <<>> /\ Head(reader.todo) \in Cells
      /\ n \in 0 .. sent /\ b.value \in Byte
      /\ decoder' = d.state
      /\ origin' = IF right /\ decoder.p = 0 THEN wire[n].packet
                   ELSE IF right /\ n = seen + 1 THEN origin ELSE 0
      /\ accepted' = IF d.rc >= HeaderSize /\ origin' # 0 /\ decoder.dst = packets[origin']
                     THEN Append(accepted, origin') ELSE accepted
      /\ seen' = n
      /\ gap' = IF ~right THEN n ELSE IF n # seen + 1 THEN n - 1 ELSE gap
      /\ UNCHANGED <<packets, wire, sent>>
  BY ProcessByteFacts
<1>2. /\ sent \in Nat /\ seen \in Nat /\ gap \in Nat /\ HeaderSize \in Nat \ {0} /\ PacketCount \in Nat
      /\ Len(wire) \in Nat /\ sent <= Len(wire) /\ seen <= sent
  BY Numbers, WireType, ReceptionAssumption DEF Types, Sending
<1>3. n >= 1 /\ (n = 1 => seen = 0)
  <2>1. reader.todo \in Seq(Cells) /\ Head(reader.todo) = reader.todo[1] /\ 1 \in 1 .. Len(reader.todo)
    <3>1. reader.todo \in Seq(Cells)
      BY Numbers
    <3>0. reader.todo # <<>>
      BY <1>1
    <3>2. Len(reader.todo) \in Nat /\ Len(reader.todo) # 0
      BY <3>0, <3>1, EmptySeq, LenProperties
    <3>3. Head(reader.todo) = reader.todo[1]
      BY <3>0, <3>1, HeadTailProperties
    <3>4. 1 \in 1 .. Len(reader.todo)
      BY <3>2
    <3> QED
      BY <3>1, <3>3, <3>4
  <2> QED
    BY <1>1, <2>1 DEF FirstOnce
<1>4. n \in 1 .. Len(wire) /\ n \in Nat
  <2>1. n \in 0 .. sent
    BY <1>1
  <2> QED
    BY <1>2, <1>3, <2>1
<1>5. /\ packets \in [1 .. PacketCount -> Packets] /\ IsLayout(packets, wire, start)
      /\ decoder \in Decoders /\ accepted \in Seq(1 .. PacketCount)
  BY DEF Types, Sending, Decoding, Sync
<1>6. \A k \in 1 .. PacketCount :
        /\ packets[k] \in Packets /\ start[k] \in Nat /\ Len(packets[k]) \in Nat
        /\ start[k + 1] = start[k] + Len(packets[k]) + 2
        /\ \A i \in 1 .. Len(packets[k]) + 2 :
             wire[start[k] + i] = [value |-> Encode(packets[k])[i], packet |-> k]
  <2>1. \A k \in 1 .. PacketCount : packets[k] \in Packets /\ Len(packets[k]) \in Nat
    BY <1>5, EncodeFacts
  <2>2. \A k \in 1 .. PacketCount : k \in 1 .. PacketCount + 1
    BY <1>2
  <2> QED
    BY <1>5, <2>1, <2>2 DEF IsLayout
<1>7. b.value = 0 => d.state = Started
  BY <1>1, <1>5, DecodeFacts
<1>8. IsLayout(packets, wire, start)'
  BY <1>1, <1>5 DEF IsLayout
<1> HIDE DEF b, d
<1>9. CASE ~right
  <2>1. gap' = n /\ seen' = n
    BY <1>1, <1>9
  <2>2. ASSUME NEW k \in 1 .. PacketCount, Synced(start, k)' PROVE n < start[k]
    BY <1>3, <2>1, <2>2 DEF Synced
  <2>3. \A k \in 1 .. PacketCount : \A i \in 1 .. Len(packets[k]) + 1 :
          seen' = start[k] + i => ~Synced(start, k)'
    BY <1>4, <1>6, <2>1, <2>2
  <2>4. \A k \in 1 .. PacketCount : start[k + 1] <= seen' => ~Synced(start, k)'
    BY <1>4, <1>6, <2>1, <2>2
  <2>5. gap' <= seen' /\ seen' # 0 /\ ~(gap' < seen')
    BY <1>3, <1>4, <2>1
  <2> QED
    BY <1>1, <1>8, <2>3, <2>4, <2>5 DEF Sync
<1>10. CASE right /\ n # seen + 1
  <2>1. gap' = n - 1 /\ seen' = n
    BY <1>1, <1>10
  <2>2. n >= 2
    BY <1>2, <1>3, <1>4, <1>10
  <2>3. ASSUME NEW k \in 1 .. PacketCount, Synced(start, k)' PROVE n - 1 < start[k]
    BY <1>4, <2>1, <2>2, <2>3 DEF Synced
  <2>4. \A k \in 1 .. PacketCount : \A i \in 1 .. Len(packets[k]) + 1 :
          seen' = start[k] + i => ~Synced(start, k)'
    BY <1>4, <1>6, <2>1, <2>3
  <2>5. \A k \in 1 .. PacketCount : start[k + 1] <= seen' => ~Synced(start, k)'
    BY <1>4, <1>6, <2>1, <2>3
  <2>6. gap' <= seen' /\ seen' # 0
    BY <1>3, <1>4, <2>1
  <2>7. wire'[seen'].value = 0 => decoder' = Started
    BY <1>1, <1>7, <1>10, <2>1
  <2> QED
    BY <1>1, <1>8, <2>4, <2>5, <2>6, <2>7 DEF Sync
<1>11. CASE right /\ n = seen + 1
  <2>1. gap' = gap /\ seen' = n /\ gap <= seen /\ b.value = wire[n].value
    BY <1>1, <1>11 DEF Sync
  <2>2. \A k \in 1 .. PacketCount : Synced(start, k)' <=> Synced(start, k)
    BY <2>1 DEF Synced
  <2>3. gap' <= seen' /\ seen' # 0
    BY <1>2, <1>3, <1>11, <2>1
  <2>4. wire'[seen'].value = 0 => decoder' = Started
    BY <1>1, <1>7, <2>1
  <2>5. ASSUME NEW k \in 1 .. PacketCount, NEW i \in 1 .. Len(packets[k]) + 1,
               seen' = start[k] + i, Synced(start, k)
        PROVE  decoder' = DecoderAt(packets[k], i) /\ origin' = k
    <3> DEFINE m == packets[k]
    <3>1. /\ m \in Packets /\ start[k] \in Nat /\ Len(m) \in Nat /\ i \in 1 .. Len(m) + 2 /\ i \in Nat
      <4>1. m \in Packets /\ start[k] \in Nat /\ Len(m) \in Nat
        BY <1>6
      <4>2. i \in 1 .. Len(m) + 2 /\ i \in Nat
        BY <4>1
      <4> QED
        BY <4>1, <4>2
    <3>2. n = start[k] + i /\ wire[n].value = Encode(m)[i] /\ wire[n].packet = k
      <4>1. n = start[k] + i
        BY <2>1, <2>5
      <4>2. wire[start[k] + i] = [value |-> Encode(m)[i], packet |-> k]
        BY <1>6, <3>1
      <4> HIDE DEF n, m
      <4> QED
        BY <4>1, <4>2
    <3>3. CASE i = 1
      <4>1. seen = start[k]
        BY <1>2, <1>11, <3>1, <3>2, <3>3
      <4>2. decoder = Started
        <5>1. CASE seen = 0
          BY <5>1 DEF Sync
        <5>2. CASE seen # 0
          <6>1. gap < seen
            BY <1>2, <2>5, <4>1, <5>2 DEF Synced
          <6>2. seen \in 1 .. Len(wire) /\ seen < n
            BY <1>2, <1>11, <5>2
          <6>3. wire[seen].value = 0
            <7>1. SUFFICES ASSUME wire[seen].value # 0 PROVE FALSE
              OBVIOUS
            <7>2. wire[seen].packet = wire[n].packet
              BY <1>4, <1>5, <1>11, <6>2, <7>1, WireOrder
            <7>3. seen \in start[k] + 1 .. start[k] + Len(packets[k]) + 2
              <8>1. k = wire[seen].packet
                BY <3>2, <7>2
              <8> QED
                BY <1>5, <6>2, <8>1, WireByte
            <7> QED
              BY <3>1, <4>1, <7>3
          <6> QED
            BY <5>2, <6>1, <6>3 DEF Sync
        <5> QED
          BY <5>1, <5>2
      <4>3. d.state = DecoderAt(m, 1)
        BY <2>1, <3>1, <3>2, <3>3, <4>2, DecodeFirst DEF d
      <4>4. decoder.p = 0
        BY <4>2 DEF Started
      <4> QED
        BY <1>1, <1>11, <3>2, <3>3, <4>3, <4>4
    <3>4. CASE i # 1
      <4>1. i \in 2 .. Len(m) + 1 /\ i - 1 \in 1 .. Len(m) + 1 /\ seen = start[k] + (i - 1)
        <5>1. i \in 2 .. Len(m) + 1
          BY <3>1, <3>4
        <5>2. i - 1 \in 1 .. Len(m) + 1
          BY <3>1, <5>1
        <5>3. seen = start[k] + (i - 1)
          <6>1. n = seen + 1 /\ n = start[k] + i
            BY <1>11, <3>2
          <6> HIDE DEF n, m
          <6> QED
            BY <1>2, <1>4, <3>1, <6>1
        <5> QED
          BY <5>1, <5>2, <5>3
      <4>2. decoder = DecoderAt(m, i - 1) /\ origin = k
        BY <2>5, <4>1 DEF Sync
      <4>3. d = [state |-> DecoderAt(m, i), rc |-> 0]
        BY <2>1, <3>1, <3>2, <4>1, <4>2, DecodeNext DEF d
      <4>4. decoder.p # 0
        BY <3>1, <4>1, <4>2 DEF DecoderAt
      <4> QED
        BY <1>1, <1>11, <4>2, <4>3, <4>4
    <3> QED
      BY <3>3, <3>4
  <2>6. ASSUME NEW k \in 1 .. PacketCount, start[k + 1] <= seen', Synced(start, k)
        PROVE  \E j \in DOMAIN accepted' : accepted'[j] = k
    <3> DEFINE m == packets[k]
    <3>1. /\ m \in Packets /\ start[k] \in Nat /\ Len(m) \in Nat
          /\ start[k + 1] = start[k] + Len(m) + 2
      BY <1>6
    <3>2. DOMAIN accepted = 1 .. Len(accepted) /\ Len(accepted) \in Nat
      BY <1>5, LenProperties
    <3>3. CASE start[k + 1] <= seen
      <4>1. PICK j \in DOMAIN accepted : accepted[j] = k
        BY <2>6, <3>3 DEF Sync
      <4>2. CASE accepted' = accepted
        BY <4>1, <4>2
      <4>3. CASE accepted' = Append(accepted, origin')
        <5>1. origin' \in 1 .. PacketCount \/ accepted' = accepted
          <6>1. origin' \in 0 .. PacketCount
            <7>1. Types'
              BY TypesStep DEF Next, Reader
            <7> QED
              BY <7>1 DEF Types, Decoding
          <6>2. origin' = 0 => accepted' = accepted
            BY <1>1
          <6> QED
            BY <1>2, <6>1, <6>2
        <5>2. CASE origin' \in 1 .. PacketCount
          <6>1. /\ Len(Append(accepted, origin')) = Len(accepted) + 1
                /\ Append(accepted, origin') \in Seq(1 .. PacketCount)
                /\ \A h \in 1 .. Len(accepted) : Append(accepted, origin')[h] = accepted[h]
            BY <1>5, <5>2, AppendProperties
          <6>2. DOMAIN accepted' = 1 .. Len(accepted) + 1
            BY <4>3, <6>1, LenProperties
          <6>3. j \in DOMAIN accepted' /\ accepted'[j] = k
            BY <3>2, <4>1, <4>3, <6>1, <6>2
          <6> QED
            BY <6>3
        <5> QED
          BY <4>2, <5>1, <5>2
      <4> QED
        BY <1>1, <4>2, <4>3
    <3>4. CASE ~(start[k + 1] <= seen)
      <4>1. n = start[k + 1] /\ seen = start[k] + (Len(m) + 1) /\ Len(m) + 1 \in 1 .. Len(m) + 1
        <5> DEFINE ends == start[k + 1]  begins == start[k]  size == Len(m)
        <5>1. n \in Int /\ seen \in Int /\ n = seen + 1
          BY <1>2, <1>11
        <5>2. ends <= n /\ ~(ends <= seen)
          BY <2>1, <2>6, <3>4
        <5>3. begins \in Nat /\ size \in Nat /\ ends = begins + size + 2
          BY <3>1
        <5> HIDE DEF ends, begins, size
        <5>4. n = ends /\ seen = begins + (size + 1) /\ size + 1 \in 1 .. size + 1
          BY <5>1, <5>2, <5>3
        <5> QED
          BY <5>4 DEF ends, begins, size
      <4>2. decoder = DecoderAt(m, Len(m) + 1) /\ origin = k
        BY <2>6, <4>1 DEF Sync
      <4>3. decoder.p = Len(m) + 1 /\ decoder.c = 1 /\ decoder.dst = m
        BY <3>1, <4>2, DecoderAtEnd
      <4>4. wire[n].value = 0
        <5>1. Len(m) + 2 \in 1 .. Len(m) + 2 /\ start[k] + (Len(m) + 2) = n
          BY <3>1, <4>1
        <5>2. wire[n].value = Encode(m)[Len(m) + 2]
          <6>1. wire[start[k] + (Len(m) + 2)] = [value |-> Encode(m)[Len(m) + 2], packet |-> k]
            BY <1>6, <5>1
          <6> QED
            BY <5>1, <6>1
        <5> QED
          BY <3>1, <5>1, <5>2, EncodeFacts
      <4>5. d.rc = Len(m)
        <5>1. d.rc = IF decoder.p = 0 THEN -3 ELSE IF decoder.c = 1 THEN decoder.p - 1 ELSE -1
          BY <1>1, <1>5, <2>1, <4>4, DecodeFacts DEF d
        <5> QED
          BY <3>1, <4>3, <5>1
      <4>6. origin' = k /\ k # 0
        <5>1. decoder.p # 0
          BY <3>1, <4>3
        <5> QED
          BY <1>1, <1>2, <1>11, <4>2, <5>1
      <4>7. d.rc >= HeaderSize
        BY <3>1, <4>5, EncodeFacts
      <4>8. accepted' = Append(accepted, k)
        BY <1>1, <4>3, <4>6, <4>7
      <4>9. /\ Append(accepted, k) \in Seq(1 .. PacketCount)
            /\ Len(Append(accepted, k)) = Len(accepted) + 1
            /\ Append(accepted, k)[Len(accepted) + 1] = k
        BY <1>5, AppendProperties
      <4>10. Len(accepted) + 1 \in DOMAIN accepted'
        <5>1. DOMAIN accepted' = 1 .. Len(accepted) + 1
          BY <4>8, <4>9, LenProperties
        <5> QED
          BY <3>2, <5>1
      <4> QED
        BY <4>8, <4>9, <4>10
    <3> QED
      BY <3>3, <3>4
  <2> QED
    BY <1>1, <1>8, <2>2, <2>3, <2>4, <2>5, <2>6 DEF Sync
<1> HIDE DEF right
<1> QED
  BY <1>9, <1>10, <1>11


\* The other steps decode nothing.
LEMMA SyncStep ==
  ASSUME Types, FirstOnce, [Next]_vars, \E start : Sync(start)
  PROVE  (\E start : Sync(start))'
<1>1. PICK start : Sync(start)
  OBVIOUS
<1>2. CASE ProcessByte
  BY <1>1, <1>2, SyncProcess
<1>3. CASE \/ ArriveWell \/ ArriveWrong \/ LineError \/ UNCHANGED vars
           \/ ReadFirst \/ ReadSecond \/ BytesToRead \/ ReadPosition \/ LoadRead \/ StoreRead
  <2>1. UNCHANGED <<packets, wire, decoder, accepted, seen, gap, origin>>
    BY <1>3 DEF ArriveWell, ArriveWrong, Arrive, LineError, ReadFirst, ReadSecond, BytesToRead,
                ReadPosition, LoadRead, StoreRead, vars, fixed, decoding
  <2>2. Sync(start)'
    BY <1>1, <2>1 DEF Sync, Synced, IsLayout
  <2> QED
    BY <2>2
<1> QED
  BY <1>2, <1>3 DEF Next, Reader

\* Before the first byte the decoder is as it was started.
LEMMA SyncInit == Init => FirstOnce /\ \E start : Sync(start)
<1> SUFFICES ASSUME Init PROVE FirstOnce /\ \E start : Sync(start)
  OBVIOUS
<1>1. packets \in [1 .. PacketCount -> Packets] /\ wire = WireOf(packets)
  BY DEF Init
<1>2. PICK start : IsLayout(packets, wire, start)
  BY <1>1, WireHasLayout
<1>3. /\ seen = 0 /\ gap = 0 /\ decoder = Started /\ reader.pc = "idle"
  BY DEF Init
<1>4. \A k \in 1 .. PacketCount :
        /\ start[k] \in Nat /\ Len(packets[k]) \in Nat /\ start[k + 1] = start[k] + Len(packets[k]) + 2
  <2>1. \A k \in 1 .. PacketCount : Len(packets[k]) \in Nat
    BY <1>1, EncodeFacts
  <2>2. \A k \in 1 .. PacketCount : k \in 1 .. PacketCount + 1
    BY ReceptionAssumption
  <2> QED
    BY <1>2, <2>1, <2>2 DEF IsLayout
<1>5. /\ \A k \in 1 .. PacketCount : \A i \in 1 .. Len(packets[k]) + 1 : 0 # start[k] + i
      /\ \A k \in 1 .. PacketCount : ~(start[k + 1] <= 0)
  BY <1>4
<1>6. FirstOnce
  BY <1>3 DEF FirstOnce
<1>7. Sync(start)
  BY <1>2, <1>3, <1>5 DEF Sync
<1> QED
  BY <1>6, <1>7

\* A packet whose frame has arrived, after a delimiter that did, has been
\* handed over.
LEMMA SyncSuffices == Types /\ (\E start : Sync(start)) => Resync
<1> SUFFICES ASSUME Types, NEW start, Sync(start), NEW n \in 1 .. seen,
                    NEW k, k = wire[n].packet,
                    n = Len(wire) \/ wire[n + 1].packet # k,
                    gap = 0 \/ gap < n - Len(packets[k]) - 2
             PROVE  \E i \in DOMAIN accepted : accepted[i] = k
  BY DEF Resync
<1>1. /\ packets \in [1 .. PacketCount -> Packets] /\ IsLayout(packets, wire, start)
      /\ Len(wire) \in Nat /\ sent <= Len(wire) /\ seen <= sent /\ seen \in Nat /\ sent \in Nat
      /\ gap \in Nat /\ PacketCount \in Nat \ {0}
  BY Numbers, WireType, ReceptionAssumption DEF Types, Sending, Sync
<1>2. n \in 1 .. Len(wire) /\ n \in Nat
  BY <1>1
<1>3. /\ k \in 1 .. PacketCount /\ n \in start[k] + 1 .. start[k] + Len(packets[k]) + 2
      /\ wire[n].value = 0 <=> n = start[k + 1]
  BY <1>1, <1>2, WireByte
<1>4. /\ start[k] \in Nat /\ Len(packets[k]) \in Nat
      /\ start[k + 1] = start[k] + Len(packets[k]) + 2 /\ Len(wire) = start[PacketCount + 1]
  <2>1. packets[k] \in Packets
    BY <1>1, <1>3
  <2>2. k \in 1 .. PacketCount + 1
    BY <1>1, <1>3
  <2> QED
    BY <1>1, <1>3, <2>1, <2>2, EncodeFacts DEF IsLayout
<1>5. n = start[k + 1]
  <2>1. CASE n = Len(wire)
    <3>1. PacketCount + 1 \in 1 .. PacketCount + 1 /\ k < PacketCount + 1
      BY <1>1, <1>3
    <3>2. start[k + 1] <= start[PacketCount + 1]
      BY <1>1, <1>3, <3>1, LayoutOrder
    <3>3. start[k + 1] <= n
      BY <1>4, <2>1, <3>2
    <3>4. n <= start[k + 1]
      BY <1>3, <1>4
    <3>5. start[k + 1] \in Nat
      BY <1>4
    <3> QED
      BY <1>2, <3>3, <3>4, <3>5
  <2>2. CASE n # Len(wire) /\ wire[n + 1].packet # k
    <3>1. n + 1 \in 1 .. Len(wire) /\ n < n + 1
      BY <1>1, <1>2, <2>2
    <3>2. wire[n].value = 0
      BY <1>1, <1>2, <2>2, <3>1, WireOrder
    <3> QED
      BY <1>3, <3>2
  <2> QED
    BY <2>1, <2>2
<1>6. n - Len(packets[k]) - 2 = start[k]
  <2> DEFINE L == Len(packets[k])
             a == start[k]
  <2>1. n = a + L + 2 /\ a \in Nat /\ L \in Nat
    BY <1>4, <1>5
  <2> HIDE DEF L, a
  <2>2. n - L - 2 = a
    BY <2>1
  <2> QED
    BY <2>2 DEF L, a
<1>7. Synced(start, k)
  BY <1>6 DEF Synced
<1>8. start[k + 1] <= seen
  BY <1>1, <1>2, <1>5
<1> QED
  BY <1>3, <1>7, <1>8 DEF Sync

\* The decoder finds its way back: a packet whose frame arrives as it was sent,
\* and the delimiter before it, is handed over, whatever noise or a line error
\* has made of the bytes before; for line errors that are reported between two
\* calls of the reader or while it copies, in a build that reads the offset first.
THEOREM Resynchronised ==
  ASSUME OffsetFirst, ErrorAt \subseteq {"idle", "copy"}
  PROVE  Spec => []Resync
<1> DEFINE I == Types /\ Flow /\ FirstOnce /\ \E start : Sync(start)
<1>1. Init => I
  BY TypesInit, FlowInit, SyncInit
<1>2. I /\ [Next]_vars => I'
  BY TypesStep, FlowStep, FirstOnceStep, SyncStep
<1>3. I => Resync
  BY SyncSuffices
<1> QED
  BY <1>1, <1>2, <1>3, PTL DEF Spec


-----------------------------------------------------------------------------
(* Packets are handed over once and in order.                               *)

(* The bytes are decoded in the order of their numbers: the ones that are    *)
(* still to be read come after the last one that was decoded.                *)
Order ==
  /\ rx_bytes_already_read <= Total
  /\ reader.pc \notin {"copy", "store"} => seen <= sent - Total + rx_bytes_already_read
  /\ reader.pc \in {"copy", "store"} => rx_bytes_already_read + reader.bytes <= Total
  /\ reader.pc = "copy" =>
       /\ Len(reader.todo) <= reader.bytes
       /\ seen <= sent - Total + rx_bytes_already_read + reader.bytes - Len(reader.todo)
       /\ \A j \in 1 .. Len(reader.todo) :
            reader.todo[j] =
              (rx_bytes_already_read + reader.bytes - Len(reader.todo) + j - 1) % BufferSize
  /\ reader.pc = "store" => seen <= sent - Total + rx_bytes_already_read + reader.bytes

\* Nothing has been decoded.
LEMMA OrderInit == Init => Order
<1> SUFFICES ASSUME Init PROVE Order
  OBVIOUS
<1>1. /\ Total = 0 /\ sent = 0 /\ rx_bytes_already_read = 0 /\ seen = 0 /\ reader.pc = "idle"
  BY DEF Init, Total
<1> QED
  BY <1>1 DEF Order

\* The byte that is read next has come after the one that was decoded last.
LEMMA OrderNext ==
  ASSUME Types, Flow, Order, reader.pc = "copy", reader.todo # <<>>
  PROVE  LET n == rx_buf[Head(reader.todo)].number
         IN  /\ n = sent - Total + rx_bytes_already_read + reader.bytes - Len(reader.todo) + 1
             /\ n > seen /\ n \in 1 .. sent
<1> DEFINE R == rx_bytes_already_read
           B == reader.bytes
           t == Len(reader.todo)
           q == R + B - t + 1
<1>1. /\ BufferSize \in Nat \ {0} /\ sent \in Nat /\ R \in Nat /\ Total \in Nat
      /\ B \in Int /\ reader.todo \in Seq(Cells) /\ seen \in Nat
  BY Numbers
<1>2. t \in Nat \ {0} /\ Head(reader.todo) = reader.todo[1]
  BY <1>1, EmptySeq, HeadTailProperties
<1>3. /\ R + B <= Total /\ t <= B /\ seen <= sent - Total + R + B - t
      /\ reader.todo[1] = (R + B - t + 1 - 1) % BufferSize /\ Total <= sent
  <2>1. 1 \in 1 .. t
    BY <1>2
  <2> QED
    BY <2>1 DEF Order, Flow
<1> HIDE DEF R, B, t
<1>4. q \in R + 1 .. Total
  BY <1>1, <1>2, <1>3
<1>5. rx_buf[(q - 1) % BufferSize].number = sent - Total + q
  BY <1>4 DEF Flow, R
<1>6. R + B - t + 1 - 1 = q - 1
  BY <1>1, <1>2
<1>7. rx_buf[Head(reader.todo)].number = sent - Total + q
  BY <1>2, <1>3, <1>5, <1>6
<1>8. sent - Total + q = sent - Total + R + B - t + 1
  BY <1>1, <1>2
<1>9. sent - Total + q > seen /\ sent - Total + q \in 1 .. sent
  BY <1>1, <1>2, <1>3
<1> HIDE DEF q
<1> QED
  BY <1>7, <1>8, <1>9 DEF R, B, t

\* With errors only between two calls of the reader every step keeps the order.
LEMMA OrderStep ==
  ASSUME OffsetFirst, ErrorAt \subseteq {"idle"}
  PROVE  Types /\ Flow /\ Order /\ [Next]_vars => Order'
<1> SUFFICES ASSUME Types, Flow, Order, [Next]_vars PROVE Order'
  OBVIOUS
<1>0. /\ BufferSize \in Nat \ {0} /\ sent \in Nat /\ Total \in Nat /\ rx_bytes_already_read \in Nat
      /\ reader.received \in Nat /\ reader.bytes \in Int /\ reader.todo \in Seq(Cells)
      /\ reader.pc \in {"copy", "store"} => reader.bytes > 0
      /\ seen \in Nat /\ seen <= sent
  BY Numbers
<1>1. CASE ArriveWell \/ ArriveWrong
  <2>1. PICK v \in Byte : Arrive(v)
    BY <1>1, ArrivedByte
  <2>2. /\ Total' = Total + 1 /\ sent' = sent + 1
        /\ rx_bytes_already_read' = rx_bytes_already_read /\ reader' = reader /\ seen' = seen
    BY <2>1, FlowArrive
  <2>3. sent' - Total' = sent - Total
    BY <1>0, <2>2
  <2>4. rx_bytes_already_read <= Total' /\ \A x \in Int : x <= Total => x <= Total'
    BY <1>0, <2>2 DEF Order
  <2>5. rx_bytes_already_read + reader.bytes <= Total => rx_bytes_already_read + reader.bytes <= Total'
    BY <1>0, <2>4
  <2> QED
    BY <2>2, <2>3, <2>4, <2>5 DEF Order
<1>2. CASE LineError
  <2>1. /\ reader' = reader /\ seen' = seen /\ sent' = sent + 1 /\ Total' = 0
        /\ rx_bytes_already_read' = 0 /\ reader.pc = "idle"
    <3>1. Total' = 0
      BY <1>2 DEF LineError, Total
    <3>2. /\ reader' = reader /\ seen' = seen /\ sent' = sent + 1
          /\ rx_bytes_already_read' = 0 /\ reader.pc = "idle"
      BY <1>2 DEF LineError, decoding
    <3> QED
      BY <3>1, <3>2
  <2>2. seen <= sent' - 0 + 0
    BY <1>0, <2>1
  <2> QED
    BY <2>1, <2>2 DEF Order
<1>3. CASE ReadFirst \/ ReadSecond \/ BytesToRead
  <2>1. /\ Total' = Total /\ rx_bytes_already_read' = rx_bytes_already_read
        /\ sent' = sent /\ seen' = seen
    BY <1>3 DEF ReadFirst, ReadSecond, BytesToRead, dma, decoding, Total
  <2>2. reader.pc \notin {"copy", "store"} /\ reader'.pc \notin {"copy", "store"}
    BY <1>3 DEF ReadFirst, ReadSecond, BytesToRead, Go
  <2> QED
    BY <2>1, <2>2 DEF Order
<1>4. CASE ReadPosition
  <2>1. /\ Total' = Total /\ rx_bytes_already_read' = rx_bytes_already_read
        /\ sent' = sent /\ seen' = seen /\ reader.pc = "offset"
    BY <1>4 DEF ReadPosition, dma, decoding, Total
  <2>2. seen <= sent - Total + rx_bytes_already_read /\ rx_bytes_already_read <= Total
    BY <2>1 DEF Order
  <2>3. CASE reader.bytes > 0
    <3>1. /\ reader'.pc = "copy" /\ reader'.bytes = reader.bytes /\ Len(reader'.todo) = reader.bytes
          /\ rx_bytes_already_read + reader.bytes <= Total
          /\ \A j \in 1 .. reader.bytes :
               reader'.todo[j] = (rx_bytes_already_read + j - 1) % BufferSize
      <4>1. /\ reader' = [pc |-> "copy", received |-> reader.received, bytes |-> reader.bytes,
                          todo |-> reader'.todo]
            /\ Len(reader'.todo) = reader.bytes
            /\ rx_bytes_already_read + reader.bytes <= Total
            /\ \A j \in 1 .. reader.bytes :
                 reader'.todo[j] = (rx_bytes_already_read + j - 1) % BufferSize
        BY <1>4, <2>3, FlowCopy
      <4> QED
        BY <4>1
    <3>2. /\ sent - Total + rx_bytes_already_read + reader.bytes - reader.bytes
               = sent - Total + rx_bytes_already_read
          /\ reader.bytes <= reader.bytes
      BY <1>0
    <3>3. ASSUME NEW j \in 1 .. reader.bytes
          PROVE  rx_bytes_already_read + reader.bytes - reader.bytes + j - 1
                   = rx_bytes_already_read + j - 1
      BY <1>0
    <3> QED
      BY <2>1, <2>2, <3>1, <3>2, <3>3 DEF Order
  <2>4. CASE ~(reader.bytes > 0)
    <3>1. reader'.pc = "idle"
      BY <1>0, <1>4, <2>4 DEF ReadPosition, Go
    <3> QED
      BY <2>1, <2>2, <3>1 DEF Order
  <2> QED
    BY <2>3, <2>4
<1>5. CASE ProcessByte
  <2>1. /\ reader.pc = "copy" /\ reader.todo # <<>>
        /\ reader' = [reader EXCEPT !.todo = Tail(@)]
        /\ seen' = rx_buf[Head(reader.todo)].number
        /\ Total' = Total /\ rx_bytes_already_read' = rx_bytes_already_read /\ sent' = sent
    BY <1>5, ProcessByteFacts DEF Total
  <2>2. reader'.pc = "copy" /\ reader'.bytes = reader.bytes /\ reader'.todo = Tail(reader.todo)
    BY <2>1 DEF Types, Reading
  <2> DEFINE t == Len(reader.todo)
             u == Len(reader'.todo)
             R == rx_bytes_already_read
             B == reader.bytes
  <2>3. /\ t \in Nat \ {0} /\ u = t - 1
        /\ \A j \in 1 .. u : reader'.todo[j] = reader.todo[j + 1]
    BY <1>0, <2>1, <2>2, EmptySeq, HeadTailProperties
  <2>4. seen' = sent - Total + R + B - t + 1
    BY <2>1, OrderNext
  <2>5. t <= B /\ R + B <= Total /\ R <= Total
    BY <2>1 DEF Order
  <2>6. \A j \in 1 .. t : reader.todo[j] = (R + B - t + j - 1) % BufferSize
    BY <2>1 DEF Order
  <2>7. R \in Nat /\ B \in Int /\ sent \in Nat /\ Total \in Nat
    BY <1>0
  <2>8. ASSUME NEW j \in 1 .. u PROVE reader'.todo[j] = (R + B - u + j - 1) % BufferSize
    <3>1. j + 1 \in 1 .. t
      BY <2>3
    <3>2. reader'.todo[j] = (R + B - t + (j + 1) - 1) % BufferSize
      BY <2>3, <2>6, <3>1
    <3>3. R + B - t + (j + 1) - 1 = R + B - u + j - 1
      <4> HIDE DEF R, B, t, u
      <4> QED
        BY <2>3, <2>7
    <3> QED
      BY <3>2, <3>3
  <2>9. u <= B /\ seen' <= sent - Total + R + B - u
    <3> HIDE DEF R, B, t, u
    <3> QED
      BY <2>3, <2>4, <2>5, <2>7
  <2> QED
    BY <2>1, <2>2, <2>5, <2>8, <2>9 DEF Order
<1>6. CASE LoadRead
  <2>1. /\ reader.pc = "copy" /\ reader.todo = <<>> /\ reader'.pc = "store"
        /\ reader'.bytes = reader.bytes
        /\ Total' = Total /\ rx_bytes_already_read' = rx_bytes_already_read
        /\ sent' = sent /\ seen' = seen
    BY <1>6 DEF LoadRead, Go, dma, decoding, Total
  <2>2. Len(reader.todo) = 0
    BY <2>1
  <2>3. sent - Total + rx_bytes_already_read + reader.bytes - 0
          = sent - Total + rx_bytes_already_read + reader.bytes
    BY <1>0
  <2> QED
    BY <2>1, <2>2, <2>3 DEF Order
<1>7. CASE StoreRead
  <2>1. /\ reader.pc = "store" /\ reader'.pc = "idle"
        /\ rx_bytes_already_read' = reader.received + reader.bytes
        /\ Total' = Total /\ sent' = sent /\ seen' = seen
    BY <1>7 DEF StoreRead, Go, dma, decoding, Total
  <2>2. rx_bytes_already_read' = rx_bytes_already_read + reader.bytes
    BY <2>1 DEF Flow
  <2>3. /\ rx_bytes_already_read + reader.bytes <= Total
        /\ seen <= sent - Total + rx_bytes_already_read + reader.bytes
    BY <2>1 DEF Order
  <2>4. seen <= sent - Total + (rx_bytes_already_read + reader.bytes)
    BY <1>0, <2>3
  <2> QED
    BY <2>1, <2>2, <2>3, <2>4 DEF Order
<1>8. CASE UNCHANGED vars
  BY <1>8 DEF vars, dma, decoding, Order, Total
<1> QED
  BY <1>1, <1>2, <1>3, <1>4, <1>5, <1>6, <1>7, <1>8 DEF Next, Reader


(* Every packet that was handed over had its delimiter decoded, and within a *)
(* frame the last byte decoded is one of the packet its first byte is of.    *)
Handed ==
  /\ \A i \in 1 .. Len(accepted) :
       \E e \in 1 .. seen : wire[e].packet = accepted[i] /\ wire[e].value = 0
  /\ origin # 0 /\ decoder.p # 0 =>
       seen > 0 /\ wire[seen].packet = origin /\ wire[seen].value # 0

\* What ProcessByte hands over has a higher number than all that it did before,
\* and is on the line already.
LEMMA HandedProcess ==
  ASSUME Types, Flow, Order, Handed, ProcessByte
  PROVE  /\ Handed'
         /\ \/ accepted' = accepted
            \/ \E k \in 1 .. wire[sent].packet :
                 /\ \A i \in 1 .. Len(accepted) : accepted[i] < k
                 /\ accepted' = Append(accepted, k)
<1> DEFINE b == rx_buf[Head(reader.todo)]
           n == b.number
           d == Decode(decoder, b.value)
           right == b.number > 0 /\ b.value = wire[b.number].value
<1>1. /\ reader.pc = "copy" /\ reader.todo # <<>>
      /\ b.value \in Byte
      /\ decoder' = d.state
      /\ origin' = IF right /\ decoder.p = 0 THEN wire[n].packet
                   ELSE IF right /\ n = seen + 1 THEN origin ELSE 0
      /\ accepted' = IF d.rc >= HeaderSize /\ origin' # 0 /\ decoder.dst = packets[origin']
                     THEN Append(accepted, origin') ELSE accepted
      /\ seen' = n
      /\ UNCHANGED <<packets, wire, sent>>
  BY ProcessByteFacts
<1>2. n > seen /\ n \in 1 .. sent
  BY <1>1, OrderNext
<1>3. /\ sent \in Nat /\ seen \in Nat /\ HeaderSize \in Nat \ {0} /\ PacketCount \in Nat
      /\ Len(wire) \in Nat /\ sent <= Len(wire)
  BY Numbers, WireType, ReceptionAssumption DEF Types, Sending
<1>4. n \in 1 .. Len(wire) /\ n \in Nat
  BY <1>2, <1>3
<1>5. /\ packets \in [1 .. PacketCount -> Packets] /\ wire = WireOf(packets)
      /\ decoder \in Decoders /\ accepted \in Seq(1 .. PacketCount)
      /\ origin \in 0 .. PacketCount
  BY DEF Types, Sending, Decoding
<1>6. PICK start : IsLayout(packets, wire, start)
  BY <1>5, WireHasLayout
<1>7. /\ b.value = 0 => d.state = Started
      /\ b.value = 0 => d.rc = IF decoder.p = 0 THEN -3 ELSE IF decoder.c = 1 THEN decoder.p - 1 ELSE -1
      /\ b.value # 0 => d.rc <= 0
      /\ d.rc \in Int
  BY <1>1, <1>5, DecodeFacts
<1>8. Started.p = 0
  BY DEF Started
<1>9. \A e \in 1 .. seen : e \in 1 .. n /\ e \in 1 .. Len(wire) /\ e < n
  BY <1>2, <1>3, <1>4
<1>10. \A e \in 1 .. seen : wire[e].value = 0 => wire[e].packet < wire[n].packet
  BY <1>4, <1>5, <1>6, <1>9, WireOrder
<1>11. wire[n].packet \in 1 .. PacketCount
  <2>1. \A q \in 1 .. Len(wire) : wire[q].packet \in 1 .. PacketCount
    BY WireType DEF Types
  <2> QED
    BY <1>4, <2>1
\* within a frame the packet does not change
<1>12. n = seen + 1 /\ origin # 0 /\ decoder.p # 0 => wire[n].packet = origin
  <2> SUFFICES ASSUME n = seen + 1, origin # 0, decoder.p # 0 PROVE wire[n].packet = origin
    OBVIOUS
  <2>1. seen > 0 /\ wire[seen].packet = origin /\ wire[seen].value # 0
    BY DEF Handed
  <2>2. seen \in 1 .. seen
    BY <1>3, <2>1
  <2>3. seen \in 1 .. Len(wire) /\ seen < n
    BY <1>9, <2>2
  <2>4. wire[seen].packet = wire[n].packet
    BY <1>4, <1>5, <1>6, <2>1, <2>3, WireOrder
  <2> QED
    BY <2>1, <2>4
<1>13. origin' # 0 => right /\ origin' = wire[n].packet
  <2> SUFFICES ASSUME origin' # 0 PROVE right /\ origin' = wire[n].packet
    OBVIOUS
  <2>1. right
    BY <1>1
  <2>2. CASE decoder.p = 0
    BY <1>1, <2>1, <2>2
  <2>3. CASE decoder.p # 0
    <3>1. n = seen + 1 /\ origin' = origin
      BY <1>1, <2>1, <2>3
    <3> QED
      BY <1>12, <2>1, <2>3, <3>1
  <2> QED
    BY <2>1, <2>2, <2>3
<1>14. right => wire[n].value = b.value
  OBVIOUS
<1> HIDE DEF right, d, n, b
<1>15. CASE accepted' = accepted
  <2>1. \A i \in 1 .. Len(accepted) :
          \E e \in 1 .. n : wire[e].packet = accepted[i] /\ wire[e].value = 0
    BY <1>9 DEF Handed
  <2>2. origin' # 0 /\ decoder'.p # 0 =>
          n > 0 /\ wire[n].packet = origin' /\ wire[n].value # 0
    BY <1>1, <1>2, <1>3, <1>7, <1>8, <1>13, <1>14
  <2>3. seen' = n /\ wire' = wire /\ accepted' = accepted
    BY <1>1, <1>15
  <2>4. Handed'
    BY <2>1, <2>2, <2>3 DEF Handed
  <2> QED
    BY <1>15, <2>4
<1>16. CASE accepted' # accepted
  <2>1. /\ d.rc >= HeaderSize /\ origin' # 0 /\ accepted' = Append(accepted, origin')
    BY <1>1, <1>16
  <2>2. b.value = 0
    BY <1>3, <1>7, <2>1
  <2>3. origin' = wire[n].packet /\ wire[n].value = 0 /\ origin' \in 1 .. PacketCount
    BY <1>11, <1>13, <1>14, <2>1, <2>2
  <2>4. /\ Len(Append(accepted, origin')) = Len(accepted) + 1
        /\ \A i \in 1 .. Len(accepted) : Append(accepted, origin')[i] = accepted[i]
        /\ Append(accepted, origin')[Len(accepted) + 1] = origin'
        /\ Len(accepted) \in Nat
    BY <1>5, <2>3, AppendProperties, LenProperties
  <2>5. \A i \in 1 .. Len(accepted) : accepted[i] < origin'
    BY <1>10, <2>3 DEF Handed
  <2>6. \A i \in 1 .. Len(accepted) :
          \E e \in 1 .. n : wire[e].packet = accepted[i] /\ wire[e].value = 0
    BY <1>9 DEF Handed
  <2>7. ASSUME NEW i \in 1 .. Len(accepted) + 1
        PROVE  \E e \in 1 .. n :
                 wire[e].packet = Append(accepted, origin')[i] /\ wire[e].value = 0
    <3>1. CASE i \in 1 .. Len(accepted)
      BY <2>4, <2>6, <3>1
    <3>2. CASE i \notin 1 .. Len(accepted)
      <4>1. i = Len(accepted) + 1 /\ n \in 1 .. n
        BY <1>2, <1>3, <2>4, <3>2
      <4> QED
        BY <2>3, <2>4, <4>1
    <3> QED
      BY <3>1, <3>2
  <2>8. decoder'.p = 0
    BY <1>1, <1>7, <1>8, <2>2
  <2>9. wire[n].packet <= wire[sent].packet
    <3>1. sent \in 1 .. Len(wire) /\ (n = sent \/ n < sent)
      BY <1>2, <1>3
    <3>2. wire[sent].packet \in 1 .. PacketCount
      BY <3>1, WireType DEF Types
    <3>3. CASE n = sent
      BY <1>11, <3>3
    <3>4. CASE n < sent
      BY <1>4, <1>5, <1>6, <3>1, <3>4, WireOrder
    <3> QED
      BY <3>1, <3>3, <3>4
  <2>10. origin' \in 1 .. wire[sent].packet
    <3>1. sent \in 1 .. Len(wire)
      BY <1>2, <1>3
    <3>2. wire[sent].packet \in 1 .. PacketCount
      BY <3>1, WireType DEF Types
    <3> QED
      BY <1>3, <2>3, <2>9, <3>2
  <2>11. Handed'
    <3>1. seen' = n /\ wire' = wire /\ accepted' = Append(accepted, origin')
      BY <1>1, <2>1
    <3>2. Len(accepted') = Len(accepted) + 1
      BY <2>4, <3>1
    <3> QED
      BY <2>7, <2>8, <3>1, <3>2 DEF Handed
  <2> QED
    BY <2>1, <2>5, <2>10, <2>11
<1> QED
  BY <1>15, <1>16


\* Nothing has been handed over.
LEMMA HandedInit == Init => Handed
  BY DEF Init, Handed

\* Only ProcessByte decodes and hands over.
LEMMA HandedStep == Types /\ Flow /\ Order /\ Handed /\ [Next]_vars => Handed'
<1> SUFFICES ASSUME Types, Flow, Order, Handed, [Next]_vars PROVE Handed'
  OBVIOUS
<1>1. CASE ProcessByte
  BY <1>1, HandedProcess
<1>2. CASE \/ ArriveWell \/ ArriveWrong \/ LineError \/ UNCHANGED vars
           \/ ReadFirst \/ ReadSecond \/ BytesToRead \/ ReadPosition \/ LoadRead \/ StoreRead
  <2>1. UNCHANGED <<wire, decoder, accepted, seen, origin>>
    BY <1>2 DEF ArriveWell, ArriveWrong, Arrive, LineError, ReadFirst, ReadSecond, BytesToRead,
                ReadPosition, LoadRead, StoreRead, vars, fixed, decoding
  <2> QED
    BY <2>1 DEF Handed
<1> QED
  BY <1>1, <1>2 DEF Next, Reader

\* How many packets are on the line, in whole or in part.
Sent == IF sent = 0 THEN 0 ELSE wire[sent].packet

\* Every step is one of the lossy line or leaves it as it is: what is sent next
\* is of the same packet or of a later one, and what is handed over is on the
\* line and later than all before.
LEMMA LineStep ==
  Types /\ Types' /\ Flow /\ Order /\ Handed /\ [Next]_vars =>
    [Line!Send \/ Line!Hand]_<<Sent, accepted>>
<1> SUFFICES ASSUME Types, Types', Flow, Order, Handed, [Next]_vars
             PROVE  [Line!Send \/ Line!Hand]_<<Sent, accepted>>
  OBVIOUS
<1>1. CASE ProcessByte
  <2>1. UNCHANGED <<wire, sent>>
    BY <1>1, ProcessByteFacts
  <2>2. Sent' = Sent
    BY <2>1 DEF Sent
  <2>3. CASE accepted' = accepted
    BY <2>2, <2>3
  <2>4. CASE accepted' # accepted
    <3>1. sent # 0
      <4>1. reader.pc = "copy" /\ reader.todo # <<>>
        BY <1>1 DEF ProcessByte
      <4>2. rx_buf[Head(reader.todo)].number \in 1 .. sent
        BY <4>1, OrderNext
      <4> QED
        BY <4>2
    <3>2. PICK k \in 1 .. wire[sent].packet :
            /\ \A i \in 1 .. Len(accepted) : accepted[i] < k
            /\ accepted' = Append(accepted, k)
      BY <1>1, <2>4, HandedProcess
    <3>3. Line!Hand
      BY <2>1, <3>1, <3>2 DEF Line!Hand
    <3> QED
      BY <3>3
  <2> QED
    BY <2>3, <2>4
<1>2. CASE ArriveWell \/ ArriveWrong \/ LineError
  <2>1. /\ sent < Len(wire) /\ sent' = sent + 1 /\ wire' = wire /\ accepted' = accepted
        /\ packets' = packets
    BY <1>2 DEF ArriveWell, ArriveWrong, Arrive, LineError, fixed, decoding
  <2>2. /\ packets \in [1 .. PacketCount -> Packets] /\ wire = WireOf(packets)
        /\ Len(wire) \in Nat /\ sent \in Nat /\ PacketCount \in Nat
        /\ \A n \in 1 .. Len(wire) : wire[n].packet \in 1 .. PacketCount
    BY WireType, ReceptionAssumption DEF Types, Sending
  <2>3. sent + 1 \in 1 .. Len(wire) /\ sent + 1 # 0
    BY <2>1, <2>2
  <2>4. Sent' = wire[sent + 1].packet /\ Sent' \in Nat /\ Sent' >= 1
    BY <2>1, <2>2, <2>3 DEF Sent
  <2>5. Sent <= Sent' /\ Sent \in Nat
    <3>1. CASE sent = 0
      BY <2>4, <3>1 DEF Sent
    <3>2. CASE sent # 0
      <4>1. PICK start : IsLayout(packets, wire, start)
        BY <2>2, WireHasLayout
      <4>2. sent \in 1 .. Len(wire) /\ sent < sent + 1
        BY <2>1, <2>2, <3>2
      <4>3. wire[sent].packet <= wire[sent + 1].packet
        BY <2>2, <2>3, <4>1, <4>2, WireOrder
      <4> QED
        BY <2>2, <2>4, <3>2, <4>2, <4>3 DEF Sent
    <3> QED
      BY <3>1, <3>2
  <2>6. CASE Sent' = Sent
    BY <2>1, <2>6
  <2>7. CASE Sent' # Sent
    <3>1. Sent' > Sent /\ Sent' \in Nat
      BY <2>4, <2>5, <2>7
    <3>2. Line!Send
      BY <2>1, <3>1 DEF Line!Send, Sent
    <3> QED
      BY <3>2
  <2> QED
    BY <2>6, <2>7
<1>3. CASE \/ ReadFirst \/ ReadSecond \/ BytesToRead \/ ReadPosition \/ LoadRead \/ StoreRead
           \/ UNCHANGED vars
  <2>1. UNCHANGED <<wire, sent, accepted>>
    BY <1>3 DEF ReadFirst, ReadSecond, BytesToRead, ReadPosition, LoadRead, StoreRead,
                vars, fixed, decoding
  <2> QED
    BY <2>1 DEF Sent
<1> QED
  BY <1>1, <1>2, <1>3 DEF Next, Reader

\* The reception implements the lossy line: however arrivals fall between the
\* instructions of the reader, packets are handed over at most once and in
\* order, as long as line errors are reported between two of its calls and the
\* build reads the offset before the counter (rx.c:55 leaves it open).
THEOREM ImplementsLine ==
  ASSUME OffsetFirst, ErrorAt \subseteq {"idle"}
  PROVE  Spec => LineSpec
<1> DEFINE I == Types /\ Flow /\ Order /\ Handed
<1>1. Init => I
  BY TypesInit, FlowInit, OrderInit, HandedInit
<1>2. I /\ [Next]_vars => I'
  BY TypesStep, FlowStep, OrderStep, HandedStep
<1>3. Init => Line!Init
  BY DEF Init, Line!Init
<1>4. I /\ I' /\ [Next]_vars => [Line!Send \/ Line!Hand]_<<Sent, accepted>>
  BY LineStep
<1> QED
  BY <1>1, <1>2, <1>3, <1>4, PTL DEF Spec, LineSpec, Line!Spec, Sent
=============================================================================
