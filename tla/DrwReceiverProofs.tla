------------------------- MODULE DrwReceiverProofs -------------------------
(***************************************************************************)
(* Theorems about DrwReceiver: the channel delivers a prefix of what the   *)
(* camera sent, and holds what it acknowledges, until a packet that found  *)
(* no room is gone, for any range of the sequence numbers, any limit of    *)
(* the receiver, any window of the camera up to half of the numbers and a  *)
(* stream of any length.                                                   *)
(***************************************************************************)
EXTENDS DrwReceiver, SequenceTheorems, FiniteSetTheorems, WellFoundedInduction,
        NaturalsInduction, TLAPS

----------------------------------------------------------------------------
(* Numbers modulo m.                                                       *)

LEMMA ModRange ==
    ASSUME NEW a \in Int, NEW m \in Nat \ {0}
    PROVE  a % m \in 0 .. m - 1
  OBVIOUS

LEMMA DivMod ==
    ASSUME NEW a \in Int, NEW m \in Nat \ {0}
    PROVE  a % m = a - m * (a \div m) /\ a \div m \in Int
  OBVIOUS

LEMMA NoMultiple ==
    ASSUME NEW m \in Nat \ {0}, NEW q \in Int, -m < m * q, m * q < m
    PROVE  q = 0
<1>1. CASE q >= 1
  <2>1. m * q >= m
    BY <1>1
  <2> QED
    BY <2>1
<1>2. CASE q <= -1
  <2>1. m * q <= -m
    BY <1>2
  <2> QED
    BY <2>1
<1> QED
  BY <1>1, <1>2

LEMMA OneResidue ==
    ASSUME NEW m \in Nat \ {0}, NEW q \in Int, NEW p \in Int,
           NEW r \in 0 .. m - 1, NEW a \in Int, NEW b \in Int,
           r = a - m * q, r = b - m * p, a - b < m, b - a < m
    PROVE  a = b
<1>1. a - b = m * (q - p)
  OBVIOUS
<1>2. q - p = 0
  BY <1>1, NoMultiple
<1>3. q = p
  BY <1>2
<1> QED
  BY <1>3

\* Two numbers less than m apart that are equal modulo m are equal.
LEMMA SameResidue ==
    ASSUME NEW m \in Nat \ {0}, NEW a \in Int, NEW b \in Int,
           a % m = b % m, a - b < m, b - a < m
    PROVE  a = b
<1> DEFINE p == a \div m
           q == b \div m
           r == a % m
           s == b % m
<1>1. r = a - m * p /\ p \in Int /\ r \in 0 .. m - 1
  BY DivMod, ModRange
<1>2. s = b - m * q /\ q \in Int
  BY DivMod
<1>3. r = s
  OBVIOUS
<1> HIDE DEF p, q, r, s
<1> QED
  BY <1>1, <1>2, <1>3, OneResidue

\* The only remainder of a is the one in range.
LEMMA ModIs ==
    ASSUME NEW m \in Nat \ {0}, NEW a \in Int, NEW r \in 0 .. m - 1,
           NEW q \in Int, r = a - m * q
    PROVE  a % m = r
<1> DEFINE p == a \div m
           s == a % m
<1>1. s = a - m * p /\ p \in Int /\ s \in 0 .. m - 1
  BY DivMod, ModRange
<1> HIDE DEF p, s
<1>2. r - s = m * (p - q)
  BY <1>1
<1>3. p - q = 0
  BY <1>1, <1>2, NoMultiple
<1>4. p = q
  BY <1>1, <1>3
<1>5. s = r
  BY <1>1, <1>4
<1> QED
  BY <1>5 DEF s

LEMMA ModPlus ==
    ASSUME NEW m \in Nat \ {0}, NEW a \in Int, NEW k \in Int
    PROVE  ((a % m) + k) % m = (a + k) % m
<1> DEFINE c == a + k
           p == a \div m
           s == a % m
           t == c % m
           u == c \div m
<1>1. c \in Int /\ c = a + k
  OBVIOUS
<1> HIDE DEF c
<1>2. s = a - m * p /\ p \in Int /\ s \in 0 .. m - 1
  BY DivMod, ModRange
<1>3. t = c - m * u /\ u \in Int /\ t \in 0 .. m - 1
  BY <1>1, DivMod, ModRange
<1> HIDE DEF p, s, t, u
<1> DEFINE d == s + k
           v == u - p
<1>4. t = (s + k) - m * (u - p)
  BY <1>1, <1>2, <1>3
<1>5. d \in Int /\ v \in Int
  BY <1>2, <1>3
<1>6. t = d - m * v
  BY <1>4
<1> HIDE DEF d, v
<1>7. d % m = t
  BY <1>3, <1>5, <1>6, ModIs
<1> QED
  BY <1>7 DEF s, t, c, d

\* The distance of two numbers of which the remainders are known, if the
\* numbers are at most half of m apart: in front below the half, behind above.
LEMMA ModDistance ==
    ASSUME NEW m \in Nat \ {0}, NEW a \in Int, NEW b \in Int,
           NEW h \in Nat, m = 2 * h, a - b < h, b - a <= h
    PROVE  /\ a >= b => ((a % m) - (b % m)) % m = a - b
           /\ a < b => ((a % m) - (b % m)) % m = a - b + m
<1> DEFINE p == a \div m
           r == a % m
           q == b \div m
           s == b % m
           c == r - s
           d == a - b
<1>1. r = a - m * p /\ p \in Int /\ r \in 0 .. m - 1
  BY DivMod, ModRange
<1>2. s = b - m * q /\ q \in Int /\ s \in 0 .. m - 1
  BY DivMod, ModRange
<1> HIDE DEF p, q, r, s
<1>3. c \in Int /\ d \in Int
  BY <1>1, <1>2
<1>4. d = c - m * (q - p)
  BY <1>1, <1>2
<1>5. d + m = c - m * (q - p - 1)
  BY <1>1, <1>2
<1>6. ASSUME a >= b
      PROVE  ((a % m) - (b % m)) % m = a - b
  <2> DEFINE w == q - p
  <2>1. d \in 0 .. m - 1 /\ w \in Int
    BY <1>2, <1>1, <1>6
  <2>2. d = c - m * w
    BY <1>4
  <2> HIDE DEF c, d, w
  <2>3. c % m = d
    BY <1>3, <2>1, <2>2, ModIs
  <2> QED
    BY <2>3, Zenon DEF c, d, r, s
<1>7. ASSUME a < b
      PROVE  ((a % m) - (b % m)) % m = a - b + m
  <2> DEFINE e == d + m
             w == q - p - 1
  <2>1. e \in 0 .. m - 1 /\ w \in Int
    BY <1>2, <1>1, <1>7
  <2>2. e = c - m * w
    BY <1>5
  <2> HIDE DEF c, d, e, w
  <2>3. c % m = e
    BY <1>3, <2>1, <2>2, ModIs
  <2> QED
    BY <2>3, Zenon DEF c, d, e, r, s
<1> QED
  BY <1>6, <1>7, Zenon

\* A bounded set of numbers has a maximum.
LEMMA LeastElement ==
    ASSUME NEW T, T \subseteq Nat, T # {}
    PROVE  \E m \in T : \A n \in T : m <= n
<1> DEFINE R == OpToRel(<, Nat)
<1>1. IsWellFoundedOn(R, Nat)
  BY NatLessThanWellFounded
<1>2. \A m, n \in Nat : <<n, m>> \in R <=> n < m
  BY DEF OpToRel
<1> HIDE DEF R
<1>3. \E m \in T : \A n \in T : ~(<<n, m>> \in R)
  BY <1>1, WFMin
<1>4. \E m \in T : \A n \in T : ~(n < m)
  BY <1>2, <1>3, Zenon
<1> QED
  BY <1>4

LEMMA MaxIsGreatest ==
    ASSUME NEW N \in Nat, NEW T, T \subseteq 0 .. N, T # {}
    PROVE  Max(T) \in T /\ \A n \in T : n <= Max(T)
<1> DEFINE U == {n \in 0 .. N : N - n \in T}
<1>1. U \subseteq Nat /\ U # {}
  <2>1. PICK t \in T : TRUE
    OBVIOUS
  <2>2. N - t \in U
    OBVIOUS
  <2> QED
    BY <2>2
<1>2. PICK m \in U : \A n \in U : m <= n
  <2> HIDE DEF U
  <2> QED
    BY <1>1, LeastElement
<1>3. ASSUME NEW n \in T
      PROVE  n <= N - m
  <2>1. N - n \in U
    OBVIOUS
  <2> QED
    BY <1>2, <2>1
<1>4. \E x \in T : \A y \in T : x >= y
  BY <1>2, <1>3
<1> QED
  BY <1>4 DEF Max

----------------------------------------------------------------------------
(* The invariant.                                                          *)

Half == SeqMod \div 2
Delivered == Len(buffer)

Sound ==
    /\ next \in 0 .. Total /\ expected \in Int
    /\ unacked \subseteq 0 .. next - 1
    /\ net \subseteq 0 .. next - 1
    /\ acks \subseteq 0 .. next - 1
    /\ missed \subseteq 0 .. next - 1
    /\ buffer \in Seq(Nat)
    /\ IsFiniteSet(DOMAIN ooo) /\ \A s \in DOMAIN ooo : ooo[s] \in 0 .. next - 1

\* The camera waits for old packets, and the network forgets them.
Recent ==
    /\ \A i \in unacked : next - i <= CameraWindow
    /\ \A i \in net : next - i <= Half

\* What is kept lies ahead, under its own number, and has found room.
Kept ==
    \A s \in DOMAIN ooo : /\ ooo[s] \in Delivered + 1 .. next - 1
                          /\ s = SeqNumber(ooo[s])
                          /\ ooo[s] \notin missed

\* The numbers have not come half way round since the packet expected next.
Close == next - Delivered <= Half

\* An acknowledgement on its way tells the truth, like one that arrived.
Held ==
    \A i \in acks \cup ((0 .. next - 1) \ unacked) :
        i < Delivered \/ i \in Range(ooo) \/ i \in missed

\* The receiver is in step with the camera: no packet was passed over.  It stays
\* in step while it waits for one that is gone.
InStep ==
    /\ Delivered \in 0 .. next /\ expected = SeqNumber(Delivered)
    /\ \A k \in DOMAIN buffer : buffer[k] = k - 1
    /\ \A d \in missed : Delivered <= d
    /\ Kept
    /\ Close => Held
    /\ ~Close => Delivered \in missed

\* It took another packet for one that is gone, and everything before was right.
Derailed ==
    \E d \in Gone : d < Delivered /\ \A k \in 1 .. d : buffer[k] = k - 1

DrwInv == Sound /\ Recent /\ (InStep \/ Derailed)
Near == Sound /\ Recent /\ InStep /\ Close

LEMMA HalfIs == /\ SeqMod \in Nat \ {0} /\ Half \in Nat /\ SeqMod = 2 * Half
                /\ CameraWindow <= Half /\ CameraWindow \in Nat \ {0}
                /\ MaxAge <= Half /\ MaxAge \in Nat /\ OooCap \in Nat /\ Total \in Nat
<1>1. SeqMod % 2 = SeqMod - 2 * (SeqMod \div 2) /\ SeqMod \div 2 \in Int
  BY DrwAssumption, DivMod
<1> QED
  BY <1>1, DrwAssumption DEF Half

LEMMA HalfStays == Half' = Half
  BY DEF Half

LEMMA SameNumber ==
    ASSUME NEW a \in Int, NEW b \in Int, SeqNumber(a) = SeqNumber(b),
           a - b < SeqMod, b - a < SeqMod
    PROVE  a = b
  BY SameResidue, HalfIs, Zenon DEF SeqNumber

LEMMA NumberPlus ==
    ASSUME NEW a \in Int, NEW k \in Int
    PROVE  SeqNumber(SeqNumber(a) + k) = SeqNumber(a + k)
  BY ModPlus, HalfIs, Zenon DEF SeqNumber

LEMMA DistanceIs ==
    ASSUME NEW i \in Int, NEW b \in Int, expected = SeqNumber(b),
           i - b < Half, b - i <= Half
    PROVE  /\ i >= b => Distance(i) = i - b
           /\ i < b => Distance(i) = i - b + SeqMod
  BY ModDistance, HalfIs, Zenon DEF Distance, SeqNumber

LEMMA InitDrw == Init => DrwInv
<1> SUFFICES ASSUME Init PROVE DrwInv
  OBVIOUS
<1>1. DOMAIN ooo = {}
  BY DEF Init
<1>2. Sound
  BY <1>1, HalfIs, FS_EmptySet DEF Init, Sound
<1>3. InStep
  BY <1>1, HalfIs, ModIs DEF Init, InStep, Kept, Held, Close, Delivered, SeqNumber
<1> QED
  BY <1>2, <1>3 DEF Init, DrwInv, Recent

\* A packet that is gone is not on the network any more.
LEMMA GoneForGood ==
    ASSUME Sound, Recent, NEW d \in Gone
    PROVE  d \notin net /\ d \notin unacked /\ d \in Nat
  BY HalfIs DEF Sound, Recent, Gone, Half

\* A receiver that is no longer close waits for a packet that is gone, and every
\* packet on the network comes after it.
LEMMA FarIsStuck ==
    ASSUME Sound, Recent, InStep, ~Close
    PROVE  /\ Delivered \in Gone
           /\ \A i \in net : i > Delivered
<1>1. Delivered \in missed /\ Delivered \in Nat /\ next \in Nat
  BY DEF InStep, Sound
<1>2. next - Delivered > Half
  BY <1>1, HalfIs DEF Close
<1> QED
  BY <1>1, <1>2, HalfIs DEF Sound, Recent, Gone, Half

\* So the number of a packet in the network tells where it belongs.
LEMMA NumberTells ==
    ASSUME Near, NEW i \in net
    PROVE  /\ SeqNumber(i) = expected <=> i = Delivered
           /\ IsAhead(i) <=> i > Delivered
<1> DEFINE d == Distance(i)
<1>1. /\ i \in Nat /\ Delivered \in Nat /\ i < next /\ next - i <= Half /\ next \in Nat
      /\ Delivered <= next /\ next - Delivered <= Half
      /\ expected = SeqNumber(Delivered)
  BY HalfIs DEF Near, InStep, Close, Sound, Recent
<1>2. i - Delivered < Half /\ Delivered - i <= Half
  BY <1>1, HalfIs
<1>3. /\ i >= Delivered => d = i - Delivered
      /\ i < Delivered => d = i - Delivered + SeqMod
  BY <1>1, <1>2, DistanceIs
<1>4. SeqNumber(i) = expected => i = Delivered
  BY <1>1, <1>2, HalfIs, SameNumber
<1>5. IsAhead(i) <=> d > 0 /\ d < Half
  BY DEF IsAhead, Half
<1> HIDE DEF d
<1>6. IsAhead(i) <=> i > Delivered
  BY <1>1, <1>2, <1>3, <1>5, HalfIs
<1> QED
  BY <1>1, <1>4, <1>6

\* A number in use among the kept ones is that of one packet in reach.
LEMMA KeptUnder ==
    ASSUME Near, NEW p \in Delivered + 1 .. Delivered + Half, SeqNumber(p) \in DOMAIN ooo
    PROVE  ooo[SeqNumber(p)] = p /\ p < next
<1> DEFINE q == ooo[SeqNumber(p)]
<1>1. q \in Delivered + 1 .. next - 1 /\ SeqNumber(p) = SeqNumber(q)
  BY DEF Near, InStep, Kept
<1>2. Delivered \in Nat /\ next \in Nat /\ next - Delivered <= Half
  BY HalfIs DEF Near, InStep, Close, Sound
<1>3. p \in Int /\ q \in Int /\ p - q < SeqMod /\ q - p < SeqMod
  BY <1>1, <1>2, HalfIs
<1> HIDE DEF q
<1>4. p = q
  BY <1>1, <1>3, SameNumber
<1> QED
  BY <1>1, <1>2, <1>4 DEF q

\* There are no more numbers in use than packets they can stand for.
LEMMA KeptAreFew ==
    ASSUME Near, NEW T, IsFiniteSet(T), \A s \in DOMAIN ooo : ooo[s] \in T
    PROVE  IsFiniteSet(DOMAIN ooo) /\ Cardinality(DOMAIN ooo) <= Cardinality(T)
<1> DEFINE f == [s \in DOMAIN ooo |-> ooo[s]]
<1>1. f \in Injection(DOMAIN ooo, T)
  <2>1. f \in [DOMAIN ooo -> T]
    OBVIOUS
  <2>2. \A s, t \in DOMAIN ooo : f[s] = f[t] => s = t
    BY DEF Near, InStep, Kept
  <2> QED
    BY <2>1, <2>2 DEF Injection, IsInjective
<1> QED
  BY <1>1, FS_Injection

\* The loop of _handle_data stops at the first packet that is not kept.
LEMMA FollowingIs ==
    ASSUME Near, Delivered < next
    PROVE  /\ Following \in Nat /\ Delivered + 1 + Following <= next
           /\ \A k \in 1 .. Following :
                 /\ SeqNumber(expected + k) \in DOMAIN ooo
                 /\ SeqNumber(expected + k) = SeqNumber(Delivered + k)
                 /\ ooo[SeqNumber(expected + k)] = Delivered + k
           /\ Delivered + 1 + Following \notin Range(ooo)
<1> DEFINE N == Cardinality(DOMAIN ooo)
           T == {n \in 0 .. N : \A k \in 1 .. n : SeqNumber(expected + k) \in DOMAIN ooo}
           F == Following
<1>1. /\ Delivered \in Nat /\ next \in Nat /\ next - Delivered <= Half
      /\ expected = SeqNumber(Delivered)
  BY HalfIs DEF Near, InStep, Close, Sound
<1>2. IsFiniteSet(DOMAIN ooo) /\ N \in Nat /\ N <= next - 1 - Delivered
  <2> DEFINE ahead == Delivered + 1 .. next - 1
  <2>1. IsFiniteSet(ahead) /\ Cardinality(ahead) = next - 1 - Delivered
    <3> DEFINE a == Delivered + 1
               b == next - 1
    <3>1. a \in Int /\ b \in Int /\ (IF a > b THEN 0 ELSE b - a + 1) = next - 1 - Delivered
      BY <1>1
    <3> HIDE DEF a, b
    <3>2. IsFiniteSet(a .. b) /\ Cardinality(a .. b) = next - 1 - Delivered
      BY <3>1, FS_Interval
    <3> QED
      BY <3>2 DEF a, b
  <2>2. \A s \in DOMAIN ooo : ooo[s] \in ahead
    BY DEF Near, InStep, Kept
  <2> QED
    BY <2>1, <2>2, KeptAreFew, FS_CardinalityType
<1>3. ASSUME NEW k \in Nat
      PROVE  SeqNumber(expected + k) = SeqNumber(Delivered + k)
  BY <1>1, NumberPlus
<1>4. F \in T /\ \A n \in T : n <= F
  <2>1. T \subseteq 0 .. N /\ 0 \in T
    BY <1>2
  <2>2. Max(T) \in T /\ \A n \in T : n <= Max(T)
    <3> HIDE DEF T
    <3> QED
      BY <1>2, <2>1, MaxIsGreatest
  <2> QED
    BY <2>2 DEF Following
<1>5. F \in Nat /\ F <= N /\ \A k \in 1 .. F : SeqNumber(expected + k) \in DOMAIN ooo
  BY <1>2, <1>4
<1> HIDE DEF F, N
<1>6. ASSUME NEW k \in 1 .. F + 1, SeqNumber(expected + k) \in DOMAIN ooo
      PROVE  /\ SeqNumber(expected + k) = SeqNumber(Delivered + k)
             /\ ooo[SeqNumber(expected + k)] = Delivered + k /\ Delivered + k < next
  <2>1. Delivered + k \in Delivered + 1 .. Delivered + Half
    BY <1>1, <1>2, <1>5, HalfIs
  <2>2. SeqNumber(expected + k) = SeqNumber(Delivered + k)
    BY <1>3, <1>5
  <2> QED
    BY <1>6, <2>1, <2>2, KeptUnder
<1>7. SeqNumber(expected + (F + 1)) \notin DOMAIN ooo
  <2> SUFFICES ASSUME SeqNumber(expected + (F + 1)) \in DOMAIN ooo
               PROVE  FALSE
    OBVIOUS
  <2>1. \A k \in 1 .. F + 1 : SeqNumber(expected + k) \in DOMAIN ooo
    BY <1>5
  <2>2. F = N
    <3>1. F + 1 \notin T
      BY <1>4, <1>5
    <3> QED
      BY <1>2, <1>5, <2>1, <3>1
  <2> DEFINE f == [k \in 1 .. F + 1 |-> SeqNumber(expected + k)]
  <2>3. f \in [1 .. F + 1 -> DOMAIN ooo]
    BY <2>1
  <2>4. IsFiniteSet(1 .. F + 1) /\ Cardinality(1 .. F + 1) = F + 1
    BY <1>5, FS_Interval
  <2>5. PICK x, y \in 1 .. F + 1 : x # y /\ f[x] = f[y]
    <3> HIDE DEF f
    <3> QED
      BY <1>2, <1>5, <2>2, <2>3, <2>4, FS_PigeonHole DEF N
  <2>6. Delivered + x = Delivered + y
    BY <1>6, <2>1, <2>5
  <2> QED
    BY <1>1, <1>5, <2>5, <2>6
<1>8. Delivered + 1 + F \notin Range(ooo)
  <2> SUFFICES ASSUME NEW s \in DOMAIN ooo, ooo[s] = Delivered + 1 + F PROVE FALSE
    BY DEF Range
  <2>1. s = SeqNumber(Delivered + (F + 1))
    BY <1>1, <1>5 DEF Near, InStep, Kept
  <2>2. s = SeqNumber(expected + (F + 1))
    BY <1>3, <1>5, <2>1
  <2> QED
    BY <1>7, <2>2
<1>9. Delivered + 1 + F <= next
  BY <1>1, <1>2, <1>5
<1> QED
  BY <1>5, <1>6, <1>8, <1>9 DEF F

----------------------------------------------------------------------------
(* The steps.                                                              *)

\* The camera and the network: the receiver is left alone, and no packet that
\* is acknowledged becomes one that is not held.
LEMMA CameraKeeps ==
    ASSUME DrwInv,
           CameraSend \/ \E i \in Packets : CameraResend(i) \/ CameraAck(i) \/ Lose(i)
    PROVE  DrwInv'
<1> USE DEF DrwInv
<1>1. /\ UNCHANGED <<expected, ooo, buffer, missed>>
      /\ Delivered' = Delivered
  BY DEF CameraSend, CameraResend, CameraAck, Lose, Delivered
<1>2. next' \in {next, next + 1} /\ next' \in 0 .. Total /\ next \in Nat
  BY HalfIs DEF CameraSend, CameraResend, CameraAck, Lose, Sound
<1>3. Derailed => Derailed'
  <2>1. \A d \in missed : d \in Nat
    BY DEF Sound
  <2>2. \A d \in missed : next - d > Half => next' - d > Half
    BY <1>2, <2>1, HalfIs
  <2>3. \A d \in Gone : d \in Gone'
    BY <1>1, <2>2 DEF Gone, Half
  <2> QED
    BY <1>1, <2>3 DEF Derailed
<1>4. InStep => Kept'
  BY <1>1, <1>2 DEF InStep, Kept
<1>5. CASE CameraSend
  <2>1. Sound'
    <3>1. next' = next + 1 /\ next \in 0 .. next' - 1
      BY <1>2, <1>5 DEF CameraSend
    <3>2. /\ unacked' \subseteq unacked \cup {next}
          /\ net' \subseteq net \cup {next} /\ acks' \subseteq acks
      BY <1>5 DEF CameraSend
    <3>3. 0 .. next - 1 \subseteq 0 .. next' - 1
      BY <1>2, <3>1
    <3>4. /\ unacked' \subseteq 0 .. next' - 1 /\ net' \subseteq 0 .. next' - 1
          /\ acks' \subseteq 0 .. next' - 1 /\ missed' \subseteq 0 .. next' - 1
          /\ \A t \in DOMAIN ooo' : ooo'[t] \in 0 .. next' - 1
      BY <1>1, <3>1, <3>2, <3>3 DEF Sound
    <3> QED
      BY <1>1, <1>2, <3>4 DEF Sound
  <2>2. Recent'
    BY <1>5, HalfIs DEF Recent, CameraSend, Sound
  <2>3. acks' \cup ((0 .. next' - 1) \ unacked') \subseteq acks \cup ((0 .. next - 1) \ unacked)
    BY <1>5 DEF CameraSend, Sound
  <2>4. ASSUME InStep
        PROVE  InStep'
    <3>0. Delivered \in Nat /\ Half \in Nat /\ next' = next + 1 /\ next \in Nat
      BY <1>2, <1>5, <2>4, HalfIs DEF InStep, CameraSend
    <3>1. Close' => Close
      <4>1. next' - Delivered <= Half => next - Delivered <= Half
        BY <3>0
      <4> QED
        BY <1>1, <4>1, HalfStays, Zenon DEF Close
    <3>2. Close' => Held'
      BY <1>1, <2>3, <2>4, <3>1 DEF Held, InStep
    <3>3. ASSUME ~Close', Close
          PROVE  Delivered \in missed
      <4>1. next - Delivered = Half /\ Delivered \in Nat
        <5>1. ~(next' - Delivered <= Half) /\ next - Delivered <= Half
          BY <1>1, <3>3, HalfStays, Zenon DEF Close
        <5> QED
          BY <3>0, <5>1
      <4>2. Delivered \in (0 .. next - 1) \ unacked
        BY <1>2, <1>5, <4>1, HalfIs DEF CameraSend
      <4>3. Delivered \notin Range(ooo)
        BY <2>4, <4>1 DEF InStep, Kept, Range
      <4> QED
        BY <2>4, <3>3, <4>1, <4>2, <4>3 DEF InStep, Held
    <3> QED
      BY <1>1, <1>2, <1>4, <2>4, <3>2, <3>3 DEF InStep
  <2> QED
    BY <1>3, <2>1, <2>2, <2>4
<1>6. ASSUME NEW i \in Packets, CameraResend(i) \/ CameraAck(i) \/ Lose(i)
      PROVE  DrwInv'
  <2>1. next' = next /\ unacked' \subseteq unacked /\ acks' \subseteq acks
    BY <1>6 DEF CameraResend, CameraAck, Lose
  <2>2. net' \subseteq net \cup unacked
    BY <1>6 DEF CameraResend, CameraAck, Lose
  <2>3. Sound'
    BY <1>1, <2>1, <2>2 DEF Sound
  <2>4. Recent'
    BY <2>1, <2>2, HalfIs DEF Recent, Sound
  <2>5. unacked \ unacked' \subseteq acks
    BY <1>6 DEF CameraResend, CameraAck, Lose
  <2>6. acks' \cup ((0 .. next' - 1) \ unacked') \subseteq acks \cup ((0 .. next - 1) \ unacked)
    BY <2>1, <2>5
  <2>7. InStep => InStep'
    BY <1>1, <1>4, <2>1, <2>6 DEF InStep, Close, Held
  <2> QED
    BY <1>3, <2>3, <2>4, <2>7
<1> QED
  BY <1>5, <1>6

\* Whatever arrives, the receiver only adds to what it delivered.
LEMMA BufferGrows ==
    ASSUME Sound, NEW i \in net, HandleData(i)
    PROVE  /\ buffer' \in Seq(Nat) /\ Delivered \in Nat /\ Delivered' \in Nat
           /\ Delivered' >= Delivered
           /\ SeqNumber(i) = expected => Delivered' > Delivered
           /\ \A k \in 1 .. Delivered : buffer'[k] = buffer[k]
<1>1. buffer \in Seq(Nat) /\ Delivered \in Nat /\ i \in Nat
  BY DEF Sound, Delivered
<1>2. CASE SeqNumber(i) # expected
  BY <1>1, <1>2 DEF HandleData, Delivered
<1>3. CASE SeqNumber(i) = expected
  <2> DEFINE run == [k \in 1 .. Following |-> ooo[SeqNumber(expected + k)]]
             one == buffer \o <<i>>
  <2>1. /\ Following \in Nat
        /\ \A k \in 1 .. Following : SeqNumber(expected + k) \in DOMAIN ooo
    <3> DEFINE N == Cardinality(DOMAIN ooo)
               T == {n \in 0 .. N : \A k \in 1 .. n :
                        SeqNumber(expected + k) \in DOMAIN ooo}
    <3>1. N \in Nat
      BY FS_CardinalityType DEF Sound
    <3>2. T \subseteq 0 .. N /\ 0 \in T
      BY <3>1
    <3>3. Max(T) \in T
      <4> HIDE DEF T
      <4> QED
        BY <3>1, <3>2, MaxIsGreatest
    <3> QED
      BY <3>1, <3>3 DEF Following
  <2>2. run \in Seq(Nat)
    <3>1. \A t \in DOMAIN ooo : ooo[t] \in Nat
      BY DEF Sound
    <3>2. \A k \in 1 .. Following : ooo[SeqNumber(expected + k)] \in Nat
      BY <2>1, <3>1, Zenon
    <3> QED
      BY <2>1, <3>2
  <2>3. buffer' = one \o run
    BY <1>3 DEF HandleData, Deliver
  <2> HIDE DEF run
  <2>4. <<i>> \in Seq(Nat) /\ Len(<<i>>) = 1
    BY <1>1
  <2>5. /\ one \in Seq(Nat) /\ Len(one) = Delivered + 1
        /\ \A k \in 1 .. Delivered : one[k] = buffer[k]
    BY <1>1, <2>4 DEF Delivered
  <2> HIDE DEF one
  <2>6. /\ one \o run \in Seq(Nat) /\ Len(one \o run) = Len(one) + Len(run)
        /\ \A k \in 1 .. Len(one) + Len(run) :
              (one \o run)[k] = IF k <= Len(one) THEN one[k] ELSE run[k - Len(one)]
    BY <2>2, <2>5, ConcatProperties, Zenon
  <2>7. Len(run) \in Nat
    BY <2>2
  <2>8. buffer' \in Seq(Nat) /\ Delivered' = Delivered + 1 + Len(run)
    BY <2>3, <2>5, <2>6 DEF Delivered
  <2>9. \A k \in 1 .. Delivered : buffer'[k] = buffer[k]
    BY <1>1, <2>3, <2>5, <2>6, <2>7
  <2> QED
    BY <1>1, <2>7, <2>8, <2>9
<1> QED
  BY <1>2, <1>3

\* A packet that arrives leaves the network, the camera and the marks of other
\* packets alone.
LEMMA HandleKeeps ==
    ASSUME Sound, Recent, NEW i \in net, HandleData(i)
    PROVE  /\ Sound' /\ Recent' /\ next' = next
           /\ missed \ {i} \subseteq missed' /\ missed' \subseteq missed \cup {i}
<1>1. /\ net' \subseteq net /\ acks' = acks \cup {i} /\ next' = next /\ unacked' = unacked
      /\ missed \ {i} \subseteq missed' /\ missed' \subseteq missed \cup {i}
      /\ i \in 0 .. next - 1
  BY DEF HandleData, Acknowledge, Sound
<1>2. expected' \in Int
  <2>1. Deliver(i) => expected' \in Int
    <3>1. SUFFICES ASSUME Deliver(i) PROVE expected' \in Int
      OBVIOUS
    <3>2. \A a \in Int : SeqNumber(a) \in Int
      BY HalfIs, ModRange DEF SeqNumber
    <3>3. Following \in Int
      <4> DEFINE N == Cardinality(DOMAIN ooo)
                 T == {n \in 0 .. N : \A k \in 1 .. n :
                          SeqNumber(expected + k) \in DOMAIN ooo}
      <4>1. N \in Nat
        BY FS_CardinalityType DEF Sound
      <4>2. T \subseteq 0 .. N /\ 0 \in T
        BY <4>1
      <4>3. Max(T) \in T
        <5> HIDE DEF T
        <5> QED
          BY <4>1, <4>2, MaxIsGreatest
      <4> QED
        BY <4>1, <4>3 DEF Following
    <3>4. expected + 1 + Following \in Int
      BY <3>3 DEF Sound
    <3> QED
      BY <3>1, <3>2, <3>4 DEF Deliver
  <2> QED
    BY <2>1 DEF HandleData, Sound
<1>3. /\ IsFiniteSet(DOMAIN ooo')
      /\ \A s \in DOMAIN ooo' : ooo'[s] \in 0 .. next - 1
  <2>1. CASE Deliver(i)
    <3>1. DOMAIN ooo' \subseteq DOMAIN ooo /\ \A s \in DOMAIN ooo' : ooo'[s] = ooo[s]
      BY <2>1 DEF Deliver, Restrict
    <3> QED
      BY <3>1, FS_Subset DEF Sound
  <2>2. CASE ooo' = [s \in DOMAIN ooo \cup {SeqNumber(i)} |->
                        IF s \in DOMAIN ooo THEN ooo[s] ELSE i]
    <3>1. IsFiniteSet(DOMAIN ooo \cup {SeqNumber(i)})
      BY FS_AddElement DEF Sound
    <3> QED
      BY <1>1, <2>2, <3>1 DEF Sound
  <2>3. CASE ooo' = ooo
    BY <2>3 DEF Sound
  <2> QED
    BY <2>1, <2>2, <2>3 DEF HandleData
<1>4. Sound'
  BY <1>1, <1>2, <1>3, BufferGrows DEF Sound
<1> QED
  BY <1>1, <1>4 DEF Recent

\* Nothing mends the place of a packet that is gone.
LEMMA StaysDerailed ==
    ASSUME Sound, Recent, NEW i \in net, HandleData(i),
           Derailed \/ (InStep /\ ~Close /\ SeqNumber(i) = expected)
    PROVE  Derailed'
<1>1. PICK d \in Gone : /\ d < Delivered \/ (d = Delivered /\ SeqNumber(i) = expected)
                        /\ \A k \in 1 .. d : buffer[k] = k - 1
  <2>1. CASE Derailed
    BY <2>1 DEF Derailed
  <2>2. CASE InStep /\ ~Close /\ SeqNumber(i) = expected
    <3>1. Delivered \in Gone
      BY <2>2, FarIsStuck
    <3>2. \A k \in 1 .. Delivered : buffer[k] = k - 1
      BY <2>2 DEF InStep, Delivered, Sound
    <3> QED
      BY <2>2, <3>1, <3>2
  <2> QED
    BY <2>1, <2>2
<1>2. d # i /\ d \in Nat
  BY GoneForGood
<1>3. d \in Gone'
  BY <1>2, HandleKeeps DEF Gone
<1>4. d < Delivered' /\ \A k \in 1 .. d : buffer'[k] = buffer[k]
  BY <1>1, <1>2, BufferGrows
<1> QED
  BY <1>1, <1>3, <1>4 DEF Derailed

\* The expected packet arrives: it and those that follow it are delivered.
LEMMA DeliverKeeps ==
    ASSUME Near, NEW i \in net, HandleData(i), SeqNumber(i) = expected
    PROVE  InStep'
<1> DEFINE F == Following
           run == [k \in 1 .. F |-> ooo[SeqNumber(expected + k)]]
<1> USE DEF Near, InStep
<1>1. i = Delivered /\ i < next /\ next \in Nat /\ Delivered \in Nat
  BY NumberTells DEF Sound
<1>2. /\ F \in Nat /\ Delivered + 1 + F <= next
      /\ \A k \in 1 .. F : /\ SeqNumber(expected + k) \in DOMAIN ooo
                           /\ SeqNumber(expected + k) = SeqNumber(Delivered + k)
                           /\ ooo[SeqNumber(expected + k)] = Delivered + k
      /\ Delivered + 1 + F \notin Range(ooo)
  BY <1>1, FollowingIs
<1>3. /\ buffer' = buffer \o <<i>> \o run
      /\ expected' = SeqNumber(expected + 1 + F)
      /\ ooo' = Restrict(ooo, DOMAIN ooo \ {SeqNumber(expected + k) : k \in 1 .. F})
  BY DEF HandleData, Deliver
<1>4. /\ acks' = acks \cup {i} /\ next' = next /\ unacked' = unacked
      /\ missed' = missed \ {i}
  BY DEF HandleData, Acknowledge
<1> HIDE DEF F
<1>5. run \in Seq(Nat) /\ Len(run) = F /\ \A k \in 1 .. F : run[k] = Delivered + k
  BY <1>1, <1>2
<1> HIDE DEF run
<1>6. /\ buffer' \in Seq(Nat) /\ Len(buffer') = Delivered + 1 + F
      /\ \A k \in DOMAIN buffer' : buffer'[k] = k - 1
  <2> DEFINE one == buffer \o <<i>>
  <2>1. <<i>> \in Seq(Nat) /\ Len(<<i>>) = 1 /\ <<i>>[1] = i
    BY <1>1
  <2>2. buffer \in Seq(Nat)
    BY DEF Sound
  <2>3. /\ one \in Seq(Nat) /\ Len(one) = Len(buffer) + Len(<<i>>)
        /\ \A k \in 1 .. Len(buffer) + Len(<<i>>) :
              one[k] = IF k <= Len(buffer) THEN buffer[k] ELSE <<i>>[k - Len(buffer)]
    BY <2>1, <2>2, ConcatProperties, Zenon
  <2>4. Len(one) = Delivered + 1 /\ \A k \in 1 .. Delivered + 1 : one[k] = k - 1
    <3>1. Len(one) = Delivered + 1 /\ DOMAIN buffer = 1 .. Delivered
      BY <2>1, <2>2, <2>3 DEF Delivered
    <3>2. \A k \in 1 .. Delivered : buffer[k] = k - 1
      BY <3>1
    <3> HIDE DEF one
    <3>3. \A k \in 1 .. Delivered : one[k] = k - 1
      BY <1>1, <2>1, <2>3, <3>2 DEF Delivered
    <3>4. one[Delivered + 1] = Delivered
      BY <1>1, <2>1, <2>3 DEF Delivered
    <3> QED
      BY <1>1, <3>1, <3>3, <3>4
  <2> HIDE DEF one
  <2> one \in Seq(Nat) /\ run \in Seq(Nat)
    BY <1>5, <2>3
  <2>5. /\ one \o run \in Seq(Nat) /\ Len(one \o run) = Len(one) + Len(run)
        /\ \A k \in 1 .. Len(one) + Len(run) :
              (one \o run)[k] = IF k <= Len(one) THEN one[k] ELSE run[k - Len(one)]
    BY ConcatProperties, Zenon
  <2>6. buffer' = one \o run
    BY <1>3 DEF one
  <2>7. buffer' \in Seq(Nat) /\ Len(buffer') = Delivered + 1 + F
    BY <1>1, <1>2, <1>5, <2>4, <2>5, <2>6
  <2>8. ASSUME NEW k \in 1 .. Delivered + 1 + F
        PROVE  buffer'[k] = k - 1
    <3>1. CASE k <= Delivered + 1
      BY <1>1, <1>2, <1>5, <2>4, <2>5, <2>6, <3>1
    <3>2. CASE k > Delivered + 1
      <4>1. k - (Delivered + 1) \in 1 .. F
        BY <1>1, <1>2, <3>2
      <4>2. buffer'[k] = run[k - (Delivered + 1)]
        BY <1>1, <1>2, <1>5, <2>4, <2>5, <2>6, <3>2
      <4> QED
        BY <1>1, <1>2, <1>5, <4>1, <4>2
    <3> QED
      BY <1>1, <1>2, <3>1, <3>2
  <2> QED
    BY <2>7, <2>8
<1>7. Delivered' = Delivered + 1 + F
  BY <1>6 DEF Delivered
<1>8. expected' = SeqNumber(Delivered')
  <2>1. expected = SeqNumber(Delivered) /\ 1 + F \in Int
    BY <1>2 DEF Sound
  <2>2. SeqNumber(expected + (1 + F)) = SeqNumber(Delivered + (1 + F))
    BY <1>1, <2>1, NumberPlus
  <2>3. expected \in Int
    BY <1>1, <2>1, HalfIs, ModRange DEF SeqNumber
  <2>4. expected + 1 + F = expected + (1 + F) /\ Delivered + 1 + F = Delivered + (1 + F)
    BY <1>1, <1>2, <2>3
  <2> QED
    BY <1>3, <1>7, <2>2, <2>4
<1>9. Delivered' \in 0 .. next'
  BY <1>1, <1>2, <1>4, <1>7
<1>10. \A d \in missed' : Delivered' <= d /\ d \in Nat
  <2> SUFFICES ASSUME NEW d \in missed, d # Delivered, d <= Delivered + F
               PROVE  FALSE
    BY <1>1, <1>2, <1>4, <1>7 DEF Sound
  <2>1. d >= Delivered /\ d \in Nat
    BY DEF Sound
  <2>2. d - Delivered \in 1 .. F /\ Delivered + (d - Delivered) = d
    BY <1>1, <1>2, <2>1
  <2>3. d \in Range(ooo)
    BY <1>2, <2>2 DEF Range
  <2> QED
    BY <2>3 DEF Kept, Range
<1>11. /\ \A s \in DOMAIN ooo' : s \in DOMAIN ooo /\ ooo'[s] = ooo[s]
       /\ \A s \in DOMAIN ooo \ DOMAIN ooo' :
             \E k \in 1 .. F : s = SeqNumber(expected + k)
       /\ \A k \in 1 .. F : SeqNumber(expected + k) \notin DOMAIN ooo'
  BY <1>3 DEF Restrict
<1>12. Kept'
  <2> SUFFICES ASSUME NEW s \in DOMAIN ooo'
               PROVE  /\ ooo[s] \in Delivered + 1 + F + 1 .. next - 1
                      /\ s = SeqNumber(ooo[s]) /\ ooo[s] \notin missed
    BY <1>4, <1>7, <1>11 DEF Kept
  <2>1. /\ ooo[s] \in Delivered + 1 .. next - 1 /\ s = SeqNumber(ooo[s])
        /\ ooo[s] \notin missed
    BY <1>11 DEF Kept
  <2>2. ASSUME ooo[s] <= Delivered + F
        PROVE  FALSE
    <3>1. ooo[s] - Delivered \in 1 .. F
      BY <1>1, <1>2, <2>1, <2>2
    <3>2. SeqNumber(expected + (ooo[s] - Delivered)) = SeqNumber(Delivered + (ooo[s] - Delivered))
      BY <1>2, <3>1
    <3>3. Delivered + (ooo[s] - Delivered) = ooo[s]
      BY <1>1, <2>1
    <3> QED
      BY <1>11, <2>1, <3>1, <3>2, <3>3
  <2>3. ooo[s] # Delivered + 1 + F
    BY <1>2, <1>11 DEF Range
  <2> QED
    BY <1>1, <1>2, <2>1, <2>2, <2>3
<1>13. Held'
  <2> SUFFICES ASSUME NEW j \in acks \cup {i} \cup ((0 .. next - 1) \ unacked),
                      ~(j < Delivered'), j \notin missed'
               PROVE  j \in Range(ooo')
    BY <1>4 DEF Held
  <2>1. j \in 0 .. next - 1 /\ j >= Delivered + 1 + F
    BY <1>1, <1>2, <1>7 DEF Sound
  <2>2. j \in Range(ooo)
    BY <1>1, <1>2, <1>4, <2>1 DEF Held
  <2>3. PICK s \in DOMAIN ooo : ooo[s] = j
    BY <2>2 DEF Range
  <2>4. s \in DOMAIN ooo'
    <3> SUFFICES ASSUME NEW k \in 1 .. F, s = SeqNumber(expected + k) PROVE FALSE
      BY <1>11
    <3>1. j = Delivered + k
      BY <1>2, <2>3
    <3> QED
      BY <1>1, <1>2, <2>1, <3>1
  <2> QED
    BY <1>11, <2>3, <2>4 DEF Range
<1>14. Close'
  BY <1>1, <1>2, <1>4, <1>7, HalfIs, HalfStays DEF Close
<1> QED
  BY <1>6, <1>8, <1>9, <1>10, <1>12, <1>13, <1>14

\* Another packet arrives: it is kept, or it is an old one, or its loss is noted.
LEMMA LaterKeeps ==
    ASSUME Sound, Recent, InStep, NEW i \in net, HandleData(i), SeqNumber(i) # expected
    PROVE  InStep'
<1> USE DEF InStep
<1>1. /\ acks' = acks \cup {i} /\ next' = next /\ unacked' = unacked
      /\ expected' = expected /\ buffer' = buffer
  BY DEF HandleData, Acknowledge
<1>2. Delivered' = Delivered /\ (Close' <=> Close)
  BY <1>1 DEF Delivered, Close
<1>3. /\ i \in 0 .. next - 1 /\ Delivered \in Nat /\ next \in Nat
      /\ missed \subseteq Nat /\ i # Delivered
      /\ i > Delivered => (Close => IsAhead(i))
      /\ IsAhead(i) => i > Delivered
  BY NumberTells, FarIsStuck DEF Sound, Near
<1>4. CASE CanKeep(i)
  <2>1. /\ ooo' = [s \in DOMAIN ooo \cup {SeqNumber(i)} |->
                      IF s \in DOMAIN ooo THEN ooo[s] ELSE i]
        /\ SeqNumber(i) \notin DOMAIN ooo /\ i > Delivered /\ missed' = missed \ {i}
    BY <1>3, <1>4 DEF HandleData, CanKeep
  <2>2. Kept'
    BY <1>1, <1>2, <1>3, <2>1 DEF Kept
  <2>3. i \in Range(ooo') /\ Range(ooo) \subseteq Range(ooo')
    BY <2>1 DEF Range
  <2>4. Close => Held'
    BY <1>1, <1>2, <2>1, <2>3 DEF Held
  <2> QED
    BY <1>1, <1>2, <1>3, <2>1, <2>2, <2>4
<1>5. CASE ~CanKeep(i)
  <2>1. ooo' = ooo /\ missed' = IF NoRoom(i) THEN missed \cup {i} ELSE missed
    BY <1>5 DEF HandleData
  <2>2. NoRoom(i) => i > Delivered /\ i \notin Range(ooo)
    BY <1>3 DEF NoRoom, Kept, Range
  <2>3. Kept'
    BY <1>1, <1>2, <2>1, <2>2 DEF Kept, Range
  <2>4. ASSUME Close, i > Delivered, i \notin Range(ooo)
        PROVE  i \in missed'
    <3>1. i \in Delivered + 1 .. Delivered + Half
      BY <1>3, <2>4, HalfIs DEF Close
    <3>2. SeqNumber(i) \notin DOMAIN ooo
      BY <2>4, <3>1, KeptUnder DEF Range, Near
    <3>3. NoRoom(i)
      <4>1. IsAhead(i)
        BY <1>3, <2>4
      <4>2. Cardinality(DOMAIN ooo) \in Nat
        BY FS_CardinalityType DEF Sound
      <4> QED
        BY <1>5, <3>2, <4>1, <4>2, HalfIs DEF CanKeep, NoRoom
    <3> QED
      BY <2>1, <3>3
  <2>5. Close => Held'
    BY <1>1, <1>2, <1>3, <2>1, <2>4 DEF Held
  <2> QED
    BY <1>1, <1>2, <1>3, <2>1, <2>2, <2>3, <2>5
<1> QED
  BY <1>4, <1>5

LEMMA DrwAlways == Spec => []DrwInv
<1>1. DrwInv /\ [Next]_vars => DrwInv'
  <2> SUFFICES ASSUME DrwInv, [Next]_vars PROVE DrwInv'
    OBVIOUS
  <2>1. CASE CameraSend \/ \E i \in Packets : CameraResend(i) \/ CameraAck(i) \/ Lose(i)
    BY <2>1, CameraKeeps
  <2>2. ASSUME NEW i \in Packets, HandleData(i)
        PROVE  DrwInv'
    <3>1. i \in net /\ Sound /\ Recent
      BY <2>2 DEF HandleData, DrwInv
    <3>2. Sound' /\ Recent'
      BY <2>2, <3>1, HandleKeeps
    <3>3. Derailed \/ (InStep /\ ~Close /\ SeqNumber(i) = expected) => Derailed'
      BY <2>2, <3>1, StaysDerailed
    <3>4. InStep /\ Close /\ SeqNumber(i) = expected => InStep'
      BY <2>2, <3>1, DeliverKeeps DEF Near
    <3>5. InStep /\ SeqNumber(i) # expected => InStep'
      BY <2>2, <3>1, LaterKeeps
    <3> QED
      BY <3>2, <3>3, <3>4, <3>5 DEF DrwInv
  <2>3. CASE UNCHANGED vars
    BY <2>3 DEF vars, DrwInv, Sound, Recent, InStep, Derailed, Gone, Close, Kept, Held,
                Delivered
  <2> QED
    BY <2>1, <2>2, <2>3 DEF Next, Finished
<1> QED
  BY <1>1, InitDrw, PTL DEF Spec

\* The channel is ordered, whatever the network does and however often the
\* sequence numbers wrap, up to a packet that found no room and is gone
\* (cs2.py, _handle_data).
THEOREM DeliveryIsAPrefix == Spec => []DeliveredInOrder
<1>1. DrwInv => DeliveredInOrder
  <2> SUFFICES ASSUME DrwInv, NEW k \in DOMAIN buffer, buffer[k] # k - 1
               PROVE  \E d \in Gone : d < k
    BY DEF DeliveredInOrder
  <2>1. PICK d \in Gone : d < Delivered /\ \A n \in 1 .. d : buffer[n] = n - 1
    BY DEF DrwInv, InStep, Derailed
  <2>2. d \in Nat
    BY DEF DrwInv, Sound, Gone
  <2>3. k \in Nat \ {0}
    BY DEF DrwInv, Sound
  <2> QED
    BY <2>1, <2>2, <2>3
<1> QED
  BY <1>1, DrwAlways, PTL

\* A packet the camera has an acknowledgement for is delivered or kept, or found
\* no room, or comes after one that is gone: the limit of _out_of_order is the
\* only way an acknowledged packet is lost (cs2.py, _handle_data: the
\* acknowledgement goes first).
THEOREM OnlyTheLimitLoses == Spec => []AckedIsHeld
<1>1. DrwInv => AckedIsHeld
  <2> SUFFICES ASSUME DrwInv, NEW i \in 0 .. next - 1, i \notin unacked,
                      i \notin Range(buffer), i \notin Range(ooo), i \notin missed
               PROVE  \E d \in Gone : d < i
    BY DEF AckedIsHeld
  <2>1. ASSUME NEW d \in Nat, \A k \in 1 .. d : buffer[k] = k - 1, d <= Delivered
        PROVE  i >= d
    <3> SUFFICES ASSUME i < d PROVE FALSE
      OBVIOUS
    <3>1. buffer \in Seq(Nat) /\ i + 1 \in 1 .. d
      BY DEF DrwInv, Sound
    <3>2. i + 1 \in DOMAIN buffer /\ buffer[i + 1] = i
      BY <2>1, <3>1 DEF Delivered
    <3> QED
      BY <3>2 DEF Range
  <2>2. ASSUME Derailed
        PROVE  \E d \in Gone : d < i
    <3>1. PICK d \in Gone : d < Delivered /\ \A k \in 1 .. d : buffer[k] = k - 1
      BY <2>2 DEF Derailed
    <3>2. d \in Nat /\ d \in missed /\ Delivered \in Nat
      BY DEF DrwInv, Sound, Gone, Delivered
    <3>3. i >= d
      BY <2>1, <3>1, <3>2
    <3> QED
      BY <3>1, <3>2, <3>3
  <2>3. ASSUME InStep
        PROVE  \E d \in Gone : d < i
    <3>1. /\ Delivered \in Nat
          /\ \A k \in 1 .. Delivered : buffer[k] = k - 1
      BY <2>3 DEF InStep, DrwInv, Sound, Delivered
    <3>2. i >= Delivered
      BY <2>1, <3>1
    <3>3. ~Close
      BY <2>3, <3>1, <3>2 DEF InStep, Held
    <3>4. Delivered \in Gone /\ Delivered \in missed
      BY <2>3, <3>3, FarIsStuck DEF DrwInv, Gone
    <3> QED
      BY <3>1, <3>2, <3>4
  <2> QED
    BY <2>2, <2>3 DEF DrwInv
<1> QED
  BY <1>1, DrwAlways, PTL
=============================================================================
