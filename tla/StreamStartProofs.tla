------------------------- MODULE StreamStartProofs -------------------------
(***************************************************************************)
(* Proofs about the start of a stream, for any accounts, passwords and     *)
(* kinds of helper: no helper survives a selection that failed, the cache  *)
(* names only what the camera has accepted, no secret is tried twice, and  *)
(* a selection is rejected only by the camera.  The theorems about what    *)
(* the cache names, the last ones, need an account that lists a device     *)
(* once.                                                                   *)
(***************************************************************************)
EXTENDS StreamStart, SequenceTheorems, FiniteSetTheorems, WellFoundedInduction,
        NaturalsInduction, TLAPS

\* A helper lives only while its parent waits for it or streams from it.
HelperIsAwaited ==
    pc \in {"idle", "waking", "ready", "attempt", "decide"} => helper = "dead"

\* An accepted login is about the candidate that is being tried.
AcceptedIsProven == pc = "event" /\ event = "accepted" => Key(tried.cand) \in proven

StartInv == HelperIsAwaited /\ AcceptedIsProven /\ CacheNamesProvenSource

\* The invariant holds at first.
LEMMA InitStart == Init => StartInv
BY DEF Init, StartInv, HelperIsAwaited, AcceptedIsProven, CacheNamesProvenSource

\* Every step keeps it: whoever changes the cache takes a proven source, and
\* whoever leaves a wait leaves no helper.
LEMMA StepStart == StartInv /\ [Next]_vars => StartInv'
<1>. SUFFICES ASSUME StartInv, [Next]_vars PROVE StartInv'
  OBVIOUS
<1>. USE DEF StartInv, HelperIsAwaited, AcceptedIsProven, CacheNamesProvenSource,
             parent, store, past, world, tried
<1>1. CASE StartStream \/ (\E p \in Ports : PortEnds(p)) \/ WakeOver \/ Begin
  BY <1>1 DEF StartStream, PortEnds, WakeOver, Begin
<1>2. CASE Spawn \/ SpawnFails
  BY <1>2 DEF Spawn, SpawnFails, Fail
<1>3. CASE EventTimeout \/ ExitTimeout \/ TransportFailure
  BY <1>3 DEF EventTimeout, ExitTimeout, TransportFailure, Fail
<1>4. CASE NotAuthenticated \/ HelperGone
  BY <1>4 DEF NotAuthenticated, HelperGone
<1>5. CASE Select
  <2>1. Key(tried.cand) \in proven
    BY <1>5 DEF Select, Accepted
  <2>2. cache' \in proven \cup {NoKey} /\ disk' \in proven \cup {NoKey}
    BY <1>5, <2>1 DEF Select, Remember
  <2>. QED BY <1>5, <2>2 DEF Select
<1>6. CASE Reject
  BY <1>6 DEF Reject, Remember
<1>7. CASE Connects \/ ConnectFails \/ LoginRefused \/ LoginUnanswered
  BY <1>7 DEF Connects, ConnectFails, LoginRefused, LoginUnanswered, Report
<1>8. CASE LoginAccepted
  BY <1>8 DEF LoginAccepted, Report
<1>9. CASE HelperEnds \/ StreamOver
  BY <1>9 DEF HelperEnds, StreamOver
<1>10. CASE ChangePassword \/ OtherCameraSaves \/ Restart
  BY <1>10 DEF ChangePassword, OtherCameraSaves, Restart
<1>11. CASE UNCHANGED vars
  BY <1>11 DEF vars
<1>. QED
  BY <1>1, <1>2, <1>3, <1>4, <1>5, <1>6, <1>7, <1>8, <1>9, <1>10, <1>11 DEF Next

\* The invariant always holds.
THEOREM StartInvariant == Spec => []StartInv
BY InitStart, StepStart, PTL DEF Spec

\* A selection that ends without a stream leaves no helper, and one candidate's
\* helper is gone before the next one starts (p2p.py).
THEOREM NobodyLeftBehind == Spec => []NoHelperLeftBehind
<1>1. StartInv => NoHelperLeftBehind
  BY DEF StartInv, HelperIsAwaited, NoHelperLeftBehind
<1>. QED BY <1>1, StartInvariant, PTL

\* Memory and file of the cache name only sources the camera has accepted,
\* through failed writes, other cameras' writes and restarts (auth.py).
THEOREM CacheIsProven == Spec => []CacheNamesProvenSource
<1>1. StartInv => CacheNamesProvenSource
  BY DEF StartInv
<1>. QED BY <1>1, StartInvariant, PTL

\* What the event of the helper allows: an arm64 helper that goes on has been
\* accepted, so the wait for an exit is never a wait for a live helper.
EventInv ==
    /\ kind = "arm64" /\ helper = "live" => event = "accepted"
    /\ pc = "exit" => event \notin {"none", "accepted"}
    /\ pc = "streaming" => event = "accepted"
    /\ pc \in {"waking", "ready", "attempt", "event", "exit", "decide"} => outcome = "none"
    /\ pc \in {"waking", "ready", "attempt"} => event = "none"
    /\ helper \in {"connecting", "login"} => pc = "event" /\ event = "none"
    /\ kind = "arm64" => RefusalIsNotAFailure

\* What the event allows always holds.
LEMMA EventInvariant == Spec => []EventInv
<1>. USE DEF EventInv, RefusalIsNotAFailure, HelperIsAwaited, parent, store, past, world
<1>1. Init => EventInv
  BY DEF Init
<1>2. HelperIsAwaited /\ EventInv /\ [Next]_vars => EventInv'
  <2>. SUFFICES ASSUME HelperIsAwaited, EventInv, [Next]_vars PROVE EventInv'
    OBVIOUS
  <2>1. CASE StartStream \/ (\E p \in Ports : PortEnds(p)) \/ WakeOver
    BY <2>1 DEF StartStream, PortEnds, WakeOver
  <2>11. CASE Begin \/ Spawn \/ SpawnFails
    BY <2>11 DEF Begin, Spawn, SpawnFails, Fail
  <2>2. CASE EventTimeout \/ ExitTimeout \/ TransportFailure
    BY <2>2 DEF EventTimeout, ExitTimeout, TransportFailure, ExplicitRejection, Fail
  <2>3. CASE NotAuthenticated \/ HelperGone
    BY <2>3 DEF NotAuthenticated, HelperGone
  <2>4. CASE Select
    BY <2>4 DEF Select, Accepted
  <2>5. CASE Reject
    BY <2>5 DEF Reject
  <2>6. CASE Connects \/ ConnectFails
    BY <2>6 DEF Connects, ConnectFails, Report
  <2>7. CASE LoginAccepted \/ LoginRefused \/ LoginUnanswered
    BY <2>7 DEF LoginAccepted, LoginRefused, LoginUnanswered, Report, AfterLogin
  <2>8. CASE HelperEnds \/ StreamOver
    BY <2>8 DEF HelperEnds, StreamOver
  <2>9. CASE ChangePassword \/ OtherCameraSaves \/ Restart
    BY <2>9 DEF ChangePassword, OtherCameraSaves, Restart
  <2>10. CASE UNCHANGED vars
    BY <2>10 DEF vars
  <2>. QED
    BY <2>1, <2>2, <2>3, <2>4, <2>5, <2>6, <2>7, <2>8, <2>9, <2>10, <2>11 DEF Next
<1>3. StartInv => HelperIsAwaited
  BY DEF StartInv
<1>. QED BY <1>1, <1>2, <1>3, StartInvariant, PTL DEF Spec

\* With the arm64 helper a refusal is always acted upon: it never counts as a
\* failure of the transport (hybris_connect.c leaves after a refused login).
THEOREM Arm64ActsOnRefusal == Spec => [](kind = "arm64" => RefusalIsNotAFailure)
<1>1. EventInv => (kind = "arm64" => RefusalIsNotAFailure)
  BY DEF EventInv
<1>. QED BY <1>1, EventInvariant, PTL

----------------------------------------------------------------------------
(* Types.                                                                  *)

\* Truth values have a lemma of their own: they need another prover.
Flags == trust \in BOOLEAN

LEMMA FlagsInv == Flags /\ [Next]_vars => Flags'
<1>. SUFFICES ASSUME Flags, [Next]_vars PROVE Flags'
  OBVIOUS
<1>. USE DEF Flags
<1>1. CASE Select
  BY <1>1 DEF Select
<1>2. CASE Restart
  BY <1>2 DEF Restart
<1>3. CASE ~Select /\ ~Restart
  BY <1>3, Zenon DEF Next, StartStream, PortEnds, WakeOver, Begin, Spawn, SpawnFails,
     EventTimeout, NotAuthenticated, ExitTimeout, HelperGone, Reject, TransportFailure,
     Connects, ConnectFails, LoginAccepted, LoginRefused, LoginUnanswered, HelperEnds,
     StreamOver, ChangePassword, OtherCameraSaves, vars
<1>. QED BY <1>1, <1>2, <1>3

LEMMA StepTypes == TypeOK /\ HelperIsAwaited /\ [Next]_vars => TypeOK'
<1>. SUFFICES ASSUME TypeOK, HelperIsAwaited, [Next]_vars PROVE TypeOK'
  OBVIOUS
<1>f. trust' \in BOOLEAN
  BY FlagsInv, Zenon DEF Flags, TypeOK
<1>. USE <1>f DEF TypeOK, HelperIsAwaited, Selecting, parent, store, past, world
<1>1. CASE StartStream \/ (\E p \in Ports : PortEnds(p)) \/ WakeOver
  BY <1>1 DEF StartStream, PortEnds, WakeOver
<1>2. CASE Begin \/ Spawn \/ SpawnFails
  BY <1>2 DEF Begin, Spawn, SpawnFails, Fail
<1>3. CASE EventTimeout \/ ExitTimeout \/ TransportFailure
  BY <1>3 DEF EventTimeout, ExitTimeout, TransportFailure, Fail
<1>4. CASE NotAuthenticated \/ HelperGone
  BY <1>4 DEF NotAuthenticated, HelperGone
<1>5. CASE Select \/ Reject
  BY <1>5 DEF Select, Reject
<1>6. CASE Connects \/ ConnectFails
  BY <1>6 DEF Connects, ConnectFails, Report
<1>7. CASE LoginAccepted \/ LoginRefused \/ LoginUnanswered
  BY <1>7 DEF LoginAccepted, LoginRefused, LoginUnanswered, Report, AfterLogin
<1>8. CASE HelperEnds \/ StreamOver
  BY <1>8 DEF HelperEnds, StreamOver
<1>9. CASE ChangePassword \/ OtherCameraSaves \/ Restart
  BY <1>9, StartAssumption DEF ChangePassword, OtherCameraSaves, Restart
<1>10. CASE UNCHANGED vars
  BY <1>10 DEF vars
<1>. QED
  BY <1>1, <1>2, <1>3, <1>4, <1>5, <1>6, <1>7, <1>8, <1>9, <1>10 DEF Next

\* Every variable has its type: the parent keeps candidates only while it selects
\* and waits for ports only while it wakes.
THEOREM StartTypes == Spec => []TypeOK
<1>1. Init => TypeOK
  <2>1. Init => trust \in BOOLEAN
    BY DEF Init
  <2>. QED BY <2>1, StartAssumption DEF Init, TypeOK
<1>2. StartInv => HelperIsAwaited
  BY DEF StartInv
<1>. QED BY <1>1, <1>2, StepTypes, StartInvariant, PTL DEF Spec

----------------------------------------------------------------------------
(* The list of candidates.                                                 *)

LEMMA LeastElement ==
    ASSUME NEW T, T \subseteq Nat, T # {}
    PROVE  \E m \in T : \A n \in T : m <= n
<1> DEFINE R == OpToRel(<, Nat)
<1>1. IsWellFoundedOn(R, Nat)
  BY NatLessThanWellFounded
<1>2. \A m, n \in Nat : <<n, m>> \in R <=> n < m
  BY DEF OpToRel
<1> HIDE DEF R
<1>3. \E m \in T : \A n \in T : ~(<<n, m>> \in R)
  BY <1>1, WFMin
<1>4. \E m \in T : \A n \in T : ~(n < m)
  BY <1>2, <1>3, Zenon
<1> QED
  BY <1>4

\* The k-th of a set of indices exists: their number grows by one at a time.
LEMMA KthIndex ==
    ASSUME NEW n \in Nat, NEW I \in SUBSET (1 .. n), NEW k \in 1 .. Cardinality(I)
    PROVE  \E i \in I : Cardinality(I \cap 1 .. i) = k
<1> DEFINE C(i) == Cardinality(I \cap 1 .. i)
           T == {i \in 1 .. n : C(i) >= k}
<1>1. ASSUME NEW i \in 0 .. n
      PROVE  IsFiniteSet(I \cap 1 .. i) /\ C(i) \in Nat
  <2>1. IsFiniteSet(1 .. i)
    BY FS_Interval
  <2>2. IsFiniteSet(I \cap 1 .. i)
    BY <2>1, FS_Intersection
  <2> QED
    BY <2>2, FS_CardinalityType
<1>2. C(0) = 0
  <2>1. I \cap 1 .. 0 = {}
    OBVIOUS
  <2> QED
    BY <2>1, FS_EmptySet
<1>3. C(n) = Cardinality(I)
  <2>1. I \cap 1 .. n = I
    OBVIOUS
  <2> QED
    BY <2>1
<1>4. ASSUME NEW i \in 1 .. n
      PROVE  IF i \in I THEN C(i) = C(i - 1) + 1 ELSE C(i) = C(i - 1)
  <2>1. i - 1 \in 0 .. n /\ i \notin I \cap 1 .. i - 1
    OBVIOUS
  <2>2. CASE i \in I
    <3>1. I \cap 1 .. i = (I \cap 1 .. i - 1) \cup {i}
      BY <2>2
    <3>2. IsFiniteSet(I \cap 1 .. i - 1)
      BY <1>1, <2>1
    <3>3. C(i) = C(i - 1) + 1
      BY <2>1, <3>1, <3>2, FS_AddElement
    <3> QED
      BY <2>2, <3>3
  <2>3. CASE i \notin I
    <3>1. I \cap 1 .. i = I \cap 1 .. i - 1
      BY <2>3
    <3> QED
      BY <2>3, <3>1
  <2> QED
    BY <2>2, <2>3
<1> HIDE DEF C
<1>5. n \in T
  BY <1>1, <1>2, <1>3
<1>6. PICK m \in T : \A i \in T : m <= i
  <2>1. T \subseteq Nat /\ T # {}
    BY <1>5
  <2> HIDE DEF T
  <2> QED
    BY <2>1, LeastElement
<1>7. C(m - 1) < k
  <2>1. m - 1 \in 0 .. n /\ m \in 1 .. n
    OBVIOUS
  <2>4. C(m - 1) \in Nat
    BY <1>1, <2>1
  <2>2. CASE m = 1
    BY <1>2, <2>2
  <2>3. CASE m > 1
    <3>1. m - 1 \notin T
      BY <1>6, <2>3
    <3> QED
      BY <2>1, <2>3, <2>4, <3>1
  <2> QED
    BY <2>1, <2>2, <2>3
<1>8. m \in I /\ C(m) = k
  <2>1. C(m) >= k /\ m \in 1 .. n /\ m \in 0 .. n /\ m - 1 \in 0 .. n
    OBVIOUS
  <2>2. C(m) \in Nat /\ C(m - 1) \in Nat
    BY <1>1, <2>1
  <2> QED
    BY <1>4, <1>7, <2>1, <2>2
<1> QED
  BY <1>8 DEF C

\* A subsequence has the elements at the chosen indices, each once.
LEMMA AtProperties ==
    ASSUME NEW S, NEW s \in Seq(S), NEW I \in SUBSET DOMAIN s
    PROVE  /\ At(s, I) \in Seq(S)
           /\ I # {} => At(s, I) # <<>>
           /\ \A k \in DOMAIN At(s, I) : \E i \in I : At(s, I)[k] = s[i]
           /\ \A k, l \in DOMAIN At(s, I) :
                 k # l => \E i, j \in I : i # j /\ At(s, I)[k] = s[i] /\ At(s, I)[l] = s[j]
<1> DEFINE N == Cardinality(I)
           pos(k) == CHOOSE i \in I : Cardinality(I \cap 1 .. i) = k
<1>1. Len(s) \in Nat /\ I \in SUBSET (1 .. Len(s))
  OBVIOUS
<1>2. IsFiniteSet(I) /\ N \in Nat /\ (I # {} => N > 0)
  <2>1. IsFiniteSet(1 .. Len(s))
    BY <1>1, FS_Interval
  <2>2. IsFiniteSet(I)
    BY <1>1, <2>1, FS_Subset
  <2>3. N \in Nat /\ (N = 0 <=> I = {})
    BY <2>2, FS_CardinalityType, FS_EmptySet
  <2> QED
    BY <2>2, <2>3
<1>3. ASSUME NEW k \in 1 .. N
      PROVE  pos(k) \in I /\ Cardinality(I \cap 1 .. pos(k)) = k
  BY <1>1, KthIndex
<1>4. At(s, I) = [k \in 1 .. N |-> s[pos(k)]]
  BY DEF At
<1> HIDE DEF N, pos
<1>5. ASSUME NEW k \in 1 .. N
      PROVE  s[pos(k)] \in S
  <2>1. pos(k) \in DOMAIN s
    BY <1>3
  <2> QED
    BY <2>1
<1>6. At(s, I) \in Seq(S) /\ DOMAIN At(s, I) = 1 .. N
  BY <1>2, <1>4, <1>5
<1>7. \A k, l \in 1 .. N : k # l => pos(k) # pos(l)
  BY <1>3
<1>8. I # {} => At(s, I) # <<>>
  BY <1>2, <1>6
<1>9. \A k \in 1 .. N : pos(k) \in I /\ At(s, I)[k] = s[pos(k)]
  BY <1>3, <1>4
<1> QED
  BY <1>6, <1>7, <1>8, <1>9

\* The candidates that may be in the list of an account.
Possible(a) ==
    {Candidate("account", a.password, Own), Candidate("empty", Empty, NoUid),
     Candidate("fallback", Fallback, NoUid)}
    \cup {Candidate("account", a.devices[i].password, a.devices[i].uid) :
             i \in {j \in DOMAIN a.devices : a.devices[j].uid # Own}}

LEMMA OthersArePossible ==
    ASSUME NEW a \in Accounts
    PROVE  OtherDevices(a) \in Seq(Possible(a))
<1> DEFINE I == {i \in DOMAIN a.devices : /\ a.devices[i].uid # Own
                                          /\ a.devices[i].password \notin {Empty, Absent}}
           used == At(a.devices, I)
<1>1. /\ used \in Seq(Range(a.devices))
      /\ \A k \in DOMAIN used : \E i \in I : used[k] = a.devices[i]
  <2>1. a.devices \in Seq(Range(a.devices)) /\ I \in SUBSET DOMAIN a.devices
    BY AccountsAssumption
  <2> HIDE DEF I
  <2> QED
    BY <2>1, AtProperties
<1>2. OtherDevices(a) = [k \in DOMAIN used |-> Candidate("account", used[k].password, used[k].uid)]
  BY DEF OtherDevices
<1>3. \A k \in DOMAIN used : Candidate("account", used[k].password, used[k].uid) \in Possible(a)
  BY <1>1 DEF Possible
<1> HIDE DEF used
<1>4. DOMAIN used = 1 .. Len(used) /\ Len(used) \in Nat
  BY <1>1
<1> QED
  BY <1>2, <1>3, <1>4

\* What a list of candidates is: not empty, and without a secret twice.
GoodList(cs) ==
    /\ cs \in Seq(Range(cs)) /\ cs # <<>>
    /\ \A i, j \in DOMAIN cs : i # j => cs[i].password # cs[j].password
    /\ \A c \in Range(cs) : c.source # "none"

LEMMA ConfiguredList ==
    ASSUME NEW a \in Accounts, NEW cs, cs = Configured[a]
    PROVE  /\ GoodList(cs)
           /\ \/ a.strict /\ cs = <<Candidate("manual", a.password, NoUid)>>
              \/ Range(cs) \subseteq Possible(a)
<1>1. cs = Candidates(a)
  BY DEF Configured
<1>2. CASE a.strict
  <2> DEFINE c == Candidate("manual", a.password, NoUid)
  <2>1. cs = <<c>>
    BY <1>1, <1>2 DEF Candidates
  <2>2. c.source = "manual"
    BY DEF Candidate
  <2> HIDE DEF c
  <2>3. DOMAIN cs = {1} /\ cs[1] = c /\ cs \in Seq({c}) /\ cs # <<>>
    BY <2>1
  <2>4. Range(cs) = {c}
    BY <2>3 DEF Range
  <2>5. GoodList(cs)
    BY <2>2, <2>3, <2>4 DEF GoodList
  <2> QED
    BY <1>2, <2>1, <2>5 DEF c
<1>3. CASE ~a.strict
  <2> DEFINE associated == IF a.password \in {Empty, Absent} THEN <<>>
                           ELSE <<Candidate("account", a.password, Own)>>
             empty == IF a.password = Empty THEN <<Candidate("empty", Empty, NoUid)>> ELSE <<>>
             last == <<Candidate("fallback", Fallback, NoUid)>>
             others == OtherDevices(a)
             P == Possible(a)
             all == associated \o others \o empty \o last
             I == {i \in DOMAIN all : \A j \in 1 .. i - 1 : all[j].password # all[i].password}
  <2>1. cs = At(all, I)
    BY <1>1, <1>3 DEF Candidates, Distinct
  <2>2. /\ associated \in Seq(P) /\ empty \in Seq(P) /\ last \in Seq(P) /\ Len(last) = 1
        /\ others \in Seq(P)
    <3>1. /\ Candidate("account", a.password, Own) \in P
          /\ Candidate("empty", Empty, NoUid) \in P
          /\ Candidate("fallback", Fallback, NoUid) \in P
      BY DEF Possible
    <3>2. others \in Seq(P)
      BY OthersArePossible
    <3> HIDE DEF P, others
    <3>3. associated \in Seq(P) /\ empty \in Seq(P) /\ last \in Seq(P) /\ Len(last) = 1
      BY <3>1
    <3> QED
      BY <3>2, <3>3
  <2> HIDE DEF associated, empty, last, others, P
  <2>3. associated \o others \in Seq(P)
    BY <2>2, ConcatProperties, Zenon
  <2>4. associated \o others \o empty \in Seq(P)
    BY <2>2, <2>3, ConcatProperties, Zenon
  <2>5. all \in Seq(P) /\ Len(all) = Len(associated \o others \o empty) + Len(last)
    BY <2>2, <2>4, ConcatProperties, Zenon
  <2>6. 1 \in I /\ I \in SUBSET DOMAIN all
    BY <2>2, <2>4, <2>5
  <2>7. \A i, j \in I : i # j => all[i].password # all[j].password
    <3>1. DOMAIN all \subseteq Nat
      <4> HIDE DEF all
      <4> QED
        BY <2>5
    <3>2. \A i \in I, j \in Nat : 0 < j /\ j < i => all[j].password # all[i].password
      <4> HIDE DEF all
      <4> QED
        BY <3>1
    <3>3. \A i \in I : i \in Nat /\ i > 0
      <4> HIDE DEF all
      <4> QED
        BY <2>5
    <3> HIDE DEF I, all
    <3>4. ASSUME NEW i \in I, NEW j \in I, i # j
          PROVE  all[i].password # all[j].password
      BY <3>2, <3>3, <3>4
    <3> QED
      BY <3>4
  <2> HIDE DEF all, I
  <2>8. /\ cs \in Seq(P) /\ cs # <<>>
        /\ \A i, j \in DOMAIN cs : i # j => cs[i].password # cs[j].password
    BY <2>1, <2>5, <2>6, <2>7, AtProperties
  <2>9. cs \in Seq(Range(cs)) /\ Range(cs) \subseteq P
    BY <2>8, SeqOfRange, RangeOfSeq
  <2>10. \A c \in P : c.source # "none"
    BY DEF P, Possible, Candidate
  <2> QED
    BY <2>8, <2>9, <2>10 DEF GoodList, P
<1> QED
  BY <1>2, <1>3

LEMMA RemoveAtIs ==
    ASSUME NEW S, NEW s \in Seq(S), NEW m \in DOMAIN s
    PROVE  /\ RemoveAt(s, m) \in Seq(S) /\ Len(RemoveAt(s, m)) = Len(s) - 1
           /\ \A k \in 1 .. Len(s) - 1 :
                 RemoveAt(s, m)[k] = IF k < m THEN s[k] ELSE s[k + 1]
<1> DEFINE n == Len(s)
           front == SubSeq(s, 1, m - 1)
           back == SubSeq(s, m + 1, n)
<1>1. n \in Nat /\ m \in 1 .. n /\ \A i \in 1 .. n : s[i] \in S
  OBVIOUS
<1> HIDE DEF n
<1>2. /\ front \in Seq(S) /\ Len(front) = m - 1
      /\ \A k \in 1 .. m - 1 : front[k] = s[k]
  <2> DEFINE e == m - 1
  <2>1. e \in Nat /\ 1 \in Int /\ \A i \in 1 .. e : s[i] \in S
    BY <1>1
  <2> HIDE DEF e
  <2>2. /\ SubSeq(s, 1, e) \in Seq(S)
        /\ Len(SubSeq(s, 1, e)) = IF 1 <= e THEN e - 1 + 1 ELSE 0
        /\ \A k \in 1 .. e - 1 + 1 : SubSeq(s, 1, e)[k] = s[1 + k - 1]
    BY <2>1, SubSeqProperties
  <2>3. front = SubSeq(s, 1, e)
    BY DEF e
  <2> HIDE DEF front
  <2>4. front \in Seq(S) /\ Len(front) = e /\ \A k \in 1 .. e : front[k] = s[k]
    BY <2>1, <2>2, <2>3
  <2> QED
    BY <2>4 DEF e
<1>3. /\ back \in Seq(S) /\ Len(back) = n - m
      /\ \A k \in 1 .. n - m : back[k] = s[m + k]
  <2> DEFINE b == m + 1
  <2>1. b \in Int /\ n \in Int /\ \A i \in b .. n : s[i] \in S
    BY <1>1
  <2>2. b = m + 1
    OBVIOUS
  <2> HIDE DEF b
  <2>3. /\ SubSeq(s, b, n) \in Seq(S)
        /\ Len(SubSeq(s, b, n)) = IF b <= n THEN n - b + 1 ELSE 0
        /\ \A k \in 1 .. n - b + 1 : SubSeq(s, b, n)[k] = s[b + k - 1]
    BY <2>1, SubSeqProperties
  <2>4. back = SubSeq(s, b, n)
    BY <2>2
  <2> HIDE DEF back
  <2>5. n - b + 1 = n - m /\ (IF b <= n THEN n - b + 1 ELSE 0) = n - m
    BY <1>1, <2>2
  <2>6. ASSUME NEW k \in 1 .. n - m PROVE back[k] = s[m + k]
    <3>0. n \in Int /\ m \in Int /\ k \in Int
      BY <1>1
    <3>1. k \in 1 .. n - b + 1 /\ b + k - 1 = m + k
      <4>1. b + k - 1 = m + k
        BY <2>2, <3>0
      <4>2. k \in 1 .. n - b + 1
        BY <2>5
      <4> QED
        BY <4>1, <4>2
    <3>2. SubSeq(s, b, n)[k] = s[b + k - 1]
      BY <2>3, <3>1, Zenon
    <3> QED
      BY <2>4, <3>1, <3>2
  <2>7. back \in Seq(S) /\ Len(back) = n - m
    BY <2>3, <2>4, <2>5
  <2> QED
    BY <2>6, <2>7
<1>4. RemoveAt(s, m) = front \o back
  BY DEF RemoveAt, n
<1> HIDE DEF front, back
<1> front \in Seq(S) /\ back \in Seq(S)
  BY <1>2, <1>3
<1>5. /\ front \o back \in Seq(S) /\ Len(front \o back) = Len(front) + Len(back)
      /\ \A k \in 1 .. Len(front) + Len(back) :
            (front \o back)[k] = IF k <= Len(front) THEN front[k] ELSE back[k - Len(front)]
  BY ConcatProperties, Zenon
<1>6. Len(RemoveAt(s, m)) = n - 1
  BY <1>1, <1>2, <1>3, <1>4, <1>5
<1>7. ASSUME NEW k \in 1 .. n - 1
      PROVE  RemoveAt(s, m)[k] = IF k < m THEN s[k] ELSE s[k + 1]
  <2> DEFINE l == Len(front)
  <2>a. l = m - 1 /\ l + Len(back) = n - 1
    BY <1>1, <1>2, <1>3
  <2>b. (front \o back)[k] = IF k <= l THEN front[k] ELSE back[k - l]
    BY <1>5, <2>a
  <2> HIDE DEF l
  <2>1. RemoveAt(s, m)[k] = IF k <= m - 1 THEN front[k] ELSE back[k - (m - 1)]
    BY <1>4, <2>a, <2>b
  <2>2. CASE k < m
    BY <1>1, <1>2, <2>1, <2>2
  <2>3. CASE k >= m
    <3>1. k - (m - 1) \in 1 .. n - m /\ m + (k - (m - 1)) = k + 1
      BY <1>1, <2>3
    <3>2. back[k - (m - 1)] = s[k + 1]
      BY <1>3, <3>1
    <3> QED
      BY <1>1, <2>1, <2>3, <3>2
  <2> QED
    BY <1>1, <2>2, <2>3
<1> QED
  BY <1>4, <1>5, <1>6, <1>7 DEF n

\* The order of a selection: every candidate once, the one the cache names
\* first, if it names one.
Ordered(cs, key, o) ==
    /\ o \in Seq(Range(o)) /\ o # <<>>
    /\ \A i, j \in DOMAIN o : i # j => o[i].cand.password # o[j].cand.password
    /\ \A i \in DOMAIN o : o[i].cand \in Range(cs)
    /\ \A c \in Range(cs) : \E i \in DOMAIN o : o[i].cand = c
    /\ \A i \in DOMAIN o : i > 1 => ~o[i].cached
    /\ IF o[1].cached THEN Matches(o[1].cand, key) ELSE \A c \in Range(cs) : ~Matches(c, key)

\* The entries of the list, whose truth values need another prover.
Named(c)   == [cand |-> c, cached |-> TRUE]
Unnamed(c) == [cand |-> c, cached |-> FALSE]

LEMMA EntryIs ==
    ASSUME NEW c
    PROVE  /\ Named(c).cand = c /\ Named(c).cached
           /\ Unnamed(c).cand = c /\ ~Unnamed(c).cached
  BY DEF Named, Unnamed

LEMMA PlainIs ==
    ASSUME NEW S, NEW s \in Seq(S), NEW R, \A c \in S : Unnamed(c) \in R
    PROVE  /\ Plain(s) \in Seq(R) /\ Len(Plain(s)) = Len(s)
           /\ \A k \in 1 .. Len(s) : Plain(s)[k] = Unnamed(s[k])
<1>1. Plain(s) = [k \in 1 .. Len(s) |-> Unnamed(s[k])]
  BY DEF Plain, Unnamed
<1>2. \A k \in 1 .. Len(s) : Unnamed(s[k]) \in R
  OBVIOUS
<1> QED
  BY <1>1, <1>2

LEMMA OrderIsOrdered ==
    ASSUME NEW cs, GoodList(cs), NEW key
    PROVE  Ordered(cs, key, Order(cs, key))
<1> DEFINE o == Order(cs, key)
           hits == {i \in DOMAIN cs : Matches(cs[i], key)}
           R == {Named(c) : c \in Range(cs)} \cup {Unnamed(c) : c \in Range(cs)}
           n == Len(cs)
<1>1. /\ cs \in Seq(Range(cs)) /\ n \in Nat /\ n > 0 /\ DOMAIN cs = 1 .. n
      /\ \A i \in 1 .. n : cs[i] \in Range(cs)
      /\ \A i, j \in 1 .. n : i # j => cs[i].password # cs[j].password
      /\ \A c \in Range(cs) : \E i \in 1 .. n : cs[i] = c
  BY DEF GoodList, Range
<1>r. \A c \in Range(cs) : Named(c) \in R /\ Unnamed(c) \in R
  OBVIOUS
<1> HIDE DEF n, R
<1>2. CASE hits = {}
  <2>1. o = Plain(cs)
    BY <1>2 DEF Order
  <2> HIDE DEF o
  <2>2. /\ o \in Seq(R) /\ Len(o) = n
        /\ \A i \in 1 .. n : o[i] = Unnamed(cs[i])
    BY <1>1, <1>r, <2>1, PlainIs DEF n
  <2>3. /\ o # <<>> /\ DOMAIN o = 1 .. n
        /\ \A i \in 1 .. n : o[i].cand = cs[i] /\ ~o[i].cached
    <3>1. o # <<>> /\ DOMAIN o = 1 .. n
      BY <1>1, <2>2
    <3>2. ASSUME NEW i \in 1 .. n
          PROVE  o[i].cand = cs[i] /\ ~o[i].cached
      BY <2>2, EntryIs, Zenon
    <3> QED
      BY <3>1, <3>2
  <2>4. \A c \in Range(cs) : ~Matches(c, key)
    BY <1>1, <1>2
  <2>5. o \in Seq(Range(o)) /\ 1 \in 1 .. n
    BY <1>1, <2>2, SeqOfRange
  <2>6. /\ \A i, j \in DOMAIN o : i # j => o[i].cand.password # o[j].cand.password
        /\ \A i \in DOMAIN o : o[i].cand \in Range(cs)
        /\ \A c \in Range(cs) : \E i \in DOMAIN o : o[i].cand = c
    BY <1>1, <2>3
  <2> QED
    BY <2>3, <2>4, <2>5, <2>6 DEF Ordered, o
<1>3. CASE hits # {}
  <2> DEFINE m == Min(hits)
             rest == RemoveAt(cs, m)
             one == <<Named(cs[m])>>
             others == Plain(rest)
  <2>1. m \in hits
    <3>1. hits \subseteq Nat
      BY <1>1
    <3> HIDE DEF hits
    <3>2. PICK x \in hits : \A y \in hits : x <= y
      BY <1>3, <3>1, LeastElement
    <3> QED
      BY <3>2 DEF Min
  <2>2. m \in 1 .. n /\ Matches(cs[m], key)
    BY <1>1, <2>1
  <2>3. o = one \o others
    BY <1>3 DEF Order, Named
  <2> HIDE DEF m
  <2>4. /\ rest \in Seq(Range(cs)) /\ Len(rest) = n - 1
        /\ \A k \in 1 .. n - 1 : rest[k] = IF k < m THEN cs[k] ELSE cs[k + 1]
    <3>1. cs \in Seq(Range(cs)) /\ m \in DOMAIN cs
      BY <1>1, <2>2
    <3> HIDE DEF rest
    <3> QED
      BY <3>1, RemoveAtIs, Zenon DEF n, rest
  <2> HIDE DEF rest
  <2>5. /\ others \in Seq(R) /\ Len(others) = n - 1
        /\ \A k \in 1 .. n - 1 : others[k] = Unnamed(rest[k])
    BY <1>r, <2>4, PlainIs
  <2>6. one \in Seq(R) /\ Len(one) = 1 /\ one[1] = Named(cs[m])
    BY <1>1, <1>r, <2>2
  <2> HIDE DEF one, others
  <2> one \in Seq(R) /\ others \in Seq(R)
    BY <2>5, <2>6
  <2>7. /\ one \o others \in Seq(R) /\ Len(one \o others) = Len(one) + Len(others)
        /\ \A k \in 1 .. Len(one) + Len(others) :
              (one \o others)[k] = IF k <= Len(one) THEN one[k] ELSE others[k - Len(one)]
    BY ConcatProperties, Zenon
  <2> HIDE DEF o
  <2>8. o \in Seq(R) /\ DOMAIN o = 1 .. n
    BY <1>1, <2>3, <2>5, <2>6, <2>7
  <2> DEFINE from(k) == IF k = 1 THEN m ELSE IF k - 1 < m THEN k - 1 ELSE k
  <2>9. ASSUME NEW k \in 1 .. n
        PROVE  /\ from(k) \in 1 .. n
               /\ k = 1 => o[k] = Named(cs[from(k)])
               /\ k > 1 => o[k] = Unnamed(cs[from(k)])
    <3>1. CASE k = 1
      BY <1>1, <2>2, <2>3, <2>5, <2>6, <2>7, <3>1
    <3>2. CASE k > 1
      <4>1. k - 1 \in 1 .. n - 1 /\ k \in 1 .. Len(one) + Len(others)
        BY <1>1, <2>5, <2>6, <3>2
      <4>2. o[k] = others[k - 1]
        BY <1>1, <2>3, <2>6, <2>7, <3>2, <4>1
      <4>3. o[k] = Unnamed(rest[k - 1])
        BY <2>5, <4>1, <4>2
      <4>4. rest[k - 1] = IF k - 1 < m THEN cs[k - 1] ELSE cs[(k - 1) + 1]
        BY <2>4, <4>1
      <4>5. (k - 1) + 1 = k /\ from(k) = IF k - 1 < m THEN k - 1 ELSE k
        BY <3>2
      <4>6. rest[k - 1] = cs[from(k)]
        BY <4>4, <4>5
      <4>7. from(k) \in 1 .. n
        BY <1>1, <2>2, <3>2, <4>1, <4>5
      <4> HIDE DEF from
      <4> QED
        BY <3>2, <4>3, <4>6, <4>7
    <3>3. k = 1 \/ k > 1
      BY <1>1
    <3> HIDE DEF from
    <3> QED
      BY <3>1, <3>2, <3>3
  <2>10. \A k, l \in 1 .. n : k # l => from(k) # from(l)
    BY <1>1, <2>2
  <2>11. ASSUME NEW i \in 1 .. n
         PROVE  \E k \in 1 .. n : from(k) = i
    <3>1. CASE i = m
      <4>1. 1 \in 1 .. n /\ from(1) = i
        BY <1>1, <3>1
      <4> QED
        BY <4>1
    <3>2. CASE i < m
      <4>1. i + 1 \in 1 .. n /\ from(i + 1) = i
        BY <1>1, <2>2, <3>2
      <4> QED
        BY <4>1
    <3>3. CASE i > m
      <4>1. from(i) = i
        BY <1>1, <2>2, <3>3
      <4> QED
        BY <4>1
    <3> QED
      BY <1>1, <2>2, <3>1, <3>2, <3>3
  <2>12. 1 \in 1 .. n /\ from(1) = m
    BY <1>1
  <2> HIDE DEF from
  <2>13. \A k \in 1 .. n : /\ o[k].cand = cs[from(k)] /\ from(k) \in 1 .. n
                           /\ k = 1 => o[k].cached
                           /\ k > 1 => ~o[k].cached
    <3> SUFFICES ASSUME NEW k \in 1 .. n
                 PROVE  /\ o[k].cand = cs[from(k)] /\ from(k) \in 1 .. n
                        /\ k = 1 => o[k].cached
                        /\ k > 1 => ~o[k].cached
      OBVIOUS
    <3>1. k = 1 \/ k > 1
      BY <1>1
    <3> QED
      BY <2>9, <3>1, EntryIs
  <2>14. \A i, j \in 1 .. n : i # j => o[i].cand.password # o[j].cand.password
    <3> SUFFICES ASSUME NEW i \in 1 .. n, NEW j \in 1 .. n, i # j
                 PROVE  o[i].cand.password # o[j].cand.password
      OBVIOUS
    <3>1. from(i) # from(j) /\ from(i) \in 1 .. n /\ from(j) \in 1 .. n
      BY <2>10, <2>13
    <3>2. cs[from(i)].password # cs[from(j)].password
      BY <1>1, <3>1, Zenon
    <3>3. o[i].cand = cs[from(i)] /\ o[j].cand = cs[from(j)]
      BY <2>13
    <3> QED
      BY <3>2, <3>3
  <2>15. \A i \in 1 .. n : o[i].cand \in Range(cs)
    BY <1>1, <2>13
  <2>16. \A c \in Range(cs) : \E i \in 1 .. n : o[i].cand = c
    <3> SUFFICES ASSUME NEW c \in Range(cs) PROVE \E i \in 1 .. n : o[i].cand = c
      OBVIOUS
    <3>1. PICK i \in 1 .. n : cs[i] = c
      BY <1>1
    <3>2. PICK k \in 1 .. n : from(k) = i
      BY <2>11
    <3> QED
      BY <2>13, <3>1, <3>2
  <2>17. o \in Seq(Range(o)) /\ o # <<>>
    <3>1. o \in Seq(Range(o))
      BY <2>8, SeqOfRange, Zenon
    <3>2. 1 \in DOMAIN o
      BY <2>8, <2>12
    <3>3. DOMAIN <<>> = {}
      OBVIOUS
    <3> QED
      BY <3>1, <3>2, <3>3
  <2>18. o[1].cached /\ Matches(o[1].cand, key)
    BY <2>2, <2>12, <2>13
  <2> QED
    BY <2>8, <2>13, <2>14, <2>15, <2>16, <2>17, <2>18 DEF Ordered, o
<1> QED
  BY <1>2, <1>3

----------------------------------------------------------------------------
(* The candidates left in a selection and those the camera has refused.    *)

\* What is left of the list cs after the refusals ref.
Left(o, cs, ref) ==
    /\ o \in Seq(Range(o)) /\ o # <<>>
    /\ \A i, j \in DOMAIN o : i # j => o[i].cand.password # o[j].cand.password
    /\ \A i \in DOMAIN o : o[i].cand \in Range(cs)
    /\ \A c \in Range(cs) : c \in ref \/ \E i \in DOMAIN o : o[i].cand = c

\* No secret of these entries has been refused; or the first one has.
Fresh(o, ref) == \A c \in ref, i \in DOMAIN o : c.password # o[i].cand.password
Hit(o, ref) ==
    /\ o[1].cand \in ref
    /\ \A c \in ref, i \in DOMAIN o : i # 1 => c.password # o[i].cand.password

LEMMA FirstIsHead ==
    ASSUME NEW o, NEW cs, NEW ref, Left(o, cs, ref)
    PROVE  Head(o) = o[1] /\ 1 \in DOMAIN o
BY DEF Left

LEMMA BeginLeft ==
    ASSUME NEW o, NEW cs, NEW key, Ordered(cs, key, o)
    PROVE  Left(o, cs, {}) /\ Fresh(o, {})
BY DEF Ordered, Left, Fresh

LEMMA RefusedHits ==
    ASSUME NEW o, NEW cs, NEW ref, Left(o, cs, ref), Fresh(o, ref)
    PROVE  /\ Left(o, cs, ref \cup {Head(o).cand}) /\ Hit(o, ref \cup {Head(o).cand})
           /\ Head(o).cand \in Range(cs)
<1> DEFINE c == o[1].cand
<1>1. Head(o) = o[1] /\ 1 \in DOMAIN o
  BY FirstIsHead
<1>2. \A i \in DOMAIN o : i # 1 => c.password # o[i].cand.password
  BY <1>1 DEF Left
<1> HIDE DEF c
<1>3. c \in Range(cs) /\ Head(o).cand = c /\ o[1].cand = c
  BY <1>1 DEF Left, c
<1>4. Left(o, cs, ref \cup {c})
  BY DEF Left
<1>5. Hit(o, ref \cup {c})
  BY <1>2, <1>3 DEF Fresh, Hit
<1> QED
  BY <1>3, <1>4, <1>5

LEMMA NextLeft ==
    ASSUME NEW o, NEW cs, NEW ref, Left(o, cs, ref), Hit(o, ref)
    PROVE  /\ Tail(o) # <<>> => Left(Tail(o), cs, ref) /\ Fresh(Tail(o), ref)
           /\ Tail(o) = <<>> => Range(cs) \subseteq ref
<1> DEFINE t == Tail(o)
           m == Len(t)
           S == Range(o)
<1>1. o \in Seq(S) /\ o # <<>>
  BY DEF Left
<1> HIDE DEF S
<1>2. t \in Seq(S) /\ m = Len(o) - 1 /\ \A i \in 1 .. m : t[i] = o[i + 1]
  BY <1>1, HeadTailProperties
<1> HIDE DEF t
<1>3. /\ Len(o) \in Nat /\ DOMAIN o = 1 .. Len(o) /\ DOMAIN t = 1 .. m /\ m \in Nat
      /\ \A i \in 1 .. m : i + 1 \in DOMAIN o /\ i + 1 # 1 /\ t[i] = o[i + 1]
      /\ \A i \in DOMAIN o : i # 1 => i - 1 \in 1 .. m /\ t[i - 1] = o[i]
  <2>1. Len(o) \in Nat /\ DOMAIN o = 1 .. Len(o) /\ DOMAIN t = 1 .. m /\ m \in Nat
    BY <1>1, <1>2
  <2>2. \A i \in 1 .. m : i + 1 \in DOMAIN o /\ i + 1 # 1
    BY <1>2, <2>1
  <2>3. ASSUME NEW i \in DOMAIN o, i # 1
        PROVE  i - 1 \in 1 .. m /\ t[i - 1] = o[i]
    <3>1. i - 1 \in 1 .. m /\ (i - 1) + 1 = i
      BY <1>2, <2>1, <2>3
    <3>2. t[i - 1] = o[(i - 1) + 1]
      BY <1>2, <3>1
    <3> QED
      BY <3>1, <3>2
  <2> QED
    BY <1>2, <2>1, <2>2, <2>3
<1> HIDE DEF m
<1>4. \A c \in Range(cs) : c \in ref \/ \E i \in 1 .. m : t[i].cand = c
  <2> SUFFICES ASSUME NEW c \in Range(cs), c \notin ref
               PROVE  \E i \in 1 .. m : t[i].cand = c
    OBVIOUS
  <2>1. PICK i \in DOMAIN o : o[i].cand = c
    BY DEF Left
  <2>2. i # 1
    BY <2>1 DEF Hit
  <2>3. i - 1 \in 1 .. m /\ t[i - 1].cand = c
    BY <1>3, <2>1, <2>2
  <2> QED
    BY <2>3
<1>5. \A i \in 1 .. m : t[i].cand \in Range(cs)
  BY <1>3 DEF Left
<1>6. \A i, j \in 1 .. m : i # j => t[i].cand.password # t[j].cand.password
  <2> SUFFICES ASSUME NEW i \in 1 .. m, NEW j \in 1 .. m, i # j
               PROVE  t[i].cand.password # t[j].cand.password
    OBVIOUS
  <2>1. i + 1 # j + 1 /\ i + 1 \in DOMAIN o /\ j + 1 \in DOMAIN o
    BY <1>3
  <2>2. o[i + 1].cand.password # o[j + 1].cand.password
    BY <2>1, Zenon DEF Left
  <2> QED
    BY <1>3, <2>2
<1>7. \A c \in ref, i \in 1 .. m : c.password # t[i].cand.password
  BY <1>3 DEF Hit
<1>8. CASE t = <<>>
  <2>1. 1 .. m = {}
    BY <1>3, <1>8
  <2>2. Range(cs) \subseteq ref
    BY <1>4, <2>1
  <2> QED
    BY <1>8, <2>2 DEF t
<1>9. CASE t # <<>>
  <2>1. t \in Seq(Range(t))
    BY <1>2, SeqOfRange, Zenon
  <2>2. Left(t, cs, ref) /\ Fresh(t, ref)
    BY <1>3, <1>4, <1>5, <1>6, <1>7, <1>9, <2>1 DEF Left, Fresh
  <2> QED
    BY <1>9, <2>2 DEF t
<1> QED
  BY <1>8, <1>9

\* The camera's last answer is a refusal, and the parent has not acted upon it.
Refuted == pc \in {"event", "exit", "decide"} /\ event = "refused"

\* While a selection is under way its list holds what the camera has not been
\* asked for; the head of it may just have been refused.
ListInv ==
    Selecting => /\ Left(order, Configured[account], refused)
                 /\ IF Refuted THEN Hit(order, refused) ELSE Fresh(order, refused)

RefusedInv ==
    /\ refused \subseteq Range(Configured[account])
    /\ pc \in {"waking", "ready"} => refused = {}
    /\ outcome = "rejected" => pc = "idle" /\ refused = Range(Configured[account])

SelectionInv == ListInv /\ RefusedInv

\* A step that leaves the list, the refusals and the state of the last answer.
LEMMA ListStays ==
    ASSUME SelectionInv, UNCHANGED <<order, account, refused>>,
           Selecting' <=> Selecting, Refuted' <=> Refuted
    PROVE  ListInv'
<1> DEFINE cs == Configured[account]
<1>1. Configured[account]' = cs
  BY DEF Configured
<1>2. Left(order, Configured[account], refused)' <=> Left(order, cs, refused)
  BY <1>1
<1>3. Hit(order, refused)' <=> Hit(order, refused)
  OBVIOUS
<1>4. Fresh(order, refused)' <=> Fresh(order, refused)
  OBVIOUS
<1> QED
  BY <1>2, <1>3, <1>4 DEF SelectionInv, ListInv

LEMMA StepSelection ==
    ASSUME TypeOK, EventInv, SelectionInv, [Next]_vars
    PROVE  SelectionInv'
<1> USE DEF SelectionInv, RefusedInv, parent, store, past, world
<1> DEFINE cs == Configured[account]
<1>a. account' = account => Configured[account]' = cs
  OBVIOUS
<1>1. CASE StartStream \/ (\E p \in Ports : PortEnds(p)) \/ WakeOver
  <2>1. ListInv'
    BY <1>1 DEF StartStream, PortEnds, WakeOver, ListInv, Selecting
  <2> QED
    BY <1>1, <1>a, <2>1 DEF StartStream, PortEnds, WakeOver
<1>2. CASE Begin
  <2>1. account \in Accounts /\ account' = account /\ refused' = refused /\ refused = {}
    BY <1>2 DEF Begin, TypeOK
  <2>2. Ordered(cs, cache, Order(cs, cache))
    BY <2>1, ConfiguredList, OrderIsOrdered
  <2>3. Left(Order(cs, cache), cs, {}) /\ Fresh(Order(cs, cache), {})
    BY <2>2, BeginLeft
  <2>4. order' = Order(cs, cache) /\ pc' = "attempt"
    BY <1>2 DEF Begin
  <2>5. Left(order', cs, refused') /\ Fresh(order', refused') /\ ~Refuted'
    BY <2>1, <2>3, <2>4 DEF Refuted
  <2>6. ListInv'
    BY <1>a, <2>1, <2>5 DEF ListInv
  <2> QED
    BY <1>2, <1>a, <2>1, <2>6 DEF Begin
<1>3. CASE Spawn \/ NotAuthenticated \/ HelperGone \/ Connects \/ ConnectFails
           \/ LoginUnanswered \/ LoginAccepted \/ HelperEnds \/ OtherCameraSaves
           \/ ChangePassword
  <2> DEFINE Same == /\ UNCHANGED <<order, account, refused, outcome>>
                     /\ (Selecting' <=> Selecting) /\ (Refuted' <=> Refuted)
                     /\ pc' = pc \/ (Selecting /\ Selecting')
  <2>a. ASSUME Spawn \/ NotAuthenticated \/ HelperGone
        PROVE  Same
    BY <2>a DEF Spawn, NotAuthenticated, HelperGone, Selecting, Refuted, EventInv
  <2>b. ASSUME Connects \/ ConnectFails \/ LoginUnanswered \/ LoginAccepted
        PROVE  Same
    BY <2>b DEF Connects, ConnectFails, LoginUnanswered, LoginAccepted, Report, EventInv,
       Selecting, Refuted
  <2>c. ASSUME HelperEnds \/ OtherCameraSaves \/ ChangePassword
        PROVE  Same
    BY <2>c DEF HelperEnds, OtherCameraSaves, ChangePassword, Selecting, Refuted
  <2>1. Same
    BY <1>3, <2>a, <2>b, <2>c
  <2>2. ListInv'
    BY <2>1, ListStays
  <2> QED
    BY <1>a, <2>1, <2>2, <1>3 DEF Selecting
<1>4. CASE SpawnFails \/ EventTimeout \/ ExitTimeout \/ TransportFailure \/ Select
           \/ StreamOver
  <2>1. /\ ~Selecting' /\ UNCHANGED <<account, refused>> /\ pc' \in {"idle", "streaming"}
        /\ outcome' # "rejected" \/ (outcome' = outcome /\ pc' = "idle")
    BY <1>4 DEF SpawnFails, EventTimeout, ExitTimeout, TransportFailure, Select, StreamOver,
       Fail, Selecting
  <2> QED
    BY <1>a, <2>1 DEF ListInv
<1>5. CASE LoginRefused
  <2>1. /\ pc = "event" /\ event = "none" /\ Selecting /\ ~Refuted
        /\ outcome = "none"
    BY <1>5 DEF LoginRefused, EventInv, Selecting, Refuted
  <2>2. Left(order, cs, refused) /\ Fresh(order, refused)
    BY <2>1 DEF ListInv
  <2>3. /\ Left(order, cs, refused \cup {Head(order).cand})
        /\ Hit(order, refused \cup {Head(order).cand})
        /\ Head(order).cand \in Range(cs)
    BY <2>2, RefusedHits
  <2>4. /\ refused' = refused \cup {Head(order).cand} /\ Refuted'
        /\ UNCHANGED <<order, account, pc, outcome>>
    BY <1>5, <2>1 DEF LoginRefused, Report, Refuted, tried
  <2>5. Left(order', cs, refused') /\ Hit(order', refused')
    BY <2>3, <2>4
  <2>6. ListInv'
    BY <1>a, <2>4, <2>5 DEF ListInv
  <2> QED
    BY <1>a, <2>1, <2>3, <2>4, <2>6
<1>6. CASE Reject
  <2>1. Selecting /\ Refuted /\ outcome = "none"
    BY <1>6 DEF Reject, ExplicitRejection, EventInv, Selecting, Refuted
  <2>2. Left(order, cs, refused) /\ Hit(order, refused)
    BY <2>1 DEF ListInv
  <2>3. /\ Tail(order) # <<>> => Left(Tail(order), cs, refused) /\ Fresh(Tail(order), refused)
        /\ Tail(order) = <<>> => Range(cs) \subseteq refused
    BY <2>2, NextLeft
  <2>4. order' = Tail(order) /\ event' = "none" /\ UNCHANGED <<account, refused>>
    BY <1>6 DEF Reject
  <2>5. CASE order' = <<>>
    <3>1. pc' = "idle" /\ Range(cs) \subseteq refused
      BY <1>6, <2>3, <2>4, <2>5 DEF Reject
    <3> QED
      BY <1>a, <2>4, <3>1 DEF ListInv, Selecting
  <2>6. CASE order' # <<>>
    <3>1. pc' = "attempt" /\ outcome' = outcome /\ ~Refuted'
      BY <1>6, <2>6 DEF Reject, Refuted
    <3>2. Left(order', cs, refused') /\ Fresh(order', refused')
      BY <2>3, <2>4, <2>6
    <3>3. ListInv'
      BY <1>a, <2>4, <3>1, <3>2 DEF ListInv
    <3> QED
      BY <1>a, <2>1, <2>4, <3>1, <3>3
  <2> QED
    BY <2>5, <2>6
<1>7. CASE Restart
  BY <1>7 DEF Restart, ListInv, Selecting
<1>8. CASE UNCHANGED vars
  <2>1. UNCHANGED <<order, account, refused, outcome, pc, event>>
    BY <1>8 DEF vars
  <2>2. ListInv'
    BY <2>1, ListStays DEF Selecting, Refuted
  <2> QED
    BY <1>a, <2>1, <2>2
<1> QED
  BY <1>1, <1>2, <1>3, <1>4, <1>5, <1>6, <1>7, <1>8 DEF Next

LEMMA InitSelection == Init => SelectionInv
BY DEF Init, SelectionInv, ListInv, RefusedInv, Selecting

\* List and refusals always agree.
THEOREM SelectionInvariant == Spec => []SelectionInv
<1>1. TypeOK /\ EventInv /\ SelectionInv /\ [Next]_vars => SelectionInv'
  BY StepSelection
<1> QED
  BY <1>1, InitSelection, StartTypes, EventInvariant, PTL DEF Spec

\* "Rejected" is reported only when the camera itself has refused every
\* candidate of the account, whatever the helpers did (auth.py,
\* AuthenticationRejected).
THEOREM RejectedIsRefusedByAll == Spec => []RejectedMeansAllRefused
<1>1. SelectionInv => RejectedMeansAllRefused
  BY DEF SelectionInv, RefusedInv, RejectedMeansAllRefused
<1> QED
  BY <1>1, SelectionInvariant, PTL

\* As many different secrets as entries, if no two entries have the same.
LEMMA CountSecrets ==
    ASSUME NEW o, NEW cs, NEW ref, Left(o, cs, ref)
    PROVE  Cardinality({o[i].cand.password : i \in DOMAIN o}) = Len(o)
<1> DEFINE n == Len(o)
           f == [i \in 1 .. n |-> o[i].cand.password]
           T == {o[i].cand.password : i \in DOMAIN o}
<1>1. n \in Nat /\ DOMAIN o = 1 .. n
  BY DEF Left
<1>2. \A i, j \in 1 .. n : i # j => o[i].cand.password # o[j].cand.password
  BY <1>1 DEF Left
<1>3. T = {o[i].cand.password : i \in 1 .. n}
  BY <1>1
<1> HIDE DEF n, T
<1>4. f \in [1 .. n -> T]
  BY <1>3
<1>5. f \in Bijection(1 .. n, T)
  BY <1>2, <1>3, <1>4 DEF Bijection, Injection, Surjection, IsInjective
<1>6. ExistsBijection(1 .. n, T)
  BY <1>5 DEF ExistsBijection
<1> QED
  BY <1>1, <1>6, FS_CountingElements DEF n, T

\* No secret is tried twice in one selection, whatever account, other devices
\* and cache name (auth.py, build_candidates and the order).
THEOREM SecretsAreTriedOnce == Spec => []NoSecretTwice
<1>1. ASSUME SelectionInv PROVE NoSecretTwice
  <2>1. ASSUME Selecting
        PROVE  Cardinality({order[i].cand.password : i \in DOMAIN order}) = Len(order)
    BY <1>1, <2>1, CountSecrets DEF SelectionInv, ListInv
  <2>2. ASSUME pc = "attempt", NEW c \in refused, NEW i \in DOMAIN order
        PROVE  order[i].cand.password # c.password
    BY <1>1, <2>2 DEF SelectionInv, ListInv, Selecting, Refuted, Fresh
  <2> QED
    BY <2>1, <2>2 DEF NoSecretTwice
<1>2. SelectionInv => NoSecretTwice
  BY <1>1
<1> QED
  BY <1>2, SelectionInvariant, PTL

----------------------------------------------------------------------------
(* The cache names one candidate, when an account lists a device once.     *)

\* The account lists no two devices with the same uid.  The code relies on the
\* cloud for it.
EachDeviceOnce ==
    \A a \in Accounts : \A i, j \in DOMAIN a.devices :
        i # j => a.devices[i].uid # a.devices[j].uid

LEMMA Unique ==
    ASSUME EachDeviceOnce, NEW a \in Accounts, NEW c \in Range(Configured[a]),
           NEW d \in Range(Configured[a]), Matches(c, Key(d))
    PROVE  c = d
<1> DEFINE cs == Configured[a]
           m == Candidate("manual", a.password, NoUid)
           own == Candidate("account", a.password, Own)
           empty == Candidate("empty", Empty, NoUid)
           last == Candidate("fallback", Fallback, NoUid)
           other(i) == Candidate("account", a.devices[i].password, a.devices[i].uid)
           I == {j \in DOMAIN a.devices : a.devices[j].uid # Own}
<1>1. cs = <<m>> \/ Range(cs) \subseteq Possible(a)
  BY ConfiguredList
<1>2. CASE cs = <<m>>
  <2>1. Range(<<m>>) = {m}
    <3> HIDE DEF m
    <3> QED
      BY DEF Range
  <2> QED
    BY <1>2, <2>1
<1>3. CASE Range(cs) \subseteq Possible(a)
  <2>1. /\ c.source = d.source /\ (d.uid = NoUid \/ d.uid = c.uid)
    BY DEF Matches, Key
  <2>2. /\ Own # NoUid
        /\ \A i \in I : a.devices[i].uid # NoUid /\ a.devices[i].uid # Own
    BY AccountsAssumption DEF Range
  <2>3. /\ c \in {own, empty, last} \/ \E i \in I : c = other(i)
        /\ d \in {own, empty, last} \/ \E i \in I : d = other(i)
    BY <1>3 DEF Possible
  <2>4. /\ own.source = "account" /\ own.uid = Own
        /\ empty.source = "empty" /\ last.source = "fallback"
        /\ \A i \in I : other(i).source = "account" /\ other(i).uid = a.devices[i].uid
    BY DEF Candidate
  <2>5. \A i, j \in I : a.devices[i].uid = a.devices[j].uid => i = j
    BY DEF EachDeviceOnce
  <2> HIDE DEF own, empty, last, other, I
  <2>6. CASE d \in {own, empty, last}
    BY <2>1, <2>2, <2>3, <2>4, <2>6
  <2>7. ASSUME NEW i \in I, d = other(i)
        PROVE  c = d
    <3>1. c.source = "account" /\ c.uid = a.devices[i].uid
      BY <2>1, <2>2, <2>4, <2>7
    <3>2. PICK j \in I : c = other(j)
      BY <2>2, <2>3, <2>4, <3>1
    <3>3. a.devices[j].uid = a.devices[i].uid
      BY <2>4, <3>1, <3>2
    <3>4. j = i
      BY <2>5, <3>3
    <3> QED
      BY <2>7, <3>2, <3>4
  <2> QED
    BY <2>3, <2>6, <2>7
<1> QED
  BY <1>1, <1>2, <1>3

\* The first entry is the one the cache names, and then nothing else has been
\* refused; or the cache names none.
CachedFirst(o, cs, key, ref) ==
    /\ \A i \in DOMAIN o : i > 1 => ~o[i].cached
    /\ IF o[1].cached THEN ref \subseteq {o[1].cand} ELSE \A c \in Range(cs) : ~Matches(c, key)

LEMMA BeginCachedFirst ==
    ASSUME NEW cs, NEW key, NEW o, Ordered(cs, key, o)
    PROVE  CachedFirst(o, cs, key, {})
BY DEF Ordered, CachedFirst

\* Before the next refusal no refused candidate is the one the cache names.
LEMMA FreshIsForgotten ==
    ASSUME NEW o, NEW cs, NEW key, NEW ref, Left(o, cs, ref), Fresh(o, ref),
           CachedFirst(o, cs, key, ref), ref \subseteq Range(cs)
    PROVE  \A c \in ref : ~Matches(c, key)
<1>1. 1 \in DOMAIN o
  BY FirstIsHead
<1>2. CASE o[1].cached
  <2>1. \A c \in ref : c.password # o[1].cand.password
    BY <1>1 DEF Fresh
  <2>2. ref \subseteq {o[1].cand}
    BY <1>2 DEF CachedFirst
  <2> QED
    BY <2>1, <2>2
<1>3. CASE ~o[1].cached
  BY <1>3 DEF CachedFirst
<1> QED
  BY <1>2, <1>3

\* The candidates have a source, so an empty cache names none of them.
LEMMA NoKeyMatchesNone ==
    ASSUME NEW a \in Accounts, NEW c \in Range(Configured[a])
    PROVE  ~Matches(c, NoKey)
<1>1. GoodList(Configured[a])
  BY ConfiguredList
<1> QED
  BY <1>1 DEF GoodList, Matches, NoKey

FirstInv == Selecting => CachedFirst(order, Configured[account], cache, refused)
TrustInv ==
    trust => \E c \in Range(Configured[account]) : cache = Key(c) /\ c.password = password
TrustedInv ==
    trust /\ Selecting => tried.cached /\ tried.cand.password = password /\ refused = {}

KnownInv == FirstInv /\ TrustInv /\ TrustedInv /\ RefusedSourceIsForgotten

\* A step that changes nothing these parts are about.
LEMMA KnownStays ==
    ASSUME KnownInv, UNCHANGED <<order, account, refused, cache, password, trust>>,
           Selecting' => Selecting
    PROVE  FirstInv' /\ TrustInv' /\ TrustedInv'
<1> DEFINE cs == Configured[account]
<1>1. Configured[account]' = cs /\ tried' = tried
  BY DEF Configured, tried
<1>2. FirstInv'
  <2>1. CachedFirst(order, Configured[account], cache, refused)'
           <=> CachedFirst(order, cs, cache, refused)
    BY <1>1
  <2> QED
    BY <2>1 DEF KnownInv, FirstInv
<1>3. TrustInv'
  BY <1>1 DEF KnownInv, TrustInv
<1>4. TrustedInv'
  BY <1>1 DEF KnownInv, TrustedInv
<1> QED
  BY <1>2, <1>3, <1>4

LEMMA StepKnown ==
    ASSUME EachDeviceOnce, TypeOK, EventInv, SelectionInv, KnownInv, [Next]_vars
    PROVE  KnownInv'
<1> USE DEF parent, store, past, world
<1> DEFINE cs == Configured[account]
           Same == UNCHANGED <<order, account, refused, cache, password, trust>>
<1>a. account' = account => Configured[account]' = cs
  OBVIOUS
<1>b. account \in Accounts
  BY DEF TypeOK
<1>1. CASE StartStream \/ (\E p \in Ports : PortEnds(p)) \/ WakeOver
  <2>1. /\ ~Selecting' /\ UNCHANGED <<account, cache, password, trust>>
        /\ pc' \in {"waking", "ready"}
    BY <1>1 DEF StartStream, PortEnds, WakeOver, Selecting
  <2> QED
    BY <1>a, <2>1 DEF KnownInv, FirstInv, TrustInv, TrustedInv, RefusedSourceIsForgotten
<1>2. CASE Begin
  <2> DEFINE o == Order(cs, cache)
  <2>1. /\ account' = account /\ refused' = refused /\ refused = {} /\ order' = o
        /\ UNCHANGED <<cache, password, trust>>
    BY <1>2 DEF Begin, SelectionInv, RefusedInv
  <2>2. Ordered(cs, cache, o)
    BY <1>b, ConfiguredList, OrderIsOrdered
  <2> HIDE DEF o
  <2>3. FirstInv'
    BY <1>a, <2>1, <2>2, BeginCachedFirst DEF FirstInv
  <2>4. TrustInv'
    BY <1>a, <2>1 DEF KnownInv, TrustInv
  <2>5. ASSUME trust
        PROVE  o[1].cached /\ o[1].cand.password = password
    <3>1. PICK c \in Range(cs) : cache = Key(c) /\ c.password = password
      BY <2>5 DEF KnownInv, TrustInv
    <3>2. Matches(c, cache)
      BY <3>1 DEF Matches, Key
    <3>3. o[1].cached /\ Matches(o[1].cand, cache) /\ o[1].cand \in Range(cs)
      <4>1. 1 \in DOMAIN o
        BY <2>2 DEF Ordered
      <4> QED
        BY <2>2, <3>2, <4>1 DEF Ordered
    <3>4. o[1].cand = c
      BY <1>b, <3>1, <3>3, Unique
    <3> QED
      BY <3>1, <3>3, <3>4
  <2>6. Head(o) = o[1]
    BY <2>2, BeginLeft, FirstIsHead
  <2>7. TrustedInv'
    BY <2>1, <2>5, <2>6 DEF TrustedInv, tried
  <2> QED
    BY <2>1, <2>3, <2>4, <2>7 DEF KnownInv, RefusedSourceIsForgotten
<1>3. CASE Spawn \/ NotAuthenticated \/ HelperGone \/ Connects \/ ConnectFails
           \/ LoginUnanswered \/ LoginAccepted \/ HelperEnds \/ OtherCameraSaves
  <2> DEFINE Going == /\ Same /\ (Selecting' => Selecting)
                      /\ UNCHANGED <<kind, outcome>>
                      /\ pc' = pc \/ pc' \in {"event", "exit", "decide"}
  <2>a. ASSUME Spawn \/ NotAuthenticated \/ HelperGone
        PROVE  Going
    BY <2>a DEF Spawn, NotAuthenticated, HelperGone, Selecting
  <2>b. ASSUME Connects \/ ConnectFails \/ LoginUnanswered \/ LoginAccepted
        PROVE  Going
    BY <2>b DEF Connects, ConnectFails, LoginUnanswered, LoginAccepted, Report, Selecting
  <2>c. ASSUME HelperEnds \/ OtherCameraSaves
        PROVE  Going
    BY <2>c DEF HelperEnds, OtherCameraSaves, Selecting
  <2>1. Going
    BY <1>3, <2>a, <2>b, <2>c
  <2>2. FirstInv' /\ TrustInv' /\ TrustedInv'
    BY <2>1, KnownStays
  <2>3. RefusedSourceIsForgotten'
    BY <2>1 DEF KnownInv, RefusedSourceIsForgotten
  <2> QED
    BY <2>2, <2>3 DEF KnownInv
<1>4. CASE SpawnFails \/ EventTimeout \/ TransportFailure
  <2>1. Selecting /\ ~Refuted
    BY <1>4 DEF SpawnFails, EventTimeout, TransportFailure, Fail, Selecting, Refuted,
       ExplicitRejection
  <2>2. FirstInv' /\ TrustInv' /\ TrustedInv'
    BY <1>4, <1>a DEF SpawnFails, EventTimeout, TransportFailure, Fail, Selecting,
       KnownInv, FirstInv, TrustInv, TrustedInv
  <2>3. \A c \in refused : ~Matches(c, cache)
    <3>1. Left(order, cs, refused) /\ Fresh(order, refused)
          /\ CachedFirst(order, cs, cache, refused) /\ refused \subseteq Range(cs)
      BY <2>1 DEF SelectionInv, ListInv, RefusedInv, KnownInv, FirstInv
    <3> QED
      BY <3>1, FreshIsForgotten
  <2> QED
    BY <1>4, <2>2, <2>3 DEF SpawnFails, EventTimeout, TransportFailure, Fail,
       KnownInv, RefusedSourceIsForgotten
<1>5. CASE ExitTimeout
  <2>1. kind # "arm64"
    BY <1>5 DEF ExitTimeout, EventInv
  <2>2. /\ UNCHANGED <<account, refused, cache, password, trust, kind>> /\ pc' = "idle"
        /\ outcome' = "failed"
    BY <1>5 DEF ExitTimeout, Fail
  <2> QED
    BY <1>a, <2>1, <2>2 DEF KnownInv, FirstInv, TrustInv, TrustedInv, Selecting,
       RefusedSourceIsForgotten
<1>6. CASE StreamOver
  <2>1. /\ Same /\ UNCHANGED <<kind, outcome>> /\ pc = "streaming" /\ pc' = "idle"
        /\ ~Selecting'
    BY <1>6 DEF StreamOver, Selecting
  <2>2. FirstInv' /\ TrustInv' /\ TrustedInv'
    BY <2>1, KnownStays
  <2> QED
    BY <2>1, <2>2 DEF KnownInv, RefusedSourceIsForgotten
<1>7. CASE ChangePassword
  <2>1. /\ ~trust' /\ UNCHANGED <<order, account, refused, cache, kind, outcome, pc>>
    BY <1>7 DEF ChangePassword
  <2>2. FirstInv'
    BY <2>1, <1>a DEF KnownInv, FirstInv, Selecting
  <2> QED
    BY <2>1, <2>2 DEF KnownInv, TrustInv, TrustedInv, RefusedSourceIsForgotten
<1>8. CASE LoginRefused
  <2>1. /\ pc = "event" /\ Selecting /\ ~Refuted
    BY <1>8 DEF LoginRefused, EventInv, Selecting, Refuted
  <2>2. /\ Left(order, cs, refused) /\ CachedFirst(order, cs, cache, refused)
    BY <2>1 DEF SelectionInv, ListInv, KnownInv, FirstInv
  <2>3. /\ refused' = refused \cup {tried.cand} /\ pc' = pc
        /\ UNCHANGED <<order, account, cache, password, trust>>
        /\ tried.cand.password # password
    BY <1>8 DEF LoginRefused, Report
  <2>4. tried = order[1]
    BY <2>2, FirstIsHead DEF tried
  <2>5. CachedFirst(order, cs, cache, refused')
    BY <2>2, <2>3, <2>4 DEF CachedFirst
  <2>6. FirstInv'
    BY <1>a, <2>3, <2>5 DEF FirstInv
  <2>7. ~trust
    BY <2>1, <2>3 DEF KnownInv, TrustedInv
  <2> QED
    BY <2>1, <2>3, <2>6, <2>7 DEF KnownInv, TrustInv, TrustedInv, RefusedSourceIsForgotten
<1>9. CASE Select
  <2>1. /\ Selecting /\ ~Refuted /\ account' = account /\ refused' = refused
        /\ ~Selecting' /\ password' = password
    BY <1>9 DEF Select, Accepted, Selecting, Refuted
  <2>2. /\ Left(order, cs, refused) /\ Fresh(order, refused)
        /\ CachedFirst(order, cs, cache, refused) /\ refused \subseteq Range(cs)
    BY <2>1 DEF SelectionInv, ListInv, RefusedInv, KnownInv, FirstInv
  <2>3. tried = order[1] /\ 1 \in DOMAIN order /\ tried.cand \in Range(cs)
    BY <2>2, FirstIsHead DEF tried, Left
  <2>4. ASSUME NEW c \in refused
        PROVE  ~Matches(c, cache')
    <3>1. c \in Range(cs) /\ c # tried.cand
      BY <2>2, <2>3 DEF Fresh
    <3>2. CASE Cached(tried.cand)
      <4>1. cache' = Key(tried.cand)
        BY <1>9, <3>2 DEF Select, Remember
      <4> QED
        BY <1>b, <2>3, <3>1, <4>1, Unique
    <3>3. CASE ~Cached(tried.cand)
      <4>1. cache' = cache
        BY <1>9, <3>3 DEF Select
      <4> QED
        BY <2>2, <4>1, FreshIsForgotten
    <3> QED
      BY <3>2, <3>3
  <2>5. ASSUME trust'
        PROVE  Cached(tried.cand) /\ tried.cand.password = password
    BY <1>9, <2>5, Zenon DEF Select
  <2>6. TrustInv'
    <3> SUFFICES ASSUME trust'
                 PROVE  \E c \in Range(cs) : cache' = Key(c) /\ c.password = password'
      BY <1>a, <2>1 DEF TrustInv
    <3>1. cache' = Key(tried.cand)
      BY <1>9, <2>5 DEF Select, Remember
    <3> QED
      BY <2>1, <2>3, <2>5, <3>1
  <2> QED
    BY <2>1, <2>4, <2>6 DEF KnownInv, FirstInv, TrustedInv, RefusedSourceIsForgotten
<1>10. CASE Reject
  <2>1. Selecting /\ Refuted
    BY <1>10 DEF Reject, ExplicitRejection, Selecting, Refuted
  <2>2. /\ Left(order, cs, refused) /\ Hit(order, refused)
        /\ CachedFirst(order, cs, cache, refused) /\ refused \subseteq Range(cs)
    BY <2>1 DEF SelectionInv, ListInv, RefusedInv, KnownInv, FirstInv
  <2>3. tried = order[1]
    BY <2>2, FirstIsHead DEF tried
  <2>4. /\ order' = Tail(order) /\ UNCHANGED <<account, refused, password, trust>>
    BY <1>10 DEF Reject
  <2>5. ~trust
    BY <2>1, <2>2 DEF Hit, KnownInv, TrustedInv
  <2>6. \A c \in Range(cs) : ~Matches(c, cache')
    <3>1. CASE tried.cached /\ cache # NoKey
      <4>1. cache' = NoKey
        BY <1>10, <3>1 DEF Reject, Remember
      <4> QED
        BY <1>b, <4>1, NoKeyMatchesNone
    <3>2. CASE ~(tried.cached /\ cache # NoKey)
      <4>1. cache' = cache
        BY <1>10, <3>2 DEF Reject
      <4>2. cache = NoKey \/ ~tried.cached
        BY <3>2
      <4> QED
        BY <1>b, <2>2, <2>3, <4>1, <4>2, NoKeyMatchesNone DEF CachedFirst
    <3> QED
      BY <3>1, <3>2
  <2>7. FirstInv'
    <3>1. SUFFICES ASSUME Selecting'
                   PROVE  CachedFirst(order', cs, cache', refused')
      BY <1>a, <2>4 DEF FirstInv
    <3>2. order' # <<>>
      BY <1>10, <3>1 DEF Reject, Selecting
    <3>3. \A i \in DOMAIN order' : ~order'[i].cached
      <4>1. order \in Seq(Range(order)) /\ order # <<>>
        BY <2>2 DEF Left
      <4>2. /\ Len(order') = Len(order) - 1 /\ order' \in Seq(Range(order))
            /\ \A i \in 1 .. Len(order') : order'[i] = order[i + 1]
        BY <2>4, <4>1, HeadTailProperties
      <4>3. \A i \in 1 .. Len(order') : i + 1 \in DOMAIN order /\ i + 1 > 1
        BY <4>1, <4>2
      <4> QED
        BY <2>2, <4>2, <4>3 DEF CachedFirst
    <3>4. 1 \in DOMAIN order'
      <4>1. Left(order', cs, refused)
        BY <2>2, <2>4, <3>2, NextLeft
      <4> QED
        BY <4>1, FirstIsHead
    <3> QED
      BY <2>6, <3>3, <3>4 DEF CachedFirst
  <2> QED
    BY <2>2, <2>4, <2>5, <2>6, <2>7 DEF KnownInv, TrustInv, TrustedInv,
       RefusedSourceIsForgotten
<1>11. CASE Restart
  <2>1. /\ ~Selecting' /\ refused' = {} /\ cache' = disk /\ password' = password
    BY <1>11 DEF Restart, Selecting
  <2>2. ASSUME trust'
        PROVE  trust /\ disk = cache /\ account' = account
    BY <1>11, <2>2, Zenon DEF Restart
  <2>3. TrustInv'
    BY <1>a, <2>1, <2>2 DEF KnownInv, TrustInv
  <2> QED
    BY <2>1, <2>3 DEF KnownInv, FirstInv, TrustedInv, RefusedSourceIsForgotten
<1>12. CASE UNCHANGED vars
  <2>1. Same /\ UNCHANGED <<kind, outcome, pc>>
    BY <1>12 DEF vars
  <2>2. FirstInv' /\ TrustInv' /\ TrustedInv'
    BY <2>1, KnownStays DEF Selecting
  <2> QED
    BY <2>1, <2>2 DEF KnownInv, RefusedSourceIsForgotten
<1> QED
  BY <1>1, <1>2, <1>3, <1>4, <1>5, <1>6, <1>7, <1>8, <1>9, <1>10, <1>11, <1>12 DEF Next

LEMMA InitKnown == Init => KnownInv
BY DEF Init, KnownInv, FirstInv, TrustInv, TrustedInv, RefusedSourceIsForgotten, Selecting

\* What the cache names is where the selection expects it.
THEOREM KnownInvariant == ASSUME EachDeviceOnce PROVE Spec => []KnownInv
<1>1. TypeOK /\ EventInv /\ SelectionInv /\ KnownInv /\ [Next]_vars => KnownInv'
  BY StepKnown
<1> QED
  BY <1>1, InitKnown, StartTypes, EventInvariant, SelectionInvariant, PTL DEF Spec

\* While password and account stay what they were when a source was accepted
\* and kept, no start bothers the camera with a wrong one, across streams,
\* failures and restarts (auth.py, the cached candidate first).
THEOREM KnownIsTriedFirst == ASSUME EachDeviceOnce PROVE Spec => []KnownSourceGoesFirst
<1>1. KnownInv => KnownSourceGoesFirst
  BY DEF KnownInv, TrustedInv, KnownSourceGoesFirst
<1> QED
  BY <1>1, KnownInvariant, PTL

\* A source the camera has refused is not in the cache when the next candidate
\* is tried nor after the selection, but for an amd64 helper that outlives the
\* wait for its exit (auth.py, invalidate).
THEOREM RefusedIsForgotten == ASSUME EachDeviceOnce PROVE Spec => []RefusedSourceIsForgotten
<1>1. KnownInv => RefusedSourceIsForgotten
  BY DEF KnownInv
<1> QED
  BY <1>1, KnownInvariant, PTL
=============================================================================
