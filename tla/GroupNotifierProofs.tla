------------------------- MODULE GroupNotifierProofs -------------------------
(***************************************************************************)
(* Proofs about the two ends of the rule manager.                          *)
(* Module Notifier, for any capacity of the queue, size of batches,        *)
(* Alertmanagers and target updates: no alert that Send accepts is lost    *)
(* uncounted, out of order or doubled.                                     *)
(* Module RuleGroups, for any configurations of groups and rules: no live  *)
(* series is forgotten, and the cleanup of a removed group spares what a   *)
(* renamed rule writes.  GroupsInv says how the groups of a manager lie to *)
(* each other; HoldInv, that every live series has a group that will mark  *)
(* it with a newer time, or a new group that will take it over.            *)
(***************************************************************************)
EXTENDS RuleGroups, Notifier, FiniteSetTheorems, WellFoundedInduction, TLAPS

(* The notifier *)

NotifierType ==
    /\ queue \in Seq(Nat) /\ batch \in Seq(Nat)
    /\ lastAccepted \in Nat /\ dropped \in Nat /\ Len(queue) <= lastAccepted
    /\ delivered \in [AMSets \X AMUrls -> Seq(Nat)]

\* The sets of Alertmanagers have every address once.
OneOfEach(ams) ==
    /\ DOMAIN ams \subseteq AMSets
    /\ \A id \in DOMAIN ams : \A p \in DOMAIN ams[id] :
          /\ ams[id][p] \in AMUrls
          /\ \A q \in DOMAIN ams[id] : ams[id][p] = ams[id][q] => p = q

\* The numbers from m + 1 to n, in order.
Numbers(m, n) == [i \in 1..(n - m) |-> m + i]

\* The newest alert that has left the queue, and all that were delivered.
Taken == lastAccepted - Len(queue)
Answered == UNION {Range(delivered[am]) : am \in AMSets \X AMUrls}

\* The batch in flight left the queue in one piece, and what an Alertmanager has
\* is older than the batch and the queue.
BatchInv ==
    \E b \in Nat :
        /\ b + Len(InFlight) <= Taken
        /\ InFlight = Numbers(b, b + Len(InFlight))
        /\ \A am \in AMSets \X AMUrls : \A i \in 1..Len(delivered[am]) : delivered[am][i] \in 1..b

CountInv == lastAccepted = Len(queue) + Len(InFlight) + Cardinality(Answered) + dropped

AccountInv == NotifierType /\ QueueHoldsNewest /\ BatchInv /\ CountInv /\ DeliveredInOrder
NotifierInv == OneOfEach(alertmanagers) /\ OneOfEach(postTo) /\ AccountInv

-----------------------------------------------------------------------------
(* Sequences of numbers *)

\* The places of a sequence.
LEMMA PlacesAre ==
    ASSUME NEW s \in Seq(Nat)
    PROVE  Len(s) \in Nat /\ DOMAIN s = 1..Len(s)
OBVIOUS

\* Two sequences put together.
LEMMA ConcatIs ==
    ASSUME NEW s \in Seq(Nat), NEW t \in Seq(Nat)
    PROVE  /\ s \o t \in Seq(Nat) /\ Len(s \o t) = Len(s) + Len(t)
           /\ \A i \in 1..(Len(s) + Len(t)) : (s \o t)[i] = IF i <= Len(s) THEN s[i] ELSE t[i - Len(s)]
OBVIOUS

\* Nothing put before or behind a sequence.
LEMMA ConcatEmpty ==
    ASSUME NEW s \in Seq(Nat)
    PROVE  s \o <<>> = s /\ <<>> \o s = s
OBVIOUS

\* A part of a sequence.
LEMMA SubSeqIs ==
    ASSUME NEW s \in Seq(Nat), NEW m \in Nat, NEW n \in Nat, 1 <= m, n <= Len(s)
    PROVE  /\ SubSeq(s, m, n) \in Seq(Nat)
           /\ Len(SubSeq(s, m, n)) = IF m <= n THEN n - m + 1 ELSE 0
           /\ \A i \in 1..(n - m + 1) : SubSeq(s, m, n)[i] = s[m + i - 1]
OBVIOUS

-----------------------------------------------------------------------------
\* How much Send has to drop.
LEMMA ExcessIs ==
    ASSUME NEW n \in Nat
    PROVE  Excess(n) = IF n > QueueCapacity THEN n - QueueCapacity ELSE 0
<1>1. QueueCapacity \in Nat
  BY NotifierAssumption
<1>2. \E x \in {n - QueueCapacity, 0} : \A y \in {n - QueueCapacity, 0} : x >= y
  BY <1>1
<1>3. Excess(n) \in {n - QueueCapacity, 0} /\ Excess(n) >= n - QueueCapacity /\ Excess(n) >= 0
  BY <1>2, Zenon DEF Excess, Max
<1>. QED  BY <1>1, <1>3

\* How much Run takes.
LEMMA BatchLenIs ==
    ASSUME NEW q \in Seq(Nat)
    PROVE  /\ BatchLen(q) \in Nat /\ BatchLen(q) <= Len(q)
           /\ BatchLen(q) = 0 => q = <<>>
<1>1. MaxBatchSize \in Nat \ {0} /\ Len(q) \in Nat
  BY NotifierAssumption
<1>2. \E x \in {Len(q), MaxBatchSize} : \A y \in {Len(q), MaxBatchSize} : x <= y
  BY <1>1
<1>3. BatchLen(q) \in {Len(q), MaxBatchSize} /\ BatchLen(q) <= Len(q)
  BY <1>2, Zenon DEF BatchLen, Min
<1>4. Len(q) = 0 => q = <<>>
  OBVIOUS
<1>. QED  BY <1>1, <1>3, <1>4

\* The numbers of a stretch of consecutive alerts, as the queue and a batch hold
\* them: its length and each of its elements.
LEMMA NumbersAre ==
    ASSUME NEW m \in Nat, NEW n \in Nat, m <= n
    PROVE  /\ Numbers(m, n) \in Seq(Nat) /\ Len(Numbers(m, n)) = n - m
           /\ \A i \in 1..(n - m) : Numbers(m, n)[i] = m + i
BY DEF Numbers

\* A sequence is determined by its elements.
LEMMA SameNumbers ==
    ASSUME NEW s \in Seq(Nat), NEW m \in Nat, NEW n \in Nat, m <= n,
           Len(s) = n - m, \A i \in 1..(n - m) : s[i] = m + i
    PROVE  s = Numbers(m, n)
BY NumbersAre DEF Numbers

\* Parts of consecutive numbers are consecutive numbers.
LEMMA SubNumbers ==
    ASSUME NEW m \in Nat, NEW n \in Nat, m <= n, NEW k \in Nat, k <= n - m
    PROVE  /\ SubSeq(Numbers(m, n), k + 1, n - m) = Numbers(m + k, n)
           /\ SubSeq(Numbers(m, n), 1, k) = Numbers(m, m + k)
<1>. DEFINE s == Numbers(m, n)
<1>1. s \in Seq(Nat) /\ Len(s) = n - m /\ \A i \in 1..(n - m) : s[i] = m + i
  BY NumbersAre
<1>. HIDE DEF s
<1>2. /\ SubSeq(s, k + 1, n - m) \in Seq(Nat) /\ Len(SubSeq(s, k + 1, n - m)) = n - (m + k)
      /\ \A i \in 1..(n - (m + k)) : SubSeq(s, k + 1, n - m)[i] = m + k + i
  <2>1. k + 1 \in Nat /\ n - m \in Nat /\ 1 <= k + 1 /\ n - m <= Len(s)
    BY <1>1
  <2>2. /\ SubSeq(s, k + 1, n - m) \in Seq(Nat)
        /\ Len(SubSeq(s, k + 1, n - m)) = IF k + 1 <= n - m THEN n - m - (k + 1) + 1 ELSE 0
        /\ \A i \in 1..(n - m - (k + 1) + 1) : SubSeq(s, k + 1, n - m)[i] = s[k + 1 + i - 1]
    BY <1>1, <2>1, SubSeqIs, ZenonT(30)
  <2>. QED  BY <1>1, <2>2
<1>3. /\ SubSeq(s, 1, k) \in Seq(Nat) /\ Len(SubSeq(s, 1, k)) = (m + k) - m
      /\ \A i \in 1..((m + k) - m) : SubSeq(s, 1, k)[i] = m + i
  <2>1. 1 \in Nat /\ 1 <= 1 /\ k <= Len(s)
    BY <1>1
  <2>2. /\ SubSeq(s, 1, k) \in Seq(Nat)
        /\ Len(SubSeq(s, 1, k)) = IF 1 <= k THEN k - 1 + 1 ELSE 0
        /\ \A i \in 1..(k - 1 + 1) : SubSeq(s, 1, k)[i] = s[1 + i - 1]
    BY <1>1, <2>1, SubSeqIs, Zenon
  <2>. QED  BY <1>1, <2>2
<1>4. m + k \in Nat /\ m <= m + k /\ m + k <= n
  OBVIOUS
<1>5. SubSeq(s, k + 1, n - m) = Numbers(m + k, n)
  BY <1>2, <1>4, SameNumbers, Zenon
<1>6. SubSeq(s, 1, k) = Numbers(m, m + k)
  BY <1>3, <1>4, SameNumbers, Zenon
<1>. QED  BY <1>5, <1>6 DEF s

\* Two adjacent stretches of alerts put together (Send appends to the queue).
LEMMA ConcatNumbers ==
    ASSUME NEW m \in Nat, NEW k \in Nat, NEW n \in Nat, m <= k, k <= n
    PROVE  Numbers(m, k) \o Numbers(k, n) = Numbers(m, n)
<1>. DEFINE s == Numbers(m, k)
            t == Numbers(k, n)
<1>1. /\ s \in Seq(Nat) /\ Len(s) = k - m /\ \A i \in 1..(k - m) : s[i] = m + i
      /\ t \in Seq(Nat) /\ Len(t) = n - k /\ \A i \in 1..(n - k) : t[i] = k + i
  BY NumbersAre, Zenon
<1>. HIDE DEF s, t
<1>2. /\ s \o t \in Seq(Nat) /\ Len(s \o t) = Len(s) + Len(t)
      /\ \A i \in 1..(Len(s) + Len(t)) : (s \o t)[i] = IF i <= Len(s) THEN s[i] ELSE t[i - Len(s)]
  BY <1>1, ConcatIs, Zenon
<1>3. Len(s \o t) = n - m /\ \A i \in 1..(n - m) : (s \o t)[i] = m + i
  <2>1. Len(s) + Len(t) = n - m
    BY <1>1
  <2>2. ASSUME NEW i \in 1..(n - m)
        PROVE  (s \o t)[i] = m + i
    <3>1. (s \o t)[i] = IF i <= k - m THEN s[i] ELSE t[i - (k - m)]
      BY <1>1, <1>2, <2>1, Zenon
    <3>2. CASE i <= k - m
      BY <1>1, <3>1, <3>2
    <3>3. CASE ~(i <= k - m)
      <4>1. i - (k - m) \in 1..(n - k)
        BY <3>3
      <4>. QED  BY <1>1, <3>1, <3>3, <4>1
    <3>. QED  BY <3>2, <3>3, Zenon
  <2>. QED  BY <1>2, <2>1, <2>2
<1>4. m <= n
  OBVIOUS
<1>. QED  BY <1>2, <1>3, <1>4, SameNumbers, Zenon DEF s, t

\* The alerts a stretch consists of.
LEMMA RangeOfNumbers ==
    ASSUME NEW m \in Nat, NEW n \in Nat, m <= n
    PROVE  Range(Numbers(m, n)) = (m + 1)..n
<1>1. DOMAIN Numbers(m, n) = 1..(n - m) /\ \A i \in 1..(n - m) : Numbers(m, n)[i] = m + i
  BY NumbersAre DEF Numbers
<1>2. ASSUME NEW x \in (m + 1)..n
      PROVE  x \in Range(Numbers(m, n))
  <2>1. x - m \in 1..(n - m) /\ m + (x - m) = x
    OBVIOUS
  <2>. QED  BY <1>1, <2>1, Zenon DEF Range
<1>3. ASSUME NEW x \in Range(Numbers(m, n))
      PROVE  x \in (m + 1)..n
  <2>1. PICK i \in 1..(n - m) : x = Numbers(m, n)[i]
    BY <1>1, Zenon DEF Range
  <2>2. x = m + i
    BY <1>1, <2>1, Zenon
  <2>. QED  BY <2>2
<1>. QED  BY <1>2, <1>3, Zenon

\* The newest alerts up to number n are consecutive numbers.
LEMMA NewestAreNumbers ==
    ASSUME NEW q \in Seq(Nat), NEW n \in Nat, Len(q) <= n
    PROVE  [i \in 1..Len(q) |-> n - Len(q) + i] = Numbers(n - Len(q), n)
<1>1. Len(q) \in Nat /\ n - (n - Len(q)) = Len(q)
  OBVIOUS
<1>. QED  BY <1>1, Zenon DEF Numbers

\* Send keeps the newest alerts, and drops none when there is room.
LEMMA EnqueueIs ==
    ASSUME NEW m \in Nat, NEW n \in Nat, NEW k \in Nat, m <= n, n <= k, n - m <= QueueCapacity
    PROVE  \E p \in Nat : /\ m <= p /\ p <= k /\ k - p <= QueueCapacity
                          /\ Enqueue(Numbers(m, n), Numbers(n, k)) = Numbers(p, k)
<1>. DEFINE q == Numbers(m, n)
            alerts == Numbers(n, k)
            ex == Excess(Len(alerts))
            fitting == SubSeq(alerts, ex + 1, Len(alerts))
            full == Excess(Len(q) + Len(fitting))
<1>1. QueueCapacity \in Nat
  BY NotifierAssumption
<1>2. q \in Seq(Nat) /\ Len(q) = n - m /\ alerts \in Seq(Nat) /\ Len(alerts) = k - n
  BY NumbersAre, Zenon
<1>3. ex = IF k - n > QueueCapacity THEN (k - n) - QueueCapacity ELSE 0
  <2>1. k - n \in Nat
    OBVIOUS
  <2>. QED  BY <1>2, <2>1, ExcessIs, Zenon
<1>4. ex \in Nat /\ ex <= k - n /\ n + ex \in Nat /\ n + ex <= k
  BY <1>1, <1>3
<1>5. fitting = Numbers(n + ex, k)
  <2>1. fitting = SubSeq(Numbers(n, k), ex + 1, k - n)
    BY <1>2
  <2>. HIDE DEF ex, fitting
  <2>. QED  BY <1>4, <2>1, SubNumbers
<1>6. Len(fitting) = k - (n + ex)
  BY <1>4, <1>5, NumbersAre, Zenon
<1>. HIDE DEF q, alerts, ex, fitting
<1>7. Len(q) + Len(fitting) = (n - m) + (k - (n + ex)) /\ (n - m) + (k - (n + ex)) \in Nat
  BY <1>2, <1>4, <1>6
<1>8. full = IF (n - m) + (k - (n + ex)) > QueueCapacity THEN ((n - m) + (k - (n + ex))) - QueueCapacity ELSE 0
  BY <1>7, ExcessIs, Zenon
<1>. HIDE DEF full
<1>9. full \in Nat /\ full <= n - m /\ m + full \in Nat /\ m + full <= n
  BY <1>1, <1>3, <1>4, <1>8
<1>10. SubSeq(q, full + 1, Len(q)) = Numbers(m + full, n)
  <2>1. SubSeq(q, full + 1, Len(q)) = SubSeq(Numbers(m, n), full + 1, n - m)
    BY <1>2 DEF q
  <2>2. SubSeq(Numbers(m, n), full + 1, n - m) = Numbers(m + full, n)
    BY <1>9, SubNumbers, ZenonT(60)
  <2>. QED  BY <2>1, <2>2, Zenon
<1>11. Enqueue(q, alerts) = Numbers(m + full, n) \o Numbers(n + ex, k)
  BY <1>5, <1>10, Zenon DEF Enqueue, ex, full, fitting
<1>12. CASE ex = 0
  <2>1. n + ex = n
    BY <1>12
  <2>2. Enqueue(q, alerts) = Numbers(m + full, k)
    <3>1. Numbers(m + full, n) \o Numbers(n, k) = Numbers(m + full, k)
      BY <1>9, ConcatNumbers, Zenon
    <3>. QED  BY <1>11, <2>1, <3>1
  <2>3. m <= m + full /\ m + full <= k /\ k - (m + full) <= QueueCapacity
    BY <1>1, <1>4, <1>8, <1>9, <1>12
  <2>. QED  BY <1>9, <2>2, <2>3, Zenon DEF q, alerts
<1>13. CASE ex # 0
  <2>1. full = n - m /\ k - (n + ex) = QueueCapacity /\ m <= n + ex
    BY <1>1, <1>3, <1>8, <1>13
  <2>2. m + full = n
    BY <2>1
  <2>3. Numbers(n, n) = <<>>
    BY DEF Numbers
  <2>4. Numbers(n + ex, k) \in Seq(Nat)
    BY <1>4, NumbersAre, Zenon
  <2>5. Enqueue(q, alerts) = Numbers(n + ex, k)
    BY <1>11, <2>2, <2>3, <2>4, ConcatEmpty, Zenon
  <2>6. k - (n + ex) <= QueueCapacity
    BY <1>1, <2>1
  <2>. QED  BY <1>4, <2>1, <2>5, <2>6, Zenon DEF q, alerts
<1>. QED  BY <1>12, <1>13, Zenon

-----------------------------------------------------------------------------
\* sync takes every address once.
LEMMA SyncTakesOne ==
    ASSUME NEW tgs \in TargetUpdates
    PROVE  \A p \in DOMAIN Sync(tgs) :
              /\ Sync(tgs)[p] \in AMUrls
              /\ \A q \in DOMAIN Sync(tgs) : Sync(tgs)[p] = Sync(tgs)[q] => p = q
<1>. DEFINE ams == Sync(tgs)
            url(p) == tgs[p[1]][p[2]]
<1>1. /\ DOMAIN ams \subseteq AllAms(tgs)
      /\ \A p \in DOMAIN ams : ams[p] = url(p)
      /\ \A p, q \in DOMAIN ams : Before(q, p) => url(q) # url(p)
  BY Zenon DEF Sync
<1>2. ASSUME NEW p \in AllAms(tgs)
      PROVE  /\ p = <<p[1], p[2]>> /\ p[1] \in DOMAIN tgs /\ p[2] \in DOMAIN tgs[p[1]]
             /\ p[1] \in Int /\ p[2] \in Int /\ url(p) \in AMUrls
  <2>1. PICK g \in DOMAIN tgs : p \in {g} \X AlertmanagerFromGroup(tgs[g])
    BY Zenon DEF AllAms
  <2>2. p = <<p[1], p[2]>> /\ p[1] = g /\ p[2] \in DOMAIN tgs[g]
    BY <2>1 DEF AlertmanagerFromGroup
  <2>3. tgs \in Seq(Seq(AMUrls))
    BY NotifierAssumption, Zenon
  <2>4. g \in Int /\ tgs[g] \in Seq(AMUrls)
    BY <2>3
  <2>5. p[2] \in Int /\ tgs[g][p[2]] \in AMUrls
    BY <2>2, <2>4
  <2>. QED  BY <2>2, <2>4, <2>5, Zenon
<1>. HIDE DEF ams, url
<1>3. ASSUME NEW p \in DOMAIN ams, NEW q \in DOMAIN ams, ams[p] = ams[q]
      PROVE  p = q
  <2>1. ~Before(p, q) /\ ~Before(q, p)
    BY <1>1, <1>3
  <2>2. p[1] = q[1] /\ p[2] = q[2]
    BY <1>1, <1>2, <2>1 DEF Before
  <2>. QED  BY <1>1, <1>2, <2>2
<1>4. \A p \in DOMAIN ams : ams[p] \in AMUrls
  BY <1>1, <1>2
<1>. QED  BY <1>3, <1>4, Zenon DEF ams

\* An address answers at most once, and some address answers every accepted post.
LEMMA AnswersOnce ==
    ASSUME OneOfEach(postTo), NEW accepted \in SUBSET Posts
    PROVE  /\ \A am \in AMSets \X AMUrls : Answers(accepted, am) \in {0, 1}
           /\ accepted = {} => \A am \in AMSets \X AMUrls : Answers(accepted, am) = 0
           /\ accepted # {} => \E am \in AMSets \X AMUrls : Answers(accepted, am) = 1
<1>. DEFINE goal(p) == <<p[1], postTo[p[1]][p[2]]>>
            at(am) == {p \in accepted : goal(p) = am}
<1>1. ASSUME NEW p \in accepted
      PROVE  /\ p = <<p[1], p[2]>> /\ p[1] \in DOMAIN postTo /\ p[2] \in DOMAIN postTo[p[1]]
             /\ p[1] \in AMSets /\ postTo[p[1]][p[2]] \in AMUrls
  <2>1. PICK id \in DOMAIN postTo : p \in {id} \X DOMAIN postTo[id]
    BY Zenon DEF Posts
  <2>2. p = <<p[1], p[2]>> /\ p[1] = id /\ p[2] \in DOMAIN postTo[id]
    BY <2>1
  <2>. QED  BY <2>2, Zenon DEF OneOfEach
<1>2. ASSUME NEW am, NEW p \in at(am), NEW q \in at(am)
      PROVE  p = q
  <2>1. p[1] = q[1] /\ postTo[p[1]][p[2]] = postTo[q[1]][q[2]]
    <3>1. goal(p) = goal(q)
      BY <1>2
    <3>. QED  BY <3>1
  <2>2. p[2] = q[2]
    BY <1>1, <1>2, <2>1, Zenon DEF OneOfEach
  <2>. QED  BY <1>1, <1>2, <2>1, <2>2, Zenon
<1>3. ASSUME NEW am
      PROVE  /\ at(am) = {} => Answers(accepted, am) = 0
             /\ at(am) # {} => Answers(accepted, am) = 1
  <2>1. Answers(accepted, am) = Cardinality(at(am))
    BY Zenon DEF Answers
  <2>. HIDE DEF at
  <2>2. at(am) = {} => Answers(accepted, am) = 0
    BY <2>1, FS_EmptySet, Zenon
  <2>3. ASSUME NEW p \in at(am)
        PROVE  Answers(accepted, am) = 1
    <3>1. at(am) = {p}
      BY <1>2, <2>3
    <3>. QED  BY <2>1, <3>1, FS_Singleton, Zenon
  <2>. QED  BY <2>2, <2>3, Zenon
<1>4. ASSUME NEW p \in accepted
      PROVE  \E am \in AMSets \X AMUrls : Answers(accepted, am) = 1
  <2>1. goal(p) \in AMSets \X AMUrls
    BY <1>1
  <2>2. p \in at(goal(p))
    BY Zenon
  <2>. QED  BY <1>3, <2>1, <2>2, Zenon
<1>. HIDE DEF at
<1>5. accepted = {} => \A am : at(am) = {}
  BY DEF at
<1>. QED  BY <1>3, <1>4, <1>5

\* What the accepted posts of one batch add.
LEMMA RepeatedIs ==
    ASSUME NEW s \in Seq(Nat)
    PROVE  Repeated(s, 0) = <<>> /\ Repeated(s, 1) = s
<1>1. Repeated(s, 0) = <<>>
  BY DEF Repeated
<1>2. Repeated(s, 1) = s
  <2>1. 1 * Len(s) = Len(s) /\ Len(s) \in Nat
    OBVIOUS
  <2>2. ASSUME NEW i \in 1..Len(s)
        PROVE  ((i - 1) % Len(s)) + 1 = i
    <3>1. i - 1 \in 0..(Len(s) - 1) /\ Len(s) \in Nat \ {0}
      BY <2>1
    <3>2. (i - 1) % Len(s) = i - 1
      BY <3>1, SMTT(20)
    <3>. QED  BY <3>2
  <2>3. Repeated(s, 1) = [i \in 1..Len(s) |-> s[i]]
    BY <2>1, <2>2, Zenon DEF Repeated
  <2>. QED  BY <2>3, SMTT(20)
<1>. QED  BY <1>1, <1>2

-----------------------------------------------------------------------------
\* Steps of Run that move no alert.
LEMMA AccountFrame ==
    ASSUME AccountInv, UNCHANGED <<queue, batch, lastAccepted, delivered, dropped>>, InFlight' = InFlight
    PROVE  AccountInv'
<1>1. NotifierType' /\ QueueHoldsNewest' /\ DeliveredInOrder'
  BY DEF AccountInv, NotifierType, QueueHoldsNewest, DeliveredInOrder
<1>2. Taken' = Taken /\ Answered' = Answered
  BY Zenon DEF Taken, Answered
<1>3. BatchInv'
  BY <1>2, Zenon DEF AccountInv, BatchInv
<1>4. CountInv'
  BY <1>2, Zenon DEF AccountInv, CountInv
<1>. QED  BY <1>1, <1>3, <1>4, Zenon DEF AccountInv

\* Only alerts up to b were delivered.
LEMMA AnsweredUpTo ==
    ASSUME NotifierType, NEW b \in Nat,
           \A am \in AMSets \X AMUrls : \A i \in 1..Len(delivered[am]) : delivered[am][i] \in 1..b
    PROVE  Answered \subseteq 1..b /\ IsFiniteSet(Answered) /\ Cardinality(Answered) \in Nat
<1>1. ASSUME NEW x \in Answered
      PROVE  x \in 1..b
  <2>1. PICK am \in AMSets \X AMUrls : x \in Range(delivered[am])
    BY Zenon DEF Answered
  <2>2. delivered[am] \in Seq(Nat)
    BY <2>1, Zenon DEF NotifierType
  <2>3. DOMAIN delivered[am] = 1..Len(delivered[am])
    BY <2>2, PlacesAre, Zenon
  <2>. QED  BY <2>1, <2>3, Zenon DEF Range
<1>2. IsFiniteSet(1..b)
  BY FS_Interval
<1>. QED  BY <1>1, <1>2, FS_Subset, FS_CardinalityType, Zenon

\* Send adds to the queue and counts what it drops.
LEMMA SendInv ==
    ASSUME AccountInv, Send
    PROVE  AccountInv'
<1>. USE DEF AccountInv
<1>1. PICK kept \in Nat :
         /\ kept >= 1
         /\ lastAccepted' = lastAccepted + kept
         /\ queue' = Enqueue(queue, [i \in 1..kept |-> lastAccepted + i])
         /\ dropped' = dropped + Len(queue) + kept - Len(queue')
         /\ UNCHANGED <<notifierPC, batch, delivered>>
  <2>1. PICK n \in 1..MaxOffered : \E k \in 1..n :
           /\ lastAccepted' = lastAccepted + k
           /\ queue' = Enqueue(queue, [i \in 1..k |-> lastAccepted + i])
           /\ dropped' = dropped + Len(queue) + k - Len(queue')
           /\ UNCHANGED <<notifierPC, batch, delivered>>
    BY Zenon DEF Send
  <2>2. n \in Nat
    BY NotifierAssumption
  <2>3. \A k \in 1..n : k \in Nat /\ k >= 1
    BY <2>2
  <2>. QED  BY <2>1, <2>3, Zenon
<1>2. /\ lastAccepted \in Nat /\ Len(queue) \in Nat /\ Taken \in Nat /\ Taken <= lastAccepted /\ dropped \in Nat
      /\ lastAccepted - Taken = Len(queue) /\ lastAccepted + kept \in Nat /\ lastAccepted <= lastAccepted + kept
      /\ (lastAccepted + kept) - lastAccepted = kept
  BY <1>1 DEF NotifierType, Taken
<1>3. Len(queue) <= QueueCapacity /\ queue = Numbers(Taken, lastAccepted)
  BY NewestAreNumbers, Zenon DEF QueueHoldsNewest, NotifierType, Taken
<1>4. [i \in 1..kept |-> lastAccepted + i] = Numbers(lastAccepted, lastAccepted + kept)
  BY <1>2, Zenon DEF Numbers
<1>5. PICK p \in Nat : /\ Taken <= p /\ p <= lastAccepted + kept /\ (lastAccepted + kept) - p <= QueueCapacity
                       /\ queue' = Numbers(p, lastAccepted + kept)
  <2>1. lastAccepted - Taken <= QueueCapacity
    BY <1>2, <1>3, Zenon
  <2>. DEFINE k == lastAccepted + kept
  <2>2. Taken \in Nat /\ lastAccepted \in Nat /\ k \in Nat /\ Taken <= lastAccepted /\ lastAccepted <= k
    BY <1>2, Zenon
  <2>. HIDE DEF k
  <2>3. \E p \in Nat : /\ Taken <= p /\ p <= k /\ k - p <= QueueCapacity
                       /\ Enqueue(Numbers(Taken, lastAccepted), Numbers(lastAccepted, k)) = Numbers(p, k)
    BY <2>1, <2>2, EnqueueIs, ZenonT(60)
  <2>4. queue' = Enqueue(Numbers(Taken, lastAccepted), Numbers(lastAccepted, k))
    BY <1>1, <1>3, <1>4 DEF k
  <2>. QED  BY <2>3, <2>4, Zenon DEF k
<1>6. queue' \in Seq(Nat) /\ Len(queue') = (lastAccepted + kept) - p
  BY <1>2, <1>5, NumbersAre, Zenon
<1>7. NotifierType'
  BY <1>1, <1>2, <1>5, <1>6, SMTT(20) DEF NotifierType
<1>8. Taken' = p
  BY <1>1, <1>2, <1>5, <1>6 DEF Taken
<1>9. QueueHoldsNewest'
  <2>1. Len(queue') <= QueueCapacity /\ queue' = Numbers(p, lastAccepted')
    BY <1>1, <1>5, <1>6
  <2>2. p = lastAccepted' - Len(queue') /\ Len(queue') <= lastAccepted' /\ lastAccepted' \in Nat
    BY <1>1, <1>2, <1>5, <1>6
  <2>. QED  BY <1>6, <2>1, <2>2, NewestAreNumbers, Zenon DEF QueueHoldsNewest
<1>10. InFlight' = InFlight /\ Answered' = Answered
  BY <1>1, Zenon DEF InFlight, Answered
<1>11. BatchInv'
  <2>1. PICK b \in Nat :
        /\ b + Len(InFlight) <= Taken
        /\ InFlight = Numbers(b, b + Len(InFlight))
        /\ \A am \in AMSets \X AMUrls : \A i \in 1..Len(delivered[am]) : delivered[am][i] \in 1..b
    BY DEF BatchInv
  <2>2. Len(InFlight) \in Nat
    BY DEF InFlight, NotifierType
  <2>3. b + Len(InFlight) <= p
    BY <1>2, <1>5, <2>1, <2>2
  <2>. QED  BY <1>1, <1>8, <1>10, <2>1, <2>3, Zenon DEF BatchInv
<1>12. CountInv'
  <2>1. Len(InFlight) \in Nat
    BY DEF InFlight, NotifierType
  <2>2. Cardinality(Answered) \in Nat
    BY AnsweredUpTo, Zenon DEF BatchInv
  <2>3. lastAccepted = Len(queue) + Len(InFlight) + Cardinality(Answered) + dropped
    BY DEF CountInv
  <2>4. lastAccepted' = Len(queue') + Len(InFlight) + Cardinality(Answered) + dropped'
    <3>. DEFINE len == Len(queue)
                left == Len(queue')
                fly == Len(InFlight)
                ans == Cardinality(Answered)
    <3>1. /\ lastAccepted' = lastAccepted + kept /\ dropped' = dropped + len + kept - left
          /\ lastAccepted = len + fly + ans + dropped
      BY <1>1, <2>3, Zenon
    <3>2. lastAccepted \in Nat /\ len \in Nat /\ left \in Nat /\ fly \in Nat /\ ans \in Nat /\ dropped \in Nat
      BY <1>2, <1>6, <2>1, <2>2
    <3>. HIDE DEF len, left, fly, ans
    <3>3. lastAccepted' = left + fly + ans + dropped'
      BY <3>1, <3>2
    <3>. QED  BY <3>3 DEF left, fly, ans
  <2>. QED  BY <1>10, <2>4, Zenon DEF CountInv
<1>13. DeliveredInOrder'
  BY <1>1, Zenon DEF DeliveredInOrder
<1>. QED  BY <1>7, <1>9, <1>11, <1>12, <1>13, Zenon

\* nextBatch takes the oldest of the queue; no other batch is in flight.
LEMMA NextBatchInv ==
    ASSUME AccountInv, NextBatch
    PROVE  AccountInv'
<1>. USE DEF AccountInv
<1>. DEFINE n == BatchLen(queue)
<1>1. /\ InFlight = <<>> /\ InFlight' = batch' /\ batch' = SubSeq(queue, 1, n)
      /\ queue' = SubSeq(queue, n + 1, Len(queue))
      /\ UNCHANGED <<lastAccepted, delivered, dropped>>
  BY Zenon DEF NextBatch, InFlight
<1>2. n \in Nat /\ n <= Len(queue)
  BY BatchLenIs, Zenon DEF NotifierType
<1>. HIDE DEF n
<1>3. /\ lastAccepted \in Nat /\ Len(queue) \in Nat /\ Taken \in Nat /\ Taken <= lastAccepted /\ dropped \in Nat
      /\ lastAccepted - Taken = Len(queue) /\ n <= lastAccepted - Taken
      /\ Taken + n \in Nat /\ Taken + n <= lastAccepted /\ Taken <= Taken + n
  BY <1>2 DEF NotifierType, Taken
<1>4. Len(queue) <= QueueCapacity /\ queue = Numbers(Taken, lastAccepted)
  BY NewestAreNumbers, Zenon DEF QueueHoldsNewest, NotifierType, Taken
<1>5. batch' = Numbers(Taken, Taken + n) /\ queue' = Numbers(Taken + n, lastAccepted)
  <2>1. batch' = SubSeq(Numbers(Taken, lastAccepted), 1, n)
    BY <1>1, <1>4
  <2>2. queue' = SubSeq(Numbers(Taken, lastAccepted), n + 1, lastAccepted - Taken)
    BY <1>1, <1>3, <1>4, Zenon
  <2>3. /\ SubSeq(Numbers(Taken, lastAccepted), 1, n) = Numbers(Taken, Taken + n)
        /\ SubSeq(Numbers(Taken, lastAccepted), n + 1, lastAccepted - Taken) = Numbers(Taken + n, lastAccepted)
    <3>1. Taken \in Nat /\ lastAccepted \in Nat /\ Taken <= lastAccepted /\ n \in Nat /\ n <= lastAccepted - Taken
      BY <1>2, <1>3, Zenon
    <3>. QED  BY <3>1, SubNumbers, ZenonT(60)
  <2>. QED  BY <2>1, <2>2, <2>3, Zenon
<1>6. /\ batch' \in Seq(Nat) /\ Len(batch') = (Taken + n) - Taken
      /\ queue' \in Seq(Nat) /\ Len(queue') = lastAccepted - (Taken + n)
  BY <1>3, <1>5, NumbersAre, Zenon
<1>7. Len(batch') = n /\ Taken' = Taken + n /\ Len(queue') = Len(queue) - n
  <2>1. Taken' = lastAccepted - Len(queue')
    BY <1>1, Zenon DEF Taken
  <2>2. (Taken + n) - Taken = n
    BY <1>2, <1>3
  <2>3. lastAccepted - (Taken + n) = Len(queue) - n /\ lastAccepted - (lastAccepted - (Taken + n)) = Taken + n
    BY <1>2, <1>3
  <2>. QED  BY <1>6, <2>1, <2>2, <2>3, Zenon
<1>8. NotifierType'
  BY <1>1, <1>2, <1>3, <1>6, <1>7 DEF NotifierType
<1>9. QueueHoldsNewest'
  <2>1. Len(queue') <= QueueCapacity /\ queue' = Numbers(Taken + n, lastAccepted')
    <3>1. Len(queue) - n <= QueueCapacity
      BY <1>2, <1>3, <1>4, NotifierAssumption
    <3>. QED  BY <1>1, <1>5, <1>7, <3>1, Zenon
  <2>2. Taken + n = lastAccepted' - Len(queue') /\ Len(queue') <= lastAccepted' /\ lastAccepted' \in Nat
    <3>1. Taken + n = lastAccepted - (Len(queue) - n) /\ Len(queue) - n <= lastAccepted
      BY <1>2, <1>3
    <3>. QED  BY <1>1, <1>3, <1>7, <3>1, Zenon
  <2>. QED  BY <1>6, <2>1, <2>2, NewestAreNumbers, Zenon DEF QueueHoldsNewest
<1>10. BatchInv'
  <2>1. PICK b \in Nat :
        /\ b + Len(InFlight) <= Taken
        /\ \A am \in AMSets \X AMUrls : \A i \in 1..Len(delivered[am]) : delivered[am][i] \in 1..b
    BY DEF BatchInv
  <2>2. b <= Taken
    BY <1>1, <1>3, <2>1
  <2>3. ASSUME NEW am \in AMSets \X AMUrls, NEW i \in 1..Len(delivered'[am])
        PROVE  delivered'[am][i] \in 1..Taken
    <3>1. delivered'[am][i] \in 1..b
      BY <1>1, <2>1
    <3>. QED  BY <1>3, <2>2, <3>1
  <2>4. Taken + Len(InFlight') <= Taken' /\ InFlight' = Numbers(Taken, Taken + Len(InFlight'))
    <3>1. Taken + n <= Taken + n
      BY <1>3
    <3>. QED  BY <1>1, <1>5, <1>7, <3>1, Zenon
  <2>. QED  BY <1>3, <2>3, <2>4, Zenon DEF BatchInv
<1>11. CountInv'
  <2>1. Answered' = Answered
    BY <1>1, Zenon DEF Answered
  <2>2. Cardinality(Answered) \in Nat
    BY AnsweredUpTo, Zenon DEF BatchInv
  <2>. DEFINE ans == Cardinality(Answered)
  <2>3. lastAccepted = Len(queue) + 0 + ans + dropped
    BY <1>1, <1>3, <2>2 DEF CountInv
  <2>. HIDE DEF ans
  <2>4. lastAccepted' = Len(queue') + n + ans + dropped'
    BY <1>1, <1>2, <1>3, <1>7, <2>2, <2>3 DEF ans
  <2>. QED  BY <1>1, <1>7, <2>1, <2>4, Zenon DEF CountInv, ans
<1>12. DeliveredInOrder'
  BY <1>1, Zenon DEF DeliveredInOrder
<1>. QED  BY <1>8, <1>9, <1>10, <1>11, <1>12, Zenon

\* A batch added to what an Alertmanager has keeps the order.
LEMMA AddBatch ==
    ASSUME NEW s \in Seq(Nat), NEW b \in Nat, NEW n \in Nat, \A i \in 1..Len(s) : s[i] \in 1..b,
           \A i, j \in 1..Len(s) : i < j => s[i] < s[j]
    PROVE  /\ s \o Numbers(b, b + n) \in Seq(Nat)
           /\ \A i \in 1..Len(s \o Numbers(b, b + n)) : (s \o Numbers(b, b + n))[i] \in 1..(b + n)
           /\ \A i, j \in 1..Len(s \o Numbers(b, b + n)) :
                 i < j => (s \o Numbers(b, b + n))[i] < (s \o Numbers(b, b + n))[j]
           /\ Range(s \o Numbers(b, b + n)) = Range(s) \cup (b + 1)..(b + n)
<1>. DEFINE t == Numbers(b, b + n)
            u == s \o t
            len == Len(s)
<1>1. b + n \in Nat /\ b <= b + n /\ (b + n) - b = n
  OBVIOUS
<1>2. t \in Seq(Nat) /\ Len(t) = n /\ \A i \in 1..n : t[i] = b + i
  BY <1>1, NumbersAre, Zenon
<1>3. Range(t) = (b + 1)..(b + n)
  BY <1>1, RangeOfNumbers, Zenon
<1>. HIDE DEF t
<1>4. /\ u \in Seq(Nat) /\ Len(u) = Len(s) + Len(t)
      /\ \A i \in 1..(Len(s) + Len(t)) : u[i] = IF i <= Len(s) THEN s[i] ELSE t[i - Len(s)]
  BY <1>2, ConcatIs, Zenon
<1>5. len \in Nat /\ Len(u) = len + n
  BY <1>2, <1>4
<1>6. \A i \in 1..len : u[i] = s[i]
  BY <1>2, <1>4
<1>7. ASSUME NEW i \in (len + 1)..(len + n)
      PROVE  u[i] = b + (i - len)
  <2>1. i \in 1..(Len(s) + Len(t)) /\ ~(i <= Len(s)) /\ i - len \in 1..n
    BY <1>2, <1>5
  <2>2. u[i] = t[i - len]
    BY <1>4, <2>1, Zenon
  <2>. QED  BY <1>2, <2>1, <2>2
<1>8. DOMAIN u = 1..(len + n) /\ DOMAIN s = 1..len /\ DOMAIN t = 1..n
  BY <1>2, <1>4, <1>5, PlacesAre
<1>. HIDE DEF u, len
<1>9. ASSUME NEW i \in 1..(len + n)
      PROVE  i \in 1..len \/ i \in (len + 1)..(len + n)
  BY <1>5
<1>10. ASSUME NEW i \in 1..(len + n)
       PROVE  u[i] \in 1..(b + n)
  <2>1. CASE i \in 1..len
    BY <1>5, <1>6, <2>1 DEF len
  <2>2. CASE i \in (len + 1)..(len + n)
    BY <1>5, <1>7, <2>2
  <2>. QED  BY <1>9, <2>1, <2>2
<1>11. ASSUME NEW i \in 1..(len + n), NEW j \in 1..(len + n), i < j
       PROVE  u[i] < u[j]
  <2>1. CASE j \in 1..len
    <3>1. i \in 1..len
      BY <1>5, <1>11, <2>1
    <3>. QED  BY <1>6, <1>11, <2>1, <3>1 DEF len
  <2>2. CASE i \in 1..len /\ j \in (len + 1)..(len + n)
    <3>1. u[i] \in 1..b /\ u[j] = b + (j - len)
      BY <1>6, <1>7, <2>2 DEF len
    <3>. QED  BY <1>5, <2>2, <3>1
  <2>3. CASE i \in (len + 1)..(len + n) /\ j \in (len + 1)..(len + n)
    <3>1. u[i] = b + (i - len) /\ u[j] = b + (j - len)
      BY <1>7, <2>3
    <3>. QED  BY <1>5, <1>11, <3>1
  <2>. QED  BY <1>9, <2>1, <2>2, <2>3
<1>12. Range(u) = Range(s) \cup Range(t)
  <2>1. ASSUME NEW x \in Range(u) PROVE x \in Range(s) \cup Range(t)
    <3>1. PICK i \in 1..(len + n) : x = u[i]
      BY <1>8, Zenon DEF Range
    <3>2. CASE i \in 1..len
      BY <1>6, <1>8, <3>1, <3>2, Zenon DEF Range
    <3>3. CASE i \in (len + 1)..(len + n)
      <4>1. i - len \in 1..n /\ x = t[i - len]
        BY <1>2, <1>5, <1>7, <3>1, <3>3
      <4>. QED  BY <1>8, <4>1, Zenon DEF Range
    <3>. QED  BY <1>9, <3>2, <3>3, Zenon
  <2>2. ASSUME NEW x \in Range(s) PROVE x \in Range(u)
    <3>1. PICK i \in 1..len : x = s[i]
      BY <1>8, Zenon DEF Range
    <3>2. i \in 1..(len + n)
      BY <1>5
    <3>. QED  BY <1>6, <1>8, <3>1, <3>2, Zenon DEF Range
  <2>3. ASSUME NEW x \in Range(t) PROVE x \in Range(u)
    <3>1. PICK i \in 1..n : x = t[i]
      BY <1>8, Zenon DEF Range
    <3>2. len + i \in (len + 1)..(len + n) /\ len + i \in 1..(len + n) /\ b + ((len + i) - len) = b + i
      BY <1>5
    <3>3. u[len + i] = x
      BY <1>2, <1>7, <3>1, <3>2
    <3>. QED  BY <1>8, <3>2, <3>3, Zenon DEF Range
  <2>. QED  BY <2>1, <2>2, <2>3, Zenon
<1>. QED  BY <1>3, <1>4, <1>5, <1>10, <1>11, <1>12 DEF u, t

\* sendAll delivers the batch to those that accept it, or counts it.
LEMMA SendAllEndInv ==
    ASSUME AccountInv, OneOfEach(postTo), SendAllEnd
    PROVE  AccountInv'
<1>. USE DEF AccountInv
<1>. DEFINE n == Len(batch)
<1>1. PICK accepted \in SUBSET Posts :
         /\ delivered' = [am \in AMSets \X AMUrls |->
                delivered[am] \o Repeated(batch, Answers(accepted, am))]
         /\ dropped' = IF accepted = {} THEN dropped + n ELSE dropped
  BY Zenon DEF SendAllEnd
<1>2. InFlight = batch /\ InFlight' = <<>> /\ UNCHANGED <<queue, batch, lastAccepted>>
  BY Zenon DEF SendAllEnd, InFlight
<1>3. /\ batch \in Seq(Nat) /\ n \in Nat /\ dropped \in Nat /\ lastAccepted \in Nat /\ Taken \in Nat
      /\ Len(queue) \in Nat /\ \A am \in AMSets \X AMUrls : delivered[am] \in Seq(Nat)
  BY DEF NotifierType, Taken
<1>. HIDE DEF n
<1>4. PICK b \in Nat :
        /\ b + n <= Taken
        /\ batch = Numbers(b, b + n)
        /\ \A am \in AMSets \X AMUrls : \A i \in 1..Len(delivered[am]) : delivered[am][i] \in 1..b
  BY <1>2, Zenon DEF BatchInv, n
<1>5. ASSUME NEW am \in AMSets \X AMUrls
      PROVE  /\ Answers(accepted, am) = 0 => delivered'[am] = delivered[am]
             /\ Answers(accepted, am) = 1 => delivered'[am] = delivered[am] \o batch
  <2>1. delivered'[am] = delivered[am] \o Repeated(batch, Answers(accepted, am))
    BY <1>1, Zenon
  <2>2. delivered[am] \o <<>> = delivered[am]
    BY <1>3, ConcatEmpty, Zenon
  <2>3. Repeated(batch, 0) = <<>> /\ Repeated(batch, 1) = batch
    BY <1>3, RepeatedIs, Zenon
  <2>. QED  BY <2>1, <2>2, <2>3, Zenon
<1>6. ASSUME NEW am \in AMSets \X AMUrls
      PROVE  /\ delivered'[am] \in Seq(Nat)
             /\ \A i \in 1..Len(delivered'[am]) : delivered'[am][i] \in 1..(b + n)
             /\ \A i, j \in 1..Len(delivered'[am]) : i < j => delivered'[am][i] < delivered'[am][j]
             /\ Answers(accepted, am) = 0 => Range(delivered'[am]) = Range(delivered[am])
             /\ Answers(accepted, am) = 1 => Range(delivered'[am]) = Range(delivered[am]) \cup (b + 1)..(b + n)
  <2>1. /\ delivered[am] \in Seq(Nat)
        /\ \A i \in 1..Len(delivered[am]) : delivered[am][i] \in 1..b
        /\ \A i, j \in 1..Len(delivered[am]) : i < j => delivered[am][i] < delivered[am][j]
    BY <1>3, <1>4, Zenon DEF DeliveredInOrder
  <2>2. CASE Answers(accepted, am) = 0
    <3>1. delivered'[am] = delivered[am]
      BY <1>5, <2>2, Zenon
    <3>2. \A i \in 1..Len(delivered[am]) : delivered[am][i] \in 1..(b + n)
      BY <1>3, <2>1
    <3>3. Answers(accepted, am) # 1
      BY <2>2
    <3>. QED  BY <2>1, <3>1, <3>2, <3>3, Zenon
  <2>3. CASE Answers(accepted, am) = 1
    <3>1. delivered'[am] = delivered[am] \o Numbers(b, b + n)
      BY <1>4, <1>5, <2>3, Zenon
    <3>2. Answers(accepted, am) # 0
      BY <2>3
    <3>3. /\ delivered[am] \o Numbers(b, b + n) \in Seq(Nat)
          /\ \A i \in 1..Len(delivered[am] \o Numbers(b, b + n)) :
                (delivered[am] \o Numbers(b, b + n))[i] \in 1..(b + n)
          /\ \A i, j \in 1..Len(delivered[am] \o Numbers(b, b + n)) :
                i < j => (delivered[am] \o Numbers(b, b + n))[i] < (delivered[am] \o Numbers(b, b + n))[j]
          /\ Range(delivered[am] \o Numbers(b, b + n)) = Range(delivered[am]) \cup (b + 1)..(b + n)
      <4>1. n \in Nat
        BY <1>3
      <4>. QED  BY <2>1, <4>1, AddBatch, Zenon
    <3>. QED  BY <3>1, <3>2, <3>3, Zenon
  <2>4. Answers(accepted, am) \in {0, 1}
    BY AnswersOnce, Zenon
  <2>. QED  BY <2>2, <2>3, <2>4, Zenon
<1>7. NotifierType'
  <2>1. delivered' \in [AMSets \X AMUrls -> Seq(Nat)]
    BY <1>1, <1>6
  <2>2. dropped' \in Nat
    BY <1>1, <1>3
  <2>. QED  BY <1>2, <2>1, <2>2, Zenon DEF NotifierType
<1>8. QueueHoldsNewest' /\ Taken' = Taken
  BY <1>2, Zenon DEF QueueHoldsNewest, Taken
<1>9. BatchInv'
  <2>1. Len(<<>>) = 0 /\ b + n \in Nat /\ (b + n) + 0 <= Taken /\ (b + n) + 0 = b + n
    BY <1>3, <1>4
  <2>2. Numbers(b + n, b + n) = <<>>
    BY <1>3 DEF Numbers
  <2>. QED  BY <1>2, <1>6, <1>8, <2>1, <2>2, ZenonT(60) DEF BatchInv
<1>10. CountInv'
  <2>1. Answered \subseteq 1..b /\ IsFiniteSet(Answered) /\ Cardinality(Answered) \in Nat
    BY <1>4, AnsweredUpTo, Zenon
  <2>2. lastAccepted = Len(queue) + n + Cardinality(Answered) + dropped
    BY <1>2, Zenon DEF CountInv, n
  <2>3. CASE accepted = {}
    <3>1. delivered' = delivered
      <4>1. \A am \in AMSets \X AMUrls : delivered'[am] = delivered[am]
        BY <1>5, <2>3, AnswersOnce, Zenon
      <4>2. /\ delivered \in [AMSets \X AMUrls -> Seq(Nat)]
            /\ delivered' \in [AMSets \X AMUrls -> Seq(Nat)]
        BY <1>7, Zenon DEF NotifierType
      <4>. QED  BY <4>1, <4>2
    <3>2. Answered' = Answered
      BY <3>1, Zenon DEF Answered
    <3>. DEFINE ans == Cardinality(Answered)
                len == Len(queue)
    <3>3. dropped' = dropped + n /\ lastAccepted = len + n + ans + dropped /\ ans \in Nat /\ len \in Nat
      BY <1>1, <1>3, <2>1, <2>2, <2>3, Zenon
    <3>. HIDE DEF ans, len
    <3>4. lastAccepted = len + 0 + ans + dropped'
      BY <1>3, <3>3
    <3>5. Len(<<>>) = 0
      OBVIOUS
    <3>. QED  BY <1>2, <3>2, <3>4, <3>5, Zenon DEF CountInv, ans, len
  <2>4. CASE accepted # {}
    <3>1. PICK to \in AMSets \X AMUrls : Answers(accepted, to) = 1
      BY <2>4, AnswersOnce, Zenon
    <3>2. Answered' = Answered \cup (b + 1)..(b + n)
      <4>1. ASSUME NEW x \in Answered' PROVE x \in Answered \cup (b + 1)..(b + n)
        <5>1. PICK am \in AMSets \X AMUrls : x \in Range(delivered'[am])
          BY Zenon DEF Answered
        <5>2. Answers(accepted, am) \in {0, 1}
          BY AnswersOnce, Zenon
        <5>3. x \in Range(delivered[am]) \/ x \in (b + 1)..(b + n)
          BY <1>6, <5>1, <5>2, Zenon
        <5>. QED  BY <5>3, Zenon DEF Answered
      <4>2. ASSUME NEW x \in Answered PROVE x \in Answered'
        <5>1. PICK am \in AMSets \X AMUrls : x \in Range(delivered[am])
          BY Zenon DEF Answered
        <5>2. Answers(accepted, am) \in {0, 1}
          BY AnswersOnce, Zenon
        <5>3. x \in Range(delivered'[am])
          BY <1>6, <5>1, <5>2, Zenon
        <5>. QED  BY <5>3, Zenon DEF Answered
      <4>3. (b + 1)..(b + n) \subseteq Range(delivered'[to])
        BY <1>6, <3>1, Zenon
      <4>4. (b + 1)..(b + n) \subseteq Answered'
        BY <4>3, Zenon DEF Answered
      <4>. QED  BY <4>1, <4>2, <4>4, Zenon
    <3>3. IsFiniteSet((b + 1)..(b + n)) /\ Cardinality((b + 1)..(b + n)) = n
      <4>1. b + 1 \in Int /\ b + n \in Int /\ (IF b + 1 > b + n THEN 0 ELSE (b + n) - (b + 1) + 1) = n
        BY <1>3
      <4>. QED  BY <4>1, FS_Interval, Zenon
    <3>4. Answered \cap (b + 1)..(b + n) = {}
      BY <1>3, <2>1
    <3>5. Cardinality(Answered') = Cardinality(Answered) + n - Cardinality({})
      BY <2>1, <3>2, <3>3, <3>4, FS_Union, Zenon
    <3>6. Cardinality(Answered') = Cardinality(Answered) + n
      BY <1>3, <2>1, <3>5, FS_EmptySet
    <3>. DEFINE ans == Cardinality(Answered)
                ans2 == Cardinality(Answered')
                len == Len(queue)
    <3>7. /\ dropped' = dropped /\ lastAccepted = len + n + ans + dropped /\ ans \in Nat /\ len \in Nat
          /\ ans2 = ans + n
      BY <1>1, <1>3, <2>1, <2>2, <2>4, <3>6, Zenon
    <3>. HIDE DEF ans, len, ans2
    <3>8. lastAccepted = len + 0 + ans2 + dropped'
      BY <1>3, <3>7
    <3>9. Len(<<>>) = 0
      OBVIOUS
    <3>. QED  BY <1>2, <3>8, <3>9, Zenon DEF CountInv, ans2, len
  <2>. QED  BY <2>3, <2>4, Zenon
<1>11. DeliveredInOrder'
  BY <1>6, Zenon DEF DeliveredInOrder
<1>. QED  BY <1>7, <1>8, <1>9, <1>10, <1>11, Zenon

-----------------------------------------------------------------------------
\* Every step of NotifierNext preserves the invariant.
LEMMA NotifierStep ==
    ASSUME NotifierInv, [NotifierNext]_notifierVars
    PROVE  NotifierInv'
<1>. USE DEF NotifierInv
<1>1. CASE Send
  BY <1>1, SendInv, Zenon DEF Send
<1>2. CASE ApplyAlertingConfig
  <2>1. AccountInv'
    BY <1>2, AccountFrame, Zenon DEF ApplyAlertingConfig, InFlight
  <2>2. OneOfEach(alertmanagers')
    BY <1>2 DEF ApplyAlertingConfig, OneOfEach
  <2>. QED  BY <1>2, <2>1, <2>2, Zenon DEF ApplyAlertingConfig
<1>3. CASE Reload
  <2>1. AccountInv'
    BY <1>3, AccountFrame, Zenon DEF Reload, InFlight
  <2>2. OneOfEach(alertmanagers')
    <3>1. PICK ids \in SUBSET AMSets : \E tgs \in [ids -> TargetUpdates] :
             alertmanagers' = [id \in DOMAIN alertmanagers |->
                IF id \in ids THEN Sync(tgs[id]) ELSE alertmanagers[id]]
      BY <1>3, Zenon DEF Reload
    <3>2. PICK tgs \in [ids -> TargetUpdates] :
             alertmanagers' = [id \in DOMAIN alertmanagers |->
                IF id \in ids THEN Sync(tgs[id]) ELSE alertmanagers[id]]
      BY <3>1, Zenon
    <3>3. ASSUME NEW id \in DOMAIN alertmanagers
          PROVE  \A p \in DOMAIN alertmanagers'[id] :
                    /\ alertmanagers'[id][p] \in AMUrls
                    /\ \A q \in DOMAIN alertmanagers'[id] : alertmanagers'[id][p] = alertmanagers'[id][q] => p = q
      <4>1. CASE id \in ids
        <5>1. tgs[id] \in TargetUpdates /\ alertmanagers'[id] = Sync(tgs[id])
          BY <3>2, <4>1, Zenon
        <5>. QED  BY <5>1, SyncTakesOne, Zenon
      <4>2. CASE id \notin ids
        <5>1. alertmanagers'[id] = alertmanagers[id]
          BY <3>2, <4>2, Zenon
        <5>. QED  BY <5>1, Zenon DEF OneOfEach
      <4>. QED  BY <4>1, <4>2, Zenon
    <3>4. DOMAIN alertmanagers' = DOMAIN alertmanagers
      BY <3>2, Zenon
    <3>. QED  BY <3>3, <3>4, Zenon DEF OneOfEach
  <2>. QED  BY <1>3, <2>1, <2>2, Zenon DEF Reload
<1>4. CASE NextBatch
  BY <1>4, NextBatchInv, Zenon DEF NextBatch
<1>5. CASE SendAllStart
  <2>1. AccountInv'
    BY <1>5, AccountFrame, Zenon DEF SendAllStart, InFlight
  <2>. QED  BY <1>5, <2>1, Zenon DEF SendAllStart
<1>6. CASE SendAllEnd
  BY <1>6, SendAllEndInv, Zenon DEF SendAllEnd
<1>7. CASE TakeMore \/ CheckQueue \/ RunReturns \/ StopNotifier \/ UNCHANGED notifierVars
  <2>1. /\ UNCHANGED <<queue, batch, lastAccepted, delivered, dropped>> /\ InFlight' = InFlight
        /\ UNCHANGED <<alertmanagers, postTo>>
    BY <1>7, Zenon DEF TakeMore, CheckQueue, RunReturns, StopNotifier, notifierVars, InFlight
  <2>. QED  BY <2>1, AccountFrame, Zenon
<1>. QED  BY <1>1, <1>2, <1>3, <1>4, <1>5, <1>6, <1>7, Zenon DEF NotifierNext, RunStep

\* No alert that Send accepts gets lost uncounted, out of order or doubled: the
\* queue holds the newest, every alert is queued, in flight, delivered or counted
\* as dropped, and every Alertmanager gets alerts in order and once, however Send,
\* Run, ApplyConfig, target updates and Stop interleave.
THEOREM NoAlertIsLost == NotifierSpec => []AlertsAreAccounted
<1>1. NotifierInit => NotifierInv
  <2>. SUFFICES ASSUME NotifierInit PROVE NotifierInv
    OBVIOUS
  <2>1. OneOfEach(alertmanagers) /\ OneOfEach(postTo)
    BY DEF NotifierInit, OneOfEach
  <2>2. NotifierType /\ QueueHoldsNewest /\ DeliveredInOrder
    BY NotifierAssumption DEF NotifierInit, NotifierType, QueueHoldsNewest, DeliveredInOrder
  <2>3. BatchInv
    <3>1. InFlight = <<>> /\ Taken = 0 /\ Numbers(0, 0) = <<>>
      <4>1. InFlight = <<>>
        BY Zenon DEF NotifierInit, InFlight
      <4>2. Taken = 0
        <5>1. queue = <<>> /\ lastAccepted = 0
          BY Zenon DEF NotifierInit
        <5>2. Len(queue) = 0
          BY <5>1
        <5>3. 0 - 0 = 0
          OBVIOUS
        <5>. QED  BY <5>1, <5>2, <5>3, Zenon DEF Taken
      <4>3. Numbers(0, 0) = <<>>
        BY DEF Numbers
      <4>. QED  BY <4>1, <4>2, <4>3, Zenon
    <3>2. \A am \in AMSets \X AMUrls : Len(delivered[am]) = 0
      BY DEF NotifierInit
    <3>. QED  BY <3>1, <3>2 DEF BatchInv
  <2>4. Answered = {}
    BY DEF NotifierInit, Answered, Range
  <2>5. CountInv
    BY <2>4, FS_EmptySet DEF NotifierInit, CountInv, InFlight
  <2>. QED  BY <2>1, <2>2, <2>3, <2>5 DEF NotifierInv, AccountInv
<1>2. NotifierInv => AlertsAreAccounted
  <2>. SUFFICES ASSUME NotifierInv PROVE DropsAreCounted
    BY DEF NotifierInv, AccountInv, AlertsAreAccounted
  <2>1. PICK b \in Nat :
          /\ b + Len(InFlight) <= Taken
          /\ InFlight = Numbers(b, b + Len(InFlight))
          /\ \A am \in AMSets \X AMUrls : \A i \in 1..Len(delivered[am]) : delivered[am][i] \in 1..b
    BY Zenon DEF NotifierInv, AccountInv, BatchInv
  <2>. DEFINE n == Len(InFlight)
  <2>2. n \in Nat
    BY DEF NotifierInv, AccountInv, NotifierType, InFlight
  <2>3. Answered \subseteq 1..b
    BY <2>1, AnsweredUpTo, Zenon DEF NotifierInv, AccountInv
  <2>4. Range(InFlight) = (b + 1)..(b + n)
    <3>1. b + n \in Nat /\ b <= b + n
      BY <2>2
    <3>. QED  BY <2>1, <3>1, RangeOfNumbers
  <2>. HIDE DEF n
  <2>5. Answered \ Range(InFlight) = Answered
    BY <2>2, <2>3, <2>4
  <2>6. CountInv
    BY Zenon DEF NotifierInv, AccountInv
  <2>. QED  BY <2>5, <2>6, Zenon DEF CountInv, DropsAreCounted, Answered
<1>. QED  BY <1>1, <1>2, NotifierStep, PTL DEF NotifierSpec

-----------------------------------------------------------------------------
(* The groups of rules *)

GroupPcs == {"new", "blocked", "wait", "idle", "eval", "cleanup", "term"}
GroupRecs ==
  [rules : Seq(DOMAIN RuleSeries), prev : Seq(SUBSET RuleSeriesAll), stale : SUBSET RuleSeriesAll,
   pc : GroupPcs, from : Nat, done : BOOLEAN, markStale : BOOLEAN, ts : Nat, rule : Nat]

GroupsType ==
  /\ instances \in Seq(GroupRecs)
  /\ lastSample \in [RuleSeriesAll -> [t : Nat, live : BOOLEAN]]
  /\ clock \in Nat /\ givenUp \subseteq RuleSeriesAll
  /\ stopping \in BOOLEAN /\ managerDone \in BOOLEAN

\* The series a group remembers.
Has(g, s) == s \in g.stale \/ \E i \in 1..Len(g.prev) : s \in g.prev[i]

\* No sample lies ahead of the clock.
ClockInv ==
  /\ \A s \in RuleSeriesAll : lastSample[s].t <= clock
  /\ \A n \in 1..Len(instances) : instances[n].ts <= clock

\* Every rule of a group has its series, until they are handed to the cleanup of
\* a removed group; a new group has none yet.
Shaped(g) ==
  /\ g.pc \notin Terminated \/ ~g.markStale => Len(g.prev) = Len(g.rules)
  /\ g.pc = "cleanup" => g.prev = <<>>
  /\ g.pc = "eval" => g.rule >= 1
  /\ g.pc = "new" => ~\E s : Has(g, s)
ShapeInv == \A n \in 1..Len(instances) : Shaped(instances[n])

\* The groups of the newest configuration.
Current == IF update = NoUpdate THEN groups ELSE update
CurrentInv ==
  /\ \A k \in DOMAIN Current : /\ Current[k] \in 1..Len(instances)
                               /\ ~instances[Current[k]].markStale
  /\ \A k, l \in DOMAIN Current : Current[k] = Current[l] => k = l

\* A new group belongs to the Update in progress and waits for a group that has
\* been replaced, not removed.
Heir(m, n) == m \in 1..Len(instances) /\ instances[m].pc = "new" /\ instances[m].from = n
NewInv ==
  \A m \in 1..Len(instances) : instances[m].pc = "new" =>
    /\ m \in Range(update)
    /\ instances[m].from # 0 =>
         /\ instances[m].from \in 1..Len(instances)
         /\ ~instances[instances[m].from].markStale

\* A group is told to end when it has been evaluated, and it has an heir or is
\* to mark its series.
DoneInv ==
  ~stopping /\ ~managerDone =>
    \A n \in 1..Len(instances) : instances[n].done =>
      /\ instances[n].pc \notin {"new", "blocked", "wait"}
      /\ instances[n].pc \in Terminated \/ instances[n].markStale \/ \E m : Heir(m, n)

GroupsInv == GroupsType /\ ClockInv /\ ShapeInv /\ CurrentInv /\ NewInv /\ DoneInv

\* Group n remembers series s, will mark it, and will do so with a newer time.
Newer(g, t, s) ==
  /\ g.pc = "eval" => t < g.ts \/ (t = g.ts /\ \E i \in 1..Len(g.prev) : i < g.rule /\ s \in g.prev[i])
  /\ g.pc = "cleanup" => t < g.ts
Holds(n, s) ==
  /\ n \in 1..Len(instances)
  /\ Has(instances[n], s) /\ Newer(instances[n], lastSample[s].t, s)
  /\ instances[n].pc # "term" \/ \E m : Heir(m, n)
HoldInv ==
  ~stopping /\ ~managerDone =>
    \A s \in RuleSeriesAll : lastSample[s].live => s \in givenUp \/ \E n : Holds(n, s)

-------------------------------------------------------------------------------
\* A group is put in its place.
LEMMA SetGroupIs ==
  ASSUME NEW n \in 1..Len(instances), NEW g \in GroupRecs, instances \in Seq(GroupRecs), SetGroup(n, g)
  PROVE  /\ instances' \in Seq(GroupRecs) /\ Len(instances') = Len(instances)
         /\ instances'[n] = g
         /\ \A m \in 1..Len(instances) : m # n => instances'[m] = instances[m]
<1>1. instances' = [instances EXCEPT ![n] = g]
  BY Zenon DEF SetGroup
<1> HIDE DEF GroupRecs
<1> QED
  BY <1>1

\* A group is a record of its fields.
LEMMA GroupFields ==
  ASSUME NEW g \in GroupRecs
  PROVE  /\ g.rules \in Seq(DOMAIN RuleSeries) /\ g.prev \in Seq(SUBSET RuleSeriesAll)
         /\ g.stale \in SUBSET RuleSeriesAll /\ g.pc \in GroupPcs /\ g.from \in Nat
         /\ g.done \in BOOLEAN /\ g.markStale \in BOOLEAN /\ g.ts \in Nat /\ g.rule \in Nat
  BY Zenon DEF GroupRecs

-------------------------------------------------------------------------------
(* CopyState *)

\* The positions of a rule up to a place, and one place further.
LEMMA PositionsGrow ==
  ASSUME NEW R, NEW rules \in Seq(R), NEW r, NEW n \in 0..Len(rules)
  PROVE  /\ IsFiniteSet(Positions(rules, r, n)) /\ Cardinality(Positions(rules, r, n)) \in Nat
         /\ \A m \in 0..n : Cardinality(Positions(rules, r, m)) <= Cardinality(Positions(rules, r, n))
         /\ n > 0 => Cardinality(Positions(rules, r, n)) =
                       IF rules[n] = r THEN Cardinality(Positions(rules, r, n - 1)) + 1
                       ELSE Cardinality(Positions(rules, r, n - 1))
         /\ n = 0 => Cardinality(Positions(rules, r, n)) = 0
<1>1. n \in Nat /\ 1 \in Int /\ n \in Int
  OBVIOUS
<1>2. \A m \in 0..n : Positions(rules, r, m) \in SUBSET (1..m) /\ m \in Int
  BY DEF Positions
<1>3. \A m \in 0..n : IsFiniteSet(Positions(rules, r, m)) /\ Cardinality(Positions(rules, r, m)) \in Nat
  BY <1>1, <1>2, FS_Interval, FS_Subset, FS_CardinalityType, Zenon
<1>4. n \in 0..n
  BY <1>1
<1>5. \A m \in 0..n : Cardinality(Positions(rules, r, m)) <= Cardinality(Positions(rules, r, n))
  <2> TAKE m \in 0..n
  <2>1. Positions(rules, r, m) \in SUBSET Positions(rules, r, n)
    BY DEF Positions
  <2> QED
    BY <1>3, <1>4, <2>1, FS_Subset, Zenon
<1>6. ASSUME n > 0
      PROVE  Cardinality(Positions(rules, r, n)) =
               IF rules[n] = r THEN Cardinality(Positions(rules, r, n - 1)) + 1
               ELSE Cardinality(Positions(rules, r, n - 1))
  <2>1. n - 1 \in 0..n
    BY <1>6
  <2>2. CASE rules[n] = r
    <3>1. Positions(rules, r, n) = Positions(rules, r, n - 1) \cup {n} /\ n \notin Positions(rules, r, n - 1)
      BY <1>6, <2>2 DEF Positions
    <3> QED
      BY <1>3, <2>1, <2>2, <3>1, FS_AddElement, ZenonT(30)
  <2>3. CASE rules[n] # r
    <3>1. Positions(rules, r, n) = Positions(rules, r, n - 1)
      BY <1>6, <2>3 DEF Positions
    <3> QED
      BY <2>3, <3>1, Zenon
  <2> QED
    BY <2>2, <2>3
<1>7. n = 0 => Positions(rules, r, n) = {}
  BY DEF Positions
<1> QED
  BY <1>3, <1>4, <1>5, <1>6, <1>7, FS_EmptySet, Zenon

\* The n-th place of a rule, if it has that many, ...
LEMMA NthOccurrence ==
  ASSUME NEW rules \in Seq(DOMAIN RuleSeries), NEW r, NEW n \in Nat, n >= 1,
         n <= Cardinality(Positions(rules, r, Len(rules)))
  PROVE  \E i \in 1..Len(rules) : rules[i] = r /\ Cardinality(Positions(rules, r, i)) = n
<1> DEFINE count(i) == Cardinality(Positions(rules, r, i))
           T == {i \in 0..Len(rules) : count(i) >= n}
<1>1. Len(rules) \in Nat /\ Len(rules) \in 0..Len(rules) /\ T \subseteq Nat
  OBVIOUS
<1>2. T # {}
  <2>1. count(Len(rules)) >= n
    <3>1. count(Len(rules)) \in Nat
      BY <1>1, PositionsGrow, Zenon
    <3> QED
      BY <3>1
  <2> QED
    BY <1>1, <2>1, Zenon
<1>3. PICK i \in T : \A j \in T : ~(<<j, i>> \in OpToRel(<, Nat))
  BY <1>1, <1>2, NatLessThanWellFounded, WFMin, Zenon
<1>4. \A j \in T : ~(j < i)
  BY <1>1, <1>3, Zenon DEF OpToRel
<1>5. i \in 0..Len(rules) /\ count(i) >= n /\ i \in Nat
  BY <1>1, <1>3, Zenon
<1>6. /\ count(i) \in Nat /\ (i = 0 => count(i) = 0)
      /\ (i > 0 => count(i) = IF rules[i] = r THEN count(i - 1) + 1 ELSE count(i - 1))
  BY <1>5, PositionsGrow, ZenonT(30)
<1> HIDE DEF count
<1>7. i > 0 /\ i - 1 \in 0..Len(rules) /\ i \in 1..Len(rules) /\ i - 1 < i
  BY <1>1, <1>5, <1>6
<1>8. count(i - 1) \in Nat
  BY <1>7, PositionsGrow, Zenon DEF count
<1>9. ~(count(i - 1) >= n)
  BY <1>4, <1>7, Zenon
<1>10. rules[i] = r /\ count(i) = n
  BY <1>5, <1>6, <1>7, <1>8, <1>9
<1> QED
  BY <1>7, <1>10, Zenon DEF count

\* ... is one place only.
LEMMA OneOccurrence ==
  ASSUME NEW R, NEW rules \in Seq(R), NEW i \in 1..Len(rules), NEW j \in 1..Len(rules),
         rules[i] = rules[j], Occurrence(rules, i) = Occurrence(rules, j)
  PROVE  i = j
<1>1. ASSUME NEW a \in 1..Len(rules), NEW b \in 1..Len(rules), rules[a] = rules[b], a < b,
             Occurrence(rules, a) = Occurrence(rules, b)
      PROVE  FALSE
  <2> DEFINE count(m) == Cardinality(Positions(rules, rules[b], m))
  <2>1. b \in 0..Len(rules) /\ b > 0 /\ b - 1 \in 0..Len(rules) /\ a \in 0..(b - 1)
    BY <1>1
  <2>2. count(b) = count(b - 1) + 1
    BY <2>1, PositionsGrow, Zenon
  <2>3. count(a) <= count(b - 1) /\ count(b - 1) \in Nat
    BY <2>1, PositionsGrow, Zenon
  <2>4. count(a) \in Nat
    <3>1. a \in 0..Len(rules)
      OBVIOUS
    <3> QED
      BY <3>1, PositionsGrow, Zenon
  <2>5. count(a) = count(b)
    BY <1>1, Zenon DEF Occurrence
  <2> HIDE DEF count
  <2> QED
    BY <2>2, <2>3, <2>4, <2>5
<1>2. i < j \/ i = j \/ j < i
  OBVIOUS
<1> QED
  BY <1>1, <1>2, Zenon

\* No series of the old group is forgotten: every old rule passes its series to
\* the rule it is matched with or leaves them among the stale ones.
LEMMA CopyStateKeeps ==
  ASSUME NEW g \in GroupRecs, NEW from \in GroupRecs, Len(from.prev) = Len(from.rules)
  PROVE  /\ CopyState(g, from) \in GroupRecs
         /\ CopyState(g, from).rules = g.rules /\ Len(CopyState(g, from).prev) = Len(g.rules)
         /\ CopyState(g, from).pc = g.pc /\ CopyState(g, from).from = g.from
         /\ CopyState(g, from).done = g.done /\ CopyState(g, from).markStale = g.markStale
         /\ CopyState(g, from).ts = g.ts /\ CopyState(g, from).rule = g.rule
         /\ \A s : Has(from, s) => Has(CopyState(g, from), s)
<1> DEFINE prev  == [i \in 1..Len(g.rules) |->
                       IF MatchOf(g, from, i) = 0 THEN {} ELSE from.prev[MatchOf(g, from, i)]]
           stale == from.stale \cup UNION {from.prev[j] : j \in Unmatched(g, from)}
           same(i) == {j \in 1..Len(from.rules) :
                         /\ from.rules[j] = g.rules[i]
                         /\ Occurrence(from.rules, j) = Occurrence(g.rules, i)}
<1>1. CopyState(g, from) = [g EXCEPT !.prev = prev, !.stale = stale]
  BY Zenon DEF CopyState
<1>2. /\ g.rules \in Seq(DOMAIN RuleSeries) /\ from.rules \in Seq(DOMAIN RuleSeries)
      /\ from.prev \in Seq(SUBSET RuleSeriesAll) /\ from.stale \in SUBSET RuleSeriesAll
      /\ Len(g.rules) \in Nat /\ Len(from.rules) \in Nat
  BY GroupFields
<1>3. \A i \in 1..Len(g.rules) : /\ same(i) = {} => MatchOf(g, from, i) = 0
                                 /\ same(i) # {} => MatchOf(g, from, i) \in same(i)
  BY Zenon DEF MatchOf
<1>4. \A j \in 1..Len(from.rules) : from.prev[j] \in SUBSET RuleSeriesAll
  BY <1>2
<1>5. \A i \in 1..Len(g.rules) : prev[i] \in SUBSET RuleSeriesAll
  BY <1>3, <1>4, Zenon
<1>6. prev \in Seq(SUBSET RuleSeriesAll) /\ Len(prev) = Len(g.rules)
  <2>1. prev = [i \in 1..Len(g.rules) |-> prev[i]]
    BY Zenon
  <2> HIDE DEF prev
  <2> QED
    BY <1>2, <1>5, <2>1
<1>7. stale \in SUBSET RuleSeriesAll
  BY <1>2, <1>4, Zenon DEF Unmatched
<1>8. ASSUME NEW j \in 1..Len(from.rules), j \notin Unmatched(g, from)
      PROVE  \E i \in 1..Len(g.rules) : prev[i] = from.prev[j]
  <2> DEFINE r == from.rules[j]
             n == Occurrence(from.rules, j)
             all == Cardinality(Positions(from.rules, r, Len(from.rules)))
             mine == Cardinality(Positions(g.rules, r, Len(g.rules)))
  <2>1. n \in Nat /\ n >= 1 /\ n <= all /\ all \in Nat /\ mine \in Nat
    <3>1. j \in 0..Len(from.rules) /\ j > 0 /\ j - 1 \in 0..Len(from.rules)
          /\ Len(from.rules) \in 0..Len(from.rules) /\ Len(g.rules) \in 0..Len(g.rules)
      BY <1>2
    <3>2. /\ n \in Nat /\ n = Cardinality(Positions(from.rules, r, j - 1)) + 1
          /\ Cardinality(Positions(from.rules, r, j - 1)) \in Nat
      BY <1>2, <3>1, PositionsGrow, Zenon DEF Occurrence
    <3>3. n <= all /\ all \in Nat
      BY <1>2, <3>1, PositionsGrow, Zenon DEF Occurrence
    <3>4. mine \in Nat
      BY <1>2, <3>1, PositionsGrow, Zenon
    <3> HIDE DEF n
    <3>5. n >= 1
      BY <3>2
    <3> QED
      BY <3>2, <3>3, <3>4, <3>5
  <2>2. ~(all > mine)
    BY <1>8, Zenon DEF Unmatched
  <2> HIDE DEF all, mine, n
  <2>3. n <= Cardinality(Positions(g.rules, r, Len(g.rules)))
    <3>1. n <= mine
      BY <2>1, <2>2
    <3> QED
      BY <3>1, Zenon DEF mine
  <2> HIDE DEF r
  <2>4. PICK i \in 1..Len(g.rules) : g.rules[i] = r /\ Cardinality(Positions(g.rules, r, i)) = n
    <3>1. g.rules \in Seq(DOMAIN RuleSeries) /\ n \in Nat /\ n >= 1
      BY <1>2, <2>1, Zenon
    <3> QED
      BY <2>3, <3>1, NthOccurrence, ZenonT(30)
  <2>5. j \in same(i)
    BY <2>4, Zenon DEF n, r, Occurrence
  <2>6. \A l \in same(i) : l = j
    BY <1>2, <2>5, OneOccurrence, Zenon
  <2>7. MatchOf(g, from, i) = j
    BY <1>3, <2>5, <2>6, Zenon
  <2>8. j # 0
    OBVIOUS
  <2> QED
    BY <2>7, <2>8, Zenon
<1>9. ASSUME NEW s, Has(from, s)
      PROVE  s \in stale \/ \E i \in 1..Len(g.rules) : s \in prev[i]
  <2>1. CASE s \in from.stale
    BY <2>1, Zenon
  <2>2. ASSUME NEW j \in 1..Len(from.prev), s \in from.prev[j]
        PROVE  s \in stale \/ \E i \in 1..Len(g.rules) : s \in prev[i]
    <3>1. j \in 1..Len(from.rules)
      BY <2>2, Zenon
    <3>2. CASE j \in Unmatched(g, from)
      BY <2>2, <3>2, Zenon
    <3>3. CASE j \notin Unmatched(g, from)
      BY <1>8, <2>2, <3>1, <3>3, Zenon
    <3> QED
      BY <3>2, <3>3, Zenon
  <2> QED
    BY <1>9, <2>1, <2>2, Zenon DEF Has
<1> HIDE DEF prev, stale, same
<1>10. /\ CopyState(g, from) \in GroupRecs
       /\ CopyState(g, from).prev = prev /\ CopyState(g, from).stale = stale
       /\ CopyState(g, from).rules = g.rules
       /\ CopyState(g, from).pc = g.pc /\ CopyState(g, from).from = g.from
       /\ CopyState(g, from).done = g.done /\ CopyState(g, from).markStale = g.markStale
       /\ CopyState(g, from).ts = g.ts /\ CopyState(g, from).rule = g.rule
  BY <1>1, <1>6, <1>7, Zenon DEF GroupRecs
<1>11. \A s : Has(from, s) => Has(CopyState(g, from), s)
  BY <1>6, <1>9, <1>10, Zenon DEF Has
<1> QED
  BY <1>6, <1>10, <1>11, Zenon

-------------------------------------------------------------------------------
(* Steps of one group *)

\* What group n becomes, in a step of its goroutine.
Becomes(n, h) ==
  LET g == instances[n] IN
  /\ SetGroup(n, h) /\ UNCHANGED <<groups, update, managerDone, stopping>>
  /\ h \in GroupRecs /\ Shaped(h) /\ h.pc # "new"
  /\ h.done = g.done /\ h.markStale = g.markStale
  /\ h.pc \in {"blocked", "wait"} => g.pc \in {"new", "blocked", "wait"}
  /\ h.pc \notin Terminated => g.pc \notin Terminated
  /\ g.pc = "new" /\ g.from # 0 => instances[g.from].pc \in Terminated
  /\ lastSample' \in [RuleSeriesAll -> [t : Nat, live : BOOLEAN]] /\ clock' \in Nat
  /\ givenUp' \subseteq RuleSeriesAll /\ givenUp \subseteq givenUp'
  /\ clock' >= clock /\ h.ts <= clock' /\ \A s \in RuleSeriesAll : lastSample'[s].t <= clock'

\* A step of one group keeps GroupsInv when the group becomes one of the kind above.
LEMMA GroupStepKeeps ==
  ASSUME GroupsInv, NEW n \in 1..Len(instances), NEW h, Becomes(n, h)
  PROVE  /\ GroupsInv'
         /\ Len(instances') = Len(instances) /\ instances'[n] = h
         /\ \A m \in 1..Len(instances) : m # n => instances'[m] = instances[m]
         /\ \A m, p : Heir(m, p) /\ m # n => Heir(m, p)'
<1> DEFINE g == instances[n]
<1>1. instances \in Seq(GroupRecs) /\ h \in GroupRecs /\ SetGroup(n, h)
  BY Zenon DEF GroupsInv, GroupsType, Becomes
<1>2. /\ instances' \in Seq(GroupRecs) /\ Len(instances') = Len(instances) /\ instances'[n] = h
      /\ \A m \in 1..Len(instances) : m # n => instances'[m] = instances[m]
  BY <1>1, SetGroupIs, Zenon
<1>3. /\ UNCHANGED <<groups, update, managerDone, stopping>>
      /\ h.pc # "new" /\ h.done = g.done /\ h.markStale = g.markStale
      /\ h.pc \in {"blocked", "wait"} => g.pc \in {"new", "blocked", "wait"}
      /\ h.pc \notin Terminated => g.pc \notin Terminated
      /\ g.pc = "new" /\ g.from # 0 => instances[g.from].pc \in Terminated
  BY Zenon DEF Becomes
<1>4. \A m \in 1..Len(instances) : instances'[m].markStale = instances[m].markStale
  BY <1>2, <1>3, Zenon
<1>5. \A m, p : Heir(m, p) /\ m # n => Heir(m, p)'
  BY <1>2, Zenon DEF Heir
<1>6. GroupsType'
  BY <1>2, <1>3, Zenon DEF GroupsInv, GroupsType, Becomes
<1>7. ClockInv'
  <2>1. \A m \in 1..Len(instances) : instances[m].ts \in Nat /\ instances[m].ts <= clock
    BY <1>1, GroupFields DEF GroupsInv, ClockInv
  <2>2. clock \in Nat /\ clock' \in Nat /\ clock' >= clock /\ h.ts <= clock'
    BY Zenon DEF GroupsInv, GroupsType, Becomes
  <2>3. \A m \in 1..Len(instances) : instances[m].ts <= clock'
    BY <2>1, <2>2
  <2>4. \A m \in 1..Len(instances) : instances'[m].ts <= clock'
    BY <1>2, <2>2, <2>3, Zenon
  <2>5. \A s \in RuleSeriesAll : lastSample'[s].t <= clock'
    BY Zenon DEF Becomes
  <2> QED
    BY <1>2, <2>4, <2>5, Zenon DEF ClockInv
<1>8. ShapeInv'
  <2>1. Shaped(h)
    BY Zenon DEF Becomes
  <2>2. \A m \in 1..Len(instances) : Shaped(instances'[m])
    BY <1>2, <2>1, Zenon DEF GroupsInv, ShapeInv
  <2> QED
    BY <1>2, <2>2, Zenon DEF ShapeInv
<1>9. CurrentInv'
  <2>1. Current' = Current
    BY <1>3, Zenon DEF Current
  <2> QED
    BY <1>2, <1>4, <2>1, Zenon DEF GroupsInv, CurrentInv
<1>10. NewInv'
  <2> SUFFICES ASSUME NEW m \in 1..Len(instances), instances'[m].pc = "new"
               PROVE  /\ m \in Range(update')
                      /\ instances'[m].from # 0 =>
                           /\ instances'[m].from \in 1..Len(instances)
                           /\ ~instances'[instances'[m].from].markStale
    BY <1>2, Zenon DEF NewInv
  <2>1. instances'[m] = instances[m]
    BY <1>2, <1>3, Zenon
  <2> QED
    BY <1>3, <1>4, <2>1, Zenon DEF GroupsInv, NewInv
<1>11. DoneInv'
  <2> SUFFICES ASSUME ~stopping, ~managerDone, NEW m \in 1..Len(instances), instances'[m].done
               PROVE  /\ instances'[m].pc \notin {"new", "blocked", "wait"}
                      /\ \/ instances'[m].pc \in Terminated \/ instances'[m].markStale
                         \/ \E p : Heir(p, m)'
    BY <1>2, <1>3, Zenon DEF DoneInv
  <2>1. instances[m].done
    BY <1>2, <1>3, Zenon
  <2>2. /\ instances[m].pc \notin {"new", "blocked", "wait"}
        /\ instances[m].pc \in Terminated \/ instances[m].markStale \/ \E p : Heir(p, m)
    BY <2>1, Zenon DEF GroupsInv, DoneInv
  <2>3. instances'[m].pc \notin {"new", "blocked", "wait"}
    BY <1>2, <1>3, <2>2, Zenon
  <2>4. instances[m].pc \in Terminated => instances'[m].pc \in Terminated
    BY <1>2, <1>3, Zenon
  <2>5. ASSUME NEW p, Heir(p, m)
        PROVE  Heir(p, m)' \/ instances'[m].pc \in Terminated
    <3>1. CASE p # n
      BY <1>5, <2>5, <3>1, Zenon
    <3>2. CASE p = n
      <4>1. g.pc = "new" /\ g.from = m
        BY <2>5, <3>2, Zenon DEF Heir
      <4>2. m # 0
        OBVIOUS
      <4>3. instances[m].pc \in Terminated
        BY <1>3, <4>1, <4>2, Zenon
      <4> QED
        BY <2>4, <4>3, Zenon
    <3> QED
      BY <3>1, <3>2
  <2> QED
    BY <1>4, <2>2, <2>3, <2>4, <2>5, Zenon
<1> QED
  BY <1>2, <1>5, <1>6, <1>7, <1>8, <1>9, <1>10, <1>11, Zenon DEF GroupsInv

\* A step after which group n remembers what it did, but for what has got a
\* marker, or has been given up.
LEMMA GroupStepHolds ==
  ASSUME GroupsInv, HoldInv, NEW n \in 1..Len(instances), NEW h, Becomes(n, h),
         instances[n].pc # "new",
         ~stopping' /\ ~managerDone' => \A s \in RuleSeriesAll : lastSample'[s].live =>
           \/ s \in givenUp'
           \/ Has(h, s) /\ Newer(h, lastSample'[s].t, s) /\ h.pc # "term"
           \/ /\ lastSample'[s] = lastSample[s]
              /\ Has(instances[n], s) /\ Newer(instances[n], lastSample[s].t, s) =>
                   /\ Has(h, s) /\ Newer(h, lastSample[s].t, s)
                   /\ h.pc # "term" \/ \E m : Heir(m, n)
  PROVE  HoldInv'
<1>1. /\ Len(instances') = Len(instances) /\ instances'[n] = h
      /\ \A m \in 1..Len(instances) : m # n => instances'[m] = instances[m]
      /\ \A m, p : Heir(m, p) /\ m # n => Heir(m, p)'
  BY GroupStepKeeps, Zenon
<1>2. /\ UNCHANGED <<managerDone, stopping>> /\ givenUp \subseteq givenUp'
  BY Zenon DEF Becomes
<1>3. \A p : (\E m : Heir(m, p)) => \E m : Heir(m, p)'
  BY <1>1, Zenon DEF Heir
<1> SUFFICES ASSUME ~stopping, ~managerDone, NEW s \in RuleSeriesAll, lastSample'[s].live
             PROVE  s \in givenUp' \/ \E m : Holds(m, s)'
  BY <1>2, Zenon DEF HoldInv
<1>4. CASE Has(h, s) /\ Newer(h, lastSample'[s].t, s) /\ h.pc # "term"
  BY <1>1, <1>4, Zenon DEF Holds
<1>5. CASE /\ lastSample'[s] = lastSample[s]
           /\ Has(instances[n], s) /\ Newer(instances[n], lastSample[s].t, s) =>
                /\ Has(h, s) /\ Newer(h, lastSample[s].t, s)
                /\ h.pc # "term" \/ \E m : Heir(m, n)
  <2>1. s \in givenUp \/ \E m : Holds(m, s)
    BY <1>5, Zenon DEF HoldInv
  <2>2. ASSUME NEW m, Holds(m, s)
        PROVE  Holds(m, s)'
    <3>1. CASE m = n
      BY <1>1, <1>3, <1>5, <2>2, <3>1, Zenon DEF Holds
    <3>2. CASE m # n
      BY <1>1, <1>3, <1>5, <2>2, <3>2, Zenon DEF Holds
    <3> QED
      BY <3>1, <3>2
  <2> QED
    BY <1>2, <2>1, <2>2, Zenon
<1> QED
  BY <1>2, <1>4, <1>5, Zenon

\* What GroupsInv says of one group.
LEMMA GroupIs ==
  ASSUME GroupsInv, NEW n \in 1..Len(instances)
  PROVE  /\ instances[n] \in GroupRecs /\ Shaped(instances[n])
         /\ clock \in Nat /\ instances[n].ts \in Nat /\ instances[n].ts <= clock
         /\ lastSample \in [RuleSeriesAll -> [t : Nat, live : BOOLEAN]]
         /\ \A s \in RuleSeriesAll : lastSample[s].t \in Nat /\ lastSample[s].t <= clock
<1>1. instances \in Seq(GroupRecs) /\ clock \in Nat
      /\ lastSample \in [RuleSeriesAll -> [t : Nat, live : BOOLEAN]]
  BY Zenon DEF GroupsInv, GroupsType
<1>2. instances[n] \in GroupRecs
  <2> HIDE DEF GroupRecs
  <2> QED
    BY <1>1
<1>3. \A s \in RuleSeriesAll : lastSample[s].t \in Nat
  BY <1>1
<1> QED
  BY <1>1, <1>2, <1>3, GroupFields, Zenon DEF GroupsInv, ClockInv, ShapeInv

\* Storage as it was suits any later clock.
LEMMA SamplesStay ==
  ASSUME GroupsInv, clock' \in Nat, clock' >= clock, UNCHANGED <<lastSample, givenUp>>
  PROVE  /\ lastSample' \in [RuleSeriesAll -> [t : Nat, live : BOOLEAN]]
         /\ givenUp' \subseteq RuleSeriesAll /\ givenUp \subseteq givenUp'
         /\ \A s \in RuleSeriesAll : lastSample'[s].t <= clock'
<1>1. lastSample \in [RuleSeriesAll -> [t : Nat, live : BOOLEAN]] /\ clock \in Nat
      /\ givenUp \subseteq RuleSeriesAll
  BY Zenon DEF GroupsInv, GroupsType
<1>2. \A s \in RuleSeriesAll : lastSample[s].t \in Nat /\ lastSample[s].t <= clock
  BY <1>1 DEF GroupsInv, ClockInv
<1>3. \A s \in RuleSeriesAll : lastSample[s].t <= clock'
  BY <1>1, <1>2
<1> QED
  BY <1>1, <1>3, Zenon

\* The wait for start and for the slot, and a slot that has come.
LEMMA RunGroupKeeps ==
  ASSUME GroupsInv, HoldInv, NEW n \in 1..Len(instances), RunGroup(n) \/ EvalAborted(n)
  PROVE  GroupsInv' /\ HoldInv'
<1> DEFINE g == instances[n]
           pc == IF g.pc = "blocked" THEN "wait" ELSE "idle"
           h == [g EXCEPT !.pc = pc]
<1>1. /\ g.pc \in {"blocked", "eval"} /\ SetGroup(n, h)
      /\ UNCHANGED <<groups, update, managerDone, stopping, lastSample, clock, givenUp>>
  BY Zenon DEF RunGroup, EvalAborted
<1>2. g \in GroupRecs /\ Shaped(g) /\ clock \in Nat /\ g.ts \in Nat /\ g.ts <= clock
  BY GroupIs, Zenon
<1>3. /\ h \in GroupRecs /\ h.pc = pc /\ h.stale = g.stale /\ h.prev = g.prev /\ h.rules = g.rules
      /\ h.done = g.done /\ h.markStale = g.markStale /\ h.ts = g.ts
  BY <1>2, Zenon DEF GroupRecs, GroupPcs
<1>4. clock' \in Nat /\ clock' >= clock
  BY <1>1, <1>2
<1>5. /\ lastSample' \in [RuleSeriesAll -> [t : Nat, live : BOOLEAN]]
      /\ givenUp' \subseteq RuleSeriesAll /\ givenUp \subseteq givenUp'
      /\ \A s \in RuleSeriesAll : lastSample'[s].t <= clock'
  BY <1>1, <1>4, SamplesStay, Zenon
<1> HIDE DEF h
<1>6. Shaped(h)
  BY <1>1, <1>2, <1>3, Zenon DEF Shaped, Terminated
<1>7. Becomes(n, h)
  BY <1>1, <1>2, <1>3, <1>4, <1>5, <1>6, Zenon DEF Becomes, Terminated
<1>8. \A s \in RuleSeriesAll : Has(g, s) => Has(h, s) /\ Newer(h, lastSample[s].t, s) /\ h.pc # "term"
  BY <1>3, Zenon DEF Has, Newer
<1>9. HoldInv'
  BY <1>1, <1>7, <1>8, GroupStepHolds, Zenon
<1> QED
  BY <1>7, <1>9, GroupStepKeeps, Zenon

\* The slot of a group has come (Group.run).
LEMMA EvalStartKeeps ==
  ASSUME GroupsInv, HoldInv, NEW n \in 1..Len(instances), EvalStart(n)
  PROVE  GroupsInv' /\ HoldInv'
<1> DEFINE g == instances[n]
           h == [g EXCEPT !.pc = "eval", !.ts = clock + 1, !.rule = 1]
<1>1. /\ g.pc \in {"wait", "idle"} /\ SetGroup(n, h) /\ clock' = clock + 1
      /\ UNCHANGED <<groups, update, managerDone, stopping, lastSample, givenUp>>
  BY Zenon DEF EvalStart
<1>2. /\ g \in GroupRecs /\ Shaped(g) /\ clock \in Nat
      /\ \A s \in RuleSeriesAll : lastSample[s].t \in Nat /\ lastSample[s].t <= clock
  BY GroupIs, Zenon
<1>3. clock' \in Nat /\ clock' >= clock /\ clock + 1 \in Nat /\ 1 \in Nat /\ 1 >= 1 /\ clock + 1 <= clock'
      /\ \A s \in RuleSeriesAll : lastSample[s].t < clock + 1
  BY <1>1, <1>2
<1>4. /\ h \in GroupRecs /\ h.pc = "eval" /\ h.stale = g.stale /\ h.prev = g.prev /\ h.rules = g.rules
      /\ h.done = g.done /\ h.markStale = g.markStale /\ h.ts = clock + 1 /\ h.rule = 1
  BY <1>2, <1>3, Zenon DEF GroupRecs, GroupPcs
<1>5. /\ lastSample' \in [RuleSeriesAll -> [t : Nat, live : BOOLEAN]]
      /\ givenUp' \subseteq RuleSeriesAll /\ givenUp \subseteq givenUp'
      /\ \A s \in RuleSeriesAll : lastSample'[s].t <= clock'
  BY <1>1, <1>3, SamplesStay, Zenon
<1> HIDE DEF h
<1>6. Shaped(h)
  BY <1>1, <1>2, <1>3, <1>4, Zenon DEF Shaped, Terminated
<1>7. Becomes(n, h)
  BY <1>1, <1>3, <1>4, <1>5, <1>6, Zenon DEF Becomes, Terminated
<1>8. \A s \in RuleSeriesAll : Has(g, s) => Has(h, s) /\ Newer(h, lastSample[s].t, s) /\ h.pc # "term"
  BY <1>3, <1>4, Zenon DEF Has, Newer
<1>9. HoldInv'
  BY <1>1, <1>7, <1>8, GroupStepHolds, Zenon
<1> QED
  BY <1>7, <1>9, GroupStepKeeps, Zenon

\* run returns: the group remembers its series for the cleanup, or has an heir.
LEMMA RunGroupEndsKeeps ==
  ASSUME GroupsInv, HoldInv, NEW n \in 1..Len(instances), RunGroupEnds(n)
  PROVE  GroupsInv' /\ HoldInv'
<1> DEFINE g == instances[n]
           c == [g EXCEPT !.pc = "cleanup", !.ts = clock + 1,
                          !.stale = @ \cup UNION Range(g.prev), !.prev = <<>>]
           e == [g EXCEPT !.pc = "term"]
<1>1. /\ g.pc \in {"wait", "idle"} /\ g.done /\ clock' = clock + 1
      /\ SetGroup(n, IF g.pc = "idle" /\ g.markStale THEN c ELSE e)
      /\ UNCHANGED <<groups, update, managerDone, stopping, lastSample, givenUp>>
  BY Zenon DEF RunGroupEnds
<1>2. /\ g \in GroupRecs /\ Shaped(g) /\ clock \in Nat /\ g.ts \in Nat /\ g.ts <= clock
      /\ \A s \in RuleSeriesAll : lastSample[s].t \in Nat /\ lastSample[s].t <= clock
  BY GroupIs, Zenon
<1>3. clock' \in Nat /\ clock' >= clock /\ clock + 1 \in Nat /\ clock + 1 <= clock' /\ g.ts <= clock'
      /\ \A s \in RuleSeriesAll : lastSample[s].t < clock + 1
  BY <1>1, <1>2
<1>4. /\ lastSample' \in [RuleSeriesAll -> [t : Nat, live : BOOLEAN]]
      /\ givenUp' \subseteq RuleSeriesAll /\ givenUp \subseteq givenUp'
      /\ \A s \in RuleSeriesAll : lastSample'[s].t <= clock'
  BY <1>1, <1>3, SamplesStay, Zenon
<1>5. CASE g.pc = "idle" /\ g.markStale
  <2>1. g.prev \in Seq(SUBSET RuleSeriesAll) /\ DOMAIN g.prev = 1..Len(g.prev)
    BY <1>2, GroupFields
  <2>2. Range(g.prev) \subseteq SUBSET RuleSeriesAll
    BY <2>1 DEF Range
  <2>3. UNION Range(g.prev) \in SUBSET RuleSeriesAll
    BY <2>2, Zenon
  <2>4. <<>> \in Seq(SUBSET RuleSeriesAll)
    OBVIOUS
  <2>5. g.stale \cup UNION Range(g.prev) \in SUBSET RuleSeriesAll
    BY <1>2, <2>3, GroupFields, Zenon
  <2>6. /\ c \in GroupRecs /\ c.pc = "cleanup" /\ c.stale = g.stale \cup UNION Range(g.prev) /\ c.prev = <<>>
        /\ c.done = g.done /\ c.markStale = g.markStale /\ c.ts = clock + 1
    BY <1>2, <1>3, <2>4, <2>5, Zenon DEF GroupRecs, GroupPcs
  <2>7. SetGroup(n, c)
    BY <1>1, <1>5, Zenon
  <2> HIDE DEF c
  <2>8. Shaped(c)
    BY <1>5, <2>6, Zenon DEF Shaped, Terminated
  <2>9. Becomes(n, c)
    BY <1>1, <1>3, <1>4, <2>6, <2>7, <2>8, Zenon DEF Becomes, Terminated
  <2>10. \A s : Has(g, s) => s \in c.stale
    BY <2>1, <2>6, Zenon DEF Has, Range
  <2>11. \A s \in RuleSeriesAll : Has(g, s) => Has(c, s) /\ Newer(c, lastSample[s].t, s) /\ c.pc # "term"
    BY <1>3, <2>6, <2>10, Zenon DEF Has, Newer
  <2>12. HoldInv'
    BY <1>1, <2>9, <2>11, GroupStepHolds, Zenon
  <2> QED
    BY <2>9, <2>12, GroupStepKeeps, Zenon
<1>6. CASE ~(g.pc = "idle" /\ g.markStale)
  <2>1. /\ e \in GroupRecs /\ e.pc = "term" /\ e.stale = g.stale /\ e.prev = g.prev /\ e.rules = g.rules
        /\ e.done = g.done /\ e.markStale = g.markStale /\ e.ts = g.ts
    BY <1>2, Zenon DEF GroupRecs, GroupPcs
  <2>2. SetGroup(n, e)
    BY <1>1, <1>6, Zenon
  <2> HIDE DEF e
  <2>3. Shaped(e)
    BY <1>1, <1>2, <2>1, Zenon DEF Shaped, Terminated
  <2>4. Becomes(n, e)
    BY <1>1, <1>3, <1>4, <2>1, <2>2, <2>3, Zenon DEF Becomes, Terminated
  <2>5. ~stopping /\ ~managerDone => \E m : Heir(m, n)
    BY <1>1, <1>6, Zenon DEF GroupsInv, DoneInv, Terminated
  <2>6. \A s \in RuleSeriesAll : Has(g, s) => Has(e, s) /\ Newer(e, lastSample[s].t, s)
    BY <2>1, Zenon DEF Has, Newer
  <2>7. HoldInv'
    BY <1>1, <2>4, <2>5, <2>6, GroupStepHolds, Zenon
  <2> QED
    BY <2>4, <2>7, GroupStepKeeps, Zenon
<1> QED
  BY <1>5, <1>6

\* A rule whose query or commit fails.
LEMMA EvalRuleFails ==
  ASSUME GroupsInv, HoldInv, NEW n \in 1..Len(instances), instances[n].pc = "eval",
         SetGroup(n, [instances[n] EXCEPT !.rule = @ + 1]),
         UNCHANGED <<groups, update, managerDone, stopping, lastSample, clock, givenUp>>
  PROVE  GroupsInv' /\ HoldInv'
<1> DEFINE g == instances[n]
           h == [g EXCEPT !.rule = @ + 1]
<1>1. /\ g \in GroupRecs /\ Shaped(g) /\ clock \in Nat /\ g.ts \in Nat /\ g.ts <= clock
      /\ \A s \in RuleSeriesAll : lastSample[s].t \in Nat /\ lastSample[s].t <= clock
  BY GroupIs, Zenon
<1>2. g.rule \in Nat /\ g.prev \in Seq(SUBSET RuleSeriesAll)
  BY <1>1, GroupFields, Zenon
<1>3. clock' \in Nat /\ clock' >= clock /\ g.rule + 1 \in Nat /\ g.rule + 1 >= 1
      /\ \A i \in 1..Len(g.prev) : i < g.rule => i < g.rule + 1
  BY <1>1, <1>2
<1>4. /\ h \in GroupRecs /\ h.pc = "eval" /\ h.stale = g.stale /\ h.prev = g.prev /\ h.rules = g.rules
      /\ h.done = g.done /\ h.markStale = g.markStale /\ h.ts = g.ts /\ h.rule = g.rule + 1
  BY <1>1, <1>3, Zenon DEF GroupRecs, GroupPcs
<1>5. /\ lastSample' \in [RuleSeriesAll -> [t : Nat, live : BOOLEAN]]
      /\ givenUp' \subseteq RuleSeriesAll /\ givenUp \subseteq givenUp'
      /\ \A s \in RuleSeriesAll : lastSample'[s].t <= clock'
  BY <1>3, SamplesStay, Zenon
<1>6. SetGroup(n, h)
  BY Zenon
<1> HIDE DEF h
<1>7. Shaped(h)
  BY <1>1, <1>3, <1>4, Zenon DEF Shaped, Terminated
<1>8. Becomes(n, h)
  BY <1>1, <1>3, <1>4, <1>5, <1>6, <1>7, Zenon DEF Becomes, Terminated
<1>9. \A s \in RuleSeriesAll : Has(g, s) /\ Newer(g, lastSample[s].t, s) =>
        Has(h, s) /\ Newer(h, lastSample[s].t, s) /\ h.pc # "term"
  BY <1>3, <1>4, Zenon DEF Has, Newer
<1>10. HoldInv'
  BY <1>8, <1>9, GroupStepHolds, Zenon
<1> QED
  BY <1>8, <1>10, GroupStepKeeps, Zenon

\* A rule that is evaluated: what it returns is remembered, what it no longer
\* returns gets a marker unless an earlier rule of the group has written it.
LEMMA EvalRuleSucceeds ==
  ASSUME GroupsInv, HoldInv, NEW n \in 1..Len(instances), instances[n].pc = "eval",
         instances[n].rule <= Len(instances[n].rules), NEW res \in SUBSET RuleSeriesAll,
         lastSample' = Store(Store(lastSample, res, instances[n].ts, TRUE),
                             instances[n].prev[instances[n].rule]
                               \ Accepted(lastSample, res, instances[n].ts), instances[n].ts, FALSE),
         SetGroup(n, [instances[n] EXCEPT !.rule = @ + 1,
                        !.prev[instances[n].rule] = Accepted(lastSample, res, instances[n].ts)]),
         UNCHANGED <<groups, update, managerDone, stopping, clock, givenUp>>
  PROVE  GroupsInv' /\ HoldInv'
<1> DEFINE g == instances[n]
           returned == Accepted(lastSample, res, g.ts)
           gone == g.prev[g.rule] \ returned
           p == [g.prev EXCEPT ![g.rule] = returned]
           h == [g EXCEPT !.rule = @ + 1, !.prev[g.rule] = returned]
<1>1. /\ g \in GroupRecs /\ Shaped(g) /\ clock \in Nat /\ g.ts \in Nat /\ g.ts <= clock
      /\ lastSample \in [RuleSeriesAll -> [t : Nat, live : BOOLEAN]]
      /\ \A s \in RuleSeriesAll : lastSample[s].t \in Nat /\ lastSample[s].t <= clock
  BY GroupIs, Zenon
<1>2. /\ g.rule \in Nat /\ g.prev \in Seq(SUBSET RuleSeriesAll) /\ g.rule >= 1
      /\ Len(g.prev) = Len(g.rules)
  BY <1>1, GroupFields, Zenon DEF Shaped, Terminated
<1>3. /\ clock' \in Nat /\ clock' >= clock /\ g.rule + 1 \in Nat /\ g.rule + 1 >= 1
      /\ g.rule \in 1..Len(g.prev) /\ g.rule < g.rule + 1
      /\ \A i \in 1..Len(g.prev) : i < g.rule => i < g.rule + 1 /\ i # g.rule
  BY <1>1, <1>2
<1>4. /\ returned \in SUBSET RuleSeriesAll
      /\ \A s : s \in returned <=> s \in res /\ g.ts > lastSample[s].t
  BY Zenon DEF Accepted
<1>5. lastSample' = Store(Store(lastSample, res, g.ts, TRUE), gone, g.ts, FALSE) /\ SetGroup(n, h)
  BY Zenon
<1> HIDE DEF returned
<1>6. /\ p \in Seq(SUBSET RuleSeriesAll) /\ Len(p) = Len(g.prev) /\ p[g.rule] = returned
      /\ \A i \in 1..Len(g.prev) : i # g.rule => p[i] = g.prev[i]
  BY <1>2, <1>3, <1>4
<1> HIDE DEF p
<1>7. h = [g EXCEPT !.rule = g.rule + 1, !.prev = p]
  BY <1>1, Zenon DEF p, GroupRecs
<1>8. /\ h \in GroupRecs /\ h.pc = "eval" /\ h.stale = g.stale /\ h.prev = p /\ h.rules = g.rules
      /\ h.done = g.done /\ h.markStale = g.markStale /\ h.ts = g.ts /\ h.rule = g.rule + 1
  BY <1>1, <1>3, <1>6, <1>7, Zenon DEF GroupRecs, GroupPcs
<1> HIDE DEF h, gone
<1>9. /\ lastSample' \in [RuleSeriesAll -> [t : Nat, live : BOOLEAN]]
      /\ \A s \in RuleSeriesAll :
           /\ s \in returned /\ s \notin gone => lastSample'[s].t = g.ts
           /\ s \notin returned /\ s \in gone /\ g.ts > lastSample[s].t => ~lastSample'[s].live
           /\ s \notin returned /\ ~(s \in gone /\ g.ts > lastSample[s].t) =>
                lastSample'[s] = lastSample[s]
           /\ lastSample'[s].t \in {g.ts, lastSample[s].t}
  <2> DEFINE one == Store(lastSample, res, g.ts, TRUE)
  <2>1. /\ one \in [RuleSeriesAll -> [t : Nat, live : BOOLEAN]]
        /\ \A s \in RuleSeriesAll :
             /\ s \in returned => one[s].t = g.ts
             /\ s \notin returned => one[s] = lastSample[s]
    <3>1. g.ts \in Nat /\ lastSample \in [RuleSeriesAll -> [t : Nat, live : BOOLEAN]]
      BY <1>1, Zenon
    <3>2. /\ one \in [RuleSeriesAll -> [t : Nat, live : BOOLEAN]]
          /\ \A s \in RuleSeriesAll :
               /\ s \in res /\ g.ts > lastSample[s].t => one[s].t = g.ts
               /\ ~(s \in res /\ g.ts > lastSample[s].t) => one[s] = lastSample[s]
      BY <3>1, SMTT(20) DEF Store
    <3> QED
      BY <1>4, <3>2, Zenon
  <2>2. lastSample' = Store(one, gone, g.ts, FALSE)
    BY <1>5, Zenon
  <2> HIDE DEF one
  <2>3. /\ lastSample' \in [RuleSeriesAll -> [t : Nat, live : BOOLEAN]]
        /\ \A s \in RuleSeriesAll :
             /\ s \in gone /\ g.ts > one[s].t => lastSample'[s].t = g.ts /\ ~lastSample'[s].live
             /\ ~(s \in gone /\ g.ts > one[s].t) => lastSample'[s] = one[s]
    <3>1. g.ts \in Nat
      BY <1>1, Zenon
    <3>2. lastSample' \in [RuleSeriesAll -> [t : Nat, live : BOOLEAN]]
      BY <2>1, <2>2, <3>1, SMTT(20) DEF Store
    <3>3. \A s \in RuleSeriesAll :
            /\ s \in gone /\ g.ts > one[s].t => lastSample'[s].t = g.ts /\ ~lastSample'[s].live
            /\ ~(s \in gone /\ g.ts > one[s].t) => lastSample'[s] = one[s]
      BY <2>1, <2>2, <3>1, SMTT(20) DEF Store
    <3> QED
      BY <3>2, <3>3, Zenon
  <2> QED
    BY <2>1, <2>3, Zenon
<1>10. /\ givenUp' \subseteq RuleSeriesAll /\ givenUp \subseteq givenUp'
       /\ \A s \in RuleSeriesAll : lastSample'[s].t <= clock'
  <2>1. clock' = clock
    OBVIOUS
  <2> QED
    BY <1>1, <1>9, <2>1, Zenon DEF GroupsInv, GroupsType
<1>11. Shaped(h)
  BY <1>1, <1>2, <1>3, <1>6, <1>8, Zenon DEF Shaped, Terminated
<1>12. Becomes(n, h)
  BY <1>1, <1>3, <1>5, <1>8, <1>9, <1>10, <1>11, Zenon DEF Becomes, Terminated
<1>13. ASSUME NEW s \in RuleSeriesAll, s \in returned
       PROVE  Has(h, s) /\ Newer(h, lastSample'[s].t, s) /\ h.pc # "term"
  <2>1. lastSample'[s].t = g.ts
    BY <1>9, <1>13, Zenon DEF gone
  <2> QED
    BY <1>3, <1>6, <1>8, <1>13, <2>1, Zenon DEF Has, Newer
<1>14. ASSUME NEW s \in RuleSeriesAll, s \notin returned, lastSample'[s].live
       PROVE  lastSample'[s] = lastSample[s] /\ ~(s \in g.prev[g.rule] /\ g.ts > lastSample[s].t)
  BY <1>9, <1>14, Zenon DEF gone
<1>15. ASSUME NEW s \in RuleSeriesAll, ~(s \in g.prev[g.rule] /\ g.ts > lastSample[s].t),
              Has(g, s), Newer(g, lastSample[s].t, s)
       PROVE  Has(h, s) /\ Newer(h, lastSample[s].t, s) /\ h.pc # "term"
  <2>1. CASE lastSample[s].t < g.ts
    <3>1. g.ts > lastSample[s].t
      BY <1>1, <2>1
    <3>2. s \in h.stale \/ \E i \in 1..Len(h.prev) : s \in h.prev[i]
      BY <1>6, <1>8, <1>15, <3>1, Zenon DEF Has
    <3> QED
      BY <1>8, <2>1, <3>2, Zenon DEF Has, Newer
  <2>2. CASE lastSample[s].t = g.ts /\ \E i \in 1..Len(g.prev) : i < g.rule /\ s \in g.prev[i]
    <3>1. PICK i \in 1..Len(g.prev) : i < g.rule /\ s \in g.prev[i]
      BY <2>2
    <3>2. i \in 1..Len(h.prev) /\ i < h.rule /\ s \in h.prev[i]
      BY <1>3, <1>6, <1>8, <3>1, Zenon
    <3> QED
      BY <1>8, <2>2, <3>2, Zenon DEF Has, Newer
  <2> QED
    BY <1>15, <2>1, <2>2, Zenon DEF Newer
<1>16. HoldInv'
  BY <1>12, <1>13, <1>14, <1>15, GroupStepHolds, Zenon
<1> QED
  BY <1>12, <1>16, GroupStepKeeps, Zenon

\* One rule of a group (Group.Eval).
LEMMA EvalRuleKeeps ==
  ASSUME GroupsInv, HoldInv, NEW n \in 1..Len(instances), EvalRule(n)
  PROVE  GroupsInv' /\ HoldInv'
<1> DEFINE g == instances[n]
           r == g.rules[g.rule]
<1>1. /\ g.pc = "eval" /\ g.rule <= Len(g.rules)
      /\ UNCHANGED <<groups, update, managerDone, stopping, clock, givenUp>>
      /\ \/ SetGroup(n, [g EXCEPT !.rule = @ + 1]) /\ lastSample' = lastSample
         \/ \E res \in SUBSET RuleSeries[r] :
              /\ lastSample' = Store(Store(lastSample, res, g.ts, TRUE),
                                     g.prev[g.rule] \ Accepted(lastSample, res, g.ts), g.ts, FALSE)
              /\ SetGroup(n, [g EXCEPT !.rule = @ + 1, !.prev[g.rule] = Accepted(lastSample, res, g.ts)])
  BY Zenon DEF EvalRule
<1>2. RuleSeries[r] \subseteq RuleSeriesAll
  <2>1. g \in GroupRecs /\ Shaped(g)
    BY GroupIs, Zenon
  <2>2. g.rules \in Seq(DOMAIN RuleSeries) /\ g.rule \in Nat /\ g.rule >= 1
    BY <1>1, <2>1, GroupFields, Zenon DEF Shaped
  <2>3. r \in DOMAIN RuleSeries
    <3> DEFINE rules == g.rules
               rule == g.rule
    <3>1. rules \in Seq(DOMAIN RuleSeries) /\ rule \in Nat /\ rule >= 1 /\ rule <= Len(rules)
      BY <1>1, <2>2, Zenon
    <3> HIDE DEF rules, rule
    <3>2. rules[rule] \in DOMAIN RuleSeries
      BY <3>1
    <3> QED
      BY <3>2, Zenon DEF rules, rule
  <2> QED
    BY <2>3, Zenon DEF RuleSeriesAll, Range
<1>3. ASSUME NEW res \in SUBSET RuleSeries[r],
             lastSample' = Store(Store(lastSample, res, g.ts, TRUE),
                                     g.prev[g.rule] \ Accepted(lastSample, res, g.ts), g.ts, FALSE),
             SetGroup(n, [g EXCEPT !.rule = @ + 1, !.prev[g.rule] = Accepted(lastSample, res, g.ts)])
      PROVE  GroupsInv' /\ HoldInv'
  <2>1. res \in SUBSET RuleSeriesAll
    BY <1>2, <1>3, Zenon
  <2> QED
    BY <1>1, <1>3, <2>1, EvalRuleSucceeds, Zenon
<1> QED
  BY <1>1, <1>3, EvalRuleFails, Zenon

\* Markers that are committed: every series in them has one or a newer sample.
LEMMA MarkersKeep ==
  ASSUME GroupsInv, NEW series, NEW ts \in Nat, ts <= clock, clock' = clock, givenUp' = givenUp,
         lastSample' = Store(lastSample, series, ts, FALSE)
  PROVE  /\ lastSample' \in [RuleSeriesAll -> [t : Nat, live : BOOLEAN]]
         /\ givenUp' \subseteq RuleSeriesAll /\ givenUp \subseteq givenUp'
         /\ \A s \in RuleSeriesAll :
              /\ lastSample'[s].t <= clock'
              /\ lastSample'[s].live =>
                   lastSample'[s] = lastSample[s] /\ ~(s \in series /\ lastSample[s].t < ts)
<1>1. /\ lastSample \in [RuleSeriesAll -> [t : Nat, live : BOOLEAN]] /\ clock \in Nat
      /\ givenUp \subseteq RuleSeriesAll
  BY Zenon DEF GroupsInv, GroupsType
<1>2. \A s \in RuleSeriesAll : lastSample[s].t \in Nat /\ lastSample[s].t <= clock
  BY <1>1 DEF GroupsInv, ClockInv
<1>3. lastSample' \in [RuleSeriesAll -> [t : Nat, live : BOOLEAN]]
  BY <1>1, SMTT(20) DEF Store
<1>4. \A s \in RuleSeriesAll :
        /\ s \in series /\ ts > lastSample[s].t => lastSample'[s].t = ts /\ ~lastSample'[s].live
        /\ ~(s \in series /\ ts > lastSample[s].t) => lastSample'[s] = lastSample[s]
  BY <1>1, SMTT(20) DEF Store
<1>5. \A s \in RuleSeriesAll : lastSample[s].t < ts => ts > lastSample[s].t
  BY <1>2
<1>6. \A s \in RuleSeriesAll : lastSample'[s].t <= clock'
  BY <1>2, <1>4, Zenon
<1> QED
  BY <1>1, <1>3, <1>4, <1>5, <1>6, Zenon

\* cleanupStaleSeries at the end of an evaluation.
LEMMA EvalEndKeeps ==
  ASSUME GroupsInv, HoldInv, NEW n \in 1..Len(instances), EvalEnd(n)
  PROVE  GroupsInv' /\ HoldInv'
<1> DEFINE g == instances[n]
           c == [g EXCEPT !.pc = "idle", !.stale = {}]
           e == [g EXCEPT !.pc = "idle"]
<1>1. /\ g.pc = "eval" /\ g.rule > Len(g.rules)
      /\ UNCHANGED <<groups, update, managerDone, stopping, clock, givenUp>>
      /\ \/ lastSample' = Store(lastSample, g.stale, g.ts, FALSE) /\ SetGroup(n, c)
         \/ lastSample' = lastSample /\ SetGroup(n, e)
  BY Zenon DEF EvalEnd
<1>2. g \in GroupRecs /\ Shaped(g) /\ clock \in Nat /\ g.ts \in Nat /\ g.ts <= clock
  BY GroupIs, Zenon
<1>3. clock' \in Nat /\ clock' >= clock /\ clock' = clock
  BY <1>1, <1>2
<1>4. CASE lastSample' = lastSample /\ SetGroup(n, e)
  <2>1. /\ e \in GroupRecs /\ e.pc = "idle" /\ e.stale = g.stale /\ e.prev = g.prev /\ e.rules = g.rules
        /\ e.done = g.done /\ e.markStale = g.markStale /\ e.ts = g.ts
    BY <1>2, Zenon DEF GroupRecs, GroupPcs
  <2>2. /\ lastSample' \in [RuleSeriesAll -> [t : Nat, live : BOOLEAN]]
        /\ givenUp' \subseteq RuleSeriesAll /\ givenUp \subseteq givenUp'
        /\ \A s \in RuleSeriesAll : lastSample'[s].t <= clock'
    BY <1>1, <1>3, <1>4, SamplesStay, Zenon
  <2>3. SetGroup(n, e)
    BY <1>4
  <2> HIDE DEF e
  <2>4. Shaped(e)
    BY <1>1, <1>2, <2>1, Zenon DEF Shaped, Terminated
  <2>5. Becomes(n, e)
    BY <1>1, <1>2, <1>3, <2>1, <2>2, <2>3, <2>4, Zenon DEF Becomes, Terminated
  <2>6. \A s \in RuleSeriesAll : Has(g, s) => Has(e, s) /\ Newer(e, lastSample[s].t, s) /\ e.pc # "term"
    BY <2>1, Zenon DEF Has, Newer
  <2>7. HoldInv'
    BY <1>1, <1>4, <2>5, <2>6, GroupStepHolds, Zenon
  <2> QED
    BY <2>5, <2>7, GroupStepKeeps, Zenon
<1>5. CASE lastSample' = Store(lastSample, g.stale, g.ts, FALSE) /\ SetGroup(n, c)
  <2>1. /\ c \in GroupRecs /\ c.pc = "idle" /\ c.stale = {} /\ c.prev = g.prev /\ c.rules = g.rules
        /\ c.done = g.done /\ c.markStale = g.markStale /\ c.ts = g.ts
    BY <1>2, Zenon DEF GroupRecs, GroupPcs
  <2> DEFINE series == g.stale
  <2>2. lastSample' = Store(lastSample, series, g.ts, FALSE) /\ givenUp' = givenUp
    BY <1>1, <1>5
  <2> HIDE DEF series
  <2>3. /\ lastSample' \in [RuleSeriesAll -> [t : Nat, live : BOOLEAN]]
        /\ givenUp' \subseteq RuleSeriesAll /\ givenUp \subseteq givenUp'
        /\ \A s \in RuleSeriesAll :
             /\ lastSample'[s].t <= clock'
             /\ lastSample'[s].live =>
                  lastSample'[s] = lastSample[s] /\ ~(s \in series /\ lastSample[s].t < g.ts)
    BY <1>2, <1>3, <2>2, MarkersKeep, Zenon
  <2>4. SetGroup(n, c)
    BY <1>5
  <2> HIDE DEF c
  <2>5. Shaped(c)
    BY <1>1, <1>2, <2>1, Zenon DEF Shaped, Terminated
  <2>6. Becomes(n, c)
    BY <1>1, <1>2, <1>3, <2>1, <2>3, <2>4, <2>5, Zenon DEF Becomes, Terminated
  <2>7. \A s \in RuleSeriesAll : lastSample'[s].live =>
          /\ lastSample'[s] = lastSample[s]
          /\ Has(g, s) /\ Newer(g, lastSample[s].t, s) =>
               Has(c, s) /\ Newer(c, lastSample[s].t, s) /\ c.pc # "term"
    BY <1>1, <2>1, <2>3, Zenon DEF Has, Newer, series
  <2>8. HoldInv'
    BY <1>1, <2>6, <2>7, GroupStepHolds, Zenon
  <2> QED
    BY <2>6, <2>8, GroupStepKeeps, Zenon
<1> QED
  BY <1>1, <1>4, <1>5, Zenon

\* The cleanup of a removed group: its series get their marker or are given up.
LEMMA CleanupRemovedKeeps ==
  ASSUME GroupsInv, HoldInv, NEW n \in 1..Len(instances), CleanupRemoved(n)
  PROVE  GroupsInv' /\ HoldInv'
<1> DEFINE g == instances[n]
           series == g.stale
           e == [g EXCEPT !.pc = "term"]
<1>1. /\ g.pc = "cleanup" /\ SetGroup(n, e)
      /\ UNCHANGED <<groups, update, managerDone, stopping, clock>>
      /\ \/ lastSample' = Store(lastSample, series, g.ts, FALSE) /\ givenUp' = givenUp
         \/ lastSample' = lastSample /\ givenUp' = givenUp \cup series
         \/ managerDone /\ lastSample' = lastSample /\ givenUp' = givenUp
  BY Zenon DEF CleanupRemoved, CleanupTs
<1>2. /\ g \in GroupRecs /\ Shaped(g) /\ clock \in Nat /\ g.ts \in Nat /\ g.ts <= clock
      /\ lastSample \in [RuleSeriesAll -> [t : Nat, live : BOOLEAN]]
      /\ \A s \in RuleSeriesAll : lastSample[s].t \in Nat /\ lastSample[s].t <= clock
  BY GroupIs, Zenon
<1>3. clock' \in Nat /\ clock' >= clock /\ clock' = clock
  BY <1>1, <1>2
<1>4. /\ e \in GroupRecs /\ e.pc = "term" /\ e.stale = g.stale /\ e.prev = g.prev /\ e.rules = g.rules
      /\ e.done = g.done /\ e.markStale = g.markStale /\ e.ts = g.ts
  BY <1>2, Zenon DEF GroupRecs, GroupPcs
<1>5. series \in SUBSET RuleSeriesAll /\ givenUp \subseteq RuleSeriesAll
  BY <1>2, GroupFields, Zenon DEF GroupsInv, GroupsType
<1>6. ~\E i \in 1..Len(g.prev) : TRUE
  <2>1. g.prev = <<>>
    BY <1>1, <1>2, Zenon DEF Shaped
  <2> QED
    BY <2>1
<1>7. \A s : Has(g, s) => s \in series
  BY <1>6, Zenon DEF Has
<1> HIDE DEF e, series
<1>8. ASSUME lastSample' = Store(lastSample, series, g.ts, FALSE), givenUp' = givenUp
      PROVE  /\ lastSample' \in [RuleSeriesAll -> [t : Nat, live : BOOLEAN]]
             /\ givenUp' \subseteq RuleSeriesAll /\ givenUp \subseteq givenUp'
             /\ \A s \in RuleSeriesAll :
                  /\ lastSample'[s].t <= clock'
                  /\ lastSample'[s].live =>
                       lastSample'[s] = lastSample[s] /\ ~(s \in series /\ lastSample[s].t < g.ts)
  BY <1>2, <1>3, <1>8, MarkersKeep, Zenon
<1>9. /\ lastSample' \in [RuleSeriesAll -> [t : Nat, live : BOOLEAN]]
      /\ givenUp' \subseteq RuleSeriesAll /\ givenUp \subseteq givenUp'
      /\ \A s \in RuleSeriesAll : lastSample'[s].t <= clock'
  BY <1>1, <1>2, <1>3, <1>5, <1>8, Zenon
<1>10. Shaped(e)
  BY <1>1, <1>2, <1>4, Zenon DEF Shaped, Terminated
<1>11. Becomes(n, e)
  BY <1>1, <1>2, <1>3, <1>4, <1>9, <1>10, Zenon DEF Becomes, Terminated
<1>12. ASSUME ~managerDone, NEW s \in RuleSeriesAll, lastSample'[s].live
       PROVE  \/ s \in givenUp'
              \/ lastSample'[s] = lastSample[s] /\ ~(Has(g, s) /\ Newer(g, lastSample[s].t, s))
  <2>1. Newer(g, lastSample[s].t, s) => lastSample[s].t < g.ts
    BY <1>1, Zenon DEF Newer
  <2> QED
    BY <1>1, <1>7, <1>8, <1>12, <2>1, Zenon
<1>13. HoldInv'
  BY <1>1, <1>11, <1>12, GroupStepHolds, Zenon
<1> QED
  BY <1>11, <1>13, GroupStepKeeps, Zenon

\* A new group takes over the series of the group it replaces.
LEMMA StartGroupKeeps ==
  ASSUME GroupsInv, HoldInv, NEW n \in 1..Len(instances), StartGroup(n)
  PROVE  GroupsInv' /\ HoldInv'
<1> DEFINE g == instances[n]
           f == instances[g.from]
           b == IF g.from = 0 THEN g ELSE CopyState(g, f)
           h == [b EXCEPT !.pc = "blocked"]
<1>1. /\ g.pc = "new" /\ (g.from # 0 => f.pc \in Terminated)
      /\ UNCHANGED <<groups, update, managerDone, stopping, lastSample, clock, givenUp>>
      /\ instances' = [instances EXCEPT ![n] = h]
  BY Zenon DEF StartGroup
<1>2. g \in GroupRecs /\ Shaped(g) /\ clock \in Nat /\ g.ts \in Nat /\ g.ts <= clock
  BY GroupIs, Zenon
<1>3. clock' \in Nat /\ clock' >= clock
  BY <1>1, <1>2
<1>4. ASSUME g.from # 0
      PROVE  g.from \in 1..Len(instances) /\ f \in GroupRecs /\ Len(f.prev) = Len(f.rules)
  <2>1. g.from \in 1..Len(instances) /\ ~f.markStale
    BY <1>1, <1>4, Zenon DEF GroupsInv, NewInv
  <2>2. f \in GroupRecs /\ Shaped(f)
    BY <2>1, GroupIs, Zenon
  <2> QED
    BY <2>1, <2>2, Zenon DEF Shaped
<1> HIDE DEF f
<1>5. /\ b \in GroupRecs /\ Len(b.prev) = Len(g.rules) /\ b.rules = g.rules
      /\ b.done = g.done /\ b.markStale = g.markStale /\ b.ts = g.ts
      /\ g.from # 0 => \A s : Has(f, s) => Has(b, s)
  <2>1. CASE g.from = 0
    <3>1. Len(g.prev) = Len(g.rules)
      BY <1>1, <1>2, Zenon DEF Shaped, Terminated
    <3> QED
      BY <1>2, <2>1, <3>1, Zenon
  <2>2. CASE g.from # 0
    BY <1>2, <1>4, <2>2, CopyStateKeeps, Zenon
  <2> QED
    BY <2>1, <2>2, Zenon
<1> HIDE DEF b
<1>6. /\ h \in GroupRecs /\ h.pc = "blocked" /\ h.stale = b.stale /\ h.prev = b.prev /\ h.rules = g.rules
      /\ h.done = g.done /\ h.markStale = g.markStale /\ h.ts = g.ts
  BY <1>5, Zenon DEF GroupRecs, GroupPcs
<1>7. /\ lastSample' \in [RuleSeriesAll -> [t : Nat, live : BOOLEAN]]
      /\ givenUp' \subseteq RuleSeriesAll /\ givenUp \subseteq givenUp'
      /\ \A s \in RuleSeriesAll : lastSample'[s].t <= clock'
  BY <1>1, <1>3, SamplesStay, Zenon
<1> HIDE DEF h
<1>8. SetGroup(n, h)
  BY <1>1, Zenon DEF SetGroup
<1>9. Shaped(h)
  BY <1>5, <1>6, Zenon DEF Shaped, Terminated
<1>10. Becomes(n, h)
  BY <1>1, <1>2, <1>3, <1>6, <1>7, <1>8, <1>9, Zenon DEF Becomes, Terminated, f
<1>11. /\ GroupsInv' /\ Len(instances') = Len(instances) /\ instances'[n] = h
       /\ \A m \in 1..Len(instances) : m # n => instances'[m] = instances[m]
       /\ \A m, p : Heir(m, p) /\ m # n => Heir(m, p)'
  BY <1>10, GroupStepKeeps, Zenon
<1>12. ASSUME NEW s \in RuleSeriesAll, NEW m, Holds(m, s)
       PROVE  Holds(m, s)' \/ Holds(n, s)'
  <2>1. m # n
    BY <1>1, <1>2, <1>12, Zenon DEF Holds, Shaped
  <2>2. CASE instances[m].pc # "term" \/ \E p : Heir(p, m) /\ p # n
    BY <1>1, <1>11, <1>12, <2>1, <2>2, Zenon DEF Holds
  <2>3. CASE instances[m].pc = "term" /\ Heir(n, m)
    <3>1. g.from = m /\ m \in 1..Len(instances)
      BY <1>12, <2>3, Zenon DEF Heir, Holds
    <3>2. m # 0
      BY <3>1
    <3>3. Has(f, s)
      BY <1>12, <3>1, Zenon DEF Holds, f
    <3>4. Has(h, s)
      BY <1>5, <1>6, <3>1, <3>2, <3>3, Zenon DEF Has
    <3> QED
      BY <1>6, <1>11, <3>4, Zenon DEF Holds, Newer
  <2> QED
    BY <1>12, <2>2, <2>3, Zenon DEF Holds
<1>13. HoldInv'
  BY <1>1, <1>12, Zenon DEF HoldInv
<1> QED
  BY <1>11, <1>13, Zenon

-------------------------------------------------------------------------------
(* Steps of the manager *)

\* The end of Update and the start of the manager.
LEMMA UpdateEndKeeps ==
  ASSUME GroupsInv, HoldInv, UpdateEnd
  PROVE  GroupsInv' /\ HoldInv'
<1>1. /\ update # NoUpdate /\ groups' = update /\ update' = NoUpdate
      /\ \A k \in DOMAIN update : instances[update[k]].pc # "new"
      /\ UNCHANGED <<instances, managerDone, stopping, lastSample, clock, givenUp>>
  BY Zenon DEF UpdateEnd
<1>2. Current' = Current
  BY <1>1, Zenon DEF Current
<1>3. \A m \in 1..Len(instances) : instances[m].pc # "new"
  BY <1>1, Zenon DEF GroupsInv, NewInv, Range
<1>4. \A m, n : Heir(m, n)' <=> Heir(m, n)
  BY <1>1, Zenon DEF Heir
<1>5. GroupsType' /\ ClockInv' /\ ShapeInv'
  BY <1>1, Zenon DEF GroupsInv, GroupsType, ClockInv, ShapeInv
<1>6. CurrentInv'
  BY <1>1, <1>2, Zenon DEF GroupsInv, CurrentInv
<1>7. NewInv'
  BY <1>1, <1>3, Zenon DEF NewInv
<1>8. DoneInv'
  BY <1>1, <1>4, Zenon DEF GroupsInv, DoneInv
<1>9. HoldInv'
  BY <1>1, <1>4, Zenon DEF HoldInv, Holds
<1> QED
  BY <1>5, <1>6, <1>7, <1>8, <1>9, Zenon DEF GroupsInv

\* A step that changes none of this, such as the start of the manager.
LEMMA StillKeeps ==
  ASSUME GroupsInv, HoldInv,
         UNCHANGED <<instances, groups, update, managerDone, stopping, lastSample, clock, givenUp>>
  PROVE  GroupsInv' /\ HoldInv'
<1>1. \A m, n : Heir(m, n)' <=> Heir(m, n)
  BY Zenon DEF Heir
<1>2. GroupsType' /\ ClockInv' /\ ShapeInv' /\ NewInv'
  BY Zenon DEF GroupsInv, GroupsType, ClockInv, ShapeInv, NewInv
<1>3. CurrentInv'
  BY Zenon DEF GroupsInv, CurrentInv, Current
<1>4. DoneInv'
  BY <1>1, Zenon DEF GroupsInv, DoneInv
<1>5. HoldInv'
  BY <1>1, Zenon DEF HoldInv, Holds
<1> QED
  BY <1>2, <1>3, <1>4, <1>5, Zenon DEF GroupsInv

\* Stop.
LEMMA StopKeeps ==
  ASSUME GroupsInv, HoldInv, StopStart \/ StopEnd
  PROVE  GroupsInv' /\ HoldInv'
<1> DEFINE after(n) == IF n \in Range(groups) THEN Stopped(instances[n]) ELSE instances[n]
<1>1. /\ stopping' \in BOOLEAN /\ managerDone' \in BOOLEAN /\ (stopping' \/ managerDone')
      /\ UNCHANGED <<groups, update, lastSample, clock, givenUp>>
      /\ \/ instances' = instances \/ instances' = [n \in 1..Len(instances) |-> after(n)]
  <2>1. CASE StopStart
    BY <2>1, Zenon DEF StopStart, GroupsInv, GroupsType
  <2>2. CASE StopEnd
    BY <2>2, Zenon DEF StopEnd
  <2> QED
    BY <2>1, <2>2, Zenon
<1>2. instances \in Seq(GroupRecs) /\ \A n \in 1..Len(instances) : instances[n] \in GroupRecs
  <2> HIDE DEF GroupRecs
  <2> QED
    BY GroupIs, Zenon DEF GroupsInv, GroupsType
<1>3. \A n \in 1..Len(instances) :
        /\ after(n) \in GroupRecs /\ after(n).pc = instances[n].pc /\ after(n).prev = instances[n].prev
        /\ after(n).rules = instances[n].rules /\ after(n).stale = instances[n].stale
        /\ after(n).markStale = instances[n].markStale /\ after(n).ts = instances[n].ts
        /\ after(n).rule = instances[n].rule /\ after(n).from = instances[n].from
  BY <1>2, Zenon DEF Stopped, GroupRecs
<1> HIDE DEF after
<1>4. instances' \in Seq(GroupRecs) /\ Len(instances') = Len(instances)
  <2> HIDE DEF GroupRecs
  <2>1. CASE instances' = [n \in 1..Len(instances) |-> after(n)]
    <3>1. \A n \in 1..Len(instances) : after(n) \in GroupRecs
      BY <1>3, Zenon
    <3>2. Len(instances) \in Nat
      BY <1>2
    <3> QED
      BY <2>1, <3>1, <3>2
  <2> QED
    BY <1>1, <1>2, <2>1, Zenon
<1>5. \A n \in 1..Len(instances) :
        /\ instances'[n].pc = instances[n].pc /\ instances'[n].prev = instances[n].prev
        /\ instances'[n].rules = instances[n].rules /\ instances'[n].stale = instances[n].stale
        /\ instances'[n].markStale = instances[n].markStale /\ instances'[n].ts = instances[n].ts
        /\ instances'[n].rule = instances[n].rule /\ instances'[n].from = instances[n].from
  BY <1>1, <1>3, ZenonT(30)
<1>6. GroupsType'
  BY <1>1, <1>4, Zenon DEF GroupsInv, GroupsType
<1>7. ClockInv'
  BY <1>1, <1>4, <1>5, Zenon DEF GroupsInv, ClockInv
<1>8. ShapeInv'
  <2> SUFFICES ASSUME NEW n \in 1..Len(instances) PROVE Shaped(instances'[n])
    BY <1>4, Zenon DEF ShapeInv
  <2>1. \A s : Has(instances'[n], s) => Has(instances[n], s)
    BY <1>5, Zenon DEF Has
  <2>2. Shaped(instances[n])
    BY Zenon DEF GroupsInv, ShapeInv
  <2> QED
    BY <1>5, <2>1, <2>2, Zenon DEF Shaped
<1>9. CurrentInv'
  BY <1>1, <1>4, <1>5, Zenon DEF GroupsInv, CurrentInv, Current
<1>10. NewInv'
  <2> SUFFICES ASSUME NEW m \in 1..Len(instances), instances'[m].pc = "new"
               PROVE  /\ m \in Range(update)
                      /\ instances'[m].from # 0 =>
                           /\ instances'[m].from \in 1..Len(instances)
                           /\ ~instances'[instances'[m].from].markStale
    BY <1>1, <1>4, Zenon DEF NewInv
  <2>1. instances'[m].from = instances[m].from /\ instances[m].pc = "new"
    BY <1>5, Zenon
  <2>2. /\ m \in Range(update)
        /\ instances[m].from # 0 =>
             instances[m].from \in 1..Len(instances) /\ ~instances[instances[m].from].markStale
    BY <2>1, Zenon DEF GroupsInv, NewInv
  <2>3. \A n \in 1..Len(instances) : instances'[n].markStale = instances[n].markStale
    BY <1>5, Zenon
  <2> QED
    BY <2>1, <2>2, <2>3, Zenon
<1>11. DoneInv' /\ HoldInv'
  BY <1>1, Zenon DEF DoneInv, HoldInv
<1> QED
  BY <1>6, <1>7, <1>8, <1>9, <1>10, <1>11, Zenon DEF GroupsInv

\* A reload of groups that have all been evaluated.
LEMMA UpdateStartKeeps ==
  ASSUME GroupsInv, HoldInv, SettledUpdateStart
  PROVE  GroupsInv' /\ HoldInv'
<1> DEFINE old == Len(instances)
<1>1. /\ update = NoUpdate /\ \A n \in 1..old : instances[n].pc \notin {"blocked", "wait"}
      /\ UNCHANGED <<groups, managerDone, stopping, lastSample, clock, givenUp>>
  BY Zenon DEF SettledUpdateStart, UpdateStart
<1>2. PICK cfg \in RuleConfigs :
        \E number \in Bijection(Fresh(cfg), (old + 1)..(old + Cardinality(Fresh(cfg)))) :
            /\ instances' = [n \in 1..(old + Cardinality(Fresh(cfg))) |->
                   IF n <= old THEN Reloaded(cfg, n)
                   ELSE LET k == CHOOSE k \in Fresh(cfg) : number[k] = n
                        IN  NewGroup(cfg[k], OldGroup(k))]
            /\ update' = [k \in DOMAIN cfg |->
                   IF k \in Fresh(cfg) THEN number[k] ELSE groups[k]]
  BY Zenon DEF SettledUpdateStart, UpdateStart
<1> DEFINE fresh == Fresh(cfg)
           total == old + Cardinality(fresh)
<1>3. PICK number \in Bijection(fresh, (old + 1)..total) :
        /\ instances' = [n \in 1..total |->
               IF n <= old THEN Reloaded(cfg, n)
               ELSE LET k == CHOOSE k \in fresh : number[k] = n IN  NewGroup(cfg[k], OldGroup(k))]
        /\ update' = [k \in DOMAIN cfg |-> IF k \in fresh THEN number[k] ELSE groups[k]]
  BY <1>2, Zenon
<1>4. /\ fresh \in SUBSET DOMAIN cfg /\ \A k \in DOMAIN cfg : k \notin fresh => k \in DOMAIN groups
      /\ \A k \in DOMAIN cfg : cfg[k] \in Seq(DOMAIN RuleSeries)
  BY GroupsAssumption, Zenon DEF GroupsAssumption, Fresh, Unchanged
<1>5. Cardinality(fresh) \in Nat
  BY <1>4, GroupsAssumption, FS_Subset, FS_CardinalityType, Zenon DEF GroupsAssumption
<1> HIDE DEF fresh
<1>6. /\ instances \in Seq(GroupRecs) /\ old \in Nat /\ total \in Nat /\ old <= total
      /\ 1..old \subseteq 1..total
  <2>1. instances \in Seq(GroupRecs)
    BY Zenon DEF GroupsInv, GroupsType
  <2>2. old \in Nat
    BY <2>1
  <2> QED
    BY <1>5, <2>1, <2>2
<1> HIDE DEF old
<1>7. /\ \A k \in fresh : number[k] \in (old + 1)..total
      /\ \A k, l \in fresh : number[k] = number[l] => k = l
      /\ \A n \in (old + 1)..total : \E k \in fresh : number[k] = n
  BY <1>3, Zenon DEF Bijection, Injection, Surjection, IsInjective
<1>8. \A k \in fresh : number[k] \in 1..total /\ ~(number[k] <= old) /\ number[k] \notin 1..old
  BY <1>6, <1>7
<1>9. \A n \in 1..total : n \in 1..old <=> n <= old
  BY <1>6
<1>10. /\ \A k \in DOMAIN groups : groups[k] \in 1..old /\ ~instances[groups[k]].markStale
       /\ \A k, l \in DOMAIN groups : groups[k] = groups[l] => k = l
  BY <1>1, Zenon DEF GroupsInv, CurrentInv, Current, old
<1>11. \A n \in 1..old : instances[n] \in GroupRecs /\ Shaped(instances[n])
  BY GroupIs, Zenon DEF old
<1>12. \A n \in 1..old :
         /\ instances'[n] = Reloaded(cfg, n) /\ Reloaded(cfg, n) \in GroupRecs
         /\ instances'[n].pc = instances[n].pc /\ instances'[n].prev = instances[n].prev
         /\ instances'[n].rules = instances[n].rules /\ instances'[n].stale = instances[n].stale
         /\ instances'[n].ts = instances[n].ts /\ instances'[n].rule = instances[n].rule
         /\ instances'[n].from = instances[n].from
         /\ instances[n].markStale => instances'[n].markStale
         /\ n \in Removed(cfg) => instances'[n].markStale
         /\ n \notin Removed(cfg) => instances'[n].markStale = instances[n].markStale
         /\ n \notin Removed(cfg) /\ n \notin Changed(cfg) => instances'[n].done = instances[n].done
  <2> TAKE n \in 1..old
  <2>1. instances'[n] = Reloaded(cfg, n)
    BY <1>3, <1>6, <1>9, Zenon
  <2>2. instances[n] \in GroupRecs
    BY <1>11, Zenon
  <2>3. CASE n \in Removed(cfg)
    <3>1. Reloaded(cfg, n) = [[instances[n] EXCEPT !.done = TRUE] EXCEPT !.markStale = TRUE]
      BY <2>3, Zenon DEF Reloaded, Stopped
    <3> QED
      BY <2>1, <2>2, <2>3, <3>1, ZenonT(30) DEF GroupRecs
  <2>4. CASE n \in Changed(cfg) \ Removed(cfg)
    <3>1. Reloaded(cfg, n) = [instances[n] EXCEPT !.done = TRUE]
      BY <2>4, Zenon DEF Reloaded, Stopped
    <3> QED
      BY <2>1, <2>2, <2>4, <3>1, ZenonT(30) DEF GroupRecs
  <2>5. CASE n \notin Changed(cfg) /\ n \notin Removed(cfg)
    <3>1. Reloaded(cfg, n) = instances[n]
      BY <2>5, Zenon DEF Reloaded
    <3> QED
      BY <2>1, <2>2, <2>5, <3>1, Zenon
  <2> QED
    BY <2>3, <2>4, <2>5, Zenon
<1>13. \A k \in fresh : instances'[number[k]] = NewGroup(cfg[k], OldGroup(k))
  <2> TAKE k \in fresh
  <2>1. (CHOOSE l \in fresh : number[l] = number[k]) = k
    BY <1>7, Zenon
  <2> QED
    BY <1>3, <1>8, <2>1, Zenon
<1>14. \A k \in fresh : OldGroup(k) \in Nat /\ (OldGroup(k) # 0 => k \in DOMAIN groups /\ OldGroup(k) = groups[k])
  <2>1. 0 \in Nat /\ 1..old \subseteq Nat
    BY <1>6
  <2> QED
    BY <1>10, <2>1, Zenon DEF OldGroup
<1>15. \A k \in fresh :
         /\ instances'[number[k]] \in GroupRecs /\ Shaped(instances'[number[k]])
         /\ instances'[number[k]].pc = "new" /\ instances'[number[k]].from = OldGroup(k)
         /\ ~instances'[number[k]].done /\ ~instances'[number[k]].markStale
         /\ instances'[number[k]].ts = 0
  <2> TAKE k \in fresh
  <2> DEFINE rules == cfg[k]
             prev  == [i \in 1..Len(rules) |-> {}]
             g     == NewGroup(rules, OldGroup(k))
  <2>1. rules \in Seq(DOMAIN RuleSeries)
    BY <1>4, Zenon
  <2> HIDE DEF rules
  <2>2. prev \in Seq(SUBSET RuleSeriesAll) /\ Len(prev) = Len(rules) /\ \A i \in 1..Len(prev) : prev[i] = {}
    BY <2>1
  <2>3. g = [rules |-> rules, prev |-> prev, stale |-> {}, pc |-> "new", from |-> OldGroup(k),
             done |-> FALSE, markStale |-> FALSE, ts |-> 0, rule |-> 0]
    BY Zenon DEF NewGroup
  <2> HIDE DEF prev, g
  <2>4. /\ g.rules = rules /\ g.prev = prev /\ g.stale = {} /\ g.pc = "new" /\ g.from = OldGroup(k)
        /\ ~g.done /\ ~g.markStale /\ g.ts = 0
    BY <2>3, SMTT(20)
  <2>5. g \in GroupRecs
    BY <1>14, <2>1, <2>2, <2>3 DEF GroupRecs, GroupPcs
  <2>6. Shaped(g)
    BY <2>2, <2>4, Zenon DEF Shaped, Has
  <2>7. instances'[number[k]] = g
    BY <1>13, Zenon DEF g, rules
  <2> QED
    BY <2>4, <2>5, <2>6, <2>7, Zenon
<1>16. \A n \in 1..total : n \in 1..old \/ \E k \in fresh : number[k] = n
  <2>1. \A n \in 1..total : n \in 1..old \/ n \in (old + 1)..total
    BY <1>6
  <2> QED
    BY <1>7, <2>1, Zenon
<1>17. instances' \in Seq(GroupRecs) /\ Len(instances') = total
  <2> DEFINE e(n) == IF n <= old THEN Reloaded(cfg, n)
                     ELSE LET k == CHOOSE k \in fresh : number[k] = n IN  NewGroup(cfg[k], OldGroup(k))
  <2>1. instances' = [n \in 1..total |-> e(n)]
    BY <1>3, Zenon
  <2>2. \A n \in 1..old : instances'[n] \in GroupRecs
    BY <1>12, Zenon
  <2>3. \A k \in fresh : instances'[number[k]] \in GroupRecs
    BY <1>15, Zenon
  <2> HIDE DEF total, GroupRecs, e
  <2>4. \A n \in 1..total : e(n) \in GroupRecs
    BY <1>16, <2>1, <2>2, <2>3, Zenon
  <2>5. total \in Nat
    BY <1>6, Zenon
  <2> QED
    BY <2>1, <2>4, <2>5
<1>18. /\ \A k \in DOMAIN cfg : k \in fresh => update'[k] = number[k]
       /\ \A k \in DOMAIN cfg : k \notin fresh => update'[k] = groups[k] /\ k \in DOMAIN groups
       /\ DOMAIN update' = DOMAIN cfg
  BY <1>3, <1>4, Zenon
<1>19. \A k \in DOMAIN update' : update'[k] \in 1..total /\ update'[k] # 0
  <2>1. 0 \notin 1..total
    OBVIOUS
  <2> QED
    BY <1>6, <1>8, <1>10, <1>18, <2>1, ZenonT(30)
<1>20. update' # NoUpdate
  BY <1>19, Zenon DEF NoUpdate
<1>21. Current' = update'
  BY <1>20, Zenon DEF Current
<1>22. \A n \in 1..old : instances[n].pc # "new"
  <2>1. \A n \in 1..old : n \notin Range(update)
    <3>1. Range(NoUpdate) = {0}
      BY Zenon DEF Range, NoUpdate
    <3>2. \A n \in 1..old : n # 0
      OBVIOUS
    <3> QED
      BY <1>1, <3>1, <3>2, Zenon
  <2> QED
    BY <2>1, Zenon DEF GroupsInv, NewInv, old
<1>23. \A k \in DOMAIN cfg : k \in DOMAIN groups => groups[k] \notin Removed(cfg)
  BY <1>10, Zenon DEF Removed
<1>24. DOMAIN instances' = 1..total
  BY <1>3, Zenon
<1>25. GroupsType'
  BY <1>1, <1>17, Zenon DEF GroupsInv, GroupsType
<1>26. ClockInv'
  <2>1. \A n \in 1..old : instances'[n].ts <= clock
    BY <1>12, Zenon DEF GroupsInv, ClockInv, old
  <2>2. clock \in Nat
    BY Zenon DEF GroupsInv, GroupsType
  <2>3. 0 <= clock
    BY <2>2
  <2>4. \A k \in fresh : instances'[number[k]].ts <= clock
    BY <1>15, <2>3, Zenon
  <2>5. \A n \in 1..total : instances'[n].ts <= clock
    BY <1>16, <2>1, <2>4, Zenon
  <2> QED
    BY <1>1, <1>17, <2>5, Zenon DEF GroupsInv, ClockInv
<1>27. ShapeInv'
  <2>1. \A n \in 1..old : Shaped(instances'[n])
    <3> TAKE n \in 1..old
    <3>1. \A s : Has(instances'[n], s) => Has(instances[n], s)
      BY <1>12, Zenon DEF Has
    <3> QED
      BY <1>11, <1>12, <3>1, ZenonT(30) DEF Shaped
  <2>2. \A k \in fresh : Shaped(instances'[number[k]])
    BY <1>15, Zenon
  <2> QED
    BY <1>16, <1>17, <2>1, <2>2, Zenon DEF ShapeInv
<1>28. CurrentInv'
  <2>1. \A k \in DOMAIN cfg : ~instances'[update'[k]].markStale
    <3> TAKE k \in DOMAIN cfg
    <3>1. CASE k \in fresh
      BY <1>15, <1>18, <3>1, Zenon
    <3>2. CASE k \notin fresh
      <4>1. update'[k] = groups[k] /\ groups[k] \in 1..old /\ ~instances[groups[k]].markStale
        BY <1>10, <1>18, <3>2, Zenon
      <4>2. groups[k] \notin Removed(cfg)
        BY <1>18, <1>23, <3>2, Zenon
      <4> QED
        BY <1>12, <4>1, <4>2, Zenon
    <3> QED
      BY <3>1, <3>2, Zenon
  <2>2. ASSUME NEW k \in DOMAIN cfg, NEW l \in DOMAIN cfg, update'[k] = update'[l]
        PROVE  k = l
    <3>1. CASE k \in fresh /\ l \in fresh
      BY <1>7, <1>18, <2>2, <3>1, Zenon
    <3>2. CASE k \notin fresh /\ l \notin fresh
      BY <1>10, <1>18, <2>2, <3>2, Zenon
    <3>3. CASE k \in fresh /\ l \notin fresh
      BY <1>8, <1>10, <1>18, <2>2, <3>3, Zenon
    <3>4. CASE k \notin fresh /\ l \in fresh
      BY <1>8, <1>10, <1>18, <2>2, <3>4, Zenon
    <3> QED
      BY <3>1, <3>2, <3>3, <3>4, Zenon
  <2> HIDE DEF total
  <2> QED
    BY <1>17, <1>18, <1>19, <1>21, <2>1, <2>2, Zenon DEF CurrentInv
<1>29. \A n \in 1..total : instances'[n].pc = "new" => n \notin 1..old
  BY <1>12, <1>22, Zenon
<1>30. NewInv'
  <2> SUFFICES ASSUME NEW m \in 1..total, instances'[m].pc = "new"
               PROVE  /\ m \in Range(update')
                      /\ instances'[m].from # 0 =>
                           /\ instances'[m].from \in 1..total
                           /\ ~instances'[instances'[m].from].markStale
    BY <1>17, Zenon DEF NewInv
  <2>1. PICK k \in fresh : number[k] = m
    BY <1>16, <1>29, Zenon
  <2>2. k \in DOMAIN cfg
    BY <1>4, <2>1, Zenon
  <2>3. m \in Range(update')
    BY <1>18, <2>1, <2>2, Zenon DEF Range
  <2>4. instances'[m].from = OldGroup(k)
    BY <1>15, <2>1, Zenon
  <2>5. ASSUME OldGroup(k) # 0
        PROVE  OldGroup(k) \in 1..total /\ ~instances'[OldGroup(k)].markStale
    <3>1. k \in DOMAIN groups /\ OldGroup(k) = groups[k]
      BY <1>14, <2>5, Zenon
    <3>2. groups[k] \in 1..old /\ ~instances[groups[k]].markStale /\ groups[k] \notin Removed(cfg)
      BY <1>10, <1>23, <2>2, <3>1, Zenon
    <3>3. instances'[groups[k]].markStale = instances[groups[k]].markStale
      BY <1>12, <3>2, Zenon
    <3>4. groups[k] \in 1..total
      BY <1>6, <3>2, Zenon
    <3> QED
      BY <3>1, <3>2, <3>3, <3>4, Zenon
  <2> QED
    BY <2>3, <2>4, <2>5, Zenon
<1>31. \A m, n : n \in 1..old => ~Heir(m, n)
  BY <1>22, Zenon DEF Heir, old
<1>32. DoneInv'
  <2> SUFFICES ASSUME ~stopping, ~managerDone, NEW n \in 1..total, instances'[n].done
               PROVE  /\ instances'[n].pc \notin {"new", "blocked", "wait"}
                      /\ \/ instances'[n].pc \in Terminated \/ instances'[n].markStale
                         \/ \E m : Heir(m, n)'
    BY <1>1, <1>17, Zenon DEF DoneInv
  <2>1. n \in 1..old
    BY <1>15, <1>16, Zenon
  <2>2. instances'[n].pc \notin {"new", "blocked", "wait"}
    <3>1. instances'[n].pc = instances[n].pc
      BY <1>12, <2>1, Zenon
    <3>2. instances[n].pc # "new" /\ instances[n].pc \notin {"blocked", "wait"}
      BY <1>1, <1>22, <2>1, Zenon
    <3> QED
      BY <3>1, <3>2, Zenon
  <2>3. CASE n \in Removed(cfg)
    BY <1>12, <2>1, <2>2, <2>3, Zenon
  <2>4. CASE n \in Changed(cfg)
    <3>1. PICK k \in fresh : k \in DOMAIN groups /\ groups[k] = n
      BY <2>4, Zenon DEF Changed, fresh
    <3>2. instances'[number[k]].pc = "new" /\ instances'[number[k]].from = n
      BY <1>15, <3>1, Zenon DEF OldGroup
    <3>3. Heir(number[k], n)'
      BY <1>8, <1>17, <3>1, <3>2, Zenon DEF Heir
    <3> QED
      BY <2>2, <3>3, Zenon
  <2>5. CASE n \notin Removed(cfg) /\ n \notin Changed(cfg)
    <3>1. instances[n].done
      BY <1>12, <2>1, <2>5, Zenon
    <3>2. instances[n].pc \in Terminated \/ instances[n].markStale
      BY <1>31, <2>1, <3>1, Zenon DEF GroupsInv, DoneInv, old
    <3> QED
      BY <1>12, <2>1, <2>2, <3>2, Zenon
  <2> QED
    BY <2>3, <2>4, <2>5, Zenon
<1>33. ASSUME NEW s, NEW n, Holds(n, s) PROVE Holds(n, s)'
  <2>1. n \in 1..old /\ instances[n].pc # "term"
    BY <1>31, <1>33, Zenon DEF Holds, old
  <2>2. Has(instances'[n], s)
    BY <1>12, <1>33, <2>1, Zenon DEF Holds, Has
  <2>3. Newer(instances'[n], lastSample'[s].t, s)
    BY <1>1, <1>12, <1>33, <2>1, Zenon DEF Holds, Newer
  <2>4. n \in 1..total /\ instances'[n].pc # "term"
    BY <1>6, <1>12, <2>1, Zenon
  <2> QED
    BY <1>17, <2>2, <2>3, <2>4, Zenon DEF Holds
<1>34. HoldInv'
  BY <1>1, <1>33, Zenon DEF HoldInv
<1> QED
  BY <1>25, <1>26, <1>27, <1>28, <1>30, <1>32, <1>34, Zenon DEF GroupsInv

-------------------------------------------------------------------------------
\* No group is there at the start.
LEMMA GroupsInitially ==
  ASSUME GroupsInit
  PROVE  GroupsInv /\ HoldInv
<1>1. /\ instances = <<>> /\ groups = <<>> /\ update = NoUpdate /\ managerDone = FALSE /\ stopping = FALSE
      /\ lastSample = [s \in RuleSeriesAll |-> [t |-> 0, live |-> FALSE]] /\ clock = 1 /\ givenUp = {}
  BY Zenon DEF GroupsInit
<1>2. Len(instances) = 0 /\ instances \in Seq(GroupRecs) /\ 1..Len(instances) = {} /\ DOMAIN groups = {}
  BY <1>1
<1>3. clock \in Nat /\ 0 \in Nat /\ 0 <= clock
  BY <1>1
<1>4. GroupsType
  BY <1>1, <1>2, <1>3, Zenon DEF GroupsType
<1>5. ClockInv
  BY <1>1, <1>2, <1>3, Zenon DEF ClockInv
<1>6. ShapeInv /\ NewInv /\ DoneInv
  BY <1>2, Zenon DEF ShapeInv, NewInv, DoneInv
<1>7. CurrentInv
  BY <1>1, <1>2, Zenon DEF CurrentInv, Current
<1>8. HoldInv
  BY <1>1, Zenon DEF HoldInv
<1> QED
  BY <1>4, <1>5, <1>6, <1>7, <1>8, Zenon DEF GroupsInv

\* Every step of the manager and of the goroutines of its groups.
LEMMA GroupsStepKeeps ==
  ASSUME GroupsInv, HoldInv, [SettledNext]_groupVars
  PROVE  GroupsInv' /\ HoldInv'
<1>1. CASE SettledUpdateStart
  BY <1>1, UpdateStartKeeps, Zenon
<1>2. CASE UpdateEnd
  BY <1>2, UpdateEndKeeps, Zenon
<1>3. CASE StartManager
  BY <1>3, StillKeeps, Zenon DEF StartManager
<1>4. CASE StopStart \/ StopEnd
  BY <1>4, StopKeeps, Zenon
<1>5. ASSUME NEW n \in 1..Len(instances), StartGroup(n) \/ EvalStart(n) \/ RunGroupStep(n)
      PROVE  GroupsInv' /\ HoldInv'
  <2>1. CASE StartGroup(n)
    BY <2>1, StartGroupKeeps, Zenon
  <2>2. CASE EvalStart(n)
    BY <2>2, EvalStartKeeps, Zenon
  <2>3. CASE RunGroup(n) \/ EvalAborted(n)
    BY <2>3, RunGroupKeeps, Zenon
  <2>4. CASE EvalRule(n)
    BY <2>4, EvalRuleKeeps, Zenon
  <2>5. CASE EvalEnd(n)
    BY <2>5, EvalEndKeeps, Zenon
  <2>6. CASE RunGroupEnds(n)
    BY <2>6, RunGroupEndsKeeps, Zenon
  <2>7. CASE CleanupRemoved(n)
    BY <2>7, CleanupRemovedKeeps, Zenon
  <2> QED
    BY <1>5, <2>1, <2>2, <2>3, <2>4, <2>5, <2>6, <2>7, Zenon DEF RunGroupStep
<1>6. CASE UNCHANGED groupVars
  BY <1>6, StillKeeps, Zenon DEF groupVars
<1> QED
  BY <1>1, <1>2, <1>3, <1>4, <1>5, <1>6, Zenon DEF SettledNext

\* A series held by a group is tracked.
LEMMA HeldIsTracked ==
  ASSUME GroupsInv, NEW n, NEW s, Holds(n, s)
  PROVE  Tracked(s)
<1>1. /\ n \in 1..Len(instances) /\ Has(instances[n], s)
      /\ instances[n].pc # "term" \/ \E m : Heir(m, n)
  BY Zenon DEF Holds
<1>2. instances[n].prev \in Seq(SUBSET RuleSeriesAll)
  BY <1>1, GroupIs, GroupFields, Zenon
<1>3. DOMAIN instances[n].prev = 1..Len(instances[n].prev)
  BY <1>2
<1>4. s \in instances[n].stale \cup UNION Range(instances[n].prev)
  BY <1>1, <1>3, Zenon DEF Has, Range
<1> QED
  BY <1>1, <1>4, Zenon DEF Tracked, Heir

\* For every set of configurations: no live series is ever forgotten, when a
\* reload comes only after every group has been evaluated once (Manager.Update,
\* Group.CopyState, Group.Eval and the cleanup of removed groups).
THEOREM NoSeriesIsForgotten == SettledSpec => []LiveSeriesTracked
<1>1. GroupsInit => GroupsInv /\ HoldInv
  BY GroupsInitially, Zenon
<1>2. GroupsInv /\ HoldInv /\ [SettledNext]_groupVars => GroupsInv' /\ HoldInv'
  BY GroupsStepKeeps, Zenon
<1>3. GroupsInv /\ HoldInv => LiveSeriesTracked
  BY HeldIsTracked, Zenon DEF HoldInv, LiveSeriesTracked
<1> QED
  BY <1>1, <1>2, <1>3, PTL DEF SettledSpec

\* What a cleanup does to a series that was written after the group had ended.
LEMMA CleanupSpares ==
  ASSUME NEW n, NEW s \in RuleSeriesAll, CleanupRemoved(n), lastSample[s].live,
         lastSample[s].t \in Nat, instances[n].ts \in Nat, lastSample[s].t > instances[n].ts
  PROVE  lastSample'[s].live
<1> DEFINE ts == instances[n].ts
<1>1. ~(ts > lastSample[s].t)
  OBVIOUS
<1>2. CASE lastSample' = Store(lastSample, instances[n].stale, ts, FALSE)
  BY <1>1, <1>2, Zenon DEF Store
<1>3. CASE UNCHANGED lastSample
  BY <1>3, Zenon
<1> QED
  BY <1>2, <1>3, Zenon DEF CleanupRemoved, CleanupTs

\* For every set of configurations: the cleanup of a removed group leaves the
\* series alone that a renamed rule has written since (the goroutine that
\* Group.run leaves behind).
THEOREM RenamedRulesAreSpared == SettledSpec => RenamedRulesStayLive
<1>1. GroupsInit => GroupsInv /\ HoldInv
  BY GroupsInitially, Zenon
<1>2. GroupsInv /\ HoldInv /\ [SettledNext]_groupVars => GroupsInv' /\ HoldInv'
  BY GroupsStepKeeps, Zenon
<1> DEFINE Spared == \A n \in 1..Len(instances) : CleanupRemoved(n) =>
                        \A s \in RuleSeriesAll :
                            lastSample[s].live /\ lastSample[s].t > instances[n].ts => lastSample'[s].live
<1>3. GroupsInv => Spared
  <2> SUFFICES ASSUME GroupsInv PROVE Spared
    OBVIOUS
  <2>1. \A s \in RuleSeriesAll : lastSample[s].t \in Nat
    BY Zenon DEF GroupsInv, GroupsType
  <2>2. \A n \in 1..Len(instances) : instances[n].ts \in Nat
    BY GroupIs, GroupFields, Zenon
  <2> QED
    BY <2>1, <2>2, CleanupSpares, Zenon
<1>4. GroupsInv => [Spared]_groupVars
  BY <1>3, Zenon
<1> QED
  BY <1>1, <1>2, <1>4, PTL DEF SettledSpec, RenamedRulesStayLive
==============================================================================
