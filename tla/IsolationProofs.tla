-------------------------- MODULE IsolationProofs --------------------------
(***************************************************************************)
(* Proofs about the isolation of reads from appends.  The ring of append   *)
(* IDs (TxRing) implements the queue of TxQueue, for every set of IDs,     *)
(* initial capacity and bound on its growth.  For any number of series,    *)
(* appends, reads and samples IsolationInv is inductive in module          *)
(* Isolation, and it implies that a read gets exactly the prefix of each   *)
(* series it is meant to get.                                              *)
(***************************************************************************)
EXTENDS TxRing, Isolation, TLAPS, WellFoundedInduction

-----------------------------------------------------------------------------
(* Sequences *)

\* The number of the transactions of the ring that iterator looks at, in Go's order
\* of evaluation and in short.
LEMMA ConsideredCount ==
    ASSUME NEW n \in Nat, NEW m \in Nat, NEW t \in Nat, NEW c \in Nat, NEW e \in (c + 1)..n
    PROVE  m - ((n - t) - ((c - t) + (e - c))) = e - (n - m)
OBVIOUS

\* An element of a sequence.
LEMMA ElementOfSeq ==
    ASSUME NEW S, NEW seq \in Seq(S), NEW n \in 1..Len(seq)
    PROVE  seq[n] \in S
OBVIOUS

\* The places of a sequence.
LEMMA LenProperties ==
    ASSUME NEW S, NEW seq \in Seq(S)
    PROVE  Len(seq) \in Nat /\ seq \in [1..Len(seq) -> S] /\ DOMAIN seq = 1..Len(seq)
OBVIOUS

\* A sequence with one element more.
LEMMA AppendProperties ==
    ASSUME NEW S, NEW seq \in Seq(S), NEW elt \in S
    PROVE  /\ Append(seq, elt) \in Seq(S) /\ Append(seq, elt) # <<>>
           /\ Len(Append(seq, elt)) = Len(seq) + 1
           /\ \A i \in 1..Len(seq) : Append(seq, elt)[i] = seq[i]
           /\ Append(seq, elt)[Len(seq) + 1] = elt
OBVIOUS

-----------------------------------------------------------------------------
(* The ring of append IDs *)

\* A position that has run over the end of n places at most once.
Wrapped(x, n) == IF x < n THEN x ELSE x - n

\* It is what the remainder makes of it.
LEMMA Wraps ==
    ASSUME NEW n \in Nat \ {0}, NEW x \in 0..(2 * n - 1)
    PROVE  x % n = Wrapped(x, n)
<1>1. CASE x < n
  BY <1>1 DEF Wrapped
<1>2. CASE x >= n
  BY <1>2 DEF Wrapped
<1>. QED  BY <1>1, <1>2

\* The size of an array indexed from 0.
LEMMA SizeOfArray ==
    ASSUME NEW n \in Nat \ {0}, NEW ids, DOMAIN ids = 0..(n - 1)
    PROVE  RingSize(ids) = n
<1>. DEFINE top == CHOOSE x \in DOMAIN ids : \A m \in DOMAIN ids : m <= x
<1>1. n - 1 \in DOMAIN ids /\ \A m \in DOMAIN ids : m <= n - 1
  OBVIOUS
<1>2. top \in DOMAIN ids /\ \A m \in DOMAIN ids : m <= top
  BY <1>1, Zenon
<1>3. DOMAIN ids # {} /\ RingSize(ids) = 1 + top
  BY <1>1, Zenon DEF RingSize
<1>. HIDE DEF top
<1>. QED  BY <1>1, <1>2, <1>3

\* A ring is an array of n places from 0 on that hold numbers, with the first
\* ID inside and at most n IDs.
RingOfSize(n, ids, first, count) ==
    /\ ids \in [0..(n - 1) -> Nat]
    /\ first \in 0..(n - 1)
    /\ count \in 0..n
RingInv == \E n \in Nat \ {0} : RingOfSize(n, txIDs, txIDFirst, txIDCount)

ContentsOf(ids, first, count) == [i \in 1..count |-> ids[(first + i - 1) % RingSize(ids)]]

\* What the iterator returns, without the remainder.
ReadOff(n, ids, first, count) ==
    /\ ContentsOf(ids, first, count) \in Seq(Nat)
    /\ Len(ContentsOf(ids, first, count)) = count
    /\ \A i \in 1..count : ContentsOf(ids, first, count)[i] = ids[Wrapped(first + i - 1, n)]

\* The IDs of a ring are read off its array.
LEMMA ContentsOfSize ==
    ASSUME NEW n \in Nat \ {0}, NEW ids, NEW first, NEW count, RingOfSize(n, ids, first, count)
    PROVE  RingSize(ids) = n /\ ReadOff(n, ids, first, count)
<1>. DEFINE c == ContentsOf(ids, first, count)
<1>1. RingSize(ids) = n
  BY SizeOfArray, Zenon DEF RingOfSize
<1>2. ASSUME NEW i \in 1..count
      PROVE  /\ (first + i - 1) % n = Wrapped(first + i - 1, n)
             /\ Wrapped(first + i - 1, n) \in 0..(n - 1)
  <2>. DEFINE x == first + i - 1
  <2>1. x \in 0..(2 * n - 1)
    BY DEF RingOfSize
  <2>. HIDE DEF x
  <2>2. x % n = Wrapped(x, n)
    BY <2>1, Wraps, Zenon
  <2>3. Wrapped(x, n) \in 0..(n - 1)
    BY <2>1 DEF Wrapped
  <2>. QED  BY <2>2, <2>3, Zenon DEF x
<1>3. \A i \in 1..count : c[i] = ids[(first + i - 1) % n]
  BY <1>1, Zenon DEF ContentsOf
<1>4. \A i \in 1..count : c[i] = ids[Wrapped(first + i - 1, n)]
  BY <1>2, <1>3, Zenon
<1>5. \A i \in 1..count : c[i] \in Nat
  BY <1>2, <1>4, Zenon DEF RingOfSize
<1>6. count \in Nat /\ c = [i \in 1..count |-> c[i]]
  BY DEF RingOfSize, ContentsOf
<1>. HIDE DEF c
<1>7. c \in Seq(Nat) /\ Len(c) = count
  BY <1>5, <1>6
<1>. QED  BY <1>1, <1>4, <1>7 DEF c, ReadOff

\* A new ring is empty.
LEMMA NewRing == RingInit => RingInv /\ Queue!Init
<1>. SUFFICES ASSUME RingInit PROVE RingInv /\ Queue!Init
  OBVIOUS
<1>1. RingOfSize(Capacity, txIDs, txIDFirst, txIDCount)
  BY RingAssumption DEF RingInit, RingOfSize
<1>2. Contents = <<>>
  BY DEF RingInit, Contents
<1>. QED  BY <1>1, <1>2, RingAssumption DEF RingInv, Queue!Init

\* Growing moves the IDs to the start of an array twice as large.
LEMMA Grows ==
    ASSUME NEW n \in Nat \ {0}, NEW ids, NEW first, RingOfSize(n, ids, first, n)
    PROVE  /\ RingOfSize(2 * n, RingGrown(ids, first), 0, n)
           /\ ContentsOf(RingGrown(ids, first), 0, n) = ContentsOf(ids, first, n)
<1>. DEFINE grown == RingGrown(ids, first)
<1>1. RingSize(ids) = n
  BY ContentsOfSize, Zenon
<1>2. \A i \in 0..(2 * n - 1) : grown[i] = IF i < n THEN ids[Wrapped(first + i, n)] ELSE 0
  BY <1>1 DEF RingGrown, RingOfSize, Wrapped
<1>3. \A i \in 0..(n - 1) : Wrapped(first + i, n) \in 0..(n - 1)
  BY DEF RingOfSize, Wrapped
<1>4. DOMAIN grown = 0..(2 * n - 1) /\ grown = [i \in 0..(2 * n - 1) |-> grown[i]]
  BY <1>1 DEF RingGrown
<1>. HIDE DEF grown
<1>5. \A i \in 0..(2 * n - 1) : grown[i] \in Nat
  BY <1>2, <1>3 DEF RingOfSize
<1>6. RingOfSize(2 * n, grown, 0, n)
  BY <1>4, <1>5 DEF RingOfSize
<1>7. 2 * n \in Nat \ {0}
  OBVIOUS
<1>8. ReadOff(2 * n, grown, 0, n)
  BY <1>6, <1>7, ContentsOfSize, Zenon
<1>9. ReadOff(n, ids, first, n)
  BY ContentsOfSize, Zenon
<1>10. \A i \in 1..n : grown[Wrapped(0 + i - 1, 2 * n)] = ids[Wrapped(first + i - 1, n)]
  BY <1>2 DEF Wrapped, RingOfSize
<1>11. \A i \in 1..n : ContentsOf(grown, 0, n)[i] = ContentsOf(ids, first, n)[i]
  BY <1>8, <1>9, <1>10, Zenon DEF ReadOff
<1>12. ContentsOf(grown, 0, n) = ContentsOf(ids, first, n)
  BY <1>8, <1>9, <1>11 DEF ReadOff
<1>. QED  BY <1>6, <1>12 DEF grown

\* put is the array with id behind the last of count IDs.
PutBehind(n, ids, first, count, id, put) == put = [ids EXCEPT ![Wrapped(first + count, n)] = id]

\* The array put has one ID more, and it comes last.
HasOneMore(n, ids, first, count, id, put) ==
    /\ RingOfSize(n, put, first, count + 1)
    /\ ContentsOf(put, first, count + 1) = Append(ContentsOf(ids, first, count), id)

\* An ID put behind the last one of a ring with room is appended.
LEMMA Puts ==
    ASSUME NEW n \in Nat \ {0}, NEW ids, NEW first, NEW count, RingOfSize(n, ids, first, count),
           count < n, NEW id \in Nat, NEW put, PutBehind(n, ids, first, count, id, put)
    PROVE  HasOneMore(n, ids, first, count, id, put)
<1>. DEFINE at == Wrapped(first + count, n)
<1>1. first + count \in 0..(2 * n - 1)
  BY DEF RingOfSize
<1>2. at \in 0..(n - 1)
  BY <1>1 DEF Wrapped
<1>3. put = [ids EXCEPT ![at] = id]
  BY Zenon DEF PutBehind
<1>4. \A i \in 1..count : Wrapped(first + i - 1, n) \in 0..(n - 1) /\ Wrapped(first + i - 1, n) # at
  BY DEF RingOfSize, Wrapped
<1>5. Wrapped(first + (count + 1) - 1, n) = at
  BY DEF RingOfSize
<1>. HIDE DEF at
<1>6. RingOfSize(n, put, first, count + 1)
  BY <1>2, <1>3 DEF RingOfSize
<1>7. put[at] = id /\ \A i \in 1..count : put[Wrapped(first + i - 1, n)] = ids[Wrapped(first + i - 1, n)]
  BY <1>2, <1>3, <1>4, Zenon DEF RingOfSize
<1>8. ReadOff(n, put, first, count + 1)
  BY <1>6, ContentsOfSize, Zenon
<1>9. ReadOff(n, ids, first, count)
  BY ContentsOfSize, Zenon
<1>10. /\ \A i \in 1..count : ContentsOf(put, first, count + 1)[i] = ContentsOf(ids, first, count)[i]
       /\ ContentsOf(put, first, count + 1)[count + 1] = id
  <2>1. count \in Nat
    BY DEF RingOfSize
  <2>2. ContentsOf(put, first, count + 1)[count + 1] = put[Wrapped(first + (count + 1) - 1, n)]
    BY <2>1, <1>8 DEF ReadOff
  <2>3. \A i \in 1..count : ContentsOf(put, first, count + 1)[i] = put[Wrapped(first + i - 1, n)]
    BY <2>1, <1>8 DEF ReadOff
  <2>4. \A i \in 1..count : ContentsOf(ids, first, count)[i] = ids[Wrapped(first + i - 1, n)]
    BY <1>9, Zenon DEF ReadOff
  <2>. QED  BY <1>5, <1>7, <2>2, <2>3, <2>4, Zenon
<1>11. ContentsOf(put, first, count + 1) = Append(ContentsOf(ids, first, count), id)
  BY <1>8, <1>9, <1>10 DEF ReadOff
<1>. QED  BY <1>6, <1>11, Zenon DEF HasOneMore

\* txRing.add appends to the queue, growing a full ring first.
LEMMA AddAppends ==
    ASSUME RingInv, NEW id \in RingIDs, RingAdd(id)
    PROVE  RingInv' /\ Queue!Add(id)
<1>1. PICK n \in Nat \ {0} : RingOfSize(n, txIDs, txIDFirst, txIDCount)
  BY Zenon DEF RingInv
<1>2. id \in Nat
  BY RingAssumption
<1>3. RingSize(txIDs) = n
  BY <1>1, ContentsOfSize, Zenon
<1>4. CASE txIDCount = n
  <2>. DEFINE grown == RingGrown(txIDs, txIDFirst)
  <2>1. RingOfSize(2 * n, grown, 0, n) /\ ContentsOf(grown, 0, n) = ContentsOf(txIDs, txIDFirst, n)
    BY <1>1, <1>4, Grows, Zenon
  <2>2. 2 * n \in Nat \ {0} /\ n < 2 * n
    OBVIOUS
  <2>3. RingSize(grown) = 2 * n
    BY <2>1, <2>2, ContentsOfSize, Zenon
  <2>. HIDE DEF grown
  <2>4. /\ txIDs' = [grown EXCEPT ![(0 + n) % (2 * n)] = id]
        /\ txIDFirst' = 0 /\ txIDCount' = n + 1
    BY <1>3, <1>4, <2>3, Zenon DEF RingAdd, grown
  <2>. DEFINE x == 0 + n
  <2>5. x \in 0..(2 * (2 * n) - 1)
    OBVIOUS
  <2>. HIDE DEF x
  <2>6. x % (2 * n) = Wrapped(x, 2 * n)
    BY <2>2, <2>5, Wraps, Zenon
  <2>7. PutBehind(2 * n, grown, 0, n, id, txIDs')
    BY <2>4, <2>6, Zenon DEF PutBehind, x
  <2>8. HasOneMore(2 * n, grown, 0, n, id, txIDs')
    BY <1>2, <2>1, <2>2, <2>7, Puts, Zenon
  <2>9. RingInv'
    BY <2>2, <2>4, <2>8, Zenon DEF RingInv, HasOneMore
  <2>10. Contents' = Append(Contents, id)
    BY <1>4, <2>1, <2>4, <2>8, Zenon DEF Contents, ContentsOf, HasOneMore
  <2>. QED  BY <2>9, <2>10, Zenon DEF Queue!Add
<1>5. CASE txIDCount # n
  <2>1. txIDCount < n
    BY <1>1, <1>5 DEF RingOfSize
  <2>2. /\ txIDs' = [txIDs EXCEPT ![(txIDFirst + txIDCount) % n] = id]
        /\ txIDFirst' = txIDFirst /\ txIDCount' = txIDCount + 1
    BY <1>3, <1>5, Zenon DEF RingAdd
  <2>. DEFINE x == txIDFirst + txIDCount
  <2>3. x \in 0..(2 * n - 1)
    BY <1>1, <2>1 DEF RingOfSize
  <2>. HIDE DEF x
  <2>4. x % n = Wrapped(x, n)
    BY <2>3, Wraps, Zenon
  <2>5. PutBehind(n, txIDs, txIDFirst, txIDCount, id, txIDs')
    BY <2>2, <2>4, Zenon DEF PutBehind, x
  <2>6. HasOneMore(n, txIDs, txIDFirst, txIDCount, id, txIDs')
    BY <1>1, <1>2, <2>1, <2>5, Puts, Zenon
  <2>7. RingInv'
    BY <2>2, <2>6, Zenon DEF RingInv, HasOneMore
  <2>8. Contents' = Append(Contents, id)
    BY <2>2, <2>6, Zenon DEF Contents, ContentsOf, HasOneMore
  <2>. QED  BY <2>7, <2>8, Zenon DEF Queue!Add
<1>. QED  BY <1>4, <1>5, Zenon

\* The number of IDs that a cleanup takes off a queue is unique.
LEMMA CleanupIsUnique ==
    ASSUME NEW c \in Seq(Nat), NEW b \in Nat, NEW k \in 0..Len(c), Queue!KeepsFrom(c, b, k)
    PROVE  Queue!CleanupBelow(c, b) = SubSeq(c, k + 1, Len(c))
<1>. DEFINE m == CHOOSE j \in 0..Len(c) : Queue!KeepsFrom(c, b, j)
<1>1. m \in 0..Len(c) /\ Queue!KeepsFrom(c, b, m)
  BY Zenon
<1>2. Queue!CleanupBelow(c, b) = SubSeq(c, m + 1, Len(c))
  BY Zenon DEF Queue!CleanupBelow
<1>. HIDE DEF m
<1>3. m = k
  BY <1>1 DEF Queue!KeepsFrom
<1>. QED  BY <1>2, <1>3, Zenon

\* txRing.cleanupAppendIDsBelow takes the IDs off the front of the queue.
LEMMA CleanupPops ==
    ASSUME RingInv, NEW b \in RingIDs, RingCleanup(b)
    PROVE  RingInv' /\ Queue!Cleanup(b)
<1>1. PICK n \in Nat \ {0} : RingOfSize(n, txIDs, txIDFirst, txIDCount)
  BY Zenon DEF RingInv
<1>2. b \in Nat
  BY RingAssumption
<1>3. RingSize(txIDs) = n /\ ReadOff(n, txIDs, txIDFirst, txIDCount)
  BY <1>1, ContentsOfSize, Zenon
<1>4. PICK k \in 0..txIDCount :
        /\ \A i \in 0..(k - 1) : txIDs[(txIDFirst + i) % n] < b
        /\ k < txIDCount => txIDs[(txIDFirst + k) % n] >= b
        /\ txIDFirst' = (txIDFirst + k) % n
        /\ txIDCount' = txIDCount - k
        /\ txIDs' = txIDs
  BY <1>3, Zenon DEF RingCleanup
<1>. DEFINE first == Wrapped(txIDFirst + k, n)
<1>5. \A i \in 0..txIDCount : txIDFirst + i \in 0..(2 * n - 1)
  BY <1>1 DEF RingOfSize
<1>6. \A i \in 0..txIDCount : (txIDFirst + i) % n = Wrapped(txIDFirst + i, n)
  BY <1>5, Wraps, Zenon
<1>7. \A i \in 0..(k - 1) : i \in 0..txIDCount /\ i + 1 \in 1..txIDCount /\ txIDFirst + (i + 1) - 1 = txIDFirst + i
  BY <1>1 DEF RingOfSize
<1>8. Contents = ContentsOf(txIDs, txIDFirst, txIDCount)
  BY Zenon DEF Contents, ContentsOf
<1>9. Contents \in Seq(Nat) /\ Len(Contents) = txIDCount
  BY <1>3, <1>8, Zenon DEF ReadOff
<1>10. Queue!KeepsFrom(Contents, b, k)
  <2>1. ASSUME NEW j \in 1..k
        PROVE  Contents[j] < b
    <3>1. j - 1 \in 0..(k - 1) /\ j - 1 \in 0..txIDCount /\ j \in 1..txIDCount /\ txIDFirst + j - 1 = txIDFirst + (j - 1)
      BY <1>1 DEF RingOfSize
    <3>2. txIDs[(txIDFirst + (j - 1)) % n] < b /\ (txIDFirst + (j - 1)) % n = Wrapped(txIDFirst + (j - 1), n)
      BY <1>4, <1>6, <3>1, Zenon
    <3>3. Contents[j] = txIDs[Wrapped(txIDFirst + j - 1, n)]
      BY <1>3, <1>8, <3>1, Zenon DEF ReadOff
    <3>. QED  BY <3>1, <3>2, <3>3, Zenon
  <2>2. ASSUME k < txIDCount
        PROVE  Contents[k + 1] >= b
    <3>1. k \in 0..txIDCount /\ k + 1 \in 1..txIDCount /\ txIDFirst + (k + 1) - 1 = txIDFirst + k
      BY <1>1, <2>2 DEF RingOfSize
    <3>2. txIDs[(txIDFirst + k) % n] >= b /\ (txIDFirst + k) % n = Wrapped(txIDFirst + k, n)
      BY <1>4, <1>6, <2>2, <3>1, Zenon
    <3>3. Contents[k + 1] = txIDs[Wrapped(txIDFirst + (k + 1) - 1, n)]
      BY <1>3, <1>8, <3>1, Zenon DEF ReadOff
    <3>. QED  BY <3>1, <3>2, <3>3, Zenon
  <2>. QED  BY <1>9, <2>1, <2>2, Zenon DEF Queue!KeepsFrom
<1>11. Queue!CleanupBelow(Contents, b) = SubSeq(Contents, k + 1, txIDCount)
  BY <1>2, <1>9, <1>10, CleanupIsUnique, Zenon
<1>12. txIDFirst' = first
  BY <1>4, <1>6, Zenon
<1>13. RingOfSize(n, txIDs', txIDFirst', txIDCount')
  BY <1>1, <1>4, <1>12 DEF RingOfSize, Wrapped
<1>14. RingInv'
  BY <1>13, Zenon DEF RingInv
<1>15. Contents' = ContentsOf(txIDs', txIDFirst', txIDCount')
  BY Zenon DEF Contents, ContentsOf
<1>16. ReadOff(n, txIDs', txIDFirst', txIDCount')
  BY <1>13, ContentsOfSize, Zenon
<1>17. ASSUME NEW i \in 1..(txIDCount - k)
       PROVE  Contents'[i] = Contents[k + i]
  <2>1. Wrapped(first + i - 1, n) = Wrapped(txIDFirst + (k + i) - 1, n) /\ k + i \in 1..txIDCount
    BY <1>1 DEF RingOfSize, Wrapped
  <2>2. Contents'[i] = txIDs[Wrapped(first + i - 1, n)]
    BY <1>4, <1>12, <1>15, <1>16, Zenon DEF ReadOff
  <2>3. Contents[k + i] = txIDs[Wrapped(txIDFirst + (k + i) - 1, n)]
    BY <1>3, <1>8, <2>1, Zenon DEF ReadOff
  <2>. QED  BY <2>1, <2>2, <2>3, Zenon
<1>18. Contents' \in Seq(Nat) /\ Len(Contents') = txIDCount - k
  BY <1>4, <1>15, <1>16, Zenon DEF ReadOff
<1>19. Contents' = SubSeq(Contents, k + 1, txIDCount)
  BY <1>1, <1>9, <1>17, <1>18 DEF RingOfSize
<1>. QED  BY <1>11, <1>14, <1>19, Zenon DEF Queue!Cleanup

\* Every step of the ring is one of the queue: growing, wrapping around the end
\* of the array and cleaning never lose, reorder or resurrect an append ID.
THEOREM RingImplementsQueue == RingSpec => ImplementsQueue
<1>1. RingInit => RingInv /\ Queue!Init
  BY NewRing
<1>2. RingInv /\ [RingNext]_ringVars => RingInv' /\ [Queue!Next]_Contents
  <2>. SUFFICES ASSUME RingInv, [RingNext]_ringVars
                PROVE  RingInv' /\ [Queue!Next]_Contents
    OBVIOUS
  <2>1. CASE \E id \in RingIDs : RingAdd(id)
    BY <2>1, AddAppends, Zenon DEF Queue!Next
  <2>2. CASE \E b \in RingIDs : RingCleanup(b)
    BY <2>2, CleanupPops, Zenon DEF Queue!Next
  <2>3. CASE UNCHANGED ringVars
    BY <2>3, Zenon DEF ringVars, RingInv, Contents
  <2>. QED  BY <2>1, <2>2, <2>3, Zenon DEF RingNext
<1>. QED  BY <1>1, <1>2, PTL DEF RingSpec, ImplementsQueue, Queue!Spec

-----------------------------------------------------------------------------
\* A non-empty set of naturals has a smallest element, and Smallest picks it.
LEMMA SmallestIsLeast ==
    ASSUME NEW S, S \subseteq Nat, S # {}
    PROVE  Smallest(S) \in S /\ \A y \in S : Smallest(S) <= y
<1>1. \E x \in S : \A y \in S : ~(<<y, x>> \in OpToRel(<, Nat))
  BY NatLessThanWellFounded, WFMin, Zenon
<1>2. \E x \in S : \A y \in S : x <= y
  <2>1. PICK x \in S : \A y \in S : ~(<<y, x>> \in OpToRel(<, Nat))
    BY Zenon, <1>1
  <2>2. \A y \in S : ~(y < x)
    BY <2>1, Zenon DEF OpToRel
  <2>. QED  BY <2>2
<1>. QED  BY Zenon, <1>2 DEF Smallest

\* The number of IDs a cleanup pops exists: all of them are below the bound,
\* and the next one, if there is one, is not.
LEMMA CleanupCount ==
    ASSUME NEW ring \in Seq(AppendIDs), NEW b \in Nat
    PROVE  \E k \in 0..Len(ring) : KeepsFrom(ring, b, k)
<1>. DEFINE stay == {i \in 1..Len(ring) : ring[i] >= b}
<1>1. CASE stay = {}
  <2>1. \A i \in 1..Len(ring) : ring[i] < b
    BY <1>1, BoundsAssumption DEF AppendIDs
  <2>2. KeepsFrom(ring, b, Len(ring))
    BY <2>1 DEF KeepsFrom
  <2>. QED  BY <2>2
<1>2. CASE stay # {}
  <2>1. stay \subseteq Nat
    OBVIOUS
  <2>2. Smallest(stay) \in stay /\ \A y \in stay : Smallest(stay) <= y
    BY Zenon, <1>2, <2>1, SmallestIsLeast
  <2>3. PICK m \in stay : \A y \in stay : m <= y
    BY <2>2
  <2>4. KeepsFrom(ring, b, m - 1)
    BY <2>3, BoundsAssumption DEF KeepsFrom, AppendIDs
  <2>. QED  BY <2>3, <2>4
<1>. QED  BY <1>1, <1>2

\* What a cleanup leaves is the end of the ring; what it pops is below the bound.
LEMMA CleanupLeavesSuffix ==
    ASSUME NEW ring \in Seq(AppendIDs), NEW b \in Nat
    PROVE  \E k \in 0..Len(ring) :
              /\ CleanupBelow(ring, b) \in Seq(AppendIDs)
              /\ Len(CleanupBelow(ring, b)) = Len(ring) - k
              /\ \A i \in 1..(Len(ring) - k) : CleanupBelow(ring, b)[i] = ring[k + i]
              /\ \A i \in 1..k : ring[i] < b
<1>. DEFINE k == CHOOSE k \in 0..Len(ring) : KeepsFrom(ring, b, k)
<1>1. k \in 0..Len(ring) /\ KeepsFrom(ring, b, k)
  BY Zenon, CleanupCount
<1>2. CleanupBelow(ring, b) = SubSeq(ring, k + 1, Len(ring))
  BY DEF CleanupBelow
<1>. HIDE DEF k
<1>3. /\ SubSeq(ring, k + 1, Len(ring)) \in Seq(AppendIDs)
      /\ Len(SubSeq(ring, k + 1, Len(ring))) = Len(ring) - k
      /\ \A i \in 1..(Len(ring) - k) : SubSeq(ring, k + 1, Len(ring))[i] = ring[k + i]
  BY <1>1
<1>. QED  BY SMTT(30), <1>1, <1>2, <1>3 DEF KeepsFrom

-----------------------------------------------------------------------------
(* IsolationInv is inductive: one lemma per action. *)

\* The empty head satisfies the inductive invariant.
LEMMA InitInv == Init => IsolationInv
BY BoundsAssumption
   DEF Init, IsolationInv, TypeOK, BoundsBelowWatermarks, ReadStatesCurrent, RingIsSuffix,
       ChunksCover, ForgottenIDsAreSettled, AppendIDs, Reads, IsoState

\* The lowest open append, or the last ID, is an ID not above any open append.
LEMMA LowestAppendIDLow ==
    ASSUME TypeOK
    PROVE  /\ LowestAppendID \in 0..lastAppendID
           /\ \A a \in appendsOpen : LowestAppendID <= a
           /\ appendsOpen # {} => LowestAppendID \in appendsOpen
           /\ appendsOpen = {} => LowestAppendID = lastAppendID
<1>1. CASE appendsOpen = {}
  BY <1>1, BoundsAssumption DEF LowestAppendID, TypeOK
<1>2. CASE appendsOpen # {}
  <2>1. appendsOpen \subseteq Nat
    BY BoundsAssumption DEF TypeOK
  <2>2. PICK m \in appendsOpen : m = Smallest(appendsOpen) /\ \A y \in appendsOpen : m <= y
    BY Zenon, <1>2, <2>1, SmallestIsLeast
  <2>3. LowestAppendID = m /\ m \in 0..lastAppendID
    BY <1>2, <2>2, BoundsAssumption DEF LowestAppendID, TypeOK
  <2>. QED  BY <1>2, <2>2, <2>3
<1>. QED  BY <1>1, <1>2

\* The bound handed out with a new ID is below every open append, the new one
\* included, and below the watermark of every open read.
LEMMA LowWatermarkLow ==
    ASSUME IsolationInv, lastAppendID < MaxAppendID
    PROVE  /\ LowWatermark(lastAppendID + 1) \in 0..(lastAppendID + 1)
           /\ \A a \in appendsOpen : LowWatermark(lastAppendID + 1) <= a
           /\ \A r \in readsOpen : LowWatermark(lastAppendID + 1) <= isoState[r].lowWatermark
<1>. USE DEF IsolationInv
<1>1. CASE readsOpen # {}
  <2>1. readsOpen \subseteq Nat /\ readsOpen \subseteq Reads
    BY BoundsAssumption DEF TypeOK, Reads
  <2>2. PICK r \in readsOpen : r = Smallest(readsOpen) /\ \A q \in readsOpen : r <= q
    BY Zenon, <1>1, <2>1, SmallestIsLeast
  <2>3. LowWatermark(lastAppendID + 1) = isoState[r].lowWatermark
    BY <1>1, <2>2 DEF LowWatermark
  <2>4. isoState[r] \in IsoState
    BY <2>1 DEF TypeOK
  <2>5. isoState[r].lowWatermark \in 0..lastAppendID
    BY <2>1, <2>4, BoundsAssumption DEF ReadStatesCurrent, IsoState, TypeOK
  <2>6. \A q \in readsOpen : isoState[r].lowWatermark <= isoState[q].lowWatermark
    BY <2>2 DEF BoundsBelowWatermarks
  <2>. QED
    BY <2>3, <2>5, <2>6, BoundsAssumption DEF BoundsBelowWatermarks, TypeOK
<1>2. CASE readsOpen = {} /\ appendsOpen = {}
  BY <1>2, BoundsAssumption DEF LowWatermark, TypeOK
<1>3. CASE readsOpen = {} /\ appendsOpen # {}
  <2>1. appendsOpen \subseteq Nat
    BY BoundsAssumption DEF TypeOK
  <2>2. PICK m \in appendsOpen : m = Smallest(appendsOpen) /\ \A y \in appendsOpen : m <= y
    BY Zenon, <1>3, <2>1, SmallestIsLeast
  <2>3. LowWatermark(lastAppendID + 1) = m /\ m \in 0..(lastAppendID + 1)
    BY <1>3, <2>2, BoundsAssumption DEF LowWatermark, TypeOK
  <2>. QED  BY <1>3, <2>2, <2>3
<1>. QED  BY <1>1, <1>2, <1>3

\* Handing out an append ID keeps it: the new bound is a low watermark.
LEMMA NewAppendIDInv == IsolationInv /\ NewAppendID => IsolationInv'
<1>. SUFFICES ASSUME IsolationInv, NewAppendID PROVE IsolationInv'
  OBVIOUS
<1>. USE BoundsAssumption DEF IsolationInv
<1>. DEFINE id == lastAppendID + 1
            w == LowWatermark(id)
<1>1. /\ w \in 0..id
      /\ \A a \in appendsOpen : w <= a
      /\ \A r \in readsOpen : w <= isoState[r].lowWatermark
  BY LowWatermarkLow DEF NewAppendID
<1>. HIDE DEF w
<1>2. /\ lastAppendID \in 0..MaxAppendID /\ id \in AppendIDs
      /\ appendsOpen' = appendsOpen \cup {id} /\ lastAppendID' = id
      /\ bound' = [bound EXCEPT ![id] = w]
      /\ UNCHANGED <<lastRead, readsOpen, isoState, history, truncated, starts, txs>>
  BY DEF NewAppendID, TypeOK, AppendIDs, seriesVars, w
<1>3. TypeOK'
  <2>1. bound' \in [AppendIDs -> 0..MaxAppendID]
    BY <1>1, <1>2 DEF TypeOK, AppendIDs
  <2>2. appendsOpen' \in SUBSET (1..lastAppendID') /\ lastAppendID' \in 0..MaxAppendID
    BY <1>2 DEF TypeOK, AppendIDs
  <2>3. \A s \in Series : \A p \in 1..Len(history[s]) : history[s][p] <= lastAppendID'
    <3>. TAKE s \in Series
    <3>. TAKE p \in 1..Len(history[s])
    <3>1. history[s] \in Seq(AppendIDs)
      BY DEF TypeOK
    <3>2. history[s][p] \in Nat
      BY <3>1, ElementOfSeq DEF AppendIDs
    <3>3. history[s][p] <= lastAppendID
      BY Zenon DEF TypeOK
    <3>. HIDE DEF IsolationInv
    <3>. QED  BY <1>2, <3>2, <3>3
  <2>. QED  BY <1>2, <2>1, <2>2, <2>3 DEF TypeOK
<1>4. BoundsBelowWatermarks'
  <2>1. /\ bound'[id] = w
        /\ \A a \in appendsOpen : a # id /\ a < id /\ bound'[a] = bound[a]
    BY <1>2 DEF TypeOK, AppendIDs
  <2>2. \A r \in readsOpen : isoState[r].lowWatermark \in 0..lastAppendID
    BY DEF TypeOK, ReadStatesCurrent, Reads, IsoState
  <2>3. \A a \in appendsOpen : bound[a] \in Nat /\ a \in Nat
    BY DEF TypeOK, AppendIDs
  <2>. QED  BY <1>1, <1>2, <2>1, <2>2, <2>3 DEF BoundsBelowWatermarks
<1>5. ReadStatesCurrent'
  <2>1. \A r \in readsOpen : isoState[r].maxAppendID \in 0..lastAppendID
    BY DEF TypeOK, ReadStatesCurrent, Reads, IsoState
  <2>. QED  BY <1>2, <2>1 DEF ReadStatesCurrent
<1>6. RingIsSuffix' /\ ChunksCover' /\ ForgottenIDsAreSettled'
  <2>1. \A s \in Series : /\ history[s] \in Seq(AppendIDs) /\ txs[s] \in Seq(AppendIDs)
    BY DEF TypeOK
  <2>2. \A s \in Series : \A p \in 1..(Len(history[s]) - Len(txs[s])) :
           history[s][p] \in Nat /\ history[s][p] < lastAppendID
    <3>. SUFFICES ASSUME NEW s \in Series, NEW p \in 1..(Len(history[s]) - Len(txs[s]))
                 PROVE  history[s][p] \in Nat /\ history[s][p] < lastAppendID
      BY Zenon
    <3>1. Len(history[s]) \in Nat /\ Len(txs[s]) \in Nat
      BY <2>1, LenProperties
    <3>2. p \in 1..Len(history[s])
      BY <3>1
    <3>3. history[s][p] \in AppendIDs
      BY <2>1, <3>2, ElementOfSeq
    <3>4. history[s][p] < lastAppendID
      BY Zenon DEF RingIsSuffix
    <3>. QED  BY <3>3, <3>4 DEF AppendIDs
  <2>3. RingIsSuffix'
    <3>1. \A s \in Series : \A p \in 1..(Len(history[s]) - Len(txs[s])) :
             history[s][p] < lastAppendID'
      <4>. HIDE DEF IsolationInv
      <4>. QED  BY <1>2, <2>2
    <3>. QED  BY <1>2, <3>1, Zenon DEF RingIsSuffix
  <2>4. ChunksCover'
    BY <1>2 DEF ChunksCover
  <2>5. ForgottenIDsAreSettled'
    BY <1>2, <2>2 DEF ForgottenIDsAreSettled
  <2>. QED  BY <2>3, <2>4, <2>5
<1>. QED  BY <1>3, <1>4, <1>5, <1>6

\* Closing an append keeps it: fewer appends to lie below.
LEMMA CloseAppendInv == ASSUME NEW a, IsolationInv, CloseAppend(a) PROVE IsolationInv'
<1>. USE DEF IsolationInv
<1>1. /\ appendsOpen' \subseteq appendsOpen
      /\ UNCHANGED <<lastAppendID, bound, lastRead, readsOpen, isoState, history, truncated,
                     starts, txs>>
  BY DEF CloseAppend, seriesVars
<1>2. TypeOK'
  BY <1>1 DEF TypeOK
<1>3. BoundsBelowWatermarks' /\ ReadStatesCurrent'
  BY <1>1 DEF BoundsBelowWatermarks, ReadStatesCurrent
<1>4. RingIsSuffix' /\ ChunksCover' /\ ForgottenIDsAreSettled'
  BY Zenon, <1>1 DEF RingIsSuffix, ChunksCover, ForgottenIDsAreSettled
<1>. QED  BY <1>2, <1>3, <1>4

\* Closing a read keeps it: fewer reads to lie below.
LEMMA CloseReadInv == ASSUME NEW r, IsolationInv, CloseRead(r) PROVE IsolationInv'
<1>. USE DEF IsolationInv
<1>1. /\ readsOpen' \subseteq readsOpen
      /\ UNCHANGED <<lastAppendID, appendsOpen, bound, lastRead, isoState, history, truncated,
                     starts, txs>>
  BY DEF CloseRead, seriesVars
<1>2. TypeOK'
  BY <1>1 DEF TypeOK
<1>3. BoundsBelowWatermarks' /\ ReadStatesCurrent'
  BY <1>1 DEF BoundsBelowWatermarks, ReadStatesCurrent
<1>4. RingIsSuffix' /\ ChunksCover' /\ ForgottenIDsAreSettled'
  BY Zenon, <1>1 DEF RingIsSuffix, ChunksCover, ForgottenIDsAreSettled
<1>. QED  BY <1>2, <1>3, <1>4

\* Opening a read keeps it: its watermark is the newest of all.
LEMMA OpenReadInv == ASSUME IsolationInv, OpenRead PROVE IsolationInv'
<1>. USE BoundsAssumption DEF IsolationInv
<1>. DEFINE n == lastRead + 1
            st == [maxAppendID |-> lastAppendID, lowWatermark |-> LowestAppendID,
                   incompleteAppends |-> appendsOpen]
<1>1. /\ n \in Reads /\ lastRead \in 0..MaxReads /\ lastRead' = n
      /\ readsOpen' = readsOpen \cup {n} /\ isoState' = [isoState EXCEPT ![n] = st]
      /\ UNCHANGED <<lastAppendID, appendsOpen, bound, history, truncated, starts, txs>>
  BY DEF OpenRead, TypeOK, Reads, seriesVars
<1>2. /\ LowestAppendID \in 0..lastAppendID
      /\ \A a \in appendsOpen : LowestAppendID <= a
      /\ appendsOpen # {} => LowestAppendID \in appendsOpen
      /\ appendsOpen = {} => LowestAppendID = lastAppendID
  BY LowestAppendIDLow
<1>3. /\ isoState'[n] = st /\ st \in IsoState
      /\ \A r \in readsOpen : r \in Reads /\ r < n /\ isoState'[r] = isoState[r]
  <2>1. isoState \in [Reads -> IsoState] /\ lastAppendID \in 0..MaxAppendID /\ appendsOpen \in SUBSET AppendIDs
    BY DEF TypeOK, AppendIDs
  <2>2. isoState'[n] = st
    BY <1>1, <2>1
  <2>3. st \in IsoState
    BY <1>2, <2>1, BoundsAssumption DEF IsoState, AppendIDs
  <2>4. \A r \in readsOpen : r \in Reads /\ r < n
    BY <1>1 DEF TypeOK, Reads
  <2>5. \A r \in readsOpen : isoState'[r] = isoState[r]
    BY <1>1, <2>1, <2>4 DEF Reads
  <2>. QED  BY <2>2, <2>3, <2>4, <2>5
<1>4. TypeOK'
  <2>1. isoState' \in [Reads -> IsoState]
    BY <1>1, <1>3 DEF TypeOK
  <2>2. readsOpen' \in SUBSET (1..lastRead') /\ lastRead' \in 0..MaxReads
    BY <1>1 DEF TypeOK, Reads
  <2>. QED  BY <1>1, <2>1, <2>2 DEF TypeOK
<1>5. /\ st.maxAppendID = lastAppendID /\ st.lowWatermark = LowestAppendID
      /\ st.incompleteAppends = appendsOpen
  OBVIOUS
<1>. HIDE DEF st
<1>6. BoundsBelowWatermarks'
  <2>1. \A r \in readsOpen : isoState[r].lowWatermark <= LowestAppendID
    <3>. TAKE r \in readsOpen
    <3>1. CASE appendsOpen # {}
      BY <1>2, <3>1 DEF BoundsBelowWatermarks
    <3>2. CASE appendsOpen = {}
      BY <1>2, <1>3, <3>2 DEF ReadStatesCurrent, TypeOK, IsoState
    <3>. QED  BY <3>1, <3>2
  <2>2. \A a \in appendsOpen : bound[a] <= LowestAppendID
    BY <1>2 DEF BoundsBelowWatermarks
  <2>3. \A q, r \in readsOpen' : q <= r => isoState'[q].lowWatermark <= isoState'[r].lowWatermark
    <3>. TAKE q, r \in readsOpen'
    <3>. HAVE q <= r
    <3>1. CASE q \in readsOpen /\ r \in readsOpen
      BY <1>3, <3>1 DEF BoundsBelowWatermarks
    <3>2. CASE q \in readsOpen /\ r = n
      BY <1>3, <1>5, <2>1, <3>2
    <3>3. CASE q = n /\ r = n
      BY <1>2, <1>3, <1>5, <3>3 DEF TypeOK
    <3>4. CASE q = n /\ r \in readsOpen
      BY <1>1, <1>3, <3>4 DEF Reads
    <3>. QED  BY <1>1, <3>1, <3>2, <3>3, <3>4
  <2>4. \A a \in appendsOpen, r \in readsOpen' :
           bound[a] <= isoState'[r].lowWatermark /\ isoState'[r].lowWatermark <= a
    BY <1>1, <1>2, <1>3, <1>5, <2>2 DEF BoundsBelowWatermarks
  <2>5. /\ \A a \in appendsOpen : bound[a] <= a
        /\ \A a, b \in appendsOpen : bound[a] <= b
    BY DEF BoundsBelowWatermarks
  <2>. QED  BY <1>1, <2>3, <2>4, <2>5 DEF BoundsBelowWatermarks
<1>7. ReadStatesCurrent'
  <2>. DEFINE Current(u) ==
                  /\ u.lowWatermark <= u.maxAppendID
                  /\ u.maxAppendID <= lastAppendID
                  /\ \A i \in u.incompleteAppends : u.lowWatermark <= i
                  /\ \A a \in appendsOpen : a <= u.maxAppendID => a \in u.incompleteAppends
  <2>1. \A r \in readsOpen : Current(isoState[r])
    BY DEF ReadStatesCurrent
  <2>2. Current(st)
    <3>1. lastAppendID \in Nat
      BY DEF TypeOK
    <3>2. LowestAppendID <= lastAppendID /\ lastAppendID <= lastAppendID
      BY <1>2, <3>1
    <3>3. st.lowWatermark <= st.maxAppendID /\ st.maxAppendID <= lastAppendID
      BY <1>5, <3>2
    <3>. QED  BY <1>2, <1>5, <3>3, Zenon
  <2>3. \A r \in readsOpen' : Current(isoState'[r])
    <3>. HIDE DEF Current
    <3>. QED  BY <1>1, <1>3, <2>1, <2>2
  <2>. QED  BY <1>1, <2>3 DEF ReadStatesCurrent
<1>8. RingIsSuffix' /\ ChunksCover'
  BY Zenon, <1>1 DEF RingIsSuffix, ChunksCover
<1>9. ForgottenIDsAreSettled'
  <2>. SUFFICES ASSUME NEW s \in Series, NEW p \in 1..(Len(history[s]) - Len(txs[s]))
                PROVE  /\ \A a \in appendsOpen : history[s][p] < a
                       /\ \A r \in readsOpen' : history[s][p] < isoState'[r].lowWatermark
    BY <1>1 DEF ForgottenIDsAreSettled
  <2>1. /\ \A a \in appendsOpen : history[s][p] < a
        /\ \A r \in readsOpen : history[s][p] < isoState[r].lowWatermark
    BY Zenon DEF ForgottenIDsAreSettled
  <2>2. history[s][p] < lastAppendID
    BY Zenon DEF RingIsSuffix
  <2>3. history[s][p] < LowestAppendID
    BY <1>2, <2>1, <2>2
  <2>. QED  BY <1>1, <1>3, <1>5, <2>1, <2>3
<1>. QED  BY <1>4, <1>6, <1>7, <1>8, <1>9

\* The end of a chunk lies after its start, and no chunk starts in between.
LEMMA ChunkEndInside ==
    ASSUME IsolationInv, NEW s \in Series, NEW c \in starts[s]
    PROVE  /\ ChunkEnd(s, c) \in (c + 1)..Len(history[s])
           /\ \A d \in starts[s] : d > c => ChunkEnd(s, c) <= d
           /\ ChunkEnd(s, c) # Len(history[s]) => ChunkEnd(s, c) \in starts[s]
<1>. USE BoundsAssumption DEF IsolationInv
<1>. DEFINE later == {d \in starts[s] : d > c}
<1>1. starts[s] \subseteq Nat /\ c \in Nat /\ Len(history[s]) \in Nat
  BY LenProperties DEF TypeOK
<1>2. c < Len(history[s]) /\ \A d \in starts[s] : d < Len(history[s])
  BY DEF ChunksCover
<1>3. CASE later = {}
  BY <1>1, <1>2, <1>3 DEF ChunkEnd
<1>4. CASE later # {}
  <2>1. PICK m \in later : m = Smallest(later) /\ \A y \in later : m <= y
    <3>1. later \subseteq Nat
      BY <1>1
    <3>. QED  BY <1>4, <3>1, SmallestIsLeast
  <2>2. ChunkEnd(s, c) = m
    BY <1>4, <2>1 DEF ChunkEnd
  <2>. QED  BY <1>1, <1>2, <2>1, <2>2
<1>. QED  BY <1>3, <1>4

\* Dropping the oldest chunk keeps it: the next chunk starts where it ended.
LEMMA TruncateChunkInv == ASSUME NEW s \in Series, IsolationInv, TruncateChunk(s) PROVE IsolationInv'
<1>. USE BoundsAssumption DEF IsolationInv
<1>. DEFINE c == Smallest(starts[s])
            e == ChunkEnd(s, c)
<1>0. starts[s] \subseteq Nat /\ starts[s] # {} /\ Len(history[s]) \in Nat
  BY LenProperties DEF TruncateChunk, TypeOK
<1>1. c \in starts[s] /\ \A d \in starts[s] : c <= d
  BY <1>0, SmallestIsLeast
<1>2. /\ truncated' = [truncated EXCEPT ![s] = e]
      /\ starts' = [starts EXCEPT ![s] = @ \ {c}]
      /\ UNCHANGED <<lastAppendID, appendsOpen, bound, lastRead, readsOpen, isoState, history, txs>>
  BY DEF TruncateChunk, isoVars
<1>. HIDE DEF c
<1>3. /\ e \in (c + 1)..Len(history[s])
      /\ \A d \in starts[s] : d > c => e <= d
      /\ e # Len(history[s]) => e \in starts[s]
  BY <1>1, ChunkEndInside
<1>. HIDE DEF e
<1>4. c \in Nat /\ e \in 0..MaxSamples /\ Len(history[s]) <= MaxSamples
  BY <1>0, <1>1, <1>3 DEF ChunksCover
<1>5. TypeOK'
  BY <1>2, <1>4 DEF TypeOK
<1>6. BoundsBelowWatermarks' /\ ReadStatesCurrent' /\ RingIsSuffix' /\ ForgottenIDsAreSettled'
  BY Zenon, <1>2 DEF BoundsBelowWatermarks, ReadStatesCurrent, RingIsSuffix, ForgottenIDsAreSettled
<1>7. ChunksCover'
  <2>. SUFFICES ASSUME NEW u \in Series
                PROVE  /\ truncated'[u] <= Len(history[u])
                       /\ Len(history[u]) <= MaxSamples
                       /\ \A d \in starts'[u] : truncated'[u] <= d /\ d < Len(history[u])
                       /\ truncated'[u] < Len(history[u]) => truncated'[u] \in starts'[u]
    BY <1>2 DEF ChunksCover
  <2>1. CASE u # s
    BY <1>2, <2>1 DEF ChunksCover, TypeOK
  <2>2. CASE u = s
    <3>1. truncated'[s] = e /\ starts'[s] = starts[s] \ {c}
      BY <1>2 DEF TypeOK
    <3>2. \A d \in starts[s] \ {c} : e <= d /\ d < Len(history[s])
      BY <1>0, <1>1, <1>3, <1>4 DEF ChunksCover
    <3>3. e < Len(history[s]) => e \in starts[s] \ {c}
      BY <1>0, <1>3, <1>4
    <3>. QED  BY <1>0, <1>3, <1>4, <2>2, <3>1, <3>2, <3>3
  <2>. QED  BY <2>1, <2>2
<1>. QED  BY <1>5, <1>6, <1>7

\* The ring holds the IDs of the newest samples of history h.
EndOf(ring, h) ==
    /\ Len(ring) <= Len(h)
    /\ \A i \in 1..Len(ring) : ring[i] = h[Len(h) - Len(ring) + i]

\* Cleaning a ring that is the end of history h leaves an end of h, and what is
\* newly forgotten is below the bound.
LEMMA CleanupKeepsEnd ==
    ASSUME NEW h \in Seq(AppendIDs), NEW ring \in Seq(AppendIDs), NEW b \in Nat, EndOf(ring, h)
    PROVE  /\ CleanupBelow(ring, b) \in Seq(AppendIDs)
           /\ EndOf(CleanupBelow(ring, b), h)
           /\ \A p \in 1..(Len(h) - Len(CleanupBelow(ring, b))) :
                 p \in 1..(Len(h) - Len(ring)) \/ h[p] < b
<1>. DEFINE left == CleanupBelow(ring, b)
<1>1. PICK k \in 0..Len(ring) :
         /\ left \in Seq(AppendIDs)
         /\ Len(left) = Len(ring) - k
         /\ \A i \in 1..(Len(ring) - k) : left[i] = ring[k + i]
         /\ \A i \in 1..k : ring[i] < b
  BY Zenon, CleanupLeavesSuffix
<1>. HIDE DEF left
<1>2. Len(h) \in Nat /\ Len(ring) \in Nat
  BY LenProperties
<1>20. /\ Len(ring) <= Len(h)
       /\ \A i \in 1..Len(ring) : ring[i] = h[Len(h) - Len(ring) + i]
  BY DEF EndOf
<1>3. EndOf(left, h)
  <2>. SUFFICES ASSUME NEW i \in 1..Len(left) PROVE left[i] = h[Len(h) - Len(left) + i]
    BY <1>1, <1>2, <1>20 DEF EndOf
  <2>1. k + i \in 1..Len(ring) /\ Len(h) - Len(left) + i = Len(h) - Len(ring) + (k + i)
    BY <1>1, <1>2
  <2>. QED  BY <1>1, <1>20, <2>1
<1>4. \A p \in 1..(Len(h) - Len(left)) : p \in 1..(Len(h) - Len(ring)) \/ h[p] < b
  <2>. TAKE p \in 1..(Len(h) - Len(left))
  <2>. DEFINE i == p - (Len(h) - Len(ring))
  <2>1. CASE p <= Len(h) - Len(ring)
    BY <1>2, <2>1
  <2>2. CASE p > Len(h) - Len(ring)
    <3>1. i \in 1..k /\ Len(h) - Len(ring) + i = p /\ i \in 1..Len(ring)
      BY <1>1, <1>2, <2>2
    <3>. QED  BY Zenon, <1>1, <1>20, <3>1
  <2>. QED  BY <1>2, <2>1, <2>2
<1>. QED  BY <1>1, <1>3, <1>4 DEF left

\* A step that gives series s the history h and the ring left, an end of h, and
\* forgets only IDs below the bound of an open append, keeps the ring parts of
\* the invariant.
LEMMA RingStep ==
    ASSUME NEW s \in Series, NEW a \in appendsOpen, IsolationInv,
           NEW h \in Seq(AppendIDs), NEW left \in Seq(AppendIDs),
           EndOf(left, h),
           \A p \in 1..(Len(h) - Len(left)) :
               \/ p \in 1..(Len(history[s]) - Len(txs[s])) /\ h[p] = history[s][p]
               \/ h[p] < bound[a],
           history' = [history EXCEPT ![s] = h], txs' = [txs EXCEPT ![s] = left],
           UNCHANGED isoVars
    PROVE  RingIsSuffix' /\ ForgottenIDsAreSettled'
<1>. USE BoundsAssumption DEF IsolationInv
<1>1. UNCHANGED <<lastAppendID, appendsOpen, bound, lastRead, readsOpen, isoState>>
  BY DEF isoVars
<1>2. /\ history'[s] = h /\ txs'[s] = left
      /\ \A u \in Series \ {s} : history'[u] = history[u] /\ txs'[u] = txs[u]
  BY DEF TypeOK
<1>3. \A p \in 1..(Len(h) - Len(left)) :
         /\ h[p] < lastAppendID
         /\ \A c \in appendsOpen : h[p] < c
         /\ \A r \in readsOpen : h[p] < isoState[r].lowWatermark
  <2>. TAKE p \in 1..(Len(h) - Len(left))
  <2>1. CASE p \in 1..(Len(history[s]) - Len(txs[s])) /\ h[p] = history[s][p]
    BY <2>1, Zenon DEF RingIsSuffix, ForgottenIDsAreSettled
  <2>2. CASE h[p] < bound[a]
    <3>1. Len(h) \in Nat /\ Len(left) \in Nat
      BY LenProperties
    <3>2. h[p] \in AppendIDs
      <4>1. p \in 1..Len(h)
        BY <3>1
      <4>. QED  BY <4>1, ElementOfSeq
    <3>3. /\ a \in AppendIDs /\ a <= lastAppendID /\ bound[a] \in Nat
          /\ appendsOpen \subseteq Nat /\ lastAppendID \in Nat
          /\ \A r \in readsOpen : isoState[r].lowWatermark \in Nat
      <4>1. /\ a \in AppendIDs /\ a <= lastAppendID
            /\ appendsOpen \subseteq Nat /\ lastAppendID \in Nat
        BY DEF TypeOK, AppendIDs
      <4>2. bound[a] \in Nat
        BY <4>1 DEF TypeOK
      <4>3. \A r \in readsOpen : isoState[r].lowWatermark \in Nat
        BY DEF TypeOK, Reads, IsoState
      <4>. QED  BY <4>1, <4>2, <4>3
    <3>4. /\ bound[a] <= a
          /\ \A c \in appendsOpen : bound[a] <= c
          /\ \A r \in readsOpen : bound[a] <= isoState[r].lowWatermark
      BY DEF BoundsBelowWatermarks
    <3>5. h[p] < lastAppendID
      BY <2>2, <3>2, <3>3, <3>4 DEF AppendIDs
    <3>6. \A c \in appendsOpen : h[p] < c
      BY SMTT(30), <2>2, <3>2, <3>3, <3>4 DEF AppendIDs
    <3>7. \A r \in readsOpen : h[p] < isoState[r].lowWatermark
      BY SMTT(30), <2>2, <3>2, <3>3, <3>4 DEF AppendIDs
    <3>. QED  BY <3>5, <3>6, <3>7
  <2>. QED  BY Zenon, <2>1, <2>2
<1>4. RingIsSuffix'
  <2>. SUFFICES ASSUME NEW u \in Series
                PROVE  /\ Len(txs'[u]) <= Len(history'[u])
                       /\ \A i \in 1..Len(txs'[u]) :
                             txs'[u][i] = history'[u][Len(history'[u]) - Len(txs'[u]) + i]
                       /\ \A p \in 1..(Len(history'[u]) - Len(txs'[u])) :
                             history'[u][p] < lastAppendID'
    BY Zenon DEF RingIsSuffix
  <2>1. CASE u = s
    <3>. HIDE DEF IsolationInv
    <3>1. history'[u] = h /\ txs'[u] = left /\ lastAppendID' = lastAppendID
      BY <1>1, <1>2, <2>1
    <3>2. /\ Len(left) <= Len(h)
          /\ \A i \in 1..Len(left) : left[i] = h[Len(h) - Len(left) + i]
      BY Zenon DEF EndOf
    <3>. QED  BY <1>3, <3>1, <3>2, Zenon
  <2>2. CASE u # s
    <3>1. history'[u] = history[u] /\ txs'[u] = txs[u] /\ lastAppendID' = lastAppendID
      BY <1>1, <1>2, <2>2
    <3>. QED  BY <3>1, Zenon DEF RingIsSuffix
  <2>. QED  BY Zenon, <2>1, <2>2
<1>5. ForgottenIDsAreSettled'
  <2>. SUFFICES ASSUME NEW u \in Series, NEW p \in 1..(Len(history'[u]) - Len(txs'[u]))
                PROVE  /\ \A c \in appendsOpen : history'[u][p] < c
                       /\ \A r \in readsOpen : history'[u][p] < isoState[r].lowWatermark
    BY <1>1 DEF ForgottenIDsAreSettled
  <2>1. CASE u = s
    BY <1>2, <1>3, <2>1
  <2>2. CASE u # s
    BY Zenon, <1>2, <2>2 DEF ForgottenIDsAreSettled
  <2>. QED  BY <2>1, <2>2
<1>. QED  BY <1>4, <1>5

\* A cleanup without an append keeps it.
LEMMA CleanupOnlyInv ==
    ASSUME NEW a \in AppendIDs, NEW s \in Series, IsolationInv, CleanupOnly(a, s)
    PROVE  IsolationInv'
<1>. USE BoundsAssumption DEF IsolationInv
<1>. DEFINE left == CleanupBelow(txs[s], bound[a])
<1>1. /\ a \in appendsOpen /\ txs' = [txs EXCEPT ![s] = left]
      /\ UNCHANGED isoVars /\ UNCHANGED <<history, truncated, starts>>
  BY DEF CleanupOnly
<1>2. history[s] \in Seq(AppendIDs) /\ txs[s] \in Seq(AppendIDs) /\ bound[a] \in Nat
  BY DEF TypeOK
<1>3. /\ left \in Seq(AppendIDs) /\ EndOf(left, history[s])
      /\ \A p \in 1..(Len(history[s]) - Len(left)) :
            p \in 1..(Len(history[s]) - Len(txs[s])) \/ history[s][p] < bound[a]
  <2>1. EndOf(txs[s], history[s])
    BY Zenon DEF RingIsSuffix, EndOf
  <2>. QED  BY Zenon, <1>2, <2>1, CleanupKeepsEnd
<1>. HIDE DEF left
<1>4. history' = [history EXCEPT ![s] = history[s]]
  BY <1>1 DEF TypeOK
<1>5. RingIsSuffix' /\ ForgottenIDsAreSettled'
  BY Zenon, <1>1, <1>2, <1>3, <1>4, RingStep
<1>6. TypeOK'
  BY SMTT(30), <1>1, <1>3 DEF TypeOK, isoVars
<1>7. BoundsBelowWatermarks' /\ ReadStatesCurrent' /\ ChunksCover'
  BY <1>1 DEF BoundsBelowWatermarks, ReadStatesCurrent, ChunksCover, isoVars
<1>. QED  BY <1>5, <1>6, <1>7

\* Committing a sample keeps it: ring and history grow by the same ID.
LEMMA CommitSampleInv ==
    ASSUME NEW a \in AppendIDs, NEW s \in Series, IsolationInv, CommitSample(a, s)
    PROVE  IsolationInv'
<1>. USE BoundsAssumption DEF IsolationInv
<1>. DEFINE h == Append(history[s], a)
            ring == Append(txs[s], a)
            left == CleanupBelow(ring, bound[a])
<1>1. /\ a \in appendsOpen /\ Len(history[s]) < MaxSamples
      /\ history' = [history EXCEPT ![s] = h] /\ txs' = [txs EXCEPT ![s] = left]
      /\ UNCHANGED isoVars /\ UNCHANGED truncated
  BY DEF CommitSample
<1>2. /\ history[s] \in Seq(AppendIDs) /\ txs[s] \in Seq(AppendIDs) /\ bound[a] \in Nat
      /\ Len(history[s]) \in Nat /\ Len(txs[s]) \in Nat
  BY SMTT(30), LenProperties DEF TypeOK
<1>3. /\ h \in Seq(AppendIDs) /\ Len(h) = Len(history[s]) + 1 /\ h[Len(history[s]) + 1] = a
      /\ \A i \in 1..Len(history[s]) : h[i] = history[s][i]
  BY <1>2, AppendProperties
<1>4. /\ ring \in Seq(AppendIDs) /\ Len(ring) = Len(txs[s]) + 1 /\ ring[Len(txs[s]) + 1] = a
      /\ \A i \in 1..Len(txs[s]) : ring[i] = txs[s][i]
  BY <1>2, AppendProperties
<1>. HIDE DEF h, ring
<1>5. Len(txs[s]) <= Len(history[s])
  BY Zenon DEF RingIsSuffix
<1>50. \A i \in 1..Len(txs[s]) : txs[s][i] = history[s][Len(history[s]) - Len(txs[s]) + i]
  BY Zenon DEF RingIsSuffix
<1>6. EndOf(ring, h)
  <2>1. Len(ring) <= Len(h) /\ Len(h) - Len(ring) = Len(history[s]) - Len(txs[s])
    BY <1>2, <1>3, <1>4, <1>5
  <2>. SUFFICES ASSUME NEW i \in 1..Len(ring) PROVE ring[i] = h[Len(h) - Len(ring) + i]
    BY <2>1 DEF EndOf
  <2>2. CASE i = Len(txs[s]) + 1
    <3>1. Len(h) - Len(ring) + i = Len(history[s]) + 1
      <4>. HIDE DEF IsolationInv
      <4>1. Len(history[s]) \in Nat /\ Len(txs[s]) \in Nat
        BY <1>2, LenProperties
      <4>. QED  BY <2>1, <2>2, <4>1
    <3>. QED  BY Zenon, <1>3, <1>4, <2>2, <3>1
  <2>3. CASE i # Len(txs[s]) + 1
    <3>1. i \in 1..Len(txs[s])
      BY <1>2, <1>4, <2>3
    <3>2. Len(history[s]) - Len(txs[s]) + i \in 1..Len(history[s])
      <4>1. \A x, y \in Nat : \A j \in 1..y : y <= x => x - y + j \in 1..x
        OBVIOUS
      <4>. QED  BY Zenon, <1>2, <1>5, <3>1, <4>1
    <3>. QED  BY Zenon, <1>3, <1>4, <1>50, <2>1, <3>1, <3>2
  <2>. QED  BY <2>2, <2>3
<1>7. /\ left \in Seq(AppendIDs) /\ EndOf(left, h)
      /\ \A p \in 1..(Len(h) - Len(left)) : p \in 1..(Len(h) - Len(ring)) \/ h[p] < bound[a]
  BY Zenon, <1>2, <1>3, <1>4, <1>6, CleanupKeepsEnd
<1>. HIDE DEF left
<1>8. RingIsSuffix' /\ ForgottenIDsAreSettled'
  <2>1. \A p \in 1..(Len(h) - Len(left)) :
           \/ p \in 1..(Len(history[s]) - Len(txs[s])) /\ h[p] = history[s][p]
           \/ h[p] < bound[a]
    <3>. TAKE p \in 1..(Len(h) - Len(left))
    <3>1. Len(h) - Len(ring) = Len(history[s]) - Len(txs[s])
      BY <1>2, <1>3, <1>4
    <3>2. p \in 1..(Len(history[s]) - Len(txs[s])) => h[p] = history[s][p]
      BY <1>2, <1>3
    <3>. QED  BY <1>7, <3>1, <3>2, Zenon
  <2>. QED  BY Zenon, <1>1, <1>3, <1>7, <2>1, RingStep
<1>9. starts' \in [Series -> SUBSET (0..MaxSamples)]
  <2>1. Len(history[s]) \in 0..MaxSamples
    BY <1>1, <1>2
  <2>2. \/ UNCHANGED starts
        \/ starts' = [starts EXCEPT ![s] = @ \cup {Len(history[s])}]
    BY DEF CommitSample
  <2>. QED  BY <2>1, <2>2 DEF TypeOK
<1>10. TypeOK'
  <2>1. \A u \in Series : \A p \in 1..Len(history'[u]) : history'[u][p] <= lastAppendID
    <3>. TAKE u \in Series
    <3>1. CASE u = s
      <4>1. history'[u] = h
        BY <1>1, <3>1 DEF TypeOK
      <4>2. a <= lastAppendID
        BY <1>1 DEF TypeOK
      <4>3. \A p \in 1..Len(history[s]) : history[s][p] <= lastAppendID
        BY DEF TypeOK
      <4>. QED  BY SMTT(30), <1>2, <1>3, <4>1, <4>2, <4>3
    <3>2. CASE u # s
      BY <1>1, <3>2 DEF TypeOK
    <3>. QED  BY <3>1, <3>2
  <2>2. history' \in [Series -> Seq(AppendIDs)] /\ txs' \in [Series -> Seq(AppendIDs)]
    BY SMTT(30), <1>1, <1>3, <1>7 DEF TypeOK
  <2>. QED  BY SMTT(30), <1>1, <1>9, <2>1, <2>2 DEF TypeOK, isoVars
<1>11. BoundsBelowWatermarks' /\ ReadStatesCurrent'
  BY <1>1, SMTT(20) DEF BoundsBelowWatermarks, ReadStatesCurrent, isoVars
<1>12. ChunksCover'
  <2>. SUFFICES ASSUME NEW u \in Series
                PROVE  /\ truncated[u] <= Len(history'[u])
                       /\ Len(history'[u]) <= MaxSamples
                       /\ \A c \in starts'[u] : truncated[u] <= c /\ c < Len(history'[u])
                       /\ truncated[u] < Len(history'[u]) => truncated[u] \in starts'[u]
    BY <1>1, Zenon DEF ChunksCover
  <2>0. /\ truncated[u] <= Len(history[u]) /\ Len(history[u]) <= MaxSamples
        /\ \A c \in starts[u] : truncated[u] <= c /\ c < Len(history[u])
        /\ truncated[u] < Len(history[u]) => truncated[u] \in starts[u]
    BY DEF ChunksCover
  <2>1. CASE u # s
    <3>1. history'[u] = history[u] /\ starts'[u] = starts[u]
      BY <1>1, <2>1 DEF CommitSample, TypeOK
    <3>. QED  BY <2>0, <3>1
  <2>2. CASE u = s
    <3>1. /\ history'[s] = h /\ truncated[s] \in Nat /\ starts[s] \subseteq Nat
      BY <1>1 DEF TypeOK
    <3>2. CASE starts[s] # {} /\ starts'[s] = starts[s]
      BY SMTT(30), <1>1, <1>2, <1>3, <2>0, <2>2, <3>1, <3>2
    <3>3. CASE starts'[s] = starts[s] \cup {Len(history[s])}
      BY SMTT(30), <1>1, <1>2, <1>3, <2>0, <2>2, <3>1, <3>3
    <3>4. \/ starts[s] # {} /\ starts'[s] = starts[s]
          \/ starts'[s] = starts[s] \cup {Len(history[s])}
      BY DEF CommitSample, TypeOK
    <3>. QED  BY <3>2, <3>3, <3>4
  <2>. QED  BY <2>1, <2>2
<1>. QED  BY <1>8, <1>10, <1>11, <1>12

\* The invariant is inductive.
LEMMA NextInv == IsolationInv /\ [Next]_vars => IsolationInv'
<1>. SUFFICES ASSUME IsolationInv, [Next]_vars PROVE IsolationInv'
  OBVIOUS
<1>1. CASE NewAppendID
  BY <1>1, NewAppendIDInv
<1>2. ASSUME NEW a \in AppendIDs, NEW s \in Series, CommitSample(a, s) PROVE IsolationInv'
  BY <1>2, CommitSampleInv
<1>3. ASSUME NEW a \in AppendIDs, NEW s \in Series, CleanupOnly(a, s) PROVE IsolationInv'
  BY <1>3, CleanupOnlyInv
<1>4. ASSUME NEW a \in AppendIDs, CloseAppend(a) PROVE IsolationInv'
  BY <1>4, CloseAppendInv
<1>5. CASE OpenRead
  BY <1>5, OpenReadInv
<1>6. ASSUME NEW r \in Reads, CloseRead(r) PROVE IsolationInv'
  BY <1>6, CloseReadInv
<1>7. ASSUME NEW s \in Series, TruncateChunk(s) PROVE IsolationInv'
  BY SMTT(30), <1>7, TruncateChunkInv
<1>8. CASE UNCHANGED vars
  BY <1>8 DEF vars, isoVars, seriesVars, IsolationInv, TypeOK, BoundsBelowWatermarks,
              ReadStatesCurrent, RingIsSuffix, ChunksCover, ForgottenIDsAreSettled
<1>. QED  BY <1>1, <1>2, <1>3, <1>4, <1>5, <1>6, <1>7, <1>8 DEF Next

\* Type correctness, the shape of rings and chunks and the order of watermarks
\* hold in every reachable state.
THEOREM Invariance == Spec => []IsolationInv
<1>. QED  BY InitInv, NextInv, PTL DEF Spec

-----------------------------------------------------------------------------
(* What a read gets. *)

\* The isolation state of a read passes every ID a ring has forgotten.
LEMMA ForgottenSeen ==
    ASSUME IsolationInv, NEW r \in readsOpen, NEW s \in Series,
           NEW p \in 1..(Len(history[s]) - Len(txs[s]))
    PROVE  Sees(isoState[r], history[s][p])
<1>. USE BoundsAssumption DEF IsolationInv
<1>1. Len(history[s]) \in Nat /\ Len(txs[s]) \in Nat /\ history[s] \in Seq(AppendIDs)
  BY LenProperties DEF TypeOK
<1>2. history[s][p] \in Nat
  <2>1. p \in 1..Len(history[s])
    BY <1>1
  <2>. QED  BY SMTT(30), <1>1, <2>1, ElementOfSeq DEF AppendIDs
<1>3. history[s][p] < isoState[r].lowWatermark
  BY Zenon DEF ForgottenIDsAreSettled
<1>4. /\ isoState[r].lowWatermark \in Nat /\ isoState[r].maxAppendID \in Nat
      /\ isoState[r].incompleteAppends \subseteq Nat
  <2>1. r \in Reads
    BY DEF TypeOK, Reads
  <2>2. isoState[r] \in IsoState
    BY <2>1 DEF TypeOK
  <2>. QED  BY <2>2 DEF IsoState, AppendIDs
<1>5. /\ isoState[r].lowWatermark <= isoState[r].maxAppendID
      /\ \A i \in isoState[r].incompleteAppends : isoState[r].lowWatermark <= i
  BY SMTT(30) DEF ReadStatesCurrent
<1>. QED  BY <1>2, <1>3, <1>4, <1>5 DEF Sees

\* The iterator of one chunk returns its samples up to the first one in the
\* whole series that the read must not see.
LEMMA StopAfterExact ==
    ASSUME IsolationInv, NEW r \in readsOpen, NEW s \in Series, NEW c \in starts[s]
    PROVE  /\ StopAfter(s, c, isoState[r]) \in 0..(ChunkEnd(s, c) - c)
           /\ \A p \in (c + 1)..ChunkEnd(s, c) :
                 p <= c + StopAfter(s, c, isoState[r])
                 <=> \A q \in 1..p : Sees(isoState[r], history[s][q])
<1>. USE BoundsAssumption DEF IsolationInv
<1>. DEFINE n == Len(history[s])
            m == Len(txs[s])
            t == truncated[s]
            e == ChunkEnd(s, c)
            f == n - m
            Seen(q) == Sees(isoState[r], history[s][q])
            consider == m - ((n - t) - ((c - t) + (e - c)))
            hidden == {i \in 0..(consider - 1) : ~Sees(isoState[r], txs[s][i + 1])}
<1>1. /\ n \in Nat /\ m \in Nat /\ t \in Nat /\ c \in Nat /\ m <= n /\ e \in (c + 1)..n
  <2>1. n \in Nat /\ m \in Nat /\ t \in Nat /\ c \in Nat
    BY LenProperties DEF TypeOK
  <2>2. m <= n
    BY ZenonT(30) DEF RingIsSuffix
  <2>. QED  BY <2>1, <2>2, ChunkEndInside
<1>2. StopAfter(s, c, isoState[r]) =
         IF hidden = {} THEN e - c
         ELSE IF (e - c) - (consider - Smallest(hidden)) < 0 THEN 0
         ELSE (e - c) - (consider - Smallest(hidden))
  BY DEF StopAfter
<1>3. \A i \in 1..m : txs[s][i] = history[s][f + i]
  BY Zenon DEF RingIsSuffix
<1>4. \A q \in 1..f : Seen(q)
  BY ZenonT(30), ForgottenSeen
<1>. HIDE DEF n, m, t, e, Seen
<1>5. consider = e - f
  <2>1. m - ((n - t) - ((c - t) + (e - c))) = e - (n - m)
    BY <1>1, ConsideredCount, SMTT(20)
  <2>. QED  BY <2>1, Zenon
<1>6. \A i \in 0..(consider - 1) : i \in hidden <=> ~Seen(f + i + 1)
  <2>. TAKE i \in 0..(consider - 1)
  <2>1. i + 1 \in 1..m /\ f + (i + 1) = f + i + 1
    BY <1>1, <1>5
  <2>2. txs[s][i + 1] = history[s][f + i + 1]
    BY <1>3, <2>1
  <2>. QED  BY <2>2 DEF Seen
<1>. DEFINE stop == StopAfter(s, c, isoState[r])
<1>7. CASE hidden = {}
  <2>1. stop = e - c
    BY <1>2, <1>7
  <2>2. \A q \in 1..e : Seen(q)
    <3>. TAKE q \in 1..e
    <3>1. CASE q <= f
      BY <1>1, <1>4, <3>1
    <3>2. CASE q > f
      <4>1. q - f - 1 \in 0..(consider - 1) /\ f + (q - f - 1) + 1 = q
        BY <1>1, <1>5, <3>2
      <4>. QED  BY <1>6, <1>7, <4>1
    <3>. QED  BY <1>1, <3>1, <3>2
  <2>3. \A p \in (c + 1)..e : p <= c + stop <=> \A q \in 1..p : Seen(q)
    BY <1>1, <2>1, <2>2
  <2>. QED  BY <1>1, <2>1, <2>3, SMTT(20) DEF Seen, e
<1>8. CASE hidden # {}
  <2>1. PICK i \in hidden : i = Smallest(hidden) /\ \A j \in hidden : i <= j
    <3>1. hidden \subseteq Nat
      BY <1>1
    <3>. QED  BY <1>8, <3>1, SmallestIsLeast
  <2>2. i \in 0..(consider - 1) /\ ~Seen(f + i + 1)
    BY Zenon, <1>6, <2>1
  <2>3. stop = IF f + i < c THEN 0 ELSE f + i - c
    <3>. HIDE DEF IsolationInv, hidden
    <3>1. stop = IF (e - c) - (consider - i) < 0 THEN 0 ELSE (e - c) - (consider - i)
      BY <1>2, <1>8, <2>1
    <3>2. i \in Int /\ f \in Int
      BY <1>1, <1>5, <2>2
    <3>3. (e - c) - (consider - i) = f + i - c
      BY <1>1, <1>5, <3>2
    <3>. QED  BY <1>1, <3>1, <3>2, <3>3
  <2>4. \A q \in 1..(f + i) : Seen(q)
    <3>. TAKE q \in 1..(f + i)
    <3>1. CASE q <= f
      BY <1>1, <1>4, <3>1
    <3>2. CASE q > f
      <4>1. /\ q - f - 1 \in 0..(consider - 1) /\ f + (q - f - 1) + 1 = q
            /\ ~(i <= q - f - 1)
        BY SMTT(30), <1>1, <1>5, <2>2, <3>2
      <4>2. q - f - 1 \notin hidden
        BY <2>1, <4>1
      <4>. QED  BY <1>6, <4>1, <4>2
    <3>. QED  BY <1>1, <3>1, <3>2
  <2>5. \A p \in (c + 1)..e : p <= f + i <=> \A q \in 1..p : Seen(q)
    <3>. TAKE p \in (c + 1)..e
    <3>1. CASE p <= f + i
      BY <1>1, <2>2, <2>4, <3>1
    <3>2. CASE ~(p <= f + i)
      <4>1. f + i + 1 \in 1..p
        BY <1>1, <2>2, <3>2
      <4>. QED  BY <2>2, <3>2, <4>1
    <3>. QED  BY <3>1, <3>2
  <2>6. stop \in 0..(e - c)
    BY <1>1, <1>5, <2>2, <2>3
  <2>7. \A p \in (c + 1)..e : p <= c + stop <=> p <= f + i
    BY <1>1, <1>5, <2>2, <2>3
  <2>. QED  BY <2>5, <2>6, <2>7 DEF Seen, e
<1>. QED  BY SMTT(30), <1>7, <1>8

\* Every sample that is left lies in some chunk: the one that starts latest
\* among those that start before it.
LEMMA ChunkOfPosition ==
    ASSUME IsolationInv, NEW s \in Series, NEW p \in (truncated[s] + 1)..Len(history[s])
    PROVE  \E c \in starts[s] : p \in (c + 1)..ChunkEnd(s, c)
<1>. USE BoundsAssumption DEF IsolationInv
<1>. DEFINE dist == {k \in 1..p : p - k \in starts[s]}
<1>1. Len(history[s]) \in Nat /\ truncated[s] \in Nat /\ starts[s] \subseteq Nat
  BY LenProperties DEF TypeOK
<1>2. truncated[s] \in starts[s]
  BY <1>1 DEF ChunksCover
<1>3. p - truncated[s] \in dist
  BY <1>1, <1>2
<1>4. PICK k \in dist : \A j \in dist : k <= j
  <2>1. dist \subseteq Nat /\ dist # {}
    BY <1>1, <1>3
  <2>. HIDE DEF dist
  <2>. QED  BY Zenon, <2>1, SmallestIsLeast
<1>. DEFINE c == p - k
<1>5. c \in starts[s] /\ c \in Nat /\ c < p
  BY <1>1, <1>4
<1>. HIDE DEF c
<1>6. \A d \in starts[s] : d > c => p <= d
  <2>. SUFFICES ASSUME NEW d \in starts[s], d > c, ~(p <= d) PROVE FALSE
    OBVIOUS
  <2>1. d \in Nat /\ p - d \in 1..p /\ p - (p - d) = d /\ ~(k <= p - d)
    BY <1>1, <1>4, <1>5 DEF c
  <2>2. p - d \in dist
    BY <2>1
  <2>. QED  BY <1>4, <2>1, <2>2
<1>7. /\ ChunkEnd(s, c) \in (c + 1)..Len(history[s])
      /\ ChunkEnd(s, c) # Len(history[s]) => ChunkEnd(s, c) \in starts[s]
  BY <1>5, ChunkEndInside
<1>8. p <= ChunkEnd(s, c)
  BY <1>1, <1>5, <1>6, <1>7
<1>. QED  BY <1>1, <1>5, <1>7, <1>8

\* Together the iterators of all chunks return the prefix the read is meant to get.
LEMMA VisibleExact ==
    ASSUME IsolationInv, NEW r \in readsOpen, NEW s \in Series
    PROVE  Visible(s, isoState[r]) = PrefixToSee(s, isoState[r])
<1>. USE BoundsAssumption DEF IsolationInv
<1>1. /\ Len(history[s]) \in Nat /\ truncated[s] \in Nat /\ starts[s] \subseteq Nat
  BY LenProperties DEF TypeOK
<1>2. ASSUME NEW p, p \in Visible(s, isoState[r]) PROVE p \in PrefixToSee(s, isoState[r])
  <2>1. PICK c \in starts[s] : p \in (c + 1)..(c + StopAfter(s, c, isoState[r]))
    BY <1>2 DEF Visible
  <2>2. /\ StopAfter(s, c, isoState[r]) \in 0..(ChunkEnd(s, c) - c)
        /\ \A x \in (c + 1)..ChunkEnd(s, c) :
              x <= c + StopAfter(s, c, isoState[r])
              <=> \A q \in 1..x : Sees(isoState[r], history[s][q])
    BY StopAfterExact
  <2>3. ChunkEnd(s, c) \in (c + 1)..Len(history[s]) /\ truncated[s] <= c
    BY ChunkEndInside DEF ChunksCover
  <2>4. /\ p \in (c + 1)..ChunkEnd(s, c) /\ p <= c + StopAfter(s, c, isoState[r])
        /\ p \in (truncated[s] + 1)..Len(history[s])
    BY <1>1, <2>1, <2>2, <2>3, SMTT(20)
  <2>. QED  BY <2>2, <2>4 DEF PrefixToSee
<1>3. ASSUME NEW p, p \in PrefixToSee(s, isoState[r]) PROVE p \in Visible(s, isoState[r])
  <2>1. /\ p \in (truncated[s] + 1)..Len(history[s])
        /\ \A q \in 1..p : Sees(isoState[r], history[s][q])
    BY <1>3 DEF PrefixToSee
  <2>2. PICK c \in starts[s] : p \in (c + 1)..ChunkEnd(s, c)
    BY <1>1, <2>1, ChunkOfPosition
  <2>3. \A x \in (c + 1)..ChunkEnd(s, c) :
            x <= c + StopAfter(s, c, isoState[r])
            <=> \A q \in 1..x : Sees(isoState[r], history[s][q])
    BY StopAfterExact
  <2>4. StopAfter(s, c, isoState[r]) \in Nat
    BY StopAfterExact
  <2>5. p <= c + StopAfter(s, c, isoState[r])
    BY <2>1, <2>2, <2>3
  <2>6. p \in (c + 1)..(c + StopAfter(s, c, isoState[r]))
    BY <1>1, <2>2, <2>4, <2>5
  <2>. QED  BY <2>6 DEF Visible
<1>. QED  BY Zenon, <1>2, <1>3

\* The invariant implies that reads are exact ...
LEMMA PrefixInState == IsolationInv => ReadsExactPrefix
BY VisibleExact DEF ReadsExactPrefix

\* ... and so it does in the state after a step.
LEMMA PrefixAfterStep == IsolationInv' => ReadsExactPrefix'
BY PrefixInState, PTL

\* No step changes the isolation state of an open read or a sample already in
\* a series, brings truncated samples back, or adds a sample the read may see.
LEMMA StepExtendsHistory ==
    ASSUME IsolationInv, [Next]_vars, NEW r \in readsOpen, NEW s \in Series
    PROVE  /\ isoState'[r] = isoState[r]
           /\ truncated'[s] >= truncated[s]
           /\ Len(history'[s]) >= Len(history[s])
           /\ \A q \in 1..Len(history[s]) : history'[s][q] = history[s][q]
           /\ \A q \in (Len(history[s]) + 1)..Len(history'[s]) :
                 ~Sees(isoState[r], history'[s][q])
<1>. USE BoundsAssumption DEF IsolationInv
<1>1. /\ Len(history[s]) \in Nat /\ truncated[s] \in Nat /\ history[s] \in Seq(AppendIDs)
      /\ starts[s] \subseteq Nat /\ r \in Reads /\ r <= lastRead /\ lastRead \in Nat
  BY LenProperties, SMTT(20) DEF TypeOK, Reads
<1>2. CASE OpenRead
  <2>1. /\ isoState'[r] = isoState[r]
    BY <1>1, <1>2 DEF OpenRead, TypeOK, Reads
  <2>. QED  BY <1>1, <1>2, <2>1 DEF OpenRead, seriesVars
<1>3. ASSUME NEW u \in Series, TruncateChunk(u) PROVE
         /\ UNCHANGED <<isoState, history>> /\ truncated'[s] >= truncated[s]
  <2>. DEFINE c == Smallest(starts[u])
  <2>1. c \in starts[u]
    <3>1. starts[u] \subseteq Nat /\ starts[u] # {}
      BY <1>3 DEF TruncateChunk, TypeOK
    <3>. QED  BY <3>1, SmallestIsLeast
  <2>2. ChunkEnd(u, c) \in (c + 1)..Len(history[u]) /\ truncated[u] <= c
    BY <2>1, ChunkEndInside DEF ChunksCover
  <2>3. /\ truncated' = [truncated EXCEPT ![u] = ChunkEnd(u, c)]
        /\ UNCHANGED <<isoState, history>>
    BY <1>3 DEF TruncateChunk, isoVars
  <2>4. truncated[u] \in Nat /\ c \in Nat
    BY <2>1 DEF TypeOK
  <2>. HIDE DEF c
  <2>5. ChunkEnd(u, c) >= truncated[u]
    BY <2>2, <2>4
  <2>. QED  BY <1>1, <2>3, <2>5 DEF TypeOK
<1>4. ASSUME NEW a \in AppendIDs, NEW u \in Series, CommitSample(a, u) PROVE
         /\ isoState' = isoState /\ truncated' = truncated
         /\ history'[s] = history[s] \/ history'[s] = Append(history[s], a)
         /\ ~Sees(isoState[r], a)
  <2>1. /\ isoState' = isoState /\ truncated' = truncated /\ a \in appendsOpen
        /\ history' = [history EXCEPT ![u] = Append(@, a)]
    BY <1>4 DEF CommitSample, isoVars
  <2>2. ~Sees(isoState[r], a)
    BY <2>1 DEF ReadStatesCurrent, Sees
  <2>. QED  BY <2>1, <2>2 DEF TypeOK
<1>5. ASSUME isoState'[r] = isoState[r], truncated'[s] >= truncated[s], history'[s] = history[s]
      PROVE  /\ isoState'[r] = isoState[r]
             /\ truncated'[s] >= truncated[s]
             /\ Len(history'[s]) >= Len(history[s])
             /\ \A q \in 1..Len(history[s]) : history'[s][q] = history[s][q]
             /\ \A q \in (Len(history[s]) + 1)..Len(history'[s]) :
                   ~Sees(isoState[r], history'[s][q])
  BY <1>1, <1>5
<1>6. ASSUME NEW a \in AppendIDs, isoState'[r] = isoState[r], truncated'[s] = truncated[s],
             history'[s] = Append(history[s], a), ~Sees(isoState[r], a)
      PROVE  /\ isoState'[r] = isoState[r]
             /\ truncated'[s] >= truncated[s]
             /\ Len(history'[s]) >= Len(history[s])
             /\ \A q \in 1..Len(history[s]) : history'[s][q] = history[s][q]
             /\ \A q \in (Len(history[s]) + 1)..Len(history'[s]) :
                   ~Sees(isoState[r], history'[s][q])
  <2>1. /\ Len(history'[s]) = Len(history[s]) + 1 /\ history'[s][Len(history[s]) + 1] = a
        /\ \A q \in 1..Len(history[s]) : history'[s][q] = history[s][q]
    BY <1>1, <1>6, AppendProperties
  <2>2. \A q \in (Len(history[s]) + 1)..Len(history'[s]) : q = Len(history[s]) + 1
    BY <1>1, <2>1
  <2>. QED  BY <1>1, <1>6, <2>1, <2>2
<1>7. ASSUME UNCHANGED <<isoState, truncated, history>> PROVE
         isoState'[r] = isoState[r] /\ truncated'[s] >= truncated[s] /\ history'[s] = history[s]
  BY <1>1, <1>7
<1>8. NewAppendID \/ (\E a \in AppendIDs, u \in Series : CleanupOnly(a, u))
         \/ (\E a \in AppendIDs : CloseAppend(a)) \/ (\E q \in Reads : CloseRead(q))
         \/ UNCHANGED vars
      => UNCHANGED <<isoState, truncated, history>>
  BY SMTT(20) DEF NewAppendID, CleanupOnly, CloseAppend, CloseRead, vars, isoVars, seriesVars
<1>9. CASE \E a \in AppendIDs, u \in Series : CommitSample(a, u)
  <2>. HIDE DEF IsolationInv
  <2>1. PICK a \in AppendIDs, u \in Series : CommitSample(a, u)
    BY <1>9
  <2>2. /\ isoState' = isoState /\ truncated' = truncated
        /\ history'[s] = history[s] \/ history'[s] = Append(history[s], a)
        /\ ~Sees(isoState[r], a)
    BY <1>4, <2>1
  <2>3. truncated'[s] >= truncated[s]
    BY <1>1, <2>2
  <2>4. CASE history'[s] = history[s]
    BY <1>5, <2>2, <2>3, <2>4, SMTT(20)
  <2>5. CASE history'[s] = Append(history[s], a)
    BY SMTT(30), <1>6, <2>2, <2>5
  <2>. QED  BY <2>2, <2>4, <2>5
<1>10. CASE \E u \in Series : TruncateChunk(u)
  BY <1>3, <1>5, <1>10, SMTT(20)
<1>11. CASE UNCHANGED <<isoState, truncated, history>>
  BY <1>5, <1>7, <1>11, SMTT(20)
<1>. QED  BY Zenon, <1>2, <1>8, <1>9, <1>10, <1>11 DEF Next

\* One step does to what an open read gets from a series what RepeatableRead says.
LEMMA StepRepeatable ==
    ASSUME IsolationInv, IsolationInv', [Next]_vars,
           NEW r \in readsOpen \cap readsOpen', NEW s \in Series
    PROVE  Visible(s, isoState[r])' = {p \in Visible(s, isoState[r]) : p > truncated'[s]}
<1>1. /\ isoState'[r] = isoState[r]
      /\ truncated'[s] >= truncated[s]
      /\ Len(history'[s]) >= Len(history[s])
      /\ \A q \in 1..Len(history[s]) : history'[s][q] = history[s][q]
      /\ \A q \in (Len(history[s]) + 1)..Len(history'[s]) : ~Sees(isoState[r], history'[s][q])
  BY StepExtendsHistory
<1>2. Visible(s, isoState[r]) = PrefixToSee(s, isoState[r])
  BY VisibleExact
<1>3. Visible(s, isoState[r])' = PrefixToSee(s, isoState[r])'
  BY PrefixAfterStep DEF ReadsExactPrefix
<1>4. /\ Len(history[s]) \in Nat /\ truncated[s] \in Nat
      /\ Len(history'[s]) \in Nat /\ truncated'[s] \in Nat
  BY SMTT(30), LenProperties DEF IsolationInv, TypeOK
<1>5. PrefixToSee(s, isoState[r])' =
         {p \in (truncated'[s] + 1)..Len(history'[s]) :
             \A q \in 1..p : Sees(isoState[r], history'[s][q])}
  BY <1>1 DEF PrefixToSee, Sees
<1>6. \A p \in 1..Len(history'[s]) :
         (\A q \in 1..p : Sees(isoState[r], history'[s][q]))
         <=> /\ p \in 1..Len(history[s])
             /\ \A q \in 1..p : Sees(isoState[r], history[s][q])
  <2>. TAKE p \in 1..Len(history'[s])
  <2>1. CASE p <= Len(history[s])
    <3>1. p \in 1..Len(history[s]) /\ \A q \in 1..p : q \in 1..Len(history[s])
      BY <1>4, <2>1
    <3>2. \A q \in 1..p : history'[s][q] = history[s][q]
      BY <1>1, <3>1
    <3>. QED  BY <3>1, <3>2
  <2>2. CASE ~(p <= Len(history[s]))
    <3>1. p \in (Len(history[s]) + 1)..Len(history'[s]) /\ p \in 1..p
          /\ p \notin 1..Len(history[s])
      BY <1>4, <2>2
    <3>. QED  BY <1>1, <3>1
  <2>. QED  BY <2>1, <2>2
<1>7. PrefixToSee(s, isoState[r])' = {p \in PrefixToSee(s, isoState[r]) : p > truncated'[s]}
  <2>1. ASSUME NEW p, p \in PrefixToSee(s, isoState[r])'
        PROVE  p \in PrefixToSee(s, isoState[r]) /\ p > truncated'[s]
    <3>1. /\ p \in (truncated'[s] + 1)..Len(history'[s])
          /\ \A q \in 1..p : Sees(isoState[r], history'[s][q])
      BY SMTT(30), <1>5, <2>1
    <3>2. p \in 1..Len(history'[s])
      <4>1. \A x, y \in Nat : \A z \in (x + 1)..y : z \in 1..y
        OBVIOUS
      <4>. QED  BY <1>4, <3>1, <4>1
    <3>3. p \in 1..Len(history[s]) /\ \A q \in 1..p : Sees(isoState[r], history[s][q])
      BY <1>6, <3>1, <3>2, SMTT(20)
    <3>4. p \in (truncated[s] + 1)..Len(history[s]) /\ p > truncated'[s]
      BY <1>1, <1>4, <3>1, <3>3, SMTT(20)
    <3>. QED  BY SMTT(30), <3>3, <3>4 DEF PrefixToSee
  <2>2. ASSUME NEW p, p \in PrefixToSee(s, isoState[r]), p > truncated'[s]
        PROVE  p \in PrefixToSee(s, isoState[r])'
    <3>1. /\ p \in (truncated[s] + 1)..Len(history[s])
          /\ \A q \in 1..p : Sees(isoState[r], history[s][q])
      BY <2>2 DEF PrefixToSee
    <3>2. p \in 1..Len(history[s]) /\ p \in 1..Len(history'[s])
          /\ p \in (truncated'[s] + 1)..Len(history'[s])
      <4>1. \A x, y, v, w \in Nat : \A z \in (x + 1)..y : y <= w /\ z > v =>
               z \in 1..y /\ z \in 1..w /\ z \in (v + 1)..w
        OBVIOUS
      <4>2. Len(history[s]) <= Len(history'[s])
        BY <1>1, <1>4, SMTT(20)
      <4>. QED  BY <1>4, <2>2, <3>1, <4>1, <4>2
    <3>3. \A q \in 1..p : Sees(isoState[r], history'[s][q])
      BY <1>6, <3>1, <3>2
    <3>. QED  BY <1>5, <3>2, <3>3, SMTT(20)
  <2>. QED  BY SMTT(30), <2>1, <2>2
<1>. QED  BY <1>2, <1>3, <1>7, SMTT(20)

\* memSeries.iterator returns to every open read exactly the samples it is
\* meant to get, whatever appends, cleanups, chunk cuts and truncations have
\* happened since it began.
THEOREM ReadsExact == Spec => []ReadsExactPrefix
<1>. QED  BY PrefixInState, Invariance, PTL

\* No read gets a sample of an append that was open, or had not begun, when
\* isolation.State was called for it.
THEOREM ReadsAreClean == Spec => []NoDirtyRead
<1>1. ReadsExactPrefix /\ IsolationInv => NoDirtyRead
  <2>. SUFFICES ASSUME ReadsExactPrefix, IsolationInv, NEW r \in readsOpen, NEW s \in Series,
                       NEW p \in Visible(s, isoState[r])
                PROVE  Sees(isoState[r], history[s][p])
    BY DEF NoDirtyRead
  <2>1. p \in PrefixToSee(s, isoState[r])
    BY DEF ReadsExactPrefix
  <2>2. p \in 1..p
    BY <2>1, LenProperties, BoundsAssumption DEF PrefixToSee, IsolationInv, TypeOK
  <2>. QED  BY <2>1, <2>2 DEF PrefixToSee
<1>. QED  BY <1>1, ReadsExact, Invariance, PTL

\* What an open read gets from a series never changes, except that truncation
\* takes away the samples it drops.
THEOREM ReadsRepeatable == Spec => RepeatableRead
<1>1. IsolationInv /\ IsolationInv' /\ [Next]_vars =>
         \A r \in readsOpen \cap readsOpen', s \in Series :
            Visible(s, isoState[r])' = {p \in Visible(s, isoState[r]) : p > truncated'[s]}
  BY StepRepeatable
<1>. QED  BY <1>1, Invariance, PTL DEF Spec, RepeatableRead

-----------------------------------------------------------------------------
(* The low watermark. *)

\* The watermark of an open read is not above the lowest open append.
LEMMA ReadWatermarkLow ==
    ASSUME IsolationInv, NEW r \in readsOpen
    PROVE  isoState[r].lowWatermark \in Nat /\ isoState[r].lowWatermark <= LowestAppendID
<1>. USE BoundsAssumption DEF IsolationInv
<1>1. r \in Reads
  BY DEF TypeOK, Reads
<1>2. isoState[r].lowWatermark \in Nat /\ isoState[r].maxAppendID \in Nat /\ lastAppendID \in Nat
  BY <1>1 DEF TypeOK, IsoState
<1>3. CASE appendsOpen = {}
  BY <1>2, <1>3, LowestAppendIDLow DEF ReadStatesCurrent
<1>4. CASE appendsOpen # {}
  BY <1>2, <1>4, LowestAppendIDLow DEF BoundsBelowWatermarks
<1>. QED  BY <1>3, <1>4

\* What LowestAppendID is, as one formula that can be primed.
LowestIsOpenOrLast ==
    /\ LowestAppendID \in 0..lastAppendID
    /\ appendsOpen # {} => LowestAppendID \in appendsOpen
    /\ appendsOpen = {} => LowestAppendID = lastAppendID

\* In a well-typed state the lowest append ID is an open append or the last ID ...
LEMMA LowestAppendIDInState == TypeOK => LowestIsOpenOrLast
BY LowestAppendIDLow DEF LowestIsOpenOrLast

\* ... and so it is in the state after a step.
LEMMA LowestAppendIDAfterStep == TypeOK' => LowestIsOpenOrLast'
BY LowestAppendIDInState, PTL

\* Which steps touch the list of appends and which the list of reads.
LEMMA StepFrame ==
    ASSUME [Next]_vars
    PROVE  /\ \/ NewAppendID
              \/ \E a \in AppendIDs : CloseAppend(a)
              \/ UNCHANGED <<appendsOpen, lastAppendID>>
           /\ OpenRead \/ UNCHANGED isoState
           /\ OpenRead \/ (\E r \in Reads : CloseRead(r)) \/ UNCHANGED readsOpen
<1>1. CASE NewAppendID
  BY <1>1, Zenon DEF NewAppendID
<1>2. CASE \E a \in AppendIDs, s \in Series : CommitSample(a, s)
  BY <1>2, Zenon DEF CommitSample, isoVars
<1>3. CASE \E a \in AppendIDs, s \in Series : CleanupOnly(a, s)
  BY <1>3, Zenon DEF CleanupOnly, isoVars
<1>4. CASE \E a \in AppendIDs : CloseAppend(a)
  BY <1>4, Zenon DEF CloseAppend
<1>5. CASE OpenRead
  BY <1>5, Zenon DEF OpenRead
<1>6. CASE \E r \in Reads : CloseRead(r)
  BY <1>6, Zenon DEF CloseRead
<1>7. CASE \E s \in Series : TruncateChunk(s)
  BY <1>7, Zenon DEF TruncateChunk, isoVars
<1>8. CASE UNCHANGED vars
  BY <1>8, Zenon DEF vars, isoVars
<1>. QED  BY <1>1, <1>2, <1>3, <1>4, <1>5, <1>6, <1>7, <1>8 DEF Next

\* The lowest open append, or the last ID when none is open, never decreases.
LEMMA LowestAppendIDGrows ==
    ASSUME IsolationInv, IsolationInv', [Next]_vars
    PROVE  LowestAppendID \in Nat /\ LowestAppendID' \in Nat /\ LowestAppendID <= LowestAppendID'
<1>. USE BoundsAssumption DEF IsolationInv
<1>1. /\ LowestAppendID \in 0..lastAppendID
      /\ \A a \in appendsOpen : LowestAppendID <= a
      /\ appendsOpen = {} => LowestAppendID = lastAppendID
  BY LowestAppendIDLow
<1>2. /\ LowestAppendID' \in 0..lastAppendID'
      /\ appendsOpen' # {} => LowestAppendID' \in appendsOpen'
      /\ appendsOpen' = {} => LowestAppendID' = lastAppendID'
  BY LowestAppendIDAfterStep DEF LowestIsOpenOrLast
<1>3. lastAppendID \in Nat /\ lastAppendID' \in Nat
  BY DEF TypeOK
<1>4. /\ appendsOpen' \subseteq appendsOpen \cup {lastAppendID + 1}
      /\ lastAppendID' >= lastAppendID
  <2>. HIDE DEF IsolationInv
  <2>1. CASE NewAppendID
    BY <1>3, <2>1 DEF NewAppendID
  <2>2. CASE \E a \in AppendIDs : CloseAppend(a)
    BY <1>3, <2>2 DEF CloseAppend
  <2>3. CASE UNCHANGED <<appendsOpen, lastAppendID>>
    BY <1>3, <2>3
  <2>. QED  BY <2>1, <2>2, <2>3, StepFrame
<1>5. CASE appendsOpen' = {}
  BY <1>1, <1>2, <1>3, <1>4, <1>5
<1>6. CASE appendsOpen' # {}
  BY <1>1, <1>2, <1>3, <1>4, <1>6
<1>. QED  BY <1>5, <1>6

\* The low watermark handed to new appenders never goes back.
THEOREM WatermarkNeverFalls == Spec => WatermarkMonotone
<1>1. ASSUME IsolationInv, IsolationInv', [Next]_vars PROVE CurrentWatermark' >= CurrentWatermark
  <2>. USE BoundsAssumption DEF IsolationInv
  <2>1. LowestAppendID \in Nat /\ LowestAppendID' \in Nat /\ LowestAppendID <= LowestAppendID'
    BY <1>1, LowestAppendIDGrows
  <2>2. readsOpen \subseteq Nat /\ readsOpen' \subseteq Nat
    BY <1>1 DEF TypeOK
  <2>3. CurrentWatermark \in Nat /\ CurrentWatermark <= LowestAppendID
    <3>1. CASE readsOpen = {}
      BY <2>1, <3>1 DEF CurrentWatermark
    <3>2. CASE readsOpen # {}
      <4>1. Smallest(readsOpen) \in readsOpen
        BY Zenon, <2>2, <3>2, SmallestIsLeast
      <4>. QED  BY <1>1, <3>2, <4>1, ReadWatermarkLow DEF CurrentWatermark
    <3>. QED  BY <3>1, <3>2
  <2>4. CASE readsOpen' = {}
    BY <2>1, <2>3, <2>4 DEF CurrentWatermark
  <2>5. CASE readsOpen' # {}
    <3>. DEFINE n == Smallest(readsOpen')
    <3>1. n \in readsOpen' /\ \A y \in readsOpen' : n <= y
      BY Zenon, <2>2, <2>5, SmallestIsLeast
    <3>2. CurrentWatermark' = isoState'[n].lowWatermark
      BY <2>5 DEF CurrentWatermark
    <3>. HIDE DEF n
    <3>3. CASE n \in readsOpen
      <4>1. isoState'[n] = isoState[n]
        <5>1. CASE OpenRead
          <6>1. n \in 1..lastRead /\ lastRead \in Nat
            BY <1>1, <3>3 DEF TypeOK
          <6>2. n # lastRead + 1
            BY <6>1
          <6>3. isoState \in [Reads -> IsoState] /\ n \in Reads
            BY <1>1, <6>1 DEF TypeOK, Reads
          <6>. HIDE DEF IsolationInv
          <6>. QED  BY <5>1, <6>2, <6>3 DEF OpenRead
        <5>2. CASE UNCHANGED isoState
          BY <5>2
        <5>. QED  BY <1>1, <5>1, <5>2, StepFrame
      <4>2. PICK o \in readsOpen : o = Smallest(readsOpen) /\ \A y \in readsOpen : o <= y
        BY Zenon, <2>2, <3>3, SmallestIsLeast
      <4>3. isoState[o].lowWatermark <= isoState[n].lowWatermark
        BY <1>1, <3>3, <4>2 DEF BoundsBelowWatermarks
      <4>4. CurrentWatermark = isoState[o].lowWatermark
        BY <4>2 DEF CurrentWatermark
      <4>5. isoState[n].lowWatermark \in Nat
        BY <1>1, <3>3, ReadWatermarkLow
      <4>. QED  BY <2>3, <3>2, <4>1, <4>3, <4>4, <4>5
    <3>4. CASE n \notin readsOpen
      <4>1. OpenRead
        <5>. HIDE DEF IsolationInv
        <5>. QED  BY <1>1, <3>1, <3>4, StepFrame DEF CloseRead
      <4>2. n = lastRead + 1 /\ n \in Reads
        <5>1. readsOpen' = readsOpen \cup {lastRead + 1} /\ lastRead < MaxReads /\ lastRead \in Nat
          BY SMTT(30), <1>1, <4>1 DEF OpenRead, TypeOK
        <5>. HIDE DEF IsolationInv
        <5>. QED  BY SMTT(30), <3>1, <3>4, <5>1 DEF Reads
      <4>3. isoState'[n].lowWatermark = LowestAppendID
        BY <1>1, <4>1, <4>2 DEF OpenRead, TypeOK
      <4>. QED  BY <2>1, <2>3, <3>2, <4>3
    <3>. QED  BY <3>3, <3>4
  <2>. QED  BY <2>4, <2>5
<1>2. IsolationInv /\ IsolationInv' /\ [Next]_vars => CurrentWatermark' >= CurrentWatermark
  BY <1>1
<1>. QED  BY <1>2, Invariance, PTL DEF Spec, WatermarkMonotone
=============================================================================
