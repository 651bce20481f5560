-------------------------- MODULE P2TxFifo_proofs ---------------------------
(***************************************************************************)
(* Proofs about the ring between the modulator and the network, for every  *)
(* capacity, block and packet size and any number of blocks in flight, and *)
(* for every interleaving of push, pop and reset: after a reset that fell  *)
(* into a push ("torn") only the indices are known to be in order.         *)
(*                                                                         *)
(* Each thread works from an index it loaded earlier.  The argument is     *)
(* that the other thread can only have helped meanwhile: the producer's    *)
(* room grows, the consumer's samples stay, and the slots one fills are    *)
(* never the slots the other copies, although both are counted modulo the  *)
(* capacity.                                                               *)
(***************************************************************************)
EXTENDS P2TxFifo, SequenceTheorems, TLAPS

-----------------------------------------------------------------------------
(* Arithmetic modulo a variable.                                           *)

\* Quotient and remainder.
LEMMA DivisionEq ==
    ASSUME NEW a \in Int, NEW c \in Int, c > 0
    PROVE  /\ a \div c \in Int /\ a % c \in 0 .. c - 1
           /\ a = (a \div c) * c + (a % c)
<1>1. a = (a \div c) * c + (a % c)
  BY Z3T(20)
<1>2. a \div c \in Int
  OBVIOUS
<1>3. a % c \in 0 .. c - 1
  OBVIOUS
<1> QED BY <1>1, <1>2, <1>3

\* A multiple of c strictly between -c and c is zero.
LEMMA SmallMultiple ==
    ASSUME NEW d \in Int, NEW c \in Int, c > 0, -c < d * c, d * c < c
    PROVE  d = 0
<1>1. ASSUME d >= 1 PROVE d * c >= c
  BY <1>1, Z3T(20)
<1>2. ASSUME d <= -1 PROVE d * c <= -c
  BY <1>2, Z3T(20)
<1> QED BY <1>1, <1>2

\* Two indices less than a ring apart that share a slot are the same.
LEMMA SameSlot ==
    ASSUME NEW a \in Int, NEW b \in Int, NEW c \in Int, c > 0,
           a % c = b % c, -c < a - b, a - b < c
    PROVE  a = b
<1> DEFINE p == a \div c
           q == b \div c
           s == a % c
<1>1. p \in Int /\ q \in Int /\ s \in 0 .. c - 1 /\ a = p * c + s /\ b = q * c + s
  BY DivisionEq
<1> HIDE DEF p, q, s
<1>2. (p - q) * c = p * c - q * c
  BY <1>1, Z3T(20)
<1>3. p - q = 0
  BY <1>1, <1>2, SmallMultiple
<1> QED BY <1>1, <1>3

\* The remainder is the only one that fits.
LEMMA ModUnique ==
    ASSUME NEW a \in Int, NEW c \in Int, c > 0, NEW q \in Int,
           NEW r \in 0 .. c - 1, a = q * c + r
    PROVE  a % c = r
<1> DEFINE p == a \div c
           s == a % c
<1>1. p \in Int /\ s \in 0 .. c - 1 /\ a = p * c + s
  BY DivisionEq
<1> HIDE DEF p, s
<1>2. (p - q) * c = p * c - q * c
  BY <1>1, Z3T(20)
<1>3. p - q = 0
  BY <1>1, <1>2, SmallMultiple
<1>4. s = r
  BY <1>1, <1>3
<1> QED BY <1>4 DEF s

\* A remainder may be taken early in a sum.
LEMMA ModOfSum ==
    ASSUME NEW a \in Int, NEW b \in Int, NEW c \in Int, c > 0
    PROVE  ((a % c) + b) % c = (a + b) % c
<1> DEFINE p == a \div c
           s == a % c
           u == (s + b) \div c
           v == (s + b) % c
<1>1. p \in Int /\ s \in 0 .. c - 1 /\ a = p * c + s
  BY DivisionEq
<1> HIDE DEF p, s
<1>2. u \in Int /\ v \in 0 .. c - 1 /\ s + b = u * c + v
  BY <1>1, DivisionEq
<1> HIDE DEF u, v
<1>3. (p + u) * c = p * c + u * c
  BY <1>1, <1>2, Z3T(20)
<1>4. a + b = (p + u) * c + v /\ p + u \in Int /\ a + b \in Int
  BY <1>1, <1>2, <1>3
<1>5. (a + b) % c = v
  BY <1>2, <1>4, ModUnique
<1> QED BY <1>5 DEF v, s

-----------------------------------------------------------------------------
(* The inductive invariant.                                                *)

\* The sample of an index, and the number that follows a sample's.
At(k) == samples[k % Capacity]
After(x) == (x + 1) % Serials

Popping == {"popping", "copying", "popped"}

\* The reader never passes the writer, nor the writer the reader by a ring.
IndicesInOrder ==
    /\ Oldest <= writeIndex
    /\ ~torn => writeIndex - Oldest <= Capacity
    /\ session = "clearCounters" => readIndex = 0

\* What the producer found when it loaded the indices is still enough.
PushFits ==
    /\ push # "idle" => writeIndex <= pushWrite /\ pushWrite + BlockSize <= MaxIndex
    /\ push # "idle" /\ ~torn => pushWrite = writeIndex /\ FitsReset
    /\ push \in {"room", "filled"} /\ ~torn =>
         writeIndex - Oldest + BlockSize <= Capacity
    /\ push = "filled" /\ ~torn =>
         \A i \in 1 .. BlockSize : At(writeIndex + i - 1) = block[i]

\* What the consumer found is still there.
PopFits ==
    /\ session \in Popping => popRead = readIndex
    /\ session \in {"copying", "popped"} => readIndex + PacketSize <= writeIndex
    /\ session = "popped" /\ ~torn =>
         \A n \in 1 .. PacketSize : packet[n] = At(readIndex + n - 1)

RingInv == TypeOK /\ IndicesInOrder /\ PushFits /\ PopFits

Sizes ==
    /\ Capacity \in Nat \ {0} /\ BlockSize \in 1 .. Capacity
    /\ PacketSize \in 1 .. Capacity /\ PrimeSize \in PacketSize .. Capacity
    /\ MaxInFlight \in Nat /\ MaxIndex \in Nat /\ Serials \in Nat \ {0}

\* What the proofs use of the sizes.
LEMMA SizeFacts == Sizes
BY SizeAssumption, BoundAssumption DEF Sizes

\* Every position has a slot of the ring.
LEMMA SlotOf == \A k \in Int : k % Capacity \in Slot
BY SizeFacts DEF Sizes, Slot

\* Every position holds a sample.
LEMMA AtType ==
    ASSUME samples \in [Slot -> Sample] PROVE \A k \in Int : At(k) \in Sample
BY SlotOf DEF At

\* Serial numbers wrap inside their range.
LEMMA AfterType == \A x \in Int : After(x) \in Sample
BY SizeFacts DEF Sizes, Sample, After

\* The oldest sample has an index, and outside a reset it is the reader's.
LEMMA OldestType ==
    ASSUME TypeOK
    PROVE  /\ Oldest \in 0 .. MaxIndex /\ Oldest \in Nat
           /\ session # "clearRead" => Oldest = readIndex
           /\ session = "clearRead" => Oldest = 0
BY SizeFacts DEF Oldest, TypeOK, Sizes

\* A new FIFO satisfies the ring invariant.
LEMMA InitRing == ASSUME Init PROVE RingInv
<1>1. 0 \in 0 .. MaxIndex /\ 0 \in 0 .. MaxInFlight /\ 0 \in Sample /\ 0 \in 0 .. Capacity
  BY SizeFacts DEF Sizes, Sample
<1>2. sent \in Seq(Sample)
  BY DEF Init
<1>3. TypeOK
  BY <1>1, <1>2 DEF Init, TypeOK
<1> QED BY <1>1, <1>3
        DEF Init, RingInv, IndicesInOrder, Oldest, PushFits, PopFits, Popping

\* Filling a block puts samples into slots.
LEMMA FillTyped ==
    ASSUME TypeOK, PushFill PROVE samples' \in [Slot -> Sample]
<1>0. samples \in [Slot -> Sample] /\ block \in [1 .. BlockSize -> Sample]
  BY DEF TypeOK
<1> DEFINE Hits(s, i) == (pushWrite + i - 1) % Capacity = s
           Hit(s) == CHOOSE i \in 1 .. BlockSize : Hits(s, i)
<1>1. samples' = [s \in Slot |-> IF \E i \in 1 .. BlockSize : Hits(s, i)
                                 THEN block[Hit(s)] ELSE samples[s]]
  BY DEF PushFill
<1>2. ASSUME NEW s \in Slot, \E i \in 1 .. BlockSize : Hits(s, i)
      PROVE  Hit(s) \in 1 .. BlockSize
  BY <1>2
<1> HIDE DEF Hits, Hit
<1> QED BY <1>0, <1>1, <1>2

\* Filling a block writes the slots behind the writer and no others that count.
LEMMA FillIsApart ==
    ASSUME RingInv, ~torn, PushFill
    PROVE  /\ \A i \in 1 .. BlockSize : At(writeIndex + i - 1)' = block[i]
           /\ \A k \in Oldest .. writeIndex - 1 : At(k)' = At(k)
<1>0. /\ Sizes /\ writeIndex \in Nat /\ Oldest \in Nat /\ pushWrite = writeIndex
      /\ samples \in [Slot -> Sample] /\ block \in [1 .. BlockSize -> Sample]
      /\ writeIndex - Oldest + BlockSize <= Capacity
      /\ writeIndex' = writeIndex
  BY SizeFacts, OldestType DEF Sizes, RingInv, TypeOK, PushFits, PushFill
<1> DEFINE Hits(s, i) == (writeIndex + i - 1) % Capacity = s
           Hit(s) == CHOOSE i \in 1 .. BlockSize : Hits(s, i)
<1>1. samples' = [s \in Slot |-> IF \E i \in 1 .. BlockSize : Hits(s, i)
                                 THEN block[Hit(s)] ELSE samples[s]]
  BY <1>0 DEF PushFill
<1>2. ASSUME NEW s \in Slot, \E i \in 1 .. BlockSize : Hits(s, i)
      PROVE  Hit(s) \in 1 .. BlockSize /\ Hits(s, Hit(s))
  BY <1>2
<1>3. ASSUME NEW i \in 1 .. BlockSize, NEW j \in 1 .. BlockSize,
             Hits((writeIndex + i - 1) % Capacity, j)
      PROVE  j = i
  <2>1. writeIndex + i - 1 \in Int /\ writeIndex + j - 1 \in Int
    BY <1>0
  <2>2. -Capacity < (writeIndex + i - 1) - (writeIndex + j - 1)
    BY <1>0 DEF Sizes
  <2>3. (writeIndex + i - 1) - (writeIndex + j - 1) < Capacity
    BY <1>0 DEF Sizes
  <2>4. writeIndex + i - 1 = writeIndex + j - 1
    BY <1>0, <1>3, <2>1, <2>2, <2>3, SameSlot DEF Sizes
  <2> QED BY <1>0, <2>4
<1>4. ASSUME NEW k \in Oldest .. writeIndex - 1, NEW j \in 1 .. BlockSize
      PROVE  ~Hits(k % Capacity, j)
  <2>1. k \in Int /\ writeIndex + j - 1 \in Int
    BY <1>0
  <2>2. -Capacity < k - (writeIndex + j - 1) /\ k - (writeIndex + j - 1) < 0
    BY <1>0 DEF Sizes
  <2>3. Capacity \in Int /\ Capacity > 0
    BY <1>0 DEF Sizes
  <2>4. SUFFICES ASSUME Hits(k % Capacity, j) PROVE FALSE
    OBVIOUS
  <2>5. k = writeIndex + j - 1
    BY <2>1, <2>2, <2>3, <2>4, SameSlot
  <2> QED BY <2>1, <2>2, <2>5
<1>5. ASSUME NEW i \in 1 .. BlockSize PROVE At(writeIndex + i - 1)' = block[i]
  <2> DEFINE s == (writeIndex + i - 1) % Capacity
  <2>1. s \in Slot /\ Hits(s, i)
    BY <1>0, SlotOf
  <2>2. Hit(s) \in 1 .. BlockSize /\ Hits(s, Hit(s))
    BY <1>2, <2>1
  <2>3. Hit(s) = i
    BY <1>3, <2>2
  <2>4. samples'[s] = block[i]
    BY <1>1, <2>1, <2>3
  <2> QED BY <1>0, <2>4 DEF At
<1>6. ASSUME NEW k \in Oldest .. writeIndex - 1 PROVE At(k)' = At(k)
  <2>1. k % Capacity \in Slot
    BY <1>0, SlotOf
  <2>2. samples'[k % Capacity] = samples[k % Capacity]
    BY <1>1, <1>4, <2>1
  <2> QED BY <2>2 DEF At
<1> QED BY <1>5, <1>6

-----------------------------------------------------------------------------
(* The invariant is kept.                                                  *)

\* A new block of the pump keeps it.
LEMMA FeedKeepsRing == ASSUME RingInv, Feed PROVE RingInv'
<1>0. Sizes /\ inFlight \in 0 .. MaxInFlight /\ inFlight < MaxInFlight
  BY SizeFacts DEF RingInv, TypeOK, Feed
<1>1. inFlight' \in 0 .. MaxInFlight
  BY <1>0 DEF Feed, Sizes
<1>2. TypeOK'
  BY <1>1 DEF RingInv, TypeOK, Feed, ring, consumer
<1>4. UNCHANGED <<ring, push, pushWrite, block, session, popRead, packet, torn>>
  BY DEF Feed, consumer
<1> QED BY <1>2, <1>4
        DEF RingInv, IndicesInOrder, Oldest, PushFits, FitsReset, Clearing, PopFits, At, ring

\* Loading the write index keeps it.
LEMMA LoadWriteKeepsRing == ASSUME RingInv, PushLoadWrite PROVE RingInv'
<1>0. /\ Sizes /\ inFlight \in 0 .. MaxInFlight /\ inFlight > 0 /\ serial \in Sample
      /\ writeIndex \in 0 .. MaxIndex
  BY SizeFacts DEF RingInv, TypeOK, PushLoadWrite
<1>1. inFlight' \in 0 .. MaxInFlight
  BY <1>0 DEF PushLoadWrite, Sizes
<1>2. \A i \in 1 .. BlockSize : (serial + i - 1) % Serials \in Sample
  BY <1>0 DEF Sizes, Sample
<1>3. (serial + BlockSize) % Serials \in Sample
  BY <1>0 DEF Sizes, Sample
<1>4. block' \in [1 .. BlockSize -> Sample] /\ serial' \in Sample
  BY <1>2, <1>3 DEF PushLoadWrite
<1>5. /\ push' = "began" /\ pushWrite' = writeIndex /\ UNCHANGED <<ring, consumer, torn>>
      /\ writeIndex + BlockSize <= MaxIndex /\ FitsReset
  BY <1>0 DEF PushLoadWrite
<1>6. TypeOK'
  BY <1>0, <1>1, <1>4, <1>5 DEF RingInv, TypeOK, ring, consumer
<1>7. IndicesInOrder' /\ PopFits'
  BY <1>5 DEF RingInv, IndicesInOrder, Oldest, PopFits, At, ring, consumer
<1>8. PushFits'
  BY <1>0, <1>5 DEF PushFits, FitsReset, Clearing, ring, consumer
<1> QED BY <1>6, <1>7, <1>8 DEF RingInv

\* Loading the read index keeps it: a fit seen now is still a fit later, and
\* between the stores of a reset the blocks fit whatever the index says.
LEMMA LoadReadKeepsRing == ASSUME RingInv, PushLoadRead PROVE RingInv'
<1>0. /\ Sizes /\ writeIndex \in Nat /\ readIndex \in Nat /\ Oldest \in Nat /\ push = "began"
      /\ writeIndex <= pushWrite /\ pushWrite + BlockSize <= MaxIndex
      /\ ~torn => pushWrite = writeIndex /\ FitsReset
  BY SizeFacts, OldestType DEF RingInv, TypeOK, PushLoadRead, PushFits, Sizes
<1>1. ~torn /\ ~Full(pushWrite, readIndex) => writeIndex - Oldest + BlockSize <= Capacity
  <2> SUFFICES ASSUME ~torn, ~Full(pushWrite, readIndex)
               PROVE  writeIndex - Oldest + BlockSize <= Capacity
    OBVIOUS
  <2>1. pushWrite = writeIndex /\ FitsReset
    BY <1>0
  <2>2. CASE Clearing
    <3>1. writeIndex + BlockSize <= Capacity
      BY <2>1, <2>2 DEF FitsReset
    <3> QED BY <1>0, <3>1 DEF Sizes
  <2>3. CASE ~Clearing
    <3>1. Oldest = readIndex /\ writeIndex - readIndex \in 0 .. Capacity
      BY <1>0, <2>3 DEF RingInv, IndicesInOrder, Oldest, Clearing, Sizes
    <3> QED BY <1>0, <2>1, <3>1 DEF Full, Sizes
  <2> QED BY <2>2, <2>3
<1>3. \/ push' = "idle" /\ overflowed' = TRUE
      \/ /\ push' = "room" /\ overflowed' = overflowed
         /\ ~torn => writeIndex - Oldest + BlockSize <= Capacity
  BY <1>0, <1>1 DEF PushLoadRead
<1>4. UNCHANGED <<writeIndex, readIndex, samples, inFlight, serial, pushWrite,
                  block, consumer, torn>>
  BY DEF PushLoadRead
<1>5. TypeOK'
  BY <1>3, <1>4 DEF RingInv, TypeOK, consumer
<1>6. IndicesInOrder' /\ Oldest' = Oldest /\ Clearing' = Clearing
  BY <1>4 DEF RingInv, IndicesInOrder, Oldest, Clearing, consumer
<1>7. PushFits'
  BY <1>0, <1>3, <1>4, <1>6 DEF PushFits, FitsReset
<1>8. PopFits'
  BY <1>4 DEF RingInv, PopFits, At, consumer
<1> QED BY <1>5, <1>6, <1>7, <1>8 DEF RingInv

\* Copying a block keeps it: the slots written are free.
LEMMA FillKeepsRing == ASSUME RingInv, PushFill PROVE RingInv'
<1>0. /\ Sizes /\ writeIndex \in Nat /\ readIndex \in Nat /\ push = "room" /\ push' = "filled"
      /\ UNCHANGED <<writeIndex, readIndex, overflowed, inFlight, serial,
                     pushWrite, block, session, popRead, packet, sent, last, torn>>
  BY SizeFacts DEF RingInv, TypeOK, PushFill, consumer
<1>1. TypeOK'
  BY <1>0, FillTyped DEF RingInv, TypeOK
<1>2. ASSUME session = "popped", ~torn, NEW n \in 1 .. PacketSize
      PROVE  packet[n] = At(readIndex + n - 1)'
  <2>1. readIndex + n - 1 \in Oldest .. writeIndex - 1
    <3>1. Oldest = readIndex
      BY <1>2 DEF Oldest
    <3> QED BY <1>0, <1>2, <3>1 DEF RingInv, PopFits, Sizes
  <2>2. packet[n] = At(readIndex + n - 1)
    BY <1>2 DEF RingInv, PopFits
  <2>3. At(readIndex + n - 1)' = At(readIndex + n - 1)
    <3> DEFINE k == readIndex + n - 1
    <3>1. At(k)' = samples'[k % Capacity]
      BY <1>0 DEF At
    <3>2. \A j \in Oldest .. writeIndex - 1 : samples'[j % Capacity] = samples[j % Capacity]
      BY <1>2, FillIsApart DEF At
    <3> QED BY <2>1, <3>1, <3>2 DEF At
  <2> QED BY <2>2, <2>3
<1>3. ~torn => \A i \in 1 .. BlockSize : At(writeIndex + i - 1)' = block'[i]
  BY <1>0, FillIsApart
<1>4. IndicesInOrder' /\ Oldest' = Oldest /\ Clearing' = Clearing
  BY <1>0 DEF RingInv, IndicesInOrder, Oldest, Clearing
<1>5. PushFits'
  BY <1>0, <1>3, <1>4 DEF RingInv, PushFits, FitsReset
<1>6. PopFits'
  BY <1>0, <1>2 DEF RingInv, PopFits
<1> QED BY <1>1, <1>4, <1>5, <1>6 DEF RingInv

\* Publishing the write index keeps it.
LEMMA PublishKeepsRing == ASSUME RingInv, PushPublish PROVE RingInv'
<1>0. /\ Sizes /\ writeIndex \in Nat /\ Oldest \in Nat /\ pushWrite \in Nat
      /\ readIndex \in Nat /\ push = "filled" /\ push' = "idle"
      /\ writeIndex <= pushWrite /\ pushWrite + BlockSize <= MaxIndex
      /\ ~torn => pushWrite = writeIndex /\ writeIndex - Oldest + BlockSize <= Capacity
      /\ writeIndex' = pushWrite + BlockSize
      /\ UNCHANGED <<readIndex, samples, overflowed, inFlight, serial, pushWrite,
                     block, session, popRead, packet, sent, last, torn>>
  BY SizeFacts, OldestType DEF RingInv, TypeOK, PushFits, PushPublish, consumer
<1>1. writeIndex' \in 0 .. MaxIndex /\ writeIndex' >= writeIndex
  BY <1>0 DEF Sizes
<1>2. TypeOK'
  BY <1>0, <1>1 DEF RingInv, TypeOK
<1>3. Oldest' = Oldest
  BY <1>0 DEF Oldest
<1>4. IndicesInOrder'
  BY <1>0, <1>1, <1>3 DEF RingInv, IndicesInOrder, Sizes
<1>5. PushFits'
  BY <1>0 DEF PushFits
<1>6. PopFits'
  BY <1>0, <1>1 DEF RingInv, PopFits, At, Sizes
<1> QED BY <1>2, <1>4, <1>5, <1>6 DEF RingInv

\* A reader further on leaves no more to hold.
LEMMA FurtherOn ==
    ASSUME NEW w \in Int, NEW r \in Int, NEW q \in Int, NEW b \in Int, NEW c \in Int,
           q >= r
    PROVE  (w - r <= c => w - q <= c) /\ (w - r + b <= c => w - q + b <= c)
OBVIOUS

\* Taking a packet keeps it.
LEMMA PopKeepsRing == ASSUME RingInv, Pop PROVE RingInv'
<1>0. /\ Sizes /\ writeIndex \in 0 .. MaxIndex /\ readIndex \in 0 .. MaxIndex
      /\ samples \in [Slot -> Sample] /\ Oldest \in Nat
  BY SizeFacts, OldestType DEF RingInv, TypeOK
<1>a. /\ session \in {"streaming", "popping", "copying", "popped"}
      /\ session' \in {"streaming", "stopped", "popping", "copying", "popped"}
      /\ Oldest = readIndex /\ Oldest' = readIndex' /\ ~Clearing /\ ~Clearing'
      /\ UNCHANGED <<writeIndex, samples, push, pushWrite, block, torn>>
  BY DEF Pop, TakePacket, PopLoadWrite, PopCopy, PopPublish, Oldest, Clearing, ring, producer
<1>b. readIndex <= writeIndex /\ (~torn => writeIndex - readIndex <= Capacity)
  BY <1>a DEF RingInv, IndicesInOrder
<1>c. ASSUME readIndex' >= readIndex, readIndex' <= writeIndex, readIndex' \in Nat
      PROVE  IndicesInOrder' /\ PushFits'
  <2>a. UNCHANGED <<writeIndex, samples, push, pushWrite, block>>
    BY <1>a
  <2>b. ~torn' <=> ~torn
    BY <1>a, Zenon
  <2>c. Oldest' >= Oldest /\ Oldest' <= writeIndex /\ Oldest' \in Nat
    BY <1>a, <1>c
  <2>d. session' # "clearCounters" /\ ~Clearing'
    BY <1>a
  <2>e. Capacity \in Nat /\ BlockSize \in Nat
    BY <1>0 DEF Sizes
  <2>0. /\ UNCHANGED <<writeIndex, samples, push, pushWrite, block>> /\ (~torn' <=> ~torn)
        /\ Oldest' >= Oldest /\ Oldest' <= writeIndex /\ Oldest' \in Nat
        /\ session' # "clearCounters" /\ ~Clearing' /\ Capacity \in Nat /\ BlockSize \in Nat
    BY <2>a, <2>b, <2>c, <2>d, <2>e, Zenon
  <2>1. IndicesInOrder'
    <3>0. /\ writeIndex \in Int /\ readIndex \in Int /\ readIndex' \in Int /\ Capacity \in Int
          /\ readIndex' >= readIndex
      BY <1>0, <1>c DEF Sizes
    <3>1. writeIndex - readIndex <= Capacity => writeIndex - readIndex' <= Capacity
      BY <3>0, FurtherOn, Zenon
    <3>2. ~torn => writeIndex - Oldest' <= Capacity
      BY <1>a, <1>b, <3>1, Zenon
    <3> QED BY <2>0, <3>2 DEF IndicesInOrder
  <2>2. PushFits'
    <3>0. push \in {"room", "filled"} /\ ~torn => writeIndex - readIndex + BlockSize <= Capacity
      BY <1>a DEF RingInv, PushFits
    <3>2. /\ writeIndex \in Int /\ readIndex \in Int /\ readIndex' \in Int /\ Capacity \in Int
          /\ BlockSize \in Int /\ readIndex' >= readIndex
      BY <1>0, <1>c DEF Sizes
    <3>3. writeIndex - readIndex + BlockSize <= Capacity
          => writeIndex - readIndex' + BlockSize <= Capacity
      BY <3>2, FurtherOn, Zenon
    <3>1. push \in {"room", "filled"} /\ ~torn => writeIndex - Oldest' + BlockSize <= Capacity
      BY <1>a, <3>0, <3>3, Zenon
    <3> QED BY <2>0, <3>1 DEF RingInv, PushFits, FitsReset, At
  <2> QED BY <2>1, <2>2
<1>1. CASE TakePacket
  <2>1. /\ session = "streaming" /\ UNCHANGED <<ring, producer, packet, sent, last, torn>>
        /\ \/ session' = "stopped" /\ popRead' = popRead
           \/ session' = "popping" /\ popRead' = readIndex
    BY <1>1 DEF TakePacket
  <2>2. TypeOK'
    BY <1>0, <2>1 DEF RingInv, TypeOK, ring, producer
  <2>3. IndicesInOrder' /\ PushFits'
    BY <1>0, <1>b, <1>c, <2>1 DEF ring
  <2>4. PopFits'
    BY <2>1 DEF PopFits, Popping, ring
  <2> QED BY <2>2, <2>3, <2>4 DEF RingInv
<1>2. CASE PopLoadWrite
  <2>1. /\ session = "popping" /\ UNCHANGED <<ring, producer, popRead, packet, sent, last, torn>>
        /\ \/ session' = "stopped"
           \/ session' = "copying" /\ writeIndex - popRead \notin 0 .. PacketSize - 1
    BY <1>2 DEF PopLoadWrite
  <2>2. popRead = readIndex
    BY <2>1 DEF RingInv, PopFits, Popping
  <2>3. session' = "copying" => readIndex + PacketSize <= writeIndex
    BY <1>0, <1>b, <2>1, <2>2 DEF Sizes
  <2>4. TypeOK'
    BY <2>1 DEF RingInv, TypeOK, ring, producer
  <2>5. IndicesInOrder' /\ PushFits'
    BY <1>0, <1>b, <1>c, <2>1 DEF ring
  <2>6. PopFits'
    BY <2>1, <2>2, <2>3 DEF RingInv, PopFits, Popping, ring
  <2> QED BY <2>4, <2>5, <2>6 DEF RingInv
<1>3. CASE PopCopy
  <2>1. /\ session = "copying" /\ session' = "popped"
        /\ packet' = [n \in 1 .. PacketSize |-> samples[(popRead + n - 1) % Capacity]]
        /\ UNCHANGED <<ring, producer, popRead, sent, last, torn>>
    BY <1>3 DEF PopCopy
  <2>2. popRead = readIndex /\ readIndex + PacketSize <= writeIndex
    BY <2>1 DEF RingInv, PopFits, Popping
  <2>3. \A n \in 1 .. PacketSize : /\ packet'[n] = At(readIndex + n - 1)
                                   /\ At(readIndex + n - 1) \in Sample
    BY <1>0, <2>1, <2>2, AtType DEF At
  <2>4. packet' \in [1 .. PacketSize -> Sample]
    BY <2>1, <2>2, <2>3 DEF At
  <2>5. TypeOK'
    BY <2>1, <2>4 DEF RingInv, TypeOK, ring, producer
  <2>6. IndicesInOrder' /\ PushFits'
    BY <1>0, <1>b, <1>c, <2>1 DEF ring
  <2>7. PopFits'
    BY <2>1, <2>2, <2>3 DEF RingInv, PopFits, Popping, ring, At
  <2> QED BY <2>5, <2>6, <2>7 DEF RingInv
<1>4. CASE PopPublish
  <2>1. /\ session = "popped" /\ session' = "streaming"
        /\ readIndex' = popRead + PacketSize /\ sent' = packet
        /\ last' = packet[PacketSize]
        /\ UNCHANGED <<writeIndex, samples, overflowed, producer, popRead, packet, torn>>
    BY <1>4 DEF PopPublish
  <2>2. popRead = readIndex /\ readIndex + PacketSize <= writeIndex
    BY <2>1 DEF RingInv, PopFits, Popping
  <2>3. /\ readIndex' \in 0 .. MaxIndex /\ readIndex' > readIndex
        /\ readIndex' <= writeIndex
    BY <1>0, <2>1, <2>2 DEF Sizes
  <2>4. packet \in [1 .. PacketSize -> Sample] /\ PacketSize \in Nat
        /\ PacketSize \in 1 .. PacketSize
    BY <1>0 DEF RingInv, TypeOK, Sizes
  <2>5. packet \in Seq(Sample) /\ packet[PacketSize] \in Sample
    BY <2>4, SeqDef
  <2>6. TypeOK'
    BY <2>1, <2>3, <2>5 DEF RingInv, TypeOK, producer
  <2>7. IndicesInOrder' /\ PushFits'
    BY <1>0, <1>c, <2>3
  <2>8. PopFits'
    BY <2>1 DEF PopFits, Popping
  <2> QED BY <2>6, <2>7, <2>8 DEF RingInv
<1> QED BY <1>1, <1>2, <1>3, <1>4 DEF Pop

\* Start, stop and reset keep it, wherever the producer is.
LEMMA SessionKeepsRing ==
    ASSUME RingInv, Session PROVE RingInv'
<1>0. /\ Sizes /\ writeIndex \in 0 .. MaxIndex /\ readIndex \in 0 .. MaxIndex
      /\ 0 \in 0 .. MaxIndex /\ 0 \in 0 .. Capacity /\ pushWrite \in 0 .. MaxIndex
  BY SizeFacts DEF RingInv, TypeOK, Sizes
<1>1. CASE Stop \/ PrimeTick \/ Start
  <2>1. /\ session \in {"priming", "streaming", "stopped"}
        /\ session' \in {"stopped", "streaming", "clearWrite"}
        /\ UNCHANGED <<ring, producer, popRead, packet, sent, last, torn>>
    BY <1>1 DEF Stop, PrimeTick, Start
  <2>2. TypeOK'
    BY <2>1 DEF RingInv, TypeOK, ring, producer
  <2> QED BY <2>1, <2>2 DEF RingInv, IndicesInOrder, Oldest, PushFits, FitsReset, Clearing,
                            PopFits, Popping, At, ring, producer
<1>2. CASE ClearWrite
  <2>1. /\ session = "clearWrite" /\ session' = "clearRead" /\ writeIndex' = 0
        /\ torn' = (push # "idle")
        /\ UNCHANGED <<readIndex, samples, overflowed, producer, popRead, packet, sent, last>>
    BY <1>2 DEF ClearWrite
  <2>2. TypeOK'
    BY <1>0, <2>1 DEF RingInv, TypeOK, producer
  <2>3. IndicesInOrder'
    BY <1>0, <2>1 DEF IndicesInOrder, Oldest, Sizes
  <2>6. push # "idle" => torn'
    BY <2>1, Zenon
  <2>4. PushFits'
    BY <1>0, <2>1, <2>6 DEF RingInv, PushFits, producer
  <2>5. PopFits'
    BY <2>1 DEF PopFits, Popping
  <2> QED BY <2>2, <2>3, <2>4, <2>5 DEF RingInv
<1>3. CASE ClearRead
  <2>1. /\ session = "clearRead" /\ session' = "clearCounters" /\ readIndex' = 0
        /\ UNCHANGED <<writeIndex, samples, overflowed, producer, popRead, packet, sent,
                       last, torn>>
    BY <1>3 DEF ClearRead
  <2>2. TypeOK'
    BY <1>0, <2>1 DEF RingInv, TypeOK, producer
  <2>3. Oldest = 0 /\ Oldest' = 0 /\ Clearing /\ Clearing'
    BY <2>1 DEF Oldest, Clearing
  <2>4. IndicesInOrder'
    BY <2>1, <2>3 DEF RingInv, IndicesInOrder
  <2>5. PushFits'
    BY <2>1, <2>3 DEF RingInv, PushFits, FitsReset, At, producer
  <2>6. PopFits'
    BY <2>1 DEF PopFits, Popping
  <2> QED BY <2>2, <2>4, <2>5, <2>6 DEF RingInv
<1>4. CASE ClearCounters
  <2>1. /\ session = "clearCounters" /\ session' = "priming" /\ overflowed' = FALSE
        /\ last' = None
        /\ UNCHANGED <<writeIndex, readIndex, samples, producer, popRead, packet, sent, torn>>
    BY <1>4 DEF ClearCounters
  <2>2. TypeOK'
    BY <1>0, <2>1 DEF RingInv, TypeOK, producer
  <2> QED BY <2>1, <2>2 DEF RingInv, IndicesInOrder, Oldest, PushFits, FitsReset, Clearing,
                            PopFits, Popping, At, producer
<1> QED BY <1>1, <1>2, <1>3, <1>4 DEF Session

\* Every step keeps it.
LEMMA RingKept == ASSUME RingInv, [Next]_vars PROVE RingInv'
<1>1. CASE UNCHANGED vars
  BY <1>1 DEF vars, ring, producer, consumer, RingInv, TypeOK, IndicesInOrder, Oldest,
              PushFits, FitsReset, Clearing, PopFits, At
<1> QED BY <1>1, FeedKeepsRing, LoadWriteKeepsRing, LoadReadKeepsRing, FillKeepsRing,
           PublishKeepsRing, PopKeepsRing, SessionKeepsRing DEF Next, Push

\* Type correctness, and that neither thread ever uses a stale index wrongly
\* in a ring that is not torn: a block that was found to fit still fits when it
\* is published, and a packet is unchanged between the load of the indices and
\* the store of the new one, with blocks arriving at any point of a reset.
THEOREM RingInvariant == Spec => []RingInv
BY InitRing, RingKept, PTL DEF Spec

-----------------------------------------------------------------------------
(* The ring is a queue.                                                    *)

\* The operations of the queue, under names the provers leave alone.
Joined(a, b) == a \o b
Cut(a, first, end) == SubSeq(a, first, end)

\* The n samples from index r on, as a sequence.
Segment(s, r, n) == [i \in 1 .. n |-> s[(r + i - 1) % Capacity]]

\* A block is a sequence of its length.
LEMMA BlockIsSeq ==
    ASSUME NEW n \in Nat, NEW b \in [1 .. n -> Sample]
    PROVE  b \in Seq(Sample) /\ Len(b) = n
<1>1. b \in Seq(Sample) /\ DOMAIN b = 1 .. n
  BY SeqDef
<1>2. Len(b) \in Nat /\ DOMAIN b = 1 .. Len(b)
  BY <1>1, LenProperties
<1>3. \A i \in Nat : i \in 1 .. Len(b) <=> i \in 1 .. n
  BY <1>1, <1>2
<1> QED BY <1>1, <1>2, <1>3

\* A stretch of the ring is a sequence, sample by sample.
LEMMA SegmentIsSeq ==
    ASSUME NEW s \in [Slot -> Sample], NEW r \in Int, NEW n \in Nat
    PROVE  /\ Segment(s, r, n) \in Seq(Sample)
           /\ Len(Segment(s, r, n)) = n
           /\ \A i \in 1 .. n : Segment(s, r, n)[i] = s[(r + i - 1) % Capacity]
<1>1. \A i \in 1 .. n : s[(r + i - 1) % Capacity] \in Sample
  BY SlotOf
<1>2. /\ Segment(s, r, n) \in [1 .. n -> Sample]
      /\ \A i \in 1 .. n : Segment(s, r, n)[i] = s[(r + i - 1) % Capacity]
  BY <1>1 DEF Segment
<1> QED BY <1>2, BlockIsSeq

\* A stretch of no length is empty.
LEMMA EmptySegment ==
    ASSUME NEW s \in [Slot -> Sample], NEW r \in Int, NEW w \in Int, w <= r
    PROVE  Segment(s, r, w - r) = <<>>
<1>1. 1 .. w - r = 1 .. 0
  OBVIOUS
<1>2. Segment(s, r, w - r) = Segment(s, r, 0)
  BY <1>1 DEF Segment
<1>3. Segment(s, r, 0) \in Seq(Sample) /\ Len(Segment(s, r, 0)) = 0
  BY SegmentIsSeq
<1> QED BY <1>2, <1>3, EmptySeq

\* The slots from index from on hold the n samples of b.
Stands(s, from, n, b) == \A i \in 1 .. n : s[(from + i - 1) % Capacity] = b[i]

\* Samples that stand behind a segment extend it.
LEMMA SegmentGrows ==
    ASSUME NEW s \in [Slot -> Sample], NEW r \in Int, NEW m \in Nat, NEW n \in Nat,
           NEW b \in [1 .. n -> Sample], NEW sum \in Nat, sum = m + n,
           NEW from \in Int, from = r + m, Stands(s, from, n, b)
    PROVE  Segment(s, r, sum) = Joined(Segment(s, r, m), b)
<1> DEFINE old == Segment(s, r, m)
           new == Segment(s, r, sum)
<1>1. /\ old \in Seq(Sample) /\ Len(old) = m
      /\ \A i \in 1 .. m : old[i] = s[(r + i - 1) % Capacity]
  BY SegmentIsSeq
<1>2. /\ new \in Seq(Sample) /\ Len(new) = sum
      /\ \A i \in 1 .. sum : new[i] = s[(r + i - 1) % Capacity]
  BY SegmentIsSeq
<1>3. b \in Seq(Sample) /\ Len(b) = n
  BY BlockIsSeq
<1> HIDE DEF old, new
<1>4. /\ old \o b \in Seq(Sample) /\ Len(old \o b) = Len(old) + Len(b)
      /\ \A i \in 1 .. Len(old) + Len(b) : (old \o b)[i] =
           IF i <= Len(old) THEN old[i] ELSE b[i - Len(old)]
  BY <1>1, <1>3, ConcatProperties
<1>5. ASSUME NEW i \in 1 .. sum PROVE new[i] = (old \o b)[i]
  <2>1. new[i] = s[(r + i - 1) % Capacity]
    BY <1>2
  <2>2. (old \o b)[i] = IF i <= m THEN old[i] ELSE b[i - m]
    BY <1>1, <1>3, <1>4
  <2>3. CASE i <= m
    BY <1>1, <2>1, <2>2, <2>3
  <2>4. CASE i > m
    <3>1. i - m \in 1 .. n /\ from + (i - m) - 1 = r + i - 1
      BY <2>4
    <3>2. s[(from + (i - m) - 1) % Capacity] = b[i - m]
      BY <3>1 DEF Stands
    <3> QED BY <2>1, <2>2, <2>4, <3>1, <3>2
  <2>5. i <= m \/ i > m
    OBVIOUS
  <2> QED BY <2>3, <2>4, <2>5
<1>6. Len(new) = Len(old \o b)
  BY <1>1, <1>2, <1>3, <1>4
<1>7. \A i \in 1 .. Len(new) : new[i] = (old \o b)[i]
  BY <1>2, <1>5
<1>8. new = old \o b
  BY <1>2, <1>4, <1>6, <1>7, SeqEqual
<1> QED BY <1>8 DEF old, new, Joined

\* Any part of a segment is a segment.
LEMMA PartOfSegment ==
    ASSUME NEW s \in [Slot -> Sample], NEW r \in Int, NEW n \in Nat,
           NEW m \in Nat, NEW k \in Nat, m + k <= n,
           NEW first \in Int, first = m + 1, NEW end \in Int, end = m + k,
           NEW from \in Int, from = r + m
    PROVE  Cut(Segment(s, r, n), first, end) = Segment(s, from, k)
<1> DEFINE whole == Segment(s, r, n)
           part == SubSeq(whole, first, end)
           other == Segment(s, from, k)
<1>1. /\ whole \in Seq(Sample) /\ Len(whole) = n
      /\ \A i \in 1 .. n : whole[i] = s[(r + i - 1) % Capacity]
  BY SegmentIsSeq
<1> HIDE DEF whole
<1>2. \A i \in 1 .. n : whole[i] \in Sample
  BY <1>1, ElementOfSeq
<1>3. \A i \in first .. end : whole[i] \in Sample
  BY <1>2
<1>4. /\ part \in Seq(Sample)
      /\ Len(part) = IF first <= end THEN end - first + 1 ELSE 0
      /\ \A i \in 1 .. end - first + 1 : part[i] = whole[first + i - 1]
  BY <1>3, SubSeqProperties
<1>6. /\ other \in Seq(Sample) /\ Len(other) = k
      /\ \A i \in 1 .. k : other[i] = s[(from + i - 1) % Capacity]
  BY SegmentIsSeq
<1> HIDE DEF part, other
<1>7. Len(part) = k
  BY <1>4
<1>8. ASSUME NEW i \in 1 .. k PROVE part[i] = other[i]
  <2>1. i \in 1 .. end - first + 1 /\ first + i - 1 = m + i
    OBVIOUS
  <2>2. part[i] = whole[m + i]
    BY <1>4, <2>1
  <2>3. m + i \in 1 .. n /\ r + (m + i) - 1 = from + i - 1
    OBVIOUS
  <2>4. whole[m + i] = s[(r + (m + i) - 1) % Capacity]
    BY <1>1, <2>3
  <2> QED BY <1>6, <2>2, <2>3, <2>4
<1>9. part = other
  BY <1>4, <1>6, <1>7, <1>8, SeqEqual
<1> QED BY <1>9 DEF whole, part, other, Cut

\* How many samples the ring holds.
Fill == writeIndex - Oldest

\* What the FIFO holds is the stretch from the oldest sample on.
LEMMA HeldIsSegment == Held = Segment(samples, Oldest, Fill)
BY DEF Held, Segment, Fill

\* The abstract queue; a torn ring stands for an empty one.
Mapped == IF torn THEN <<>> ELSE Held

QueueStep ==
    [Queue!Accept \/ Queue!Send \/ Queue!SendAnything \/ Queue!Clear]_<<Mapped, sent, ~torn>>

\* A block that was filled where the segment ends appears behind it.
LEMMA PublishAccepts == ASSUME RingInv, ~torn, PushPublish PROVE Queue!Accept
<1>0. /\ Sizes /\ writeIndex \in Nat /\ Oldest \in Nat /\ BlockSize \in Nat
      /\ samples \in [Slot -> Sample] /\ block \in [1 .. BlockSize -> Sample]
      /\ writeIndex - Oldest + BlockSize <= Capacity
      /\ \A i \in 1 .. BlockSize : At(writeIndex + i - 1) = block[i]
      /\ writeIndex' = writeIndex + BlockSize
      /\ samples' = samples /\ sent' = sent /\ torn' = torn
  BY SizeFacts, OldestType DEF Sizes, RingInv, TypeOK, PushFits, PushPublish, consumer
<1>1. Oldest' = Oldest /\ Oldest <= writeIndex
  BY DEF RingInv, IndicesInOrder, Oldest, PushPublish, consumer
<1>2. Fill \in Nat /\ Fill' \in Nat /\ Fill' = Fill + BlockSize /\ Oldest + Fill = writeIndex
  BY <1>0, <1>1 DEF Fill
<1>3. Stands(samples, writeIndex, BlockSize, block)
  BY <1>0 DEF At, Stands
<1>4. Segment(samples, Oldest, Fill') = Joined(Segment(samples, Oldest, Fill), block)
  <2>1. /\ samples \in [Slot -> Sample] /\ Oldest \in Int /\ BlockSize \in Nat
        /\ block \in [1 .. BlockSize -> Sample] /\ writeIndex \in Int
    BY <1>0
  <2> QED BY <1>2, <1>3, <2>1, SegmentGrows
<1>5. Held' = Segment(samples', Oldest', Fill')
  BY DEF Held, Segment, Fill
<1>6. Held' = Joined(Held, block)
  BY <1>0, <1>1, <1>4, <1>5, HeldIsSegment
<1>7. Len(Held) = Fill
  BY <1>0, <1>2, SegmentIsSeq, HeldIsSegment
<1>8. Len(Held) + BlockSize <= Capacity
  BY <1>0, <1>7 DEF Fill
<1> QED BY <1>0, <1>6, <1>8 DEF Queue!Accept, Joined

\* The packet that leaves is the front of the segment.
LEMMA PublishSends == ASSUME RingInv, ~torn, PopPublish PROVE Queue!Send
<1>0. /\ Sizes /\ writeIndex \in Nat /\ readIndex \in Nat /\ PacketSize \in Nat \ {0}
      /\ samples \in [Slot -> Sample] /\ packet \in [1 .. PacketSize -> Sample]
      /\ popRead = readIndex /\ readIndex + PacketSize <= writeIndex
      /\ \A i \in 1 .. PacketSize : packet[i] = At(readIndex + i - 1)
      /\ readIndex' = readIndex + PacketSize /\ writeIndex' = writeIndex
      /\ samples' = samples /\ sent' = packet /\ torn' = torn
      /\ Oldest = readIndex /\ Oldest' = readIndex'
  BY SizeFacts DEF Sizes, RingInv, TypeOK, PopFits, Popping, PopPublish, Oldest
<1>1. Fill \in Nat /\ Fill' = Fill - PacketSize /\ Fill' \in Nat
  BY <1>0 DEF Fill
<1>2. Len(Held) = Fill
  BY <1>0, <1>1, SegmentIsSeq, HeldIsSegment
<1>3. packet = Segment(samples, readIndex, PacketSize)
  BY <1>0 DEF Segment, At
<1>4. Cut(Segment(samples, readIndex, Fill), 1, PacketSize)
        = Segment(samples, readIndex, PacketSize)
  <2>1. /\ 0 \in Nat /\ PacketSize \in Nat /\ 0 + PacketSize <= Fill
        /\ 1 = 0 + 1 /\ PacketSize = 0 + PacketSize /\ readIndex = readIndex + 0
        /\ 1 \in Int /\ PacketSize \in Int /\ readIndex \in Int
        /\ samples \in [Slot -> Sample]
    BY <1>0, <1>1 DEF Fill
  <2> QED BY <1>1, <2>1, PartOfSegment
<1>5. sent' = Cut(Held, 1, PacketSize)
  BY <1>0, <1>3, <1>4, HeldIsSegment
<1>6. Cut(Segment(samples, readIndex, Fill), PacketSize + 1, Fill)
        = Segment(samples, readIndex', Fill')
  <2>1. /\ PacketSize \in Nat /\ PacketSize + Fill' <= Fill
        /\ PacketSize + 1 \in Int /\ Fill \in Int /\ Fill = PacketSize + Fill'
        /\ readIndex' \in Int /\ readIndex \in Int /\ readIndex' = readIndex + PacketSize
        /\ samples \in [Slot -> Sample]
    BY <1>0, <1>1
  <2> QED BY <1>1, <2>1, PartOfSegment
<1>7. Held' = Segment(samples', Oldest', Fill')
  BY DEF Held, Segment, Fill
<1>9. Held' = Cut(Held, PacketSize + 1, Len(Held))
  BY <1>0, <1>2, <1>6, <1>7, HeldIsSegment
<1>10. Len(Held) >= PacketSize
  BY <1>0, <1>1, <1>2 DEF Fill
<1> QED BY <1>0, <1>5, <1>9, <1>10 DEF Queue!Send, Cut

\* What is filled is not yet held.
LEMMA FillHidden ==
    ASSUME RingInv, ~torn, PushFill PROVE UNCHANGED <<Held, sent, torn>>
<1>0. /\ writeIndex \in Nat /\ Oldest \in Nat
      /\ Oldest' = Oldest /\ writeIndex' = writeIndex /\ sent' = sent /\ torn' = torn
  BY OldestType DEF RingInv, TypeOK, PushFill, consumer, Oldest
<1>1. \A k \in Oldest .. writeIndex - 1 : samples'[k % Capacity] = samples[k % Capacity]
  BY FillIsApart DEF At
<1>2. \A i \in 1 .. writeIndex - Oldest :
        Oldest + i - 1 \in Oldest .. writeIndex - 1
  BY <1>0
<1>3. Held' = Held
  BY <1>0, <1>1, <1>2 DEF Held
<1> QED BY <1>0, <1>3

\* A reset clears the queue with its first store.
LEMMA ResetClears ==
    ASSUME RingInv, RingInv', ClearWrite PROVE Queue!Clear
<1>0. /\ writeIndex' = 0 /\ Oldest' = 0 /\ samples' \in [Slot -> Sample] /\ sent' = sent
  BY DEF RingInv, TypeOK, Oldest, ClearWrite
<1>1. Segment(samples', Oldest', writeIndex' - Oldest') = <<>>
  <2>1. writeIndex' \in Int /\ Oldest' \in Int /\ writeIndex' <= Oldest'
    BY <1>0
  <2> QED BY <1>0, <2>1, EmptySegment, Zenon
<1>2. Held' = Segment(samples', Oldest', writeIndex' - Oldest')
  BY DEF Held, Segment
<1>3. Mapped' = <<>>
  BY <1>1, <1>2, Zenon DEF Mapped
<1>4. (~torn)' \in BOOLEAN
  OBVIOUS
<1> QED BY <1>0, <1>3, <1>4, Zenon DEF Queue!Clear, Mapped

\* Every step is a step of the abstract queue.
LEMMA RingStepsAreQueueSteps ==
    ASSUME RingInv, RingInv', [Next]_vars PROVE QueueStep
<1>1. ASSUME UNCHANGED <<writeIndex, readIndex, samples, sent, torn>>,
             session' = "clearRead" <=> session = "clearRead"
      PROVE  QueueStep
  BY <1>1 DEF Held, Oldest, Mapped, QueueStep
<1>2. CASE ~torn /\ (PushPublish \/ PopPublish)
  BY <1>2, PublishAccepts, PublishSends, Zenon DEF QueueStep
<1>3. CASE ~torn /\ PushFill
  BY <1>3, FillHidden DEF QueueStep, Mapped
<1>4. CASE ClearWrite
  BY <1>4, ResetClears, Zenon DEF QueueStep
<1>5. CASE torn /\ ~ClearWrite
  <2>1. torn'
    BY <1>5 DEF Next, Push, Pop, Session, Feed, PushLoadWrite, PushLoadRead, PushFill,
                PushPublish, TakePacket, PopLoadWrite, PopCopy, PopPublish, Stop, Start,
                ClearRead, ClearCounters, PrimeTick, vars
  <2>2. Mapped' = Mapped /\ ~~torn /\ UNCHANGED ~torn
    BY <1>5, <2>1, Zenon DEF Mapped
  <2> QED BY <2>2, Zenon DEF QueueStep, Queue!SendAnything, Mapped
<1>6. CASE ClearRead
  <2>1. Oldest = 0 /\ Oldest' = 0 /\ UNCHANGED <<writeIndex, samples, sent, torn>>
    BY <1>6 DEF ClearRead, Oldest
  <2>2. Held' = Held
    BY <2>1 DEF Held
  <2> QED BY <2>1, <2>2 DEF QueueStep, Mapped
<1>7. CASE Feed \/ PushLoadWrite \/ PushLoadRead \/ UNCHANGED vars
  BY <1>1, <1>7 DEF Feed, PushLoadWrite, PushLoadRead, vars, ring, consumer
<1>8. CASE TakePacket \/ PopLoadWrite \/ PopCopy \/ Stop \/ Start \/ ClearCounters \/ PrimeTick
  BY <1>1, <1>8 DEF TakePacket, PopLoadWrite, PopCopy, Stop, Start, ClearCounters,
                    PrimeTick, ring
<1> QED BY <1>2, <1>3, <1>4, <1>5, <1>6, <1>7, <1>8 DEF Next, Push, Pop, Session

\* The ring implements the queue: for every capacity, block size and packet
\* size, and any number of blocks in flight, a packet is the oldest samples in
\* order, and nothing is lost, repeated or torn between push, pop and reset,
\* blocks that arrive during or after a reset included; only a reset whose first
\* store falls inside a push leaves the queue broken until the next one.
THEOREM RingIsQueue == Spec => IsQueue
<1>1. Init => Queue!Init
  <2> SUFFICES ASSUME Init PROVE Queue!Init
    OBVIOUS
  <2>1. /\ samples \in [Slot -> Sample] /\ Oldest = 0 /\ writeIndex = 0 /\ sent = <<>>
        /\ torn = FALSE
    BY InitRing DEF Init, RingInv, TypeOK, Oldest
  <2>2. Oldest \in Int /\ writeIndex \in Int /\ writeIndex <= Oldest
    BY <2>1
  <2>3. Held = <<>>
    BY <2>1, <2>2, EmptySegment, HeldIsSegment, Zenon DEF Fill
  <2> QED BY <2>1, <2>3 DEF Queue!Init
<1>2. RingInv /\ RingInv' /\ [Next]_vars => QueueStep
  BY RingStepsAreQueueSteps
<1>3. QueueStep => [Queue!Accept \/ Queue!Send \/ Queue!SendAnything \/ Queue!Clear]_(Queue!vars)
  BY Zenon DEF QueueStep, Queue!vars, Mapped
<1> QED BY <1>1, <1>2, <1>3, RingInvariant, PTL DEF Spec, IsQueue, Queue!Spec

-----------------------------------------------------------------------------
(* No gap on the air.                                                      *)

\* A stream in which no block was dropped, and one whose drop the writer has
\* not come round to: the packet it is about to send was found before.  Between
\* the stores of a reset the overflow counter is still the old stream's.
Whole == ~torn /\ (Clearing \/ ~overflowed)
Clean == ~torn /\ (Clearing \/ (overflowed => session \in Popping))

\* The stream has sent something.
Begun == ~Clearing /\ last # None

\* A drop during a pop leaves the ring full until the pop is over, so that no
\* later block can have closed up behind the gap.
DropFillsRing ==
    session \in Popping /\ overflowed /\ ~torn =>
        push \notin {"room", "filled"} /\ writeIndex - readIndex + BlockSize > Capacity

\* The next sample the producer has to offer.
Offered == IF push = "idle" THEN serial ELSE block[1]

Numbered ==
    Clean =>
        /\ \A k \in Oldest .. writeIndex - 2 : At(k + 1) = After(At(k))
        /\ Begun /\ Oldest < writeIndex => At(Oldest) = After(last)

OfferedFollows ==
    Whole =>
        /\ Oldest < writeIndex => Offered = After(At(writeIndex - 1))
        /\ Oldest = writeIndex /\ Begun => Offered = After(last)

BlockNumbered ==
    push # "idle" =>
        /\ \A i \in 1 .. BlockSize - 1 : block[i + 1] = After(block[i])
        /\ serial = After(block[BlockSize])

NumberInv == DropFillsRing /\ Numbered /\ OfferedFollows /\ BlockNumbered

\* The samples of a block are numbered in a row.
LEMMA NumbersOfBlock ==
    ASSUME NEW n \in Sample
    PROVE  /\ (n + 1 - 1) % Serials = n
           /\ \A i \in 1 .. BlockSize - 1 :
                (n + (i + 1) - 1) % Serials = After((n + i - 1) % Serials)
           /\ (n + BlockSize) % Serials = After((n + BlockSize - 1) % Serials)
<1>0. Serials \in Int /\ Serials > 0 /\ BlockSize \in Int /\ n \in 0 .. Serials - 1
  BY SizeFacts DEF Sizes, Sample
<1>1. n + 1 - 1 = 0 * Serials + n
  BY <1>0
<1>2. (n + 1 - 1) % Serials = n
  BY <1>0, <1>1, ModUnique
<1>3. ASSUME NEW j \in Int PROVE (j + 1) % Serials = After(j % Serials)
  BY <1>0, ModOfSum DEF After
<1>4. ASSUME NEW i \in 1 .. BlockSize - 1
      PROVE  (n + (i + 1) - 1) % Serials = After((n + i - 1) % Serials)
  <2>1. n + i - 1 \in Int /\ n + (i + 1) - 1 = (n + i - 1) + 1
    BY <1>0
  <2> QED BY <1>3, <2>1
<1>5. (n + BlockSize) % Serials = After((n + BlockSize - 1) % Serials)
  <2>1. n + BlockSize - 1 \in Int /\ n + BlockSize = (n + BlockSize - 1) + 1
    BY <1>0
  <2> QED BY <1>3, <2>1
<1> QED BY <1>2, <1>4, <1>5

\* What depends on the session and the read index alone stays with them.
LEMMA SameReader ==
    ASSUME UNCHANGED <<readIndex, session, last, torn>>
    PROVE  UNCHANGED <<Oldest, Clearing, Begun>>
BY DEF Oldest, Clearing, Begun

\* Loading the write index keeps the numbering.
LEMMA LoadWriteKeepsNumbers ==
    ASSUME RingInv, NumberInv, PushLoadWrite PROVE NumberInv'
<1>0. /\ serial \in Sample /\ push = "idle" /\ push' = "began"
      /\ block' = [i \in 1 .. BlockSize |-> (serial + i - 1) % Serials]
      /\ serial' = (serial + BlockSize) % Serials
      /\ UNCHANGED <<ring, session, last, torn, Oldest, Clearing, Begun>>
      /\ BlockSize \in Nat \ {0}
  BY SizeFacts, SameReader DEF Sizes, RingInv, TypeOK, PushLoadWrite, consumer, ring
<1>1. /\ block'[1] = serial
      /\ \A i \in 1 .. BlockSize - 1 : block'[i + 1] = After(block'[i])
      /\ serial' = After(block'[BlockSize])
  <2>1. 1 \in 1 .. BlockSize /\ BlockSize \in 1 .. BlockSize
    BY <1>0
  <2>2. \A i \in 1 .. BlockSize - 1 : i \in 1 .. BlockSize /\ i + 1 \in 1 .. BlockSize
    BY <1>0
  <2>3. \A i \in 1 .. BlockSize : block'[i] = (serial + i - 1) % Serials
    BY <1>0
  <2>4. block'[1] = serial
    BY <1>0, <2>1, <2>3, NumbersOfBlock
  <2>5. serial' = After(block'[BlockSize])
    BY <1>0, <2>1, <2>3, NumbersOfBlock
  <2>6. \A i \in 1 .. BlockSize - 1 : block'[i + 1] = After(block'[i])
    BY <1>0, <2>2, <2>3, NumbersOfBlock
  <2> QED BY <2>4, <2>5, <2>6
<1>2. Offered = serial /\ Offered' = block'[1]
  BY <1>0 DEF Offered
<1>3. BlockNumbered'
  BY <1>1 DEF BlockNumbered, After
<1>4. DropFillsRing'
  BY <1>0 DEF NumberInv, DropFillsRing, ring
<1>5. Numbered'
  BY <1>0 DEF NumberInv, Numbered, Clean, At, After, ring
<1>6. OfferedFollows'
  BY <1>0, <1>1, <1>2 DEF NumberInv, OfferedFollows, Whole, At, After, ring
<1> QED BY <1>3, <1>4, <1>5, <1>6 DEF NumberInv

\* Loading the read index keeps it.  Between the stores of a reset there is
\* always room, so that no drop is forgotten with the old stream's.
LEMMA LoadReadKeepsNumbers ==
    ASSUME RingInv, NumberInv, PushLoadRead PROVE NumberInv'
<1>0. /\ push = "began"
      /\ UNCHANGED <<writeIndex, readIndex, samples, serial, block, session, last, torn,
                     Oldest, Clearing, Begun>>
      /\ Sizes /\ writeIndex \in Nat /\ readIndex \in Nat
  BY SizeFacts, SameReader DEF Sizes, RingInv, TypeOK, PushLoadRead, consumer
<1>1. \/ push' = "idle" /\ overflowed' = TRUE /\ Full(pushWrite, readIndex)
      \/ push' = "room" /\ overflowed' = overflowed /\ ~Full(pushWrite, readIndex)
  BY <1>0 DEF PushLoadRead
<1>7. BlockNumbered'
  BY <1>0, <1>1 DEF NumberInv, BlockNumbered, After
<1>8. CASE torn
  BY <1>0, <1>7, <1>8 DEF NumberInv, DropFillsRing, Numbered, OfferedFollows, Clean, Whole
<1>9. CASE ~torn
  <2>0. pushWrite = writeIndex /\ FitsReset
    BY <1>0, <1>9 DEF RingInv, PushFits
  <2>1. /\ Full(writeIndex, readIndex) => writeIndex - readIndex + BlockSize > Capacity
        /\ ~Full(writeIndex, readIndex) /\ writeIndex - readIndex \in 0 .. Capacity
             => writeIndex - readIndex + BlockSize <= Capacity
    BY <1>0 DEF Full, Sizes
  <2>2. session \in Popping => writeIndex - readIndex \in 0 .. Capacity
    BY <1>0, <1>9 DEF RingInv, IndicesInOrder, Oldest, Popping, Sizes
  <2>3. Clearing => ~Full(writeIndex, readIndex)
    BY <1>0, <2>0, <2>1 DEF FitsReset, Sizes
  <2>4. DropFillsRing'
    <3>1. CASE push' = "idle"
      BY <1>0, <1>1, <2>0, <2>1, <3>1 DEF DropFillsRing
    <3>2. CASE push' = "room" /\ overflowed' = overflowed /\ ~Full(writeIndex, readIndex)
      <4>1. session \in Popping => ~overflowed
        BY <1>0, <1>9, <2>1, <2>2, <3>2 DEF NumberInv, DropFillsRing, Sizes
      <4> QED BY <1>0, <3>2, <4>1 DEF DropFillsRing
    <3> QED BY <1>1, <2>0, <3>1, <3>2
  <2>5. (Clean' => Clean) /\ (Whole' => Whole)
    BY <1>0, <1>1, <2>0, <2>3 DEF Clean, Whole
  <2>6. Numbered'
    BY <1>0, <2>5 DEF NumberInv, Numbered, At, After
  <2>7. Whole' => Offered' = Offered
    BY <1>0, <1>1, <2>0, <2>3 DEF Whole, Offered
  <2>8. OfferedFollows'
    BY <1>0, <2>5, <2>7 DEF NumberInv, OfferedFollows, At, After
  <2> QED BY <1>7, <2>4, <2>6, <2>8 DEF NumberInv
<1> QED BY <1>8, <1>9

\* Copying a block keeps it.
LEMMA FillKeepsNumbers ==
    ASSUME RingInv, NumberInv, PushFill PROVE NumberInv'
<1>0. /\ push = "room" /\ push' = "filled" /\ writeIndex \in Nat /\ Oldest \in Nat
      /\ UNCHANGED <<writeIndex, readIndex, overflowed, serial, block, session, last, torn,
                     Oldest, Clearing, Begun>>
  BY OldestType, SameReader DEF RingInv, TypeOK, PushFill, consumer
<1>2. DropFillsRing' /\ BlockNumbered'
  BY <1>0 DEF NumberInv, DropFillsRing, BlockNumbered, After
<1>5. CASE torn
  BY <1>0, <1>2, <1>5 DEF NumberInv, Numbered, OfferedFollows, Clean, Whole
<1>6. CASE ~torn
  <2>1. \A k \in Oldest .. writeIndex - 1 : samples'[k % Capacity] = samples[k % Capacity]
    BY <1>6, FillIsApart DEF At
  <2>2. Numbered'
    <3> SUFFICES ASSUME Clean
                 PROVE  /\ \A k \in Oldest .. writeIndex - 2 :
                             samples'[(k + 1) % Capacity] = After(samples'[k % Capacity])
                        /\ Begun /\ Oldest < writeIndex =>
                             samples'[Oldest % Capacity] = After(last)
      BY <1>0 DEF Numbered, Clean, At, After
    <3>1. \A k \in Oldest .. writeIndex - 2 :
            k \in Oldest .. writeIndex - 1 /\ k + 1 \in Oldest .. writeIndex - 1
      BY <1>0
    <3>2. Oldest < writeIndex => Oldest \in Oldest .. writeIndex - 1
      BY <1>0
    <3> QED BY <2>1, <3>1, <3>2 DEF NumberInv, Numbered, At
  <2>3. OfferedFollows'
    <3>1. Oldest < writeIndex => writeIndex - 1 \in Oldest .. writeIndex - 1
      BY <1>0
    <3> QED BY <1>0, <2>1, <3>1
            DEF NumberInv, OfferedFollows, Whole, Offered, At, After
  <2> QED BY <1>2, <2>2, <2>3 DEF NumberInv
<1> QED BY <1>5, <1>6

\* Publishing a block keeps it: the block follows the last one offered.
LEMMA PublishKeepsNumbers ==
    ASSUME RingInv, NumberInv, PushPublish PROVE NumberInv'
<1>0. /\ push = "filled" /\ push' = "idle" /\ BlockSize \in Nat \ {0}
      /\ writeIndex \in Nat /\ Oldest \in Nat
      /\ writeIndex' = pushWrite + BlockSize
      /\ UNCHANGED <<readIndex, samples, overflowed, serial, block, session, last, torn,
                     Oldest, Clearing, Begun>>
  BY SizeFacts, OldestType, SameReader DEF Sizes, RingInv, TypeOK, PushPublish, consumer
<1>3. /\ \A i \in 1 .. BlockSize - 1 : block[i + 1] = After(block[i])
      /\ serial = After(block[BlockSize])
  BY <1>0 DEF NumberInv, BlockNumbered
<1>b. BlockNumbered'
  BY <1>0 DEF BlockNumbered
<1>t. CASE torn
  BY <1>0, <1>b, <1>t DEF NumberInv, DropFillsRing, Numbered, OfferedFollows, Clean, Whole
<1>u. CASE ~torn
  <2>0. /\ writeIndex' = writeIndex + BlockSize
        /\ \A i \in 1 .. BlockSize : At(writeIndex + i - 1) = block[i]
        /\ Oldest <= writeIndex
    BY <1>0, <1>u DEF RingInv, PushFits, IndicesInOrder
  <2>1. Clean => Whole
    BY <1>0, <1>u DEF Clean, Whole, NumberInv, DropFillsRing
  <2>2. At(writeIndex) = block[1]
    <3>1. 1 \in 1 .. BlockSize /\ writeIndex + 1 - 1 = writeIndex
      BY <1>0
    <3> QED BY <2>0, <3>1
  <2>3. DropFillsRing'
    <3>1. session \in Popping => ~overflowed
      BY <1>0, <1>u DEF NumberInv, DropFillsRing
    <3> QED BY <1>0, <3>1 DEF DropFillsRing
  <2>4. Numbered'
    <3> SUFFICES ASSUME Clean
                 PROVE  /\ \A k \in Oldest .. writeIndex + BlockSize - 2 :
                             At(k + 1) = After(At(k))
                        /\ Begun => At(Oldest) = After(last)
      BY <1>0, <2>0 DEF Numbered, Clean, At, After
    <3>1. /\ \A k \in Oldest .. writeIndex - 2 : At(k + 1) = After(At(k))
          /\ Begun /\ Oldest < writeIndex => At(Oldest) = After(last)
          /\ Oldest < writeIndex => block[1] = After(At(writeIndex - 1))
          /\ Oldest = writeIndex /\ Begun => block[1] = After(last)
      BY <1>0, <2>1 DEF NumberInv, Numbered, OfferedFollows, Offered
    <3>2. ASSUME NEW k \in Oldest .. writeIndex + BlockSize - 2
          PROVE  At(k + 1) = After(At(k))
      <4>1. CASE k <= writeIndex - 2
        <5>1. k \in Oldest .. writeIndex - 2
          BY <1>0, <4>1
        <5> QED BY <3>1, <5>1
      <4>2. CASE k = writeIndex - 1
        <5>1. Oldest < writeIndex /\ k + 1 = writeIndex
          BY <1>0, <4>2
        <5> QED BY <2>2, <3>1, <4>2, <5>1
      <4>3. CASE k >= writeIndex
        <5> DEFINE i == k - writeIndex + 1
        <5>1. /\ i \in 1 .. BlockSize - 1 /\ i \in 1 .. BlockSize /\ i + 1 \in 1 .. BlockSize
              /\ writeIndex + i - 1 = k /\ writeIndex + (i + 1) - 1 = k + 1
          BY <1>0, <4>3
        <5> HIDE DEF i
        <5>2. At(k) = block[i] /\ At(k + 1) = block[i + 1]
          <6>1. At(writeIndex + i - 1) = block[i]
            BY <2>0, <5>1
          <6>2. At(writeIndex + (i + 1) - 1) = block[i + 1]
            BY <2>0, <5>1
          <6> QED BY <5>1, <6>1, <6>2
        <5> QED BY <1>3, <5>1, <5>2
      <4>4. k <= writeIndex - 2 \/ k = writeIndex - 1 \/ k >= writeIndex
        BY <1>0
      <4> QED BY <4>1, <4>2, <4>3, <4>4
    <3>3. Begun => At(Oldest) = After(last)
      <4>1. Oldest < writeIndex \/ Oldest = writeIndex
        BY <1>0, <2>0
      <4> QED BY <2>2, <3>1, <4>1
    <3> QED BY <3>2, <3>3
  <2>5. OfferedFollows'
    <3>1. BlockSize \in 1 .. BlockSize
      BY <1>0
    <3>2. At(writeIndex + BlockSize - 1) = block[BlockSize]
      BY <2>0, <3>1
    <3>3. Oldest' < writeIndex' /\ Oldest' # writeIndex'
      BY <1>0, <2>0
    <3>4. Offered' = serial
      BY <1>0 DEF Offered
    <3>5. samples'[(writeIndex' - 1) % Capacity] = block[BlockSize]
      BY <1>0, <2>0, <3>2 DEF At
    <3> QED BY <1>3, <3>3, <3>4, <3>5 DEF OfferedFollows, At, After
  <2> QED BY <1>b, <2>3, <2>4, <2>5 DEF NumberInv
<1> QED BY <1>t, <1>u

\* A packet ends where the next sample of the ring begins.
LEMMA SendKeepsNumbers ==
    ASSUME RingInv, NumberInv, PopPublish PROVE NumberInv'
<1>0. /\ session = "popped" /\ session' = "streaming" /\ PacketSize \in Nat \ {0}
      /\ writeIndex \in Nat /\ readIndex \in Nat
      /\ readIndex' = readIndex + PacketSize /\ readIndex + PacketSize <= writeIndex
      /\ ~torn => \A n \in 1 .. PacketSize : packet[n] = At(readIndex + n - 1)
      /\ last' = packet[PacketSize]
      /\ Oldest = readIndex /\ Oldest' = readIndex' /\ ~Clearing /\ ~Clearing'
      /\ UNCHANGED <<writeIndex, samples, overflowed, push, serial, block, torn>>
  BY SizeFacts DEF Sizes, RingInv, TypeOK, PopFits, Popping, PopPublish, producer,
                   Oldest, Clearing
<1>5. DropFillsRing' /\ BlockNumbered'
  BY <1>0 DEF NumberInv, DropFillsRing, BlockNumbered, Popping, After
<1>t. CASE torn
  BY <1>0, <1>5, <1>t DEF NumberInv, Numbered, OfferedFollows, Clean, Whole
<1>u. CASE ~torn
  <2>1. Clean
    BY <1>0, <1>u DEF Clean, Popping
  <2>2. last' = At(readIndex' - 1)
    <3>1. PacketSize \in 1 .. PacketSize /\ readIndex + PacketSize - 1 = readIndex' - 1
      BY <1>0
    <3> QED BY <1>0, <1>u, <3>1
  <2>3. \A k \in readIndex .. writeIndex - 2 : At(k + 1) = After(At(k))
    BY <1>0, <2>1 DEF NumberInv, Numbered
  <2>4. readIndex' < writeIndex => At(readIndex') = After(last')
    <3> SUFFICES ASSUME readIndex' < writeIndex PROVE At(readIndex') = After(last')
      OBVIOUS
    <3>1. readIndex' - 1 \in readIndex .. writeIndex - 2 /\ (readIndex' - 1) + 1 = readIndex'
      BY <1>0
    <3> QED BY <2>2, <2>3, <3>1
  <2>5. Numbered'
    <3>1. \A k \in readIndex' .. writeIndex - 2 : At(k + 1) = After(At(k))
      BY <1>0, <2>3
    <3> QED BY <1>0, <2>4, <3>1 DEF Numbered, At, After
  <2>6. OfferedFollows'
    <3>1. Whole' => Whole
      BY <1>0 DEF Whole
    <3>2. Whole => Offered = After(At(writeIndex - 1))
      BY <1>0 DEF NumberInv, OfferedFollows
    <3>3. readIndex' = writeIndex => last' = At(writeIndex - 1)
      BY <2>2
    <3> QED BY <1>0, <3>1, <3>2, <3>3 DEF OfferedFollows, Offered, At, After
  <2> QED BY <1>5, <2>5, <2>6 DEF NumberInv
<1> QED BY <1>t, <1>u

\* The stores of a reset keep it: the blocks that came meanwhile are the first
\* of the new stream.
LEMMA ResetKeepsNumbers ==
    ASSUME RingInv, NumberInv, ClearWrite \/ ClearRead \/ ClearCounters PROVE NumberInv'
<1>0. UNCHANGED <<push, serial, block, samples>> /\ session' \notin Popping
  BY DEF ClearWrite, ClearRead, ClearCounters, producer, Popping
<1>1. BlockNumbered' /\ DropFillsRing'
  BY <1>0 DEF NumberInv, BlockNumbered, DropFillsRing, After
<1>2. CASE ClearWrite
  <2>1. writeIndex' = 0 /\ Oldest' = 0 /\ Clearing'
    BY <1>2 DEF ClearWrite, Oldest, Clearing
  <2> QED BY <1>1, <2>1 DEF NumberInv, Numbered, OfferedFollows, Begun
<1>3. CASE ClearRead
  <2>1. /\ Clearing /\ Clearing' /\ UNCHANGED <<Oldest, writeIndex, torn, overflowed>>
    BY <1>3 DEF ClearRead, Oldest, Clearing
  <2>2. Clean = Clean' /\ Whole = Whole' /\ ~Begun' /\ Offered' = Offered
    BY <1>0, <2>1 DEF Clean, Whole, Begun, Offered
  <2> QED BY <1>0, <1>1, <2>1, <2>2 DEF NumberInv, Numbered, OfferedFollows, At, After
<1>4. CASE ClearCounters
  <2>1. /\ Clearing /\ UNCHANGED <<Oldest, writeIndex, torn>> /\ last' = None
    BY <1>4 DEF ClearCounters, Oldest, Clearing
  <2>2. (Clean' => Clean) /\ (Whole' => Whole) /\ ~Begun' /\ Offered' = Offered
    BY <1>0, <2>1 DEF Clean, Whole, Begun, Offered, None
  <2> QED BY <1>0, <1>1, <2>1, <2>2 DEF NumberInv, Numbered, OfferedFollows, At, After
<1> QED BY <1>2, <1>3, <1>4

\* Every other step keeps it.
LEMMA OthersKeepNumbers ==
    ASSUME RingInv, NumberInv,
           Feed \/ TakePacket \/ PopLoadWrite \/ PopCopy \/ Session \/ UNCHANGED vars
    PROVE  NumberInv'
<1>3. ASSUME UNCHANGED <<ring, push, serial, block, last, torn>>,
             session' \in Popping =>
                 session \in Popping \/ (session = "streaming" /\ ~overflowed),
             ~Clearing, ~Clearing'
      PROVE  NumberInv'
  <2>1. (Clean' => Clean) /\ (Whole' => Whole) /\ DropFillsRing'
    BY <1>3 DEF Clean, Whole, NumberInv, DropFillsRing, ring
  <2>2. Oldest' = Oldest /\ Begun' = Begun
    BY <1>3 DEF Oldest, Begun, Clearing, ring
  <2> QED BY <1>3, <2>1, <2>2 DEF NumberInv, Numbered, OfferedFollows, BlockNumbered,
                                  Offered, At, After, ring
<1>4. ASSUME UNCHANGED <<ring, push, serial, block, last, session, torn>> PROVE NumberInv'
  <2>1. UNCHANGED <<Oldest, Clearing, Begun>>
    BY <1>4, SameReader DEF ring
  <2> QED BY <1>4, <2>1 DEF NumberInv, DropFillsRing, Numbered, OfferedFollows, BlockNumbered,
                            Clean, Whole, Offered, At, After, ring
<1>5. CASE Feed \/ UNCHANGED vars
  BY <1>4, <1>5 DEF Feed, consumer, vars, producer
<1>6. CASE TakePacket \/ PopLoadWrite \/ PopCopy
  BY <1>3, <1>6 DEF TakePacket, PopLoadWrite, PopCopy, Clearing, Popping, producer
<1>7. CASE Stop \/ Start \/ PrimeTick
  BY <1>3, <1>7 DEF Stop, Start, PrimeTick, Clearing, Popping, producer
<1> QED BY <1>5, <1>6, <1>7, ResetKeepsNumbers DEF Session

\* A new FIFO is numbered.
LEMMA InitNumbers == ASSUME Init PROVE NumberInv
BY DEF Init, NumberInv, DropFillsRing, Numbered, OfferedFollows, BlockNumbered, Popping,
       Oldest, Begun

\* Every step keeps the numbering.
LEMMA NumbersKept == ASSUME RingInv, NumberInv, [Next]_vars PROVE NumberInv'
BY LoadWriteKeepsNumbers, LoadReadKeepsNumbers, FillKeepsNumbers, PublishKeepsNumbers,
   SendKeepsNumbers, OthersKeepNumbers DEF Next, Push, Pop

\* Two packets of one stream are contiguous, for rings, blocks and packets of
\* every size and any number of late blocks of the stream before: a dropped
\* block stops the stream before a packet from behind the gap is sent, wherever
\* the drop falls between the steps of a pop.
THEOREM NoGapEverOnAir == Spec => NoGapOnAir
<1>1. RingInv /\ NumberInv => (session = "popped" /\ last # None /\ ~torn
                                 => packet[1] = (last + 1) % Serials)
  <2> SUFFICES ASSUME RingInv, NumberInv, session = "popped", last # None, ~torn
               PROVE  packet[1] = (last + 1) % Serials
    OBVIOUS
  <2>1. /\ readIndex + PacketSize <= writeIndex /\ PacketSize \in Nat \ {0}
        /\ readIndex \in Nat /\ writeIndex \in Nat
        /\ \A n \in 1 .. PacketSize : packet[n] = At(readIndex + n - 1)
    BY SizeFacts DEF Sizes, RingInv, TypeOK, PopFits
  <2>2. 1 \in 1 .. PacketSize /\ readIndex + 1 - 1 = readIndex /\ readIndex < writeIndex
    BY <2>1
  <2>3. packet[1] = At(readIndex)
    BY <2>1, <2>2
  <2>4. Clean /\ Oldest = readIndex /\ Begun
    BY DEF Clean, Popping, Oldest, Begun, Clearing
  <2> QED BY <2>2, <2>3, <2>4 DEF NumberInv, Numbered, After
<1> QED BY <1>1, InitNumbers, NumbersKept, RingInvariant, PTL DEF Spec, NoGapOnAir
=============================================================================
