------------------------------ MODULE P2TxFifo ------------------------------
(***************************************************************************)
(* The lock-free ring between the ChannelMaster thread, which modulates,   *)
(* and the session thread, which paces packets to the radio's port 1029    *)
(* (src/src/wire/P2TxFifo.cpp, used by P2TxCmaster, P2TxWriter and         *)
(* P2Session).  One producer, one consumer; the consumer's thread also     *)
(* resets the ring between two streams, which nothing keeps apart from the *)
(* blocks still on their way: the pump is stopped, the modulator is not.   *)
(*                                                                         *)
(* An action is one access to a shared variable, with the thread-local     *)
(* work around it.  The release store of an index after the samples it     *)
(* covers makes memory look sequentially consistent to the other side.     *)
(* The differences of the 64-bit indices wrap in the code: a negative      *)
(* difference is a huge unsigned number, which passes every "is there      *)
(* enough" test, so those tests are written as failing on 0 .. n - 1.      *)
(***************************************************************************)
EXTENDS Integers, Sequences

CONSTANTS
    Capacity,     \* kCapacitySamples, 8192
    BlockSize,    \* samples in one push
    PacketSize,   \* kPacketSamples, 240
    PrimeSize,    \* kTxPrimeSamples, the fill the writer starts at
    MaxInFlight,  \* bound: blocks between the pump and the ring
    MaxIndex,     \* bound: where the indices stop within one stream
    Serials       \* bound: samples are numbered modulo this

ASSUME SizeAssumption ==
    /\ Capacity \in Nat \ {0} /\ BlockSize \in 1 .. Capacity
    /\ PacketSize \in 1 .. Capacity /\ PrimeSize \in PacketSize .. Capacity
ASSUME BoundAssumption ==
    MaxInFlight \in Nat /\ MaxIndex \in Nat /\ Serials \in Nat \ {0}

Sample == 0 .. Serials - 1
Slot   == 0 .. Capacity - 1

VARIABLES
    writeIndex, readIndex, samples, overflowed,  \* the shared ring
    inFlight,     \* blocks the pump has fed and the modulator not finished
    serial,       \* the next sample the modulator makes
    push,         \* where the producer is in pushInterleaved
    pushWrite, block,        \* its locals
    session,      \* where the session thread is
    popRead, packet,         \* its locals
    sent,         \* the last packet handed to the network
    last,         \* history: the last sample of this stream on the network
    torn          \* history: the last reset fell into a push

ring     == <<writeIndex, readIndex, samples, overflowed>>
producer == <<inFlight, serial, push, pushWrite, block>>
consumer == <<session, popRead, packet, sent, last>>
vars     == <<ring, producer, consumer, torn>>

None == Serials   \* no sample

TypeOK ==
    /\ writeIndex \in 0 .. MaxIndex /\ readIndex \in 0 .. MaxIndex
    /\ samples \in [Slot -> Sample] /\ overflowed \in BOOLEAN
    /\ inFlight \in 0 .. MaxInFlight /\ serial \in Sample
    /\ push \in {"idle", "began", "room", "filled"}
    /\ pushWrite \in 0 .. MaxIndex /\ block \in [1 .. BlockSize -> Sample]
    /\ session \in {"stopped", "clearWrite", "clearRead", "clearCounters",
                    "priming", "streaming", "popping", "copying", "popped"}
    /\ popRead \in 0 .. MaxIndex /\ packet \in [1 .. PacketSize -> Sample]
    /\ sent \in Seq(Sample) /\ last \in Sample \union {None}
    /\ torn \in BOOLEAN

Init ==
    /\ writeIndex = 0 /\ readIndex = 0
    /\ samples = [i \in Slot |-> 0] /\ overflowed = FALSE
    /\ inFlight = 0 /\ serial = 0 /\ push = "idle"
    /\ pushWrite = 0 /\ block = [i \in 1 .. BlockSize |-> 0]
    /\ session = "stopped" /\ popRead = 0
    /\ packet = [i \in 1 .. PacketSize |-> 0]
    /\ sent = <<>> /\ last = None /\ torn = FALSE

-----------------------------------------------------------------------------
(* The producer: P2TxPump feeds a block of input, the ChannelMaster thread *)
(* modulates it and calls pushInterleaved.                                 *)

PumpRuns == session \in {"priming", "streaming", "popping", "copying", "popped"}

Feed ==
    /\ PumpRuns /\ inFlight < MaxInFlight
    /\ writeIndex + BlockSize * (inFlight + 2) <= MaxIndex
    /\ inFlight' = inFlight + 1
    /\ UNCHANGED <<ring, serial, push, pushWrite, block, consumer, torn>>

Clearing == session \in {"clearRead", "clearCounters"}

\* Bound: between the stores of one reset, a few instructions apart, the
\* modulator does not finish more than a whole ring of blocks.
FitsReset == Clearing => writeIndex + BlockSize <= Capacity

PushLoadWrite ==
    /\ push = "idle" /\ inFlight > 0
    /\ writeIndex + BlockSize <= MaxIndex /\ FitsReset
    /\ inFlight' = inFlight - 1
    /\ block' = [i \in 1 .. BlockSize |-> (serial + i - 1) % Serials]
    /\ serial' = (serial + BlockSize) % Serials
    /\ pushWrite' = writeIndex
    /\ push' = "began"
    /\ UNCHANGED <<ring, consumer, torn>>

\* Mutant: room for one sample fewer is taken for room.
FullOffByOne(write, read) == Capacity - (write - read) \in 0 .. BlockSize - 2

\* sampleCount > kCapacitySamples - used
Full(write, read) == Capacity - (write - read) \in 0 .. BlockSize - 1

PushLoadRead ==
    /\ push = "began"
    /\ IF Full(pushWrite, readIndex)
       THEN push' = "idle" /\ overflowed' = TRUE
       ELSE push' = "room" /\ UNCHANGED overflowed
    /\ UNCHANGED <<writeIndex, readIndex, samples, inFlight, serial, pushWrite,
                   block, consumer, torn>>

PushFill ==
    /\ push = "room"
    /\ samples' = [s \in Slot |->
          IF \E i \in 1 .. BlockSize : (pushWrite + i - 1) % Capacity = s
          THEN block[CHOOSE i \in 1 .. BlockSize :
                        (pushWrite + i - 1) % Capacity = s]
          ELSE samples[s]]
    /\ push' = "filled"
    /\ UNCHANGED <<writeIndex, readIndex, overflowed, inFlight, serial,
                   pushWrite, block, consumer, torn>>

PushPublish ==
    /\ push = "filled"
    /\ writeIndex' = pushWrite + BlockSize
    /\ push' = "idle"
    /\ UNCHANGED <<readIndex, samples, overflowed, inFlight, serial, pushWrite,
                   block, consumer, torn>>

-----------------------------------------------------------------------------
(* The session thread: P2TxWriter takes packets while it streams.          *)

\* Mutant: the writer does not look at the overflow counter.
TakePacketBlind ==
    /\ session = "streaming"
    /\ session' = "popping" /\ popRead' = readIndex
    /\ UNCHANGED <<ring, producer, packet, sent, last, torn>>

\* One due packet; a dropped block is a fault that stops the stream.
TakePacket ==
    /\ session = "streaming"
    /\ IF overflowed
       THEN session' = "stopped" /\ UNCHANGED popRead
       ELSE session' = "popping" /\ popRead' = readIndex
    /\ UNCHANGED <<ring, producer, packet, sent, last, torn>>

\* popPacket: too few samples is a fault as well.
PopLoadWrite ==
    /\ session = "popping"
    /\ session' = IF writeIndex - popRead \in 0 .. PacketSize - 1
                  THEN "stopped" ELSE "copying"
    /\ UNCHANGED <<ring, producer, popRead, packet, sent, last, torn>>

PopCopy ==
    /\ session = "copying"
    /\ packet' = [n \in 1 .. PacketSize |->
                     samples[(popRead + n - 1) % Capacity]]
    /\ session' = "popped"
    /\ UNCHANGED <<ring, producer, popRead, sent, last, torn>>

PopPublish ==
    /\ session = "popped"
    /\ readIndex' = popRead + PacketSize
    /\ sent' = packet /\ last' = packet[PacketSize]
    /\ session' = "streaming"
    /\ UNCHANGED <<writeIndex, samples, overflowed, producer, popRead, packet,
                   torn>>

-----------------------------------------------------------------------------
(* The session thread: starting and stopping a stream.                     *)

\* stopTxTransport, on a fault, a rate change or a close.
Stop ==
    /\ session \in {"priming", "streaming"}
    /\ session' = "stopped"
    /\ UNCHANGED <<ring, producer, popRead, packet, sent, last, torn>>

\* startTxTransportRxState calls reset() and feeds the first block.  The pump
\* is stopped, but nothing waits for the blocks it has already fed: they are
\* published before, between and after the stores of the reset.
Start ==
    /\ session = "stopped"
    /\ session' = "clearWrite"
    /\ UNCHANGED <<ring, producer, popRead, packet, sent, last, torn>>

\* A push that began before this store publishes an index of the old stream
\* behind it: the ring is torn until the next reset.
ClearWrite ==
    /\ session = "clearWrite"
    /\ writeIndex' = 0 /\ session' = "clearRead" /\ torn' = (push # "idle")
    /\ UNCHANGED <<readIndex, samples, overflowed, producer, popRead, packet,
                   sent, last>>

ClearRead ==
    /\ session = "clearRead"
    /\ readIndex' = 0 /\ session' = "clearCounters"
    /\ UNCHANGED <<writeIndex, samples, overflowed, producer, popRead, packet,
                   sent, last, torn>>

ClearCounters ==
    /\ session = "clearCounters"
    /\ overflowed' = FALSE
    /\ session' = "priming" /\ last' = None
    /\ UNCHANGED <<writeIndex, readIndex, samples, producer, popRead, packet,
                   sent, torn>>

\* onTxPrimeTick: the writer starts at the prime target.
PrimeTick ==
    /\ session = "priming"
    /\ \/ overflowed /\ session' = "stopped"
       \/ /\ ~overflowed
          /\ writeIndex - readIndex \notin 0 .. PrimeSize - 1
          /\ session' = "streaming"
    /\ UNCHANGED <<ring, producer, popRead, packet, sent, last, torn>>

-----------------------------------------------------------------------------
Push == PushLoadWrite \/ PushLoadRead \/ PushFill \/ PushPublish

Pop == TakePacket \/ PopLoadWrite \/ PopCopy \/ PopPublish

Session == \/ Stop \/ Start \/ ClearWrite \/ ClearRead \/ ClearCounters
           \/ PrimeTick

Next == Feed \/ Push \/ Pop \/ Session

Spec == Init /\ [][Next]_vars

-----------------------------------------------------------------------------
(* Properties.                                                             *)

\* The samples between the indices, oldest first, are the queue; the first
\* store of a reset empties it.
Oldest == IF session = "clearRead" THEN 0 ELSE readIndex

Held == [i \in 1 .. writeIndex - Oldest |->
            samples[(Oldest + i - 1) % Capacity]]

Queue == INSTANCE TxIqQueue WITH
    queue <- IF torn THEN <<>> ELSE Held, intact <- ~torn

\* The ring is a FIFO for every interleaving of push, pop and reset but one: a
\* packet is the oldest samples in order, a block is taken whole or not at all,
\* no sample is overwritten before it is read, and a block that comes late
\* from the stream before is the first of the new one.  The one exception is a
\* reset whose first store falls inside a push: then nothing is promised until
\* the next reset.
IsQueue == Queue!Spec

\* Two packets of one stream are contiguous, late blocks of the stream before
\* included: when a block is dropped, the writer finds the overflow before a
\* packet from beyond the gap.  (Again unless the reset fell into a push.)
NoGapOnAir ==
    [][session = "popped" /\ last # None /\ ~torn
          => packet[1] = (last + 1) % Serials]_vars

\* "No producer call races these index stores": the comment of reset().  It
\* does not hold; NeverTorn, the part of it that matters, does not either.
ResetIsQuiescent == Clearing => push = "idle"
NeverTorn == ~torn
=============================================================================
