------------------------------ MODULE Ep2Path ------------------------------
(***************************************************************************)
(* How blocks of samples reach the Protocol 1 wire.  Each of the two       *)
(* outbound rings (wire/ObBuffs.cpp: 0 the receiver's L-R audio, 1 the     *)
(* transmit I-Q) has a thread that takes a block, copies it into its half  *)
(* of the packet and then waits in sendOutbound (wire/Network.cpp) until   *)
(* the writer thread (wire/NetworkProto1.cpp) has sent the pair.  Four     *)
(* semaphores of maximum count one tie the three threads together; they    *)
(* and the rings are made by HL2Stream::open and torn down by close.       *)
(* open() starts the threads before it makes the semaphores: a thread may  *)
(* use one that is not there.  close() waits a second for the writer and   *)
(* goes on without it: a later session may find it still running.          *)
(*                                                                         *)
(* A block is a token of Sem_BuffReady: an infusion that completes none    *)
(* changes nothing here.  The sleeps of destroy_obbuffs are taken to last  *)
(* long enough for what they wait for.                                     *)
(***************************************************************************)
EXTENDS Naturals, FiniteSets

CONSTANTS
    MaxQueued,   \* bound: blocks waiting in a ring
    Writers      \* bound: writer threads alive at a time, old and new

ASSUME Ep2PathAssumption == MaxQueued \in Nat \ {0}

LR == 0
IQ == 1
Streams == {LR, IQ}
Run(s) == 1 - s    \* sendOutbound(1) waits for hobbuffsRun[0], 0 for [1]

VARIABLES
    main,      \* how far the main thread is in open() or close()
    keep,      \* io_keep_running
    ring,      \* per ring: made, accept, run, Sem_BuffReady, csOUT held
    ob,        \* per ring: where its ob_main thread is
    handles,   \* the four semaphores exist
    hsend,     \* hsendLRSem and hsendIQSem
    hrun,      \* hobbuffsRun
    writer,    \* where each thread in sendProtocol1Samples is
    full,      \* history: outLRbufp, outIQbufp hold a block not sent yet
               \* (not kept up in a spoiled session)
    orphaned,  \* rings whose thread the last close() left in sendOutbound
    spoiled    \* history: this session was opened beside a writer of an
               \* earlier one, or used a semaphore that did not exist

sems == <<handles, hsend, hrun>>
vars == <<main, keep, ring, ob, sems, writer, full, orphaned, spoiled>>

None == "none"
NoRing == [made |-> FALSE, accept |-> FALSE, run |-> FALSE,
           tokens |-> 0, held |-> FALSE]
Gate(s) == IF s = LR THEN "gateLR" ELSE "gateIQ"
Trap(s) == IF s = LR THEN "trapLR" ELSE "trapIQ"
MainSteps ==
    {"closed", "rings", "ep6", "thread", "open", "quiet", "wokeLR", "wokeIQ",
     "joined", "unhandled", "gateLR", "trapLR", "gateIQ", "trapIQ"}

TypeOK ==
    /\ main \in MainSteps /\ keep \in BOOLEAN
    /\ ring \in [Streams -> [made : BOOLEAN, accept : BOOLEAN, run : BOOLEAN,
                             tokens : 0 .. MaxQueued + 1, held : BOOLEAN]]
    /\ ob \in [Streams ->
                 {None, "park", "taken", "copy", "filled", "sent", "back"}]
    /\ handles \in BOOLEAN
    /\ hsend \in [Streams -> 0 .. 1] /\ hrun \in [Streams -> 0 .. 1]
    /\ writer \in [Writers -> {None, "top", "wait", "send", "half"}]
    /\ full \in [Streams -> BOOLEAN] /\ orphaned \subseteq Streams
    /\ spoiled \in BOOLEAN

Zero == [s \in Streams |-> 0]

Init ==
    /\ main = "closed" /\ keep = FALSE /\ ring = [s \in Streams |-> NoRing]
    /\ ob = [s \in Streams |-> None] /\ hsend = Zero /\ hrun = Zero
    /\ handles = FALSE /\ writer = [w \in Writers |-> None]
    /\ full = [s \in Streams |-> FALSE] /\ orphaned = {} /\ spoiled = FALSE

\* Mutant: the semaphores have no maximum count.
ReleasedUncapped(sem) == IF handles THEN sem + 1 ELSE sem

\* ReleaseSemaphore: fails without a handle and at the maximum count.
Released(sem) == IF handles THEN 1 ELSE sem

\* WaitForSingleObject: fails, and so returns at once, without a handle.
Passes(sem) == handles => sem = 1

-----------------------------------------------------------------------------
(* The producers and the threads of the rings.                             *)

\* The receiver's audio and the transmit chain complete a block.
OutBound(s) ==
    /\ ring[s].made /\ ring[s].accept /\ ring[s].tokens < MaxQueued
    /\ ring' = [ring EXCEPT ![s].tokens = @ + 1]
    /\ UNCHANGED <<main, keep, ob, sems, writer, full, orphaned, spoiled>>

BuffReady(s) ==
    /\ ob[s] = "park" /\ ring[s].tokens > 0
    /\ ring' = [ring EXCEPT ![s].tokens = @ - 1]
    /\ ob' = [ob EXCEPT ![s] = "taken"]
    /\ UNCHANGED <<main, keep, sems, writer, full, orphaned, spoiled>>

\* Through csOUT, then obdata(): the trap, or the block.
ObData(s) ==
    /\ ob[s] = "taken" /\ ~ring[s].held
    /\ ob' = [ob EXCEPT ![s] = IF ring[s].run THEN "copy" ELSE None]
    /\ UNCHANGED <<main, keep, ring, sems, writer, full, orphaned, spoiled>>

\* sendOutbound: memcpy, ReleaseSemaphore, WaitForSingleObject.
Copied(s) ==
    /\ ob[s] = "copy"
    /\ ob' = [ob EXCEPT ![s] = "filled"] /\ full' = [full EXCEPT ![s] = ~spoiled]
    /\ UNCHANGED <<main, keep, ring, sems, writer, orphaned, spoiled>>

HandOver(s) ==
    /\ ob[s] = "filled"
    /\ hsend' = [hsend EXCEPT ![s] = Released(@)]
    /\ ob' = [ob EXCEPT ![s] = "sent"] /\ spoiled' = (spoiled \/ ~handles)
    /\ UNCHANGED <<handles, main, keep, ring, hrun, writer, full, orphaned>>

Refill(s) ==
    /\ ob[s] = "sent" /\ Passes(hrun[Run(s)])
    /\ hrun' = [hrun EXCEPT ![Run(s)] = 0]
    /\ ob' = [ob EXCEPT ![s] = "back"] /\ spoiled' = (spoiled \/ ~handles)
    /\ UNCHANGED <<handles, main, keep, ring, hsend, writer, full, orphaned>>

\* The top of ob_main's loop.
ObLoop(s) ==
    /\ ob[s] = "back"
    /\ ob' = [ob EXCEPT ![s] = IF ring[s].run THEN "park" ELSE None]
    /\ UNCHANGED <<main, keep, ring, sems, writer, full, orphaned, spoiled>>

-----------------------------------------------------------------------------
(* The writer: sendProtocol1Samples and the end of write_main_loop_hl2.    *)

WriterLoop(w) ==
    /\ writer[w] = "top"
    /\ writer' = [writer EXCEPT ![w] = IF keep THEN "wait" ELSE None]
    /\ UNCHANGED <<main, keep, ring, ob, sems, full, orphaned, spoiled>>

BothSent == \A s \in Streams : hsend[s] = 1

\* WaitForMultipleObjects, all of them; it fails while a handle is missing.
WriterWoken(w) ==
    /\ writer[w] = "wait" /\ (handles => BothSent)
    /\ hsend' = Zero
    /\ writer' = [writer EXCEPT ![w] = "send"]
    /\ spoiled' = (spoiled \/ ~handles)
    /\ UNCHANGED <<main, keep, ring, ob, handles, hrun, full, orphaned>>

\* The frame leaves; hobbuffsRun[0] is released, then hobbuffsRun[1].
WriteMainLoop(w) ==
    /\ writer[w] = "send"
    /\ full' = [s \in Streams |-> FALSE]
    /\ hrun' = [hrun EXCEPT ![0] = Released(@)]
    /\ writer' = [writer EXCEPT ![w] = "half"]
    /\ UNCHANGED <<handles, main, keep, ring, ob, hsend, orphaned, spoiled>>

\* Mutant: only the first ring is released.
ReleaseSecondForgotten(w) ==
    /\ writer[w] = "half"
    /\ writer' = [writer EXCEPT ![w] = "top"]
    /\ UNCHANGED <<sems, main, keep, ring, ob, full, orphaned, spoiled>>

ReleaseSecond(w) ==
    /\ writer[w] = "half"
    /\ hrun' = [hrun EXCEPT ![1] = Released(@)]
    /\ writer' = [writer EXCEPT ![w] = "top"]
    /\ UNCHANGED <<handles, main, keep, ring, ob, hsend, full, orphaned, spoiled>>

-----------------------------------------------------------------------------
(* HL2Stream::open and close, on the main thread.                          *)

\* UpdateRadioProtocolSampleSize: create_obbuffs of both rings.
CreateRings ==
    /\ main = "closed" /\ main' = "rings"
    /\ ring' = [s \in Streams |->
                  [NoRing EXCEPT !.made = TRUE, !.accept = TRUE, !.run = TRUE]]
    /\ ob' = [s \in Streams |-> "park"]
    /\ spoiled' = (\E w \in Writers : writer[w] # None)
    /\ UNCHANGED <<keep, sems, writer, full, orphaned>>

\* ep6Thread_.start() returns once the thread has set io_keep_running.
StartEp6 ==
    /\ main = "rings" /\ main' = "ep6" /\ keep' = TRUE
    /\ UNCHANGED <<ring, ob, sems, writer, full, orphaned, spoiled>>

StartWriter ==
    /\ main = "ep6" /\ main' = "thread"
    /\ \E w \in Writers : writer[w] = None
    /\ LET w == CHOOSE w \in Writers : writer[w] = None
       IN  writer' = [writer EXCEPT ![w] = "top"]
    /\ UNCHANGED <<keep, ring, ob, sems, full, orphaned, spoiled>>

\* Mutant: hobbuffsRun starts released.
CreateSemsReady ==
    /\ main = "thread" /\ main' = "open"
    /\ handles' = TRUE /\ hsend' = Zero /\ hrun' = [s \in Streams |-> 1]
    /\ UNCHANGED <<keep, ring, ob, writer, full, orphaned, spoiled>>

CreateSems ==
    /\ main = "thread" /\ main' = "open"
    /\ handles' = TRUE /\ hsend' = Zero /\ hrun' = Zero
    /\ UNCHANGED <<keep, ring, ob, writer, full, orphaned, spoiled>>

StopRunning ==
    /\ main = "open" /\ main' = "quiet" /\ keep' = FALSE
    /\ UNCHANGED <<ring, ob, sems, writer, full, orphaned, spoiled>>

\* Both semaphores are released so that a parked writer sees the flag.
Wake(s, from, to) ==
    /\ main = from /\ main' = to
    /\ hsend' = [hsend EXCEPT ![s] = Released(@)]
    /\ UNCHANGED <<handles, keep, ring, ob, hrun, writer, full, orphaned, spoiled>>

\* Mutant: nobody wakes the writer, as in the code this one is ported from.
WakeWriterSkipped ==
    /\ main = "quiet" /\ main' = "wokeIQ"
    /\ UNCHANGED <<keep, ring, ob, sems, writer, full, orphaned, spoiled>>

WakeWriter == Wake(LR, "quiet", "wokeLR") \/ Wake(IQ, "wokeLR", "wokeIQ")

\* WaitForSingleObject gives the writer 1000 ms; it has ended, or is left
\* running.
JoinWriter ==
    /\ main = "wokeIQ" /\ main' = "joined"
    /\ UNCHANGED <<keep, ring, ob, sems, writer, full, orphaned, spoiled>>

Waiting == {s \in Streams : ob[s] = "sent" /\ hrun[Run(s)] = 0}
Parked  == {w \in Writers : writer[w] = "wait" /\ ~BothSent}

\* A wait on a handle that is closed under it is undefined: each such
\* thread stays where it is for good, or comes back.
CloseHandles ==
    /\ main = "joined" /\ main' = "unhandled"
    /\ handles' = FALSE /\ hsend' = Zero /\ hrun' = Zero
    /\ \E lost \in SUBSET Waiting, gone \in SUBSET Parked :
         /\ orphaned' = lost
         /\ ob' = [s \in Streams |-> IF s \in lost THEN None ELSE ob[s]]
         /\ writer' = [w \in Writers |-> IF w \in gone THEN None ELSE writer[w]]
    /\ UNCHANGED <<keep, ring, full, spoiled>>

\* destroy_obbuffs, first half: the gate is shut, csOUT is held, 25 ms.
ShutGate(s) ==
    /\ main = IF s = LR THEN "unhandled" ELSE Trap(LR)
    /\ s = LR \/ ob[LR] = None
    /\ main' = Gate(s)
    /\ ring' = [[ring EXCEPT ![s].accept = FALSE, ![s].held = TRUE]
                   EXCEPT ![LR] = IF s = LR THEN @ ELSE NoRing]
    /\ UNCHANGED <<keep, ob, sems, writer, full, orphaned, spoiled>>

\* Second half: the trap is set and the thread is let into it, 2 ms.
SetTrap(s) ==
    /\ main = Gate(s) /\ ob[s] \in {"park", "taken", None}
    /\ main' = Trap(s)
    /\ ring' = [ring EXCEPT ![s].run = FALSE, ![s].tokens = @ + 1,
                            ![s].held = FALSE]
    /\ UNCHANGED <<keep, ob, sems, writer, full, orphaned, spoiled>>

Closed ==
    /\ main = Trap(IQ) /\ ob[IQ] = None /\ main' = "closed"
    /\ ring' = [ring EXCEPT ![IQ] = NoRing]
    /\ full' = [s \in Streams |-> FALSE] /\ orphaned' = {} /\ spoiled' = FALSE
    /\ UNCHANGED <<keep, ob, sems, writer>>

-----------------------------------------------------------------------------
ObThread(s) ==
    \/ BuffReady(s) \/ ObData(s) \/ Copied(s) \/ HandOver(s) \/ Refill(s)
    \/ ObLoop(s)
Writer(w) ==
    WriterLoop(w) \/ WriterWoken(w) \/ WriteMainLoop(w) \/ ReleaseSecond(w)
Opening == CreateRings \/ StartEp6 \/ StartWriter \/ CreateSems
Closing ==
    \/ WakeWriter \/ JoinWriter \/ CloseHandles \/ Closed
    \/ \E s \in Streams : ShutGate(s) \/ SetTrap(s)

Next ==
    \/ \E s \in Streams : OutBound(s) \/ ObThread(s)
    \/ \E w \in Writers : Writer(w)
    \/ Opening \/ StopRunning \/ Closing

\* The radio streams for as long as the session is open, so both chains go on
\* producing; threads and the main thread are scheduled.  Nobody has to open
\* or to close a session.
Spec ==
    /\ Init /\ [][Next]_vars
    /\ WF_vars(Closing) /\ \A w \in Writers : WF_vars(Writer(w))
    /\ \A s \in Streams : /\ WF_vars(ObThread(s))
                          /\ WF_vars(main = "open" /\ OutBound(s))

-----------------------------------------------------------------------------
(* Properties.                                                             *)

\* While the session runs the writer never sends a packet with a half that is
\* being refilled or that it sent before, and no half is refilled before it
\* was sent: the handshake of sendOutbound and write_main_loop_hl2 loses,
\* repeats and tears no block (Network.cpp, "wait to refill").  Nothing is
\* promised to a spoiled session.
PairIsWhole ==
    main = "open" /\ ~spoiled =>
        /\ \A w \in Writers, s \in Streams :
             writer[w] = "send" => full[s] /\ ob[s] # "copy"
        /\ \A s \in Streams : ob[s] = "copy" => ~full[s]

\* When close() waits for the writer, the writer waits for nobody: it was woken
\* out of WaitForMultipleObjects and cannot have entered it again, so that the
\* join runs into its time-out only when the writer is slow.
WriterIsWoken ==
    main = "wokeIQ" /\ ~spoiled =>
        \A w \in Writers : writer[w] = "wait" => BothSent

\* A block handed over is sent, as long as the session stays open, and a
\* close() that was begun ends: the threads of the rings do not hold
\* destroy_obbuffs up.
HandedOverIsSent ==
    /\ \A s \in Streams :
         (main = "open" /\ ob[s] = "sent" /\ ~spoiled)
            ~> (main # "open" \/ ob[s] # "sent")
    /\ main = "quiet" ~> main = "closed"

\* What close() says of the threads when it closes the handles: ob_main is
\* parked on Sem_BuffReady.  A thread left in sendOutbound is never joined.
NobodyIsLeftBehind == orphaned = {}

\* What open() says of them when it makes the semaphores last: "safe in
\* practice", no thread is there before them, nor a writer of the session before.
SemsAreFirst == ~spoiled
=============================================================================
