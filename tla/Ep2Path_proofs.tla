--------------------------- MODULE Ep2Path_proofs ---------------------------
(***************************************************************************)
(* Proofs about the way of a block to the Protocol 1 wire, for rings of    *)
(* every length and any number of writers, old and new.                    *)
(*                                                                         *)
(* The wholeness of a pair rests on one fact per stream, Turn: a block     *)
(* that was copied is in exactly one of four hands, and each hand leaves   *)
(* its mark on the two semaphores and on the packet.  It holds from the    *)
(* moment open() has made the semaphores, unless somebody was there before *)
(* them (spoiled); nothing is assumed of who comes first.                  *)
(***************************************************************************)
EXTENDS Ep2Path, TLAPS

Ring == [made : BOOLEAN, accept : BOOLEAN, run : BOOLEAN,
         tokens : 0 .. MaxQueued + 1, held : BOOLEAN]
ObStep == {None, "park", "taken", "copy", "filled", "sent", "back"}
WriterStep == {None, "top", "wait", "send", "half"}

\* Only the trap exceeds what the producer may leave waiting in a ring.
QueueRoom == \A s \in Streams : ring[s].tokens > MaxQueued => main = Trap(s)

-----------------------------------------------------------------------------
(* Semaphores.                                                             *)

\* Each stream has one partner, and the partner of the partner is itself.
LEMMA StreamFacts ==
    /\ LR \in Streams /\ IQ \in Streams
    /\ \A s \in Streams : s \in {0, 1} /\ Run(s) \in Streams /\ Run(Run(s)) = s
    /\ \A s, t \in Streams : Run(s) = Run(t) => s = t
BY DEF Streams, LR, IQ, Run

\* ReleaseSemaphore never counts beyond its maximum of one.
LEMMA ReleasedType ==
    ASSUME NEW n \in 0 .. 1 PROVE Released(n) \in 0 .. 1
BY DEF Released

\* The counts the semaphores are created with.
LEMMA ZeroType == Zero \in [Streams -> 0 .. 1]
BY DEF Zero

-----------------------------------------------------------------------------
(* Type correctness.                                                       *)

\* No step puts more blocks in a ring than it has room for.
LEMMA RingTyped ==
    ASSUME TypeOK, QueueRoom, [Next]_vars
    PROVE  ring' \in [Streams -> Ring] /\ QueueRoom'
<1>0. /\ ring \in [Streams -> Ring] /\ main \in MainSteps
      /\ MaxQueued \in Nat \ {0}
  BY Ep2PathAssumption DEF TypeOK, Ring
<1>1. NoRing \in Ring
  BY <1>0 DEF NoRing, Ring
<1>2. ASSUME NEW s \in Streams, OutBound(s)
      PROVE  ring' \in [Streams -> Ring] /\ QueueRoom'
  <2>1. /\ ring' = [ring EXCEPT ![s].tokens = @ + 1] /\ main' = main
        /\ ring[s].tokens < MaxQueued
    BY <1>2 DEF OutBound
  <2> QED BY <1>0, <2>1 DEF Ring, QueueRoom, Trap
<1>3. ASSUME NEW s \in Streams, BuffReady(s)
      PROVE  ring' \in [Streams -> Ring] /\ QueueRoom'
  <2>1. /\ ring' = [ring EXCEPT ![s].tokens = @ - 1] /\ main' = main
        /\ ring[s].tokens > 0
    BY <1>3 DEF BuffReady
  <2> QED BY <1>0, <2>1 DEF Ring, QueueRoom, Trap
<1>4. CASE CreateRings
  <2>1. [NoRing EXCEPT !.made = TRUE, !.accept = TRUE, !.run = TRUE] \in Ring
    BY <1>1 DEF Ring
  <2>2. \A s \in Streams : ring'[s].tokens = 0
    BY <1>4 DEF CreateRings, NoRing
  <2>3. ring' \in [Streams -> Ring]
    BY <1>4, <2>1 DEF CreateRings
  <2> QED BY <1>0, <2>2, <2>3 DEF QueueRoom
<1>5. ASSUME NEW s \in Streams, ShutGate(s)
      PROVE  ring' \in [Streams -> Ring] /\ QueueRoom'
  <2> DEFINE shut == [ring EXCEPT ![s].accept = FALSE, ![s].held = TRUE]
  <2>1. shut \in [Streams -> Ring] /\ \A t \in Streams : shut[t].tokens = ring[t].tokens
    BY <1>0 DEF Ring
  <2>2. ring' = [shut EXCEPT ![LR] = IF s = LR THEN @ ELSE NoRing]
    BY <1>5 DEF ShutGate
  <2>3. \A t \in Streams : ring'[t] \in {shut[t], NoRing} /\ (s # LR => ring'[LR] = NoRing)
    BY <2>1, <2>2, StreamFacts
  <2>4. ring' \in [Streams -> Ring]
    BY <1>1, <2>1, <2>2, StreamFacts
  <2>5. \A t \in Streams : ring[t].tokens > MaxQueued => t = LR /\ s = IQ
    BY <1>5, StreamFacts DEF ShutGate, QueueRoom, Trap, Streams, LR, IQ
  <2>6. \A t \in Streams : ring'[t].tokens <= MaxQueued
    BY <1>0, <2>1, <2>3, <2>5 DEF NoRing, LR, IQ, Ring
  <2> QED BY <1>0, <2>4, <2>6 DEF QueueRoom, Ring
<1>6. ASSUME NEW s \in Streams, SetTrap(s)
      PROVE  ring' \in [Streams -> Ring] /\ QueueRoom'
  <2>1. /\ ring' = [ring EXCEPT ![s].run = FALSE, ![s].tokens = @ + 1,
                                ![s].held = FALSE]
        /\ main = Gate(s) /\ main' = Trap(s)
    BY <1>6 DEF SetTrap
  <2>2. \A t \in Streams : ring[t].tokens <= MaxQueued
    BY <1>0, <2>1 DEF QueueRoom, Gate, Trap, Ring
  <2> QED BY <1>0, <2>1, <2>2 DEF Ring, QueueRoom
<1>7. CASE Closed
  <2>1. ring' = [ring EXCEPT ![IQ] = NoRing] /\ main = Trap(IQ)
    BY <1>7 DEF Closed
  <2>2. ring' \in [Streams -> Ring]
    BY <1>0, <1>1, <2>1
  <2>3. \A t \in Streams : ring'[t].tokens <= MaxQueued
    BY <1>0, <2>1, StreamFacts DEF QueueRoom, Trap, Ring, NoRing, LR, IQ, Streams
  <2> QED BY <1>0, <2>2, <2>3 DEF QueueRoom, Ring
<1>8. CASE UNCHANGED ring /\ \A s \in Streams : main' # main => main # Trap(s)
  BY <1>0, <1>8 DEF QueueRoom, Trap
<1>9. \/ UNCHANGED ring /\ \A s \in Streams : main' # main => main # Trap(s)
      \/ \E s \in Streams : OutBound(s) \/ BuffReady(s) \/ ShutGate(s) \/ SetTrap(s)
      \/ CreateRings \/ Closed
  BY DEF Next, vars, ObThread, ObData, Copied, HandOver, Refill, ObLoop, Writer,
         WriterLoop, WriterWoken, WriteMainLoop, ReleaseSecond, Opening, StartEp6,
         StartWriter, CreateSems, StopRunning, Closing, WakeWriter, Wake,
         JoinWriter, CloseHandles, Trap
<1> QED BY <1>2, <1>3, <1>4, <1>5, <1>6, <1>7, <1>8, <1>9

\* No step leaves the steps of the outbound threads.
LEMMA ObTyped ==
    ASSUME TypeOK, [Next]_vars PROVE ob' \in [Streams -> ObStep]
<1>0. ob \in [Streams -> ObStep]
  BY DEF TypeOK, ObStep
<1>1. ASSUME NEW s \in Streams, ObThread(s) PROVE ob' \in [Streams -> ObStep]
  <2>1. \E x \in ObStep : ob' = [ob EXCEPT ![s] = x]
    BY <1>1 DEF ObThread, BuffReady, ObData, Copied, HandOver, Refill, ObLoop, ObStep
  <2> QED BY <1>0, <2>1
<1>2. CASE CreateRings \/ CloseHandles
  BY <1>0, <1>2 DEF CreateRings, CloseHandles, ObStep
<1>3. UNCHANGED ob \/ (\E s \in Streams : ObThread(s)) \/ CreateRings \/ CloseHandles
  BY DEF Next, vars, OutBound, Writer, WriterLoop, WriterWoken, WriteMainLoop,
         ReleaseSecond, Opening, StartEp6, StartWriter, CreateSems, StopRunning,
         Closing, WakeWriter, Wake, JoinWriter, ShutGate, SetTrap, Closed
<1> QED BY <1>0, <1>1, <1>2, <1>3

\* The two handshake semaphores stay binary.
LEMMA SemsTyped ==
    ASSUME TypeOK, [Next]_vars
    PROVE  hsend' \in [Streams -> 0 .. 1] /\ hrun' \in [Streams -> 0 .. 1]
<1>0. hsend \in [Streams -> 0 .. 1] /\ hrun \in [Streams -> 0 .. 1]
  BY DEF TypeOK
<1>1. hsend' \in {hsend, Zero} \/ \E s \in Streams : hsend' = [hsend EXCEPT ![s] = Released(@)]
  BY StreamFacts
     DEF Next, vars, sems, OutBound, ObThread, BuffReady, ObData, Copied, HandOver,
         Refill, ObLoop, Writer, WriterLoop, WriterWoken, WriteMainLoop,
         ReleaseSecond, Opening, CreateRings, StartEp6, StartWriter, CreateSems,
         StopRunning, Closing, WakeWriter, Wake, JoinWriter, CloseHandles,
         ShutGate, SetTrap, Closed
<1>2. \/ hrun' \in {hrun, Zero}
      \/ \E s \in Streams : \/ hrun' = [hrun EXCEPT ![s] = Released(@)]
                            \/ hrun' = [hrun EXCEPT ![s] = 0]
  BY StreamFacts
     DEF Next, vars, sems, OutBound, ObThread, BuffReady, ObData, Copied, HandOver,
         Refill, ObLoop, Writer, WriterLoop, WriterWoken, WriteMainLoop,
         ReleaseSecond, Opening, CreateRings, StartEp6, StartWriter, CreateSems,
         StopRunning, Closing, WakeWriter, Wake, JoinWriter, CloseHandles,
         ShutGate, SetTrap, Closed, LR, IQ
<1> QED BY <1>0, <1>1, <1>2, ReleasedType, ZeroType

\* The thread open() starts is one that does not run yet.
LEMMA FreeWriter ==
    ASSUME StartWriter
    PROVE  \E w \in Writers : writer[w] = None /\ writer' = [writer EXCEPT ![w] = "top"]
<1> DEFINE w == CHOOSE w \in Writers : writer[w] = None
<1>1. w \in Writers /\ writer[w] = None
  BY DEF StartWriter
<1>2. writer' = [writer EXCEPT ![w] = "top"]
  BY DEF StartWriter
<1> HIDE DEF w
<1> QED BY <1>1, <1>2

\* No step leaves the types of the main thread, the writer and the flags.
LEMMA RestTyped ==
    ASSUME TypeOK, [Next]_vars
    PROVE  /\ main' \in MainSteps /\ keep' \in BOOLEAN /\ handles' \in BOOLEAN
           /\ writer' \in [Writers -> WriterStep]
           /\ full' \in [Streams -> BOOLEAN]
           /\ orphaned' \subseteq Streams /\ spoiled' \in BOOLEAN
<1>1. main' \in {main} \cup MainSteps
  BY DEF Next, vars, OutBound, ObThread, BuffReady, ObData, Copied, HandOver,
         Refill, ObLoop, Writer, WriterLoop, WriterWoken, WriteMainLoop,
         ReleaseSecond, Opening, CreateRings, StartEp6, StartWriter, CreateSems,
         StopRunning, Closing, WakeWriter, Wake, JoinWriter, CloseHandles,
         ShutGate, SetTrap, Closed, MainSteps, Gate, Trap
<1>2. keep' \in {keep, TRUE, FALSE} /\ handles' \in {handles, TRUE, FALSE}
  BY DEF Next, vars, sems, OutBound, ObThread, BuffReady, ObData, Copied, HandOver,
         Refill, ObLoop, Writer, WriterLoop, WriterWoken, WriteMainLoop,
         ReleaseSecond, Opening, CreateRings, StartEp6, StartWriter, CreateSems,
         StopRunning, Closing, WakeWriter, Wake, JoinWriter, CloseHandles,
         ShutGate, SetTrap, Closed
<1>3. \/ writer' = writer
      \/ \E w \in Writers, x \in WriterStep : writer' = [writer EXCEPT ![w] = x]
      \/ \E gone \in SUBSET Writers :
           writer' = [w \in Writers |-> IF w \in gone THEN None ELSE writer[w]]
  BY FreeWriter DEF Next, vars, OutBound, ObThread, BuffReady, ObData, Copied, HandOver,
         Refill, ObLoop, Writer, WriterLoop, WriterWoken, WriteMainLoop,
         ReleaseSecond, Opening, CreateRings, StartEp6, StartWriter, CreateSems,
         StopRunning, Closing, WakeWriter, Wake, JoinWriter, CloseHandles,
         ShutGate, SetTrap, Closed, WriterStep, Parked
<1>4. \/ full' \in {full, [s \in Streams |-> FALSE]}
      \/ \E s \in Streams : full' = [full EXCEPT ![s] = ~spoiled]
  BY DEF Next, vars, OutBound, ObThread, BuffReady, ObData, Copied, HandOver,
         Refill, ObLoop, Writer, WriterLoop, WriterWoken, WriteMainLoop,
         ReleaseSecond, Opening, CreateRings, StartEp6, StartWriter, CreateSems,
         StopRunning, Closing, WakeWriter, Wake, JoinWriter, CloseHandles,
         ShutGate, SetTrap, Closed
<1>5. orphaned' \in {orphaned, {}} \/ \E lost \in SUBSET Streams : orphaned' = lost
  BY DEF Next, vars, OutBound, ObThread, BuffReady, ObData, Copied, HandOver,
         Refill, ObLoop, Writer, WriterLoop, WriterWoken, WriteMainLoop,
         ReleaseSecond, Opening, CreateRings, StartEp6, StartWriter, CreateSems,
         StopRunning, Closing, WakeWriter, Wake, JoinWriter, CloseHandles,
         ShutGate, SetTrap, Closed, Waiting
<1>6. \/ spoiled' \in {spoiled, FALSE} \/ spoiled' = (spoiled \/ ~handles)
      \/ spoiled' = (\E w \in Writers : writer[w] # None)
  BY DEF Next, vars, OutBound, ObThread, BuffReady, ObData, Copied, HandOver,
         Refill, ObLoop, Writer, WriterLoop, WriterWoken, WriteMainLoop,
         ReleaseSecond, Opening, CreateRings, StartEp6, StartWriter, CreateSems,
         StopRunning, Closing, WakeWriter, Wake, JoinWriter, CloseHandles,
         ShutGate, SetTrap, Closed
<1>7. writer \in [Writers -> WriterStep] /\ full \in [Streams -> BOOLEAN]
      /\ spoiled \in BOOLEAN /\ handles \in BOOLEAN
  BY DEF TypeOK, WriterStep
<1>8. writer' \in [Writers -> WriterStep]
  BY <1>3, <1>7 DEF WriterStep
<1>9. full' \in [Streams -> BOOLEAN]
  BY <1>4, <1>7
<1>10. spoiled' \in BOOLEAN
  BY <1>6, <1>7
<1> QED BY <1>1, <1>2, <1>5, <1>8, <1>9, <1>10 DEF TypeOK

\* Every step keeps the types and the room in the queues.
LEMMA TypeKept ==
    ASSUME TypeOK, QueueRoom, [Next]_vars PROVE TypeOK' /\ QueueRoom'
BY RingTyped, ObTyped, SemsTyped, RestTyped DEF TypeOK, Ring, ObStep, WriterStep

\* The path starts with both.
LEMMA InitTyped == ASSUME Init PROVE TypeOK /\ QueueRoom
<1>1. NoRing \in Ring /\ NoRing.tokens = 0 /\ MaxQueued \in Nat
  BY Ep2PathAssumption DEF NoRing, Ring
<1>2. TypeOK
  BY <1>1, ZeroType DEF Init, TypeOK, Ring, MainSteps
<1> QED BY <1>1, <1>2 DEF Init, QueueRoom

\* Type correctness for rings of every length and any number of writers:
\* the trap never exceeds the bound of Sem_BuffReady by more than its own token.
THEOREM Ep2PathTyped == Spec => []TypeOK
BY InitTyped, TypeKept, PTL DEF Spec

-----------------------------------------------------------------------------
(* The handshake.                                                          *)

\* A writer has the block of s, and has not released its ring yet: the second
\* ring is released in a step of its own.
Holds(s) ==
    \E w \in Writers : writer[w] = "send" \/ (writer[w] = "half" /\ s = LR)
Sending == \E w \in Writers : writer[w] = "send"

\* Whose turn it is: the ring's thread fills its half; it has handed the half
\* over; the writer has it; the half was sent and may be filled again.
Turn(s) ==
    \/ /\ ob[s] # "sent" /\ (full[s] <=> ob[s] = "filled")
       /\ hsend[s] = 0 /\ hrun[Run(s)] = 0 /\ ~Holds(s)
    \/ /\ ob[s] = "sent" /\ full[s]
       /\ hsend[s] = 1 /\ hrun[Run(s)] = 0 /\ ~Holds(s)
    \/ /\ ob[s] = "sent" /\ (full[s] <=> Sending)
       /\ hsend[s] = 0 /\ hrun[Run(s)] = 0 /\ Holds(s)
    \/ /\ ob[s] = "sent" /\ ~full[s]
       /\ hsend[s] = 0 /\ hrun[Run(s)] = 1 /\ ~Holds(s)

Opened  == {"rings", "ep6", "thread"}
Running == {"open", "quiet", "wokeLR", "wokeIQ"}

\* When the semaphores exist, and what a closed session leaves behind.
Frame ==
    /\ handles <=> main \in Running \cup {"joined"}
    /\ main \in {"quiet", "wokeLR", "wokeIQ"} => ~keep
    /\ main \in {"gateIQ", "trapIQ", "closed"} => ob[LR] = None
    /\ main = "closed" => \A s \in Streams : ob[s] = None /\ ~full[s]

\* A session that is not spoiled has one writer, once it has started it.
OneWriter ==
    ~spoiled =>
        /\ main \in {"rings", "ep6"} => \A w \in Writers : writer[w] = None
        /\ main \in {"thread"} \cup Running =>
             \A v, w \in Writers : writer[v] # None /\ writer[w] # None => v = w

\* Until the semaphores exist nobody has used one.
Prepared ==
    main \in Opened /\ ~spoiled =>
        /\ \A s \in Streams : /\ ob[s] \notin {"sent", "back"}
                             /\ (full[s] <=> ob[s] = "filled")
        /\ \A w \in Writers : writer[w] \notin {"send", "half"}

Handshake == main = "open" /\ ~spoiled => \A s \in Streams : Turn(s)

\* How far a writer is woken while close() releases its semaphores.
Woken ==
    ~spoiled => \A w \in Writers : writer[w] = "wait" =>
        /\ main \in {"wokeLR", "wokeIQ"} => hsend[LR] = 1
        /\ main = "wokeIQ" => hsend[IQ] = 1

PathInv == Frame /\ OneWriter /\ Prepared /\ Handshake /\ Woken

Typed ==
    /\ main \in MainSteps /\ handles \in BOOLEAN /\ spoiled \in BOOLEAN
    /\ ob \in [Streams -> ObStep] /\ writer \in [Writers -> WriterStep]
    /\ hsend \in [Streams -> 0 .. 1] /\ hrun \in [Streams -> 0 .. 1]
    /\ full \in [Streams -> BOOLEAN] /\ keep \in BOOLEAN

\* What the proofs below use of the types.
LEMMA TypeFacts == ASSUME TypeOK PROVE Typed
BY DEF TypeOK, Typed, ObStep, WriterStep

\* What a step of a ring's thread leaves alone.
LEMMA ThreadFrame ==
    ASSUME NEW r \in Streams, OutBound(r) \/ ObThread(r)
    PROVE  /\ UNCHANGED <<main, keep, handles, writer, orphaned>>
           /\ spoiled' = spoiled \/ (spoiled' = (spoiled \/ ~handles) /\ ob[r] \in {"filled", "sent"})
           /\ \/ UNCHANGED ob
              \/ /\ ob[r] # None
                 /\ \E x \in ObStep : ob' = [ob EXCEPT ![r] = x]
           /\ \/ UNCHANGED full
              \/ ob[r] = "copy" /\ full' = [full EXCEPT ![r] = ~spoiled]
BY DEF OutBound, ObThread, BuffReady, ObData, Copied, HandOver, Refill, ObLoop, sems, ObStep, None

\* What a step of a writer leaves alone.
LEMMA WriterFrame ==
    ASSUME NEW w \in Writers, Writer(w)
    PROVE  /\ UNCHANGED <<main, keep, handles, ob, orphaned>>
           /\ writer[w] # None
           /\ \E x \in WriterStep : writer' = [writer EXCEPT ![w] = x]
           /\ full' \in {full, [s \in Streams |-> FALSE]}
           /\ \/ spoiled' = spoiled
              \/ spoiled' = (spoiled \/ ~handles) /\ writer[w] = "wait"
BY DEF Writer, WriterLoop, WriterWoken, WriteMainLoop, ReleaseSecond, sems, WriterStep, None

\* A step of the thread of one ring passes that ring's turn on.
LEMMA ThreadKeepsTurns ==
    ASSUME TypeOK, handles, ~spoiled, NEW r \in Streams, ObThread(r),
           NEW s \in Streams, Turn(s)
    PROVE  Turn(s)'
<1>0. /\ ob \in [Streams -> ObStep] /\ full \in [Streams -> BOOLEAN]
      /\ hsend \in [Streams -> 0 .. 1] /\ hrun \in [Streams -> 0 .. 1]
  BY DEF TypeOK, ObStep
<1>1. (Holds(s)' <=> Holds(s)) /\ (Sending' <=> Sending)
  BY ThreadFrame DEF Holds, Sending
<1>2. CASE BuffReady(r) \/ ObData(r) \/ ObLoop(r)
  <2>1. /\ UNCHANGED <<full, hsend, hrun>> /\ ob[r] \in {"park", "taken", "back"}
        /\ \E x \in {None, "park", "taken", "copy"} : ob' = [ob EXCEPT ![r] = x]
    BY <1>2 DEF BuffReady, ObData, ObLoop, sems
  <2> QED BY <1>0, <1>1, <2>1 DEF Turn, None
<1>3. CASE Copied(r)
  <2>1. /\ full' = [full EXCEPT ![r] = TRUE] /\ ob' = [ob EXCEPT ![r] = "filled"]
        /\ UNCHANGED <<hsend, hrun>> /\ ob[r] = "copy"
    BY <1>3 DEF Copied, sems
  <2> QED BY <1>0, <1>1, <2>1 DEF Turn
<1>4. CASE HandOver(r)
  <2>1. /\ hsend' = [hsend EXCEPT ![r] = 1] /\ ob' = [ob EXCEPT ![r] = "sent"]
        /\ UNCHANGED <<full, hrun>> /\ ob[r] = "filled"
    BY <1>4 DEF HandOver, Released
  <2> QED BY <1>0, <1>1, <2>1 DEF Turn
<1>5. CASE Refill(r)
  <2>1. /\ hrun' = [hrun EXCEPT ![Run(r)] = 0] /\ ob' = [ob EXCEPT ![r] = "back"]
        /\ UNCHANGED <<full, hsend>> /\ ob[r] = "sent" /\ hrun[Run(r)] = 1
    BY <1>5 DEF Refill, Passes
  <2> QED BY <1>0, <1>1, <2>1, StreamFacts DEF Turn
<1> QED BY <1>2, <1>3, <1>4, <1>5 DEF ObThread

\* A step of the writer takes both halves, or gives one back.
LEMMA WriterKeepsTurns ==
    ASSUME TypeOK, handles, ~spoiled, NEW w \in Writers, Writer(w),
           \A v \in Writers : v # w => writer[v] = None,
           \A t \in Streams : Turn(t), NEW s \in Streams
    PROVE  Turn(s)'
<1>0. /\ ob \in [Streams -> ObStep] /\ full \in [Streams -> BOOLEAN]
      /\ hsend \in [Streams -> 0 .. 1] /\ hrun \in [Streams -> 0 .. 1] /\ ob' = ob
      /\ writer \in [Writers -> WriterStep]
  BY WriterFrame, TypeFacts DEF Typed
<1>1. \A t : Holds(t) <=> writer[w] = "send" \/ (writer[w] = "half" /\ t = LR)
  BY DEF Holds, None
<1>2. Sending <=> writer[w] = "send"
  BY DEF Sending, None
<1>3. PICK x \in WriterStep : writer' = [writer EXCEPT ![w] = x]
  BY WriterFrame
<1>4. writer'[w] = x /\ \A v \in Writers : v # w => writer'[v] = None
  BY <1>0, <1>3
<1>5. \A t : Holds(t)' <=> x = "send" \/ (x = "half" /\ t = LR)
  BY <1>4 DEF Holds, None
<1>6. Sending' <=> x = "send"
  BY <1>4 DEF Sending, None
<1>7. CASE WriterLoop(w)
  <2>1. /\ UNCHANGED <<full, hsend, hrun>> /\ writer[w] = "top" /\ x \in {"wait", None}
    BY <1>0, <1>4, <1>7 DEF WriterLoop, sems
  <2> QED BY <1>0, <1>1, <1>2, <1>5, <1>6, <2>1 DEF Turn, None
<1>8. CASE WriterWoken(w)
  <2>1. /\ \A t \in Streams : hsend[t] = 1
        /\ hsend' = Zero /\ UNCHANGED <<full, hrun>> /\ writer[w] = "wait" /\ x = "send"
    BY <1>0, <1>4, <1>8 DEF WriterWoken, BothSent
  <2> QED BY <1>0, <1>1, <1>2, <1>5, <1>6, <2>1 DEF Zero, Turn
<1>9. CASE WriteMainLoop(w)
  <2>1. /\ hrun' = [hrun EXCEPT ![0] = 1] /\ full' = [t \in Streams |-> FALSE]
        /\ UNCHANGED hsend /\ writer[w] = "send" /\ x = "half"
    BY <1>0, <1>4, <1>9 DEF WriteMainLoop, Released
  <2>2. ob[s] = "sent" /\ hsend[s] = 0 /\ hrun[Run(s)] = 0
    BY <1>1, <2>1 DEF Turn
  <2>3. s # LR <=> Run(s) = 0
    BY DEF Streams, LR, IQ, Run
  <2> QED BY <1>0, <1>5, <1>6, <2>1, <2>2, <2>3, StreamFacts DEF Turn
<1>10. CASE ReleaseSecond(w)
  <2>1. /\ hrun' = [hrun EXCEPT ![1] = 1] /\ UNCHANGED <<full, hsend>>
        /\ writer[w] = "half" /\ x = "top"
    BY <1>0, <1>4, <1>10 DEF ReleaseSecond, Released
  <2>2. s = LR <=> Run(s) = 1
    BY DEF Streams, LR, IQ, Run
  <2> QED BY <1>0, <1>1, <1>2, <1>5, <1>6, <2>1, <2>2, StreamFacts DEF Turn
<1> QED BY <1>7, <1>8, <1>9, <1>10 DEF Writer

\* A step of a ring's thread keeps the invariant.
LEMMA ThreadKeepsPath ==
    ASSUME TypeOK, PathInv, NEW r \in Streams, OutBound(r) \/ ObThread(r)
    PROVE  PathInv'
<1>0. Typed
  BY TypeFacts
<1>1. /\ UNCHANGED <<main, keep, handles, writer>> /\ (~spoiled' => ~spoiled)
      /\ UNCHANGED ob \/ (ob[r] # None /\ \E x \in ObStep : ob' = [ob EXCEPT ![r] = x])
      /\ UNCHANGED full \/ (ob[r] = "copy" /\ full' = [full EXCEPT ![r] = ~spoiled])
  BY <1>0, ThreadFrame DEF Typed
<1>2. Frame'
  BY <1>0, <1>1, StreamFacts DEF PathInv, Frame, Typed, None
<1>3. OneWriter'
  BY <1>1 DEF PathInv, OneWriter
<1>4. Prepared'
  <2> SUFFICES ASSUME main \in Opened, ~spoiled' PROVE Prepared'
    BY <1>1 DEF Prepared
  <2>1. ~handles /\ ~spoiled
    BY <1>1 DEF PathInv, Frame, Opened, Running
  <2>2. /\ \A s \in Streams : ob[s] \notin {"sent", "back"} /\ (full[s] <=> ob[s] = "filled")
        /\ \A w \in Writers : writer'[w] \notin {"send", "half"}
    BY <1>1, <2>1 DEF PathInv, Prepared
  <2>3. ~HandOver(r) /\ ~Refill(r)
    BY <2>1 DEF HandOver, Refill
  <2>4. CASE Copied(r)
    BY <1>0, <2>1, <2>2, <2>4 DEF Copied, Typed, Prepared
  <2>6. CASE OutBound(r)
    BY <1>1, <2>2, <2>6 DEF OutBound, Prepared
  <2>5. CASE BuffReady(r) \/ ObData(r) \/ ObLoop(r)
    <3>1. /\ UNCHANGED full /\ ob[r] # "filled"
          /\ UNCHANGED ob \/ \E x \in {None, "park", "taken", "copy"} : ob' = [ob EXCEPT ![r] = x]
      BY <2>2, <2>5 DEF BuffReady, ObData, ObLoop
    <3> QED BY <1>0, <2>2, <3>1 DEF Typed, Prepared, None
  <2> QED BY <2>3, <2>4, <2>5, <2>6 DEF ObThread
<1>5. Handshake'
  <2>1. CASE OutBound(r)
    BY <1>1, <2>1 DEF OutBound, PathInv, Handshake, Turn, Holds, Sending, sems
  <2>2. CASE ObThread(r)
    BY <1>1, <2>2, ThreadKeepsTurns DEF PathInv, Handshake, Frame, Running
  <2> QED BY <2>1, <2>2
<1>6. Woken'
  <2>1. UNCHANGED hsend \/ hsend' = [hsend EXCEPT ![r] = Released(@)]
    BY DEF OutBound, ObThread, BuffReady, ObData, Copied, HandOver, Refill, ObLoop, sems
  <2>2. \A s \in Streams : hsend[s] = 1 => hsend'[s] = 1
    BY <1>0, <2>1 DEF Typed, Released
  <2> QED BY <1>1, <2>2, StreamFacts DEF PathInv, Woken
<1> QED BY <1>2, <1>3, <1>4, <1>5, <1>6 DEF PathInv

\* A step of a writer keeps it.
LEMMA WriterKeepsPath ==
    ASSUME TypeOK, PathInv, NEW w \in Writers, Writer(w) PROVE PathInv'
<1>0. Typed
  BY TypeFacts
<1>1. /\ UNCHANGED <<main, keep, handles, ob>> /\ (~spoiled' => ~spoiled)
      /\ full' \in {full, [s \in Streams |-> FALSE]} /\ writer[w] # None
  BY <1>0, WriterFrame DEF Typed
<1>2. PICK x \in WriterStep : writer' = [writer EXCEPT ![w] = x]
  BY WriterFrame
<1>3. Frame'
  BY <1>0, <1>1 DEF PathInv, Frame, Typed
<1>4. OneWriter'
  BY <1>0, <1>1, <1>2 DEF PathInv, OneWriter, Typed
<1>5. Prepared'
  <2> SUFFICES ASSUME main \in Opened, ~spoiled' PROVE Prepared'
    BY <1>1 DEF Prepared
  <2>1. ~handles /\ ~spoiled
    BY <1>1 DEF PathInv, Frame, Opened, Running
  <2>2. /\ \A s \in Streams : ob[s] \notin {"sent", "back"} /\ (full[s] <=> ob[s] = "filled")
        /\ \A v \in Writers : writer[v] \notin {"send", "half"}
    BY <2>1 DEF PathInv, Prepared
  <2>3. WriterLoop(w)
    BY <2>1, <2>2 DEF Writer, WriterWoken, WriteMainLoop, ReleaseSecond
  <2>4. UNCHANGED full /\ writer'[w] \in {"wait", None}
    BY <1>0, <2>3 DEF WriterLoop, Typed
  <2> QED BY <1>0, <1>1, <1>2, <2>2, <2>4 DEF Prepared, Typed, None
<1>6. Handshake'
  <2> SUFFICES ASSUME main = "open", ~spoiled' PROVE \A s \in Streams : Turn(s)'
    BY <1>1 DEF Handshake
  <2>1. handles /\ ~spoiled /\ \A s \in Streams : Turn(s)
    BY <1>1 DEF PathInv, Frame, Handshake, Running
  <2>2. \A v \in Writers : v # w => writer[v] = None
    BY <1>1 DEF PathInv, OneWriter, Running
  <2> QED BY <2>1, <2>2, WriterKeepsTurns
<1>7. Woken'
  <2> SUFFICES ASSUME ~spoiled', main \in {"wokeLR", "wokeIQ"}, NEW v \in Writers,
                      writer'[v] = "wait"
               PROVE  hsend'[LR] = 1 /\ (main = "wokeIQ" => hsend'[IQ] = 1)
    BY <1>1 DEF Woken
  <2>1. ~keep /\ ~spoiled
    BY <1>1 DEF PathInv, Frame
  <2>2. v # w
    <3>1. writer'[w] # "wait"
      BY <1>0, <2>1 DEF Writer, WriterLoop, WriterWoken, WriteMainLoop, ReleaseSecond, Typed, None
    <3> QED BY <3>1
  <2>3. writer[v] = None
    BY <1>1, <2>1, <2>2 DEF PathInv, OneWriter, Running
  <2> QED BY <1>0, <1>2, <2>2, <2>3 DEF Typed, None
<1> QED BY <1>3, <1>4, <1>5, <1>6, <1>7 DEF PathInv

\* A step of the main thread keeps it.
LEMMA MainKeepsPath ==
    ASSUME TypeOK, PathInv, Opening \/ StopRunning \/ Closing PROVE PathInv'
<1>0. Typed
  BY TypeFacts
<1>1. CASE CreateRings
  <2>1. /\ main = "closed" /\ main' = "rings" /\ UNCHANGED <<keep, handles, writer, full>>
        /\ \A s \in Streams : ob'[s] = "park"
        /\ spoiled' <=> \E w \in Writers : writer[w] # None
    BY <1>1 DEF CreateRings, sems
  <2>2. ~handles /\ \A s \in Streams : ~full[s]
    BY <2>1 DEF PathInv, Frame, Running
  <2> QED BY <2>1, <2>2
          DEF PathInv, Frame, OneWriter, Prepared, Handshake, Woken, Running, Opened, None
<1>2. CASE StartEp6
  BY <1>2 DEF StartEp6, sems, PathInv, Frame, OneWriter, Prepared, Handshake, Woken,
              Running, Opened
<1>3. CASE StartWriter
  <2>1. /\ main = "ep6" /\ main' = "thread"
        /\ UNCHANGED <<keep, handles, ob, hsend, hrun, full, spoiled>>
    BY <1>3 DEF StartWriter, sems
  <2>2. PICK w \in Writers : writer[w] = None /\ writer' = [writer EXCEPT ![w] = "top"]
    BY <1>3, FreeWriter
  <2>3. ~spoiled => \A v \in Writers : v # w => writer'[v] = None
    BY <1>0, <2>1, <2>2 DEF PathInv, OneWriter, Typed
  <2>4. OneWriter' /\ Prepared'
    BY <1>0, <2>1, <2>2, <2>3 DEF PathInv, OneWriter, Prepared, Opened, Running, Typed, None
  <2> QED BY <2>1, <2>4 DEF PathInv, Frame, Handshake, Woken, Running
<1>4. CASE CreateSems
  <2>1. /\ main = "thread" /\ main' = "open" /\ handles' /\ hsend' = Zero /\ hrun' = Zero
        /\ UNCHANGED <<keep, ob, writer, full, spoiled>>
    BY <1>4 DEF CreateSems
  <2>2. ~spoiled => \A s \in Streams : Turn(s)'
    <3> SUFFICES ASSUME ~spoiled, NEW s \in Streams PROVE Turn(s)'
      OBVIOUS
    <3>1. /\ ob'[s] # "sent" /\ (full'[s] <=> ob'[s] = "filled")
          /\ \A v \in Writers : writer'[v] \notin {"send", "half"}
      BY <2>1 DEF PathInv, Prepared, Opened
    <3>2. ~Holds(s)'
      BY <3>1 DEF Holds
    <3> QED BY <2>1, <3>1, <3>2, StreamFacts DEF Turn, Zero
  <2>3. Frame' /\ OneWriter' /\ Prepared' /\ Woken'
    BY <2>1 DEF PathInv, Frame, OneWriter, Prepared, Woken, Opened, Running
  <2> QED BY <2>1, <2>2, <2>3 DEF PathInv, Handshake
<1>5. CASE StopRunning
  BY <1>5 DEF StopRunning, sems, PathInv, Frame, OneWriter, Prepared, Handshake, Woken,
              Running, Opened
<1>6. CASE WakeWriter
  <2>1. /\ \/ main = "quiet" /\ main' = "wokeLR" /\ hsend' = [hsend EXCEPT ![LR] = Released(@)]
           \/ main = "wokeLR" /\ main' = "wokeIQ" /\ hsend' = [hsend EXCEPT ![IQ] = Released(@)]
        /\ UNCHANGED <<handles, keep, ob, writer, full, spoiled>>
    BY <1>6 DEF WakeWriter, Wake
  <2>2. handles
    BY <2>1 DEF PathInv, Frame, Running
  <2>3. Woken'
    BY <1>0, <2>1, <2>2, StreamFacts DEF PathInv, Woken, Released, Typed, LR, IQ
  <2> QED BY <2>1, <2>3 DEF PathInv, Frame, OneWriter, Prepared, Handshake, Running, Opened
<1>7. CASE JoinWriter \/ CloseHandles
  <2>1. /\ main \in {"wokeIQ", "joined"} /\ main' \in {"joined", "unhandled"}
        /\ main' = "joined" <=> main = "wokeIQ"
        /\ handles' <=> (main' = "joined" /\ handles)
    BY <1>7 DEF JoinWriter, CloseHandles, sems
  <2>2. Frame'
    BY <2>1 DEF PathInv, Frame, Running
  <2> QED BY <2>1, <2>2 DEF PathInv, OneWriter, Prepared, Handshake, Woken, Opened, Running
<1>8. ASSUME NEW s \in Streams, ShutGate(s) \/ SetTrap(s) PROVE PathInv'
  <2>1. /\ main \in {"unhandled", "gateLR", "trapLR", "gateIQ"}
        /\ main' \in {"gateLR", "trapLR", "gateIQ", "trapIQ"}
        /\ main' \in {"gateIQ", "trapIQ"} => ob[LR] = None
        /\ UNCHANGED <<handles, ob>>
    BY <1>8 DEF ShutGate, SetTrap, Gate, Trap, PathInv, Frame, sems, Streams, LR, IQ
  <2>2. Frame'
    BY <2>1 DEF PathInv, Frame, Running
  <2> QED BY <2>1, <2>2 DEF PathInv, OneWriter, Prepared, Handshake, Woken, Opened, Running
<1>9. CASE Closed
  <2>1. /\ main = "trapIQ" /\ main' = "closed" /\ ob[IQ] = None
        /\ full' = [s \in Streams |-> FALSE] /\ UNCHANGED <<handles, ob>>
    BY <1>9 DEF Closed, Trap, sems, LR, IQ
  <2>2. Frame'
    BY <2>1 DEF PathInv, Frame, Running, Streams
  <2> QED BY <2>1, <2>2 DEF PathInv, OneWriter, Prepared, Handshake, Woken, Opened, Running
<1> QED BY <1>1, <1>2, <1>3, <1>4, <1>5, <1>6, <1>7, <1>8, <1>9 DEF Opening, Closing

\* Every step keeps the invariant.
LEMMA PathKept ==
    ASSUME TypeOK, PathInv, [Next]_vars PROVE PathInv'
<1>1. CASE UNCHANGED vars
  BY <1>1 DEF vars, sems, PathInv, Frame, OneWriter, Prepared, Handshake, Turn, Holds,
              Sending, Woken
<1>2. CASE Next
  BY <1>2, ThreadKeepsPath, WriterKeepsPath, MainKeepsPath DEF Next
<1> QED BY <1>1, <1>2

\* The path starts in it.
LEMMA InitPath == ASSUME Init PROVE PathInv
BY StreamFacts
   DEF Init, PathInv, Frame, OneWriter, Prepared, Handshake, Woken, Opened, Running, None

\* Every pair that leaves while a session runs is whole: no half is sent while
\* it is being refilled, sent twice, or refilled before it was sent, in any
\* order of the three threads, for rings of every length, in every session in
\* which nobody used a semaphore before open() had made it.
THEOREM PairsAlwaysWhole == Spec => []PairIsWhole
<1>1. TypeOK /\ PathInv => PairIsWhole
  BY TypeFacts DEF PathInv, Handshake, Turn, Holds, Sending, PairIsWhole, Typed
<1> QED BY <1>1, InitTyped, InitPath, TypeKept, PathKept, PTL DEF Spec

\* The join of close() never waits for a writer that itself waits: whatever the
\* writer was doing when the session was stopped, it was woken, and it does not
\* enter its wait again.
THEOREM WriterAlwaysWoken == Spec => []WriterIsWoken
<1>1. PathInv => WriterIsWoken
  BY DEF PathInv, Woken, WriterIsWoken, BothSent, Streams, LR, IQ
<1> QED BY <1>1, InitTyped, InitPath, TypeKept, PathKept, PTL DEF Spec
=============================================================================
