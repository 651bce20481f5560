-------------------------- MODULE P2Session_proofs --------------------------
(***************************************************************************)
(* Proofs about the Protocol 2 session, for every refresh period and every *)
(* bound on the opens and the deferred re-primes.                          *)
(*                                                                         *)
(* The argument: SInv ties what the radio was last told to the gate's      *)
(* inputs.  A handler is a composition of methods, so there is one lemma   *)
(* per method.  Most keep SInv.  The fault path is entered with part of    *)
(* the transport state already written; Weak is what holds there, and      *)
(* LatchTxFault turns Weak back into SInv because it sends the packets.    *)
(*                                                                         *)
(* The last part shows that the session implements P2Port: Seen is what    *)
(* the port shows of a session record, every method is, up to Seen, the    *)
(* operator of P2Port it is named after, and Feeds is what a pump fault    *)
(* and a prime tick need beside SInv.                                      *)
(***************************************************************************)
EXTENDS P2Session, TLAPS

\* The flags of the transport follow the connection.
Base(s) ==
    /\ s.running => s.open
    /\ s.writer => s.running
    /\ s.iqPrimed <=> s.writer

\* The transmit bit of the last HP packet is still covered by the gate.
HpAuthorised(s) ==
    s.hp \in {"tx", "txPa"} =>
        /\ s.operatorArmed /\ s.telemetryHealthy /\ ~s.faultLatched
        /\ s.txIntent # "none" /\ s.writer

\* The PA bit of the last General packet is.
PaAuthorised(s) == s.generalPa => s.txIntent = "txPa" /\ s.writer

SInv(s) == Base(s) /\ HpAuthorised(s) /\ PaAuthorised(s) /\ ~s.paCutHot

\* The radio was last told to receive.
Dark(s) == s.hp \notin {"tx", "txPa"} /\ ~s.generalPa

\* What is left of SInv while flags are written and no packet has gone out.
Weak(s) == (s.running => s.open) /\ (~s.open => Dark(s)) /\ ~s.paCutHot

-----------------------------------------------------------------------------
(* The methods keep the record's type.                                     *)

\* stopTxTransport keeps the types of the session state.
LEMMA StopType == ASSUME NEW s \in Session PROVE StopTxTransport(s) \in Session
  BY DEF StopTxTransport, Session

\* Emitting a signal keeps the types of the session state.
LEMMA AppendSignal ==
    ASSUME NEW s \in Session, NEW g \in Signal
    PROVE  [s EXCEPT !.signals = Append(@, g)] \in Session
<1>1. s.signals \in Seq(Signal)
  BY DEF Session
<1>2. Append(s.signals, g) \in Seq(Signal)
  BY <1>1
<1> HIDE DEF Signal
<1> QED BY <1>2 DEF Session

\* emitTxState keeps them.
LEMMA EmitStateType == ASSUME NEW s \in Session PROVE EmitTxState(s) \in Session
<1> DEFINE r == Refreshed(s)
           g == [kind |-> "state", ready |-> r.writer /\ r.iqPrimed /\ ~r.faultLatched,
                 armed |-> r.operatorArmed, fault |-> r.faultLatched]
<1>1. r \in Session
  BY DEF Refreshed, Session
<1>2. /\ r.operatorArmed \in BOOLEAN /\ r.faultLatched \in BOOLEAN
      /\ (r.writer /\ r.iqPrimed /\ ~r.faultLatched) \in BOOLEAN
  BY <1>1 DEF Session
<1>3. g \in Signal
  <2> HIDE DEF r
  <2> QED BY <1>2 DEF Signal
<1> HIDE DEF r, g
<1> QED BY <1>1, <1>3, AppendSignal DEF EmitTxState, r, g

\* Reading back txWriter_.isRunning() keeps them.
LEMMA RefreshedType == ASSUME NEW s \in Session PROVE Refreshed(s) \in Session
  BY DEF Refreshed, Session

\* sendGeneral keeps them.
LEMMA SendGeneralType ==
    ASSUME NEW s \in Session PROVE SendGeneral(s) \in Session
<1> DEFINE a == PaEnabled(s)
           b == s.paCutHot \/ (s.hp = "txPa" /\ s.txIntent = "none")
<1>1. a \in BOOLEAN /\ b \in BOOLEAN
  BY DEF PaEnabled, Session
<1>2. SendGeneral(s) = [s EXCEPT !.generalPa = a, !.paCutHot = b]
  BY DEF SendGeneral
<1> HIDE DEF a, b
<1>3. [s EXCEPT !.generalPa = a, !.paCutHot = b] \in Session
  BY <1>1 DEF Session
<1> QED BY <1>2, <1>3

\* Whatever the state, the gate yields one of the HP words.
LEMMA HpFieldsType ==
    ASSUME NEW s, NEW run \in BOOLEAN PROVE HpFields(s, run) \in HpWord
  BY DEF HpFields, HpWord, PaEnabled, Transmit

\* sendHighPriority keeps them.
LEMMA SendHpType ==
    ASSUME NEW s \in Session, NEW run \in BOOLEAN
    PROVE  SendHp(s, run) \in Session
<1> DEFINE a == HpFields(s, run)
           b == s.paLate \/ (HpFields(s, run) = "txPa" /\ ~s.generalPa)
<1>1. a \in HpWord /\ b \in BOOLEAN
  BY HpFieldsType DEF Session
<1>2. SendHp(s, run) = [s EXCEPT !.hp = a, !.paLate = b]
  BY DEF SendHp
<1> HIDE DEF a, b
<1>3. [s EXCEPT !.hp = a, !.paLate = b] \in Session
  BY <1>1 DEF Session
<1> QED BY <1>2, <1>3

\* applyTxControlNow keeps them.
LEMMA ApplyType == ASSUME NEW s \in Session PROVE ApplyTxControl(s) \in Session
  BY RefreshedType, SendGeneralType, SendHpType DEF ApplyTxControl

-----------------------------------------------------------------------------
(* The packets.                                                            *)

\* An HP packet re-establishes its own half of SInv: the gate is evaluated
\* when the packet is built.
LEMMA HpInv ==
    ASSUME NEW s \in Session, Base(s), PaAuthorised(s), ~s.paCutHot
    PROVE  SInv(SendHp(s, TRUE))
<1> DEFINE a == HpFields(s, TRUE)
           b == s.paLate \/ (HpFields(s, TRUE) = "txPa" /\ ~s.generalPa)
           t == [s EXCEPT !.hp = a, !.paLate = b]
<1>1. a \in {"tx", "txPa"} => Ready(s) /\ s.txIntent # "none"
  BY DEF HpFields, PaEnabled, Transmit
<1>2. SendHp(s, TRUE) = t
  BY DEF SendHp
<1> HIDE DEF a, b
<1> QED BY <1>1, <1>2 DEF Session, SInv, Base, PaAuthorised, HpAuthorised, Ready

\* So does a General packet, which is only sent while HP is covered.
LEMMA GeneralInv ==
    ASSUME NEW s \in Session, Base(s), HpAuthorised(s), ~s.paCutHot
    PROVE  SInv(SendGeneral(s))
<1> DEFINE a == PaEnabled(s)
           b == s.paCutHot \/ (s.hp = "txPa" /\ s.txIntent = "none")
           t == [s EXCEPT !.generalPa = a, !.paCutHot = b]
<1>1. /\ a \in BOOLEAN /\ b \in BOOLEAN
      /\ a => Ready(s) /\ s.txIntent = "txPa"
      /\ ~b
  BY DEF PaEnabled, HpAuthorised, Session
<1>2. SendGeneral(s) = t
  BY DEF SendGeneral
<1> HIDE DEF a, b
<1> QED BY <1>1, <1>2 DEF Session, SInv, Base, PaAuthorised, HpAuthorised, Ready

\* applyTxControlNow on an open session needs neither half: it sends both
\* packets, and in an order that never removes the PA under a hot HP.
LEMMA ApplyInv ==
    ASSUME NEW s \in Session, Base(s), s.open, ~s.paCutHot
    PROVE  SInv(ApplyTxControl(s))
<1> DEFINE r == Refreshed(s)
           w == s.writer
<1>1. r \in Session /\ Base(r) /\ ~r.paCutHot /\ r.open = s.open
  <2>1. r = [s EXCEPT !.transportRunning = w]
    BY DEF Refreshed
  <2> HIDE DEF w
  <2>2. r.open = s.open /\ r.running = s.running /\ r.writer = s.writer
    BY <2>1 DEF Session
  <2>3. r.iqPrimed = s.iqPrimed /\ r.paCutHot = s.paCutHot
    BY <2>1 DEF Session
  <2> HIDE DEF r
  <2> QED BY <2>2, <2>3, RefreshedType DEF Base, r
<1> HIDE DEF r
<1>2. CASE Transmit(r)
  <2> DEFINE a == PaEnabled(r)
             b == r.paCutHot \/ (r.hp = "txPa" /\ r.txIntent = "none")
             t == SendGeneral(r)
  <2>1. /\ a \in BOOLEAN /\ b \in BOOLEAN
        /\ a => Ready(r) /\ r.txIntent = "txPa"
        /\ ~b
    BY <1>1, <1>2 DEF PaEnabled, Session, Transmit
  <2>2. t = [r EXCEPT !.generalPa = a, !.paCutHot = b]
    BY DEF SendGeneral
  <2>3. t \in Session
    BY <1>1, SendGeneralType
  <2>4. Base(t) /\ PaAuthorised(t) /\ ~t.paCutHot
    <3> HIDE DEF a, b, t
    <3> QED BY <1>1, <2>1, <2>2 DEF Session, Base, PaAuthorised, Ready
  <2>5. SInv(SendHp(t, TRUE))
    BY <2>3, <2>4, HpInv
  <2> QED BY <1>2, <2>5 DEF ApplyTxControl, r
<1>3. CASE ~Transmit(r)
  <2> DEFINE a == HpFields(r, TRUE)
             b == r.paLate \/ (HpFields(r, TRUE) = "txPa" /\ ~r.generalPa)
             t == SendHp(r, TRUE)
  <2>1. a = "rx"
    BY <1>3 DEF HpFields, PaEnabled, Transmit
  <2>2. t = [r EXCEPT !.hp = a, !.paLate = b]
    BY DEF SendHp
  <2>3. t \in Session
    BY <1>1, SendHpType
  <2>4. Base(t) /\ HpAuthorised(t) /\ ~t.paCutHot
    <3> HIDE DEF a, b, t
    <3> QED BY <1>1, <2>1, <2>2 DEF Session, Base, HpAuthorised
  <2>5. SInv(SendGeneral(t))
    BY <2>3, <2>4, GeneralInv
  <2> QED BY <1>3, <2>5 DEF ApplyTxControl, r
<1> QED BY <1>2, <1>3

\* emitTxState changes no packet and no flag of the gate but transportRunning.
LEMMA EmitStateKeeps ==
    ASSUME NEW s \in Session
    PROVE  /\ EmitTxState(s) \in Session
           /\ SInv(s) => SInv(EmitTxState(s))
           /\ Weak(s) => Weak(EmitTxState(s))
           /\ \A f \in {"open", "running", "writer", "iqPrimed", "faultLatched",
                         "txIntent", "generalPa", "hp", "paCutHot", "pump",
                         "operatorArmed", "telemetryHealthy"} :
                 EmitTxState(s)[f] = s[f]
<1> DEFINE r == Refreshed(s)
           g == [kind |-> "state", ready |-> r.writer /\ r.iqPrimed /\ ~r.faultLatched,
                 armed |-> r.operatorArmed, fault |-> r.faultLatched]
           q == Append(r.signals, g)
           w == s.writer
           t == [s EXCEPT !.transportRunning = w, !.signals = q]
<1>1. EmitTxState(s) = t
  BY DEF EmitTxState, Refreshed, Session
<1> HIDE DEF q, w
<1>2. EmitTxState(s) \in Session
  BY EmitStateType
<1>3. \A f \in {"open", "running", "writer", "iqPrimed", "faultLatched",
                 "txIntent", "generalPa", "hp", "paCutHot", "pump",
                 "operatorArmed", "telemetryHealthy"} : t[f] = s[f]
  BY DEF Session
<1>4. SInv(s) => SInv(t)
  BY DEF Session, SInv, Base, PaAuthorised, HpAuthorised
<1>5. Weak(s) => Weak(t)
  BY DEF Session, Weak, Dark
<1> HIDE DEF t
<1> QED BY <1>1, <1>2, <1>3, <1>4, <1>5

-----------------------------------------------------------------------------
(* The TX transport.                                                       *)

\* SInv contains Weak.
LEMMA InvIsWeak == ASSUME NEW s \in Session, SInv(s) PROVE Weak(s)
  BY DEF SInv, Base, HpAuthorised, PaAuthorised, Weak, Dark, Session

\* latchTxFault restores SInv from Weak, whatever the flags it found.
LEMMA FaultInv ==
    ASSUME NEW s \in Session, Weak(s)
    PROVE  LatchTxFault(s) \in Session /\ SInv(LatchTxFault(s))
<1> DEFINE t == [StopTxTransport(s) EXCEPT !.txIntent = "none",
                                           !.faultLatched = TRUE]
<1>1. t \in Session
  BY DEF StopTxTransport, Session, Intent
<1>2. /\ Base(t) /\ ~t.paCutHot /\ t.open = s.open
      /\ Dark(s) => HpAuthorised(t) /\ PaAuthorised(t)
  BY DEF StopTxTransport, Session, Weak, Dark, Base, HpAuthorised, PaAuthorised
<1> HIDE DEF t
<1>3. ApplyTxControl(t) \in Session
  BY <1>1, ApplyType
<1>4. SInv(ApplyTxControl(t))
  <2>1. CASE t.open
    BY <1>1, <1>2, <2>1, ApplyInv
  <2>2. CASE ~t.open
    BY <1>2, <2>2 DEF ApplyTxControl, SInv, Weak
  <2> QED BY <2>1, <2>2
<1> QED BY <1>3, <1>4, EmitStateKeeps DEF LatchTxFault, t

\* onTxTransportCadenceFault, hard or deferred, keeps both.
LEMMA CadenceInv ==
    ASSUME NEW s \in Session
    PROVE  /\ Weak(s) => CadenceFault(s) \in Session /\ Weak(CadenceFault(s))
           /\ SInv(s) => SInv(CadenceFault(s))
<1> DEFINE t == [StopTxTransport(s) EXCEPT !.restarts = @ + 1]
<1>1. t \in Session
  <2> DEFINE q == StopTxTransport(s)
             n == q.restarts + 1
  <2>1. q \in Session
    BY StopType
  <2> HIDE DEF q
  <2>2. n \in Nat
    BY <2>1 DEF Session
  <2> HIDE DEF n
  <2>3. [q EXCEPT !.restarts = n] \in Session
    BY <2>1, <2>2 DEF Session
  <2> QED BY <2>3 DEF n, q
<1>2. /\ Weak(s) => Weak(t)
      /\ SInv(s) /\ s.txIntent = "none" => SInv(t)
  BY DEF StopTxTransport, Session, Weak, Dark, SInv, Base, HpAuthorised, PaAuthorised
<1> HIDE DEF t
<1>3. Weak(s) => LatchTxFault(s) \in Session /\ SInv(LatchTxFault(s))
                 /\ Weak(LatchTxFault(s))
  BY FaultInv, InvIsWeak
<1> QED BY <1>1, <1>2, <1>3, InvIsWeak DEF CadenceFault, t

\* The packets do not touch the writer.
LEMMA ApplyKeepsWriter ==
    ASSUME NEW s \in Session PROVE ApplyTxControl(s).writer = s.writer
<1>1. ASSUME NEW t \in Session PROVE Refreshed(t).writer = t.writer
  BY DEF Refreshed, Session
<1>2. ASSUME NEW t \in Session PROVE SendGeneral(t).writer = t.writer
  BY DEF SendGeneral, Session
<1>3. ASSUME NEW t \in Session PROVE SendHp(t, TRUE).writer = t.writer
  BY DEF SendHp, Session
<1> QED BY <1>1, <1>2, <1>3, RefreshedType, SendGeneralType, SendHpType
        DEF ApplyTxControl

\* A cadence fault leaves no writer running.
LEMMA CadenceStops ==
    ASSUME NEW s \in Session, SInv(s) PROVE ~CadenceFault(s).writer
<1> DEFINE t == [StopTxTransport(s) EXCEPT !.txIntent = "none",
                                           !.faultLatched = TRUE]
<1>1. t \in Session /\ ~t.writer
  BY DEF StopTxTransport, Session, Intent
<1> HIDE DEF t
<1>2. ~EmitTxState(ApplyTxControl(t)).writer
  BY <1>1, ApplyKeepsWriter, ApplyType, EmitStateKeeps
<1>3. ~LatchTxFault(s).writer
  BY <1>2 DEF LatchTxFault, t
<1>4. ~[StopTxTransport(s) EXCEPT !.restarts = @ + 1].writer
  BY DEF StopTxTransport, Session
<1>5. ~s.open \/ ~s.running => ~s.writer
  BY DEF SInv, Base
<1> QED BY <1>3, <1>4, <1>5 DEF CadenceFault

\* A cadence fault inside a failing start, then the latch of the start.
LEMMA DoubleFaultInv ==
    ASSUME NEW s \in Session, Weak(s)
    PROVE  /\ LatchTxFault(CadenceFault(s)) \in Session
           /\ SInv(LatchTxFault(CadenceFault(s)))
  BY CadenceInv, FaultInv

\* startFromInput keeps SInv, also when its first packet overruns.
LEMMA WriterInv ==
    ASSUME NEW s \in Session, SInv(s), s.running, ~s.faultLatched,
           NEW overrun \in BOOLEAN
    PROVE  StartWriter(s, overrun) \in Session /\ SInv(StartWriter(s, overrun))
<1> DEFINE u == ~overrun
           r == [s EXCEPT !.primeTimer = FALSE, !.writer = u,
                          !.overflowed = overrun]
           t == [r EXCEPT !.iqPrimed = TRUE]
<1>1. r \in Session /\ t \in Session
  <2>1. u \in BOOLEAN
    OBVIOUS
  <2> HIDE DEF u
  <2>2. r \in Session
    BY <2>1 DEF Session
  <2> HIDE DEF r
  <2>3. t \in Session
    BY <2>2 DEF Session
  <2> QED BY <2>2, <2>3
<1>2. CASE overrun
  <2>1. Weak(r)
    BY <1>2, InvIsWeak DEF Session, Weak, Dark
  <2> HIDE DEF r
  <2>2. SInv(LatchTxFault(CadenceFault(r))) /\ LatchTxFault(CadenceFault(r)) \in Session
    BY <1>1, <2>1, DoubleFaultInv
  <2> QED BY <1>2, <2>2 DEF StartWriter, r
<1>3. CASE ~overrun
  <2>1. SInv(t)
    BY <1>3 DEF Session, SInv, Base, HpAuthorised, PaAuthorised
  <2> HIDE DEF t
  <2>2. SInv(EmitTxState(t)) /\ EmitTxState(t) \in Session
    BY <1>1, <2>1, EmitStateKeeps
  <2> QED BY <1>3, <2>2 DEF StartWriter, t, r
<1> QED BY <1>2, <1>3

\* A counter wraps inside its range: the General refresh, the prime reports.
LEMMA TickCount ==
    ASSUME NEW m \in Nat \ {0}, NEW n \in 0 .. m - 1
    PROVE  (n + 1) % m \in 0 .. m - 1
  OBVIOUS

\* Counting a tick of the prime timer keeps SInv, reported or not.
LEMMA ProgressInv ==
    ASSUME NEW s \in Session, SInv(s)
    PROVE  PrimeProgress(s) \in Session /\ SInv(PrimeProgress(s))
<1> DEFINE n == (s.throttle + 1) % PrimeEmitEvery
           r == [s EXCEPT !.throttle = n]
<1>1. s.throttle \in 0 .. PrimeEmitEvery - 1
  BY DEF Session
<1>2. n \in 0 .. PrimeEmitEvery - 1
  BY <1>1, ThrottleAssumption, TickCount
<1>3. PrimeProgress(s) = IF s.throttle = 0 THEN EmitTxState(r) ELSE r
  BY Zenon DEF PrimeProgress
<1> HIDE DEF n
<1>4. r \in Session /\ SInv(r)
  BY <1>2 DEF Session, SInv, Base, HpAuthorised, PaAuthorised
<1> HIDE DEF r
<1> QED BY <1>3, <1>4, EmitStateKeeps

\* onTxPrimeTick keeps SInv.
LEMMA PrimeTickInv ==
    ASSUME NEW s \in Session, SInv(s), NEW overrun \in BOOLEAN
    PROVE  OnTxPrimeTick(s, overrun) \in Session /\ SInv(OnTxPrimeTick(s, overrun))
<1>1. [s EXCEPT !.primeTimer = FALSE] \in Session
  BY DEF Session
<1>2. SInv([s EXCEPT !.primeTimer = FALSE])
  BY DEF Session, SInv, Base, HpAuthorised, PaAuthorised
<1>3. LatchTxFault(s) \in Session /\ SInv(LatchTxFault(s))
  BY FaultInv, InvIsWeak
<1>4. CASE ~s.open \/ ~s.running \/ s.faultLatched
  BY <1>1, <1>2, <1>4 DEF OnTxPrimeTick
<1>5. CASE ~(~s.open \/ ~s.running \/ s.faultLatched)
  BY <1>3, <1>5, ProgressInv, WriterInv DEF OnTxPrimeTick
<1> QED BY <1>4, <1>5

\* startTxTransportRxState keeps SInv with any producer.
LEMMA StartInv ==
    ASSUME NEW s \in Session, SInv(s)
    PROVE  StartTxTransport(s) \in Session /\ SInv(StartTxTransport(s))
<1> DEFINE d == [s EXCEPT !.filled = FALSE, !.overflowed = FALSE, !.iqPrimed = FALSE]
           r == EmitTxState(d)
           t == [r EXCEPT !.channel = TRUE, !.pump = TRUE, !.primeTimer = TRUE]
<1>1. d \in Session
  BY DEF Session
<1>2. ~s.writer => SInv(d)
  BY DEF Session, SInv, Base, HpAuthorised, PaAuthorised
<1> HIDE DEF d
<1>3. r \in Session /\ (~s.writer => SInv(r))
  BY <1>1, <1>2, EmitStateKeeps
<1> HIDE DEF r
<1>4. t \in Session
  BY <1>3 DEF Session
<1>5. ~s.writer => SInv(t)
  BY <1>3 DEF Session, SInv, Base, HpAuthorised, PaAuthorised
<1> HIDE DEF t
<1>6. ~s.writer => /\ OnTxPrimeTick(t, FALSE) \in Session
                   /\ SInv(OnTxPrimeTick(t, FALSE))
  BY <1>4, <1>5, PrimeTickInv
<1>7. ~s.writer => /\ LatchTxFault(CadenceFault(r)) \in Session
                   /\ SInv(LatchTxFault(CadenceFault(r)))
  BY <1>3, DoubleFaultInv, InvIsWeak
<1>8. EmitTxState(s) \in Session /\ SInv(EmitTxState(s))
  BY EmitStateKeeps
<1> QED BY <1>6, <1>7, <1>8 DEF StartTxTransport, t, r, d

\* restartTxTransportRxState keeps SInv: it clears a fault only unkeyed.
LEMMA RestartInv ==
    ASSUME NEW s \in Session, SInv(s)
    PROVE  RestartTxTransport(s) \in Session /\ SInv(RestartTxTransport(s))
<1> DEFINE t == [StopTxTransport(s) EXCEPT !.faultLatched = FALSE]
<1>1. t \in Session
  BY DEF StopTxTransport, Session
<1>2. s.txIntent = "none" => SInv(t)
  BY DEF StopTxTransport, Session, SInv, Base, HpAuthorised, PaAuthorised
<1> HIDE DEF t
<1>3. s.txIntent = "none" => /\ EmitTxState(StartTxTransport(t)) \in Session
                             /\ SInv(EmitTxState(StartTxTransport(t)))
  BY <1>1, <1>2, StartInv, EmitStateKeeps
<1> QED BY <1>3 DEF RestartTxTransport, t

-----------------------------------------------------------------------------
(* The connection.                                                         *)

\* What closing or opening leaves behind: nothing keyed, nothing streamed.
Idle(s) == /\ ~s.writer /\ ~s.iqPrimed /\ s.txIntent = "none"
           /\ ~s.operatorArmed /\ ~s.paCutHot

\* An HP packet with run=0 keeps SInv and tells the radio to halt.
LEMMA HaltInv ==
    ASSUME NEW s \in Session
    PROVE  /\ SendHp(s, FALSE) \in Session
           /\ SendHp(s, FALSE).hp = "halt"
           /\ SInv(s) => SInv(SendHp(s, FALSE))
           /\ Idle(s) => Idle(SendHp(s, FALSE))
<1> DEFINE a == HpFields(s, FALSE)
           b == s.paLate \/ (HpFields(s, FALSE) = "txPa" /\ ~s.generalPa)
           t == [s EXCEPT !.hp = a, !.paLate = b]
<1>1. a = "halt"
  BY DEF HpFields
<1>2. SendHp(s, FALSE) = t
  BY DEF SendHp
<1>3. t \in Session
  BY <1>2, SendHpType
<1> HIDE DEF a, b
<1>4. t.hp = "halt" /\ (SInv(s) => SInv(t))
  BY <1>1 DEF Session, SInv, Base, HpAuthorised, PaAuthorised
<1>5. Idle(s) => Idle(t)
  BY DEF Session, Idle
<1> QED BY <1>2, <1>3, <1>4, <1>5

\* Clearing intent and gate keeps the types of the session state.
LEMMA FailClosedType ==
    ASSUME NEW s \in Session PROVE FailClosed(s) \in Session
<1> DEFINE a == [s EXCEPT !.txIntent = "none", !.operatorArmed = FALSE,
                          !.telemetryHealthy = FALSE]
<1>1. "none" \in Intent
  BY DEF Intent
<1>2. a \in Session
  BY <1>1 DEF Session
<1>3. FailClosed(s) = [a EXCEPT !.faultLatched = FALSE, !.iqPrimed = FALSE,
                                !.transportRunning = FALSE]
  BY DEF FailClosed, Session
<1> HIDE DEF a
<1>4. [a EXCEPT !.faultLatched = FALSE, !.iqPrimed = FALSE,
                !.transportRunning = FALSE] \in Session
  BY <1>2 DEF Session
<1> QED BY <1>3, <1>4

\* Stopping the transport and clearing intent and gate leaves Idle.
LEMMA FailClosedIdle ==
    ASSUME NEW s \in Session, ~s.paCutHot
    PROVE  /\ EmitTxState(FailClosed(StopTxTransport(s))) \in Session
           /\ Idle(EmitTxState(FailClosed(StopTxTransport(s))))
           /\ \A f \in {"open", "running", "hp", "generalPa"} :
                 EmitTxState(FailClosed(StopTxTransport(s)))[f] = s[f]
<1> DEFINE t == FailClosed(StopTxTransport(s))
<1>1. t \in Session
  BY StopType, FailClosedType
<1>2. Idle(t) /\ \A f \in {"open", "running", "hp", "generalPa"} : t[f] = s[f]
  BY DEF FailClosed, StopTxTransport, Session, Idle
<1> HIDE DEF t
<1>3. EmitTxState(t) \in Session /\ Idle(EmitTxState(t))
  BY <1>1, <1>2, EmitStateKeeps DEF Idle
<1>4. \A f \in {"open", "running", "hp", "generalPa"} : EmitTxState(t)[f] = t[f]
  BY <1>1, EmitStateKeeps
<1> QED BY <1>2, <1>3, <1>4 DEF t

\* The signals started and stopped change nothing else.
LEMMA EmitType ==
    ASSUME NEW s \in Session, NEW k \in {"started", "stopped"}
    PROVE  /\ Emit(s, k) \in Session
           /\ SInv(s) => SInv(Emit(s, k))
           /\ Emit(s, k).open = s.open
<1> DEFINE g == [kind |-> k]
           q == Append(s.signals, g)
           t == [s EXCEPT !.signals = q]
<1>1. g \in Signal
  BY DEF Signal
<1>2. t \in Session
  BY <1>1, AppendSignal
<1> HIDE DEF q
<1>3. SInv(s) => SInv(t)
  BY DEF Session, SInv, Base, HpAuthorised, PaAuthorised
<1>4. t.open = s.open
  BY DEF Session
<1> HIDE DEF t
<1>5. Emit(s, k) = t
  BY DEF Emit, t, q
<1> QED BY <1>2, <1>3, <1>4, <1>5

\* close() keeps SInv and leaves the session closed.
LEMMA CloseInv ==
    ASSUME NEW s \in Session, SInv(s)
    PROVE  /\ CloseSession(s) \in Session /\ SInv(CloseSession(s))
           /\ ~CloseSession(s).open
<1>1. CASE ~s.open
  BY <1>1 DEF CloseSession
<1>2. CASE s.open
  <2> DEFINE n == s.openEpoch + 1
             p == [s EXCEPT !.openEpoch = n, !.hpTimer = FALSE]
             r == EmitTxState(FailClosed(StopTxTransport(p)))
             h == SendHp(r, FALSE)
             g == SendGeneral(h)
             c == [g EXCEPT !.open = FALSE, !.running = FALSE]
  <2>1. p \in Session /\ ~p.paCutHot
    <3>1. n \in Nat
      BY DEF Session
    <3> HIDE DEF n
    <3> QED BY <3>1 DEF Session, SInv
  <2>2. EmitTxState(FailClosed(
            [StopTxTransport(s) EXCEPT !.openEpoch = @ + 1, !.hpTimer = FALSE])) = r
    <3>1. [StopTxTransport(s) EXCEPT !.openEpoch = @ + 1, !.hpTimer = FALSE]
             = StopTxTransport(p)
      BY DEF StopTxTransport, Session
    <3> QED BY <3>1
  <2> HIDE DEF p
  <2>3. r \in Session /\ Idle(r)
    BY <2>1, FailClosedIdle
  <2> HIDE DEF r
  <2>4. h \in Session /\ Idle(h) /\ h.hp = "halt"
    BY <2>3, HaltInv
  <2> HIDE DEF h
  <2>5. g \in Session
    BY <2>4, SendGeneralType
  <2>6. Idle(g) /\ g.hp = "halt" /\ ~g.generalPa
    BY <2>4, <2>5 DEF SendGeneral, PaEnabled, Ready, Idle, Session
  <2> HIDE DEF g
  <2>7. c \in Session
    BY <2>5 DEF Session
  <2>8. SInv(c) /\ ~c.open
    BY <2>5, <2>6 DEF Session, SInv, Base, HpAuthorised, PaAuthorised, Idle
  <2> HIDE DEF c
  <2>9. CloseSession(s) = Emit(c, "stopped")
    BY <1>2, <2>2 DEF CloseSession, c, g, h
  <2> QED BY <2>7, <2>8, <2>9, EmitType
<1> QED BY <1>1, <1>2

\* open() keeps SInv, over a live session too and when bind fails.
LEMMA OpenInv ==
    ASSUME NEW s \in Session, SInv(s), NEW bound \in BOOLEAN
    PROVE  OpenSession(s, bound) \in Session /\ SInv(OpenSession(s, bound))
<1> DEFINE c == CloseSession(s)
           d == [StopTxTransport(c) EXCEPT !.open = TRUE, !.running = FALSE,
                                           !.statusAge = "none"]
           q == [c EXCEPT !.open = TRUE, !.running = FALSE, !.statusAge = "none"]
           r == EmitTxState(FailClosed(d))
           g == SendGeneral(r)
           h == SendHp(g, FALSE)
           n == h.openEpoch + 1
           m == h.handshakes \union {r.openEpoch + 1}
           t == [h EXCEPT !.openEpoch = n, !.handshakes = m]
<1>1. c \in Session /\ SInv(c) /\ ~c.open
  BY CloseInv
<1> HIDE DEF c
<1>2. /\ q \in Session /\ ~q.paCutHot /\ ~q.running /\ q.open
      /\ d = StopTxTransport(q)
  BY <1>1 DEF Session, SInv, Age, StopTxTransport
<1> HIDE DEF q, d
<1>3. r \in Session /\ Idle(r) /\ ~r.running /\ r.open
  BY <1>2, FailClosedIdle
<1>4. SInv(r)
  <2>1. q.hp = c.hp /\ q.generalPa = c.generalPa
    BY <1>1 DEF q, Session
  <2>2. r.hp = c.hp /\ r.generalPa = c.generalPa
    BY <1>2, <2>1, FailClosedIdle
  <2>3. Dark(r)
    BY <1>1, <2>2, InvIsWeak DEF Weak, Dark
  <2> QED BY <1>3, <2>3 DEF SInv, Base, HpAuthorised, PaAuthorised, Idle, Dark
<1> HIDE DEF r
<1>5. g \in Session /\ SInv(g)
  BY <1>3, <1>4, GeneralInv, SendGeneralType DEF SInv
<1> HIDE DEF g
<1>6. h \in Session /\ SInv(h)
  BY <1>5, HaltInv
<1> HIDE DEF h
<1>7. n \in Nat /\ m \in SUBSET Nat
  BY <1>3, <1>6 DEF Session
<1> HIDE DEF n, m
<1>8. t \in Session
  BY <1>6, <1>7 DEF Session
<1>9. SInv(t)
  BY <1>6 DEF Session, SInv, Base, HpAuthorised, PaAuthorised
<1> HIDE DEF t
<1>10. CASE bound
  BY <1>8, <1>9, <1>10 DEF OpenSession, t, h, g, r, d, c, n, m
<1>11. CASE ~bound
  BY <1>1, <1>11 DEF OpenSession, c
<1> QED BY <1>10, <1>11

\* finishOpenHandshake keeps SInv, for a current or a stale epoch.
LEMMA HandshakeInv ==
    ASSUME NEW s \in Session, SInv(s), NEW epoch
    PROVE  /\ FinishOpenHandshake(s, epoch) \in Session
           /\ SInv(FinishOpenHandshake(s, epoch))
<1> DEFINE m == s.handshakes \ {epoch}
           r == [s EXCEPT !.handshakes = m]
           h == SendHp(r, TRUE)
           t == [h EXCEPT !.hpTickCount = 0, !.hpTimer = TRUE]
<1>1. m \in SUBSET Nat
  BY DEF Session
<1> HIDE DEF m
<1>2. r \in Session /\ SInv(r)
  BY <1>1 DEF Session, SInv, Base, HpAuthorised, PaAuthorised
<1> HIDE DEF r
<1>3. h \in Session /\ SInv(h)
  BY <1>2, HpInv, SendHpType DEF SInv
<1> HIDE DEF h
<1>4. 0 \in 0 .. GeneralRefreshTicks - 1
  BY RefreshAssumption
<1>5. t \in Session /\ SInv(t)
  BY <1>3, <1>4 DEF Session, SInv, Base, HpAuthorised, PaAuthorised
<1> HIDE DEF t
<1> QED BY <1>2, <1>5 DEF FinishOpenHandshake, t, h, r, m

\* onHpTick keeps SInv, with and without a lost radio.
LEMMA HpTickInv ==
    ASSUME NEW s \in Session, SInv(s)
    PROVE  OnHpTick(s) \in Session /\ SInv(OnHpTick(s))
<1> DEFINE lost == s.txIntent # "none" /\ s.statusAge = "stale" /\ ~s.faultLatched
           q == [s EXCEPT !.telemetryHealthy = FALSE]
           t == IF lost THEN LatchTxFault(q) ELSE s
           r == Refreshed(t)
           h == SendHp(r, TRUE)
           n == (h.hpTickCount + 1) % GeneralRefreshTicks
           u == [h EXCEPT !.hpTickCount = n]
<1>1. q \in Session /\ Weak(q)
  BY InvIsWeak DEF Session, Weak, Dark
<1> HIDE DEF q
<1>2. t \in Session /\ SInv(t)
  BY <1>1, FaultInv
<1> HIDE DEF t
<1>3. r \in Session /\ SInv(r)
  <2> DEFINE w == t.writer
  <2>1. r = [t EXCEPT !.transportRunning = w]
    BY DEF Refreshed
  <2> HIDE DEF w
  <2>2. SInv([t EXCEPT !.transportRunning = w])
    BY <1>2 DEF Session, SInv, Base, HpAuthorised, PaAuthorised
  <2> HIDE DEF r
  <2>3. r \in Session
    BY <1>2, RefreshedType DEF r
  <2> QED BY <2>1, <2>2, <2>3
<1> HIDE DEF r
<1>4. h \in Session /\ SInv(h)
  BY <1>3, HpInv, SendHpType DEF SInv
<1> HIDE DEF h
<1>5. n \in 0 .. GeneralRefreshTicks - 1
  BY <1>4, RefreshAssumption, TickCount DEF Session
<1> HIDE DEF n
<1>6. u \in Session /\ SInv(u)
  BY <1>4, <1>5 DEF Session, SInv, Base, HpAuthorised, PaAuthorised
<1> HIDE DEF u
<1>7. SendGeneral(u) \in Session /\ SInv(SendGeneral(u))
  BY <1>6, GeneralInv, SendGeneralType DEF SInv
<1>8. OnHpTick(s) = IF u.hpTickCount = 0 THEN SendGeneral(u) ELSE u
  BY DEF OnHpTick, u, n, h, r, t, q
<1> QED BY <1>6, <1>7, <1>8

\* parseStatus keeps SInv: first, repeated or reporting a dry TX FIFO.
LEMMA StatusInv ==
    ASSUME NEW s \in Session, SInv(s), s.open, NEW ducUnderflow \in BOOLEAN
    PROVE  /\ ParseStatus(s, ducUnderflow) \in Session
           /\ SInv(ParseStatus(s, ducUnderflow))
<1> DEFINE r == [s EXCEPT !.statusAge = "fresh", !.telemetryHealthy = TRUE]
           v == [r EXCEPT !.running = TRUE]
           e == Emit(v, "started")
           up == StartTxTransport(e)
           f == IF s.running THEN r ELSE SendHp(SendGeneral(up), TRUE)
<1>1. "fresh" \in Age
  BY DEF Age
<1>2. r \in Session /\ r.open
  BY <1>1 DEF Session
<1>3. SInv(r)
  BY DEF Session, SInv, Base, HpAuthorised, PaAuthorised
<1> HIDE DEF r
<1>4. v \in Session /\ SInv(v)
  BY <1>2, <1>3 DEF Session, SInv, Base, HpAuthorised, PaAuthorised
<1> HIDE DEF v
<1>5. e \in Session /\ SInv(e)
  BY <1>4, EmitType
<1> HIDE DEF e
<1>6. up \in Session /\ SInv(up)
  BY <1>5, StartInv
<1> HIDE DEF up
<1>7. SendGeneral(up) \in Session /\ SInv(SendGeneral(up))
  BY <1>6, GeneralInv, SendGeneralType DEF SInv
<1>8. SendHp(SendGeneral(up), TRUE) \in Session /\ SInv(SendHp(SendGeneral(up), TRUE))
  BY <1>7, HpInv, SendHpType DEF SInv
<1>9. f \in Session /\ SInv(f)
  BY <1>2, <1>3, <1>8
<1> HIDE DEF f
<1>10. LatchTxFault(f) \in Session /\ SInv(LatchTxFault(f))
  BY <1>9, FaultInv, InvIsWeak
<1>11. ParseStatus(s, ducUnderflow)
         = IF f.writer /\ ducUnderflow THEN LatchTxFault(f) ELSE f
  BY DEF ParseStatus, f, up, e, v, r
<1> QED BY <1>9, <1>10, <1>11

-----------------------------------------------------------------------------
(* What the bridge asks.                                                   *)

\* Any change of intent, arming or drive followed by applyTxControlNow.
LEMMA ControlInv ==
    ASSUME NEW s \in Session, SInv(s), NEW t \in Session,
           t.open = s.open, t.running = s.running, t.writer = s.writer,
           t.iqPrimed = s.iqPrimed, t.paCutHot = s.paCutHot, t.hp = s.hp,
           t.generalPa = s.generalPa
    PROVE  /\ ApplyTxControl(t) \in Session
           /\ SInv(ApplyTxControl(t))
<1>1. Base(t) /\ ~t.paCutHot
  BY DEF SInv, Base
<1>2. CASE t.open
  BY <1>1, <1>2, ApplyInv, ApplyType
<1>3. CASE ~t.open
  BY <1>1, <1>3, InvIsWeak DEF ApplyTxControl, SInv, HpAuthorised, PaAuthorised, Weak, Dark
<1> QED BY <1>2, <1>3

\* setTransmitIntent keeps SInv.
LEMMA IntentInv ==
    ASSUME NEW s \in Session, SInv(s), NEW intent \in Intent
    PROVE  SetTxIntent(s, intent) \in Session /\ SInv(SetTxIntent(s, intent))
<1> DEFINE q == [s EXCEPT !.telemetryHealthy = FALSE]
           n == IF intent = "none" /\ s.faultLatched THEN s.restarts + 1 ELSE s.restarts
           t == [s EXCEPT !.txIntent = intent, !.restarts = n]
<1>1. q \in Session /\ Weak(q)
  BY InvIsWeak DEF Session, Weak, Dark
<1> HIDE DEF q
<1>2. LatchTxFault(q) \in Session /\ SInv(LatchTxFault(q))
  BY <1>1, FaultInv
<1>3. n \in Nat
  BY DEF Session
<1> HIDE DEF n
<1>4. t \in Session
  BY <1>3 DEF Session
<1>5. /\ t.open = s.open /\ t.running = s.running /\ t.writer = s.writer
      /\ t.iqPrimed = s.iqPrimed /\ t.paCutHot = s.paCutHot /\ t.hp = s.hp
      /\ t.generalPa = s.generalPa
  BY DEF Session
<1> HIDE DEF t
<1>6. ApplyTxControl(t) \in Session /\ SInv(ApplyTxControl(t))
  BY <1>4, <1>5, ControlInv
<1>7. /\ EmitTxState(ApplyTxControl(t)) \in Session
      /\ SInv(EmitTxState(ApplyTxControl(t)))
  BY <1>6, EmitStateKeeps
<1> QED BY <1>2, <1>7 DEF SetTxIntent, t, n, q

\* setTxOperatorArmed keeps SInv.
LEMMA ArmedInv ==
    ASSUME NEW s \in Session, SInv(s), NEW on \in BOOLEAN
    PROVE  SetArmed(s, on) \in Session /\ SInv(SetArmed(s, on))
<1> DEFINE i == IF on THEN s.txIntent ELSE "none"
           t == [s EXCEPT !.operatorArmed = on, !.txIntent = i]
<1>1. i \in Intent
  BY DEF Session, Intent
<1> HIDE DEF i
<1>2. t \in Session
  BY <1>1 DEF Session
<1>3. /\ t.open = s.open /\ t.running = s.running /\ t.writer = s.writer
      /\ t.iqPrimed = s.iqPrimed /\ t.paCutHot = s.paCutHot /\ t.hp = s.hp
      /\ t.generalPa = s.generalPa
  BY DEF Session
<1> HIDE DEF t
<1>4. ApplyTxControl(t) \in Session /\ SInv(ApplyTxControl(t))
  BY <1>2, <1>3, ControlInv
<1>5. /\ EmitTxState(ApplyTxControl(t)) \in Session
      /\ SInv(EmitTxState(ApplyTxControl(t)))
  BY <1>4, EmitStateKeeps
<1> QED BY <1>5 DEF SetArmed, t, i

-----------------------------------------------------------------------------
(* The invariant of the specification.                                     *)

\* The session record is well typed and tied to what the radio was told.
IInv == p2 \in Session /\ SInv(p2)

\* The state a handler starts from has the invariant of the last one.
LEMMA NowInv == ASSUME IInv PROVE now \in Session /\ SInv(now)
<1>1. <<>> \in Seq(Signal)
  OBVIOUS
<1>2. now \in Session
  BY <1>1 DEF now, IInv, Session
<1>3. SInv(now)
  BY DEF now, IInv, Session, SInv, Base, HpAuthorised, PaAuthorised
<1> QED BY <1>2, <1>3

\* The invariant holds of a constructed session.
LEMMA InitInv == ASSUME Init PROVE IInv
<1>1. <<>> \in Seq(Signal)
  OBVIOUS
<1>2. /\ 0 \in 0 .. GeneralRefreshTicks - 1 /\ {} \in SUBSET Nat
      /\ 0 \in 0 .. PrimeEmitEvery - 1
  BY RefreshAssumption, ThrottleAssumption
<1>3. p2 \in Session
  <2> HIDE DEF Signal
  <2> QED BY <1>1, <1>2 DEF Init, Session, Age, Intent, HpWord
<1>4. SInv(p2)
  BY DEF Init, SInv, Base, HpAuthorised, PaAuthorised
<1> QED BY <1>3, <1>4 DEF IInv

\* Every event keeps the invariant: one case per action.
LEMMA StepInv == ASSUME IInv, Next PROVE IInv'
<1> USE NowInv
<1>1. CASE \E e \in p2.handshakes : Handshake(e)
  BY <1>1, HandshakeInv DEF Handshake, Become, IInv
<1>2. CASE HpTick
  BY <1>2, HpTickInv DEF HpTick, Become, IInv
<1>3. CASE Restart
  <2> DEFINE n == p2.restarts - 1
             t == [now EXCEPT !.restarts = n]
  <2>1. n \in Nat
    BY <1>3 DEF Restart, IInv, Session
  <2>2. now.restarts - 1 = n
    BY DEF now, IInv, Session
  <2> HIDE DEF n
  <2>3. t \in Session
    BY <2>1 DEF Session
  <2>4. SInv(t)
    BY DEF Session, SInv, Base, HpAuthorised, PaAuthorised
  <2>5. p2' = RestartTxTransport(t)
    BY <1>3, <2>2 DEF Restart, Become
  <2> HIDE DEF t
  <2> QED BY <2>3, <2>4, <2>5, RestartInv DEF IInv
<1>4. CASE \E overrun \in BOOLEAN : PrimeTick(overrun)
  BY <1>4, PrimeTickInv DEF PrimeTick, Become, IInv
<1>5. CASE WriterFault
  <2> DEFINE c == CadenceFault(now)
             t == [c EXCEPT !.writer = FALSE]
  <2>1. c \in Session /\ SInv(c)
    BY CadenceInv, InvIsWeak
  <2>2. ~c.writer
    BY CadenceStops
  <2> HIDE DEF c
  <2>3. t \in Session /\ SInv(t)
    BY <2>1, <2>2 DEF Session, SInv, Base, HpAuthorised, PaAuthorised
  <2> QED BY <1>5, <2>3 DEF WriterFault, Become, IInv, c
<1>6. CASE PumpFault
  <2> DEFINE t == [now EXCEPT !.pump = FALSE]
  <2>1. t \in Session /\ SInv(t)
    BY DEF Session, SInv, Base, HpAuthorised, PaAuthorised
  <2>2. p2' = CadenceFault(t)
    BY <1>6 DEF PumpFault, Become
  <2> HIDE DEF t
  <2> QED BY <2>1, <2>2, CadenceInv, InvIsWeak DEF IInv
<1>7. CASE Produce \/ Overflow
  <2>1. /\ [now EXCEPT !.filled = TRUE] \in Session
        /\ SInv([now EXCEPT !.filled = TRUE])
    BY DEF Session, SInv, Base, HpAuthorised, PaAuthorised
  <2>2. /\ [now EXCEPT !.overflowed = TRUE] \in Session
        /\ SInv([now EXCEPT !.overflowed = TRUE])
    BY DEF Session, SInv, Base, HpAuthorised, PaAuthorised
  <2> QED BY <1>7, <2>1, <2>2 DEF Produce, Overflow, Become, IInv
<1>8. CASE \E dry \in BOOLEAN : Status(dry)
  <2>1. now.open = p2.open
    BY DEF now, IInv, Session
  <2> QED BY <1>8, <2>1, StatusInv DEF Status, Become, IInv
<1>9. CASE StatusAges
  <2>1. "stale" \in Age
    BY DEF Age
  <2>2. /\ [now EXCEPT !.statusAge = "stale"] \in Session
        /\ SInv([now EXCEPT !.statusAge = "stale"])
    BY <2>1 DEF Session, SInv, Base, HpAuthorised, PaAuthorised
  <2> QED BY <1>9, <2>2 DEF StatusAges, Become, IInv
<1>10. CASE \E bound \in BOOLEAN : Open(bound)
  BY <1>10, OpenInv DEF Open, Become, IInv
<1>11. CASE Close
  BY <1>11, CloseInv DEF Close, Become, IInv
<1>12. CASE RateChange
  <2> DEFINE n == now.restarts + 1
             t == [now EXCEPT !.restarts = n]
  <2>1. n \in Nat
    BY DEF Session
  <2>2. p2' = t
    BY <1>12 DEF RateChange, Become
  <2> HIDE DEF n
  <2>3. t \in Session /\ SInv(t)
    BY <2>1 DEF Session, SInv, Base, HpAuthorised, PaAuthorised
  <2> QED BY <2>2, <2>3 DEF IInv
<1>13. CASE TxControlChange
  BY <1>13, ControlInv DEF TxControlChange, Become, IInv
<1>14. CASE SetDdcFrequency
  <2>1. SendHp(now, TRUE) \in Session /\ SInv(SendHp(now, TRUE))
    BY HpInv, SendHpType DEF SInv
  <2> QED BY <1>14, <2>1 DEF SetDdcFrequency, PushFrequency, Become, IInv
<1>15. CASE \E intent \in Intent : TransmitIntent(intent)
  BY <1>15, IntentInv DEF TransmitIntent, Become, IInv
<1>16. CASE \E on \in BOOLEAN : OperatorArm(on)
  BY <1>16, ArmedInv DEF OperatorArm, Become, IInv
<1>17. CASE \E state \in {"inactive", "active"} : ProducerSeam(state)
  BY <1>17 DEF ProducerSeam, IInv
<1> QED BY <1>1, <1>2, <1>3, <1>4, <1>5, <1>6, <1>7, <1>8, <1>9, <1>10, <1>11,
           <1>12, <1>13, <1>14, <1>15, <1>16, <1>17
        DEF Next, Timers, Stream, Radio, Bridge

\* IInv is an invariant of the specification.
LEMMA Invariance == Spec => []IInv
<1>1. IInv /\ UNCHANGED vars => IInv'
  BY DEF IInv, vars
<1> QED BY <1>1, InitInv, StepInv, PTL DEF Spec

-----------------------------------------------------------------------------
(* Theorems.                                                               *)

\* Type correctness of the session record, its packets and its signals, for
\* every instance.
THEOREM Typing == Spec => []TypeOK
<1>1. Init => producer \in Producer
  BY DEF Init
<1>2. producer \in Producer /\ [Next]_vars => (producer \in Producer)'
  BY DEF Next, Timers, Stream, Radio, Bridge, Become, vars, Handshake, HpTick,
         Restart, PrimeTick, WriterFault, PumpFault, Produce, Overflow, Status,
         StatusAges, Open, Close, RateChange, TxControlChange, SetDdcFrequency,
         TransmitIntent, OperatorArm, ProducerSeam, Producer
<1>3. Spec => [](producer \in Producer)
  BY <1>1, <1>2, PTL DEF Spec
<1>4. IInv /\ producer \in Producer => TypeOK
  BY DEF IInv, TypeOK
<1> QED BY <1>3, <1>4, Invariance, PTL

\* No packet the radio holds authorises transmit without an open, answered,
\* armed, healthy, keyed and streaming session.
THEOREM AirSafety == Spec => []NeverOnAirBlind
<1>1. IInv => NeverOnAirBlind
  BY DEF IInv, SInv, Base, HpAuthorised, NeverOnAirBlind, OnAir
<1> QED BY <1>1, Invariance, PTL

\* The PA bit never outlives the key or the stream.
THEOREM PaSafety == Spec => []PaNeedsKey
<1>1. IInv => PaNeedsKey
  BY DEF IInv, SInv, Base, PaAuthorised, PaNeedsKey
<1> QED BY <1>1, Invariance, PTL

\* iqPrimed never stands without the writer.
THEOREM PrimeSafety == Spec => []PrimedIsLive
<1>1. IInv => PrimedIsLive
  BY DEF IInv, SInv, Base, PrimedIsLive
<1> QED BY <1>1, Invariance, PTL

\* No key up or fault removes the PA before HP transmit.
THEOREM KeyupSafety == Spec => []KeyupOrder
<1>1. IInv => KeyupOrder
  BY DEF IInv, SInv, KeyupOrder
<1> QED BY <1>1, Invariance, PTL

-----------------------------------------------------------------------------
(* The bridge's view.                                                      *)

\* A port record, field by field.
Rec(open, running, fresh, intent, armed, fault, stage, due, air, signals) ==
    [open |-> open, running |-> running, fresh |-> fresh, intent |-> intent,
     armed |-> armed, fault |-> fault, stage |-> stage, due |-> due,
     onAir |-> air, signals |-> signals]

Stage(s) == IF s.writer THEN "live" ELSE IF s.pump THEN "priming" ELSE "off"

Fresh(s) == s.statusAge = "fresh"
Keyed(s) == s.txIntent # "none"

\* What the port shows of a session in the middle of a step; what the last HP
\* packet authorises is decided at the end of the step.
Seen(s, air) ==
    Rec(s.open, s.running, Fresh(s), Keyed(s), s.operatorArmed, s.faultLatched,
        Stage(s), s.restarts, air, s.signals)

StateSignal(stage, armed, fault) ==
    [kind |-> "state", ready |-> stage = "live" /\ ~fault, armed |-> armed,
     fault |-> fault]

\* The two Boolean values, for the provers.
No  == FALSE
Yes == TRUE

\* One field written.
With(t, field, v) == [t EXCEPT ![field] = v]

\* The fields of a port record.
LEMMA RecFields ==
    ASSUME NEW o, NEW r, NEW f, NEW i, NEW a, NEW x, NEW g, NEW d, NEW air, NEW q
    PROVE  LET t == Rec(o, r, f, i, a, x, g, d, air, q) IN
           /\ t.open = o /\ t.running = r /\ t.fresh = f /\ t.intent = i
           /\ t.armed = a /\ t.fault = x /\ t.stage = g /\ t.due = d
           /\ t.onAir = air /\ t.signals = q
BY DEF Rec

\* A port record with one field written.
LEMMA RecWith ==
    ASSUME NEW o, NEW r, NEW f, NEW i, NEW a, NEW x, NEW g, NEW d, NEW air, NEW q,
           NEW v
    PROVE  LET t == Rec(o, r, f, i, a, x, g, d, air, q) IN
           /\ With(t, "open", v) = Rec(v, r, f, i, a, x, g, d, air, q)
           /\ With(t, "running", v) = Rec(o, v, f, i, a, x, g, d, air, q)
           /\ With(t, "fresh", v) = Rec(o, r, v, i, a, x, g, d, air, q)
           /\ With(t, "intent", v) = Rec(o, r, f, v, a, x, g, d, air, q)
           /\ With(t, "armed", v) = Rec(o, r, f, i, v, x, g, d, air, q)
           /\ With(t, "fault", v) = Rec(o, r, f, i, a, v, g, d, air, q)
           /\ With(t, "stage", v) = Rec(o, r, f, i, a, x, v, d, air, q)
           /\ With(t, "due", v) = Rec(o, r, f, i, a, x, g, v, air, q)
           /\ With(t, "onAir", v) = Rec(o, r, f, i, a, x, g, d, v, q)
           /\ With(t, "signals", v) = Rec(o, r, f, i, a, x, g, d, air, v)
<1>1. With(Rec(o, r, f, i, a, x, g, d, air, q), "open", v) = Rec(v, r, f, i, a, x, g, d, air, q)
  BY DEF Rec, With
<1>2. With(Rec(o, r, f, i, a, x, g, d, air, q), "running", v) = Rec(o, v, f, i, a, x, g, d, air, q)
  BY DEF Rec, With
<1>3. With(Rec(o, r, f, i, a, x, g, d, air, q), "fresh", v) = Rec(o, r, v, i, a, x, g, d, air, q)
  BY DEF Rec, With
<1>4. With(Rec(o, r, f, i, a, x, g, d, air, q), "intent", v) = Rec(o, r, f, v, a, x, g, d, air, q)
  BY DEF Rec, With
<1>5. With(Rec(o, r, f, i, a, x, g, d, air, q), "armed", v) = Rec(o, r, f, i, v, x, g, d, air, q)
  BY DEF Rec, With
<1>6. With(Rec(o, r, f, i, a, x, g, d, air, q), "fault", v) = Rec(o, r, f, i, a, v, g, d, air, q)
  BY DEF Rec, With
<1>7. With(Rec(o, r, f, i, a, x, g, d, air, q), "stage", v) = Rec(o, r, f, i, a, x, v, d, air, q)
  BY DEF Rec, With
<1>8. With(Rec(o, r, f, i, a, x, g, d, air, q), "due", v) = Rec(o, r, f, i, a, x, g, v, air, q)
  BY DEF Rec, With
<1>9. With(Rec(o, r, f, i, a, x, g, d, air, q), "onAir", v) = Rec(o, r, f, i, a, x, g, d, v, q)
  BY DEF Rec, With
<1>10. With(Rec(o, r, f, i, a, x, g, d, air, q), "signals", v) = Rec(o, r, f, i, a, x, g, d, air, v)
  BY DEF Rec, With
<1> QED BY <1>1, <1>2, <1>3, <1>4, <1>5, <1>6, <1>7, <1>8, <1>9, <1>10

\* The port reports its state: one more signal.
LEMMA StateRec ==
    ASSUME NEW o, NEW r, NEW f, NEW i, NEW a, NEW x, NEW g, NEW d, NEW air, NEW q
    PROVE  Port!State(Rec(o, r, f, i, a, x, g, d, air, q)) =
           Rec(o, r, f, i, a, x, g, d, air, Append(q, StateSignal(g, a, x)))
<1>1. ASSUME NEW t
      PROVE  Port!State(t) = With(t, "signals", Append(t.signals,
                                      StateSignal(t.stage, t.armed, t.fault)))
  BY Zenon DEF Port!State, Port!Emit, StateSignal, With
<1> DEFINE t == Rec(o, r, f, i, a, x, g, d, air, q)
<1>2. t.stage = g /\ t.armed = a /\ t.fault = x /\ t.signals = q
  BY RecFields
<1>3. ASSUME NEW v PROVE With(t, "signals", v) = Rec(o, r, f, i, a, x, g, d, air, v)
  BY RecWith
<1> HIDE DEF t
<1>4. Port!State(t) = With(t, "signals", Append(q, StateSignal(g, a, x)))
  BY <1>1, <1>2, Zenon
<1> QED BY <1>3, <1>4, Zenon DEF t

\* Cut off with the fault latched, and reported.
LEMMA LatchRec ==
    ASSUME NEW o, NEW r, NEW f, NEW i, NEW a, NEW x, NEW g, NEW d, NEW air, NEW q
    PROVE  Port!Latch(Rec(o, r, f, i, a, x, g, d, air, q)) =
           Rec(o, r, f, No, a, Yes, "off", d, air, Append(q, StateSignal("off", a, Yes)))
<1>1. ASSUME NEW t
      PROVE  Port!Latch(t) = Port!State(With(With(With(t, "stage", "off"),
                                                  "intent", No), "fault", Yes))
  BY Zenon DEF Port!Latch, With, No, Yes
<1> QED BY <1>1, RecWith, StateRec

\* No session has been answered.
Deaf(open, running) == ~open \/ ~running

\* The port's cadence fault, field by field.
LEMMA CadenceRec ==
    ASSUME NEW o, NEW r, NEW f, NEW i, NEW a, NEW x, NEW g, NEW d, NEW air, NEW q
    PROVE  Port!CadenceFault(Rec(o, r, f, i, a, x, g, d, air, q)) =
             IF i THEN Port!Latch(Rec(o, r, f, i, a, x, g, d, air, q))
             ELSE IF Deaf(o, r) THEN Rec(o, r, f, i, a, x, g, d, air, q)
             ELSE Rec(o, r, f, i, a, x, "off", d + 1, air, q)
<1>1. ASSUME NEW t
      PROVE  Port!CadenceFault(t) =
               IF t.intent THEN Port!Latch(t)
               ELSE IF Deaf(t.open, t.running) THEN t
               ELSE With(With(t, "stage", "off"), "due", t.due + 1)
  BY Zenon DEF Port!CadenceFault, With, Deaf
<1> QED BY <1>1, RecWith, RecFields

\* The fields of what the port shows.
LEMMA SeenFields ==
    ASSUME NEW s, NEW air
    PROVE  LET p == Seen(s, air) IN
           /\ p.open = s.open /\ p.running = s.running /\ p.fresh = Fresh(s)
           /\ p.intent = Keyed(s) /\ p.armed = s.operatorArmed
           /\ p.fault = s.faultLatched /\ p.stage = Stage(s) /\ p.due = s.restarts
           /\ p.onAir = air /\ p.signals = s.signals
BY DEF Seen, Rec

\* What the port shows with one field written.
LEMMA SeenWith ==
    ASSUME NEW s, NEW air, NEW v
    PROVE  /\ With(Seen(s, air), "open", v)
                = Rec(v, s.running, Fresh(s), Keyed(s), s.operatorArmed, s.faultLatched,
                      Stage(s), s.restarts, air, s.signals)
           /\ With(Seen(s, air), "running", v)
                = Rec(s.open, v, Fresh(s), Keyed(s), s.operatorArmed, s.faultLatched,
                      Stage(s), s.restarts, air, s.signals)
           /\ With(Seen(s, air), "fresh", v)
                = Rec(s.open, s.running, v, Keyed(s), s.operatorArmed, s.faultLatched,
                      Stage(s), s.restarts, air, s.signals)
           /\ With(Seen(s, air), "intent", v)
                = Rec(s.open, s.running, Fresh(s), v, s.operatorArmed, s.faultLatched,
                      Stage(s), s.restarts, air, s.signals)
           /\ With(Seen(s, air), "armed", v)
                = Rec(s.open, s.running, Fresh(s), Keyed(s), v, s.faultLatched,
                      Stage(s), s.restarts, air, s.signals)
           /\ With(Seen(s, air), "fault", v)
                = Rec(s.open, s.running, Fresh(s), Keyed(s), s.operatorArmed, v,
                      Stage(s), s.restarts, air, s.signals)
           /\ With(Seen(s, air), "stage", v)
                = Rec(s.open, s.running, Fresh(s), Keyed(s), s.operatorArmed, s.faultLatched,
                      v, s.restarts, air, s.signals)
           /\ With(Seen(s, air), "due", v)
                = Rec(s.open, s.running, Fresh(s), Keyed(s), s.operatorArmed, s.faultLatched,
                      Stage(s), v, air, s.signals)
           /\ With(Seen(s, air), "signals", v)
                = Rec(s.open, s.running, Fresh(s), Keyed(s), s.operatorArmed, s.faultLatched,
                      Stage(s), s.restarts, air, v)
BY RecWith DEF Seen

-----------------------------------------------------------------------------
(* Methods the bridge does not see.                                        *)

\* Everything but the packets, the handshakes and the age of the cadence.
Kept(s, t) ==
    \A f \in {"open", "running", "statusAge", "txIntent", "operatorArmed",
              "faultLatched", "writer", "pump", "restarts", "signals",
              "primeTimer", "iqPrimed"} : t[f] = s[f]

\* A method that keeps all these fields shows the port nothing.
LEMMA KeptIsUnseen ==
    ASSUME NEW s, NEW t, Kept(s, t), NEW air
    PROVE  /\ Seen(t, air) = Seen(s, air) /\ Stage(t) = Stage(s)
           /\ t.open = s.open /\ t.running = s.running /\ t.txIntent = s.txIntent
           /\ t.faultLatched = s.faultLatched /\ t.statusAge = s.statusAge
           /\ t.writer = s.writer /\ t.pump = s.pump
           /\ t.primeTimer = s.primeTimer /\ t.iqPrimed = s.iqPrimed
           /\ t.operatorArmed = s.operatorArmed /\ t.restarts = s.restarts
           /\ t.signals = s.signals
<1>1. /\ t.open = s.open /\ t.running = s.running /\ t.txIntent = s.txIntent
      /\ t.faultLatched = s.faultLatched /\ t.statusAge = s.statusAge
      /\ t.writer = s.writer /\ t.pump = s.pump
      /\ t.primeTimer = s.primeTimer /\ t.iqPrimed = s.iqPrimed
      /\ t.operatorArmed = s.operatorArmed /\ t.restarts = s.restarts
      /\ t.signals = s.signals
  BY DEF Kept
<1>2. Stage(t) = Stage(s) /\ Fresh(t) = Fresh(s) /\ Keyed(t) = Keyed(s)
  BY <1>1 DEF Stage, Fresh, Keyed
<1>3. Seen(t, air) = Seen(s, air)
  BY <1>1, <1>2 DEF Seen
<1> QED BY <1>1, <1>2, <1>3

\* Sending packets shows it nothing.
LEMMA PacketsKeep ==
    ASSUME NEW s \in Session, NEW run \in BOOLEAN
    PROVE  /\ SendHp(s, run) \in Session /\ Kept(s, SendHp(s, run))
           /\ SendGeneral(s) \in Session /\ Kept(s, SendGeneral(s))
           /\ Refreshed(s) \in Session /\ Kept(s, Refreshed(s))
<1>1. ASSUME NEW a, NEW b PROVE Kept(s, [s EXCEPT !.hp = a, !.paLate = b])
  BY DEF Session, Kept
<1>2. ASSUME NEW a, NEW b PROVE Kept(s, [s EXCEPT !.generalPa = a, !.paCutHot = b])
  BY DEF Session, Kept
<1>3. Kept(s, SendHp(s, run))
  BY <1>1, Zenon DEF SendHp
<1>4. Kept(s, SendGeneral(s))
  BY <1>2, Zenon DEF SendGeneral
<1>5. Kept(s, Refreshed(s))
  BY DEF Session, Kept, Refreshed
<1> QED BY <1>3, <1>4, <1>5, SendHpType, SendGeneralType, RefreshedType

\* Two methods in a row may show nothing.
LEMMA KeptTwice ==
    ASSUME NEW s, NEW t, NEW u, Kept(s, t), Kept(t, u) PROVE Kept(s, u)
BY DEF Kept

\* applyTxControlNow shows the port nothing.
LEMMA ApplyKeeps ==
    ASSUME NEW s \in Session
    PROVE  ApplyTxControl(s) \in Session /\ Kept(s, ApplyTxControl(s))
<1> DEFINE r == Refreshed(s)
<1>1. r \in Session /\ Kept(s, r)
  BY PacketsKeep
<1> HIDE DEF r
<1>2. Kept(s, s)
  BY DEF Kept
<1>3. Kept(s, SendHp(SendGeneral(r), TRUE)) /\ Kept(s, SendGeneral(SendHp(r, TRUE)))
  BY <1>1, PacketsKeep, KeptTwice
<1>4. ApplyTxControl(s) \in {s, SendHp(SendGeneral(r), TRUE), SendGeneral(SendHp(r, TRUE))}
  BY DEF ApplyTxControl, r
<1> QED BY <1>2, <1>3, <1>4, ApplyType

-----------------------------------------------------------------------------
(* The transport.                                                          *)

\* The signals and the reading of the writer apart.
SameFlags(s, t) ==
    \A f \in {"open", "running", "statusAge", "txIntent", "operatorArmed",
              "faultLatched", "writer", "pump", "restarts", "primeTimer",
              "iqPrimed", "filled", "overflowed"} : t[f] = s[f]

\* emitTxState is the port's report.
LEMMA SeenState ==
    ASSUME NEW s \in Session, s.iqPrimed = s.writer, NEW air
    PROVE  /\ Seen(EmitTxState(s), air) = Port!State(Seen(s, air))
           /\ EmitTxState(s) \in Session
           /\ SameFlags(s, EmitTxState(s))
<1> DEFINE g == [kind |-> "state", ready |-> s.writer /\ s.iqPrimed /\ ~s.faultLatched,
                 armed |-> s.operatorArmed, fault |-> s.faultLatched]
           q == Append(s.signals, g)
           w == s.writer
           t == [s EXCEPT !.transportRunning = w, !.signals = q]
<1>1. EmitTxState(s) = t
  <2> DEFINE r == Refreshed(s)
  <2>1. /\ r.writer = s.writer /\ r.iqPrimed = s.iqPrimed /\ r.signals = s.signals
        /\ r.faultLatched = s.faultLatched /\ r.operatorArmed = s.operatorArmed
    BY DEF Refreshed, Session
  <2>2. r = [s EXCEPT !.transportRunning = w]
    BY DEF Refreshed
  <2> HIDE DEF r
  <2>3. EmitTxState(s) = [r EXCEPT !.signals = q]
    BY <2>1, Zenon DEF EmitTxState, r
  <2> HIDE DEF q, w
  <2> QED BY <2>2, <2>3
<1>2. g = StateSignal(Stage(s), s.operatorArmed, s.faultLatched)
  <2>1. (s.writer /\ s.iqPrimed /\ ~s.faultLatched)
          = (Stage(s) = "live" /\ ~s.faultLatched)
    BY DEF Session, Stage
  <2> QED BY <2>1, Zenon DEF StateSignal
<1> HIDE DEF g
<1>3. Port!State(Seen(s, air)) =
        Rec(s.open, s.running, Fresh(s), Keyed(s), s.operatorArmed, s.faultLatched,
            Stage(s), s.restarts, air, q)
  <2>1. Port!State(Seen(s, air)) =
          Rec(s.open, s.running, Fresh(s), Keyed(s), s.operatorArmed, s.faultLatched,
              Stage(s), s.restarts, air,
              Append(s.signals, StateSignal(Stage(s), s.operatorArmed, s.faultLatched)))
    BY StateRec DEF Seen
  <2> QED BY <1>2, <2>1
<1> HIDE DEF q, w
<1>4. /\ t.open = s.open /\ t.running = s.running /\ t.txIntent = s.txIntent
      /\ t.faultLatched = s.faultLatched /\ t.statusAge = s.statusAge
      /\ t.writer = s.writer /\ t.pump = s.pump
      /\ t.primeTimer = s.primeTimer /\ t.iqPrimed = s.iqPrimed
      /\ t.operatorArmed = s.operatorArmed /\ t.restarts = s.restarts
      /\ t.signals = q /\ t.filled = s.filled /\ t.overflowed = s.overflowed
  BY DEF Session
<1>5. SameFlags(s, t)
  BY <1>4 DEF SameFlags
<1> HIDE DEF t
<1>6. Stage(t) = Stage(s) /\ Fresh(t) = Fresh(s) /\ Keyed(t) = Keyed(s)
  BY <1>4 DEF Stage, Fresh, Keyed
<1>7. Seen(t, air) = Port!State(Seen(s, air))
  BY <1>3, <1>4, <1>6 DEF Seen
<1> QED BY <1>1, <1>5, <1>7, EmitStateType

\* The transport stands still.
Cold(s) == ~s.writer /\ ~s.pump /\ ~s.primeTimer /\ ~s.iqPrimed

\* latchTxFault is the port's latch.
LEMMA SeenLatch ==
    ASSUME NEW s \in Session, NEW air
    PROVE  /\ Seen(LatchTxFault(s), air) = Port!Latch(Seen(s, air))
           /\ LatchTxFault(s) \in Session
           /\ Cold(LatchTxFault(s)) /\ LatchTxFault(s).open = s.open
           /\ LatchTxFault(s).running = s.running
<1> DEFINE t == [StopTxTransport(s) EXCEPT !.txIntent = "none", !.faultLatched = TRUE]
           u == ApplyTxControl(t)
<1>1. t \in Session
  BY DEF StopTxTransport, Session, Intent
<1>2. /\ t.open = s.open /\ t.running = s.running /\ t.txIntent = "none"
      /\ t.faultLatched = TRUE /\ t.statusAge = s.statusAge
      /\ t.writer = FALSE /\ t.pump = FALSE
      /\ t.primeTimer = FALSE /\ t.iqPrimed = FALSE
      /\ t.operatorArmed = s.operatorArmed /\ t.restarts = s.restarts
      /\ t.signals = s.signals
  BY DEF StopTxTransport, Session
<1> HIDE DEF t
<1>3. Stage(t) = "off" /\ Keyed(t) = FALSE /\ Fresh(t) = Fresh(s)
  BY <1>2 DEF Stage, Keyed, Fresh
<1>4. Seen(t, air) = Rec(s.open, s.running, Fresh(s), Keyed(t), s.operatorArmed,
                        t.faultLatched, "off", s.restarts, air, s.signals)
  BY <1>2, <1>3 DEF Seen
<1>5. u \in Session /\ Kept(t, u)
  BY <1>1, ApplyKeeps
<1> HIDE DEF u
<1>6. /\ Seen(u, air) = Seen(t, air) /\ u.writer = FALSE /\ u.iqPrimed = FALSE
      /\ u.pump = FALSE /\ u.primeTimer = FALSE /\ u.open = s.open
      /\ u.running = s.running
  BY <1>2, <1>5, KeptIsUnseen
<1>7. /\ Seen(EmitTxState(u), air) = Port!State(Seen(t, air))
      /\ EmitTxState(u) \in Session
      /\ Cold(EmitTxState(u)) /\ EmitTxState(u).open = s.open
      /\ EmitTxState(u).running = s.running
  <2>1. /\ Seen(EmitTxState(u), air) = Port!State(Seen(u, air))
        /\ EmitTxState(u) \in Session
        /\ SameFlags(u, EmitTxState(u))
    BY <1>5, <1>6, SeenState
  <2>2. /\ EmitTxState(u).writer = FALSE /\ EmitTxState(u).iqPrimed = FALSE
        /\ EmitTxState(u).pump = FALSE /\ EmitTxState(u).primeTimer = FALSE
        /\ EmitTxState(u).open = s.open /\ EmitTxState(u).running = s.running
    BY <1>6, <2>1 DEF SameFlags
  <2> QED BY <1>6, <2>1, <2>2 DEF Cold
<1>8. Port!State(Seen(t, air)) = Port!Latch(Seen(s, air))
  <2>1. Keyed(t) = No /\ t.faultLatched = Yes
    BY <1>2, <1>3 DEF No, Yes
  <2> QED BY <1>4, <2>1, StateRec, LatchRec DEF Seen
<1> QED BY <1>7, <1>8 DEF LatchTxFault, t, u

\* onTxTransportCadenceFault is the port's cadence fault.
LEMMA SeenCadence ==
    ASSUME NEW s \in Session, NEW air
    PROVE  /\ Seen(CadenceFault(s), air) = Port!CadenceFault(Seen(s, air))
           /\ CadenceFault(s) \in Session
           /\ \/ CadenceFault(s) = s /\ ~(s.open /\ s.running)
              \/ Cold(CadenceFault(s))
           /\ CadenceFault(s).open = s.open /\ CadenceFault(s).running = s.running
<1> DEFINE n == s.restarts + 1
           t == [StopTxTransport(s) EXCEPT !.restarts = n]
<1>1. [StopTxTransport(s) EXCEPT !.restarts = @ + 1] = t
  BY DEF StopTxTransport, Session
<1>2. n \in Nat
  BY DEF Session
<1> HIDE DEF n
<1>3. t \in Session
  BY <1>2 DEF StopTxTransport, Session
<1>4. /\ t.open = s.open /\ t.running = s.running /\ t.txIntent = s.txIntent
      /\ t.faultLatched = s.faultLatched /\ t.statusAge = s.statusAge
      /\ t.writer = FALSE /\ t.pump = FALSE
      /\ t.primeTimer = FALSE /\ t.iqPrimed = FALSE
      /\ t.operatorArmed = s.operatorArmed /\ t.restarts = n
      /\ t.signals = s.signals
  BY DEF StopTxTransport, Session
<1> HIDE DEF t
<1>5. Stage(t) = "off" /\ Keyed(t) = Keyed(s) /\ Fresh(t) = Fresh(s)
  BY <1>4 DEF Stage, Keyed, Fresh
<1>6. Seen(t, air) = Rec(s.open, s.running, Fresh(s), Keyed(s), s.operatorArmed,
                        s.faultLatched, "off", n, air, s.signals)
  BY <1>4, <1>5 DEF Seen
<1>7. Port!CadenceFault(Seen(s, air)) =
        IF Keyed(s) THEN Port!Latch(Seen(s, air))
        ELSE IF ~s.open \/ ~s.running THEN Seen(s, air) ELSE Seen(t, air)
  BY <1>6, CadenceRec DEF Seen, n, Deaf
<1>8. CadenceFault(s) = IF Keyed(s) THEN LatchTxFault(s)
                        ELSE IF ~s.open \/ ~s.running THEN s ELSE t
  BY <1>1 DEF CadenceFault, Keyed
<1>9. Cold(t)
  BY <1>4 DEF Cold
<1> QED BY <1>3, <1>4, <1>7, <1>8, <1>9, SeenLatch

\* The prime timer runs only while the pump primes, over an answered session.
Feeds(s) == (s.pump => s.running) /\ (s.primeTimer => s.pump /\ ~s.writer)

\* Nothing is fed over a transport that stands still.
LEMMA ColdFeeds == ASSUME NEW s, Cold(s) PROVE Feeds(s)
BY DEF Cold, Feeds

Priming(s) == s.pump /\ ~s.writer /\ s.open /\ s.running

\* startFromInput, with or without an overrun, is the port's prime target met.
LEMMA SeenWriter ==
    ASSUME NEW s \in Session, Priming(s),
           NEW overrun \in BOOLEAN, NEW air
    PROVE  /\ Seen(StartWriter(s, overrun), air) \in Port!PrimeTick(Seen(s, air))
           /\ Feeds(StartWriter(s, overrun))
<1> DEFINE w == ~overrun
           r == [s EXCEPT !.primeTimer = FALSE, !.writer = w, !.overflowed = overrun]
           t == [r EXCEPT !.iqPrimed = TRUE]
           p == Seen(s, air)
<1>1. w \in BOOLEAN
  OBVIOUS
<1> HIDE DEF w
<1>2. r \in Session /\ t \in Session
  <2>1. r \in Session
    BY <1>1 DEF Session
  <2> HIDE DEF r
  <2>2. t \in Session
    BY <2>1 DEF Session
  <2> QED BY <2>1, <2>2
<1>3. /\ r.open = s.open /\ r.running = s.running /\ r.txIntent = s.txIntent
      /\ r.faultLatched = s.faultLatched /\ r.statusAge = s.statusAge
      /\ r.writer = w /\ r.pump = s.pump /\ r.primeTimer = FALSE
      /\ r.operatorArmed = s.operatorArmed /\ r.restarts = s.restarts
      /\ r.signals = s.signals
  BY DEF Session
<1>4. /\ t.open = s.open /\ t.running = s.running /\ t.txIntent = s.txIntent
      /\ t.faultLatched = s.faultLatched /\ t.statusAge = s.statusAge
      /\ t.writer = w /\ t.pump = s.pump /\ t.primeTimer = FALSE
      /\ t.operatorArmed = s.operatorArmed /\ t.restarts = s.restarts
      /\ t.signals = s.signals /\ t.iqPrimed = TRUE
  BY DEF Session
<1>5. p.stage = "priming"
  BY SeenFields DEF Stage, Priming
<1>6. StartWriter(s, overrun) = IF overrun THEN LatchTxFault(CadenceFault(r))
                                ELSE EmitTxState(t)
  BY Zenon DEF StartWriter, w
<1>7. \A v \in {Port!State([p EXCEPT !.stage = "live"]), Port!Latch(Port!CadenceFault(p))} :
          v \in Port!PrimeTick(p)
  BY <1>5, Zenon DEF Port!PrimeTick
<1> HIDE DEF r, t
<1>8. CASE overrun
  <2>1. r.writer = FALSE
    BY <1>3, <1>8 DEF w
  <2>2. Stage(r) = Stage(s) /\ Fresh(r) = Fresh(s) /\ Keyed(r) = Keyed(s)
    BY <1>3, <2>1 DEF Stage, Fresh, Keyed, Priming
  <2>3. Seen(r, air) = p
    BY <1>3, <2>2 DEF Seen
  <2>4. Seen(LatchTxFault(CadenceFault(r)), air) = Port!Latch(Port!CadenceFault(p))
    BY <1>2, <2>3, SeenCadence, SeenLatch
  <2>5. Feeds(LatchTxFault(CadenceFault(r)))
    BY <1>2, SeenCadence, SeenLatch, ColdFeeds
  <2> QED BY <1>6, <1>7, <1>8, <2>4, <2>5
<1>9. CASE ~overrun
  <2>1. t.writer = TRUE
    BY <1>4, <1>9 DEF w
  <2>2. Stage(t) = "live" /\ Fresh(t) = Fresh(s) /\ Keyed(t) = Keyed(s)
    BY <1>4, <2>1 DEF Stage, Fresh, Keyed
  <2>3. Seen(t, air) = With(p, "stage", "live")
    <3>1. Seen(t, air) = Rec(s.open, s.running, Fresh(s), Keyed(s), s.operatorArmed,
                            s.faultLatched, "live", s.restarts, air, s.signals)
      BY <1>4, <2>2 DEF Seen
    <3>2. With(p, "stage", "live")
             = Rec(s.open, s.running, Fresh(s), Keyed(s), s.operatorArmed,
                   s.faultLatched, "live", s.restarts, air, s.signals)
      BY SeenWith
    <3> QED BY <3>1, <3>2
  <2>4. With(p, "stage", "live") = [p EXCEPT !.stage = "live"]
    BY Zenon DEF With
  <2>5. /\ Seen(EmitTxState(t), air) = Port!State([p EXCEPT !.stage = "live"])
        /\ SameFlags(t, EmitTxState(t))
    <3>1. t.iqPrimed = t.writer
      BY <1>4, <2>1
    <3>2. Seen(EmitTxState(t), air) = Port!State(Seen(t, air))
      BY <1>2, <3>1, SeenState
    <3>3. SameFlags(t, EmitTxState(t))
      BY <1>2, <3>1, SeenState
    <3> QED BY <2>3, <2>4, <3>2, <3>3, Zenon
  <2>6. Feeds(EmitTxState(t))
    BY <1>4, <2>5 DEF Feeds, Priming, SameFlags
  <2> QED BY <1>6, <1>7, <1>9, <2>5, <2>6
<1> QED BY <1>8, <1>9

\* Priming that goes on is seen as nothing, or as one more report.
LEMMA SeenProgress ==
    ASSUME NEW s \in Session, s.iqPrimed = s.writer, Feeds(s), NEW air
    PROVE  /\ Seen(PrimeProgress(s), air) \in {Seen(s, air), Port!State(Seen(s, air))}
           /\ Feeds(PrimeProgress(s))
<1> DEFINE n == (s.throttle + 1) % PrimeEmitEvery
           r == [s EXCEPT !.throttle = n]
<1>1. n \in 0 .. PrimeEmitEvery - 1
  <2>1. s.throttle \in 0 .. PrimeEmitEvery - 1
    BY DEF Session
  <2> QED BY <2>1, ThrottleAssumption, TickCount
<1>2. PrimeProgress(s) = IF s.throttle = 0 THEN EmitTxState(r) ELSE r
  BY Zenon DEF PrimeProgress
<1> HIDE DEF n
<1>3. r \in Session /\ Kept(s, r)
  BY <1>1 DEF Session, Kept
<1> HIDE DEF r
<1>4. /\ Seen(r, air) = Seen(s, air) /\ r.iqPrimed = r.writer
      /\ Feeds(r)
  BY <1>3, KeptIsUnseen DEF Feeds
<1>5. /\ Seen(EmitTxState(r), air) = Port!State(Seen(s, air))
      /\ SameFlags(r, EmitTxState(r))
  BY <1>3, <1>4, SeenState
<1>6. Feeds(EmitTxState(r))
  BY <1>4, <1>5 DEF Feeds, SameFlags
<1> QED BY <1>2, <1>4, <1>5, <1>6

\* onTxPrimeTick waits, or meets or misses the prime target.
LEMMA SeenPrimeTick ==
    ASSUME NEW s \in Session, s.iqPrimed = s.writer, Feeds(s), s.primeTimer,
           NEW overrun \in BOOLEAN, NEW air
    PROVE  /\ Seen(OnTxPrimeTick(s, overrun), air)
                  \in {Seen(s, air)} \cup Port!PrimeTick(Seen(s, air))
           /\ Feeds(OnTxPrimeTick(s, overrun))
<1> DEFINE t == [s EXCEPT !.primeTimer = FALSE]
           p == Seen(s, air)
<1>1. Feeds(t) /\ Seen(t, air) = p
  <2>1. /\ t.open = s.open /\ t.running = s.running /\ t.txIntent = s.txIntent
        /\ t.faultLatched = s.faultLatched /\ t.statusAge = s.statusAge
        /\ t.writer = s.writer /\ t.pump = s.pump /\ t.primeTimer = FALSE
        /\ t.operatorArmed = s.operatorArmed /\ t.restarts = s.restarts
        /\ t.signals = s.signals
    BY DEF Session
  <2> HIDE DEF t
  <2>3. Stage(t) = Stage(s) /\ Fresh(t) = Fresh(s) /\ Keyed(t) = Keyed(s)
    BY <2>1 DEF Stage, Fresh, Keyed
  <2>4. Feeds(t)
    BY <2>1 DEF Feeds
  <2> QED BY <2>1, <2>3, <2>4 DEF Seen
<1> HIDE DEF t
<1>2. p.stage = "priming"
  BY SeenFields DEF Stage, Feeds
<1>3. Port!Latch(p) \in Port!PrimeTick(p) /\ Port!State(p) \in Port!PrimeTick(p)
  BY <1>2, Zenon DEF Port!PrimeTick
<1>4. Seen(LatchTxFault(s), air) = Port!Latch(p) /\ Feeds(LatchTxFault(s))
  BY SeenLatch, ColdFeeds
<1>5. ASSUME s.open, s.running
      PROVE  Seen(StartWriter(s, overrun), air) \in Port!PrimeTick(p)
             /\ Feeds(StartWriter(s, overrun))
  BY <1>5, SeenWriter DEF Feeds, Priming
<1>6. OnTxPrimeTick(s, overrun) \in {t, LatchTxFault(s), PrimeProgress(s)}
      \/ (s.open /\ s.running /\ OnTxPrimeTick(s, overrun) = StartWriter(s, overrun))
  BY DEF OnTxPrimeTick, t
<1>7. Seen(PrimeProgress(s), air) \in {p, Port!State(p)} /\ Feeds(PrimeProgress(s))
  BY SeenProgress
<1> QED BY <1>1, <1>3, <1>4, <1>5, <1>6, <1>7

\* The prime latch stands exactly while the writer runs.
LEMMA PrimedIsWriter ==
    ASSUME NEW s \in Session, SInv(s) PROVE s.iqPrimed = s.writer
BY DEF Session, SInv, Base

\* No start is due: no session, a fault, or a transport that already runs.
Blocked(s) == ~s.open \/ ~s.running \/ s.faultLatched \/ s.pump \/ s.writer

\* The four ways a start of the port may end.
LEMMA StartCases ==
    ASSUME NEW s \in Session, NEW air
    PROVE  LET p == Seen(s, air) IN
           Port!Start(p) = IF Blocked(s) THEN {p}
                           ELSE {Port!State(p), Port!Latch(Port!CadenceFault(Port!State(p))),
                                 With(Port!State(p), "stage", "priming"),
                                 Port!State(With(Port!State(p), "stage", "priming"))}
<1> DEFINE p == Seen(s, air)
<1>1. (~p.open \/ ~p.running \/ p.fault \/ p.stage # "off") <=> Blocked(s)
  BY SeenFields DEF Blocked, Stage
<1> HIDE DEF p
<1>2. Port!Start(p) = IF Blocked(s) THEN {p}
                      ELSE {Port!State(p), Port!Latch(Port!CadenceFault(Port!State(p))),
                            With(Port!State(p), "stage", "priming"),
                            Port!State(With(Port!State(p), "stage", "priming"))}
  BY <1>1, Zenon DEF Port!Start, With
<1> QED BY <1>2 DEF p

\* A pump that has seeded its first block.
Fed(s) == [s EXCEPT !.channel = TRUE, !.pump = TRUE, !.primeTimer = TRUE]

\* A pump that has seeded its block is a stream that is priming.
LEMMA SeenPriming ==
    ASSUME NEW s \in Session, ~Blocked(s), s.iqPrimed = s.writer, NEW air
    PROVE  /\ Fed(s) \in Session
           /\ Seen(Fed(s), air) = With(Seen(s, air), "stage", "priming")
           /\ Feeds(Fed(s)) /\ Fed(s).iqPrimed = Fed(s).writer
           /\ ~s.overflowed /\ ~s.filled =>
                 OnTxPrimeTick(Fed(s), FALSE) = PrimeProgress(Fed(s))
<1> DEFINE t == Fed(s)
<1>0. t \in Session
  BY DEF Session, Fed
<1>1. /\ t.open = s.open /\ t.running = s.running /\ t.txIntent = s.txIntent
      /\ t.faultLatched = s.faultLatched /\ t.statusAge = s.statusAge
      /\ t.writer = s.writer /\ t.pump = TRUE /\ t.primeTimer = TRUE
      /\ t.operatorArmed = s.operatorArmed /\ t.restarts = s.restarts
      /\ t.signals = s.signals /\ t.filled = s.filled /\ t.overflowed = s.overflowed
      /\ t.iqPrimed = s.iqPrimed
  BY DEF Session, Fed
<1> HIDE DEF t
<1>2. Stage(t) = "priming" /\ Fresh(t) = Fresh(s) /\ Keyed(t) = Keyed(s)
  BY <1>1 DEF Stage, Fresh, Keyed, Blocked
<1>3. Seen(t, air) = With(Seen(s, air), "stage", "priming")
  BY <1>1, <1>2, SeenWith DEF Seen
<1>4. Feeds(t)
  BY <1>1 DEF Feeds, Blocked
<1>5. ~s.overflowed /\ ~s.filled => OnTxPrimeTick(t, FALSE) = PrimeProgress(t)
  BY <1>1 DEF OnTxPrimeTick, Blocked
<1> QED BY <1>0, <1>1, <1>3, <1>4, <1>5 DEF t

\* startTxTransportRxState is the port's start, for every producer.
LEMMA SeenStart ==
    ASSUME NEW s \in Session, SInv(s), Feeds(s), NEW air
    PROVE  /\ Seen(StartTxTransport(s), air) \in Port!Start(Seen(s, air))
           /\ Feeds(StartTxTransport(s))
<1> DEFINE d == [s EXCEPT !.filled = FALSE, !.overflowed = FALSE, !.iqPrimed = FALSE]
           r == EmitTxState(d)
           t == Fed(r)
           p == Seen(s, air)
<1>1. CASE Blocked(s)
  <2>1. StartTxTransport(s) = s
    BY <1>1 DEF StartTxTransport, Blocked
  <2>2. Port!Start(p) = {p}
    BY <1>1, StartCases
  <2> QED BY <2>1, <2>2
<1>2. CASE ~Blocked(s)
  <2>1. d \in Session
    BY DEF Session
  <2>2. /\ d.open = s.open /\ d.running = s.running /\ d.txIntent = s.txIntent
        /\ d.faultLatched = s.faultLatched /\ d.statusAge = s.statusAge
        /\ d.writer = s.writer /\ d.pump = s.pump /\ d.primeTimer = s.primeTimer
        /\ d.operatorArmed = s.operatorArmed /\ d.restarts = s.restarts
        /\ d.signals = s.signals /\ d.filled = FALSE /\ d.overflowed = FALSE
        /\ d.iqPrimed = FALSE
    BY DEF Session
  <2>3. d.writer = FALSE
    BY <1>2, <2>2 DEF Blocked, Session
  <2> HIDE DEF d
  <2>4. Stage(d) = Stage(s) /\ Fresh(d) = Fresh(s) /\ Keyed(d) = Keyed(s)
    BY <2>2 DEF Stage, Fresh, Keyed
  <2>5. Seen(d, air) = p
    BY <2>2, <2>4 DEF Seen
  <2>6. d.iqPrimed = d.writer
    BY <2>2, <2>3
  <2>7. /\ Seen(r, air) = Port!State(p) /\ r \in Session
        /\ SameFlags(d, r)
    BY <2>1, <2>5, <2>6, SeenState
  <2>8. /\ Seen(EmitTxState(s), air) = Port!State(p)
        /\ SameFlags(s, EmitTxState(s))
    BY PrimedIsWriter, SeenState
  <2>9. Feeds(EmitTxState(s))
    BY <2>8 DEF Feeds, SameFlags
  <2> HIDE DEF r
  <2>10. /\ Seen(LatchTxFault(CadenceFault(r)), air)
               = Port!Latch(Port!CadenceFault(Port!State(p)))
         /\ Feeds(LatchTxFault(CadenceFault(r)))
    BY <2>7, SeenCadence, SeenLatch, ColdFeeds
  <2>11. ~Blocked(r) /\ ~r.overflowed /\ ~r.filled /\ r.iqPrimed = r.writer
    BY <1>2, <2>2, <2>6, <2>7 DEF Blocked, SameFlags
  <2> DEFINE q == With(Port!State(p), "stage", "priming")
             g == PrimeProgress(t)
  <2>12. /\ t \in Session /\ Seen(t, air) = q /\ t.iqPrimed = t.writer
         /\ Feeds(t) /\ OnTxPrimeTick(t, FALSE) = g
    BY <2>7, <2>11, SeenPriming
  <2>13. StartTxTransport(s) \in {EmitTxState(s), LatchTxFault(CadenceFault(r)), g}
    <3> HIDE DEF g
    <3> QED BY <1>2, <2>12 DEF StartTxTransport, Blocked, Fed, r, d
  <2>14. Port!Start(p) = {Port!State(p), Port!Latch(Port!CadenceFault(Port!State(p))),
                          q, Port!State(q)}
    BY <1>2, StartCases
  <2> HIDE DEF t, q
  <2>15. Seen(g, air) \in {q, Port!State(q)} /\ Feeds(g)
    BY <2>12, SeenProgress
  <2> HIDE DEF g
  <2> QED BY <2>8, <2>9, <2>10, <2>13, <2>14, <2>15
<1> QED BY <1>1, <1>2

\* One deferred re-prime is taken up.
Taken(s) == [s EXCEPT !.restarts = @ - 1]

\* Taking up a re-prime is seen as one less due.
LEMMA SeenTaken ==
    ASSUME NEW s \in Session, SInv(s), Feeds(s), s.restarts > 0, NEW air
    PROVE  /\ Taken(s) \in Session /\ SInv(Taken(s)) /\ Feeds(Taken(s))
           /\ Seen(Taken(s), air) = With(Seen(s, air), "due", s.restarts - 1)
           /\ SameFlags(s, [Taken(s) EXCEPT !.restarts = s.restarts])
<1> DEFINE n == s.restarts - 1
           t == [s EXCEPT !.restarts = n]
<1>1. n \in Nat
  BY DEF Session
<1>2. Taken(s) = t
  BY DEF Taken
<1> HIDE DEF n
<1>3. t \in Session
  BY <1>1 DEF Session
<1>4. /\ t.open = s.open /\ t.running = s.running /\ t.txIntent = s.txIntent
      /\ t.faultLatched = s.faultLatched /\ t.statusAge = s.statusAge
      /\ t.writer = s.writer /\ t.pump = s.pump /\ t.primeTimer = s.primeTimer
      /\ t.operatorArmed = s.operatorArmed /\ t.restarts = n
      /\ t.signals = s.signals
  BY DEF Session
<1>5. SInv(t)
  BY DEF SInv, Base, HpAuthorised, PaAuthorised, Session
<1>6. SameFlags(s, [t EXCEPT !.restarts = s.restarts])
  BY DEF SameFlags, Session
<1> HIDE DEF t
<1>7. Stage(t) = Stage(s) /\ Fresh(t) = Fresh(s) /\ Keyed(t) = Keyed(s)
  BY <1>4 DEF Stage, Fresh, Keyed
<1>8. Seen(t, air) = With(Seen(s, air), "due", n)
  BY <1>4, <1>7, SeenWith DEF Seen
<1>9. Feeds(t)
  BY <1>4 DEF Feeds
<1> QED BY <1>2, <1>3, <1>5, <1>6, <1>8, <1>9 DEF n

\* The transport stopped and its fault forgotten.
Recovered(s) == [StopTxTransport(s) EXCEPT !.faultLatched = FALSE]

\* Stopping the transport and forgetting the fault are seen as just that.
LEMMA SeenRecovered ==
    ASSUME NEW s \in Session, NEW air
    PROVE  /\ Recovered(s) \in Session /\ Cold(Recovered(s))
           /\ SInv(s) /\ s.txIntent = "none" => SInv(Recovered(s))
           /\ Seen(Recovered(s), air)
                = With(With(Seen(s, air), "stage", "off"), "fault", No)
<1> DEFINE t == Recovered(s)
<1>1. t \in Session
  BY DEF Recovered, StopTxTransport, Session
<1>2. /\ t.open = s.open /\ t.running = s.running /\ t.txIntent = s.txIntent
      /\ t.faultLatched = FALSE /\ t.statusAge = s.statusAge
      /\ t.writer = FALSE /\ t.pump = FALSE /\ t.primeTimer = FALSE
      /\ t.operatorArmed = s.operatorArmed /\ t.restarts = s.restarts
      /\ t.signals = s.signals /\ t.iqPrimed = FALSE
  BY DEF Recovered, StopTxTransport, Session
<1>3. SInv(s) /\ s.txIntent = "none" => SInv(t)
  BY DEF Recovered, StopTxTransport, SInv, Base, HpAuthorised, PaAuthorised, Session
<1> HIDE DEF t
<1>4. /\ Stage(t) = "off" /\ Fresh(t) = Fresh(s) /\ Keyed(t) = Keyed(s)
      /\ t.faultLatched = No
  BY <1>2 DEF Stage, Fresh, Keyed, No
<1>5. Seen(t, air) = Rec(s.open, s.running, Fresh(s), Keyed(s), s.operatorArmed,
                        No, "off", s.restarts, air, s.signals)
  BY <1>2, <1>4 DEF Seen
<1>6. With(Seen(s, air), "stage", "off")
        = Rec(s.open, s.running, Fresh(s), Keyed(s), s.operatorArmed,
              s.faultLatched, "off", s.restarts, air, s.signals)
  BY SeenWith
<1>7. Seen(t, air) = With(With(Seen(s, air), "stage", "off"), "fault", No)
  BY <1>5, <1>6, RecWith
<1>8. Cold(t)
  BY <1>2 DEF Cold
<1> QED BY <1>1, <1>3, <1>7, <1>8 DEF t

\* restartTxTransportRxState is the port's restart.
LEMMA SeenRestart ==
    ASSUME NEW s \in Session, SInv(s), Feeds(s), s.restarts > 0, NEW air
    PROVE  /\ Seen(RestartTxTransport(Taken(s)), air) \in Port!Restart(Seen(s, air))
           /\ Feeds(RestartTxTransport(Taken(s)))
<1> DEFINE d == Taken(s)
           t == Recovered(d)
           p == Seen(s, air)
           q == With(p, "due", p.due - 1)
           c == With(With(q, "stage", "off"), "fault", No)
<1>1. /\ d \in Session /\ SInv(d) /\ Feeds(d) /\ Seen(d, air) = q
      /\ p.due # 0
  <2>1. p.due = s.restarts /\ s.restarts # 0
    BY SeenFields DEF Session
  <2> HIDE DEF p
  <2> QED BY <2>1, SeenTaken DEF p
<1>2. (~p.open \/ ~p.running \/ p.intent) <=> ~d.open \/ ~d.running \/ d.txIntent # "none"
  <2>1. d.open = s.open /\ d.running = s.running /\ d.txIntent = s.txIntent
    BY DEF Taken, Session
  <2> QED BY <2>1, SeenFields DEF Keyed
<1>3. Port!Restart(p) = IF ~d.open \/ ~d.running \/ d.txIntent # "none" THEN {q}
                        ELSE {Port!State(u) : u \in Port!Start(c)}
  <2> HIDE DEF p, d
  <2>1. q.open = p.open /\ q.running = p.running /\ q.intent = p.intent
    BY DEF With
  <2>2. [p EXCEPT !.due = @ - 1] = q
    BY Zenon DEF With
  <2>3. [q EXCEPT !.stage = "off", !.fault = FALSE] = c
    BY Zenon DEF With, No
  <2> HIDE DEF q, c
  <2> QED BY <1>1, <1>2, <2>1, <2>2, <2>3, Zenon DEF Port!Restart
<1> HIDE DEF d
<1>4. CASE ~d.open \/ ~d.running \/ d.txIntent # "none"
  <2>1. RestartTxTransport(d) = d
    BY <1>4 DEF RestartTxTransport
  <2> HIDE DEF p, q, c
  <2>2. Seen(RestartTxTransport(d), air) \in Port!Restart(p)
    BY <1>1, <1>3, <1>4, <2>1
  <2> QED BY <1>1, <2>1, <2>2 DEF d, p
<1>5. CASE ~(~d.open \/ ~d.running \/ d.txIntent # "none")
  <2>1. /\ t \in Session /\ SInv(t) /\ Feeds(t)
        /\ Seen(t, air) = With(With(Seen(d, air), "stage", "off"), "fault", No)
    BY <1>1, <1>5, SeenRecovered, ColdFeeds
  <2> HIDE DEF t
  <2>7. /\ Seen(StartTxTransport(t), air) \in Port!Start(c)
        /\ Feeds(StartTxTransport(t))
        /\ StartTxTransport(t) \in Session /\ SInv(StartTxTransport(t))
    BY <1>1, <2>1, SeenStart, StartInv
  <2> DEFINE v == StartTxTransport(t)
  <2> HIDE DEF v
  <2>8. /\ Seen(EmitTxState(v), air) = Port!State(Seen(v, air))
        /\ SameFlags(v, EmitTxState(v))
    BY <2>7, PrimedIsWriter, SeenState DEF v
  <2>9. Feeds(EmitTxState(v))
    BY <2>7, <2>8 DEF Feeds, SameFlags, v
  <2>10. RestartTxTransport(d) = EmitTxState(v)
    BY <1>5 DEF RestartTxTransport, Recovered, v, t
  <2> HIDE DEF p, c, q
  <2>11. Seen(RestartTxTransport(d), air) \in Port!Restart(p)
    BY <1>3, <1>5, <2>7, <2>8, <2>10 DEF v
  <2> QED BY <2>9, <2>10, <2>11 DEF d, p
<1> QED BY <1>4, <1>5

-----------------------------------------------------------------------------
(* The connection.                                                         *)

\* What closing leaves of a port record.
LEMMA ClosedRec ==
    ASSUME NEW o, NEW r, NEW f, NEW i, NEW a, NEW x, NEW g, NEW d, NEW air, NEW q
    PROVE  Port!Closed(Rec(o, r, f, i, a, x, g, d, air, q))
              = Rec(o, r, f, No, No, No, "off", d, air, q)
<1>1. ASSUME NEW t
      PROVE  Port!Closed(t) = With(With(With(With(t, "intent", No), "armed", No),
                                        "fault", No), "stage", "off")
  BY Zenon DEF Port!Closed, With, No
<1> QED BY <1>1, RecWith

\* The transport stopped, intent and gate cleared.
Shut(s) == FailClosed(StopTxTransport(s))

\* Stopping the transport and failing closed is what the port calls closed.
LEMMA SeenShut ==
    ASSUME NEW s \in Session, NEW air
    PROVE  /\ Shut(s) \in Session /\ Cold(Shut(s)) /\ Shut(s).iqPrimed = Shut(s).writer
           /\ Shut(s).open = s.open /\ Shut(s).running = s.running
           /\ Seen(Shut(s), air) = Port!Closed(Seen(s, air))
<1> DEFINE t == Shut(s)
<1>1. t \in Session
  BY StopType, FailClosedType DEF Shut
<1>2. /\ t.open = s.open /\ t.running = s.running /\ t.txIntent = "none"
      /\ t.faultLatched = FALSE /\ t.statusAge = s.statusAge
      /\ t.writer = FALSE /\ t.pump = FALSE /\ t.primeTimer = FALSE
      /\ t.operatorArmed = FALSE /\ t.restarts = s.restarts
      /\ t.signals = s.signals /\ t.iqPrimed = FALSE
  BY DEF Shut, FailClosed, StopTxTransport, Session
<1> HIDE DEF t
<1>3. /\ Stage(t) = "off" /\ Fresh(t) = Fresh(s) /\ Keyed(t) = No
      /\ t.faultLatched = No /\ t.operatorArmed = No
  BY <1>2 DEF Stage, Fresh, Keyed, No
<1>4. Seen(t, air) = Rec(s.open, s.running, Fresh(s), No, No, No, "off",
                        s.restarts, air, s.signals)
  BY <1>2, <1>3 DEF Seen
<1>5. Seen(t, air) = Port!Closed(Seen(s, air))
  BY <1>4, ClosedRec DEF Seen
<1>6. Cold(t) /\ t.iqPrimed = t.writer
  BY <1>2 DEF Cold
<1> QED BY <1>1, <1>2, <1>5, <1>6 DEF t

\* The session is gone; the last packets are out.
Ended(s) == [s EXCEPT !.open = FALSE, !.running = FALSE]

\* Clearing open and running is seen as just that.
LEMMA SeenEnded ==
    ASSUME NEW s \in Session, NEW air
    PROVE  /\ Ended(s) \in Session
           /\ Seen(Ended(s), air) = With(With(Seen(s, air), "open", No), "running", No)
           /\ Cold(s) => Cold(Ended(s))
<1> DEFINE t == Ended(s)
<1>1. t \in Session
  BY DEF Ended, Session
<1>2. /\ t.open = FALSE /\ t.running = FALSE /\ t.txIntent = s.txIntent
      /\ t.faultLatched = s.faultLatched /\ t.statusAge = s.statusAge
      /\ t.writer = s.writer /\ t.pump = s.pump /\ t.primeTimer = s.primeTimer
      /\ t.operatorArmed = s.operatorArmed /\ t.restarts = s.restarts
      /\ t.signals = s.signals /\ t.iqPrimed = s.iqPrimed
  BY DEF Ended, Session
<1> HIDE DEF t
<1>3. /\ Stage(t) = Stage(s) /\ Fresh(t) = Fresh(s) /\ Keyed(t) = Keyed(s)
      /\ t.open = No /\ t.running = No
  BY <1>2 DEF Stage, Fresh, Keyed, No
<1>4. Seen(t, air) = Rec(No, No, Fresh(s), Keyed(s), s.operatorArmed, s.faultLatched,
                        Stage(s), s.restarts, air, s.signals)
  BY <1>2, <1>3 DEF Seen
<1>5. Seen(t, air) = With(With(Seen(s, air), "open", No), "running", No)
  BY <1>4, RecWith DEF Seen
<1>6. Cold(s) => Cold(t)
  BY <1>2 DEF Cold
<1> QED BY <1>1, <1>5, <1>6 DEF t

\* The signals started and stopped are the port's.
LEMMA SeenEmit ==
    ASSUME NEW s \in Session, NEW k \in {"started", "stopped"}, NEW air
    PROVE  /\ Emit(s, k) \in Session
           /\ Seen(Emit(s, k), air) = Port!Emit(Seen(s, air), [kind |-> k])
           /\ Cold(s) => Cold(Emit(s, k))
           /\ SameFlags(s, Emit(s, k))
<1> DEFINE m == [kind |-> k]
           q == Append(s.signals, m)
           t == [s EXCEPT !.signals = q]
<1>1. Emit(s, k) = t
  BY DEF Emit
<1>2. Emit(s, k) \in Session
  BY EmitType
<1>3. Port!Emit(Seen(s, air), m) = With(Seen(s, air), "signals", q)
  <2> DEFINE p == Seen(s, air)
  <2>1. p.signals = s.signals
    BY SeenFields
  <2> HIDE DEF p, m
  <2>2. Port!Emit(p, m) = With(p, "signals", q)
    BY <2>1, Zenon DEF Port!Emit, With
  <2> QED BY <2>2 DEF p
<1> HIDE DEF q, m
<1>4. /\ t.open = s.open /\ t.running = s.running /\ t.txIntent = s.txIntent
      /\ t.faultLatched = s.faultLatched /\ t.statusAge = s.statusAge
      /\ t.writer = s.writer /\ t.pump = s.pump /\ t.primeTimer = s.primeTimer
      /\ t.operatorArmed = s.operatorArmed /\ t.restarts = s.restarts
      /\ t.signals = q /\ t.iqPrimed = s.iqPrimed
      /\ t.filled = s.filled /\ t.overflowed = s.overflowed
  BY DEF Session
<1> HIDE DEF t
<1>5. Stage(t) = Stage(s) /\ Fresh(t) = Fresh(s) /\ Keyed(t) = Keyed(s)
  BY <1>4 DEF Stage, Fresh, Keyed
<1>6. Seen(t, air) = With(Seen(s, air), "signals", q)
  BY <1>4, <1>5, SeenWith DEF Seen
<1>7. SameFlags(s, t) /\ (Cold(s) => Cold(t))
  BY <1>4 DEF SameFlags, Cold
<1> QED BY <1>1, <1>2, <1>3, <1>6, <1>7 DEF m

\* close() is the port's close.
LEMMA SeenClose ==
    ASSUME NEW s \in Session, SInv(s), Feeds(s), NEW air
    PROVE  /\ Seen(CloseSession(s), air) = Port!Close(Seen(s, air))
           /\ Feeds(CloseSession(s))
<1> DEFINE n == s.openEpoch + 1
           e == [s EXCEPT !.openEpoch = n, !.hpTimer = FALSE]
           r == EmitTxState(Shut(e))
           g == SendGeneral(SendHp(r, FALSE))
           p == Seen(s, air)
<1>1. Port!Close(p) =
        IF ~s.open THEN p
        ELSE Port!Emit(With(With(Port!State(Port!Closed(p)), "open", No), "running", No),
                       [kind |-> "stopped"])
  <2>1. p.open = s.open
    BY SeenFields
  <2> HIDE DEF p
  <2> QED BY <2>1, Zenon DEF Port!Close, With, No
<1>2. CASE ~s.open
  BY <1>1, <1>2 DEF CloseSession
<1>3. CASE s.open
  <2>1. e \in Session
    <3>1. n \in Nat
      BY DEF Session
    <3> HIDE DEF n
    <3> QED BY <3>1 DEF Session
  <2>2. Kept(s, e)
    BY DEF Kept, Session
  <2>3. CloseSession(s) = Emit(Ended(g), "stopped")
    <3>1. [StopTxTransport(s) EXCEPT !.openEpoch = @ + 1, !.hpTimer = FALSE]
             = StopTxTransport(e)
      BY DEF StopTxTransport, Session
    <3> HIDE DEF e
    <3> QED BY <1>3, <3>1 DEF CloseSession, Ended, Shut
  <2> HIDE DEF e
  <2>4. Seen(e, air) = p
    BY <2>2, KeptIsUnseen
  <2>5. /\ Shut(e) \in Session /\ Cold(Shut(e)) /\ Shut(e).iqPrimed = Shut(e).writer
        /\ Seen(Shut(e), air) = Port!Closed(p)
    BY <2>1, <2>4, SeenShut
  <2>6. /\ r \in Session /\ Seen(r, air) = Port!State(Port!Closed(p))
        /\ SameFlags(Shut(e), r)
    BY <2>5, SeenState
  <2>7. Cold(r)
    BY <2>5, <2>6 DEF Cold, SameFlags
  <2> HIDE DEF r
  <2>8. g \in Session /\ Kept(r, g)
    BY <2>6, PacketsKeep, KeptTwice
  <2> HIDE DEF g
  <2>9. Seen(g, air) = Port!State(Port!Closed(p)) /\ Cold(g)
    BY <2>6, <2>7, <2>8, KeptIsUnseen DEF Cold
  <2>10. /\ Ended(g) \in Session /\ Cold(Ended(g))
         /\ Seen(Ended(g), air)
              = With(With(Port!State(Port!Closed(p)), "open", No), "running", No)
    BY <2>8, <2>9, SeenEnded
  <2>11. /\ Seen(Emit(Ended(g), "stopped"), air)
              = Port!Emit(Seen(Ended(g), air), [kind |-> "stopped"])
         /\ Cold(Emit(Ended(g), "stopped"))
    BY <2>10, SeenEmit
  <2> QED BY <1>1, <1>3, <2>3, <2>10, <2>11, ColdFeeds
<1> QED BY <1>2, <1>3

\* A new session behind a closed one, before its first packets.
Fresher(s) ==
    FailClosed([StopTxTransport(s) EXCEPT !.open = TRUE, !.running = FALSE,
                                          !.statusAge = "none"])

\* The state open() starts from, as the port sees it.
LEMMA SeenFresher ==
    ASSUME NEW s \in Session, NEW air
    PROVE  /\ Fresher(s) \in Session /\ Cold(Fresher(s))
           /\ Fresher(s).iqPrimed = Fresher(s).writer
           /\ Seen(Fresher(s), air)
                = With(With(With(Port!Closed(Seen(s, air)), "open", Yes),
                            "running", No), "fresh", No)
<1> DEFINE t == Fresher(s)
<1>1. t \in Session
  <2> DEFINE q == StopTxTransport(s)
  <2>1. q \in Session /\ "none" \in Age
    BY StopType DEF Age
  <2> HIDE DEF q
  <2>2. [q EXCEPT !.open = TRUE, !.running = FALSE, !.statusAge = "none"] \in Session
    BY <2>1 DEF Session
  <2> QED BY <2>2, FailClosedType DEF Fresher, q
<1>2. /\ t.open = TRUE /\ t.running = FALSE /\ t.txIntent = "none"
      /\ t.faultLatched = FALSE /\ t.statusAge = "none"
      /\ t.writer = FALSE /\ t.pump = FALSE /\ t.primeTimer = FALSE
      /\ t.operatorArmed = FALSE /\ t.restarts = s.restarts
      /\ t.signals = s.signals /\ t.iqPrimed = FALSE
  BY DEF Fresher, FailClosed, StopTxTransport, Session
<1> HIDE DEF t
<1>3. /\ Stage(t) = "off" /\ Fresh(t) = No /\ Keyed(t) = No
      /\ t.faultLatched = No /\ t.operatorArmed = No
      /\ t.open = Yes /\ t.running = No
  BY <1>2 DEF Stage, Fresh, Keyed, No, Yes
<1>4. Seen(t, air) = Rec(Yes, No, No, No, No, No, "off", s.restarts, air, s.signals)
  BY <1>2, <1>3 DEF Seen
<1>5. Port!Closed(Seen(s, air)) = Rec(s.open, s.running, Fresh(s), No, No, No, "off",
                                     s.restarts, air, s.signals)
  BY ClosedRec DEF Seen
<1>6. Seen(t, air) = With(With(With(Port!Closed(Seen(s, air)), "open", Yes),
                               "running", No), "fresh", No)
  BY <1>4, <1>5, RecWith
<1>7. Cold(t) /\ t.iqPrimed = t.writer
  BY <1>2 DEF Cold
<1> QED BY <1>1, <1>6, <1>7 DEF t

\* open() is the port's open, also over a live session and when bind fails.
LEMMA SeenOpen ==
    ASSUME NEW s \in Session, SInv(s), Feeds(s), NEW bound \in BOOLEAN, NEW air
    PROVE  /\ Seen(OpenSession(s, bound), air) \in Port!Open(Seen(s, air))
           /\ Feeds(OpenSession(s, bound))
<1> DEFINE c == CloseSession(s)
           r == EmitTxState(Fresher(c))
           g == SendHp(SendGeneral(r), FALSE)
           t == [g EXCEPT !.openEpoch = @ + 1, !.handshakes = @ \union {r.openEpoch + 1}]
           p == Seen(s, air)
           v == With(With(With(Port!Closed(Port!Close(p)), "open", Yes),
                          "running", No), "fresh", No)
<1>1. Port!Open(p) = {Port!Close(p), Port!State(v)}
  BY Zenon DEF Port!Open, With, Yes, No
<1>2. OpenSession(s, bound) = IF ~bound THEN c ELSE t
  BY DEF OpenSession, Fresher
<1>3. c \in Session /\ Seen(c, air) = Port!Close(p) /\ Feeds(c)
  BY CloseInv, SeenClose
<1> HIDE DEF c
<1>4. /\ Fresher(c) \in Session /\ Cold(Fresher(c))
      /\ Fresher(c).iqPrimed = Fresher(c).writer
      /\ Seen(Fresher(c), air) = v
  BY <1>3, SeenFresher
<1> HIDE DEF v
<1>5. r \in Session /\ Seen(r, air) = Port!State(v) /\ SameFlags(Fresher(c), r)
  BY <1>4, SeenState
<1>6. Cold(r)
  BY <1>4, <1>5 DEF Cold, SameFlags
<1> HIDE DEF r
<1>7. g \in Session /\ Kept(r, g)
  BY <1>5, PacketsKeep, KeptTwice
<1> HIDE DEF g
<1>8. Kept(g, t)
  BY <1>7 DEF Kept, Session
<1> HIDE DEF t
<1>9. Kept(r, t)
  BY <1>7, <1>8, KeptTwice
<1>10. Seen(t, air) = Port!State(v) /\ Feeds(t)
  BY <1>5, <1>6, <1>9, KeptIsUnseen DEF Cold, Feeds
<1> HIDE DEF p
<1> QED BY <1>1, <1>2, <1>3, <1>10 DEF p

-----------------------------------------------------------------------------
(* The cadence, the status packets and the calls of the bridge.            *)

\* A method that shows the port nothing keeps the feeding order.
LEMMA KeptFeeds ==
    ASSUME NEW s, NEW t, Kept(s, t), Feeds(s) PROVE Feeds(t)
BY KeptIsUnseen DEF Feeds

\* A key held over a status that is not fresh, with no fault latched yet.
Lost(s) == s.open /\ Keyed(s) /\ ~Fresh(s) /\ ~s.faultLatched

\* The port may find a radio silent under a held key.
LEMMA SilenceCases ==
    ASSUME NEW s, Lost(s), NEW air
    PROVE  Port!Latch(Seen(s, air)) \in Port!Silence(Seen(s, air))
<1> DEFINE p == Seen(s, air)
<1>1. p.open /\ p.intent /\ ~p.fresh /\ ~p.fault
  BY SeenFields DEF Lost
<1> HIDE DEF p
<1>2. Port!Latch(p) \in Port!Silence(p)
  BY <1>1, Zenon DEF Port!Silence
<1> QED BY <1>2 DEF p

\* onHpTick shows nothing, or the port's silence.
LEMMA SeenHpTick ==
    ASSUME NEW s \in Session, Feeds(s), s.open, NEW air
    PROVE  /\ Seen(OnHpTick(s), air)
                  \in {Seen(s, air)} \cup Port!Silence(Seen(s, air))
           /\ Feeds(OnHpTick(s))
<1> DEFINE lost == s.txIntent # "none" /\ s.statusAge = "stale" /\ ~s.faultLatched
           q == [s EXCEPT !.telemetryHealthy = FALSE]
           t == IF lost THEN LatchTxFault(q) ELSE s
           r == Refreshed(t)
           h == SendHp(r, TRUE)
           n == (h.hpTickCount + 1) % GeneralRefreshTicks
           u == [h EXCEPT !.hpTickCount = n]
           p == Seen(s, air)
<1>1. q \in Session /\ Kept(s, q)
  BY DEF Session, Kept
<1> HIDE DEF q
<1>2. lost => Lost(s)
  BY DEF Lost, Keyed, Fresh
<1>3. /\ Seen(LatchTxFault(q), air) = Port!Latch(p) /\ LatchTxFault(q) \in Session
      /\ Feeds(LatchTxFault(q))
  BY <1>1, SeenLatch, ColdFeeds, KeptIsUnseen
<1>4. t \in Session /\ Feeds(t) /\ Seen(t, air) \in {p} \cup Port!Silence(p)
  BY <1>2, <1>3, SilenceCases
<1> HIDE DEF t, p
<1>5. r \in Session /\ Kept(t, r)
  BY <1>4, PacketsKeep
<1> HIDE DEF r
<1>6. h \in Session /\ Kept(t, h)
  BY <1>5, PacketsKeep, KeptTwice
<1> HIDE DEF h
<1>7. n \in 0 .. GeneralRefreshTicks - 1
  BY <1>6, RefreshAssumption, TickCount DEF Session
<1> HIDE DEF n
<1>8. u \in Session /\ Kept(h, u)
  BY <1>6, <1>7 DEF Session, Kept
<1> HIDE DEF u
<1>9. Kept(t, u) /\ Kept(t, SendGeneral(u))
  BY <1>6, <1>8, PacketsKeep, KeptTwice
<1>10. OnHpTick(s) \in {u, SendGeneral(u)}
  BY DEF OnHpTick, u, n, h, r, t, q
<1>11. Kept(t, OnHpTick(s))
  BY <1>9, <1>10
<1>12. Seen(OnHpTick(s), air) = Seen(t, air) /\ Feeds(OnHpTick(s))
  BY <1>4, <1>11, KeptIsUnseen, KeptFeeds
<1> QED BY <1>4, <1>12 DEF p

\* A status packet arrived, on a session that may not have been running.
Heard(s) == [s EXCEPT !.statusAge = "fresh", !.telemetryHealthy = TRUE]
Begun(s) == [Heard(s) EXCEPT !.running = TRUE]

\* A status packet as the port sees it: fresh, and running.
LEMMA SeenAnswered ==
    ASSUME NEW s, NEW air
    PROVE  With(With(Seen(s, air), "fresh", Yes), "running", Yes)
              = Rec(s.open, Yes, Yes, Keyed(s), s.operatorArmed, s.faultLatched,
                    Stage(s), s.restarts, air, s.signals)
BY RecWith DEF Seen

\* The flags a status packet writes, and what the port sees of them.
LEMMA SeenHeard ==
    ASSUME NEW s \in Session, SInv(s), s.open, NEW air
    PROVE  /\ Heard(s) \in Session /\ Begun(s) \in Session /\ SInv(Begun(s))
           /\ s.running => Heard(s) = Begun(s)
           /\ Feeds(s) => Feeds(Begun(s))
           /\ Seen(Begun(s), air) = With(With(Seen(s, air), "fresh", Yes), "running", Yes)
<1> DEFINE r == Heard(s)
           t == [r EXCEPT !.running = TRUE]
<1>1. "fresh" \in Age
  BY DEF Age
<1>2. r \in Session
  BY <1>1 DEF Session, Heard
<1>3. SInv(r) /\ r.open
  BY DEF Heard, Session, SInv, Base, HpAuthorised, PaAuthorised
<1>4. /\ r.open = s.open /\ r.running = s.running /\ r.txIntent = s.txIntent
      /\ r.faultLatched = s.faultLatched /\ r.statusAge = "fresh"
      /\ r.writer = s.writer /\ r.pump = s.pump /\ r.primeTimer = s.primeTimer
      /\ r.operatorArmed = s.operatorArmed /\ r.restarts = s.restarts
      /\ r.signals = s.signals
  BY DEF Session, Heard
<1> HIDE DEF r
<1>5. t \in Session /\ SInv(t)
  BY <1>2, <1>3 DEF Session, SInv, Base, HpAuthorised, PaAuthorised
<1>6. s.running => r = t
  BY <1>2, <1>4 DEF Session
<1>7. /\ t.open = s.open /\ t.running = TRUE /\ t.txIntent = s.txIntent
      /\ t.faultLatched = s.faultLatched /\ t.statusAge = "fresh"
      /\ t.writer = s.writer /\ t.pump = s.pump /\ t.primeTimer = s.primeTimer
      /\ t.operatorArmed = s.operatorArmed /\ t.restarts = s.restarts
      /\ t.signals = s.signals
  BY <1>2, <1>4 DEF Session
<1> HIDE DEF t
<1>8. /\ Stage(t) = Stage(s) /\ Fresh(t) = Yes /\ Keyed(t) = Keyed(s)
      /\ t.running = Yes
  BY <1>7 DEF Stage, Fresh, Keyed, Yes
<1>9. Feeds(s) => Feeds(t)
  BY <1>7 DEF Feeds
<1>10. Seen(t, air) = Rec(s.open, Yes, Yes, Keyed(s), s.operatorArmed, s.faultLatched,
                         Stage(s), s.restarts, air, s.signals)
  BY <1>7, <1>8 DEF Seen
<1>11. Seen(t, air) = With(With(Seen(s, air), "fresh", Yes), "running", Yes)
  BY <1>10, SeenAnswered
<1> QED BY <1>2, <1>5, <1>6, <1>9, <1>11 DEF Begun, r, t

\* The streams a status packet may find or start.
Answers(s, air) ==
    IF s.running THEN {Seen(Begun(s), air)}
    ELSE Port!Start(Seen(Emit(Begun(s), "started"), air))

\* The port's answer, in terms of the streams a status packet may find.
LEMMA AnswerCases ==
    ASSUME NEW s \in Session, SInv(s), s.open, NEW air
    PROVE  Port!Answer(Seen(s, air)) =
              Answers(s, air)
                \union {Port!Latch(t) : t \in {u \in Answers(s, air) : u.stage = "live"}}
<1> DEFINE p == Seen(s, air)
           v == With(With(p, "fresh", Yes), "running", Yes)
           up == IF p.running THEN {v} ELSE Port!Start(Port!Emit(v, [kind |-> "started"]))
<1>1. /\ Begun(s) \in Session
      /\ Seen(Begun(s), air) = v
  BY SeenHeard
<1>2. Seen(Emit(Begun(s), "started"), air) = Port!Emit(v, [kind |-> "started"])
  BY <1>1, SeenEmit
<1>3. p.open = s.open /\ p.running = s.running
  BY SeenFields
<1> HIDE DEF p
<1>4. Answers(s, air) = up
  <2> HIDE DEF v
  <2> QED BY <1>1, <1>2, <1>3 DEF Answers
<1>5. Port!Answer(p) = IF ~p.open THEN {}
                       ELSE up \union {Port!Latch(t) : t \in {u \in up : u.stage = "live"}}
  BY Zenon DEF Port!Answer, With, Yes
<1> HIDE DEF up
<1>6. Port!Answer(p) = up \union {Port!Latch(t) : t \in {u \in up : u.stage = "live"}}
  BY <1>3, <1>5
<1> QED BY <1>4, <1>6, Zenon DEF p

\* parseStatus is the port's answer: first, repeated or reporting a dry TX FIFO.
LEMMA SeenStatus ==
    ASSUME NEW s \in Session, SInv(s), Feeds(s), s.open, NEW dry \in BOOLEAN, NEW air
    PROVE  /\ Seen(ParseStatus(s, dry), air) \in Port!Answer(Seen(s, air))
           /\ Feeds(ParseStatus(s, dry))
<1> DEFINE v == Begun(s)
           e == Emit(v, "started")
           up == StartTxTransport(e)
           f == IF s.running THEN v ELSE SendHp(SendGeneral(up), TRUE)
<1>1. /\ v \in Session /\ SInv(v) /\ Feeds(v)
      /\ s.running => Heard(s) = v
  BY SeenHeard
<1> HIDE DEF v
<1>2. e \in Session /\ SInv(e) /\ SameFlags(v, e)
  BY <1>1, EmitType, SeenEmit
<1>3. Feeds(e)
  BY <1>1, <1>2 DEF Feeds, SameFlags
<1> HIDE DEF e
<1>4. /\ up \in Session /\ Feeds(up)
      /\ Seen(up, air) \in Port!Start(Seen(e, air))
  BY <1>2, <1>3, StartInv, SeenStart
<1> HIDE DEF up
<1>5. SendGeneral(up) \in Session /\ Kept(up, SendGeneral(up))
  BY <1>4, PacketsKeep
<1>6. /\ SendHp(SendGeneral(up), TRUE) \in Session
      /\ Kept(up, SendHp(SendGeneral(up), TRUE))
  BY <1>5, PacketsKeep, KeptTwice
<1>7. /\ Seen(SendHp(SendGeneral(up), TRUE), air) = Seen(up, air)
      /\ Feeds(SendHp(SendGeneral(up), TRUE))
  BY <1>4, <1>6, KeptIsUnseen, KeptFeeds
<1>8. f \in Session /\ Feeds(f) /\ Seen(f, air) \in Answers(s, air)
  BY <1>1, <1>4, <1>6, <1>7 DEF Answers, e, v
<1>9. ParseStatus(s, dry) = IF f.writer /\ dry THEN LatchTxFault(f) ELSE f
  <2>1. f = IF s.running THEN Heard(s) ELSE SendHp(SendGeneral(up), TRUE)
    BY <1>1
  <2> HIDE DEF f
  <2> QED BY <2>1 DEF ParseStatus, Begun, Heard, v, e, up
<1> HIDE DEF f
<1>10. f.writer => Seen(f, air).stage = "live"
  BY SeenFields DEF Stage
<1>11. Seen(LatchTxFault(f), air) = Port!Latch(Seen(f, air)) /\ Feeds(LatchTxFault(f))
  BY <1>8, SeenLatch, ColdFeeds
<1>12. Seen(ParseStatus(s, dry), air) \in
          Answers(s, air)
            \union {Port!Latch(t) : t \in {u \in Answers(s, air) : u.stage = "live"}}
  BY <1>8, <1>9, <1>10, <1>11
<1> QED BY <1>8, <1>9, <1>11, <1>12, AnswerCases

\* A new key over a status that is not fresh.
Refused(s, intent) == intent # "none" /\ s.txIntent = "none" /\ s.statusAge # "fresh"

\* The intent written, and a re-prime left due by a key up under a fault.
Intended(s, intent, n) == [s EXCEPT !.txIntent = intent, !.restarts = n]

\* What the port sees of an intent written.
LEMMA SeenIntended ==
    ASSUME NEW s \in Session, NEW intent \in Intent, NEW n \in Nat, NEW air
    PROVE  /\ Intended(s, intent, n) \in Session
           /\ Feeds(s) => Feeds(Intended(s, intent, n))
           /\ Intended(s, intent, n).iqPrimed = s.iqPrimed
           /\ Intended(s, intent, n).writer = s.writer
           /\ Seen(Intended(s, intent, n), air)
                = Rec(s.open, s.running, Fresh(s), intent # "none", s.operatorArmed,
                      s.faultLatched, Stage(s), n, air, s.signals)
<1> DEFINE t == Intended(s, intent, n)
<1>1. t \in Session
  BY DEF Session, Intended
<1>2. /\ t.open = s.open /\ t.running = s.running /\ t.txIntent = intent
      /\ t.faultLatched = s.faultLatched /\ t.statusAge = s.statusAge
      /\ t.writer = s.writer /\ t.pump = s.pump /\ t.primeTimer = s.primeTimer
      /\ t.operatorArmed = s.operatorArmed /\ t.restarts = n
      /\ t.signals = s.signals /\ t.iqPrimed = s.iqPrimed
  BY DEF Session, Intended
<1> HIDE DEF t
<1>3. /\ Stage(t) = Stage(s) /\ Fresh(t) = Fresh(s) /\ Keyed(t) = (intent # "none")
  BY <1>2 DEF Stage, Fresh, Keyed
<1>4. Feeds(s) => Feeds(t)
  BY <1>2 DEF Feeds
<1>5. Seen(t, air)
        = Rec(s.open, s.running, Fresh(s), intent # "none", s.operatorArmed,
              s.faultLatched, Stage(s), n, air, s.signals)
  BY <1>2, <1>3 DEF Seen
<1> QED BY <1>1, <1>2, <1>4, <1>5 DEF t

\* The port refuses a new key over an old status, or writes the intent.
LEMMA IntentCases ==
    ASSUME NEW s, NEW on, NEW air
    PROVE  Port!SetIntent(Seen(s, air), on) =
             IF on /\ ~Keyed(s) /\ ~Fresh(s) THEN Port!Latch(Seen(s, air))
             ELSE Port!State(Rec(s.open, s.running, Fresh(s), on, s.operatorArmed,
                                 s.faultLatched, Stage(s),
                                 IF ~on /\ s.faultLatched THEN s.restarts + 1 ELSE s.restarts,
                                 air, s.signals))
<1> DEFINE p == Seen(s, air)
           n == IF ~on /\ s.faultLatched THEN s.restarts + 1 ELSE s.restarts
           m == IF ~on /\ p.fault THEN p.due + 1 ELSE p.due
<1>1. /\ p.intent = Keyed(s) /\ p.fresh = Fresh(s) /\ m = n
  BY SeenFields
<1>2. With(With(p, "intent", on), "due", n)
        = Rec(s.open, s.running, Fresh(s), on, s.operatorArmed,
              s.faultLatched, Stage(s), n, air, s.signals)
  <2> HIDE DEF n
  <2> QED BY RecWith DEF Seen
<1> HIDE DEF p
<1>3. Port!SetIntent(p, on) =
        IF on /\ ~p.intent /\ ~p.fresh THEN Port!Latch(p)
        ELSE Port!State(With(With(p, "intent", on), "due", m))
  <2>1. ASSUME NEW v
        PROVE  [p EXCEPT !.intent = on, !.due = v] = With(With(p, "intent", on), "due", v)
    BY Zenon DEF With
  <2>2. Port!SetIntent(p, on) =
          IF on /\ ~p.intent /\ ~p.fresh THEN Port!Latch(p)
          ELSE Port!State([p EXCEPT !.intent = on, !.due = m])
    BY Zenon DEF Port!SetIntent
  <2> HIDE DEF m
  <2> QED BY <2>1, <2>2, Zenon
<1> HIDE DEF n, m
<1> QED BY <1>1, <1>2, <1>3, Zenon DEF p, n

\* setTransmitIntent is the port's.
LEMMA SeenIntent ==
    ASSUME NEW s \in Session, SInv(s), Feeds(s), NEW intent \in Intent,
           NEW on \in BOOLEAN, on = (intent # "none"), NEW air
    PROVE  /\ Seen(SetTxIntent(s, intent), air) = Port!SetIntent(Seen(s, air), on)
           /\ Feeds(SetTxIntent(s, intent))
<1> DEFINE q == [s EXCEPT !.telemetryHealthy = FALSE]
           n == IF intent = "none" /\ s.faultLatched THEN s.restarts + 1 ELSE s.restarts
           t == Intended(s, intent, n)
           a == ApplyTxControl(t)
           p == Seen(s, air)
<1>1. q \in Session /\ Kept(s, q)
  BY DEF Session, Kept
<1> HIDE DEF q
<1>2. Seen(LatchTxFault(q), air) = Port!Latch(p) /\ Feeds(LatchTxFault(q))
  BY <1>1, SeenLatch, ColdFeeds, KeptIsUnseen
<1>3. n \in Nat
  BY DEF Session
<1>4. /\ t \in Session /\ Feeds(t) /\ t.iqPrimed = t.writer
      /\ Seen(t, air) = Rec(s.open, s.running, Fresh(s), on, s.operatorArmed,
                            s.faultLatched, Stage(s), n, air, s.signals)
  <2> HIDE DEF n
  <2> QED BY <1>3, PrimedIsWriter, SeenIntended
<1>5. SetTxIntent(s, intent) = IF Refused(s, intent) THEN LatchTxFault(q) ELSE EmitTxState(a)
  BY DEF SetTxIntent, Refused, Intended, q
<1> HIDE DEF t
<1>6. a \in Session /\ Kept(t, a)
  BY <1>4, ApplyKeeps
<1> HIDE DEF a
<1>7. Seen(a, air) = Seen(t, air) /\ a.iqPrimed = a.writer /\ Feeds(a)
  BY <1>4, <1>6, KeptIsUnseen, KeptFeeds
<1>8. Seen(EmitTxState(a), air) = Port!State(Seen(t, air)) /\ SameFlags(a, EmitTxState(a))
  BY <1>6, <1>7, SeenState
<1>9. Feeds(EmitTxState(a))
  BY <1>7, <1>8 DEF Feeds, SameFlags
<1>10. (on /\ ~Keyed(s) /\ ~Fresh(s)) <=> Refused(s, intent)
  BY DEF Refused, Keyed, Fresh
<1>11. n = IF ~on /\ s.faultLatched THEN s.restarts + 1 ELSE s.restarts
  OBVIOUS
<1> HIDE DEF n
<1>12. Port!SetIntent(p, on) = IF Refused(s, intent) THEN Port!Latch(p)
                               ELSE Port!State(Seen(t, air))
  BY <1>4, <1>10, <1>11, IntentCases
<1> HIDE DEF p
<1> QED BY <1>2, <1>5, <1>8, <1>9, <1>12 DEF p

\* The arming written; disarming writes the intent too.
Arming(s, on) ==
    [s EXCEPT !.operatorArmed = on, !.txIntent = IF on THEN @ ELSE "none"]

\* What the port sees of arming and disarming.
LEMMA SeenArming ==
    ASSUME NEW s \in Session, NEW on \in BOOLEAN, NEW air
    PROVE  /\ Arming(s, on) \in Session
           /\ Feeds(s) => Feeds(Arming(s, on))
           /\ Arming(s, on).iqPrimed = s.iqPrimed
           /\ Arming(s, on).writer = s.writer
           /\ Seen(Arming(s, on), air)
                = Rec(s.open, s.running, Fresh(s), on /\ Keyed(s), on,
                      s.faultLatched, Stage(s), s.restarts, air, s.signals)
<1> DEFINE i == IF on THEN s.txIntent ELSE "none"
           t == [s EXCEPT !.operatorArmed = on, !.txIntent = i]
<1>1. i \in Intent /\ (i # "none" <=> on /\ Keyed(s))
  BY DEF Intent, Session, Keyed
<1>2. Arming(s, on) = t
  BY DEF Arming
<1> HIDE DEF i
<1>3. t \in Session
  BY <1>1 DEF Session
<1>4. /\ t.open = s.open /\ t.running = s.running /\ t.txIntent = i
      /\ t.faultLatched = s.faultLatched /\ t.statusAge = s.statusAge
      /\ t.writer = s.writer /\ t.pump = s.pump /\ t.primeTimer = s.primeTimer
      /\ t.operatorArmed = on /\ t.restarts = s.restarts
      /\ t.signals = s.signals /\ t.iqPrimed = s.iqPrimed
  BY DEF Session
<1> HIDE DEF t
<1>5. Stage(t) = Stage(s) /\ Fresh(t) = Fresh(s) /\ Keyed(t) = (on /\ Keyed(s))
  BY <1>1, <1>4 DEF Stage, Fresh, Keyed
<1>6. Feeds(s) => Feeds(t)
  BY <1>4 DEF Feeds
<1>7. Seen(t, air)
        = Rec(s.open, s.running, Fresh(s), on /\ Keyed(s), on,
              s.faultLatched, Stage(s), s.restarts, air, s.signals)
  BY <1>4, <1>5 DEF Seen
<1> QED BY <1>2, <1>3, <1>4, <1>6, <1>7

\* The port's arming, field by field.
LEMMA ArmedCases ==
    ASSUME NEW s, NEW on, NEW air
    PROVE  Port!SetArmed(Seen(s, air), on) =
             Port!State(Rec(s.open, s.running, Fresh(s), on /\ Keyed(s), on,
                            s.faultLatched, Stage(s), s.restarts, air, s.signals))
<1> DEFINE p == Seen(s, air)
           i == on /\ p.intent
           k == on /\ Keyed(s)
<1>1. i = k
  BY SeenFields
<1>2. ASSUME NEW v
      PROVE  With(With(p, "armed", on), "intent", v)
        = Rec(s.open, s.running, Fresh(s), v, on,
              s.faultLatched, Stage(s), s.restarts, air, s.signals)
  BY RecWith DEF Seen
<1> HIDE DEF p
<1>3. Port!SetArmed(p, on) = Port!State(With(With(p, "armed", on), "intent", i))
  <2>1. ASSUME NEW v
        PROVE  [p EXCEPT !.armed = on, !.intent = v] = With(With(p, "armed", on), "intent", v)
    BY Zenon DEF With
  <2>2. Port!SetArmed(p, on) = Port!State([p EXCEPT !.armed = on, !.intent = i])
    BY Zenon DEF Port!SetArmed
  <2> HIDE DEF i
  <2> QED BY <2>1, <2>2, Zenon
<1> HIDE DEF i, k
<1>4. With(With(p, "armed", on), "intent", k)
        = Rec(s.open, s.running, Fresh(s), k, on,
              s.faultLatched, Stage(s), s.restarts, air, s.signals)
  BY <1>2, Zenon
<1> QED BY <1>1, <1>3, <1>4, Zenon DEF p, k

\* setTxOperatorArmed is the port's.
LEMMA SeenArmed ==
    ASSUME NEW s \in Session, SInv(s), Feeds(s), NEW on \in BOOLEAN, NEW air
    PROVE  /\ Seen(SetArmed(s, on), air) = Port!SetArmed(Seen(s, air), on)
           /\ Feeds(SetArmed(s, on))
<1> DEFINE t == Arming(s, on)
           a == ApplyTxControl(t)
           p == Seen(s, air)
<1>1. t \in Session /\ Feeds(t) /\ t.iqPrimed = t.writer
  BY PrimedIsWriter, SeenArming
<1>2. Port!SetArmed(p, on) = Port!State(Seen(t, air))
  BY ArmedCases, SeenArming
<1>3. SetArmed(s, on) = EmitTxState(a)
  BY DEF SetArmed, Arming
<1> HIDE DEF t, p
<1>4. a \in Session /\ Kept(t, a)
  BY <1>1, ApplyKeeps
<1> HIDE DEF a
<1>5. Seen(a, air) = Seen(t, air) /\ a.iqPrimed = a.writer /\ Feeds(a)
  BY <1>1, <1>4, KeptIsUnseen, KeptFeeds
<1>6. Seen(EmitTxState(a), air) = Port!State(Seen(t, air)) /\ SameFlags(a, EmitTxState(a))
  BY <1>4, <1>5, SeenState
<1>7. Feeds(EmitTxState(a))
  BY <1>5, <1>6 DEF Feeds, SameFlags
<1> QED BY <1>2, <1>3, <1>6, <1>7 DEF p

-----------------------------------------------------------------------------
(* The remaining events.                                                   *)

\* The handshake shot, the pushed packets and the FIFO show the bridge nothing.
LEMMA UnseenEvents ==
    ASSUME NEW s \in Session
    PROVE  /\ \A epoch : Kept(s, FinishOpenHandshake(s, epoch))
           /\ Kept(s, ApplyTxControl(s)) /\ Kept(s, PushFrequency(s))
           /\ Kept(s, [s EXCEPT !.filled = TRUE]) /\ Kept(s, [s EXCEPT !.overflowed = TRUE])
<1>1. ASSUME NEW epoch PROVE Kept(s, FinishOpenHandshake(s, epoch))
  <2> DEFINE m == s.handshakes \ {epoch}
             r == [s EXCEPT !.handshakes = m]
             h == SendHp(r, TRUE)
             t == [h EXCEPT !.hpTickCount = 0, !.hpTimer = TRUE]
  <2>1. m \in SUBSET Nat
    BY DEF Session
  <2> HIDE DEF m
  <2>2. r \in Session /\ Kept(s, r)
    BY <2>1 DEF Session, Kept
  <2> HIDE DEF r
  <2>3. h \in Session /\ Kept(s, h)
    BY <2>2, PacketsKeep, KeptTwice
  <2> HIDE DEF h
  <2>4. Kept(h, t)
    BY <2>3 DEF Session, Kept
  <2> HIDE DEF t
  <2>5. FinishOpenHandshake(s, epoch) \in {r, t}
    BY DEF FinishOpenHandshake, t, h, r, m
  <2> QED BY <2>2, <2>3, <2>4, <2>5, KeptTwice
<1>2. Kept(s, s)
  BY DEF Kept
<1>3. Kept(s, [s EXCEPT !.filled = TRUE]) /\ Kept(s, [s EXCEPT !.overflowed = TRUE])
  BY DEF Session, Kept
<1> QED BY <1>1, <1>2, <1>3, ApplyKeeps, PacketsKeep DEF PushFrequency

\* A change of the age of the status, of what is due and of the signals.
LEMMA SeenSmall ==
    ASSUME NEW s \in Session, NEW air
    PROVE  /\ Seen([s EXCEPT !.statusAge = "stale"], air) = With(Seen(s, air), "fresh", No)
           /\ Feeds(s) => Feeds([s EXCEPT !.statusAge = "stale"])
           /\ Seen([s EXCEPT !.restarts = @ + 1], air)
                = With(Seen(s, air), "due", s.restarts + 1)
           /\ Feeds(s) => Feeds([s EXCEPT !.restarts = @ + 1])
           /\ Seen([s EXCEPT !.signals = <<>>], air) = With(Seen(s, air), "signals", <<>>)
           /\ Feeds(s) => Feeds([s EXCEPT !.signals = <<>>])
<1>1. /\ Seen([s EXCEPT !.statusAge = "stale"], air) = With(Seen(s, air), "fresh", No)
      /\ Feeds(s) => Feeds([s EXCEPT !.statusAge = "stale"])
  <2> DEFINE t == [s EXCEPT !.statusAge = "stale"]
  <2>1. /\ t.open = s.open /\ t.running = s.running /\ t.txIntent = s.txIntent
        /\ t.faultLatched = s.faultLatched /\ t.statusAge = "stale"
        /\ t.writer = s.writer /\ t.pump = s.pump /\ t.primeTimer = s.primeTimer
        /\ t.operatorArmed = s.operatorArmed /\ t.restarts = s.restarts
        /\ t.signals = s.signals
    BY DEF Session
  <2> HIDE DEF t
  <2>2. Stage(t) = Stage(s) /\ Fresh(t) = No /\ Keyed(t) = Keyed(s)
    BY <2>1 DEF Stage, Fresh, Keyed, No
  <2>3. Seen(t, air) = With(Seen(s, air), "fresh", No)
    BY <2>1, <2>2, SeenWith DEF Seen
  <2>4. Feeds(s) => Feeds(t)
    BY <2>1 DEF Feeds
  <2> QED BY <2>3, <2>4 DEF t
<1>2. /\ Seen([s EXCEPT !.restarts = @ + 1], air)
           = With(Seen(s, air), "due", s.restarts + 1)
      /\ Feeds(s) => Feeds([s EXCEPT !.restarts = @ + 1])
  <2> DEFINE n == s.restarts + 1
             t == [s EXCEPT !.restarts = n]
  <2>1. [s EXCEPT !.restarts = @ + 1] = t
    OBVIOUS
  <2> HIDE DEF n
  <2>2. /\ t.open = s.open /\ t.running = s.running /\ t.txIntent = s.txIntent
        /\ t.faultLatched = s.faultLatched /\ t.statusAge = s.statusAge
        /\ t.writer = s.writer /\ t.pump = s.pump /\ t.primeTimer = s.primeTimer
        /\ t.operatorArmed = s.operatorArmed /\ t.restarts = n
        /\ t.signals = s.signals
    BY DEF Session
  <2> HIDE DEF t
  <2>3. Stage(t) = Stage(s) /\ Fresh(t) = Fresh(s) /\ Keyed(t) = Keyed(s)
    BY <2>2 DEF Stage, Fresh, Keyed
  <2>4. Seen(t, air) = With(Seen(s, air), "due", n)
    BY <2>2, <2>3, SeenWith DEF Seen
  <2>5. Feeds(s) => Feeds(t)
    BY <2>2 DEF Feeds
  <2> QED BY <2>1, <2>4, <2>5 DEF n
<1>3. /\ Seen([s EXCEPT !.signals = <<>>], air) = With(Seen(s, air), "signals", <<>>)
      /\ Feeds(s) => Feeds([s EXCEPT !.signals = <<>>])
  <2> DEFINE q == <<>>
             t == [s EXCEPT !.signals = q]
  <2> HIDE DEF q
  <2>1. /\ t.open = s.open /\ t.running = s.running /\ t.txIntent = s.txIntent
        /\ t.faultLatched = s.faultLatched /\ t.statusAge = s.statusAge
        /\ t.writer = s.writer /\ t.pump = s.pump /\ t.primeTimer = s.primeTimer
        /\ t.operatorArmed = s.operatorArmed /\ t.restarts = s.restarts
        /\ t.signals = q
    BY DEF Session
  <2> HIDE DEF t
  <2>2. Stage(t) = Stage(s) /\ Fresh(t) = Fresh(s) /\ Keyed(t) = Keyed(s)
    BY <2>1 DEF Stage, Fresh, Keyed
  <2>3. Seen(t, air) = With(Seen(s, air), "signals", q)
    BY <2>1, <2>2, SeenWith DEF Seen
  <2>4. Feeds(s) => Feeds(t)
    BY <2>1 DEF Feeds
  <2> QED BY <2>3, <2>4 DEF t, q
<1> QED BY <1>1, <1>2, <1>3

\* A cadence fault over an answered session does not look at the stream.
LEMMA CadenceAnyStage ==
    ASSUME NEW o, NEW r, NEW f, NEW i, NEW a, NEW x, NEW d, NEW air, NEW q,
           NEW g, NEW h, ~Deaf(o, r)
    PROVE  Port!CadenceFault(Rec(o, r, f, i, a, x, g, d, air, q))
             = Port!CadenceFault(Rec(o, r, f, i, a, x, h, d, air, q))
BY CadenceRec, LatchRec

\* The port's stream may fail whenever it is not off.
LEMMA StreamCases ==
    ASSUME NEW s, Stage(s) # "off", NEW air
    PROVE  Port!CadenceFault(Seen(s, air)) \in Port!StreamFails(Seen(s, air))
<1> DEFINE p == Seen(s, air)
<1>1. p.stage # "off"
  BY SeenFields
<1> HIDE DEF p
<1>2. Port!CadenceFault(p) \in Port!StreamFails(p)
  BY <1>1, Zenon DEF Port!StreamFails
<1> QED BY <1>2 DEF p

\* A writer fault is a stream failure: stopping it after the fault adds nothing.
LEMMA SeenWriterFault ==
    ASSUME NEW s \in Session, SInv(s), Feeds(s), s.writer, NEW air
    PROVE  /\ Seen([CadenceFault(s) EXCEPT !.writer = FALSE], air)
                  \in Port!StreamFails(Seen(s, air))
           /\ Feeds([CadenceFault(s) EXCEPT !.writer = FALSE])
<1> DEFINE c == CadenceFault(s)
<1>1. s.open /\ s.running
  BY DEF SInv, Base
<1>2. c \in Session /\ Cold(c) /\ Seen(c, air) = Port!CadenceFault(Seen(s, air))
  BY <1>1, SeenCadence
<1> HIDE DEF c
<1>3. [c EXCEPT !.writer = FALSE] = c
  BY <1>2 DEF Session, Cold
<1>4. Stage(s) # "off"
  BY DEF Stage
<1> QED BY <1>2, <1>3, <1>4, StreamCases, ColdFeeds DEF c

Answered(s) == s.open /\ s.running

\* So a cadence fault does not see that the pump has stopped first.
LEMMA CadenceUnpumped ==
    ASSUME NEW s, Answered(s), NEW h, NEW air
    PROVE  Port!CadenceFault(Rec(s.open, s.running, Fresh(s), Keyed(s), s.operatorArmed,
                                 s.faultLatched, h, s.restarts, air, s.signals))
             = Port!CadenceFault(Seen(s, air))
<1> DEFINE o == s.open
           r == s.running
<1>1. ~Deaf(o, r)
  BY DEF Answered, Deaf
<1>2. Seen(s, air) = Rec(o, r, Fresh(s), Keyed(s), s.operatorArmed,
                         s.faultLatched, Stage(s), s.restarts, air, s.signals)
  BY Zenon DEF Seen
<1> HIDE DEF o, r
<1>3. Port!CadenceFault(Rec(o, r, Fresh(s), Keyed(s), s.operatorArmed,
                            s.faultLatched, h, s.restarts, air, s.signals))
        = Port!CadenceFault(Rec(o, r, Fresh(s), Keyed(s), s.operatorArmed,
                            s.faultLatched, Stage(s), s.restarts, air, s.signals))
  BY <1>1, CadenceAnyStage
<1> QED BY <1>2, <1>3, Zenon DEF o, r

\* A pump fault is a stream failure.
LEMMA SeenPumpFault ==
    ASSUME NEW s \in Session, SInv(s), Feeds(s), s.pump, NEW air
    PROVE  /\ Seen(CadenceFault([s EXCEPT !.pump = FALSE]), air)
                  \in Port!StreamFails(Seen(s, air))
           /\ Feeds(CadenceFault([s EXCEPT !.pump = FALSE]))
<1> DEFINE t == [s EXCEPT !.pump = FALSE]
<1>1. Answered(s) /\ s.open /\ s.running
  BY DEF Feeds, SInv, Base, Answered
<1>2. t \in Session
  BY DEF Session
<1>3. /\ t.open = s.open /\ t.running = s.running /\ t.txIntent = s.txIntent
      /\ t.faultLatched = s.faultLatched /\ t.statusAge = s.statusAge
      /\ t.operatorArmed = s.operatorArmed /\ t.restarts = s.restarts
      /\ t.signals = s.signals
  BY DEF Session
<1> HIDE DEF t
<1>4. Fresh(t) = Fresh(s) /\ Keyed(t) = Keyed(s)
  BY <1>3 DEF Fresh, Keyed
<1>5. Seen(t, air) = Rec(s.open, s.running, Fresh(s), Keyed(s), s.operatorArmed,
                        s.faultLatched, Stage(t), s.restarts, air, s.signals)
  BY <1>3, <1>4 DEF Seen
<1>6. Port!CadenceFault(Seen(t, air)) = Port!CadenceFault(Seen(s, air))
  <2>1. Port!CadenceFault(Rec(s.open, s.running, Fresh(s), Keyed(s), s.operatorArmed,
                              s.faultLatched, Stage(t), s.restarts, air, s.signals))
          = Port!CadenceFault(Seen(s, air))
    BY <1>1, CadenceUnpumped
  <2> QED BY <1>5, <2>1
<1>7. Stage(s) # "off"
  BY DEF Stage
<1>8. /\ Seen(CadenceFault(t), air) = Port!CadenceFault(Seen(t, air))
      /\ Cold(CadenceFault(t))
  BY <1>1, <1>2, <1>3, SeenCadence
<1> QED BY <1>6, <1>7, <1>8, StreamCases, ColdFeeds DEF t

\* The port's status may age while it is fresh.
LEMMA AgeCases ==
    ASSUME NEW s, Fresh(s), NEW air
    PROVE  With(Seen(s, air), "fresh", No) \in Port!Age(Seen(s, air))
<1> DEFINE p == Seen(s, air)
<1>1. p.fresh
  BY SeenFields
<1> HIDE DEF p
<1>2. With(p, "fresh", No) \in Port!Age(p)
  BY <1>1, Zenon DEF Port!Age, With, No
<1> QED BY <1>2 DEF p

\* The port's rate change leaves one more re-prime due.
LEMMA RateCases ==
    ASSUME NEW s, NEW air
    PROVE  Port!RateChange(Seen(s, air)) = With(Seen(s, air), "due", s.restarts + 1)
<1> DEFINE p == Seen(s, air)
<1>1. p.due = s.restarts
  BY SeenFields
<1> HIDE DEF p
<1>2. Port!RateChange(p) = With(p, "due", s.restarts + 1)
  BY <1>1, Zenon DEF Port!RateChange, With
<1> QED BY <1>2 DEF p

\* What the port allows next.
Allowed(p) == Port!Events(p) \union Port!Calls(p)

\* The events and the calls the port allows, one by one.
LEMMA AllowedCases ==
    ASSUME NEW p, NEW q
    PROVE  /\ q \in {p} \cup Port!PrimeTick(p) => q \in Allowed(p)
           /\ q \in Port!StreamFails(p) => q \in Allowed(p)
           /\ q \in Port!Restart(p) => q \in Allowed(p)
           /\ q \in Port!Answer(p) => q \in Allowed(p)
           /\ q \in Port!Age(p) => q \in Allowed(p)
           /\ q \in {p} \cup Port!Silence(p) => q \in Allowed(p)
           /\ \A on \in BOOLEAN : q = Port!SetIntent(p, on) => q \in Allowed(p)
           /\ \A on \in BOOLEAN : q = Port!SetArmed(p, on) => q \in Allowed(p)
           /\ q = Port!Close(p) => q \in Allowed(p)
           /\ q = Port!RateChange(p) => q \in Allowed(p)
           /\ q \in Port!Open(p) => q \in Allowed(p)
<1>1. /\ q \in {p} \cup Port!PrimeTick(p) => q \in Allowed(p)
      /\ q \in Port!StreamFails(p) => q \in Allowed(p)
      /\ q \in Port!Restart(p) => q \in Allowed(p)
      /\ q \in Port!Answer(p) => q \in Allowed(p)
      /\ q \in Port!Age(p) => q \in Allowed(p)
      /\ q \in {p} \cup Port!Silence(p) => q \in Allowed(p)
  BY Zenon DEF Allowed, Port!Events
<1>2. /\ q = Port!Close(p) => q \in Allowed(p)
      /\ q = Port!RateChange(p) => q \in Allowed(p)
      /\ q \in Port!Open(p) => q \in Allowed(p)
  BY Zenon DEF Allowed, Port!Calls
<1>3. ASSUME NEW on \in BOOLEAN
      PROVE  /\ q = Port!SetIntent(p, on) => q \in Allowed(p)
             /\ q = Port!SetArmed(p, on) => q \in Allowed(p)
  <2>1. CASE on = TRUE
    BY <2>1, Zenon DEF Allowed, Port!Calls
  <2>2. CASE on = FALSE
    BY <2>2, Zenon DEF Allowed, Port!Calls
  <2> QED BY <2>1, <2>2
<1> QED BY <1>1, <1>2, <1>3

\* What a step of the session looks like to the port, the packets apart.
Shown(s, air) == Seen(s, air) \in Allowed(Seen(now, air)) /\ Feeds(s)

\* The state a handler starts from, as the port sees it: no signals yet.
LEMMA NowIsFresh ==
    ASSUME p2 \in Session, SInv(p2), Feeds(p2), NEW air
    PROVE  /\ now \in Session /\ SInv(now) /\ Feeds(now)
           /\ Seen(now, air) = With(Seen(p2, air), "signals", <<>>)
           /\ \A f \in {"open", "restarts", "primeTimer", "writer", "pump",
                         "statusAge"} : now[f] = p2[f]
<1>1. Feeds(now) /\ Seen(now, air) = With(Seen(p2, air), "signals", <<>>)
  BY SeenSmall DEF now
<1>2. now \in Session /\ SInv(now)
  BY NowInv DEF IInv
<1>3. \A f \in {"open", "restarts", "primeTimer", "writer", "pump",
                 "statusAge"} : now[f] = p2[f]
  BY DEF now, Session
<1> QED BY <1>1, <1>2, <1>3

\* Every timer is an event of the port.
LEMMA ShownTimers ==
    ASSUME IInv, Feeds(p2), NEW air, Timers
    PROVE  Shown(p2', air)
<1> DEFINE p == Seen(now, air)
<1>1. /\ now \in Session /\ SInv(now) /\ Feeds(now)
      /\ now.open = p2.open /\ now.restarts = p2.restarts
      /\ now.primeTimer = p2.primeTimer
  BY NowIsFresh DEF IInv
<1>2. CASE \E e \in p2.handshakes : Handshake(e)
  <2>1. PICK e \in p2.handshakes : p2' = FinishOpenHandshake(now, e)
    BY <1>2 DEF Handshake, Become
  <2>2. Kept(now, p2')
    BY <1>1, <2>1, UnseenEvents
  <2>3. Seen(p2', air) = p /\ Feeds(p2')
    BY <1>1, <2>2, KeptIsUnseen, KeptFeeds
  <2> HIDE DEF p
  <2> QED BY <2>3, AllowedCases DEF Shown, p
<1>3. CASE HpTick
  <2>1. p2' = OnHpTick(now) /\ now.open
    BY <1>1, <1>3 DEF HpTick, Become
  <2>2. Seen(p2', air) \in {p} \cup Port!Silence(p) /\ Feeds(p2')
    BY <1>1, <2>1, SeenHpTick
  <2> HIDE DEF p
  <2> QED BY <2>2, AllowedCases DEF Shown, p
<1>4. CASE Restart
  <2>1. p2' = RestartTxTransport(Taken(now)) /\ now.restarts > 0
    BY <1>1, <1>4 DEF Restart, Become, Taken
  <2>2. Seen(p2', air) \in Port!Restart(p) /\ Feeds(p2')
    BY <1>1, <2>1, SeenRestart
  <2> HIDE DEF p
  <2> QED BY <2>2, AllowedCases DEF Shown, p
<1>5. CASE \E overrun \in BOOLEAN : PrimeTick(overrun)
  <2>1. PICK overrun \in BOOLEAN : p2' = OnTxPrimeTick(now, overrun) /\ now.primeTimer
    BY <1>1, <1>5 DEF PrimeTick, Become
  <2>2. Seen(p2', air) \in {p} \cup Port!PrimeTick(p) /\ Feeds(p2')
    BY <1>1, <2>1, PrimedIsWriter, SeenPrimeTick
  <2> HIDE DEF p
  <2> QED BY <2>2, AllowedCases DEF Shown, p
<1> QED BY <1>2, <1>3, <1>4, <1>5 DEF Timers

\* Every event of the stream is one.
LEMMA ShownStream ==
    ASSUME IInv, Feeds(p2), NEW air, Stream
    PROVE  Shown(p2', air)
<1> DEFINE p == Seen(now, air)
<1>1. /\ now \in Session /\ SInv(now) /\ Feeds(now)
      /\ now.writer = p2.writer /\ now.pump = p2.pump
  BY NowIsFresh DEF IInv
<1>2. CASE WriterFault
  <2>1. p2' = [CadenceFault(now) EXCEPT !.writer = FALSE] /\ now.writer
    BY <1>1, <1>2 DEF WriterFault, Become
  <2>2. Seen(p2', air) \in Port!StreamFails(p) /\ Feeds(p2')
    BY <1>1, <2>1, SeenWriterFault
  <2> HIDE DEF p
  <2> QED BY <2>2, AllowedCases DEF Shown, p
<1>3. CASE PumpFault
  <2>1. p2' = CadenceFault([now EXCEPT !.pump = FALSE]) /\ now.pump
    BY <1>1, <1>3 DEF PumpFault, Become
  <2>2. Seen(p2', air) \in Port!StreamFails(p) /\ Feeds(p2')
    BY <1>1, <2>1, SeenPumpFault
  <2> HIDE DEF p
  <2> QED BY <2>2, AllowedCases DEF Shown, p
<1>4. CASE Produce \/ Overflow
  <2>1. p2' \in {[now EXCEPT !.filled = TRUE], [now EXCEPT !.overflowed = TRUE]}
    BY <1>4 DEF Produce, Overflow, Become
  <2>2. Kept(now, p2')
    BY <1>1, <2>1, UnseenEvents
  <2>3. Seen(p2', air) = p /\ Feeds(p2')
    BY <1>1, <2>2, KeptIsUnseen, KeptFeeds
  <2> HIDE DEF p
  <2> QED BY <2>3, AllowedCases DEF Shown, p
<1> QED BY <1>2, <1>3, <1>4 DEF Stream

\* So is whatever the radio sends or fails to send.
LEMMA ShownRadio ==
    ASSUME IInv, Feeds(p2), NEW air, Radio
    PROVE  Shown(p2', air)
<1> DEFINE p == Seen(now, air)
<1>1. /\ now \in Session /\ SInv(now) /\ Feeds(now)
      /\ now.open = p2.open /\ now.statusAge = p2.statusAge
  BY NowIsFresh DEF IInv
<1>2. CASE \E dry \in BOOLEAN : Status(dry)
  <2>1. PICK dry \in BOOLEAN : p2' = ParseStatus(now, dry) /\ now.open
    BY <1>1, <1>2 DEF Status, Become
  <2>2. Seen(p2', air) \in Port!Answer(p) /\ Feeds(p2')
    BY <1>1, <2>1, SeenStatus
  <2> HIDE DEF p
  <2> QED BY <2>2, AllowedCases DEF Shown, p
<1>3. CASE StatusAges
  <2>1. p2' = [now EXCEPT !.statusAge = "stale"] /\ Fresh(now)
    BY <1>1, <1>3 DEF StatusAges, Become, Fresh
  <2>2. Seen(p2', air) = With(p, "fresh", No) /\ Feeds(p2')
    BY <1>1, <2>1, SeenSmall
  <2>3. With(p, "fresh", No) \in Port!Age(p)
    BY <2>1, AgeCases
  <2> HIDE DEF p
  <2> QED BY <2>2, <2>3, AllowedCases DEF Shown, p
<1> QED BY <1>2, <1>3 DEF Radio

\* The bridge turns the producer on and off while no session is open.
Seam == \E state \in {"inactive", "active"} : ProducerSeam(state)

\* What the bridge asks of the session, it asks of the port.
LEMMA ShownBridge ==
    ASSUME IInv, Feeds(p2), NEW air, Bridge, ~Seam
    PROVE  Shown(p2', air)
<1> DEFINE p == Seen(now, air)
<1>1. /\ now \in Session /\ SInv(now) /\ Feeds(now)
      /\ now.open = p2.open
  BY NowIsFresh DEF IInv
<1>2. CASE \E bound \in BOOLEAN : Open(bound)
  <2>1. PICK bound \in BOOLEAN : p2' = OpenSession(now, bound)
    BY <1>2 DEF Open, Become
  <2>2. Seen(p2', air) \in Port!Open(p) /\ Feeds(p2')
    BY <1>1, <2>1, SeenOpen
  <2> HIDE DEF p
  <2> QED BY <2>2, AllowedCases DEF Shown, p
<1>3. CASE Close
  <2>1. p2' = CloseSession(now)
    BY <1>3 DEF Close, Become
  <2>2. Seen(p2', air) = Port!Close(p) /\ Feeds(p2')
    BY <1>1, <2>1, SeenClose
  <2> HIDE DEF p
  <2> QED BY <2>2, AllowedCases DEF Shown, p
<1>4. CASE RateChange
  <2>1. p2' = [now EXCEPT !.restarts = @ + 1]
    BY <1>4 DEF RateChange, Become
  <2>2. /\ Seen([now EXCEPT !.restarts = @ + 1], air) = With(p, "due", now.restarts + 1)
        /\ Feeds([now EXCEPT !.restarts = @ + 1])
    BY <1>1, SeenSmall
  <2>3. Port!RateChange(p) = With(p, "due", now.restarts + 1)
    BY RateCases
  <2>4. Seen(p2', air) = Port!RateChange(p) /\ Feeds(p2')
    BY <2>1, <2>2, <2>3, Zenon
  <2> HIDE DEF p
  <2> QED BY <2>4, AllowedCases DEF Shown, p
<1>5. CASE TxControlChange \/ SetDdcFrequency
  <2>1. p2' \in {ApplyTxControl(now), PushFrequency(now)}
    BY <1>5 DEF TxControlChange, SetDdcFrequency, Become
  <2>2. Kept(now, p2')
    BY <1>1, <2>1, UnseenEvents
  <2>3. Seen(p2', air) = p /\ Feeds(p2')
    BY <1>1, <2>2, KeptIsUnseen, KeptFeeds
  <2> HIDE DEF p
  <2> QED BY <2>3, AllowedCases DEF Shown, p
<1>6. CASE \E intent \in Intent : TransmitIntent(intent)
  <2>1. PICK intent \in Intent : p2' = SetTxIntent(now, intent)
    BY <1>6 DEF TransmitIntent, Become
  <2>2. PICK on \in BOOLEAN : on = (intent # "none")
    OBVIOUS
  <2>3. Seen(p2', air) = Port!SetIntent(p, on) /\ Feeds(p2')
    BY <1>1, <2>1, <2>2, SeenIntent
  <2> HIDE DEF p
  <2> QED BY <2>3, AllowedCases DEF Shown, p
<1>7. CASE \E on \in BOOLEAN : OperatorArm(on)
  <2>1. PICK on \in BOOLEAN : p2' = SetArmed(now, on)
    BY <1>7 DEF OperatorArm, Become
  <2>2. Seen(p2', air) = Port!SetArmed(p, on) /\ Feeds(p2')
    BY <1>1, <2>1, SeenArmed
  <2> HIDE DEF p
  <2> QED BY <2>2, AllowedCases DEF Shown, p
<1> QED BY <1>2, <1>3, <1>4, <1>5, <1>6, <1>7 DEF Bridge, Seam

\* Every other step is one the port allows, with no more due than the bound.
LEMMA ShownStep ==
    ASSUME IInv, Feeds(p2), NEW air, Next, ~Seam
    PROVE  Shown(p2', air) /\ p2'.restarts <= MaxRestarts
<1>1. Shown(p2', air)
  BY ShownTimers, ShownStream, ShownRadio, ShownBridge DEF Next
<1>2. p2'.restarts <= MaxRestarts
  BY DEF Next, Timers, Stream, Radio, Bridge, Become, Handshake, HpTick, Restart,
         PrimeTick, WriterFault, PumpFault, Produce, Overflow, Status, StatusAges,
         Open, Close, RateChange, TxControlChange, SetDdcFrequency, TransmitIntent,
         OperatorArm, Seam
<1> QED BY <1>1, <1>2

\* Whatever the packets of a step authorise, the port authorises too.
LEMMA SeenAired ==
    ASSUME NEW s \in Session, SInv(s), NEW air, NEW hot \in BOOLEAN,
           hot => s.hp \in {"tx", "txPa"}
    PROVE  Seen(s, hot) \in Port!Aired(Seen(s, air))
<1> DEFINE t == Seen(s, air)
<1>1. ASSUME NEW v PROVE With(t, "onAir", v) = Seen(s, v)
  BY RecWith DEF Seen
<1>2. hot => t.open /\ t.running /\ t.armed /\ t.intent /\ ~t.fault /\ t.stage = "live"
  <2>1. hot => /\ s.open /\ s.running /\ s.operatorArmed /\ ~s.faultLatched /\ s.writer
               /\ s.txIntent # "none"
    BY DEF SInv, Base, HpAuthorised
  <2>2. hot => Stage(s) = "live" /\ Keyed(s)
    BY <2>1 DEF Stage, Keyed
  <2>3. /\ t.open = s.open /\ t.running = s.running /\ t.intent = Keyed(s)
        /\ t.armed = s.operatorArmed /\ t.fault = s.faultLatched /\ t.stage = Stage(s)
    BY SeenFields
  <2> HIDE DEF t
  <2> QED BY <2>1, <2>2, <2>3
<1> HIDE DEF t
<1>3. hot => Port!Authorised(t) = TRUE
  BY <1>2 DEF Port!Authorised
<1>4. Port!Aired(t) = {With(t, "onAir", FALSE), With(t, "onAir", Port!Authorised(t))}
  BY Zenon DEF Port!Aired, With
<1>5. ASSUME hot PROVE Seen(s, hot) \in Port!Aired(t)
  <2>1. hot = TRUE /\ Port!Authorised(t) = TRUE
    BY <1>3, <1>5
  <2> QED BY <1>1, <1>4, <2>1, Zenon
<1>6. ASSUME ~hot PROVE Seen(s, hot) \in Port!Aired(t)
  <2>1. hot = FALSE
    BY <1>6
  <2> QED BY <1>1, <1>4, <2>1, Zenon
<1> QED BY <1>5, <1>6 DEF t

\* Every event of the session is a step of the port.
LEMMA PortStep ==
    ASSUME IInv, IInv', Feeds(p2), Next, ~Seam
    PROVE  Port!Next
<1> DEFINE p == Seen(p2, OnAir)
           t == Seen(p2', OnAir)
<1>1. p = [open |-> p2.open, running |-> p2.running,
             fresh |-> p2.statusAge = "fresh", intent |-> p2.txIntent # "none",
             armed |-> p2.operatorArmed, fault |-> p2.faultLatched,
             stage |-> IF p2.writer THEN "live"
                       ELSE IF p2.pump THEN "priming" ELSE "off",
             due |-> p2.restarts, onAir |-> OnAir, signals |-> p2.signals]
  BY Zenon DEF Seen, Rec, Fresh, Keyed, Stage
<1>2. Seen(p2', OnAir') =
         [open |-> p2.open, running |-> p2.running,
             fresh |-> p2.statusAge = "fresh", intent |-> p2.txIntent # "none",
             armed |-> p2.operatorArmed, fault |-> p2.faultLatched,
             stage |-> IF p2.writer THEN "live"
                       ELSE IF p2.pump THEN "priming" ELSE "off",
             due |-> p2.restarts, onAir |-> OnAir, signals |-> p2.signals]'
  BY Zenon DEF Seen, Rec, Fresh, Keyed, Stage
<1>3. t \in Allowed(With(p, "signals", <<>>))
  BY ShownStep, NowIsFresh DEF Shown, IInv
<1>4. t.due <= MaxRestarts
  <2>1. t.due = p2'.restarts
    BY SeenFields
  <2> QED BY <2>1, ShownStep
<1>5. Seen(p2', OnAir') \in Port!Aired(t)
  <2>1. OnAir' \in BOOLEAN /\ (OnAir' => p2'.hp \in {"tx", "txPa"})
    BY DEF OnAir
  <2>2. p2' \in Session /\ SInv(p2')
    BY DEF IInv
  <2> QED BY <2>1, <2>2, SeenAired
<1> HIDE DEF p, t
<1>6. With(p, "signals", <<>>) = [p EXCEPT !.signals = <<>>]
  BY Zenon DEF With
<1>7. t \in Port!Events([p EXCEPT !.signals = <<>>])
              \union Port!Calls([p EXCEPT !.signals = <<>>])
  BY <1>3, <1>6, Zenon DEF Allowed
<1> QED BY <1>1, <1>2, <1>4, <1>5, <1>7, Zenon DEF Port!Next, Port!Become

\* The prime timer and the pump never outlive the session they stream for.
LEMMA FeedsInvariance == Spec => [](IInv /\ Feeds(p2))
<1>1. Init => Feeds(p2)
  BY DEF Init, Feeds
<1>2. IInv /\ Feeds(p2) /\ [Next]_vars => (IInv /\ Feeds(p2))'
  <2>1. ASSUME IInv, Feeds(p2), Next PROVE (IInv /\ Feeds(p2))'
    <3>1. CASE Seam
      BY <2>1, <3>1, StepInv DEF Seam, ProducerSeam
    <3>2. CASE ~Seam
      BY <2>1, <3>2, StepInv, ShownStep DEF Shown
    <3> QED BY <3>1, <3>2
  <2>2. ASSUME IInv, Feeds(p2), UNCHANGED vars PROVE (IInv /\ Feeds(p2))'
    BY <2>2 DEF IInv, vars
  <2> QED BY <2>1, <2>2
<1> QED BY <1>1, <1>2, InitInv, PTL DEF Spec

\* P2Session implements P2Port.
THEOREM SessionImplementsPort == Spec => ImplementsPort
<1> DEFINE view == [open |-> p2.open, running |-> p2.running,
             fresh |-> p2.statusAge = "fresh", intent |-> p2.txIntent # "none",
             armed |-> p2.operatorArmed, fault |-> p2.faultLatched,
             stage |-> IF p2.writer THEN "live"
                       ELSE IF p2.pump THEN "priming" ELSE "off",
             due |-> p2.restarts, onAir |-> OnAir, signals |-> p2.signals]
<1>1. ASSUME Init PROVE Port!Init
  <2>1. /\ p2.open = FALSE /\ p2.running = FALSE /\ p2.statusAge = "none"
        /\ p2.txIntent = "none" /\ p2.operatorArmed = FALSE /\ p2.faultLatched = FALSE
        /\ p2.writer = FALSE /\ p2.pump = FALSE /\ p2.restarts = 0
        /\ p2.hp = "none" /\ p2.signals = <<>>
    BY <1>1 DEF Init
  <2>2. /\ p2.open = No /\ p2.running = No /\ p2.operatorArmed = No
        /\ p2.faultLatched = No /\ Fresh(p2) = No /\ Keyed(p2) = No
        /\ Stage(p2) = "off" /\ OnAir = No
    BY <2>1 DEF No, Fresh, Keyed, Stage, OnAir
  <2>3. Rec(p2.open, p2.running, Fresh(p2), Keyed(p2), p2.operatorArmed,
            p2.faultLatched, Stage(p2), p2.restarts, OnAir, p2.signals)
          = Rec(No, No, No, No, No, No, "off", 0, No, <<>>)
    BY <2>1, <2>2, Zenon
  <2> QED BY <2>3, Zenon DEF Rec, Fresh, Keyed, Stage, No, Port!Init
<1>2. (IInv /\ Feeds(p2)) /\ (IInv /\ Feeds(p2))' /\ [Next]_vars
        => [Port!Next]_view
  <2>1. ASSUME IInv, Feeds(p2), IInv', Next, ~Seam PROVE Port!Next
    BY <2>1, PortStep
  <2>2. UNCHANGED vars \/ Seam => UNCHANGED view
    BY DEF vars, OnAir, Seam, ProducerSeam
  <2> HIDE DEF view
  <2> QED BY <2>1, <2>2
<1> QED BY <1>1, <1>2, FeedsInvariance, PTL DEF Spec, ImplementsPort, Port!Spec
=============================================================================
