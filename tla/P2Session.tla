----------------------------- MODULE P2Session ------------------------------
(***************************************************************************)
(* The Protocol 2 session (src/src/wire/P2Session.cpp): the connection to  *)
(* a radio over UDP, the transport that streams TX I/Q to its port 1029,   *)
(* and the gate that decides what the control packets may authorise.       *)
(*                                                                         *)
(* Everything runs on the session thread, one event at a time, except the  *)
(* ChannelMaster pump that fills the FIFO (Produce, Overflow).  A handler  *)
(* calls several methods in an order that matters, so each method is an    *)
(* operator from a session state to the session state it leaves, and an    *)
(* action applies the composition its handler is.                          *)
(*                                                                         *)
(* Of the packets, the model keeps what can put RF on the air: the PA bit  *)
(* of the last General packet and the run, transmit and drive fields of    *)
(* the last high-priority (HP) packet.  txSafety_.sessionRunning is set    *)
(* and cleared with running_ and is not kept apart; watchdogEnabled is     *)
(* never cleared.                                                          *)
(***************************************************************************)
EXTENDS Naturals, Sequences

CONSTANTS
    GeneralRefreshTicks,  \* General goes out every so many HP ticks (code: 8)
    PrimeEmitEvery,       \* a priming tick in so many is reported (code: 8)
    MaxEpoch,             \* bound: opens and closes counted by openEpoch_
    MaxRestarts           \* bound: deferred re-primes outstanding at once

ASSUME RefreshAssumption == GeneralRefreshTicks \in Nat \ {0}
ASSUME ThrottleAssumption == PrimeEmitEvery \in Nat \ {0}
ASSUME BoundAssumption == MaxEpoch \in Nat /\ MaxRestarts \in Nat

Producer == {"none", "inactive", "active"}
Age      == {"none", "fresh", "stale"}
Intent   == {"none", "tx", "txPa"}
HpWord   == {"none", "halt", "rx", "tx", "txPa"}

\* What txStateChanged carries to the bridge, and the two session signals.
Signal == [kind : {"state"}, ready : BOOLEAN, armed : BOOLEAN, fault : BOOLEAN]
              \union [kind : {"started", "stopped"}]

Session == [
    \* the connection
    open : BOOLEAN, running : BOOLEAN, openEpoch : Nat,
    handshakes : SUBSET Nat,   \* epochs whose 100 ms open handshake is due
    hpTimer : BOOLEAN, hpTickCount : 0 .. GeneralRefreshTicks - 1,
    statusAge : Age,
    \* txIntent_ and txSafety_
    txIntent : Intent, operatorArmed : BOOLEAN, telemetryHealthy : BOOLEAN,
    faultLatched : BOOLEAN, iqPrimed : BOOLEAN, transportRunning : BOOLEAN,
    \* the TX transport
    primeTimer : BOOLEAN, pump : BOOLEAN, channel : BOOLEAN, writer : BOOLEAN,
    restarts : Nat,            \* deferred restartTxTransportRxState calls
    throttle : 0 .. PrimeEmitEvery - 1,  \* primeEmitThrottle, never reset
    filled : BOOLEAN,          \* the FIFO holds the prime target
    overflowed : BOOLEAN,
    \* the last packets sent to the radio
    generalPa : BOOLEAN, hp : HpWord,
    paLate : BOOLEAN,          \* history: an HP with drive went out before the PA
    paCutHot : BOOLEAN,        \* history: a keyup removed the PA before HP transmit
    signals : Seq(Signal)]     \* emitted by the last step

VARIABLES p2, producer
vars == <<p2, producer>>

TypeOK == p2 \in Session /\ producer \in Producer

Init ==
    /\ p2 = [open |-> FALSE, running |-> FALSE, openEpoch |-> 0,
             handshakes |-> {}, hpTimer |-> FALSE, hpTickCount |-> 0,
             statusAge |-> "none", txIntent |-> "none",
             operatorArmed |-> FALSE, telemetryHealthy |-> FALSE,
             faultLatched |-> FALSE, iqPrimed |-> FALSE,
             transportRunning |-> FALSE, primeTimer |-> FALSE, pump |-> FALSE,
             channel |-> FALSE, writer |-> FALSE, restarts |-> 0,
             throttle |-> 0, filled |-> FALSE, overflowed |-> FALSE,
             generalPa |-> FALSE,
             hp |-> "none", paLate |-> FALSE, paCutHot |-> FALSE,
             signals |-> <<>>]
    /\ producer \in Producer

-----------------------------------------------------------------------------
(* P2TxSafetyGate and the packets derived from it.                         *)

Ready(s) == /\ s.operatorArmed /\ s.running /\ s.iqPrimed
            /\ s.transportRunning /\ s.telemetryHealthy /\ ~s.faultLatched

Transmit(s)  == Ready(s) /\ s.txIntent # "none"
PaEnabled(s) == Ready(s) /\ s.txIntent = "txPa"

SendGeneral(s) ==
    [s EXCEPT !.generalPa = PaEnabled(s),
              !.paCutHot = @ \/ (s.hp = "txPa" /\ s.txIntent = "none")]

\* The run, transmit and drive fields of buildHighPriorityPacket(run).
HpFields(s, run) ==
    CASE ~run                         -> "halt"
      [] run /\ ~Transmit(s)          -> "rx"
      [] run /\ PaEnabled(s)          -> "txPa"
      [] run /\ Transmit(s) /\ ~PaEnabled(s) -> "tx"

SendHp(s, run) ==
    [s EXCEPT !.hp = HpFields(s, run),
              !.paLate = @ \/ (HpFields(s, run) = "txPa" /\ ~s.generalPa)]

\* txSafety_.transportRunning = txWriter_.isRunning()
Refreshed(s) == [s EXCEPT !.transportRunning = s.writer]

\* Mutant: General goes first on every change, also when the key is released.
ApplyTxControlGeneralFirst(s) ==
    IF s.open THEN SendHp(SendGeneral(Refreshed(s)), TRUE) ELSE s

\* applyTxControlNow(): the PA before HP transmit on key down, after it on
\* key up.
ApplyTxControl(s) ==
    LET r == Refreshed(s) IN
    IF ~s.open THEN s
    ELSE IF Transmit(r) THEN SendHp(SendGeneral(r), TRUE)
    ELSE SendGeneral(SendHp(r, TRUE))

EmitTxState(s) ==
    LET r == Refreshed(s) IN
    [r EXCEPT !.signals = Append(@,
        [kind |-> "state", ready |-> r.writer /\ r.iqPrimed /\ ~r.faultLatched,
         armed |-> r.operatorArmed, fault |-> r.faultLatched])]

Emit(s, k) == [s EXCEPT !.signals = Append(@, [kind |-> k])]

-----------------------------------------------------------------------------
(* The TX transport.                                                       *)

\* Mutant: the prime latch survives the transport it was taken for.
StopTxTransportKeepingPrime(s) ==
    [s EXCEPT !.primeTimer = FALSE, !.pump = FALSE, !.channel = FALSE,
              !.writer = FALSE]

StopTxTransport(s) ==
    [s EXCEPT !.primeTimer = FALSE, !.pump = FALSE, !.channel = FALSE,
              !.writer = FALSE, !.iqPrimed = FALSE]

\* Mutant: the fault is latched but no safe packet is pushed.
LatchTxFaultSilently(s) ==
    EmitTxState([StopTxTransport(s) EXCEPT !.txIntent = "none",
                                           !.faultLatched = TRUE])

LatchTxFault(s) ==
    EmitTxState(ApplyTxControl(
        [StopTxTransport(s) EXCEPT !.txIntent = "none", !.faultLatched = TRUE]))

\* onTxTransportCadenceFault: hard while keyed, a deferred re-prime otherwise.
CadenceFault(s) ==
    IF s.txIntent # "none" THEN LatchTxFault(s)
    ELSE IF ~s.open \/ ~s.running THEN s
    ELSE [StopTxTransport(s) EXCEPT !.restarts = @ + 1]

\* txWriter_.startFromInput(): its first packet may already find an overflow.
StartWriter(s, overrun) ==
    LET r == [s EXCEPT !.primeTimer = FALSE, !.writer = ~overrun,
                       !.overflowed = overrun]
    IN IF overrun THEN LatchTxFault(CadenceFault(r))
       ELSE EmitTxState([r EXCEPT !.iqPrimed = TRUE])

\* Priming goes on: the first such tick since the program started, and then
\* every PrimeEmitEvery-th, says how far it is.
PrimeProgress(s) ==
    LET r == [s EXCEPT !.throttle = (@ + 1) % PrimeEmitEvery]
    IN IF s.throttle = 0 THEN EmitTxState(r) ELSE r

OnTxPrimeTick(s, overrun) ==
    IF ~s.open \/ ~s.running \/ s.faultLatched
        THEN [s EXCEPT !.primeTimer = FALSE]
    ELSE IF s.overflowed THEN LatchTxFault(s)
    ELSE IF ~s.filled    THEN PrimeProgress(s)
    ELSE StartWriter(s, overrun)

\* startTxTransportRxState(): with no producer behind the sink the pump fails
\* on the block it seeds.
StartTxTransport(s) ==
    LET r == EmitTxState([s EXCEPT !.filled = FALSE, !.overflowed = FALSE,
                                   !.iqPrimed = FALSE])
    IN IF ~s.open \/ ~s.running \/ s.faultLatched \/ s.pump \/ s.writer THEN s
       ELSE IF producer = "none" THEN EmitTxState(s)
       ELSE IF producer = "inactive" THEN LatchTxFault(CadenceFault(r))
       ELSE OnTxPrimeTick([r EXCEPT !.channel = TRUE, !.pump = TRUE,
                                    !.primeTimer = TRUE], FALSE)

\* restartTxTransportRxState(): "never clear a fault while keyed".
RestartTxTransport(s) ==
    IF ~s.open \/ ~s.running \/ s.txIntent # "none" THEN s
    ELSE EmitTxState(StartTxTransport(
             [StopTxTransport(s) EXCEPT !.faultLatched = FALSE]))

-----------------------------------------------------------------------------
(* The connection.                                                         *)

\* txIntent_ = {}; txSafety_ = {}
FailClosed(s) ==
    [s EXCEPT !.txIntent = "none", !.operatorArmed = FALSE,
              !.telemetryHealthy = FALSE, !.faultLatched = FALSE,
              !.iqPrimed = FALSE, !.transportRunning = FALSE]

\* Mutant: the stop packets are built before the intent is cleared.
CloseSessionKeyed(s) ==
    IF ~s.open THEN s
    ELSE LET r == SendHp(s, FALSE)
         IN Emit([EmitTxState(FailClosed(StopTxTransport(r)))
                     EXCEPT !.openEpoch = @ + 1, !.hpTimer = FALSE,
                            !.open = FALSE, !.running = FALSE], "stopped")

CloseSession(s) ==
    IF ~s.open THEN s
    ELSE LET r == EmitTxState(FailClosed(
                      [StopTxTransport(s) EXCEPT !.openEpoch = @ + 1,
                                                 !.hpTimer = FALSE]))
         IN Emit([SendGeneral(SendHp(r, FALSE)) EXCEPT !.open = FALSE,
                                                       !.running = FALSE],
                 "stopped")

\* Mutant: a re-open keeps the handshake of the session it replaces.
OpenSessionSameEpoch(s, bound) ==
    LET c == CloseSession(s)
        r == EmitTxState(FailClosed(
                 [StopTxTransport(c) EXCEPT !.open = TRUE, !.running = FALSE,
                                            !.statusAge = "none"]))
    IN IF ~bound THEN c
       ELSE [SendHp(SendGeneral(r), FALSE) EXCEPT
                !.handshakes = @ \union {r.openEpoch + 1}]

\* open(ip): an open session is closed first; bind may fail.
OpenSession(s, bound) ==
    LET c == CloseSession(s)
        r == EmitTxState(FailClosed(
                 [StopTxTransport(c) EXCEPT !.open = TRUE, !.running = FALSE,
                                            !.statusAge = "none"]))
    IN IF ~bound THEN c
       ELSE [SendHp(SendGeneral(r), FALSE) EXCEPT
                !.openEpoch = @ + 1,
                !.handshakes = @ \union {r.openEpoch + 1}]

\* Mutant: the refresh counter starts on the tick it should wrap at.
FinishOpenHandshakeOffByOne(s, epoch) ==
    LET r == [s EXCEPT !.handshakes = @ \ {epoch}]
    IN IF ~s.open \/ epoch # s.openEpoch THEN r
       ELSE [SendHp(r, TRUE) EXCEPT !.hpTickCount = GeneralRefreshTicks,
                                    !.hpTimer = TRUE]

\* The 100 ms shot of open, dropped when its session is gone.
FinishOpenHandshake(s, epoch) ==
    LET r == [s EXCEPT !.handshakes = @ \ {epoch}]
    IN IF ~s.open \/ epoch # s.openEpoch THEN r
       ELSE [SendHp(r, TRUE) EXCEPT !.hpTickCount = 0, !.hpTimer = TRUE]

\* Mutant: the 100 ms cadence does not watch the age of the status.
OnHpTickWithoutWatch(s) ==
    [SendHp(Refreshed(s), TRUE) EXCEPT
        !.hpTickCount = (@ + 1) % GeneralRefreshTicks]

OnHpTick(s) ==
    LET lost == s.txIntent # "none" /\ s.statusAge = "stale" /\ ~s.faultLatched
        t == IF lost THEN LatchTxFault([s EXCEPT !.telemetryHealthy = FALSE])
                     ELSE s
        u == [SendHp(Refreshed(t), TRUE) EXCEPT
                 !.hpTickCount = (@ + 1) % GeneralRefreshTicks]
    IN IF u.hpTickCount = 0 THEN SendGeneral(u) ELSE u

\* parseStatus: the first packet of a session starts the transport; bit 2 of
\* byte 30 reports that the radio's TX FIFO ran dry.
ParseStatus(s, ducUnderflow) ==
    LET r == [s EXCEPT !.statusAge = "fresh", !.telemetryHealthy = TRUE]
        up == StartTxTransport(Emit([r EXCEPT !.running = TRUE], "started"))
        f == IF s.running THEN r ELSE SendHp(SendGeneral(up), TRUE)
    IN IF f.writer /\ ducUnderflow THEN LatchTxFault(f) ELSE f

-----------------------------------------------------------------------------
(* What the bridge asks of the session.                                    *)

\* setTransmitIntent: a new key down needs a status of the last second; a key
\* up with a fault latched schedules a re-prime.
SetTxIntent(s, intent) ==
    IF intent # "none" /\ s.txIntent = "none" /\ s.statusAge # "fresh"
    THEN LatchTxFault([s EXCEPT !.telemetryHealthy = FALSE])
    ELSE EmitTxState(ApplyTxControl(
             [s EXCEPT !.txIntent = intent,
                       !.restarts = IF intent = "none" /\ s.faultLatched
                                    THEN @ + 1 ELSE @]))

\* setTxOperatorArmed: disarming clears the intent.
SetArmed(s, on) ==
    EmitTxState(ApplyTxControl(
        [s EXCEPT !.operatorArmed = on,
                  !.txIntent = IF on THEN @ ELSE "none"]))

\* setDdcFrequencyHz of a secondary DDC pushes an HP packet at once.
PushFrequency(s) == IF s.open THEN SendHp(s, TRUE) ELSE s

-----------------------------------------------------------------------------
(* Actions.                                                                *)

\* The session a handler starts from: the signals of the last step are gone.
now == [p2 EXCEPT !.signals = <<>>]

\* An action on the session applies its handler; MaxRestarts bounds what it may
\* leave due.
Become(s) == s.restarts <= MaxRestarts /\ p2' = s /\ UNCHANGED producer

Open(bound) ==
    /\ p2.openEpoch + 2 <= MaxEpoch
    /\ Become(OpenSession(now, bound))

Close == p2.open /\ p2.openEpoch < MaxEpoch /\ Become(CloseSession(now))

Handshake(epoch) ==
    epoch \in p2.handshakes /\ Become(FinishOpenHandshake(now, epoch))

HpTick == p2.hpTimer /\ p2.open /\ Become(OnHpTick(now))

Status(ducUnderflow) ==
    p2.open /\ Become(ParseStatus(now, ducUnderflow))

\* A second passes without a status packet.
StatusAges ==
    p2.statusAge = "fresh" /\ Become([now EXCEPT !.statusAge = "stale"])

PrimeTick(overrun) ==
    p2.primeTimer /\ Become(OnTxPrimeTick(now, overrun))

\* The writer tells its fault sink first and stops after; the pump stops first.
WriterFault ==
    /\ p2.writer
    /\ Become([CadenceFault(now) EXCEPT !.writer = FALSE])

PumpFault ==
    /\ p2.pump
    /\ Become(CadenceFault([now EXCEPT !.pump = FALSE]))

Restart ==
    /\ p2.restarts > 0
    /\ Become(RestartTxTransport([now EXCEPT !.restarts = @ - 1]))

\* A new IQ rate schedules a re-prime 100 ms later (P2RxBridge, spanChanged).
RateChange ==
    p2.open /\ Become([now EXCEPT !.restarts = @ + 1])

\* The ChannelMaster thread, as long as pump and channel feed it.
Produce ==
    p2.pump /\ p2.channel /\ ~p2.filled /\ Become([now EXCEPT !.filled = TRUE])

Overflow ==
    /\ p2.pump /\ p2.channel /\ p2.filled /\ ~p2.overflowed
    /\ Become([now EXCEPT !.overflowed = TRUE])

TransmitIntent(intent) ==
    Become(SetTxIntent(now, intent))

OperatorArm(on) == Become(SetArmed(now, on))

\* setTxDriveCeiling, and setAttOnTx while transmitting.
TxControlChange == p2.open /\ Become(ApplyTxControl(now))

SetDdcFrequency == p2.open /\ Become(PushFrequency(now))

\* The bridge activates the producer behind the sink before it opens a session,
\* which may fail, and deactivates it when it has closed one.
ProducerSeam(state) ==
    /\ ~p2.open /\ producer # "none"
    /\ producer' = state /\ UNCHANGED p2

Timers == \/ \E e \in p2.handshakes : Handshake(e)
          \/ HpTick \/ Restart
          \/ \E overrun \in BOOLEAN : PrimeTick(overrun)

Stream == WriterFault \/ PumpFault \/ Produce \/ Overflow

Radio == (\E dry \in BOOLEAN : Status(dry)) \/ StatusAges

Bridge == \/ \E bound \in BOOLEAN : Open(bound)
          \/ Close \/ RateChange \/ TxControlChange \/ SetDdcFrequency
          \/ \E intent \in Intent : TransmitIntent(intent)
          \/ \E on \in BOOLEAN : OperatorArm(on)
          \/ \E state \in {"inactive", "active"} : ProducerSeam(state)

Next == Timers \/ Stream \/ Radio \/ Bridge

Spec == Init /\ [][Next]_vars

\* Timers of a running event loop fire; the ChannelMaster thread runs.  Weak
\* fairness of the two largest handlers, which cannot be refused when due, is
\* spelled out: TLC computes ENABLED of such an action very slowly.
HpTickDue  == p2.hpTimer /\ p2.open /\ OnHpTick(now) # p2
RestartDue ==
    p2.restarts > 0 /\ RestartTxTransport([now EXCEPT !.restarts = @ - 1]) # p2

Fairness ==
    /\ []<>~HpTickDue \/ []<><<HpTick>>_vars
    /\ []<>~RestartDue \/ []<><<Restart>>_vars
    /\ WF_vars(\E e \in p2.handshakes : Handshake(e))
    /\ WF_vars(PrimeTick(FALSE)) /\ WF_vars(Produce)

FairSpec == Spec /\ Fairness

-----------------------------------------------------------------------------
(* Properties.                                                             *)

OnAir == p2.hp \in {"tx", "txPa"}

\* Whatever the radio was last told, transmit is authorised only over a session
\* that is open, answered, armed and healthy, with a key held and TX I/Q being
\* streamed: no event that takes one of these away leaves the authorisation
\* standing, although the gate is only evaluated when a packet is built.
NeverOnAirBlind ==
    OnAir => /\ p2.open /\ p2.running /\ p2.operatorArmed
             /\ p2.telemetryHealthy /\ ~p2.faultLatched
             /\ p2.txIntent # "none" /\ p2.iqPrimed /\ p2.writer

\* The PA bit, which lives in another packet than the transmit bit, does not
\* outlive the key either.
PaNeedsKey == p2.generalPa => p2.open /\ p2.txIntent = "txPa" /\ p2.writer

\* "iqPrimed is a latched flag": it is never left standing without the writer.
PrimedIsLive == p2.iqPrimed <=> p2.writer

\* Key up and faults take transmit away before the PA ("Keyup/fault: clear HP
\* transmit first, then remove PA authorization").
KeyupOrder == ~p2.paCutHot

\* A session that stays open starts its 100 ms keep-alive cadence, however fast
\* it replaced another one.
CadenceStarts == <>[]p2.open => <>[]p2.hpTimer

\* A radio that falls silent for good is taken off the air for good, however
\* the operator keeps keying.
SilenceUnkeys == <>[](p2.statusAge = "stale") => <>[]~OnAir

-----------------------------------------------------------------------------
(* What comments of the code say and the code does not do.                 *)

\* "Keydown: authorize the PA in General before raising HP transmit."
KeydownOrder == ~p2.paLate

\* "Receive/TX-specific and HP run=1 wait 100 ms so firmware can digest the
\* lease": no run=1 before the handshake, unless the radio answers first.
RunWaitsForHandshake ==
    p2.open /\ p2.hp \notin {"none", "halt"} => p2.hpTimer \/ p2.running

\* "A transient host stall must recover in place, not latch and lock out the
\* next key-up": an unkeyed healthy session keeps, or keeps getting back, a
\* transport that is primed or priming.
IdleTransportRecovers ==
    <>[](/\ producer = "active" /\ p2.open /\ p2.running
         /\ p2.txIntent = "none" /\ ~p2.faultLatched)
        => []<>(p2.iqPrimed \/ p2.primeTimer)

-----------------------------------------------------------------------------
(* What the bridge is told, and checked against: P2Port.                   *)

Port == INSTANCE P2Port WITH
    MaxDue <- MaxRestarts,
    port <- [open |-> p2.open, running |-> p2.running,
             fresh |-> p2.statusAge = "fresh", intent |-> p2.txIntent # "none",
             armed |-> p2.operatorArmed, fault |-> p2.faultLatched,
             stage |-> IF p2.writer THEN "live"
                       ELSE IF p2.pump THEN "priming" ELSE "off",
             due |-> p2.restarts, onAir |-> OnAir, signals |-> p2.signals]

\* Every step of the session is a step P2Port allows, signals included: what
\* the bridge is checked against is what P2Session.cpp does.
ImplementsPort == Port!Spec
=============================================================================
