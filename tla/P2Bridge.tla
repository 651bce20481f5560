------------------------------ MODULE P2Bridge ------------------------------
(***************************************************************************)
(* P2RxBridge (src/src/wire/P2RxBridge.cpp): the main thread's end of a    *)
(* Protocol 2 connection.  It turns the edges of the MOX sequencer into    *)
(* calls posted to the session thread, and keeps a copy of the session's   *)
(* TX state from signals posted back.  Both queues are first in first out; *)
(* whatever the bridge decides, it decides on a copy that may be old, and  *)
(* the session hears of it later.                                          *)
(*                                                                         *)
(* The session is the one P2Port promises, the sequencer the one KeyedHost *)
(* promises; P2Session and MoxFsm are checked to keep these promises.  The *)
(* calls the bridge posts replace P2Port's free Calls.                     *)
(***************************************************************************)
EXTENDS P2Port

CONSTANTS MaxCommands,  \* bound: posted calls the operator may leave waiting
          MaxSignals    \* bound: signals the session may leave waiting

ASSUME QueueAssumption == MaxCommands \in Nat /\ MaxSignals \in Nat

VARIABLES
    requested, active,  \* the sequencer
    bridge,             \* the bridge's own fields
    commands,           \* calls posted to the session thread
    inbox               \* signals posted to the main thread

Host == INSTANCE KeyedHost

hostVars == <<requested, active>>
bvars == <<port, hostVars, bridge, commands, inbox>>

Command ==
    [call : {"arm", "intent"}, on : BOOLEAN]
        \union [call : {"open", "close", "rate"}]

BridgeState == [
    open : BOOLEAN, running : BOOLEAN,       \* open_ and running_
    ready : BOOLEAN, armed : BOOLEAN, fault : BOOLEAN,   \* copies
    supported : BOOLEAN,                     \* txHardwareSupported_
    autoArm : BOOLEAN,                       \* txAutoArm_ or txOnAirValidated_
    waiting : {"no", "close", "reopen"}]     \* blocked in close()

BridgeTypeOK ==
    /\ port \in Port /\ requested \in BOOLEAN /\ active \in BOOLEAN
    /\ bridge \in BridgeState
    /\ commands \in Seq(Command) /\ inbox \in Seq(Signal)

BridgeInit ==
    /\ Init /\ Host!Init
    /\ bridge = [open |-> FALSE, running |-> FALSE, ready |-> FALSE,
                 armed |-> FALSE, fault |-> FALSE, supported |-> FALSE,
                 autoArm |-> FALSE, waiting |-> "no"]
    /\ commands = <<>> /\ inbox = <<>>

-----------------------------------------------------------------------------
(* Helpers.                                                                *)

Post(call) == commands' = Append(commands, call)

\* syncTxIntentToSession(on)
SyncCall(on) == [call |-> "intent", on |-> on /\ bridge.supported]

\* Mutant: the intent is only forwarded while the copy says armed.
SyncIfArmed(on) ==
    IF bridge.open /\ bridge.armed THEN Post(SyncCall(on))
                                   ELSE UNCHANGED commands

\* What moxActiveChanged(on) does.
Sync(on) ==
    IF bridge.open THEN Post(SyncCall(on)) ELSE UNCHANGED commands

\* The guard of a key down.
Keyable(b) == b.armed /\ b.ready /\ ~b.fault

\* What setTxBenchArmed(true) asks for.
Armable(b) == b.supported /\ b.running /\ b.ready /\ ~b.fault

\* resetTxUiState()
ResetTxUi(b) == [b EXCEPT !.armed = FALSE, !.supported = FALSE,
                          !.ready = FALSE, !.fault = FALSE]

\* The operator acts on the main thread unless close() blocks it.
Operator == bridge.waiting = "no" /\ Len(commands) < MaxCommands
                                 /\ Len(inbox) <= MaxSignals

-----------------------------------------------------------------------------
(* The operator, on the main thread.                                       *)

\* moxIntentPulse fires inside requestMox(true): a bridge that cannot transmit
\* takes the request back before the sequencer looks at it.
Key(on) ==
    /\ Operator
    /\ Host!Request(on /\ (bridge.open => Keyable(bridge)))
    /\ UNCHANGED <<port, bridge, commands, inbox>>

HostEdge(on) ==
    /\ bridge.waiting = "no" /\ Len(commands) <= MaxCommands
    /\ IF on THEN Host!OnAir ELSE Host!OffAir
    /\ Sync(on)
    /\ UNCHANGED <<port, bridge, inbox>>

\* paEnabledChanged, txDriveLevelChanged and setTxDriveLimitPercent.
DriveChange ==
    /\ Operator /\ bridge.open /\ active
    /\ Post(SyncCall(TRUE))
    /\ UNCHANGED <<port, hostVars, bridge, inbox>>

\* spanChanged with another legal rate.
SampleRate ==
    /\ Operator /\ bridge.running /\ Post([call |-> "rate"])
    /\ UNCHANGED <<port, hostVars, bridge, inbox>>

\* setTxBenchArmed(on) by hand.
BenchArm(on) ==
    /\ Operator /\ bridge.armed # on /\ (on => Armable(bridge))
    /\ bridge' = [bridge EXCEPT !.armed = on]
    /\ Post([call |-> "arm", on |-> on])
    /\ requested' = (requested /\ (on \/ ~active))
    /\ UNCHANGED <<port, active, inbox>>

\* setTxAutoArm(on) arms at once if it can.
AutoArm(on) ==
    /\ Operator /\ bridge.autoArm # on
    /\ LET arms == on /\ ~bridge.armed /\ Armable(bridge) IN
       /\ bridge' = [bridge EXCEPT !.autoArm = on, !.armed = @ \/ arms]
       /\ IF arms THEN Post([call |-> "arm", on |-> TRUE])
                  ELSE UNCHANGED commands
    /\ UNCHANGED <<port, hostVars, inbox>>

\* open(ip): the fields and the posted open.  Whether the producer seam came up
\* is left to P2Port, where a start may find no producer.
Opened(b, supported, posted) ==
    /\ bridge' = [ResetTxUi(b) EXCEPT !.supported = supported, !.open = TRUE]
    /\ commands' = Append(posted, [call |-> "open"])

OpenRadio(supported) ==
    /\ Operator /\ ~bridge.open
    /\ Opened(bridge, supported, commands)
    /\ UNCHANGED <<port, hostVars, inbox>>

\* close(), also as the first half of open(another ip): the main thread posts
\* the session's close behind what it posted before and waits for it.
CloseRadio(again) ==
    /\ Operator /\ bridge.open
    /\ requested' = (requested /\ ~active)
    /\ Post([call |-> "close"])
    /\ bridge' = [bridge EXCEPT !.waiting = IF again THEN "reopen" ELSE "close"]
    /\ UNCHANGED <<port, active, inbox>>

-----------------------------------------------------------------------------
(* Signals, on the main thread.                                            *)

Started(b)       == IF b.open THEN [b EXCEPT !.running = TRUE] ELSE b
Stopped(b)       == [b EXCEPT !.running = FALSE]

\* txStateChanged: copy, release the key on a fault, arm again on preference.
StateChanged(m) ==
    LET c == [bridge EXCEPT !.ready = m.ready, !.armed = m.armed,
                            !.fault = m.fault]
        arms == c.autoArm /\ ~c.armed /\ Armable(c)
    IN /\ bridge' = [c EXCEPT !.armed = @ \/ arms]
       /\ requested' = (requested /\ ~(m.fault /\ active))
       /\ IF arms THEN Post([call |-> "arm", on |-> TRUE])
                  ELSE UNCHANGED commands

Receive ==
    /\ bridge.waiting = "no" /\ inbox # <<>>
    /\ inbox' = Tail(inbox)
    /\ LET m == Head(inbox) IN
       \/ m.kind = "state" /\ StateChanged(m)
       \/ /\ m.kind = "started" /\ bridge' = Started(bridge)
          /\ UNCHANGED <<requested, commands>>
       \/ /\ m.kind = "stopped" /\ bridge' = Stopped(bridge)
          /\ UNCHANGED <<requested, commands>>
    /\ UNCHANGED <<port, active>>

-----------------------------------------------------------------------------
(* The session thread.                                                     *)

\* The session reaches t; its signals are on their way to the main thread.
Reaches(t) ==
    /\ t.due <= MaxDue
    /\ \E u \in Aired(t) : port' = [u EXCEPT !.signals = <<>>]
    /\ inbox' = inbox \o t.signals

\* Its own events: timers, stream faults, packets.
SessionEvent ==
    /\ Len(inbox) <= MaxSignals /\ Len(commands) <= MaxCommands
    /\ \E t \in Events(port) : Reaches(t)
    /\ UNCHANGED <<hostVars, bridge, commands>>

\* The main thread wakes up when the session has closed.
WakeUp(rest) ==
    LET b == ResetTxUi([bridge EXCEPT !.open = FALSE, !.running = FALSE,
                                      !.waiting = "no"])
    IN \/ /\ bridge.waiting = "close"
          /\ bridge' = b /\ commands' = rest
       \/ /\ bridge.waiting = "reopen"
          /\ \E supported \in BOOLEAN : Opened(b, supported, rest)

\* The session's work for a posted call.
Served(c) ==
    CASE c.call = "arm"    -> {SetArmed(port, c.on)}
      [] c.call = "intent" -> {SetIntent(port, c.on)}
      [] c.call = "rate"   -> {RateChange(port)}
      [] c.call = "open"   -> Open(port)
      [] c.call = "close"  -> {Close(port)}

Serve ==
    /\ commands # <<>>
    /\ bridge.waiting = "no" => Len(inbox) <= MaxSignals
    /\ \E t \in Served(Head(commands)) : Reaches(t)
    /\ IF Head(commands).call = "close" THEN WakeUp(Tail(commands))
       ELSE commands' = Tail(commands) /\ UNCHANGED bridge
    /\ UNCHANGED hostVars

-----------------------------------------------------------------------------

BridgeNext ==
    \/ \E on \in BOOLEAN : Key(on) \/ HostEdge(on) \/ BenchArm(on) \/ AutoArm(on)
    \/ DriveChange \/ SampleRate
    \/ \E supported \in BOOLEAN : OpenRadio(supported)
    \/ \E again \in BOOLEAN : CloseRadio(again)
    \/ Receive \/ SessionEvent \/ Serve

RestartFires ==
    SessionEvent /\ \E t \in Restart(port) : port' \in
        {[u EXCEPT !.signals = <<>>] : u \in Aired(t)}

\* Both event loops run: a posted call or signal is delivered, and a deferred
\* re-prime that is due fires.
BridgeFairness ==
    /\ WF_bvars(Receive)
    /\ []<>(commands = <<>>) \/ []<><<Serve>>_bvars
    /\ []<>(port.due = 0) \/ []<><<RestartFires>>_bvars

BridgeSpec == BridgeInit /\ [][BridgeNext]_bvars
FairBridgeSpec == BridgeSpec /\ BridgeFairness

-----------------------------------------------------------------------------
(* Properties.                                                             *)

TakesOff == {[call |-> "intent", on |-> FALSE], [call |-> "close"],
             [call |-> "arm", on |-> FALSE]}

\* The radio transmits, and the session means to, only while the sequencer says
\* on air, or else the call that ends it is already on its way: no interleaving
\* of edges, re-opens, faults and arming loses a key up.
RadioFollowsHost ==
    port.onAir \/ (port.open /\ port.intent)
        => active \/ \E i \in DOMAIN commands : commands[i] \in TakesOff

\* Once the queues are empty the copies are true: a stale state, started or
\* stopped of a session that was left never has the last word.
CopiesConverge ==
    commands = <<>> /\ inbox = <<>> /\ bridge.open /\ port.open =>
        /\ bridge.running = port.running
        /\ bridge.armed = port.armed
        /\ bridge.fault = port.fault

\* A fault of the session reaches the key: the host is released, although the
\* report may arrive before the sequencer goes on air and find nothing to do.
FaultReleasesHost ==
    port.open /\ port.fault /\ active
        ~> ~requested \/ ~active \/ ~port.fault \/ ~port.open

-----------------------------------------------------------------------------
(* What comments of the code say and the code does not do.                 *)

\* "A transient host stall here must recover in place, never latch and lock out
\* the next key-up" (P2Session.cpp, onTxTransportCadenceFault): a fault latched
\* at rest, in a transport the bridge knew as ready, is cleared in a session that
\* stays up, or its re-prime is on the way.  Key presses are refused and change
\* nothing.
IdleFaultRecovers ==
    port.open /\ port.fault /\ bridge.ready /\ ~requested /\ ~active
        ~> ~port.fault \/ ~port.open \/ port.due > 0
=============================================================================
