------------------------------- MODULE P2Port -------------------------------
(***************************************************************************)
(* What a Protocol 2 session promises its bridge: the few fields of        *)
(* P2Session that decide whether the radio may transmit and that the       *)
(* signals report, every change of them, and the signals of each step.     *)
(* Packets, timers, epochs and the FIFO are gone: a stream is off, priming *)
(* or live, and whatever a packet may say, it authorises transmit at most  *)
(* when the gate is open.  P2Session implements this specification.        *)
(***************************************************************************)
EXTENDS Naturals, Sequences

CONSTANT MaxDue  \* bound: deferred re-primes outstanding at once

ASSUME DueAssumption == MaxDue \in Nat

Stage == {"off", "priming", "live"}

Signal == [kind : {"state"}, ready : BOOLEAN, armed : BOOLEAN, fault : BOOLEAN]
              \union [kind : {"started", "stopped"}]

Port == [open : BOOLEAN, running : BOOLEAN,
         fresh : BOOLEAN,    \* a status packet in the last second
         intent : BOOLEAN, armed : BOOLEAN, fault : BOOLEAN,
         stage : Stage,
         due : 0 .. MaxDue,  \* deferred restarts
         onAir : BOOLEAN,    \* the last HP packet authorised transmit
         signals : Seq(Signal)]

VARIABLE port

Init == port = [open |-> FALSE, running |-> FALSE, fresh |-> FALSE,
                intent |-> FALSE, armed |-> FALSE, fault |-> FALSE,
                stage |-> "off", due |-> 0, onAir |-> FALSE, signals |-> <<>>]

-----------------------------------------------------------------------------

Emit(s, m) == [s EXCEPT !.signals = Append(@, m)]

State(s) ==
    Emit(s, [kind |-> "state", ready |-> s.stage = "live" /\ ~s.fault,
             armed |-> s.armed, fault |-> s.fault])

\* Mutant: the fault is latched and nobody is told.
LatchUnreported(s) ==
    [s EXCEPT !.stage = "off", !.intent = FALSE, !.fault = TRUE]

Latch(s) ==
    State([s EXCEPT !.stage = "off", !.intent = FALSE, !.fault = TRUE])

CadenceFault(s) ==
    IF s.intent THEN Latch(s)
    ELSE IF ~s.open \/ ~s.running THEN s
    ELSE [s EXCEPT !.stage = "off", !.due = @ + 1]

\* The transport starts priming, and may say so at once, finds no producer, or
\* fails on its seed block.
Start(s) ==
    IF ~s.open \/ ~s.running \/ s.fault \/ s.stage # "off" THEN {s}
    ELSE LET p == [State(s) EXCEPT !.stage = "priming"] IN
         {State(s), Latch(CadenceFault(State(s))), p, State(p)}

\* Priming goes on and is reported, the prime target is met, or an overrun comes
\* first.
PrimeTick(s) ==
    IF s.stage # "priming" THEN {}
    ELSE {State(s), State([s EXCEPT !.stage = "live"]), Latch(s),
          Latch(CadenceFault(s))}

StreamFails(s) == IF s.stage = "off" THEN {} ELSE {CadenceFault(s)}

Restart(s) ==
    IF s.due = 0 THEN {}
    ELSE LET r == [s EXCEPT !.due = @ - 1] IN
         IF ~s.open \/ ~s.running \/ s.intent THEN {r}
         ELSE {State(t) : t \in Start([r EXCEPT !.stage = "off",
                                                !.fault = FALSE])}

\* A status packet; the first one reports the session started.
Answer(s) ==
    LET r == [s EXCEPT !.fresh = TRUE, !.running = TRUE]
        up == IF s.running THEN {r} ELSE Start(Emit(r, [kind |-> "started"]))
    IN IF ~s.open THEN {}
       ELSE up \union {Latch(t) : t \in {u \in up : u.stage = "live"}}

Age(s) == IF s.fresh THEN {[s EXCEPT !.fresh = FALSE]} ELSE {}

\* The keep-alive tick finds the status too old under a held key.
Silence(s) ==
    IF s.open /\ s.intent /\ ~s.fresh /\ ~s.fault THEN {Latch(s)} ELSE {}

SetIntent(s, on) ==
    IF on /\ ~s.intent /\ ~s.fresh THEN Latch(s)
    ELSE State([s EXCEPT !.intent = on,
                         !.due = IF ~on /\ s.fault THEN @ + 1 ELSE @])

SetArmed(s, on) == State([s EXCEPT !.armed = on, !.intent = on /\ @])

Closed(s) == [s EXCEPT !.intent = FALSE, !.armed = FALSE, !.fault = FALSE,
                       !.stage = "off"]

\* Mutant: the session that was left does not say that it stopped.
CloseUnreported(s) ==
    IF ~s.open THEN s
    ELSE [State(Closed(s)) EXCEPT !.open = FALSE, !.running = FALSE]

Close(s) ==
    IF ~s.open THEN s
    ELSE Emit([State(Closed(s)) EXCEPT !.open = FALSE, !.running = FALSE],
              [kind |-> "stopped"])

\* Binding the socket may fail.
Open(s) ==
    LET c == Close(s) IN
    {c, State([Closed(c) EXCEPT !.open = TRUE, !.running = FALSE,
                                !.fresh = FALSE])}

RateChange(s) == [s EXCEPT !.due = @ + 1]

-----------------------------------------------------------------------------

\* What happens on the session thread without the bridge.
Events(s) == {s} \union PrimeTick(s) \union StreamFails(s) \union Restart(s)
                 \union Answer(s) \union Age(s) \union Silence(s)

\* What the bridge may ask for.
Calls(s) == {SetIntent(s, TRUE), SetIntent(s, FALSE), SetArmed(s, TRUE),
             SetArmed(s, FALSE), Close(s), RateChange(s)} \union Open(s)

Authorised(s) == /\ s.open /\ s.running /\ s.armed /\ s.intent
                 /\ ~s.fault /\ s.stage = "live"

\* A step may or may not be followed by packets that authorise transmit; it
\* never leaves the authorisation standing when the gate has closed.
Aired(s) == {[s EXCEPT !.onAir = FALSE], [s EXCEPT !.onAir = Authorised(s)]}

Become(s) == s.due <= MaxDue /\ port' \in Aired(s)

Next == \E t \in Events([port EXCEPT !.signals = <<>>])
                     \union Calls([port EXCEPT !.signals = <<>>]) : Become(t)

Spec == Init /\ [][Next]_port
=============================================================================
