------------------------------- MODULE MoxFsm -------------------------------
(***************************************************************************)
(* The MOX/PTT sequencer of HL2Stream (src/src/hl2_stream.cpp).            *)
(*                                                                         *)
(* Every keying source (panel, foot switch, TCI, serial line, VOX, voice   *)
(* keyer) goes through one funnel, requestMox.  The funnel records the     *)
(* intent and, when no transition is in flight, starts a chain of single-  *)
(* shot timers that moves the radio between receive and transmit in the    *)
(* order an external amplifier survives:                                   *)
(*                                                                         *)
(*   key down   attenuator + filter board to TX,  wait mox_delay,          *)
(*              MOX bit on the wire,              wait rf_delay,           *)
(*              start the modulator (TXA), report on air                   *)
(*   key up     wait space_mox_delay, stop TXA (blocking),                 *)
(*              wait tx_stop_delay, MOX bit off,  wait ptt_out_delay,      *)
(*              attenuator + filter board to RX, report off air            *)
(*                                                                         *)
(* All of it runs on the Qt main thread: an action of this module is one   *)
(* event of that thread.  A delay is the choice of when its timer fires.   *)
(* This module is one open stream; StreamRestart adds open() and close().  *)
(***************************************************************************)
EXTENDS Integers

CONSTANTS
    Sources,     \* PttSource values that reach the funnel
    Manual,      \* PttSource::Manual, also the value of "nobody"
    MaxAtt       \* the most the step attenuator takes off (code: 31 dB)

ASSUME SourcesAssumption == Manual \in Sources
ASSUME AttAssumption == MaxAtt \in Nat

Att == 0 .. MaxAtt

\* The five continuations a QTimer::singleShot of the sequencer can hold.
Step == {"KeydownPostMox", "KeydownSettled",
         "KeyupPostSpace", "KeyupTxOff", "KeyupSettled"}

Tone == {"off", "tune", "twoTone"}

VARIABLES
    \* the sequencer
    requestedMox, fsmRunning, pttSource, moxActive, savedTxStepAttn,
    pending,     \* pending[s]: how many single shots will call step s
    \* what the radio is told
    mox,         \* mox_, the host's copy of the MOX bit
    XmitBit,     \* the global the EP2 packer sends as C0 bit 0
    txStepAttn,  \* the step attenuator
    ocTx,        \* the filter board's relays hold the transmit pattern
    \* the modulator
    txa,         \* the WDSP TXA channel runs
    injectTxIq,  \* injectTxIq_, the "audio routed to TX" flag
    tone,        \* tuneEnabled_ / twoToneEnabled_ (mutually exclusive)
    postgen,     \* the tone generator inside TXA
    \* lockouts, protection and settings
    txInhibit, convertLockout,
    safetyTimer, txTimeoutBypass, swrEval, swrTripped,
    attOnTxEnabled, attOnTxDb,
    \* histories
    leastAtt,    \* the least ATT-on-TX wanted since the last key down
    staleTimer   \* the safety timer has run since before MOX last fell

attVars    == <<savedTxStepAttn, txStepAttn, leastAtt>>
funnelVars == <<requestedMox, fsmRunning, pttSource, pending, attVars, ocTx>>
wireVars   == <<mox, XmitBit>>
modVars    == <<txa, injectTxIq>>
toneVars   == <<tone, postgen>>
lockVars   == <<txInhibit, convertLockout>>
guardVars  == <<safetyTimer, staleTimer, swrEval, swrTripped>>
setVars    == <<txTimeoutBypass, attOnTxEnabled, attOnTxDb>>
vars == <<funnelVars, wireVars, modVars, toneVars, lockVars, guardVars,
          setVars, moxActive>>

TypeOK ==
    /\ requestedMox \in BOOLEAN /\ fsmRunning \in BOOLEAN
    /\ pttSource \in Sources /\ moxActive \in BOOLEAN
    /\ savedTxStepAttn \in Att
    /\ pending \in [Step -> Nat]
    /\ mox \in BOOLEAN /\ XmitBit \in BOOLEAN
    /\ txStepAttn \in Att /\ leastAtt \in Att
    /\ ocTx \in BOOLEAN
    /\ txa \in BOOLEAN /\ injectTxIq \in BOOLEAN
    /\ tone \in Tone /\ postgen \in Tone
    /\ txInhibit \in BOOLEAN /\ convertLockout \in BOOLEAN
    /\ safetyTimer \in BOOLEAN /\ staleTimer \in BOOLEAN
    /\ txTimeoutBypass \in BOOLEAN
    /\ swrEval \in BOOLEAN /\ swrTripped \in BOOLEAN
    /\ attOnTxEnabled \in BOOLEAN /\ attOnTxDb \in Att

Init ==
    /\ requestedMox = FALSE /\ fsmRunning = FALSE
    /\ pttSource = Manual /\ moxActive = FALSE
    /\ savedTxStepAttn = 0
    /\ pending = [s \in Step |-> 0]
    /\ mox = FALSE /\ XmitBit = FALSE
    /\ txStepAttn = 0 /\ leastAtt = 0 /\ ocTx = FALSE
    /\ txa = FALSE /\ injectTxIq = FALSE
    /\ tone = "off" /\ postgen = "off"
    /\ txInhibit \in BOOLEAN        \* persisted across restarts
    /\ convertLockout = FALSE
    /\ safetyTimer = FALSE /\ staleTimer = FALSE
    /\ txTimeoutBypass \in BOOLEAN
    /\ swrEval = FALSE /\ swrTripped = FALSE
    /\ attOnTxEnabled \in BOOLEAN /\ attOnTxDb \in Att

-----------------------------------------------------------------------------
(* The funnel.                                                             *)

\* Mutant: key up goes to its last step without the TXA tail delay.
ScheduledSkippingTxOff(p, s) ==
    [p EXCEPT ![IF s = "KeyupTxOff" THEN "KeyupSettled" ELSE s] = @ + 1]

\* QTimer::singleShot, and the removal of a shot that has fired.
Scheduled(p, s) == [p EXCEPT ![s] = @ + 1]
Fired(p, s)     == [p EXCEPT ![s] = @ - 1]

\* attOnTxEnabled_ ? attOnTxDb_ : kAttOnTxDisabledDb.
AttOnTx(enabled, db) == IF enabled THEN db ELSE MaxAtt
attOnTx == AttOnTx(attOnTxEnabled, attOnTxDb)

\* fsmAdvance(): compare the intent with the wire and start a chain, with p
\* the single shots that are still outstanding.
FsmAdvance(req, p) ==
    \/ /\ req /\ ~mox
       /\ fsmRunning' = TRUE
       /\ savedTxStepAttn' = txStepAttn
       /\ txStepAttn' = attOnTx /\ leastAtt' = attOnTx
       /\ ocTx' = TRUE
       /\ pending' = Scheduled(p, "KeydownPostMox")
    \/ /\ ~req /\ mox
       /\ fsmRunning' = TRUE
       /\ pending' = Scheduled(p, "KeyupPostSpace")
       /\ UNCHANGED <<attVars, ocTx>>
    \/ /\ req = mox
       /\ fsmRunning' = FALSE
       /\ pending' = p
       /\ UNCHANGED <<attVars, ocTx>>

\* Mutant: the funnel forgets that a chain is in flight.
AdvanceAlways(req) == FsmAdvance(req, pending)

\* Mutant: a release at rest does not start the key-up chain.
AdvanceOnPressOnly(req) ==
    IF fsmRunning \/ ~req
    THEN UNCHANGED <<fsmRunning, pending, attVars, ocTx>>
    ELSE FsmAdvance(req, pending)

\* The chain in flight, if there is one, reads the new intent at its next
\* timer boundary.
AdvanceIfIdle(req) ==
    IF fsmRunning
    THEN UNCHANGED <<fsmRunning, pending, attVars, ocTx>>
    ELSE FsmAdvance(req, pending)

\* requestMox(on, src): a lockout stops a key down, never a key up.
RequestMox(on, src) ==
    IF on /\ (txInhibit \/ convertLockout)
    THEN UNCHANGED funnelVars
    ELSE /\ requestedMox' = on
         /\ pttSource' = IF on THEN src ELSE pttSource
         /\ AdvanceIfIdle(on)

Press(src) ==
    /\ RequestMox(TRUE, src)
    /\ UNCHANGED <<wireVars, modVars, toneVars, lockVars, guardVars, setVars,
                   moxActive>>

Release(src) ==
    /\ RequestMox(FALSE, src)
    /\ UNCHANGED <<wireVars, modVars, toneVars, lockVars, guardVars, setVars,
                   moxActive>>

-----------------------------------------------------------------------------
(* moxActiveChanged and the slots the constructor connects to it.          *)

\* Mutant: arming leaves a timer that already runs alone.
EnterOnAirKeepingTimer ==
    /\ moxActive' = TRUE
    /\ safetyTimer' = (safetyTimer \/ ~txTimeoutBypass)
    /\ UNCHANGED staleTimer
    /\ swrEval' = TRUE
    /\ swrTripped' = FALSE
    /\ UNCHANGED toneVars

\* moxActiveChanged(true): armTxSafetyTimer, which starts a timer that already
\* runs afresh, and armSwrProtect.
EnterOnAir ==
    /\ moxActive' = TRUE
    /\ safetyTimer' = (safetyTimer \/ ~txTimeoutBypass)
    /\ staleTimer' = (staleTimer /\ txTimeoutBypass)
    /\ swrEval' = TRUE
    /\ swrTripped' = FALSE
    /\ UNCHANGED toneVars

\* Mutant: the off-air edge leaves the generator running.
ToneOffButtonOnly == tone' = "off" /\ UNCHANGED postgen

\* setTuneEnabled(false), setTwoToneEnabled(false): the generator is told only
\* when the tone was on.
ToneOff ==
    /\ tone' = "off"
    /\ postgen' = IF tone = "off" THEN postgen ELSE "off"

\* moxActiveChanged(false): cancelTxSafetyTimer, tone off, disarmSwrProtect.
LeaveOnAir ==
    /\ moxActive' = FALSE
    /\ safetyTimer' = FALSE /\ staleTimer' = FALSE
    /\ ToneOff
    /\ swrEval' = FALSE
    /\ UNCHANGED swrTripped

\* Mutant: the stop callback is not registered.
TxaStopLost == UNCHANGED txa

\* TxControl::stop, SetChannelState(TXA, 0, blocking).
TxaStop == txa' = FALSE

-----------------------------------------------------------------------------
(* The steps of the chain.                                                 *)

KeydownPostMox ==
    /\ pending["KeydownPostMox"] > 0
    /\ LET left == Fired(pending, "KeydownPostMox") IN
       \/ /\ ~requestedMox                  \* cancelled during mox_delay
          /\ txStepAttn' = savedTxStepAttn
          /\ ocTx' = FALSE
          /\ fsmRunning' = FALSE
          /\ pending' = left
          /\ UNCHANGED wireVars
       \/ /\ requestedMox
          /\ mox' = TRUE /\ XmitBit' = TRUE
          /\ pending' = Scheduled(left, "KeydownSettled")
          /\ UNCHANGED <<txStepAttn, ocTx, fsmRunning>>
    /\ UNCHANGED <<requestedMox, pttSource, savedTxStepAttn, leastAtt, modVars,
                   toneVars, lockVars, guardVars, setVars, moxActive>>

KeydownSettled ==
    /\ pending["KeydownSettled"] > 0
    /\ LET left == Fired(pending, "KeydownSettled") IN
       \/ /\ ~requestedMox                  \* cancelled during rf_delay
          /\ pending' = Scheduled(left, "KeyupPostSpace")
          /\ UNCHANGED <<fsmRunning, modVars, toneVars, guardVars, moxActive>>
       \/ /\ requestedMox
          /\ injectTxIq' = TRUE /\ txa' = TRUE
          /\ EnterOnAir
          /\ fsmRunning' = FALSE
          /\ pending' = left
    /\ UNCHANGED <<requestedMox, pttSource, attVars, ocTx, wireVars, lockVars,
                   setVars>>

KeyupPostSpace ==
    /\ pending["KeyupPostSpace"] > 0
    /\ LET left == Fired(pending, "KeyupPostSpace") IN
       \/ /\ requestedMox                   \* re-keyed: stay in transmit
          /\ fsmRunning' = FALSE
          /\ pending' = left
          /\ UNCHANGED txa
       \/ /\ ~requestedMox
          /\ TxaStop
          /\ pending' = Scheduled(left, "KeyupTxOff")
          /\ UNCHANGED fsmRunning
    /\ UNCHANGED <<requestedMox, pttSource, attVars, ocTx, wireVars, injectTxIq,
                   toneVars, lockVars, guardVars, setVars, moxActive>>

KeyupTxOff ==
    /\ pending["KeyupTxOff"] > 0
    /\ injectTxIq' = FALSE
    /\ mox' = FALSE /\ XmitBit' = FALSE
    /\ pending' = Scheduled(Fired(pending, "KeyupTxOff"), "KeyupSettled")
    /\ staleTimer' = safetyTimer
    /\ UNCHANGED <<requestedMox, fsmRunning, pttSource, attVars, ocTx, txa,
                   toneVars, lockVars, safetyTimer, swrEval, swrTripped,
                   setVars, moxActive>>

\* The receive hardware is restored and receive is reported.
SettleInReceive ==
    /\ txStepAttn' = savedTxStepAttn
    /\ ocTx' = FALSE
    /\ LeaveOnAir
    /\ pttSource' = Manual
    /\ fsmRunning' = FALSE
    /\ UNCHANGED <<savedTxStepAttn, leastAtt>>

\* Mutant: a re-key during ptt_out_delay is lost.
KeyupSettledLosingRekey ==
    /\ pending["KeyupSettled"] > 0
    /\ pending' = Fired(pending, "KeyupSettled")
    /\ SettleInReceive
    /\ UNCHANGED <<requestedMox, wireVars, modVars, lockVars, setVars>>

KeyupSettled ==
    /\ pending["KeyupSettled"] > 0
    /\ LET left == Fired(pending, "KeyupSettled") IN
       \/ /\ requestedMox                   \* re-keyed during ptt_out_delay
          /\ FsmAdvance(TRUE, left)
          /\ UNCHANGED <<pttSource, toneVars, guardVars, moxActive>>
       \/ /\ ~requestedMox
          /\ SettleInReceive
          /\ pending' = left
    /\ UNCHANGED <<requestedMox, wireVars, modVars, lockVars, setVars>>

-----------------------------------------------------------------------------
(* The tone buttons: set the tone first, then key.                         *)

\* The TUN button; a second click releases, the off-air edge clears the tone.
TuneClick ==
    /\ IF tone # "tune"
       THEN /\ tone' = "tune" /\ postgen' = "tune"
            /\ swrTripped' = (swrTripped /\ ~moxActive)
            /\ RequestMox(TRUE, Manual)
       ELSE /\ RequestMox(FALSE, Manual)
            /\ UNCHANGED <<toneVars, swrTripped>>
    /\ UNCHANGED <<wireVars, modVars, lockVars, safetyTimer, staleTimer, swrEval,
                   setVars, moxActive>>

\* The 2-Tone button, disabled while TUN is armed.
TwoToneClick ==
    /\ tone # "tune"
    /\ tone' = IF tone = "off" THEN "twoTone" ELSE "off"
    /\ postgen' = tone'
    /\ RequestMox(tone = "off", Manual)
    /\ UNCHANGED <<wireVars, modVars, lockVars, guardVars, setVars, moxActive>>

-----------------------------------------------------------------------------
(* Lockouts.                                                               *)

\* setTxInhibit: engaging it while the MOX bit is on releases the key.
SetTxInhibit(on) ==
    /\ txInhibit # on
    /\ txInhibit' = on
    /\ IF on /\ mox THEN RequestMox(FALSE, Manual) ELSE UNCHANGED funnelVars
    /\ UNCHANGED <<wireVars, modVars, toneVars, convertLockout, guardVars,
                   setVars, moxActive>>

\* SessionConverter::convert, refused while moxActive.
ConvertStart ==
    /\ ~convertLockout /\ ~moxActive
    /\ convertLockout' = TRUE
    /\ UNCHANGED <<funnelVars, wireVars, modVars, toneVars, txInhibit,
                   guardVars, setVars, moxActive>>

ConvertFinished ==
    /\ convertLockout
    /\ convertLockout' = FALSE
    /\ UNCHANGED <<funnelVars, wireVars, modVars, toneVars, txInhibit,
                   guardVars, setVars, moxActive>>

-----------------------------------------------------------------------------
(* Protection.                                                             *)

TxSafetyTimeout ==
    /\ safetyTimer
    /\ safetyTimer' = FALSE /\ staleTimer' = FALSE
    /\ RequestMox(FALSE, Manual)
    /\ UNCHANGED <<wireVars, modVars, toneVars, lockVars, swrEval, swrTripped,
                   setVars, moxActive>>

SetTxTimeoutBypass ==
    /\ txTimeoutBypass' = ~txTimeoutBypass
    /\ safetyTimer' = IF moxActive THEN ~txTimeoutBypass' ELSE safetyTimer
    /\ staleTimer' = (staleTimer /\ ~moxActive)
    /\ UNCHANGED <<funnelVars, wireVars, modVars, toneVars, lockVars, swrEval,
                   swrTripped, attOnTxEnabled, attOnTxDb, moxActive>>

SetTxTimeoutSec ==
    /\ moxActive /\ ~txTimeoutBypass
    /\ safetyTimer' = TRUE /\ staleTimer' = FALSE
    /\ UNCHANGED <<funnelVars, wireVars, modVars, toneVars, lockVars, swrEval,
                   swrTripped, setVars, moxActive>>

\* tripSwrProtect, also reached from the fold floor of either fold.
SwrTrip ==
    /\ swrEval
    /\ swrEval' = FALSE /\ swrTripped' = TRUE
    /\ RequestMox(FALSE, Manual)
    /\ UNCHANGED <<wireVars, modVars, toneVars, lockVars, safetyTimer, staleTimer,
                   setVars, moxActive>>

\* foldSwrProtect, foldWattsProtect above the floor: stay keyed, latch.
SwrFold ==
    /\ swrEval
    /\ swrTripped' = TRUE
    /\ UNCHANGED <<funnelVars, wireVars, modVars, toneVars, lockVars,
                   safetyTimer, staleTimer, swrEval, setVars, moxActive>>

\* setSwrProtectEnabled while the MOX bit is on.
SetSwrProtect(on) ==
    /\ mox
    /\ swrEval' = on
    /\ UNCHANGED <<funnelVars, wireVars, modVars, toneVars, lockVars,
                   safetyTimer, staleTimer, swrTripped, setVars, moxActive>>

\* A level of ATT-on-TX that is now wanted is applied only while the MOX bit is
\* on; fsmAdvance applies it otherwise.
Attenuate(level) ==
    /\ txStepAttn' = IF mox THEN level ELSE txStepAttn
    /\ leastAtt' = IF level < leastAtt THEN level ELSE leastAtt

SetAttOnTxEnabled(on) ==
    /\ attOnTxEnabled # on
    /\ attOnTxEnabled' = on
    /\ Attenuate(AttOnTx(on, attOnTxDb))
    /\ UNCHANGED <<requestedMox, fsmRunning, pttSource, pending, savedTxStepAttn,
                   ocTx, wireVars, modVars, toneVars, lockVars, guardVars,
                   txTimeoutBypass, attOnTxDb, moxActive>>

\* std::clamp(db, 0, 31)
Clamped(db) == IF db < 0 THEN 0 ELSE IF db > MaxAtt THEN MaxAtt ELSE db

SetAttOnTxDb(db) ==
    /\ attOnTxDb # Clamped(db)
    /\ attOnTxDb' = Clamped(db)
    /\ IF attOnTxEnabled THEN Attenuate(Clamped(db))
                         ELSE UNCHANGED <<txStepAttn, leastAtt>>
    /\ UNCHANGED <<requestedMox, fsmRunning, pttSource, pending, savedTxStepAttn,
                   ocTx, wireVars, modVars, toneVars, lockVars, guardVars,
                   txTimeoutBypass, attOnTxEnabled, moxActive>>

\* setRx1FreqHz, applyOcEdit, setFilterBoardEnabled: updateOcPattern() with
\* its default argument, transmitting = false.
Retune ==
    /\ ocTx' = FALSE
    /\ UNCHANGED <<requestedMox, fsmRunning, pttSource, pending, attVars,
                   wireVars, modVars, toneVars, lockVars, guardVars, setVars,
                   moxActive>>

-----------------------------------------------------------------------------
TimerStep == \/ KeydownPostMox \/ KeydownSettled
             \/ KeyupPostSpace \/ KeyupTxOff \/ KeyupSettled

Operator == \/ \E src \in Sources : Press(src) \/ Release(src)
            \/ TuneClick \/ TwoToneClick
            \/ \E on \in BOOLEAN : \/ SetTxInhibit(on) \/ SetSwrProtect(on)
                                 \/ SetAttOnTxEnabled(on)
            \/ ConvertStart \/ ConvertFinished
            \/ SetTxTimeoutBypass \/ SetTxTimeoutSec
            \/ \E db \in -1 .. MaxAtt + 1 : SetAttOnTxDb(db)
            \/ Retune

Protection == TxSafetyTimeout \/ SwrTrip \/ SwrFold

Next == TimerStep \/ Operator \/ Protection

Spec == Init /\ [][Next]_vars

\* A started single shot fires: QTimer on a running event loop.
Fairness == /\ WF_vars(KeydownPostMox) /\ WF_vars(KeydownSettled)
            /\ WF_vars(KeyupPostSpace) /\ WF_vars(KeyupTxOff)
            /\ WF_vars(KeyupSettled)

FairSpec == Spec /\ Fairness

-----------------------------------------------------------------------------
(* What the sequencer guarantees.                                          *)

Outstanding == {s \in Step : pending[s] > 0}

\* Two chains never run at once: while fsmRunning_ is set exactly one single
\* shot is outstanding, and none otherwise.  A press in any window of a
\* running chain must join it (requestMox's fsmRunning_ test).
OneChain ==
    /\ \A s \in Step : pending[s] <= 1
    /\ \A s, t \in Outstanding : s = t
    /\ fsmRunning <=> Outstanding # {}

\* When the sequencer rests, the wire is where the last accepted request
\* wanted it, whatever presses and releases came in its windows.
IdleMatchesIntent == ~fsmRunning => mox = requestedMox

\* An amplifier is never hot switched: the MOX bit on the wire changes only
\* while the modulator is stopped (keydown starts TXA after rf_delay, keyup
\* stops it before the bit drops).
RelaySwitchesCold == [][XmitBit' # XmitBit => ~txa /\ ~txa']_vars

\* For as long as the radio transmits the receiver front end is attenuated at
\* least as much as ATT-on-TX ever asked for since the key went down, also when
\* a re-key overtakes the step that restores the attenuator.
FrontEndProtected == mox => txStepAttn >= leastAtt

\* The tone generator runs only while a tone button shows it.
GeneratorMatchesButton == postgen # "off" => tone # "off"

\* A safety timer that a cancelled re-key left running in receive does not run
\* on into the next transmission: while the modulator runs, the timer counts
\* from its own on-air edge, or from a later change of the setting.
SafetyTimerIsOfThisOver == txa => ~staleTimer

\* A released key reaches receive: MOX off, modulator stopped, filter board
\* back.  It takes every single shot to keep firing.
ReleaseReachesReceive ==
    <>[]~requestedMox => <>[](~mox /\ ~XmitBit /\ ~txa /\ ~ocTx)

\* A key held from some point on reaches the wire and stays there.
PressReachesWire == <>[]requestedMox => <>[](mox /\ XmitBit)

-----------------------------------------------------------------------------
(* What comments of the code say and the code does not do.                 *)

\* A rest with MOX on the wire is a rest on air: "moxActive_ remains true"
\* after a re-key in the space window.
IdleKeyedIsOnAir == ~fsmRunning /\ mox => moxActive

\* A rest with MOX off is reported off air.
IdleReceiveIsOffAir == ~fsmRunning /\ ~mox => ~moxActive

\* The inhibit is a hard lockout: MOX never rises while it is engaged.
InhibitStopsKeydown == [][~mox /\ mox' => ~txInhibit]_vars

\* Converting a recording and transmitting exclude each other.
ConvertExcludesTransmit == ~(convertLockout /\ XmitBit)

\* A tone is disarmed whenever the radio rests in receive.
ToneDisarmedInReceive == ~fsmRunning /\ ~mox => tone = "off"

\* The safety timer "cancels on the MOX-off edge": none runs at rest in receive.
SafetyTimerStopsInReceive == ~fsmRunning /\ ~mox => ~safetyTimer

\* "Restore the operator's pre-keydown step-att (today always 0)".
AttenuatorRestored == ~fsmRunning /\ ~mox => txStepAttn = 0

\* The safety timer covers every settled transmission it is not bypassed for.
SafetyTimerCoversTransmission ==
    ~fsmRunning /\ moxActive /\ ~txTimeoutBypass => safetyTimer

\* The evaluator that guards SWR and watts runs during every transmission.
EvaluatorCoversTransmission == ~fsmRunning /\ mox /\ moxActive => swrEval

\* The filter board holds its transmit pattern while the MOX bit is on.
FilterHoldsTransmit == XmitBit => ocTx

\* Changing ATT-on-TX is effective by the time the radio transmits.
AttenuatorFollowsSetting == mox => txStepAttn = attOnTx

-----------------------------------------------------------------------------
(* What the rest of the program relies on.                                 *)

\* The step the chain waits for.
StageOf == IF fsmRunning THEN CHOOSE s \in Step : pending[s] > 0 ELSE "rest"

Funnel == INSTANCE KeyFunnel
    WITH requested <- requestedMox, active <- moxActive, stage <- StageOf,
         locks <- {l \in {"inhibit", "convert"} :
                     IF l = "inhibit" THEN txInhibit ELSE convertLockout}

\* The keying sources may take the sequencer for a single chain that follows
\* the request: no setting, tone, lockout or protection event shows up as
\* anything but a request or a step of that chain.
ImplementsFunnel == Funnel!FunnelSpec

Host == INSTANCE KeyedHost WITH requested <- requestedMox, active <- moxActive

\* On air and off air are reported only towards the request of the moment:
\* a listener that follows the edges is never told the opposite of what the
\* operator last asked for, whatever chain and re-key produced the edge.
ImplementsHost == Host!Spec
=============================================================================
