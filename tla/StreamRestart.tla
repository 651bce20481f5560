--------------------------- MODULE StreamRestart ----------------------------
(***************************************************************************)
(* HL2Stream::open and HL2Stream::close around the MOX/PTT sequencer.      *)
(*                                                                         *)
(* The operator may stop and start the stream at any point of a transition.*)
(* Both calls force the sequencer to rest, but neither can take back a     *)
(* single shot that is already scheduled: the steps of the old session     *)
(* still fire in the new one.                                              *)
(***************************************************************************)
EXTENDS MoxFsm, FiniteSets

CONSTANT MaxStale   \* bound: single shots an open() may leave behind it
ASSUME MaxStaleAssumption == MaxStale \in Nat

VARIABLES
    running,        \* running_: the stream is open
    asked           \* history: some source has asked to key since the last open

restartVars == <<vars, running, asked>>

RestartTypeOK == TypeOK /\ running \in BOOLEAN /\ asked \in BOOLEAN

RestartInit == Init /\ running = TRUE /\ asked = FALSE

\* Mutant: the intent of the previous session is left standing.
ForceRestKeepingIntent ==
    /\ mox' = FALSE
    /\ fsmRunning' = FALSE
    /\ safetyTimer' = FALSE /\ staleTimer' = FALSE
    /\ UNCHANGED requestedMox

\* What open() and close() force without running the chain.
ForceRest ==
    /\ mox' = FALSE
    /\ requestedMox' = FALSE
    /\ fsmRunning' = FALSE
    /\ safetyTimer' = FALSE /\ staleTimer' = FALSE

\* Two-tone is switched off through its setter; the tune flag is stored
\* directly, which does not reach the generator.  The off-air edge that follows
\* finds both flags down.
ForceToneOff ==
    /\ tone' = "off"
    /\ postgen' = IF tone = "twoTone" THEN "off" ELSE postgen

\* if (moxActive_) { moxActive_ = false; emit moxActiveChanged(false); }
ForceOffAir ==
    /\ moxActive' = FALSE
    /\ swrEval' = (swrEval /\ ~moxActive)
    /\ UNCHANGED swrTripped

untouched == <<pttSource, pending, attVars, modVars, lockVars, setVars>>

Close ==
    /\ running
    /\ running' = FALSE
    /\ ForceRest /\ ForceToneOff /\ ForceOffAir
    /\ ocTx' = (ocTx /\ ~moxActive)
    /\ UNCHANGED <<XmitBit, untouched, asked>>

\* The at-open seed is what brings XmitBit back to mox_.
Open ==
    /\ ~running
    /\ \A s \in Step : pending[s] <= 1
    /\ Cardinality(Outstanding) <= MaxStale
    /\ running' = TRUE
    /\ ForceRest /\ ForceToneOff /\ ForceOffAir
    /\ XmitBit' = FALSE
    /\ asked' = FALSE
    /\ UNCHANGED <<ocTx, untouched>>

\* A step of the sequencer within one session, or while the stream is closed.
Keying(A) ==
    /\ A
    /\ asked' = (asked \/ (requestedMox' /\ ~requestedMox))
    /\ UNCHANGED running

RestartNext == Keying(Next) \/ Close \/ Open

RestartSpec == RestartInit /\ [][RestartNext]_restartVars

\* As long as single shots are outstanding, one of them fires: weak fairness of
\* the sequencer's steps together, with the enabling condition spelled out.
RestartFairness ==
    []<>(Outstanding = {}) \/ []<><<Keying(TimerStep)>>_restartVars

RestartFairSpec == RestartSpec /\ RestartFairness

-----------------------------------------------------------------------------
\* A session is keyed only by a request made in that session, although steps of
\* the previous one are still firing ("come-up-not-keyed").
KeyedOnlyByThisSession == running /\ mox => asked

\* Steps left over from a closed session run down: a released radio that stays
\* open reaches receive, and the flags return to rest.
RestartReachesReceive ==
    <>[](running /\ ~requestedMox)
        => <>[](~mox /\ ~XmitBit /\ ~fsmRunning)

-----------------------------------------------------------------------------
\* Comment of close(): "so the final EP2 frames carry MOX=0".
CloseStopsTransmit == ~running => ~XmitBit

\* Comment of fsmKeydownSettled: no TX I/Q before the relay has settled, also
\* in the first transmission after a restart.
MoxRisesCold == [][~XmitBit /\ XmitBit' => ~txa]_restartVars

\* Comment of close(): the tune carrier is disarmed "in lockstep with the MOX
\* clear".
RestartGeneratorMatchesButton == GeneratorMatchesButton
=============================================================================
