----------------------------- MODULE KeyFunnel ------------------------------
(***************************************************************************)
(* What the keying sources see of the MOX sequencer of HL2Stream: the      *)
(* funnel requestMox with the source it records, and a chain of timed      *)
(* steps between receive and transmit that reads the request at each step. *)
(* Attenuator, filter board, modulator, tones and protection are gone, and *)
(* so is the possibility of a second chain: MoxFsm implements this module  *)
(* (MoxFsm!ImplementsFunnel), and this module implements KeyedHost.        *)
(***************************************************************************)
CONSTANTS Sources,  \* PttSource
          Manual    \* PttSource::Manual

ASSUME ManualAssumption == Manual \in Sources

VARIABLES
    requested,  \* requestedMox_
    pttSource,  \* pttSource_
    mox,        \* mox_, the MOX bit on the wire
    active,     \* moxActive_
    stage,      \* the step the outstanding single shot will call, or "rest"
    locks       \* who refuses a key down: txInhibit_, convertLockout_

funnel == <<requested, pttSource, mox, active, stage>>

Stage == {"rest", "KeydownPostMox", "KeydownSettled",
          "KeyupPostSpace", "KeyupTxOff", "KeyupSettled"}

Lock == {"inhibit", "convert"}

FunnelType ==
    /\ requested \in BOOLEAN /\ mox \in BOOLEAN /\ active \in BOOLEAN
    /\ pttSource \in Sources /\ stage \in Stage /\ locks \subseteq Lock

FunnelInit ==
    /\ requested = FALSE /\ mox = FALSE /\ active = FALSE
    /\ pttSource = Manual /\ stage = "rest" /\ locks \in SUBSET {"inhibit"}

-----------------------------------------------------------------------------

\* fsmAdvance()
Started(req) == IF req = mox THEN "rest"
                ELSE IF req THEN "KeydownPostMox" ELSE "KeyupPostSpace"

\* requestMox(on, src)
Request(on, src) ==
    IF on /\ locks # {} THEN UNCHANGED funnel
    ELSE /\ requested' = on
         /\ pttSource' = IF on THEN src ELSE pttSource
         /\ stage' = IF stage = "rest" THEN Started(on) ELSE stage
         /\ UNCHANGED <<mox, active>>

\* setTxInhibit(true) and SessionConverter::convert; only the inhibit looks at
\* a key that is already on the wire.
Engage(l) ==
    /\ l \notin locks /\ (l = "convert" => ~active)
    /\ locks' = locks \union {l}
    /\ IF l = "inhibit" /\ mox THEN Request(FALSE, Manual) ELSE UNCHANGED funnel

Disengage(l) == l \in locks /\ locks' = locks \ {l} /\ UNCHANGED funnel

\* mox_delay has passed.
KeydownPostMox ==
    /\ stage = "KeydownPostMox"
    /\ mox' = requested
    /\ stage' = IF requested THEN "KeydownSettled" ELSE "rest"
    /\ UNCHANGED <<requested, pttSource, active>>

\* rf_delay has passed.
KeydownSettled ==
    /\ stage = "KeydownSettled"
    /\ active' = (active \/ requested)
    /\ stage' = IF requested THEN "rest" ELSE "KeyupPostSpace"
    /\ UNCHANGED <<requested, pttSource, mox>>

\* space_mox_delay has passed; a re-key stays in transmit.
KeyupPostSpace ==
    /\ stage = "KeyupPostSpace"
    /\ stage' = IF requested THEN "rest" ELSE "KeyupTxOff"
    /\ UNCHANGED <<requested, pttSource, mox, active>>

\* tx_stop_delay has passed.
KeyupTxOff ==
    /\ stage = "KeyupTxOff"
    /\ mox' = FALSE /\ stage' = "KeyupSettled"
    /\ UNCHANGED <<requested, pttSource, active>>

\* Mutant: the source is forgotten although the key is pressed again.
KeyupSettledForgetful ==
    /\ stage = "KeyupSettled"
    /\ active' = FALSE /\ pttSource' = Manual
    /\ stage' = Started(requested)
    /\ UNCHANGED <<requested, mox>>

\* ptt_out_delay has passed; a re-key starts over without an off-air edge.
KeyupSettled ==
    /\ stage = "KeyupSettled"
    /\ IF requested THEN UNCHANGED <<active, pttSource>>
                    ELSE active' = FALSE /\ pttSource' = Manual
    /\ stage' = Started(requested)
    /\ UNCHANGED <<requested, mox>>

Chain == KeydownPostMox \/ KeydownSettled \/ KeyupPostSpace \/ KeyupTxOff
             \/ KeyupSettled

FunnelNext ==
    \/ Chain /\ UNCHANGED locks
    \/ \E on \in BOOLEAN, src \in Sources : Request(on, src) /\ UNCHANGED locks
    \/ \E l \in Lock : Engage(l) \/ Disengage(l)

FunnelSpec == FunnelInit /\ [][FunnelNext]_<<funnel, locks>>

-----------------------------------------------------------------------------

Host == INSTANCE KeyedHost

\* The on-air edges of the funnel only ever follow its request.
ImplementsHost == Host!Spec
=============================================================================
