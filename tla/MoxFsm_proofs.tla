--------------------------- MODULE MoxFsm_proofs ----------------------------
(***************************************************************************)
(* Proofs about the MOX/PTT sequencer, for every set of keying sources and *)
(* every range of the step attenuator.                                        *)
(*                                                                         *)
(* The argument: a running chain is one outstanding single shot, and which *)
(* step that shot will call fixes where the MOX bit and the modulator are. *)
(* ChainInv says so; it is inductive and every safety property follows.    *)
(*                                                                         *)
(* The last part is about closing and re-opening the stream, which breaks  *)
(* ChainInv: single shots of the old session are still outstanding.  The   *)
(* theorem there needs no invariant of the chain.                          *)
(***************************************************************************)
EXTENDS StreamRestart, TLAPS

\* At most the shot s is outstanding.
Only(s) == \A t \in Step : pending[t] = IF t = s THEN 1 ELSE 0

\* Where the radio is while the chain waits to call s.
AtStep(s) ==
    /\ s \in {"KeydownPostMox", "KeyupSettled"} => ~mox
    /\ s \in {"KeydownSettled", "KeyupPostSpace", "KeyupTxOff"} => mox
    /\ s \in {"KeydownSettled", "KeyupTxOff"} => ~txa

ChainInv ==
    /\ IF fsmRunning
       THEN \E s \in Step : Only(s) /\ AtStep(s)
       ELSE /\ \A t \in Step : pending[t] = 0
            /\ mox = requestedMox
    /\ XmitBit = mox
    /\ txa => mox
    /\ mox \/ pending["KeydownPostMox"] > 0 => txStepAttn >= leastAtt

IInv == TypeOK /\ ChainInv

-----------------------------------------------------------------------------
(* Lemmas about the funnel: what any caller of requestMox gets.            *)

\* Whatever the argument, the funnel keeps types: the operators it is built
\* from map outstanding shots to outstanding shots.
LEMMA ScheduledType ==
    ASSUME NEW p \in [Step -> Nat], NEW s \in Step
    PROVE  /\ Scheduled(p, s) \in [Step -> Nat]
           /\ \A t \in Step : Scheduled(p, s)[t] = IF t = s THEN p[t] + 1 ELSE p[t]
<1> QED  BY DEF Scheduled

\* A timer that fires is taken off the count of its step, and of no other.
LEMMA FiredType ==
    ASSUME NEW p \in [Step -> Nat], NEW s \in Step, p[s] > 0
    PROVE  /\ Fired(p, s) \in [Step -> Nat]
           /\ \A t \in Step : Fired(p, s)[t] = IF t = s THEN p[t] - 1 ELSE p[t]
<1> QED  BY DEF Fired

\* What ATT-on-TX asks for is a level of the attenuator.
LEMMA AttOnTxType ==
    ASSUME NEW enabled \in BOOLEAN, NEW db \in Att
    PROVE  AttOnTx(enabled, db) \in Att
BY AttAssumption DEF AttOnTx, Att

\* So is any request, once clamped.
LEMMA ClampedType == ASSUME NEW db \in Int PROVE Clamped(db) \in Att
BY AttAssumption DEF Clamped, Att

\* fsmAdvance from rest re-establishes the chain invariant for the next state
\* whenever the wire and the modulator are left alone.
LEMMA AdvanceFromRest ==
    ASSUME TypeOK, NEW req \in BOOLEAN, NEW p \in [Step -> Nat],
           \A t \in Step : p[t] = 0,
           XmitBit = mox, txa => mox, mox => txStepAttn >= leastAtt,
           FsmAdvance(req, p),
           requestedMox' = req, UNCHANGED <<wireVars, txa>>
    PROVE  ChainInv'
<1> USE DEF TypeOK, wireVars, Step
<1>1. CASE req /\ ~mox
  <2>1. /\ fsmRunning' /\ txStepAttn' = attOnTx /\ leastAtt' = attOnTx
        /\ pending' = Scheduled(p, "KeydownPostMox")
    BY <1>1 DEF FsmAdvance
  <2>2. Only("KeydownPostMox")'
    <3>1. "KeydownPostMox" \in Step
      OBVIOUS
    <3>2. \A t \in Step : Scheduled(p, "KeydownPostMox")[t] =
                             IF t = "KeydownPostMox" THEN p[t] + 1 ELSE p[t]
      BY <3>1, ScheduledType
    <3> QED
      BY <2>1, <3>2 DEF Only
  <2>3. AtStep("KeydownPostMox")'
    BY <1>1 DEF AtStep
  <2>4. txStepAttn' >= leastAtt'
    <3>1. attOnTx \in Att
      BY AttOnTxType DEF attOnTx
    <3> QED
      BY <2>1, <3>1 DEF Att
  <2> QED
    BY <1>1, <2>1, <2>2, <2>3, <2>4 DEF ChainInv
<1>2. CASE ~req /\ mox
  <2>1. fsmRunning' /\ pending' = Scheduled(p, "KeyupPostSpace")
        /\ UNCHANGED <<txStepAttn, leastAtt>>
    BY <1>2 DEF FsmAdvance, attVars
  <2>2. Only("KeyupPostSpace")'
    <3>1. "KeyupPostSpace" \in Step
      OBVIOUS
    <3>2. \A t \in Step : Scheduled(p, "KeyupPostSpace")[t] =
                             IF t = "KeyupPostSpace" THEN p[t] + 1 ELSE p[t]
      BY <3>1, ScheduledType
    <3> QED
      BY <2>1, <3>2 DEF Only
  <2>3. AtStep("KeyupPostSpace")'
    BY <1>2 DEF AtStep
  <2> QED
    BY <1>2, <2>1, <2>2, <2>3 DEF ChainInv
<1>3. CASE req = mox
  <2>1. ~fsmRunning' /\ pending' = p /\ UNCHANGED <<txStepAttn, leastAtt>>
    BY <1>3 DEF FsmAdvance, attVars
  <2> QED
    BY <1>3, <2>1 DEF ChainInv
<1> QED
  BY <1>1, <1>2, <1>3

\* Starting a chain keeps the types of what it writes.
LEMMA AdvanceTyped ==
    ASSUME TypeOK, NEW req \in BOOLEAN, NEW p \in [Step -> Nat],
           FsmAdvance(req, p)
    PROVE  /\ fsmRunning' \in BOOLEAN
           /\ pending' \in [Step -> Nat]
           /\ savedTxStepAttn' \in Att
           /\ txStepAttn' \in Att /\ leastAtt' \in Att
           /\ ocTx' \in BOOLEAN
<1>1. "KeydownPostMox" \in Step /\ "KeyupPostSpace" \in Step
  BY DEF Step
<1>2. /\ Scheduled(p, "KeydownPostMox") \in [Step -> Nat]
      /\ Scheduled(p, "KeyupPostSpace") \in [Step -> Nat]
  BY <1>1, ScheduledType
<1>3. fsmRunning' \in BOOLEAN /\ pending' \in [Step -> Nat]
  BY <1>2 DEF FsmAdvance
<1>4. ocTx' \in BOOLEAN
  BY DEF FsmAdvance, TypeOK
<1>5. /\ savedTxStepAttn' \in Att
      /\ txStepAttn' \in Att /\ leastAtt' \in Att
  <2>1. attOnTx \in Att
    BY AttOnTxType DEF attOnTx, TypeOK
  <2> QED
    BY <2>1 DEF FsmAdvance, TypeOK, attVars
<1> QED
  BY <1>3, <1>4, <1>5

\* Any call of the funnel, from rest or into a running chain.
LEMMA FunnelTyped ==
    ASSUME TypeOK, NEW on \in BOOLEAN, NEW src \in Sources, RequestMox(on, src)
    PROVE  /\ requestedMox' \in BOOLEAN /\ fsmRunning' \in BOOLEAN
           /\ pttSource' \in Sources
           /\ pending' \in [Step -> Nat]
           /\ savedTxStepAttn' \in Att
           /\ txStepAttn' \in Att /\ leastAtt' \in Att
           /\ ocTx' \in BOOLEAN
<1>1. CASE on /\ (txInhibit \/ convertLockout)
  BY <1>1 DEF RequestMox, TypeOK, funnelVars, attVars
<1>2. CASE ~(on /\ (txInhibit \/ convertLockout))
  <2>1. requestedMox' = on /\ pttSource' = (IF on THEN src ELSE pttSource)
        /\ AdvanceIfIdle(on)
    BY <1>2 DEF RequestMox
  <2>2. CASE fsmRunning
    BY <2>1, <2>2 DEF AdvanceIfIdle, TypeOK, attVars
  <2>3. CASE ~fsmRunning
    <3>1. FsmAdvance(on, pending) /\ pending \in [Step -> Nat]
      BY <2>1, <2>3 DEF AdvanceIfIdle, TypeOK
    <3> QED
      BY <2>1, <3>1, AdvanceTyped DEF TypeOK
  <2> QED
    BY <2>2, <2>3
<1> QED
  BY <1>1, <1>2

\* A request keeps the chain invariant: it starts a chain only at rest.
LEMMA FunnelKeepsChain ==
    ASSUME IInv, NEW on \in BOOLEAN, NEW src \in Sources, RequestMox(on, src),
           UNCHANGED <<wireVars, txa>>
    PROVE  ChainInv'
<1> USE DEF IInv
<1>1. CASE on /\ (txInhibit \/ convertLockout)
  BY <1>1 DEF RequestMox, funnelVars, attVars, wireVars, ChainInv, Only, AtStep
<1>2. CASE ~(on /\ (txInhibit \/ convertLockout))
  <2>1. requestedMox' = on /\ AdvanceIfIdle(on)
    BY <1>2 DEF RequestMox
  <2>2. CASE fsmRunning
    BY <2>1, <2>2 DEF AdvanceIfIdle, attVars, wireVars, ChainInv, Only, AtStep
  <2>3. CASE ~fsmRunning
    <3>1. FsmAdvance(on, pending) /\ pending \in [Step -> Nat]
          /\ \A t \in Step : pending[t] = 0
      BY <2>1, <2>3 DEF AdvanceIfIdle, TypeOK, ChainInv
    <3> QED
      BY <2>1, <3>1, AdvanceFromRest DEF ChainInv
  <2> QED
    BY <2>2, <2>3
<1> QED
  BY <1>1, <1>2

\* Steps that leave the sequencer and the wire alone.
LEMMA ChainFrame ==
    ASSUME ChainInv,
           UNCHANGED <<requestedMox, fsmRunning, pending, wireVars, txa,
                       txStepAttn, leastAtt>>
    PROVE  ChainInv'
BY DEF ChainInv, Only, AtStep, wireVars

-----------------------------------------------------------------------------
(* The steps of the chain.  Each fires the one outstanding shot.           *)

\* A shot that is outstanding is the only one, and fsmRunning_ is set.
LEMMA FiringShot ==
    ASSUME IInv, NEW s \in Step, pending[s] > 0
    PROVE  /\ fsmRunning /\ AtStep(s) /\ Only(s)
           /\ \A t \in Step : Fired(pending, s)[t] = 0
           /\ Fired(pending, s) \in [Step -> Nat]
<1>1. pending \in [Step -> Nat]
  BY DEF IInv, TypeOK
<1>2. fsmRunning
  BY DEF IInv, ChainInv
<1>3. PICK r \in Step : Only(r) /\ AtStep(r)
  BY <1>2 DEF IInv, ChainInv
<1>4. r = s
  BY <1>3 DEF Only
<1> QED
  BY <1>1, <1>2, <1>3, <1>4, FiredType DEF Only

\* The shot that follows is again the only one.
LEMMA NextShot ==
    ASSUME NEW p \in [Step -> Nat], \A t \in Step : p[t] = 0,
           NEW s \in Step, pending' = Scheduled(p, s)
    PROVE  Only(s)' /\ pending' \in [Step -> Nat]
<1>1. \A t \in Step : Scheduled(p, s)[t] = IF t = s THEN p[t] + 1 ELSE p[t]
  BY ScheduledType
<1>2. pending' \in [Step -> Nat]
  BY ScheduledType
<1> QED
  BY <1>1, <1>2 DEF Only

\* The first key-down timer keeps the chain invariant.
LEMMA KeydownPostMoxKeeps == IInv /\ KeydownPostMox => ChainInv'
<1> SUFFICES ASSUME IInv, KeydownPostMox PROVE ChainInv'
  OBVIOUS
<1> DEFINE left == Fired(pending, "KeydownPostMox")
<1>1. "KeydownPostMox" \in Step /\ "KeydownSettled" \in Step
  BY DEF Step
<1>2. /\ fsmRunning /\ AtStep("KeydownPostMox")
      /\ \A t \in Step : left[t] = 0
      /\ left \in [Step -> Nat]
  BY <1>1, FiringShot DEF KeydownPostMox
<1>3. ~mox /\ ~txa /\ txStepAttn >= leastAtt
  BY <1>1, <1>2 DEF AtStep, IInv, ChainInv, KeydownPostMox
<1>4. UNCHANGED <<requestedMox, txa, leastAtt>>
  BY DEF KeydownPostMox, modVars
<1>5. CASE ~requestedMox
  <2>1. ~fsmRunning' /\ pending' = left /\ UNCHANGED <<mox, XmitBit>>
    BY <1>5 DEF KeydownPostMox, wireVars
  <2>2. mox = requestedMox /\ XmitBit = mox
    BY <1>3, <1>5 DEF IInv, TypeOK, ChainInv
  <2> QED
    BY <1>1, <1>2, <1>3, <1>4, <2>1, <2>2 DEF ChainInv
<1>6. CASE requestedMox
  <2>1. /\ mox' /\ XmitBit' /\ pending' = Scheduled(left, "KeydownSettled")
        /\ UNCHANGED <<txStepAttn, fsmRunning>>
    BY <1>6 DEF KeydownPostMox
  <2>2. Only("KeydownSettled")'
    BY <1>1, <1>2, <2>1, NextShot
  <2>3. AtStep("KeydownSettled")'
    BY <1>3, <1>4, <2>1 DEF AtStep
  <2>4. XmitBit' = mox' /\ txStepAttn' >= leastAtt' /\ (txa' => mox')
    BY <1>3, <1>4, <1>6, <2>1 DEF KeydownPostMox
  <2> QED
    BY <1>1, <1>2, <1>3, <1>4, <2>1, <2>2, <2>3, <2>4 DEF ChainInv
<1> QED
  BY <1>5, <1>6

\* The last key-down timer keeps it.
LEMMA KeydownSettledKeeps == IInv /\ KeydownSettled => ChainInv'
<1> SUFFICES ASSUME IInv, KeydownSettled PROVE ChainInv'
  OBVIOUS
<1> DEFINE left == Fired(pending, "KeydownSettled")
<1>1. "KeydownSettled" \in Step /\ "KeyupPostSpace" \in Step
      /\ "KeydownPostMox" \in Step
  BY DEF Step
<1>2. /\ fsmRunning /\ AtStep("KeydownSettled")
      /\ \A t \in Step : left[t] = 0
      /\ left \in [Step -> Nat]
  BY <1>1, FiringShot DEF KeydownSettled
<1>3. mox /\ ~txa /\ XmitBit = mox /\ txStepAttn >= leastAtt
  BY <1>1, <1>2 DEF AtStep, IInv, ChainInv
<1>4. UNCHANGED <<requestedMox, mox, XmitBit, txStepAttn, leastAtt>>
  BY DEF KeydownSettled, wireVars, attVars
<1>5. CASE ~requestedMox
  <2>1. /\ pending' = Scheduled(left, "KeyupPostSpace")
        /\ UNCHANGED <<fsmRunning, txa>>
    BY <1>5 DEF KeydownSettled, modVars
  <2>2. Only("KeyupPostSpace")'
    BY <1>1, <1>2, <2>1, NextShot
  <2>3. AtStep("KeyupPostSpace")'
    BY <1>3, <1>4 DEF AtStep
  <2> QED
    BY <1>1, <1>2, <1>3, <1>4, <2>1, <2>2, <2>3 DEF ChainInv
<1>6. CASE requestedMox
  <2>1. ~fsmRunning' /\ pending' = left
    BY <1>6 DEF KeydownSettled
  <2>2. mox = requestedMox
    BY <1>3, <1>6 DEF IInv, TypeOK
  <2> QED
    BY <1>1, <1>2, <1>3, <1>4, <2>1, <2>2 DEF ChainInv
<1> QED
  BY <1>5, <1>6

\* The first key-up timer keeps it.
LEMMA KeyupPostSpaceKeeps == IInv /\ KeyupPostSpace => ChainInv'
<1> SUFFICES ASSUME IInv, KeyupPostSpace PROVE ChainInv'
  OBVIOUS
<1> DEFINE left == Fired(pending, "KeyupPostSpace")
<1>1. "KeyupPostSpace" \in Step /\ "KeyupTxOff" \in Step
      /\ "KeydownPostMox" \in Step
  BY DEF Step
<1>2. /\ fsmRunning /\ AtStep("KeyupPostSpace")
      /\ \A t \in Step : left[t] = 0
      /\ left \in [Step -> Nat]
  BY <1>1, FiringShot DEF KeyupPostSpace
<1>3. mox /\ XmitBit = mox /\ txStepAttn >= leastAtt
  BY <1>1, <1>2 DEF AtStep, IInv, ChainInv
<1>4. UNCHANGED <<requestedMox, mox, XmitBit, txStepAttn, leastAtt>>
  BY DEF KeyupPostSpace, wireVars, attVars
<1>5. CASE requestedMox
  <2>1. ~fsmRunning' /\ pending' = left
    BY <1>5 DEF KeyupPostSpace
  <2>2. mox = requestedMox
    BY <1>3, <1>5 DEF IInv, TypeOK
  <2> QED
    BY <1>1, <1>2, <1>3, <1>4, <2>1, <2>2 DEF ChainInv
<1>6. CASE ~requestedMox
  <2>1. /\ ~txa' /\ pending' = Scheduled(left, "KeyupTxOff")
        /\ UNCHANGED fsmRunning
    BY <1>6 DEF KeyupPostSpace, TxaStop
  <2>2. Only("KeyupTxOff")'
    BY <1>1, <1>2, <2>1, NextShot
  <2>3. AtStep("KeyupTxOff")'
    BY <1>3, <1>4, <2>1 DEF AtStep
  <2> QED
    BY <1>1, <1>2, <1>3, <1>4, <2>1, <2>2, <2>3 DEF ChainInv
<1> QED
  BY <1>5, <1>6

\* The key-up timer that takes the wire bit down keeps it.
LEMMA KeyupTxOffKeeps == IInv /\ KeyupTxOff => ChainInv'
<1> SUFFICES ASSUME IInv, KeyupTxOff PROVE ChainInv'
  OBVIOUS
<1> DEFINE left == Fired(pending, "KeyupTxOff")
<1>1. "KeyupTxOff" \in Step /\ "KeyupSettled" \in Step
      /\ "KeydownPostMox" \in Step
  BY DEF Step
<1>2. /\ fsmRunning /\ AtStep("KeyupTxOff")
      /\ \A t \in Step : left[t] = 0
      /\ left \in [Step -> Nat]
  BY <1>1, FiringShot DEF KeyupTxOff
<1>3. ~mox' /\ XmitBit' = mox' /\ ~txa /\ UNCHANGED <<fsmRunning, txa>>
  BY <1>2 DEF AtStep, KeyupTxOff
<1>4. Only("KeyupSettled")'
  BY <1>1, <1>2, NextShot DEF KeyupTxOff
<1>5. AtStep("KeyupSettled")'
  BY <1>3 DEF AtStep
<1>6. ~(pending["KeydownPostMox"] > 0)'
  BY <1>1, <1>4 DEF Only
<1> QED
  BY <1>1, <1>2, <1>3, <1>4, <1>5, <1>6 DEF ChainInv

\* The last key-up timer keeps it, also when it starts the next chain.
LEMMA KeyupSettledKeeps == IInv /\ KeyupSettled => ChainInv'
<1> SUFFICES ASSUME IInv, KeyupSettled PROVE ChainInv'
  OBVIOUS
<1> DEFINE left == Fired(pending, "KeyupSettled")
<1>1. "KeyupSettled" \in Step /\ "KeydownPostMox" \in Step
  BY DEF Step
<1>2. /\ fsmRunning /\ AtStep("KeyupSettled")
      /\ \A t \in Step : left[t] = 0
      /\ left \in [Step -> Nat]
  BY <1>1, FiringShot DEF KeyupSettled
<1>3. ~mox /\ XmitBit = mox /\ ~txa
  BY <1>2 DEF AtStep, IInv, ChainInv
<1>4. UNCHANGED <<requestedMox, wireVars, txa>>
  BY DEF KeyupSettled, modVars
<1>5. CASE requestedMox
  <2>1. FsmAdvance(TRUE, left)
    BY <1>5 DEF KeyupSettled
  <2>2. requestedMox' = TRUE
    BY <1>4, <1>5 DEF IInv, TypeOK
  <2>3. TypeOK
    BY DEF IInv
  <2> QED
    BY <1>2, <1>3, <1>4, <2>1, <2>2, <2>3, AdvanceFromRest
<1>6. CASE ~requestedMox
  <2>1. ~fsmRunning' /\ pending' = left
    BY <1>6 DEF KeyupSettled, SettleInReceive
  <2>2. mox = requestedMox
    BY <1>3, <1>6 DEF IInv, TypeOK
  <2> QED
    BY <1>1, <1>2, <1>3, <1>4, <2>1, <2>2 DEF ChainInv, wireVars
<1> QED
  BY <1>5, <1>6

-----------------------------------------------------------------------------
(* Type correctness, one action at a time.                                 *)

\* Everything TypeOK says of the variables the funnel leaves alone.
RestTyped ==
    /\ moxActive \in BOOLEAN /\ mox \in BOOLEAN /\ XmitBit \in BOOLEAN
    /\ txa \in BOOLEAN /\ injectTxIq \in BOOLEAN
    /\ tone \in Tone /\ postgen \in Tone
    /\ txInhibit \in BOOLEAN /\ convertLockout \in BOOLEAN
    /\ safetyTimer \in BOOLEAN /\ staleTimer \in BOOLEAN
    /\ txTimeoutBypass \in BOOLEAN
    /\ swrEval \in BOOLEAN /\ swrTripped \in BOOLEAN
    /\ attOnTxEnabled \in BOOLEAN /\ attOnTxDb \in Att

\* A step that calls the funnel and types the rest is typed.
LEMMA FunnelStepTyped ==
    ASSUME TypeOK, NEW on \in BOOLEAN, NEW src \in Sources, RequestMox(on, src),
           RestTyped'
    PROVE  TypeOK'
BY FunnelTyped DEF TypeOK, RestTyped

\* So is a step that leaves the funnel alone.
LEMMA OtherStepTyped ==
    ASSUME TypeOK, UNCHANGED funnelVars, RestTyped'
    PROVE  TypeOK'
BY DEF TypeOK, RestTyped, funnelVars, attVars

\* Every timer keeps the types.
LEMMA TimerStepTyped == IInv /\ TimerStep => TypeOK'
<1> SUFFICES ASSUME IInv, TimerStep PROVE TypeOK'
  OBVIOUS
<1>0. TypeOK
  BY DEF IInv
<1>1. /\ "KeydownPostMox" \in Step /\ "KeydownSettled" \in Step
      /\ "KeyupPostSpace" \in Step /\ "KeyupTxOff" \in Step
      /\ "KeyupSettled" \in Step
  BY DEF Step
<1>2. ASSUME NEW s \in Step, NEW t \in Step, pending[s] > 0
      PROVE  /\ Fired(pending, s) \in [Step -> Nat]
             /\ Scheduled(Fired(pending, s), t) \in [Step -> Nat]
  BY <1>2, FiringShot, ScheduledType
<1>3. CASE KeydownPostMox
  <2>1. pending' \in [Step -> Nat]
    BY <1>1, <1>2, <1>3 DEF KeydownPostMox
  <2>2. /\ mox' \in BOOLEAN /\ XmitBit' \in BOOLEAN /\ fsmRunning' \in BOOLEAN
        /\ ocTx' \in BOOLEAN /\ txStepAttn' \in Att /\ leastAtt' \in Att
    BY <1>0, <1>3 DEF KeydownPostMox, TypeOK, wireVars
  <2> QED
    BY <1>0, <1>3, <2>1, <2>2 DEF KeydownPostMox, TypeOK, modVars, toneVars,
       lockVars, guardVars, setVars
<1>4. CASE KeydownSettled
  <2>1. pending' \in [Step -> Nat]
    BY <1>1, <1>2, <1>4 DEF KeydownSettled
  <2>2. /\ txa' \in BOOLEAN /\ injectTxIq' \in BOOLEAN /\ fsmRunning' \in BOOLEAN
        /\ moxActive' \in BOOLEAN /\ safetyTimer' \in BOOLEAN
        /\ staleTimer' \in BOOLEAN
        /\ swrEval' \in BOOLEAN /\ swrTripped' \in BOOLEAN
        /\ tone' \in Tone /\ postgen' \in Tone
    BY <1>0, <1>4 DEF KeydownSettled, EnterOnAir, TypeOK, modVars, toneVars,
       guardVars
  <2> QED
    BY <1>0, <1>4, <2>1, <2>2 DEF KeydownSettled, TypeOK, wireVars, lockVars,
       setVars, attVars
<1>5. CASE KeyupPostSpace
  <2>1. pending' \in [Step -> Nat]
    BY <1>1, <1>2, <1>5 DEF KeyupPostSpace
  <2>2. txa' \in BOOLEAN /\ fsmRunning' \in BOOLEAN
    BY <1>0, <1>5 DEF KeyupPostSpace, TxaStop, TypeOK
  <2> QED
    BY <1>0, <1>5, <2>1, <2>2 DEF KeyupPostSpace, TypeOK, wireVars, toneVars,
       lockVars, guardVars, setVars, attVars
<1>6. CASE KeyupTxOff
  <2>1. pending' \in [Step -> Nat]
    BY <1>1, <1>2, <1>6 DEF KeyupTxOff
  <2>2. RestTyped'
    BY <1>0, <1>6 DEF KeyupTxOff, TypeOK, RestTyped, toneVars, lockVars,
       guardVars, setVars
  <2> QED
    BY <1>0, <1>6, <2>1, <2>2 DEF KeyupTxOff, TypeOK, RestTyped, attVars
<1>7. CASE KeyupSettled
  <2> DEFINE left == Fired(pending, "KeyupSettled")
  <2>1. left \in [Step -> Nat]
    BY <1>1, <1>2, <1>7 DEF KeyupSettled
  <2>2. CASE requestedMox
    <3>1. FsmAdvance(TRUE, left)
      BY <1>7, <2>2 DEF KeyupSettled
    <3>2. /\ fsmRunning' \in BOOLEAN /\ pending' \in [Step -> Nat]
          /\ savedTxStepAttn' \in Att
          /\ txStepAttn' \in Att /\ leastAtt' \in Att /\ ocTx' \in BOOLEAN
      BY <1>0, <2>1, <3>1, AdvanceTyped
    <3> QED
      BY <1>0, <1>7, <2>2, <3>2 DEF KeyupSettled, TypeOK, wireVars, modVars,
         toneVars, lockVars, guardVars, setVars
  <2>3. CASE ~requestedMox
    <3>1. tone' \in Tone /\ postgen' \in Tone
      BY <1>0, <1>7, <2>3 DEF KeyupSettled, SettleInReceive, LeaveOnAir,
         ToneOff, TypeOK, Tone
    <3>2. pttSource' \in Sources
      BY <1>7, <2>3, SourcesAssumption DEF KeyupSettled, SettleInReceive
    <3> QED
      BY <1>0, <1>7, <2>1, <2>3, <3>1, <3>2 DEF KeyupSettled, SettleInReceive,
         LeaveOnAir, TypeOK, wireVars, modVars, lockVars, setVars
  <2> QED
    BY <2>2, <2>3
<1> QED
  BY <1>3, <1>4, <1>5, <1>6, <1>7 DEF TimerStep

\* So does everything the operator does.
LEMMA OperatorTyped == TypeOK /\ Operator => TypeOK'
<1> SUFFICES ASSUME TypeOK, Operator PROVE TypeOK'
  OBVIOUS
<1>0. Manual \in Sources /\ RestTyped
  BY SourcesAssumption DEF TypeOK, RestTyped
<1>1. ASSUME NEW src \in Sources, Press(src) PROVE TypeOK'
  <2>1. /\ RequestMox(TRUE, src)
        /\ UNCHANGED <<wireVars, modVars, toneVars, lockVars, guardVars, setVars,
                       moxActive>>
    BY <1>1 DEF Press
  <2>2. RestTyped'
    BY <1>0, <2>1 DEF RestTyped, wireVars, modVars, toneVars, lockVars,
       guardVars, setVars
  <2> QED
    BY <2>1, <2>2, FunnelStepTyped
<1>2. ASSUME NEW src \in Sources, Release(src) PROVE TypeOK'
  <2>1. /\ RequestMox(FALSE, src)
        /\ UNCHANGED <<wireVars, modVars, toneVars, lockVars, guardVars, setVars,
                       moxActive>>
    BY <1>2 DEF Release
  <2>2. RestTyped'
    BY <1>0, <2>1 DEF RestTyped, wireVars, modVars, toneVars, lockVars,
       guardVars, setVars
  <2> QED
    BY <2>1, <2>2, FunnelStepTyped
<1>3. CASE TuneClick
  <2>1. \E on \in BOOLEAN : RequestMox(on, Manual)
    BY <1>3 DEF TuneClick
  <2>2. tone' \in Tone /\ postgen' \in Tone /\ swrTripped' \in BOOLEAN
    BY <1>0, <1>3 DEF TuneClick, toneVars, RestTyped, Tone
  <2>3. RestTyped'
    BY <1>0, <1>3, <2>2 DEF TuneClick, RestTyped, wireVars, modVars, lockVars,
       setVars
  <2> QED
    BY <1>0, <2>1, <2>3, FunnelStepTyped
<1>4. CASE TwoToneClick
  <2>1. (tone = "off") \in BOOLEAN /\ RequestMox(tone = "off", Manual)
    BY <1>4 DEF TwoToneClick
  <2>2. tone' \in Tone /\ postgen' \in Tone
    BY <1>4 DEF TwoToneClick, Tone
  <2>3. RestTyped'
    BY <1>0, <1>4, <2>2 DEF TwoToneClick, RestTyped, wireVars, modVars,
       lockVars, guardVars, setVars
  <2> QED
    BY <1>0, <2>1, <2>3, FunnelStepTyped
<1>5. ASSUME NEW on \in BOOLEAN, SetTxInhibit(on) PROVE TypeOK'
  <2>1. RestTyped'
    BY <1>0, <1>5 DEF SetTxInhibit, RestTyped, wireVars, modVars, toneVars,
       guardVars, setVars
  <2>2. CASE RequestMox(FALSE, Manual)
    BY <1>0, <2>1, <2>2, FunnelStepTyped
  <2>3. CASE UNCHANGED funnelVars
    BY <2>1, <2>3, OtherStepTyped
  <2> QED
    BY <1>5, <2>2, <2>3 DEF SetTxInhibit
<1>6. ASSUME NEW on \in BOOLEAN, SetSwrProtect(on) PROVE TypeOK'
  BY <1>6 DEF SetSwrProtect, TypeOK, funnelVars, attVars, wireVars, modVars,
     toneVars, lockVars, setVars
<1>7. CASE ConvertStart \/ ConvertFinished
  <2>1. UNCHANGED funnelVars /\ convertLockout' \in BOOLEAN
    BY <1>7 DEF ConvertStart, ConvertFinished
  <2>2. RestTyped'
    BY <1>0, <1>7, <2>1 DEF ConvertStart, ConvertFinished, RestTyped, wireVars,
       modVars, toneVars, guardVars, setVars
  <2> QED
    BY <2>1, <2>2, OtherStepTyped
<1>8. CASE SetTxTimeoutBypass \/ SetTxTimeoutSec
  <2>1. UNCHANGED funnelVars
    BY <1>8 DEF SetTxTimeoutBypass, SetTxTimeoutSec
  <2>2. txTimeoutBypass' \in BOOLEAN
    BY <1>0, <1>8 DEF SetTxTimeoutBypass, SetTxTimeoutSec, RestTyped, setVars
  <2>3. safetyTimer' \in BOOLEAN /\ staleTimer' \in BOOLEAN
    BY <1>0, <1>8, <2>2 DEF SetTxTimeoutBypass, SetTxTimeoutSec, RestTyped
  <2>4. RestTyped'
    BY <1>0, <1>8, <2>2, <2>3 DEF SetTxTimeoutBypass, SetTxTimeoutSec,
       RestTyped, wireVars, modVars, toneVars, lockVars, setVars
  <2> QED
    BY <2>1, <2>4, OtherStepTyped
<1>9. ASSUME NEW on \in BOOLEAN, SetAttOnTxEnabled(on) PROVE TypeOK'
  <2>1. attOnTxEnabled' \in BOOLEAN /\ UNCHANGED attOnTxDb
    BY <1>9 DEF SetAttOnTxEnabled
  <2>2. txStepAttn' \in Att /\ leastAtt' \in Att
    BY <1>9, AttOnTxType DEF SetAttOnTxEnabled, Attenuate, TypeOK
  <2>3. RestTyped'
    BY <1>0, <1>9, <2>1 DEF SetAttOnTxEnabled, RestTyped, wireVars, modVars,
       toneVars, lockVars, guardVars
  <2> QED
    BY <1>9, <2>2, <2>3 DEF SetAttOnTxEnabled, TypeOK, RestTyped
<1>10. ASSUME NEW db \in -1 .. MaxAtt + 1, SetAttOnTxDb(db) PROVE TypeOK'
  <2>1. Clamped(db) \in Att
    BY AttAssumption, ClampedType
  <2>2. attOnTxDb' \in Att /\ UNCHANGED attOnTxEnabled
    BY <1>10, <2>1 DEF SetAttOnTxDb
  <2>3. txStepAttn' \in Att /\ leastAtt' \in Att
    BY <1>10, <2>1 DEF SetAttOnTxDb, Attenuate, TypeOK
  <2>4. RestTyped'
    BY <1>0, <1>10, <2>2 DEF SetAttOnTxDb, RestTyped, wireVars, modVars,
       toneVars, lockVars, guardVars
  <2> QED
    BY <1>10, <2>3, <2>4 DEF SetAttOnTxDb, TypeOK, RestTyped
<1>11. CASE Retune
  <2>1. RestTyped'
    BY <1>0, <1>11 DEF Retune, RestTyped, wireVars, modVars, toneVars, lockVars,
       guardVars, setVars
  <2> QED
    BY <1>11, <2>1 DEF Retune, TypeOK, RestTyped, attVars
<1> QED
  BY <1>1, <1>2, <1>3, <1>4, <1>5, <1>6, <1>7, <1>8, <1>9, <1>10, <1>11 DEF Operator

\* So do the protections.
LEMMA ProtectionTyped == TypeOK /\ Protection => TypeOK'
<1> SUFFICES ASSUME TypeOK, Protection PROVE TypeOK'
  OBVIOUS
<1>0. Manual \in Sources /\ RestTyped
  BY SourcesAssumption DEF TypeOK, RestTyped
<1>1. CASE TxSafetyTimeout
  <2>1. RequestMox(FALSE, Manual) /\ RestTyped'
    BY <1>0, <1>1 DEF TxSafetyTimeout, RestTyped, wireVars, modVars, toneVars,
       lockVars, setVars
  <2> QED
    BY <1>0, <2>1, FunnelStepTyped
<1>2. CASE SwrTrip
  <2>1. RequestMox(FALSE, Manual) /\ RestTyped'
    BY <1>0, <1>2 DEF SwrTrip, RestTyped, wireVars, modVars, toneVars, lockVars,
       setVars
  <2> QED
    BY <1>0, <2>1, FunnelStepTyped
<1>3. CASE SwrFold
  BY <1>3 DEF SwrFold, TypeOK, funnelVars, attVars, wireVars, modVars, toneVars,
     lockVars, setVars
<1> QED
  BY <1>1, <1>2, <1>3 DEF Protection

-----------------------------------------------------------------------------
(* The chain invariant over the steps that are not of the chain.           *)

\* A new ATT-on-TX level, applied at once or later, is one the bound counts in.
LEMMA AttenuateKeeps ==
    ASSUME IInv, NEW level \in Att, Attenuate(level),
           UNCHANGED <<requestedMox, fsmRunning, pending, wireVars, txa>>
    PROVE  ChainInv'
<1>1. mox \in BOOLEAN /\ txStepAttn \in Int /\ leastAtt \in Int /\ level \in Int
  BY AttAssumption DEF IInv, TypeOK, Att
<1>2. mox \/ pending["KeydownPostMox"] > 0 => txStepAttn >= leastAtt
  BY DEF IInv, ChainInv
<1>3. mox' \/ pending'["KeydownPostMox"] > 0 => txStepAttn' >= leastAtt'
  BY <1>1, <1>2 DEF Attenuate, wireVars
<1> QED
  BY <1>3 DEF IInv, ChainInv, Only, AtStep, wireVars

\* Everything the operator does keeps the chain invariant.
LEMMA OperatorKeeps == IInv /\ Operator => ChainInv'
<1> SUFFICES ASSUME IInv, Operator PROVE ChainInv'
  OBVIOUS
<1>0. Manual \in Sources /\ ChainInv
  BY SourcesAssumption DEF IInv
<1>1. ASSUME NEW src \in Sources, Press(src) PROVE ChainInv'
  BY <1>1, FunnelKeepsChain DEF Press, modVars
<1>2. ASSUME NEW src \in Sources, Release(src) PROVE ChainInv'
  BY <1>2, FunnelKeepsChain DEF Release, modVars
<1>3. CASE TuneClick
  <2>1. (\E on \in BOOLEAN : RequestMox(on, Manual)) /\ UNCHANGED <<wireVars, txa>>
    BY <1>3 DEF TuneClick, modVars
  <2> QED
    BY <1>0, <2>1, FunnelKeepsChain
<1>4. CASE TwoToneClick
  <2>1. /\ (tone = "off") \in BOOLEAN /\ RequestMox(tone = "off", Manual)
        /\ UNCHANGED <<wireVars, txa>>
    BY <1>4 DEF TwoToneClick, modVars
  <2> QED
    BY <1>0, <2>1, FunnelKeepsChain
<1>5. ASSUME NEW on \in BOOLEAN, SetTxInhibit(on) PROVE ChainInv'
  <2>1. UNCHANGED <<wireVars, txa>>
    BY <1>5 DEF SetTxInhibit, modVars
  <2>2. CASE RequestMox(FALSE, Manual)
    BY <1>0, <2>1, <2>2, FunnelKeepsChain
  <2>3. CASE UNCHANGED funnelVars
    BY <1>0, <2>1, <2>3, ChainFrame DEF funnelVars, attVars
  <2> QED
    BY <1>5, <2>2, <2>3 DEF SetTxInhibit
<1>6. ASSUME NEW on \in BOOLEAN, SetSwrProtect(on) PROVE ChainInv'
  BY <1>0, <1>6, ChainFrame DEF SetSwrProtect, funnelVars, attVars, modVars
<1>7. CASE ConvertStart \/ ConvertFinished
  BY <1>0, <1>7, ChainFrame DEF ConvertStart, ConvertFinished, funnelVars,
     attVars, modVars
<1>8. CASE SetTxTimeoutBypass \/ SetTxTimeoutSec
  BY <1>0, <1>8, ChainFrame DEF SetTxTimeoutBypass, SetTxTimeoutSec,
     funnelVars, attVars, modVars
<1>9. ASSUME NEW on \in BOOLEAN, SetAttOnTxEnabled(on) PROVE ChainInv'
  <2>1. AttOnTx(on, attOnTxDb) \in Att
    BY AttOnTxType DEF IInv, TypeOK
  <2>2. /\ UNCHANGED <<requestedMox, fsmRunning, pending, wireVars, txa>>
        /\ Attenuate(AttOnTx(on, attOnTxDb))
    BY <1>9 DEF SetAttOnTxEnabled, modVars
  <2> QED
    BY <2>1, <2>2, AttenuateKeeps
<1>10. ASSUME NEW db \in -1 .. MaxAtt + 1, SetAttOnTxDb(db) PROVE ChainInv'
  <2>1. Clamped(db) \in Att
    BY AttAssumption, ClampedType
  <2>2. UNCHANGED <<requestedMox, fsmRunning, pending, wireVars, txa>>
    BY <1>10 DEF SetAttOnTxDb, modVars
  <2>3. CASE attOnTxEnabled
    BY <1>10, <2>1, <2>2, <2>3, AttenuateKeeps DEF SetAttOnTxDb
  <2>4. CASE ~attOnTxEnabled
    BY <1>0, <1>10, <2>2, <2>4, ChainFrame DEF SetAttOnTxDb
  <2> QED
    BY <2>3, <2>4
<1>11. CASE Retune
  BY <1>0, <1>11, ChainFrame DEF Retune, attVars, modVars
<1> QED
  BY <1>1, <1>2, <1>3, <1>4, <1>5, <1>6, <1>7, <1>8, <1>9, <1>10, <1>11 DEF Operator

\* So do the protections.
LEMMA ProtectionKeeps == IInv /\ Protection => ChainInv'
<1> SUFFICES ASSUME IInv, Protection PROVE ChainInv'
  OBVIOUS
<1>0. Manual \in Sources /\ ChainInv
  BY SourcesAssumption DEF IInv
<1>1. CASE TxSafetyTimeout
  BY <1>0, <1>1, FunnelKeepsChain DEF TxSafetyTimeout, modVars
<1>2. CASE SwrTrip
  BY <1>0, <1>2, FunnelKeepsChain DEF SwrTrip, modVars
<1>3. CASE SwrFold
  BY <1>0, <1>3, ChainFrame DEF SwrFold, funnelVars, attVars, modVars
<1> QED
  BY <1>1, <1>2, <1>3 DEF Protection

-----------------------------------------------------------------------------
(* The theorems.                                                           *)

\* A constructed stream satisfies the invariant.
LEMMA InitIInv == Init => IInv
<1> SUFFICES ASSUME Init PROVE IInv
  OBVIOUS
<1>1. TypeOK
  <2>1. 0 \in Att
    BY AttAssumption DEF Att
  <2> QED
    BY <2>1, SourcesAssumption DEF Init, TypeOK, Tone
<1>2. ~fsmRunning /\ ~mox /\ ~requestedMox /\ ~XmitBit /\ ~txa
  BY DEF Init
<1>3. pending["KeydownPostMox"] = 0 /\ \A t \in Step : pending[t] = 0
  BY DEF Init, Step
<1>4. ChainInv
  BY <1>1, <1>2, <1>3 DEF ChainInv, TypeOK
<1> QED
  BY <1>1, <1>4 DEF IInv

\* Every step keeps it.
LEMMA StepIInv == IInv /\ [Next]_vars => IInv'
<1> SUFFICES ASSUME IInv, [Next]_vars PROVE IInv'
  OBVIOUS
<1>1. CASE TimerStep
  <2>1. ChainInv'
    BY <1>1, KeydownPostMoxKeeps, KeydownSettledKeeps, KeyupPostSpaceKeeps,
       KeyupTxOffKeeps, KeyupSettledKeeps DEF TimerStep
  <2> QED
    BY <1>1, <2>1, TimerStepTyped DEF IInv
<1>2. CASE Operator
  BY <1>2, OperatorTyped, OperatorKeeps DEF IInv
<1>3. CASE Protection
  BY <1>3, ProtectionTyped, ProtectionKeeps DEF IInv
<1>4. CASE UNCHANGED vars
  <2>1. TypeOK'
    BY <1>4 DEF IInv, TypeOK, vars, funnelVars, attVars, wireVars, modVars,
       toneVars, lockVars, guardVars, setVars
  <2>2. ChainInv'
    BY <1>4, ChainFrame DEF IInv, vars, funnelVars, attVars, modVars
  <2> QED
    BY <2>1, <2>2 DEF IInv
<1> QED
  BY <1>1, <1>2, <1>3, <1>4 DEF Next

\* The inductive invariant holds in every behaviour of the sequencer.
THEOREM ChainInvariant == Spec => []IInv
BY InitIInv, StepIInv, PTL DEF Spec

\* Type correctness, for any number of keying sources.
THEOREM TypeCorrect == Spec => []TypeOK
<1>1. IInv => TypeOK
  BY DEF IInv
<1> QED
  BY <1>1, ChainInvariant, PTL

\* fsmRunning_ is set exactly while one single shot is outstanding: two chains
\* never interleave, whatever requests come in the windows of a chain.
THEOREM OneChainAlways == Spec => []OneChain
<1>1. IInv => OneChain
  <2> SUFFICES ASSUME IInv PROVE OneChain
    OBVIOUS
  <2>1. CASE fsmRunning
    <3>1. PICK s \in Step : Only(s)
      BY <2>1 DEF IInv, ChainInv
    <3>2. Outstanding = {s} /\ \A t \in Step : pending[t] <= 1
      BY <3>1 DEF Only, Outstanding
    <3> QED
      BY <2>1, <3>2 DEF OneChain
  <2>2. CASE ~fsmRunning
    <3>1. \A t \in Step : pending[t] = 0
      BY <2>2 DEF IInv, ChainInv
    <3>2. Outstanding = {}
      BY <3>1 DEF Outstanding
    <3> QED
      BY <2>2, <3>1, <3>2 DEF OneChain
  <2>3. fsmRunning \in BOOLEAN
    BY DEF IInv, TypeOK
  <2> QED
    BY <2>1, <2>2, <2>3
<1> QED
  BY <1>1, ChainInvariant, PTL

\* At rest the MOX bit is where the last accepted request wanted it.
THEOREM RestMatchesIntent == Spec => []IdleMatchesIntent
<1>1. IInv => IdleMatchesIntent
  BY DEF IInv, ChainInv, IdleMatchesIntent
<1> QED
  BY <1>1, ChainInvariant, PTL

\* While the MOX bit is on the receiver front end is attenuated by at least the
\* least ATT-on-TX has asked for since the key went down, 0 dB and re-keys in
\* ptt_out_delay included.
THEOREM FrontEndAlwaysProtected == Spec => []FrontEndProtected
<1>1. IInv => FrontEndProtected
  BY DEF IInv, ChainInv, FrontEndProtected
<1> QED
  BY <1>1, ChainInvariant, PTL

\* The MOX bit moves only with the modulator stopped, before and after.
THEOREM AmplifierSwitchedCold == Spec => RelaySwitchesCold
<1>1. ASSUME IInv, IInv', [Next]_vars
      PROVE  [XmitBit' # XmitBit => ~txa /\ ~txa']_vars
  <2> SUFFICES ASSUME XmitBit' # XmitBit PROVE ~txa /\ ~txa'
    OBVIOUS
  <2>1. mox' # mox
    BY <1>1 DEF IInv, ChainInv
  <2>2. UNCHANGED txa
    BY <1>1, <2>1 DEF Next, TimerStep, Operator, Protection, KeydownPostMox,
       KeydownSettled, KeyupPostSpace, KeyupTxOff, KeyupSettled, Press, Release,
       TuneClick, TwoToneClick, SetTxInhibit, SetSwrProtect, ConvertStart,
       ConvertFinished, SetTxTimeoutBypass, SetTxTimeoutSec,
       SetAttOnTxEnabled, SetAttOnTxDb, Retune, TxSafetyTimeout, SwrTrip, SwrFold, vars, wireVars, modVars
  <2>3. (txa => mox) /\ (txa' => mox')
    BY <1>1 DEF IInv, ChainInv
  <2>4. mox \in BOOLEAN /\ mox' \in BOOLEAN
    BY <1>1 DEF IInv, TypeOK
  <2> QED
    BY <2>1, <2>2, <2>3, <2>4
<1> QED
  BY <1>1, ChainInvariant, PTL DEF Spec, RelaySwitchesCold

\* The tone generator never runs behind a tone button that shows it off.
THEOREM GeneratorAlwaysShown == Spec => []GeneratorMatchesButton
<1>1. Init => GeneratorMatchesButton
  BY DEF Init, GeneratorMatchesButton
<1>2. GeneratorMatchesButton /\ [Next]_vars => GeneratorMatchesButton'
  <2> SUFFICES ASSUME GeneratorMatchesButton, [Next]_vars
               PROVE  GeneratorMatchesButton'
    OBVIOUS
  <2>1. CASE UNCHANGED toneVars
    BY <2>1 DEF GeneratorMatchesButton, toneVars
  <2>2. CASE ToneOff
    BY <2>2 DEF GeneratorMatchesButton, ToneOff
  <2>3. CASE TuneClick
    BY <2>1, <2>3 DEF GeneratorMatchesButton, TuneClick
  <2>4. CASE TwoToneClick
    BY <2>4 DEF GeneratorMatchesButton, TwoToneClick
  <2>5. CASE TimerStep
    BY <2>1, <2>2, <2>5 DEF TimerStep, KeydownPostMox, KeydownSettled,
       EnterOnAir, KeyupPostSpace, KeyupTxOff, KeyupSettled,
       SettleInReceive, LeaveOnAir
  <2>6. CASE Operator
    BY <2>1, <2>3, <2>4, <2>6 DEF Operator, Press, Release, SetTxInhibit,
       SetSwrProtect, ConvertStart, ConvertFinished, SetTxTimeoutBypass,
       SetTxTimeoutSec, SetAttOnTxEnabled, SetAttOnTxDb, Retune
  <2>7. CASE Protection
    BY <2>1, <2>7 DEF Protection, TxSafetyTimeout, SwrTrip, SwrFold
  <2>8. CASE UNCHANGED vars
    BY <2>1, <2>8 DEF vars
  <2> QED
    BY <2>5, <2>6, <2>7, <2>8 DEF Next
<1> QED
  BY <1>1, <1>2, PTL DEF Spec

\* A running timer belongs to a reported transmission, and one that outlived the
\* MOX bit is not there once the modulator runs again.
TimerInv ==
    /\ safetyTimer => moxActive /\ ~txTimeoutBypass
    /\ staleTimer => safetyTimer
    /\ txa => ~staleTimer

\* Every timer step keeps it: the on-air edge starts the timer afresh.
LEMMA TimerStepKeepsTimer ==
    ASSUME IInv, TimerInv, TimerStep PROVE TimerInv'
<1>0. /\ requestedMox \in BOOLEAN /\ moxActive \in BOOLEAN
      /\ safetyTimer \in BOOLEAN /\ staleTimer \in BOOLEAN
      /\ txTimeoutBypass \in BOOLEAN
  BY DEF IInv, TypeOK
<1>1. CASE KeydownPostMox \/ KeyupPostSpace
  <2>1. UNCHANGED <<safetyTimer, staleTimer, moxActive, txTimeoutBypass>>
    BY <1>1 DEF KeydownPostMox, KeyupPostSpace, guardVars, setVars
  <2>2. txa' => txa
    BY <1>1 DEF KeydownPostMox, KeyupPostSpace, TxaStop, modVars
  <2> QED
    BY <2>1, <2>2 DEF TimerInv
<1>2. CASE KeydownSettled
  <2>1. UNCHANGED txTimeoutBypass
    BY <1>2 DEF KeydownSettled, setVars
  <2>2. CASE ~requestedMox
    BY <1>2, <2>1, <2>2 DEF KeydownSettled, TimerInv, modVars, guardVars
  <2>3. CASE requestedMox
    <3>1. /\ moxActive' = TRUE
          /\ safetyTimer' = (safetyTimer \/ ~txTimeoutBypass)
          /\ staleTimer' = (staleTimer /\ txTimeoutBypass)
      BY <1>2, <2>3 DEF KeydownSettled, EnterOnAir
    <3> QED
      BY <1>0, <2>1, <3>1 DEF TimerInv
  <2> QED
    BY <2>2, <2>3
<1>3. CASE KeyupTxOff
  <2>1. ~txa
    <3>1. "KeyupTxOff" \in Step
      BY DEF Step
    <3> QED
      BY <1>3, <3>1, FiringShot DEF KeyupTxOff, AtStep
  <2> QED
    BY <1>3, <2>1 DEF KeyupTxOff, TimerInv, setVars
<1>4. CASE KeyupSettled
  <2>1. UNCHANGED <<txTimeoutBypass, txa>>
    BY <1>4 DEF KeyupSettled, setVars, modVars
  <2>2. CASE requestedMox
    BY <1>4, <2>1, <2>2 DEF KeyupSettled, TimerInv, guardVars
  <2>3. CASE ~requestedMox
    BY <1>4, <2>1, <2>3 DEF KeyupSettled, SettleInReceive, LeaveOnAir, TimerInv
  <2> QED
    BY <2>2, <2>3
<1> QED
  BY <1>1, <1>2, <1>3, <1>4 DEF TimerStep

\* A safety timer that was still running when MOX fell does not run on while the
\* modulator runs: a cancelled re-key cannot shorten the next transmission.
THEOREM SafetyTimerNeverLeaks == Spec => []SafetyTimerIsOfThisOver
<1>1. Init => TimerInv
  BY DEF Init, TimerInv
<1>2. IInv /\ TimerInv /\ [Next]_vars => TimerInv'
  <2> SUFFICES ASSUME IInv, TimerInv, [Next]_vars PROVE TimerInv'
    OBVIOUS
  <2>1. CASE UNCHANGED <<safetyTimer, staleTimer, moxActive, txTimeoutBypass, txa>>
    BY <2>1 DEF TimerInv
  <2>2. CASE TimerStep
    BY <2>2, TimerStepKeepsTimer
  <2>3. CASE SetTxTimeoutBypass \/ SetTxTimeoutSec
    <3>1. /\ moxActive \in BOOLEAN /\ safetyTimer \in BOOLEAN
          /\ staleTimer \in BOOLEAN /\ txTimeoutBypass \in BOOLEAN
      BY DEF IInv, TypeOK
    <3>2. CASE SetTxTimeoutBypass
      <4>1. /\ UNCHANGED <<moxActive, txa>>
            /\ safetyTimer' = (IF moxActive THEN ~txTimeoutBypass' ELSE safetyTimer)
            /\ staleTimer' = (staleTimer /\ ~moxActive)
        BY <3>2 DEF SetTxTimeoutBypass, modVars
      <4>2. ~staleTimer'
        BY <3>1, <4>1 DEF TimerInv
      <4>3. safetyTimer' => moxActive' /\ ~txTimeoutBypass'
        BY <3>1, <4>1 DEF TimerInv
      <4> QED
        BY <4>2, <4>3 DEF TimerInv
    <3>3. CASE SetTxTimeoutSec
      BY <3>3 DEF SetTxTimeoutSec, TimerInv, setVars
    <3> QED
      BY <2>3, <3>2, <3>3
  <2>4. CASE Operator
    BY <2>1, <2>3, <2>4 DEF Operator, Press, Release, TuneClick, TwoToneClick,
       SetTxInhibit, SetSwrProtect, ConvertStart, ConvertFinished,
       SetAttOnTxEnabled, SetAttOnTxDb, Retune, guardVars, modVars, setVars
  <2>5. CASE TxSafetyTimeout
    BY <2>5 DEF TxSafetyTimeout, TimerInv, setVars, modVars
  <2>6. CASE Protection
    BY <2>1, <2>5, <2>6 DEF Protection, SwrTrip, SwrFold, setVars, modVars
  <2>7. CASE UNCHANGED vars
    BY <2>1, <2>7 DEF vars, guardVars, modVars, setVars
  <2> QED
    BY <2>2, <2>4, <2>6, <2>7 DEF Next
<1>3. TimerInv => SafetyTimerIsOfThisOver
  BY DEF TimerInv, SafetyTimerIsOfThisOver
<1> QED
  BY <1>1, <1>2, <1>3, ChainInvariant, PTL DEF Spec

-----------------------------------------------------------------------------
(* The sequencer implements KeyFunnel.                                     *)

Locks == {l \in {"inhibit", "convert"} :
            IF l = "inhibit" THEN txInhibit ELSE convertLockout}

\* The two lock flags of the stream, as the set of locks of the funnel.
LEMMA LocksFacts ==
    /\ Locks # {} <=> txInhibit \/ convertLockout
    /\ "inhibit" \in Locks <=> txInhibit
    /\ "convert" \in Locks <=> convertLockout
    /\ Locks \subseteq {"inhibit", "convert"}
BY DEF Locks

\* The one outstanding shot is the one the mapping picks.
LEMMA ChosenShot ==
    ASSUME NEW p \in [Step -> Nat], NEW s \in Step,
           \A t \in Step : p[t] = IF t = s THEN 1 ELSE 0
    PROVE  (CHOOSE r \in Step : p[r] > 0) = s
<1>1. \A r \in Step : p[r] > 0 <=> r = s
  OBVIOUS
<1>2. \E r \in Step : p[r] > 0
  BY <1>1
<1> QED BY <1>1, <1>2

\* The stage of the chain is the one step that is pending.
LEMMA StageIs ==
    ASSUME pending \in [Step -> Nat]
    PROVE  /\ ~fsmRunning => StageOf = "rest"
           /\ \A s \in Step : fsmRunning /\ Only(s) => StageOf = s
BY ChosenShot DEF StageOf, Only

\* The same after a step.
LEMMA StageIsNext ==
    ASSUME pending' \in [Step -> Nat]
    PROVE  /\ ~fsmRunning' => StageOf' = "rest"
           /\ \A s \in Step : fsmRunning' /\ Only(s)' => StageOf' = s
BY ChosenShot DEF StageOf, Only

\* A running chain is at one of its steps.
LEMMA StageRuns ==
    ASSUME IInv
    PROVE  /\ fsmRunning <=> StageOf # "rest"
           /\ \A s \in Step : pending[s] > 0 => StageOf = s /\ fsmRunning
<1>1. pending \in [Step -> Nat] /\ "rest" \notin Step
  BY DEF IInv, TypeOK, Step
<1>2. fsmRunning => \E s \in Step : Only(s) /\ AtStep(s)
  BY DEF IInv, ChainInv
<1>3. \A s \in Step : pending[s] > 0 => fsmRunning /\ Only(s)
  BY FiringShot
<1> QED BY <1>1, <1>2, <1>3, StageIs

\* fsmAdvance is Started, whoever calls it.
LEMMA AdvanceStages ==
    ASSUME TypeOK, NEW req \in BOOLEAN, NEW p \in [Step -> Nat],
           \A t \in Step : p[t] = 0, FsmAdvance(req, p)
    PROVE  StageOf' = Funnel!Started(req)
<1>0. "KeydownPostMox" \in Step /\ "KeyupPostSpace" \in Step
  BY DEF Step
<1>1. CASE req /\ ~mox
  <2>1. fsmRunning' /\ pending' = Scheduled(p, "KeydownPostMox")
    BY <1>1 DEF FsmAdvance
  <2>2. Only("KeydownPostMox")' /\ pending' \in [Step -> Nat]
    BY <1>0, <2>1, NextShot
  <2> QED BY <1>0, <1>1, <2>1, <2>2, StageIsNext DEF Funnel!Started
<1>2. CASE ~req /\ mox
  <2>1. fsmRunning' /\ pending' = Scheduled(p, "KeyupPostSpace")
    BY <1>2 DEF FsmAdvance
  <2>2. Only("KeyupPostSpace")' /\ pending' \in [Step -> Nat]
    BY <1>0, <2>1, NextShot
  <2> QED BY <1>0, <1>2, <2>1, <2>2, StageIsNext DEF Funnel!Started
<1>3. CASE req = mox
  <2>1. ~fsmRunning' /\ pending' = p
    BY <1>3 DEF FsmAdvance
  <2> QED BY <1>3, <2>1, StageIsNext DEF Funnel!Started
<1> QED BY <1>1, <1>2, <1>3 DEF TypeOK

\* The mapped chain stands still while the real one does.
LEMMA StageStands ==
    ASSUME UNCHANGED <<fsmRunning, pending>> PROVE StageOf' = StageOf
BY DEF StageOf

\* requestMox is a request of the abstract funnel.
LEMMA RequestMaps ==
    ASSUME IInv, NEW on \in BOOLEAN, NEW src \in Sources, RequestMox(on, src),
           UNCHANGED <<mox, moxActive>>
    PROVE  Funnel!Request(on, src)
<1>1. CASE on /\ (txInhibit \/ convertLockout)
  <2>1. UNCHANGED <<requestedMox, pttSource, fsmRunning, pending>>
    BY <1>1 DEF RequestMox, funnelVars
  <2> QED BY <1>1, <2>1, LocksFacts, StageStands
          DEF Funnel!Request, Funnel!funnel, Locks
<1>2. CASE ~(on /\ (txInhibit \/ convertLockout))
  <2>1. /\ requestedMox' = on /\ pttSource' = (IF on THEN src ELSE pttSource)
        /\ AdvanceIfIdle(on)
    BY <1>2 DEF RequestMox
  <2>2. StageOf' = IF StageOf = "rest" THEN Funnel!Started(on) ELSE StageOf
    <3>1. CASE fsmRunning
      BY <2>1, <3>1, StageRuns, StageStands DEF AdvanceIfIdle
    <3>2. CASE ~fsmRunning
      <4>1. FsmAdvance(on, pending) /\ pending \in [Step -> Nat]
            /\ \A t \in Step : pending[t] = 0
        BY <2>1, <3>2 DEF AdvanceIfIdle, IInv, TypeOK, ChainInv
      <4> QED BY <3>2, <4>1, AdvanceStages, StageRuns DEF IInv
    <3> QED BY <3>1, <3>2
  <2>3. ~(on /\ Locks # {})
    BY <1>2, LocksFacts
  <2> QED BY <2>1, <2>2, <2>3 DEF Funnel!Request, Locks
<1> QED BY <1>1, <1>2

\* What the abstract chain sees of a step: the shot that fired and the shot, if
\* any, that it schedules.
LEMMA ShotPasses ==
    ASSUME IInv, NEW s \in Step, pending[s] > 0
    PROVE  /\ StageOf = s
           /\ pending' = Fired(pending, s) /\ ~fsmRunning' => StageOf' = "rest"
           /\ \A r \in Step :
                pending' = Scheduled(Fired(pending, s), r) /\ fsmRunning' = fsmRunning
                   => StageOf' = r
<1>1. /\ fsmRunning /\ \A t \in Step : Fired(pending, s)[t] = 0
      /\ Fired(pending, s) \in [Step -> Nat]
  BY FiringShot
<1>2. \A r \in Step : pending' = Scheduled(Fired(pending, s), r)
                        => Only(r)' /\ pending' \in [Step -> Nat]
  BY <1>1, NextShot
<1> QED BY <1>1, <1>2, StageRuns, StageIsNext

\* Every timer is a step of the abstract chain.
LEMMA TimerStepMaps ==
    ASSUME IInv, TimerStep PROVE Funnel!Chain /\ UNCHANGED <<txInhibit, convertLockout>>
<1>0. /\ "KeydownPostMox" \in Step /\ "KeydownSettled" \in Step
      /\ "KeyupPostSpace" \in Step /\ "KeyupTxOff" \in Step
      /\ "KeyupSettled" \in Step /\ requestedMox \in BOOLEAN /\ moxActive \in BOOLEAN
  BY DEF Step, IInv, TypeOK
<1>1. UNCHANGED <<txInhibit, convertLockout>>
  BY DEF TimerStep, KeydownPostMox, KeydownSettled, KeyupPostSpace, KeyupTxOff,
         KeyupSettled, lockVars
<1>2. CASE KeydownPostMox
  <2>1. /\ StageOf = "KeydownPostMox"
        /\ UNCHANGED <<requestedMox, pttSource, moxActive>>
    BY <1>0, <1>2, ShotPasses DEF KeydownPostMox
  <2>2. mox' = requestedMox
    <3>1. CASE requestedMox
      BY <1>0, <1>2, <3>1 DEF KeydownPostMox
    <3>2. CASE ~requestedMox
      <4>1. AtStep("KeydownPostMox") /\ mox \in BOOLEAN
        BY <1>0, <1>2, FiringShot DEF KeydownPostMox, IInv, TypeOK
      <4>2. mox' = mox /\ ~mox
        BY <1>2, <3>2, <4>1 DEF KeydownPostMox, wireVars, AtStep
      <4> QED BY <1>0, <3>2, <4>1, <4>2
    <3> QED BY <3>1, <3>2
  <2>3. StageOf' = IF requestedMox THEN "KeydownSettled" ELSE "rest"
    BY <1>0, <1>2, ShotPasses DEF KeydownPostMox
  <2> QED BY <1>1, <2>1, <2>2, <2>3 DEF Funnel!Chain, Funnel!KeydownPostMox
<1>3. CASE KeydownSettled
  <2>1. /\ StageOf = "KeydownSettled"
        /\ UNCHANGED <<requestedMox, pttSource, mox>>
    BY <1>0, <1>3, ShotPasses DEF KeydownSettled, wireVars
  <2>2. moxActive' = (moxActive \/ requestedMox)
    BY <1>0, <1>3, Zenon DEF KeydownSettled, EnterOnAir
  <2>3. StageOf' = IF requestedMox THEN "rest" ELSE "KeyupPostSpace"
    BY <1>0, <1>3, ShotPasses DEF KeydownSettled
  <2> QED BY <1>1, <2>1, <2>2, <2>3 DEF Funnel!Chain, Funnel!KeydownSettled
<1>4. CASE KeyupPostSpace
  <2>1. /\ StageOf = "KeyupPostSpace"
        /\ UNCHANGED <<requestedMox, pttSource, mox, moxActive>>
    BY <1>0, <1>4, ShotPasses DEF KeyupPostSpace, wireVars
  <2>2. StageOf' = IF requestedMox THEN "rest" ELSE "KeyupTxOff"
    BY <1>0, <1>4, ShotPasses DEF KeyupPostSpace
  <2> QED BY <1>1, <2>1, <2>2 DEF Funnel!Chain, Funnel!KeyupPostSpace
<1>5. CASE KeyupTxOff
  BY <1>0, <1>1, <1>5, ShotPasses DEF KeyupTxOff, Funnel!Chain, Funnel!KeyupTxOff
<1>6. CASE KeyupSettled
  <2>1. StageOf = "KeyupSettled" /\ UNCHANGED <<requestedMox, mox>>
    BY <1>0, <1>6, ShotPasses DEF KeyupSettled, wireVars
  <2>2. ~mox /\ fsmRunning /\ mox \in BOOLEAN
    BY <1>0, <1>6, FiringShot DEF KeyupSettled, AtStep, IInv, TypeOK
  <2>3. CASE requestedMox
    <3>1. FsmAdvance(TRUE, Fired(pending, "KeyupSettled"))
          /\ UNCHANGED <<pttSource, moxActive>>
      BY <1>6, <2>3 DEF KeyupSettled
    <3>2. StageOf' = Funnel!Started(TRUE)
      BY <1>0, <1>6, <3>1, FiringShot, AdvanceStages DEF KeyupSettled, IInv
    <3> QED BY <1>1, <1>0, <2>1, <2>3, <3>1, <3>2
            DEF Funnel!Chain, Funnel!KeyupSettled, Funnel!Started
  <2>4. CASE ~requestedMox
    <3>1. /\ pending' = Fired(pending, "KeyupSettled") /\ fsmRunning' = FALSE
          /\ moxActive' = FALSE /\ pttSource' = Manual
      BY <1>6, <2>4 DEF KeyupSettled, SettleInReceive, LeaveOnAir
    <3>2. StageOf' = "rest"
      BY <1>0, <1>6, <3>1, ShotPasses DEF KeyupSettled
    <3>3. Funnel!Started(requestedMox) = "rest"
      BY <1>0, <2>2, <2>4 DEF Funnel!Started
    <3> QED BY <1>1, <2>1, <2>4, <3>1, <3>2, <3>3 DEF Funnel!Chain, Funnel!KeyupSettled
  <2> QED BY <2>3, <2>4
<1> QED BY <1>1, <1>2, <1>3, <1>4, <1>5, <1>6 DEF TimerStep

\* A call of the funnel with the lockouts left alone.
LEMMA RequestSteps ==
    ASSUME IInv, NEW on \in BOOLEAN, NEW src \in Sources, RequestMox(on, src),
           UNCHANGED <<mox, moxActive, txInhibit, convertLockout>>
    PROVE  Funnel!FunnelNext
<1>1. Funnel!Request(on, src)
  BY RequestMaps
<1> QED BY <1>1 DEF Funnel!FunnelNext

\* What does not touch the sequencer, the MOX bit or the lockouts is a stutter.
LEMMA OutsideStutters ==
    ASSUME UNCHANGED <<requestedMox, pttSource, fsmRunning, pending, mox, moxActive,
                       txInhibit, convertLockout>>
    PROVE  UNCHANGED Funnel!funnel /\ Locks' = Locks
BY StageStands DEF Funnel!funnel, Locks

\* The inhibit engages or releases one lock of the funnel.
LEMMA SetTxInhibitMaps ==
    ASSUME IInv, NEW on \in BOOLEAN, SetTxInhibit(on) PROVE Funnel!FunnelNext
<1>1. /\ txInhibit # on /\ txInhibit' = on /\ UNCHANGED <<mox, moxActive, convertLockout>>
      /\ IF on /\ mox THEN RequestMox(FALSE, Manual) ELSE UNCHANGED funnelVars
  BY DEF SetTxInhibit, wireVars
<1>2. txInhibit \in BOOLEAN
  BY DEF IInv, TypeOK
<1>3. IF on /\ mox THEN Funnel!Request(FALSE, Manual) ELSE UNCHANGED Funnel!funnel
  <2>1. CASE on /\ mox
    BY <1>1, <2>1, RequestMaps, SourcesAssumption
  <2>2. CASE ~(on /\ mox)
    <3>1. UNCHANGED <<requestedMox, pttSource, fsmRunning, pending>>
      BY <1>1, <2>2 DEF funnelVars
    <3> QED BY <1>1, <2>2, <3>1, StageStands DEF Funnel!funnel
  <2> QED BY <2>1, <2>2
<1>4. CASE on
  <2>1. "inhibit" \notin Locks /\ Locks' = Locks \union {"inhibit"}
    BY <1>1, <1>2, <1>4 DEF Locks
  <2>2. Funnel!Engage("inhibit")
    BY <1>3, <1>4, <2>1 DEF Funnel!Engage, Locks
  <2> QED BY <2>2 DEF Funnel!FunnelNext, Funnel!Lock
<1>5. CASE ~on
  <2>1. "inhibit" \in Locks /\ Locks' = Locks \ {"inhibit"}
    BY <1>1, <1>2, <1>5 DEF Locks
  <2>2. Funnel!Disengage("inhibit")
    BY <1>3, <1>5, <2>1 DEF Funnel!Disengage, Locks
  <2> QED BY <2>2 DEF Funnel!FunnelNext, Funnel!Lock
<1> QED BY <1>4, <1>5

\* The converter engages or releases the other.
LEMMA ConvertMaps ==
    ASSUME IInv, ConvertStart \/ ConvertFinished PROVE Funnel!FunnelNext
<1>1. UNCHANGED <<requestedMox, pttSource, fsmRunning, pending, mox, moxActive, txInhibit>>
  BY DEF ConvertStart, ConvertFinished, funnelVars, wireVars
<1>2. UNCHANGED Funnel!funnel
  BY <1>1, StageStands DEF Funnel!funnel
<1>3. CASE ConvertStart
  <2>1. ~moxActive /\ ~convertLockout /\ convertLockout'
    BY <1>3 DEF ConvertStart
  <2>2. "convert" \notin Locks /\ Locks' = Locks \union {"convert"}
    BY <1>1, <2>1 DEF Locks
  <2>3. Funnel!Engage("convert")
    BY <1>2, <2>1, <2>2 DEF Funnel!Engage, Locks
  <2> QED BY <2>3 DEF Funnel!FunnelNext, Funnel!Lock
<1>4. CASE ConvertFinished
  <2>1. convertLockout /\ ~convertLockout'
    BY <1>4 DEF ConvertFinished
  <2>2. "convert" \in Locks /\ Locks' = Locks \ {"convert"}
    BY <1>1, <2>1 DEF Locks
  <2>3. Funnel!Disengage("convert")
    BY <1>2, <2>2 DEF Funnel!Disengage, Locks
  <2> QED BY <2>3 DEF Funnel!FunnelNext, Funnel!Lock
<1> QED BY <1>3, <1>4

\* Every event of the sequencer is a step of the funnel, or none.
LEMMA NextMaps ==
    ASSUME IInv, [Next]_vars
    PROVE  Funnel!FunnelNext \/ (UNCHANGED Funnel!funnel /\ Locks' = Locks)
<1> DEFINE Quiet == UNCHANGED <<requestedMox, pttSource, fsmRunning, pending, mox,
                                moxActive, txInhibit, convertLockout>>
           Asks == /\ \E on \in BOOLEAN, src \in Sources : RequestMox(on, src)
                   /\ UNCHANGED <<mox, moxActive, txInhibit, convertLockout>>
<1>1. CASE Quiet
  BY <1>1, OutsideStutters
<1>2. CASE Asks
  BY <1>2, RequestSteps
<1>3. CASE TimerStep
  <2>1. Funnel!Chain /\ UNCHANGED <<txInhibit, convertLockout>>
    BY <1>3, TimerStepMaps
  <2> QED BY <2>1 DEF Funnel!FunnelNext
<1>4. CASE Operator
  <2>1. ASSUME NEW src \in Sources, Press(src) \/ Release(src) PROVE Asks
    BY <2>1 DEF Press, Release, wireVars, lockVars
  <2>2. CASE TuneClick
    <3>1. RequestMox(TRUE, Manual) \/ RequestMox(FALSE, Manual)
      BY <2>2 DEF TuneClick
    <3> QED BY <1>2, <2>2, <3>1, SourcesAssumption DEF TuneClick, wireVars, lockVars
  <2>3. CASE TwoToneClick
    <3>1. (tone = "off") \in BOOLEAN
      OBVIOUS
    <3> QED BY <1>2, <2>3, <3>1, SourcesAssumption DEF TwoToneClick, wireVars, lockVars
  <2>4. ASSUME NEW on \in BOOLEAN, SetSwrProtect(on) PROVE Quiet
    BY <2>4 DEF SetSwrProtect, funnelVars, wireVars, lockVars
  <2>5. CASE SetTxTimeoutBypass \/ SetTxTimeoutSec \/ Retune
    BY <1>1, <2>5 DEF SetTxTimeoutBypass, SetTxTimeoutSec, Retune, funnelVars, wireVars,
                      lockVars
  <2>6. ASSUME NEW on \in BOOLEAN, SetAttOnTxEnabled(on) PROVE Quiet
    BY <2>6 DEF SetAttOnTxEnabled, wireVars, lockVars
  <2>7. ASSUME NEW db \in -1 .. MaxAtt + 1, SetAttOnTxDb(db) PROVE Quiet
    BY <2>7 DEF SetAttOnTxDb, wireVars, lockVars
  <2> QED BY <1>1, <1>2, <1>4, <2>1, <2>2, <2>3, <2>4, <2>5, <2>6, <2>7,
             SetTxInhibitMaps, ConvertMaps DEF Operator
<1>5. CASE Protection
  <2>1. CASE TxSafetyTimeout \/ SwrTrip
    BY <1>2, <2>1, SourcesAssumption DEF TxSafetyTimeout, SwrTrip, wireVars, lockVars
  <2>2. CASE SwrFold
    BY <1>1, <2>2 DEF SwrFold, funnelVars, wireVars, lockVars
  <2> QED BY <1>5, <2>1, <2>2 DEF Protection
<1>6. CASE UNCHANGED vars
  BY <1>1, <1>6 DEF vars, funnelVars, wireVars, lockVars
<1> QED BY <1>3, <1>4, <1>5, <1>6 DEF Next

\* A constructed stream maps to the initial funnel.
LEMMA InitMaps == ASSUME Init PROVE Funnel!FunnelInit
<1>1. StageOf = "rest"
  BY DEF Init, StageOf
<1>2. Locks \in SUBSET {"inhibit"}
  BY DEF Init, Locks
<1> QED BY <1>1, <1>2 DEF Init, Funnel!FunnelInit, Locks

\* The sequencer is the funnel its users are written against: no setting, tone,
\* lockout or protection event is anything but a request or a step of one chain.
THEOREM SequencerImplementsFunnel == Spec => ImplementsFunnel
<1>1. Init => Funnel!FunnelInit
  BY InitMaps
<1>2. IInv /\ [Next]_vars
        => [Funnel!FunnelNext]_<<Funnel!funnel,
              {l \in {"inhibit", "convert"} :
                 IF l = "inhibit" THEN txInhibit ELSE convertLockout}>>
  BY NextMaps DEF Locks
<1>3. Spec => []IInv
  BY ChainInvariant
<1> QED BY <1>1, <1>2, <1>3, PTL DEF Spec, ImplementsFunnel, Funnel!FunnelSpec

-----------------------------------------------------------------------------
(* Closing and re-opening the stream.  A leftover step keys the radio only *)
(* while the intent stands, and in a new session the intent stands only if *)
(* it was asked for.                                                       *)

\* As long as nobody has asked, neither the intent nor the MOX bit stands.
QuietUntilAsked == running /\ ~asked => ~requestedMox /\ ~mox

\* No event of the sequencer raises the MOX bit without the intent.
LEMMA MoxNeedsIntent == Next => (mox' => mox \/ requestedMox)
<1> USE DEF wireVars
<1>1. TimerStep => (mox' => mox \/ requestedMox)
  BY DEF TimerStep, KeydownPostMox, KeydownSettled, KeyupPostSpace, KeyupTxOff,
         KeyupSettled
<1>2. Operator => UNCHANGED mox
  BY DEF Operator, Press, Release, TuneClick, TwoToneClick, SetTxInhibit,
         SetSwrProtect, ConvertStart, ConvertFinished, SetTxTimeoutBypass,
         SetTxTimeoutSec, SetAttOnTxEnabled, SetAttOnTxDb, Retune
<1>3. Protection => UNCHANGED mox
  BY DEF Protection, TxSafetyTimeout, SwrTrip, SwrFold
<1> QED BY <1>1, <1>2, <1>3 DEF Next

\* A new session is keyed only by a request made in it, whatever the closed
\* one left behind.
THEOREM KeyedByThisSession == RestartSpec => []KeyedOnlyByThisSession
<1>1. RestartInit => QuietUntilAsked
  BY DEF RestartInit, Init, QuietUntilAsked
<1>2. QuietUntilAsked /\ [RestartNext]_restartVars => QuietUntilAsked'
  <2> SUFFICES ASSUME QuietUntilAsked, [RestartNext]_restartVars
               PROVE  QuietUntilAsked'
    OBVIOUS
  <2>1. CASE Keying(Next)
    BY <2>1, MoxNeedsIntent DEF Keying, QuietUntilAsked
  <2>2. CASE Close
    BY <2>2 DEF Close, QuietUntilAsked
  <2>3. CASE Open
    BY <2>3 DEF Open, ForceRest, QuietUntilAsked
  <2>4. CASE UNCHANGED restartVars
    BY <2>4 DEF restartVars, vars, funnelVars, wireVars, QuietUntilAsked
  <2> QED BY <2>1, <2>2, <2>3, <2>4 DEF RestartNext
<1>3. QuietUntilAsked => KeyedOnlyByThisSession
  BY DEF QuietUntilAsked, KeyedOnlyByThisSession
<1> QED BY <1>1, <1>2, <1>3, PTL DEF RestartSpec
=============================================================================
