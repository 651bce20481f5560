------------------------- MODULE KeySources_proofs -------------------------
(***************************************************************************)
(* Proofs about the keying sources, for every set of sources and every     *)
(* debounce length, and that the funnel they share implements KeyedHost;   *)
(* at the end the same for the one source with clients of its own, the TCI *)
(* server, for every set of clients.                                       *)
(*                                                                         *)
(* The funnel has no owner, so each argument is about what a release may   *)
(* find: a request of the serial line ends with the line, because the same *)
(* step that drops the line releases the key; a request of the voice       *)
(* keyer ends with the clip, because the clip cannot end between play()    *)
(* and its call of the funnel.                                             *)
(***************************************************************************)
EXTENDS KeySources, TciServer, TLAPS

-----------------------------------------------------------------------------
(* The funnel and its host.                                                *)

\* A request is one of the host, or it was refused.
LEMMA RequestIsHosts ==
    ASSUME NEW on \in BOOLEAN, NEW src, Request(on, src)
    PROVE  [Host!Next]_<<requested, active>>
BY DEF Request, funnel, Host!Next, Host!Request

\* Each timed step reports an edge towards the request, or none.
LEMMA ChainIsHosts ==
    ASSUME active \in BOOLEAN, requested \in BOOLEAN, Chain
    PROVE  [Host!Next]_<<requested, active>>
BY DEF Chain, KeydownPostMox, KeydownSettled, KeyupPostSpace, KeyupTxOff,
       KeyupSettled, Host!Next, Host!OnAir, Host!OffAir

\* A lockout releases the key at most.
LEMMA LocksAreHosts ==
    ASSUME NEW l, Engage(l) \/ Disengage(l)
    PROVE  [Host!Next]_<<requested, active>>
<1>1. CASE Engage(l)
  <2>1. CASE Request(FALSE, Manual)
    BY <2>1, RequestIsHosts
  <2>2. CASE UNCHANGED funnel
    BY <2>2 DEF funnel
  <2> QED BY <1>1, <2>1, <2>2 DEF Engage
<1>2. CASE Disengage(l)
  BY <1>2 DEF Disengage, funnel
<1> QED BY <1>1, <1>2

\* The two flags the host interface shows stay Boolean.
Flags == requested \in BOOLEAN /\ active \in BOOLEAN

\* The abstract host only ever writes Booleans.
LEMMA HostKeepsFlags == Flags /\ [Host!Next]_<<requested, active>> => Flags'
BY DEF Flags, Host!Next, Host!OnAir, Host!OffAir, Host!Request

\* What the bridge is written against is what the funnel does: for every set
\* of sources, with requests and lockouts at any time, the on-air edges of the
\* chain follow the request of the moment.
THEOREM FunnelImplementsHost == FunnelSpec => ImplementsHost
<1>1. FunnelInit => Host!Init /\ Flags
  BY DEF FunnelInit, Host!Init, Flags
<1>2. Flags /\ [FunnelNext]_<<funnel, locks>> => [Host!Next]_<<requested, active>>
  <2> SUFFICES ASSUME Flags, [FunnelNext]_<<funnel, locks>>
               PROVE  [Host!Next]_<<requested, active>>
    OBVIOUS
  <2>1. CASE Chain
    BY <2>1, ChainIsHosts DEF Flags
  <2>2. ASSUME NEW on \in BOOLEAN, NEW src \in Sources, Request(on, src)
        PROVE  [Host!Next]_<<requested, active>>
    BY <2>2, RequestIsHosts
  <2>3. ASSUME NEW l \in Lock, Engage(l) \/ Disengage(l)
        PROVE  [Host!Next]_<<requested, active>>
    BY <2>3, LocksAreHosts
  <2>4. CASE UNCHANGED <<funnel, locks>>
    BY <2>4 DEF funnel
  <2> QED BY <2>1, <2>2, <2>3, <2>4 DEF FunnelNext
<1> QED BY <1>1, <1>2, HostKeepsFlags, PTL DEF FunnelSpec, ImplementsHost, Host!Spec

-----------------------------------------------------------------------------
(* The sources and the funnel.                                             *)

\* The sources do to the funnel what the funnel allows anyone to do.
LEMMA SourcesUseFunnel ==
    ASSUME [Next]_kvars PROVE [FunnelNext]_<<funnel, locks>>
<1> DEFINE Step == [FunnelNext]_<<funnel, locks>>
<1>1. ASSUME NEW on \in BOOLEAN, NEW src \in Sources, Request(on, src),
             UNCHANGED locks
      PROVE  Step
  BY <1>1 DEF FunnelNext
<1>2. ASSUME UNCHANGED <<funnel, locks>> PROVE Step
  BY <1>2
<1>3. Manual \in Sources /\ {"HwPtt", "Serial", "Vox", "Keyer"} \subseteq Sources
  BY ManualAssumption, KeySourcesAssumption
<1>4. CASE Timers
  BY <1>4 DEF Timers, FunnelNext
<1>5. ASSUME NEW b \in BOOLEAN,
             ManualKey(b) \/ HwPttPoll(b) \/ VoxPoll(b) \/ SerialPoll(b)
      PROVE  Step
  <2>1. CASE ManualKey(b)
    BY <1>1, <1>3, <2>1 DEF ManualKey
  <2>2. CASE HwPttPoll(b)
    BY <1>1, <1>2, <1>3, <2>2 DEF HwPttPoll
  <2>3. CASE VoxPoll(b)
    <3> DEFINE open  == vox.enabled /\ ~cw /\ "inhibit" \notin locks
               takes == open /\ b /\ ~Owned /\ ~mox /\ ~requested
               drops == Owned /\ ~(open /\ b)
    <3>1. takes \in BOOLEAN
      OBVIOUS
    <3>2. UNCHANGED locks /\ IF takes \/ drops THEN Request(takes, "Vox")
                                               ELSE UNCHANGED funnel
      BY <2>3 DEF VoxPoll
    <3> HIDE DEF takes, drops
    <3> QED BY <1>1, <1>2, <1>3, <3>1, <3>2
  <2>4. CASE SerialPoll(b)
    BY <1>1, <1>2, <1>3, <2>4 DEF SerialPoll
  <2> QED BY <1>5, <2>1, <2>2, <2>3, <2>4
<1>6. ASSUME NEW l \in Lock, LockOrUnlock(l) PROVE Step
  BY <1>6 DEF LockOrUnlock, FunnelNext
<1>7. CASE \/ SetTxMode \/ SetHwPtt \/ SerialStart \/ Stop \/ FillBlock
           \/ \E ota \in BOOLEAN : Play(ota)
  BY <1>2, <1>7 DEF SetTxMode, SetHwPtt, SerialStart, Play, Stop, FillBlock
<1>8. CASE SetVox
  BY <1>1, <1>2, <1>3, <1>8 DEF SetVox
<1>9. CASE SerialStop
  BY <1>1, <1>2, <1>3, <1>9 DEF SerialStop
<1>10. CASE KeyFn
  BY <1>1, <1>3, <1>10 DEF KeyFn, sources
<1>11. CASE WireKeyUp
  BY <1>1, <1>3, <1>11 DEF WireKeyUp
<1>12. CASE UNCHANGED kvars
  BY <1>2, <1>12 DEF kvars, sources
<1> QED BY <1>4, <1>5, <1>6, <1>7, <1>8, <1>9, <1>10, <1>11, <1>12 DEF Next

\* Foot switch, VOX, serial line, voice keyer and operator together, on two
\* threads, never make the sequencer report an edge against the request.
THEOREM SourcesImplementHost == Spec => ImplementsHost
<1>1. Init => FunnelInit
  BY DEF Init
<1>2. [Next]_kvars => [FunnelNext]_<<funnel, locks>>
  BY SourcesUseFunnel
<1> QED BY <1>1, <1>2, FunnelImplementsHost, PTL DEF Spec, FunnelSpec

-----------------------------------------------------------------------------
(* VOX.                                                                    *)

\* VOX never takes the key from another source: the reconcile block of
\* onVoxPoll makes a belief that is not borne out by the funnel no reason to
\* release.
THEOREM VoxReleasesItsOwn == Spec => VoxReleasesOwn
<1>1. ASSUME requested, ~requested', SetVox PROVE pttSource = "Vox"
  BY <1>1 DEF SetVox, Owned, Request, funnel
<1>2. ASSUME requested, ~requested', NEW b \in BOOLEAN, VoxPoll(b)
      PROVE  pttSource = "Vox"
  BY <1>2 DEF VoxPoll, Owned, Request, funnel
<1>3. [Next]_kvars => [requested /\ ~requested'
                         /\ (SetVox \/ \E b \in BOOLEAN : VoxPoll(b))
                            => pttSource = "Vox"]_kvars
  BY <1>1, <1>2
<1> QED BY <1>3, PTL DEF Spec, VoxReleasesOwn

-----------------------------------------------------------------------------
(* Typing.                                                                 *)

\* The calls of the funnel whose direction is computed.
LEMMA VoxCalls ==
    ASSUME NEW b, VoxPoll(b)
    PROVE  \/ \E on \in BOOLEAN : Request(on, "Vox")
           \/ UNCHANGED funnel
<1> DEFINE open  == vox.enabled /\ ~cw /\ "inhibit" \notin locks
           takes == open /\ b /\ ~Owned /\ ~mox /\ ~requested
           drops == Owned /\ ~(open /\ b)
<1>1. takes \in BOOLEAN
  OBVIOUS
<1>2. IF takes \/ drops THEN Request(takes, "Vox") ELSE UNCHANGED funnel
  BY DEF VoxPoll
<1> HIDE DEF takes, drops
<1> QED BY <1>1, <1>2

\* The voice keyer reaches the funnel in these two steps only.
LEMMA KeyerCalls ==
    ASSUME KeyFn
    PROVE  \/ mainAt = "press" /\ Request(TRUE, "Keyer")
           \/ mainAt = "release" /\ Request(FALSE, "Keyer")
<1>1. CASE mainAt = "press"
  <2>1. (mainAt = "press") = TRUE
    BY <1>1
  <2> QED BY <1>1, <2>1 DEF KeyFn
<1>2. CASE mainAt = "release"
  <2>1. (mainAt = "press") = FALSE
    BY <1>2
  <2> QED BY <1>2, <2>1 DEF KeyFn
<1> QED BY <1>1, <1>2 DEF KeyFn

\* The funnel keeps its types under any request.
LEMMA RequestType ==
    ASSUME FunnelType, UNCHANGED locks,
           NEW on \in BOOLEAN, NEW src \in Sources, Request(on, src)
    PROVE  FunnelType'
BY DEF FunnelType, Request, funnel, Started, Stage

\* So does the chain behind it.
LEMMA ChainType ==
    ASSUME FunnelType, Chain, UNCHANGED locks PROVE FunnelType'
BY ManualAssumption
   DEF FunnelType, Chain, Started, Stage, KeydownPostMox, KeydownSettled,
       KeyupPostSpace, KeyupTxOff, KeyupSettled

\* So do the inhibit and the converter lock.
LEMMA LocksType ==
    ASSUME FunnelType, NEW l \in Lock, Engage(l) \/ Disengage(l)
    PROVE  FunnelType'
<1>1. locks' \subseteq Lock
  BY DEF Engage, Disengage, FunnelType, Lock
<1>2. UNCHANGED funnel \/ Request(FALSE, Manual)
  BY DEF Engage, Disengage
<1>3. CASE UNCHANGED funnel
  BY <1>1, <1>3 DEF FunnelType, funnel
<1>4. CASE Request(FALSE, Manual)
  BY <1>1, <1>4, ManualAssumption DEF FunnelType, Request, funnel, Started, Stage
<1> QED BY <1>2, <1>3, <1>4

\* Every step of the key sources keeps the types.
LEMMA TypeKept == TypeOK /\ [Next]_kvars => TypeOK'
<1> SUFFICES ASSUME TypeOK, [Next]_kvars PROVE TypeOK'
  OBVIOUS
<1>1. FunnelType'
  <2>1. ASSUME UNCHANGED locks, NEW on \in BOOLEAN, NEW src \in Sources,
               Request(on, src)
        PROVE  FunnelType'
    BY <2>1, RequestType DEF TypeOK
  <2>2. ASSUME UNCHANGED <<funnel, locks>> PROVE FunnelType'
    BY <2>2 DEF TypeOK, FunnelType, funnel
  <2>3. ASSUME Chain, UNCHANGED locks PROVE FunnelType'
    BY <2>3, ChainType DEF TypeOK
  <2>4. ASSUME NEW l \in Lock, Engage(l) \/ Disengage(l) PROVE FunnelType'
    BY <2>4, LocksType DEF TypeOK
  <2>5. [FunnelNext]_<<funnel, locks>>
    BY SourcesUseFunnel
  <2> QED BY <2>1, <2>2, <2>3, <2>4, <2>5 DEF FunnelNext
<1>2. cw' \in BOOLEAN
  BY DEF TypeOK, Next, Timers, ManualKey, HwPttPoll, VoxPoll, SerialPoll,
         LockOrUnlock, SetTxMode, SetHwPtt, SetVox, SerialStart, SerialStop,
         Play, Stop, KeyFn, FillBlock, WireKeyUp, kvars, sources
<1>3. hw' \in [enabled : BOOLEAN, last : BOOLEAN]
  <2>1. ASSUME NEW b \in BOOLEAN, HwPttPoll(b)
        PROVE  hw' \in [enabled : BOOLEAN, last : BOOLEAN]
    BY <2>1 DEF TypeOK, HwPttPoll
  <2>2. CASE SetHwPtt
    <3>1. (~hw.enabled) \in BOOLEAN
      OBVIOUS
    <3> QED BY <2>2, <3>1 DEF TypeOK, SetHwPtt
  <2>3. SetHwPtt \/ (\E b \in BOOLEAN : HwPttPoll(b)) \/ UNCHANGED hw
    BY DEF Next, Timers, ManualKey, VoxPoll, SerialPoll, LockOrUnlock,
           SetTxMode, SetVox, SerialStart, SerialStop, Play, Stop, KeyFn,
           FillBlock, WireKeyUp, kvars, sources
  <2> QED BY <2>1, <2>2, <2>3 DEF TypeOK
<1>4. vox' \in [enabled : BOOLEAN, owns : BOOLEAN]
  <2>1. ASSUME NEW b \in BOOLEAN, VoxPoll(b)
        PROVE  vox' \in [enabled : BOOLEAN, owns : BOOLEAN]
    <3>1. \E on \in BOOLEAN : vox' = [vox EXCEPT !.owns = on]
      BY <2>1, Zenon DEF VoxPoll
    <3> QED BY <3>1 DEF TypeOK
  <2>2. CASE SetVox
    <3>1. (~vox.enabled) \in BOOLEAN
      OBVIOUS
    <3> QED BY <2>2, <3>1 DEF SetVox
  <2>3. SetVox \/ (\E b \in BOOLEAN : VoxPoll(b)) \/ UNCHANGED vox
    BY DEF Next, Timers, ManualKey, HwPttPoll, SerialPoll, LockOrUnlock,
           SetTxMode, SetHwPtt, SerialStart, SerialStop, Play, Stop, KeyFn,
           FillBlock, WireKeyUp, kvars, sources
  <2> QED BY <2>1, <2>2, <2>3 DEF TypeOK
<1>5. serial' \in [open : BOOLEAN, active : BOOLEAN,
                   count : 0 .. DebounceSamples - 1]
  <2>1. ASSUME NEW b \in BOOLEAN, SerialPoll(b)
        PROVE  serial' \in [open : BOOLEAN, active : BOOLEAN,
                            count : 0 .. DebounceSamples - 1]
    <3>1. (IF b = serial.active \/ Debounced(b) THEN 0 ELSE serial.count + 1)
             \in 0 .. DebounceSamples - 1
      BY KeySourcesAssumption DEF TypeOK, Debounced
    <3>2. (IF Debounced(b) THEN b ELSE serial.active) \in BOOLEAN
      BY DEF TypeOK
    <3>3. serial' = [serial EXCEPT
              !.active = IF Debounced(b) THEN b ELSE @,
              !.count = IF b = serial.active \/ Debounced(b) THEN 0 ELSE @ + 1]
      BY <2>1, Zenon DEF SerialPoll
    <3> QED BY <3>1, <3>2, <3>3 DEF TypeOK
  <2>2. CASE SerialStart
    <3>1. serial' = [open |-> TRUE, active |-> FALSE, count |-> 0]
      BY <2>2, Zenon DEF SerialStart
    <3> QED BY <3>1, KeySourcesAssumption
  <2>4. CASE SerialStop
    <3>1. serial' = [serial EXCEPT !.open = FALSE, !.active = FALSE]
      BY <2>4, Zenon DEF SerialStop
    <3> QED BY <3>1 DEF TypeOK
  <2>3. \/ SerialStart \/ SerialStop \/ \E b \in BOOLEAN : SerialPoll(b)
        \/ UNCHANGED serial
    BY DEF Next, Timers, ManualKey, HwPttPoll, VoxPoll, LockOrUnlock,
           SetTxMode, SetHwPtt, SetVox, Play, Stop, KeyFn, FillBlock,
           WireKeyUp, kvars, sources
  <2> QED BY <2>1, <2>2, <2>3, <2>4 DEF TypeOK
<1>6. keyer' \in [state : {"Idle", "Playing", "Draining"}, held : BOOLEAN,
                  owed : BOOLEAN]
  <2>1. CASE Stop \/ FillBlock \/ WireKeyUp
    BY <2>1 DEF TypeOK, Stop, FillBlock, Finished, WireKeyUp
  <2>3. ASSUME NEW ota \in BOOLEAN, Play(ota)
        PROVE  keyer' \in [state : {"Idle", "Playing", "Draining"},
                           held : BOOLEAN, owed : BOOLEAN]
    BY <2>3 DEF TypeOK, Play
  <2>2. \/ Stop \/ FillBlock \/ WireKeyUp \/ UNCHANGED keyer
        \/ \E ota \in BOOLEAN : Play(ota)
    BY DEF Next, Timers, ManualKey, HwPttPoll, VoxPoll, SerialPoll,
           LockOrUnlock, SetTxMode, SetHwPtt, SetVox, SerialStart, SerialStop,
           KeyFn, kvars, sources
  <2> QED BY <2>1, <2>2, <2>3 DEF TypeOK
<1>7. mainAt' \in {"events", "vox", "press", "release"}
  BY DEF TypeOK, Next, Timers, ManualKey, HwPttPoll, VoxPoll, SerialPoll,
         LockOrUnlock, SetTxMode, SetHwPtt, SetVox, SerialStart, SerialStop,
         Play, Stop, KeyFn, FillBlock, WireKeyUp, kvars, sources
<1> QED BY <1>1, <1>2, <1>3, <1>4, <1>5, <1>6, <1>7 DEF TypeOK

\* Type correctness for every set of sources and every debounce length; the
\* counter of the debounce never reaches it.
THEOREM KeySourcesTyped == Spec => []TypeOK
<1>1. ASSUME Init PROVE TypeOK
  <2>1. FunnelType
    BY <1>1, ManualAssumption DEF Init, FunnelInit, FunnelType, Lock, Stage
  <2>2. serial \in [open : BOOLEAN, active : BOOLEAN,
                   count : 0 .. DebounceSamples - 1]
    BY <1>1, KeySourcesAssumption DEF Init
  <2>3. vox \in [enabled : BOOLEAN, owns : BOOLEAN]
    BY <1>1 DEF Init
  <2>4. keyer \in [state : {"Idle", "Playing", "Draining"}, held : BOOLEAN,
                  owed : BOOLEAN]
    BY <1>1 DEF Init
  <2> QED BY <1>1, <2>1, <2>2, <2>3, <2>4 DEF Init, TypeOK
<1> QED BY <1>1, TypeKept, PTL DEF Spec

-----------------------------------------------------------------------------
(* Keys that are held.                                                     *)

\* What a request does to the two fields the sources look at.
LEMMA RequestOutcome ==
    ASSUME NEW on \in BOOLEAN, NEW src, Request(on, src)
    PROVE  /\ UNCHANGED active
           /\ \/ UNCHANGED <<requested, pttSource>>
              \/ on /\ requested' = TRUE /\ pttSource' = src
              \/ ~on /\ requested' = FALSE /\ pttSource' = pttSource
BY DEF Request, funnel

\* A release leaves nothing requested, whoever asks.
LEMMA RequestOff ==
    ASSUME NEW src, Request(FALSE, src) PROVE ~requested'
BY DEF Request, funnel

\* The chain leaves the request alone and may forget the source.
LEMMA ChainOutcome ==
    ASSUME Chain
    PROVE  requested' = requested /\ pttSource' \in {pttSource, Manual}
BY DEF Chain, KeydownPostMox, KeydownSettled, KeyupPostSpace, KeyupTxOff,
       KeyupSettled

\* A lockout releases the key at most.
LEMMA LocksOutcome ==
    ASSUME NEW l, Engage(l) \/ Disengage(l)
    PROVE  /\ UNCHANGED <<active, pttSource>>
           /\ requested' = requested \/ requested' = FALSE
<1>1. CASE Engage(l)
  BY <1>1, RequestOutcome DEF Engage, funnel
<1>2. CASE Disengage(l)
  BY <1>2 DEF Disengage, funnel
<1> QED BY <1>1, <1>2

\* The operator is none of the other sources.
LEMMA SourcesDiffer ==
    /\ Manual # "Serial" /\ Manual # "Keyer"
BY KeySourcesAssumption

\* A line is asserted only while its port is open: without this a port that is
\* opened could forget a line that holds the key.
LineNeedsPort == serial.active => serial.open

SerialInv == SerialKeyIsHeld /\ LineNeedsPort

\* Steps that leave the line alone and call the funnel for others, or not at
\* all, cannot break it.
LEMMA SerialInvKept ==
    ASSUME SerialInv, UNCHANGED serial,
           \/ UNCHANGED funnel
           \/ \E on \in BOOLEAN, src \in Sources \ {"Serial"} : Request(on, src)
    PROVE  SerialInv'
<1>1. CASE UNCHANGED funnel
  BY <1>1 DEF SerialInv, SerialKeyIsHeld, LineNeedsPort, funnel
<1>2. ASSUME NEW on \in BOOLEAN, NEW src \in Sources \ {"Serial"}, Request(on, src)
      PROVE  SerialInv'
  <2>1. \/ UNCHANGED <<requested, pttSource>>
        \/ pttSource' = src
        \/ requested' = FALSE
    BY <1>2, RequestOutcome
  <2> QED BY <2>1 DEF SerialInv, SerialKeyIsHeld, LineNeedsPort
<1> QED BY <1>1, <1>2

\* A key the serial line pressed is held by an asserted line: the line that
\* lets go, or whose port is closed, releases in the same step.
THEOREM SerialKeyAlwaysHeld == Spec => []SerialKeyIsHeld
<1>1. Init => SerialInv
  BY DEF Init, FunnelInit, SerialInv, SerialKeyIsHeld, LineNeedsPort
<1>2. TypeOK /\ SerialInv /\ [Next]_kvars => SerialInv'
  <2> SUFFICES ASSUME TypeOK, SerialInv, [Next]_kvars PROVE SerialInv'
    OBVIOUS
  <2>0. /\ {"HwPtt", "Vox", "Keyer", Manual} \subseteq Sources \ {"Serial"}
        /\ TRUE \in BOOLEAN /\ FALSE \in BOOLEAN
    BY KeySourcesAssumption, ManualAssumption
  <2>1. CASE Timers
    <3>1. UNCHANGED serial /\ requested' = requested /\ pttSource' \in {pttSource, Manual}
      BY <2>1, ChainOutcome DEF Timers, sources
    <3> QED BY <3>1, SourcesDiffer DEF SerialInv, SerialKeyIsHeld, LineNeedsPort
  <2>2. ASSUME NEW b \in BOOLEAN, ManualKey(b) PROVE SerialInv'
    BY <2>0, <2>2, SerialInvKept DEF ManualKey, sources
  <2>3. ASSUME NEW b \in BOOLEAN, HwPttPoll(b) PROVE SerialInv'
    <3>1. UNCHANGED serial /\ (Request(b, "HwPtt") \/ UNCHANGED funnel)
      BY <2>3, Zenon DEF HwPttPoll
    <3> QED BY <2>0, <3>1, SerialInvKept
  <2>4. ASSUME NEW b \in BOOLEAN, VoxPoll(b) PROVE SerialInv'
    <3>1. UNCHANGED serial
      BY <2>4, Zenon DEF VoxPoll
    <3> QED BY <2>0, <2>4, <3>1, VoxCalls, SerialInvKept
  <2>5. ASSUME NEW b \in BOOLEAN, SerialPoll(b) PROVE SerialInv'
    <3>1. /\ serial.open
          /\ serial' = [serial EXCEPT
              !.active = IF Debounced(b) THEN b ELSE @,
              !.count = IF b = serial.active \/ Debounced(b) THEN 0 ELSE @ + 1]
          /\ IF Debounced(b) THEN Request(b, "Serial") ELSE UNCHANGED funnel
      BY <2>5, Zenon DEF SerialPoll
    <3>2. serial'.open /\ serial'.active = IF Debounced(b) THEN b ELSE serial.active
      BY <3>1 DEF TypeOK
    <3>3. CASE Debounced(b)
      <4>1. Request(b, "Serial") /\ serial'.active = b
        BY <3>1, <3>2, <3>3
      <4>2. CASE b
        BY <3>2, <4>1, <4>2 DEF SerialInv, SerialKeyIsHeld, LineNeedsPort
      <4>3. CASE ~b
        <5>1. ~requested'
          BY <4>1, <4>3, RequestOff
        <5> QED BY <3>2, <5>1 DEF SerialInv, SerialKeyIsHeld, LineNeedsPort
      <4> QED BY <4>2, <4>3
    <3>4. CASE ~Debounced(b)
      BY <3>1, <3>2, <3>4 DEF SerialInv, SerialKeyIsHeld, LineNeedsPort, funnel
    <3> QED BY <3>3, <3>4
  <2>6. ASSUME NEW l \in Lock, LockOrUnlock(l) PROVE SerialInv'
    <3>1. UNCHANGED serial /\ (Engage(l) \/ Disengage(l))
      BY <2>6 DEF LockOrUnlock, sources
    <3>2. UNCHANGED pttSource /\ (requested' = requested \/ requested' = FALSE)
      BY <3>1, LocksOutcome
    <3> QED BY <3>1, <3>2 DEF SerialInv, SerialKeyIsHeld, LineNeedsPort
  <2>7. CASE \/ SetTxMode \/ SetHwPtt \/ Stop \/ FillBlock
             \/ \E ota \in BOOLEAN : Play(ota)
    <3>1. UNCHANGED <<serial, funnel>>
      BY <2>7 DEF SetTxMode, SetHwPtt, Play, Stop, FillBlock
    <3> QED BY <3>1, SerialInvKept
  <2>8. CASE SetVox
    <3>1. UNCHANGED serial /\ (Request(FALSE, "Vox") \/ UNCHANGED funnel)
      BY <2>8, Zenon DEF SetVox
    <3> QED BY <2>0, <3>1, SerialInvKept
  <2>9. CASE SerialStart
    <3>1. /\ ~serial.open /\ UNCHANGED funnel
          /\ serial' = [open |-> TRUE, active |-> FALSE, count |-> 0]
      BY <2>9, Zenon DEF SerialStart
    <3> QED BY <3>1 DEF SerialInv, SerialKeyIsHeld, LineNeedsPort, funnel
  <2>10. CASE SerialStop
    <3>1. /\ serial' = [serial EXCEPT !.open = FALSE, !.active = FALSE]
          /\ IF serial.active THEN Request(FALSE, "Serial") ELSE UNCHANGED funnel
      BY <2>10, Zenon DEF SerialStop
    <3>2. ~serial'.active
      BY <3>1 DEF TypeOK
    <3>3. ~(requested' /\ pttSource' = "Serial")
      <4>1. CASE serial.active
        BY <3>1, <4>1, RequestOff
      <4>2. CASE ~serial.active
        BY <3>1, <4>2 DEF funnel, SerialInv, SerialKeyIsHeld
      <4> QED BY <4>1, <4>2
    <3> QED BY <3>2, <3>3 DEF SerialInv, SerialKeyIsHeld, LineNeedsPort
  <2>11. CASE KeyFn
    <3>1. UNCHANGED serial
      BY <2>11 DEF KeyFn, sources
    <3> QED BY <2>0, <2>11, <3>1, KeyerCalls, SerialInvKept
  <2>12. CASE WireKeyUp
    <3>1. UNCHANGED serial /\ Request(FALSE, "Keyer")
      BY <2>12, Zenon DEF WireKeyUp
    <3> QED BY <2>0, <3>1, SerialInvKept
  <2>13. CASE UNCHANGED kvars
    <3>1. UNCHANGED <<serial, funnel>>
      BY <2>13 DEF kvars, sources
    <3> QED BY <3>1, SerialInvKept
  <2> QED BY <2>1, <2>2, <2>3, <2>4, <2>5, <2>6, <2>7, <2>8, <2>9, <2>10,
             <2>11, <2>12, <2>13 DEF Next
<1> QED BY <1>1, <1>2, KeySourcesTyped, PTL DEF Spec, SerialInv

\* While play() is on its way to the funnel the clip plays, with the key held
\* for it, and nobody else is on air.  This is what makes the press safe: the
\* wire thread has no reason to end the clip first.
PressIsHeld == mainAt = "press" =>
                   keyer.held /\ keyer.state = "Playing" /\ ~Blocked

\* Only a clip that plays holds a key.
ClipHolds == keyer.held => keyer.state = "Playing"

KeyerInv == KeyerKeyIsHeld /\ PressIsHeld /\ ClipHolds

\* Steps of the main thread's events that leave the clip alone.
LEMMA KeyerInvKept ==
    ASSUME KeyerInv, UNCHANGED keyer,
           mainAt \in {"events", "vox"}, mainAt' \in {"events", "vox"},
           \/ UNCHANGED funnel
           \/ \E on \in BOOLEAN, src \in Sources \ {"Keyer"} : Request(on, src)
    PROVE  KeyerInv'
<1>1. CASE UNCHANGED funnel
  BY <1>1 DEF KeyerInv, KeyerKeyIsHeld, PressIsHeld, ClipHolds, funnel
<1>2. ASSUME NEW on \in BOOLEAN, NEW src \in Sources \ {"Keyer"}, Request(on, src)
      PROVE  KeyerInv'
  <2>1. \/ UNCHANGED <<requested, pttSource>>
        \/ pttSource' = src
        \/ requested' = FALSE
    BY <1>2, RequestOutcome
  <2> QED BY <2>1 DEF KeyerInv, KeyerKeyIsHeld, PressIsHeld, ClipHolds
<1> QED BY <1>1, <1>2

\* A key the voice keyer pressed is held by a clip, or its release is on its
\* way on one of the two threads, provided that no clip runs out while play()
\* still calls the funnel: then the release would come before the press.
THEOREM KeyerKeyAlwaysHeld ==
    ASSUME ~ShortClips PROVE Spec => []KeyerKeyIsHeld
<1>1. Init => KeyerInv
  BY DEF Init, FunnelInit, KeyerInv, KeyerKeyIsHeld, PressIsHeld, ClipHolds
<1>2. TypeOK /\ KeyerInv /\ [Next]_kvars => KeyerInv'
  <2> SUFFICES ASSUME TypeOK, KeyerInv, [Next]_kvars PROVE KeyerInv'
    OBVIOUS
  <2>0. /\ {"HwPtt", "Vox", "Serial", Manual} \subseteq Sources \ {"Keyer"}
        /\ TRUE \in BOOLEAN /\ FALSE \in BOOLEAN
    BY KeySourcesAssumption, ManualAssumption
  <2>1. CASE Timers
    <3>1. /\ UNCHANGED <<keyer, requested, mainAt>> /\ mainAt = "events"
          /\ pttSource' \in {pttSource, Manual}
      BY <2>1, ChainOutcome DEF Timers, sources, Main
    <3> QED BY <3>1, SourcesDiffer DEF KeyerInv, KeyerKeyIsHeld, PressIsHeld, ClipHolds
  <2>2. ASSUME NEW b \in BOOLEAN, ManualKey(b) PROVE KeyerInv'
    BY <2>0, <2>2, KeyerInvKept DEF ManualKey, sources, Main
  <2>3. ASSUME NEW b \in BOOLEAN, HwPttPoll(b) PROVE KeyerInv'
    <3>1. /\ UNCHANGED keyer /\ mainAt = "events" /\ mainAt' = "vox"
          /\ Request(b, "HwPtt") \/ UNCHANGED funnel
      BY <2>3, Zenon DEF HwPttPoll, Main
    <3> QED BY <2>0, <3>1, KeyerInvKept
  <2>4. ASSUME NEW b \in BOOLEAN, VoxPoll(b) PROVE KeyerInv'
    <3>1. UNCHANGED keyer /\ mainAt = "vox" /\ mainAt' = "events"
      BY <2>4, Zenon DEF VoxPoll
    <3> QED BY <2>0, <2>4, <3>1, VoxCalls, KeyerInvKept
  <2>5. ASSUME NEW b \in BOOLEAN, SerialPoll(b) PROVE KeyerInv'
    <3>1. /\ UNCHANGED <<keyer, mainAt>> /\ mainAt = "events"
          /\ Request(b, "Serial") \/ UNCHANGED funnel
      BY <2>5, Zenon DEF SerialPoll, Main
    <3> QED BY <2>0, <3>1, KeyerInvKept
  <2>6. ASSUME NEW l \in Lock, LockOrUnlock(l) PROVE KeyerInv'
    <3>1. /\ UNCHANGED <<keyer, mainAt>> /\ mainAt = "events"
          /\ Engage(l) \/ Disengage(l)
      BY <2>6 DEF LockOrUnlock, sources, Main
    <3>2. UNCHANGED pttSource /\ (requested' = requested \/ requested' = FALSE)
      BY <3>1, LocksOutcome
    <3> QED BY <3>1, <3>2 DEF KeyerInv, KeyerKeyIsHeld, PressIsHeld, ClipHolds
  <2>7. CASE SetTxMode \/ SetHwPtt \/ SerialStart
    <3>1. UNCHANGED <<keyer, funnel, mainAt>> /\ mainAt = "events"
      BY <2>7, Zenon DEF SetTxMode, SetHwPtt, SerialStart, Main
    <3> QED BY <3>1, KeyerInvKept
  <2>8. CASE SetVox
    <3>1. /\ UNCHANGED <<keyer, mainAt>> /\ mainAt = "events"
          /\ Request(FALSE, "Vox") \/ UNCHANGED funnel
      BY <2>8, Zenon DEF SetVox, Main
    <3> QED BY <2>0, <3>1, KeyerInvKept
  <2>9. CASE SerialStop
    <3>1. /\ UNCHANGED <<keyer, mainAt>> /\ mainAt = "events"
          /\ Request(FALSE, "Serial") \/ UNCHANGED funnel
      BY <2>9, Zenon DEF SerialStop, Main
    <3> QED BY <2>0, <3>1, KeyerInvKept
  <2>10. ASSUME NEW ota \in BOOLEAN, Play(ota) PROVE KeyerInv'
    <3>1. /\ keyer' = [keyer EXCEPT !.state = "Playing", !.held = ota]
          /\ keyer.state = "Idle" /\ (ota => ~Blocked) /\ UNCHANGED funnel
          /\ mainAt = "events" /\ mainAt' = IF ota THEN "press" ELSE "events"
      BY <2>10, Zenon DEF Play, Main
    <3>2. keyer'.held = ota /\ keyer'.state = "Playing" /\ keyer'.owed = keyer.owed
      BY <3>1 DEF TypeOK
    <3>3. ~keyer.held
      BY <3>1 DEF KeyerInv, ClipHolds
    <3>4. CASE ota
      <4>1. ~Blocked'
        BY <3>1, <3>4 DEF Blocked, funnel
      <4> QED BY <3>2, <3>4, <4>1 DEF KeyerInv, KeyerKeyIsHeld, PressIsHeld, ClipHolds
    <3>5. CASE ~ota
      <4>1. KeyerKeyIsHeld'
        BY <3>1, <3>2, <3>3, <3>5 DEF KeyerInv, KeyerKeyIsHeld, funnel
      <4> QED BY <3>1, <3>2, <3>5, <4>1 DEF KeyerInv, PressIsHeld, ClipHolds
    <3> QED BY <3>4, <3>5
  <2>11. CASE Stop
    <3>1. /\ mainAt = "events" /\ UNCHANGED funnel
          /\ mainAt' = IF keyer.held THEN "release" ELSE "events"
          /\ keyer' = [keyer EXCEPT !.state = "Idle", !.held = FALSE]
      BY <2>11, Zenon DEF Stop, Main
    <3>2. keyer'.owed = keyer.owed /\ ~keyer'.held
      BY <3>1 DEF TypeOK
    <3>3. mainAt' # "press"
      BY <3>1
    <3>4. KeyerKeyIsHeld'
      BY <3>1, <3>2 DEF KeyerInv, KeyerKeyIsHeld, funnel
    <3> QED BY <3>2, <3>3, <3>4 DEF KeyerInv, PressIsHeld, ClipHolds
  <2>12. CASE KeyFn
    <3>1. UNCHANGED keyer /\ mainAt' = "events"
      BY <2>12 DEF KeyFn, sources
    <3>2. CASE mainAt = "press" /\ Request(TRUE, "Keyer")
      BY <3>1, <3>2 DEF KeyerInv, KeyerKeyIsHeld, PressIsHeld, ClipHolds
    <3>3. CASE Request(FALSE, "Keyer")
      <4>1. ~requested'
        BY <3>3, RequestOff
      <4> QED BY <3>1, <4>1 DEF KeyerInv, KeyerKeyIsHeld, PressIsHeld, ClipHolds
    <3> QED BY <2>12, <3>2, <3>3, KeyerCalls
  <2>13. CASE FillBlock
    <3>1. UNCHANGED <<funnel, mainAt>>
      BY <2>13, Zenon DEF FillBlock
    <3>2. Blocked' <=> Blocked
      BY <3>1 DEF Blocked, funnel
    <3>3. CASE /\ Blocked /\ keyer' = [keyer EXCEPT !.state = "Idle", !.held = FALSE]
      <4>1. ~keyer'.held
        BY <3>3 DEF TypeOK
      <4> QED BY <3>1, <3>2, <3>3, <4>1 DEF KeyerInv, KeyerKeyIsHeld, PressIsHeld, ClipHolds,
                                             Blocked, funnel
    <3>4. CASE ~Blocked /\ keyer' = Finished /\ mainAt # "press"
      <4>1. keyer'.owed = keyer.held /\ ~keyer'.held
        BY <3>4 DEF Finished, TypeOK
      <4>2. ~keyer.owed
        BY <2>13, Zenon DEF FillBlock
      <4> QED BY <3>1, <3>4, <4>1, <4>2
              DEF KeyerInv, KeyerKeyIsHeld, PressIsHeld, ClipHolds, funnel
    <3>5. CASE /\ ~Blocked /\ keyer.state = "Draining"
               /\ keyer' = [keyer EXCEPT !.state = "Idle"]
      <4>1. keyer'.held = keyer.held /\ keyer'.owed = keyer.owed
        BY <3>5 DEF TypeOK
      <4>2. mainAt # "press" /\ ~keyer.held
        BY <3>5 DEF KeyerInv, PressIsHeld, ClipHolds
      <4> QED BY <3>1, <4>1, <4>2 DEF KeyerInv, KeyerKeyIsHeld, PressIsHeld,
                                      ClipHolds, funnel
    <3> QED BY <2>13, <3>3, <3>4, <3>5 DEF FillBlock
  <2>14. CASE WireKeyUp
    <3>1. /\ UNCHANGED mainAt /\ Request(FALSE, "Keyer")
          /\ keyer' = [keyer EXCEPT !.owed = FALSE]
      BY <2>14, Zenon DEF WireKeyUp
    <3>2. keyer'.held = keyer.held /\ keyer'.state = keyer.state
      BY <3>1 DEF TypeOK
    <3>3. ~requested' /\ UNCHANGED active /\ (pttSource' = pttSource)
      BY <3>1, SMT DEF Request, funnel
    <3>4. Blocked' <=> Blocked
      BY <3>3 DEF Blocked
    <3> QED BY <3>1, <3>2, <3>3, <3>4 DEF KeyerInv, KeyerKeyIsHeld, PressIsHeld, ClipHolds
  <2>15. CASE UNCHANGED kvars
    <3>1. UNCHANGED <<keyer, funnel, mainAt>>
      BY <2>15 DEF kvars, sources
    <3>2. Blocked' <=> Blocked
      BY <3>1 DEF Blocked, funnel
    <3> QED BY <3>1, <3>2 DEF KeyerInv, KeyerKeyIsHeld, PressIsHeld, ClipHolds, funnel
  <2> QED BY <2>1, <2>2, <2>3, <2>4, <2>5, <2>6, <2>7, <2>8, <2>9, <2>10,
             <2>11, <2>12, <2>13, <2>14, <2>15 DEF Next
<1> QED BY <1>1, <1>2, KeySourcesTyped, PTL DEF Spec, KeyerInv

-----------------------------------------------------------------------------
(* The TCI server.                                                         *)

\* What an action of the server calls the funnel for.
LEMMA TciCalls ==
    ASSUME [TciNext]_tvars
    PROVE  \/ UNCHANGED <<funnel, locks>>
           \/ UNCHANGED locks
                /\ \E on \in BOOLEAN, src \in Sources : Request(on, src)
           \/ TciTimers
           \/ Engage("inhibit") \/ Disengage("inhibit")
<1>1. Manual \in Sources /\ "Tci" \in Sources
  BY ManualAssumption, TciAssumption
<1> DEFINE Calls ==
      \/ UNCHANGED <<funnel, locks>>
      \/ UNCHANGED locks
           /\ \E on \in BOOLEAN, src \in Sources : Request(on, src)
      \/ TciTimers
      \/ Engage("inhibit") \/ Disengage("inhibit")
<1>2. ASSUME UNCHANGED locks, NEW on \in BOOLEAN, NEW src \in Sources,
             Request(on, src) \/ UNCHANGED funnel
      PROVE  Calls
  BY <1>2
<1> SUFFICES Calls
  OBVIOUS
<1> HIDE DEF Calls
<1>3. ASSUME NEW c \in Clients, NEW b \in BOOLEAN, TrxOn(c, b) PROVE Calls
  BY <1>1, <1>2, <1>3 DEF TrxOn
<1>4. ASSUME NEW c \in Clients, TuneOn(c) \/ Off(c) \/ Disconnected(c) PROVE Calls
  BY <1>1, <1>2, <1>4 DEF TuneOn, Off, Disconnected
<1>5. ASSUME NEW c \in Clients, Query(c) \/ Connect(c) \/ PeerLost(c) PROVE Calls
  BY <1>1, <1>2, <1>5 DEF Query, Connect, PeerLost
<1>6. CASE \/ MaintenanceTick \/ Drain \/ TimePasses \/ SetMicSource
           \/ \E usable \in BOOLEAN : AudioFrame(usable)
  BY <1>1, <1>2, <1>6 DEF MaintenanceTick, AudioFrame, Drain, TimePasses, SetMicSource
<1>7. CASE StopServer \/ ChronoTick
  BY <1>1, <1>2, <1>7 DEF StopServer, ChronoTick
<1>8. ASSUME NEW b \in BOOLEAN, OtherKey(b) PROVE Calls
  BY <1>1, <1>2, <1>8 DEF OtherKey
<1>9. CASE TciTimers \/ Inhibit \/ UNCHANGED tvars
  BY <1>9 DEF TciTimers, Inhibit, tvars, Calls
<1> QED BY <1>3, <1>4, <1>5, <1>6, <1>7, <1>8, <1>9 DEF TciNext

\* With clients coming, going and vanishing at any time, the server too leaves
\* the sequencer the host the other parts are written against.
THEOREM TciImplementsHost == TciSpec => ImplementsHost
<1>1. TciInit => FunnelInit
  BY DEF TciInit
<1>2. [TciNext]_tvars => [FunnelNext]_<<funnel, locks>>
  BY TciCalls DEF FunnelNext, Lock, TciTimers
<1> QED BY <1>1, <1>2, FunnelImplementsHost, PTL DEF TciSpec, FunnelSpec

\* Whatever the TCI server does, the funnel keeps its types.
LEMMA TciFunnelTyped ==
    ASSUME FunnelType, [TciNext]_tvars PROVE FunnelType'
<1>1. CASE UNCHANGED <<funnel, locks>>
  BY <1>1 DEF FunnelType, funnel
<1> QED BY <1>1, TciCalls, RequestType, ChainType, LocksType DEF Lock, TciTimers

\* Only an edge of the chain moves the on-air flag.
LEMMA OnlyTheChainMovesActive ==
    ASSUME [TciNext]_tvars, active' # active PROVE TciTimers
<1>1. ASSUME NEW on, NEW src, Request(on, src) PROVE active' = active
  BY <1>1 DEF Request, funnel
<1>2. UNCHANGED funnel => active' = active
  BY DEF funnel
<1> QED BY <1>1, <1>2, TciCalls DEF Engage, Disengage

\* A broadcast writes one flag per client.
LEMMA FlagsOfAll ==
    ASSUME NEW f \in [Clients -> BOOLEAN], NEW on \in BOOLEAN
    PROVE  ToAll(f, on) \in [Clients -> BOOLEAN]
BY DEF ToAll

\* No step leaves the types of what the clients have heard.
LEMMA ToldTyped ==
    ASSUME TciTypeOK, [TciNext]_tvars
    PROVE  heard' \in [Clients -> BOOLEAN] /\ heardTune' \in [Clients -> BOOLEAN]
<1>0. /\ heard \in [Clients -> BOOLEAN] /\ heardTune \in [Clients -> BOOLEAN]
      /\ active \in BOOLEAN /\ FunnelType'
  BY TciFunnelTyped DEF TciTypeOK, FunnelType
<1>1. \/ UNCHANGED heard
      \/ \E c \in Clients : heard' \in {[heard EXCEPT ![c] = FALSE],
                                       [heard EXCEPT ![c] = active]}
      \/ heard' = ToAll(heard, active')
  BY DEF TciNext, tvars, tci, told, TrxOn, TuneOn, Off, Query, Connect, PeerLost,
         Disconnected, TciTimers, Edge, MaintenanceTick, StopServer, ChronoTick,
         AudioFrame, Drain, TimePasses, OtherKey, Inhibit, SetMicSource
<1>2. \/ UNCHANGED heardTune
      \/ \E c \in Clients : heardTune' \in {[heardTune EXCEPT ![c] = FALSE],
                                           [heardTune EXCEPT ![c] = active]}
      \/ heardTune' = ToAll(heardTune, active')
  BY DEF TciNext, tvars, tci, told, TrxOn, TuneOn, Off, Query, Connect, PeerLost,
         Disconnected, TciTimers, Edge, MaintenanceTick, StopServer, ChronoTick,
         AudioFrame, Drain, TimePasses, OtherKey, Inhibit, SetMicSource
<1>3. active' \in BOOLEAN
  BY <1>0 DEF FunnelType
<1> QED BY <1>0, <1>1, <1>2, <1>3, FlagsOfAll

Conn == {"none", "live", "gone"}

\* No step leaves the states of a connection.
LEMMA ConnTyped ==
    ASSUME TciTypeOK, [TciNext]_tvars PROVE conn' \in [Clients -> Conn]
<1>0. conn \in [Clients -> Conn]
  BY DEF TciTypeOK, Conn
<1>1. Pruned(conn) \in [Clients -> Conn]
  BY <1>0 DEF Pruned, Conn
<1>2. \/ conn' \in {conn, Pruned(conn), [c \in Clients |-> "none"]}
      \/ \E c \in Clients : \/ conn' = [conn EXCEPT ![c] = "gone"]
                            \/ conn' = [conn EXCEPT ![c] = "none"]
                            \/ conn' = [Pruned(conn) EXCEPT ![c] = "live"]
  BY DEF TciNext, tvars, tci, TrxOn, TuneOn, Off, Query, Connect, PeerLost,
         Disconnected, TciTimers, MaintenanceTick, StopServer, ChronoTick,
         AudioFrame, Drain, TimePasses, OtherKey, Inhibit, SetMicSource
<1> QED BY <1>0, <1>1, <1>2 DEF Conn

\* The audio owner is a connected client or nobody.
LEMMA OwnerTyped ==
    ASSUME TciTypeOK, [TciNext]_tvars
    PROVE  owner' \in {c \in Clients : conn'[c] # "none"} \union {Nobody}
<1> DEFINE Goal == owner' \in {c \in Clients : conn'[c] # "none"} \union {Nobody}
<1> SUFFICES Goal
  OBVIOUS
<1>0. /\ conn \in [Clients -> Conn] /\ Nobody \notin Clients
      /\ owner \in {c \in Clients : conn[c] # "none"} \union {Nobody}
  BY TciAssumption DEF TciTypeOK, Conn
<1>1. ASSUME conn' = conn, owner' \in {owner, Nobody} PROVE Goal
  BY <1>0, <1>1
<1>2. ASSUME conn' = conn, NEW c \in Clients, conn[c] # "none",
             owner' \in {owner, c} PROVE Goal
  BY <1>0, <1>2
<1>3. CASE TciTimers
  BY <1>0, <1>1, <1>3 DEF TciTimers, Edge, DisownIf, Disown, audio
<1>4. ASSUME NEW c \in Clients, NEW b \in BOOLEAN, TrxOn(c, b) \/ TuneOn(c) \/ Off(c)
      PROVE  Goal
  <2>1. conn' = conn /\ conn[c] = "live" /\ owner' \in {owner, c, Nobody}
    BY <1>4 DEF TrxOn, TuneOn, Off, Acquire, Disown, DisownIf, audio
  <2> QED BY <1>1, <1>2, <2>1
<1>5. ASSUME NEW c \in Clients, Query(c) \/ PeerLost(c) PROVE Goal
  BY <1>0, <1>5 DEF Query, PeerLost, audio, Conn
<1>6. ASSUME NEW c \in Clients, Connect(c) PROVE Goal
  BY <1>0, <1>6 DEF Connect, Pruned, OwnerLeft, Conn
<1>7. ASSUME NEW c \in Clients, Disconnected(c) PROVE Goal
  BY <1>0, <1>7 DEF Disconnected, Disown, DisownIf, audio, Conn
<1>8. CASE MaintenanceTick
  BY <1>0, <1>8 DEF MaintenanceTick, Pruned, OwnerLeft, Conn
<1>9. CASE StopServer
  BY <1>9 DEF StopServer, Disown
<1>10. CASE ChronoTick
  BY <1>0, <1>1, <1>10 DEF ChronoTick
<1>11. CASE Drain \/ TimePasses \/ SetMicSource \/ Inhibit
              \/ (\E usable \in BOOLEAN : AudioFrame(usable))
              \/ (\E on \in BOOLEAN : OtherKey(on)) \/ UNCHANGED tvars
  BY <1>0, <1>1, <1>11 DEF AudioFrame, Drain, TimePasses, SetMicSource, Inhibit,
       OtherKey, tvars, tci, audio
<1> HIDE DEF Goal
<1> QED BY <1>3, <1>4, <1>5, <1>6, <1>7, <1>8, <1>9, <1>10, <1>11 DEF TciNext

\* The lesser of two integers.
LEMMA AtMostType ==
    ASSUME NEW a \in Int, NEW b \in Int
    PROVE  AtMost(a, b) \in Int /\ AtMost(a, b) <= a /\ AtMost(a, b) <= b
             /\ (a >= 0 /\ b >= 0 => AtMost(a, b) >= 0)
BY DEF AtMost

\* Chronos outstanding and packets queued stay below their caps.
LEMMA CountsTyped ==
    ASSUME TciTypeOK, [TciNext]_tvars
    PROVE  outstanding' \in 0 .. MaxOutstanding /\ queued' \in 0 .. Cap
<1>0. /\ MaxOutstanding \in Nat /\ Cap \in Nat /\ Target \in Nat
      /\ outstanding \in 0 .. MaxOutstanding /\ queued \in 0 .. Cap
  BY TciAssumption DEF TciTypeOK
<1>1. 0 \in 0 .. MaxOutstanding /\ 0 \in 0 .. Cap
  BY <1>0
<1>2. CASE ChronoTick
  <2>1. WaitedFor \in 0 .. MaxOutstanding
    BY <1>0, <1>1 DEF WaitedFor
  <2> DEFINE missing == Target - queued - WaitedFor
             room == MaxOutstanding - WaitedFor
             asked == IF missing <= 0 THEN 0 ELSE AtMost(missing, room)
  <2>2. outstanding' \in {outstanding, WaitedFor + asked} /\ queued' = queued
    BY <1>2 DEF ChronoTick
  <2>3. missing \in Int /\ room \in 0 .. MaxOutstanding
    BY <1>0, <2>1
  <2> HIDE DEF missing, room
  <2>4. asked \in 0 .. room
    BY <1>0, <2>3, AtMostType
  <2> USE DEF room
  <2> HIDE DEF asked
  <2>5. WaitedFor + asked \in 0 .. MaxOutstanding
    BY <1>0, <2>1, <2>4
  <2> QED BY <1>0, <2>2, <2>5
<1>3. ASSUME NEW usable \in BOOLEAN, AudioFrame(usable)
      PROVE  outstanding' \in 0 .. MaxOutstanding /\ queued' \in 0 .. Cap
  <2>1. AtMost(queued + 1, Cap) \in 0 .. Cap
    BY <1>0, AtMostType
  <2> QED BY <1>0, <1>3, <2>1 DEF AudioFrame
<1>4. CASE Drain
  <2>1. queued' \in 0 .. Cap
    BY <1>0, <1>4 DEF Drain
  <2> QED BY <1>0, <1>4, <2>1 DEF Drain, audio
<1>5. ChronoTick \/ Drain \/ (\E usable \in BOOLEAN : AudioFrame(usable))
        \/ (outstanding' \in {outstanding, 0} /\ queued' \in {queued, 0})
  BY DEF TciNext, tvars, tci, audio, TrxOn, TuneOn, Off, Query, Connect, PeerLost,
         Disconnected, TciTimers, Edge, Acquire, Disown, DisownIf, MaintenanceTick,
         StopServer, TimePasses, OtherKey, Inhibit, SetMicSource
<1> QED BY <1>0, <1>1, <1>2, <1>3, <1>4, <1>5

\* No step leaves the types of the TCI switches.
LEMMA SwitchesTyped ==
    ASSUME TciTypeOK, [TciNext]_tvars
    PROVE  {chrono', quiet', micTci', tciTune'} \subseteq BOOLEAN
<1>0. {chrono, quiet, micTci, tciTune} \subseteq BOOLEAN
  BY DEF TciTypeOK
<1>1. {chrono', quiet'} \subseteq BOOLEAN
  BY <1>0 DEF TciNext, tvars, tci, audio, TrxOn, TuneOn, Off, Query, Connect,
       PeerLost, Disconnected, TciTimers, Edge, Acquire, Disown, DisownIf,
       MaintenanceTick, StopServer, ChronoTick, AudioFrame, Drain, TimePasses,
       OtherKey, Inhibit, SetMicSource
<1>2. {micTci', tciTune'} \subseteq BOOLEAN
  BY <1>0 DEF TciNext, tvars, tci, TrxOn, TuneOn, Off, Query, Connect,
       PeerLost, Disconnected, TciTimers, Edge,
       MaintenanceTick, StopServer, ChronoTick, AudioFrame, Drain, TimePasses,
       OtherKey, Inhibit, SetMicSource
<1> QED BY <1>1, <1>2

\* Every step of the TCI server keeps its types.
LEMMA TciTypeKept == ASSUME TciTypeOK, [TciNext]_tvars PROVE TciTypeOK'
<1>1. FunnelType'
  BY TciFunnelTyped DEF TciTypeOK
<1> QED BY <1>1, ConnTyped, ToldTyped, OwnerTyped, CountsTyped, SwitchesTyped
        DEF TciTypeOK, Conn

\* The TCI server starts with them.
LEMMA TciInitTyped == ASSUME TciInit PROVE TciTypeOK
<1>1. FunnelType
  BY ManualAssumption DEF TciInit, FunnelInit, FunnelType, Stage, Lock
<1>2. 0 \in 0 .. MaxOutstanding /\ 0 \in 0 .. Cap
  BY TciAssumption
<1> QED BY <1>1, <1>2 DEF TciInit, TciTypeOK

\* Type correctness for every set of clients and every size of the queue: in
\* particular the owner of the audio path is always a client the server still
\* lists, however it left, and never more requests are open than allowed.
THEOREM TciTyped == TciSpec => []TciTypeOK
BY TciInitTyped, TciTypeKept, PTL DEF TciSpec

\* The promise for the clients the server lists, the vanished ones too: a
\* vanished client is told of the edges until it is forgotten.
ListedHearTruth == \A c \in Known : heard[c] => active

\* Every step keeps the listed clients truthfully told.
LEMMA ListedHearTruthKept ==
    ASSUME TciTypeOK, ListedHearTruth, [TciNext]_tvars PROVE ListedHearTruth'
<1>0. /\ conn \in [Clients -> Conn] /\ heard \in [Clients -> BOOLEAN]
      /\ active \in BOOLEAN
  BY DEF TciTypeOK, FunnelType, Conn
<1>1. CASE active' # active
  <2>1. TciTimers
    BY <1>1, OnlyTheChainMovesActive
  <2>2. conn' = conn /\ heard' = ToAll(heard, active')
    BY <1>1, <2>1 DEF TciTimers, Edge
  <2> QED BY <1>0, <2>2 DEF ListedHearTruth, Known, ToAll
<1>2. CASE active' = active
  <2>1. \/ UNCHANGED heard
        \/ \E c \in Clients : heard' \in {[heard EXCEPT ![c] = FALSE],
                                         [heard EXCEPT ![c] = active]}
    BY <1>2 DEF TciNext, tvars, tci, told, TrxOn, TuneOn, Off, Query, Connect,
         PeerLost, Disconnected, TciTimers, MaintenanceTick, StopServer,
         ChronoTick, AudioFrame, Drain, TimePasses, OtherKey, Inhibit, SetMicSource
  <2>2. \/ \A c \in Clients : conn'[c] # "none" => conn[c] # "none"
        \/ \E c \in Clients : Connect(c)
    BY <1>0 DEF TciNext, tvars, tci, TrxOn, TuneOn, Off, Query,
         PeerLost, Disconnected, TciTimers, MaintenanceTick, StopServer, Pruned,
         ChronoTick, AudioFrame, Drain, TimePasses, OtherKey, Inhibit,
         SetMicSource, Conn
  <2>3. ASSUME NEW c \in Clients, Connect(c) PROVE ListedHearTruth'
    <3>1. heard' = [heard EXCEPT ![c] = active] /\ conn' = [Pruned(conn) EXCEPT ![c] = "live"]
      BY <2>3 DEF Connect
    <3>2. ASSUME NEW d \in Clients, d # c
          PROVE  heard'[d] = heard[d] /\ (conn'[d] # "none" => conn[d] # "none")
      <4>1. Pruned(conn) \in [Clients -> Conn]
        BY <1>0 DEF Pruned, Conn
      <4>2. conn'[d] = Pruned(conn)[d] /\ heard'[d] = heard[d]
        BY <1>0, <3>1, <3>2, <4>1
      <4> QED BY <4>2 DEF Pruned
    <3>3. heard'[c] = active
      BY <1>0, <3>1
    <3> QED BY <1>2, <3>2, <3>3 DEF ListedHearTruth, Known
  <2>4. CASE \A c \in Clients : conn'[c] # "none" => conn[c] # "none"
    <3>1. \A d \in Clients : heard'[d] => heard[d] \/ active
      BY <1>0, <2>1
    <3> QED BY <1>2, <2>4, <3>1 DEF ListedHearTruth, Known
  <2> QED BY <2>2, <2>3, <2>4
<1> QED BY <1>1, <1>2

\* No client believes that the radio transmits when it receives: for any number
\* of clients that come, go, vanish, own the audio path or are turned away, and
\* for every other source of the key.
THEOREM HeardTransmitAlwaysOnAir == TciSpec => []HeardTransmitIsOnAir
<1>1. TciInit => ListedHearTruth
  BY DEF TciInit, ListedHearTruth, Known
<1>2. ListedHearTruth => HeardTransmitIsOnAir
  BY DEF ListedHearTruth, HeardTransmitIsOnAir, Known
<1> QED BY <1>1, <1>2, TciInitTyped, TciTypeKept, ListedHearTruthKept, PTL DEF TciSpec
=============================================================================
