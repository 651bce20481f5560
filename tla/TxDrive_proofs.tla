--------------------------- MODULE TxDrive_proofs ---------------------------
(***************************************************************************)
(* Proofs about the TX drive, for every range of levels, every floor of    *)
(* the fold, every dwell and every set of bands.                           *)
(*                                                                         *)
(* Four writers share one level and one stored setting.  What ties them is *)
(* the flag of the fold: whoever moves the level stores it as well, unless *)
(* it folds, and then the flag is set until the stored setting is back.    *)
(***************************************************************************)
EXTENDS TxDrive, TLAPS

-----------------------------------------------------------------------------
(* Setting and fold.                                                       *)

\* Only a fold lets the level and its setting differ.
OnlyAFoldReduces == ~folded => drive = stored

\* A fold is never without the lamp while on air: the lamp goes out only where
\* the fold is undone.
FoldIsShown == active /\ folded => tripped

DriveInv == OnlyAFoldReduces /\ FoldIsShown

\* Setting a level stores it, or changes nothing.
LEMMA StoredFollows ==
    ASSUME NEW level, OnlyAFoldReduces, UNCHANGED folded,
           drive' = level, stored' = StoredBy(level)
    PROVE  OnlyAFoldReduces'
BY DEF OnlyAFoldReduces, StoredBy

\* Starting a tune keeps the drive invariant.
LEMMA TuneOnKeeps ==
    ASSUME NEW level, DriveInv, TuneOn(level), UNCHANGED active PROVE DriveInv'
<1> DEFINE pushed == IF level = None THEN drive ELSE level
<1>1. /\ stored' = StoredBy(pushed)
      /\ drive' = IF active THEN AfterRestore(pushed, stored') ELSE pushed
      /\ folded' <=> folded /\ ~active
      /\ tripped' <=> tripped /\ ~active
  BY DEF TuneOn
<1> HIDE DEF pushed
<1>2. ~folded => stored' = pushed
  BY <1>1 DEF StoredBy, DriveInv, OnlyAFoldReduces
<1>3. CASE active
  BY <1>1, <1>2, <1>3 DEF DriveInv, OnlyAFoldReduces, FoldIsShown, AfterRestore
<1>4. CASE ~active
  BY <1>1, <1>2, <1>4 DEF DriveInv, OnlyAFoldReduces, FoldIsShown
<1> QED BY <1>3, <1>4

\* The timers of the chain keep it: the key-down edge undoes a fold.
LEMMA TimersKeep ==
    ASSUME DriveInv, Timers PROVE DriveInv'
<1>1. CASE active' = active
  BY <1>1 DEF Timers, levels, protection, DriveInv, OnlyAFoldReduces, FoldIsShown
<1>2. CASE active' # active /\ active'
  <2>1. Arm
    BY <1>2 DEF Timers
  <2>2. ~folded' /\ drive' = AfterRestore(drive, stored) /\ UNCHANGED stored
    BY <2>1 DEF Arm, ApplyDrive
  <2> QED BY <2>2 DEF DriveInv, OnlyAFoldReduces, FoldIsShown, AfterRestore
<1>3. CASE active' # active /\ ~active'
  <2>1. Disarm
    BY <1>3 DEF Timers
  <2>2. CASE tune /\ stash # None
    <3>1. drive' = stash /\ stored' = StoredBy(stash) /\ UNCHANGED folded
      BY <2>1, <2>2 DEF Disarm, SetDrive
    <3> QED BY <1>3, <3>1, StoredFollows DEF DriveInv, FoldIsShown
  <2>3. CASE ~(tune /\ stash # None)
    <3>1. UNCHANGED <<drive, stored, folded>>
      BY <2>1, <2>3 DEF Disarm
    <3> QED BY <1>3, <3>1 DEF DriveInv, OnlyAFoldReduces, FoldIsShown
  <2> QED BY <2>2, <2>3
<1> QED BY <1>1, <1>2, <1>3

\* What a tick of the evaluator does to level, lamp and flag.
LEMMA TickOutcome ==
    ASSUME NEW gross \in BOOLEAN, EvalTick(gross)
    PROVE  Fold \/ (Cut /\ UNCHANGED folded) \/ Quiet
BY DEF EvalTick

\* An evaluation of the protections keeps it: a fold only reduces.
LEMMA EvalKeeps ==
    ASSUME DriveInv, NEW gross \in BOOLEAN, EvalTick(gross) PROVE DriveInv'
<1>1. CASE Fold
  <2>1. folded' /\ tripped'
    BY <1>1 DEF Fold, Cut
  <2> QED BY <2>1 DEF DriveInv, OnlyAFoldReduces, FoldIsShown
<1>2. CASE Cut /\ UNCHANGED folded
  BY <1>2 DEF Cut, DriveInv, OnlyAFoldReduces, FoldIsShown
<1>3. CASE Quiet
  BY <1>3 DEF Quiet, funnel, DriveInv, OnlyAFoldReduces, FoldIsShown
<1> QED BY <1>1, <1>2, <1>3, TickOutcome

\* A request alone changes nothing on the air.
LEMMA RequestLeavesAir ==
    ASSUME NEW on, NEW src, Request(on, src) PROVE UNCHANGED active
BY DEF Request, funnel

\* Every step keeps the drive invariant.
LEMMA DriveKept == DriveInv /\ [Next]_dvars => DriveInv'
<1> SUFFICES ASSUME DriveInv, [Next]_dvars PROVE DriveInv'
  OBVIOUS
<1>1. ASSUME NEW l, OperatorDrive(l) \/ TuneSlider(l) PROVE DriveInv'
  <2>1. /\ drive' = l /\ stored' = StoredBy(l)
        /\ UNCHANGED <<folded, tripped, active>>
    BY <1>1 DEF OperatorDrive, TuneSlider, SetDrive, protection, funnel
  <2> QED BY <2>1, StoredFollows DEF DriveInv, FoldIsShown
<1>2. ASSUME NEW b, ChangeBand(b) PROVE DriveInv'
  <2>1. /\ drive' = Remembered(b) /\ stored' = StoredBy(Remembered(b))
        /\ UNCHANGED <<folded, tripped, active>>
    BY <1>2 DEF ChangeBand, protection, funnel
  <2> QED BY <2>1, StoredFollows DEF DriveInv, FoldIsShown
<1>3. ASSUME NEW l, TuneClick(l) PROVE DriveInv'
  <2>1. UNCHANGED active
    BY <1>3, RequestLeavesAir DEF TuneClick
  <2>2. CASE tune
    BY <1>3, <2>1, <2>2
       DEF TuneClick, levels, DriveInv, OnlyAFoldReduces, FoldIsShown
  <2>3. CASE ~tune
    BY <1>3, <2>1, <2>3, TuneOnKeeps DEF TuneClick
  <2> QED BY <2>2, <2>3
<1>4. CASE Timers
  BY <1>4, TimersKeep
<1>5. ASSUME NEW gross \in BOOLEAN, EvalTick(gross) PROVE DriveInv'
  BY <1>5, EvalKeeps
<1>6. CASE SetSwrProtect \/ Antenna \/ UNCHANGED dvars \/ \E on \in BOOLEAN : Key(on)
  <2>1. UNCHANGED <<drive, stored, folded, tripped, active>>
    BY <1>6, RequestLeavesAir
       DEF SetSwrProtect, Antenna, Key, dvars, levels, protection, funnel
  <2> QED BY <2>1 DEF DriveInv, OnlyAFoldReduces, FoldIsShown
<1>7. CASE Crash
  BY <1>7 DEF Crash, DriveInv, OnlyAFoldReduces, FoldIsShown
<1> QED BY <1>1, <1>2, <1>3, <1>4, <1>5, <1>6, <1>7 DEF Next

\* A transmission that no protection has touched runs at the operator's
\* setting: every fold, in this over or an earlier one, before or after a TUN,
\* a change of band or a restart, is undone by the time the lamp is out.
THEOREM UntouchedRunsAtSetting == Spec => []UnfoldedIsSetting
<1>1. Init => DriveInv
  BY DEF Init, DriveInv, OnlyAFoldReduces, FoldIsShown
<1>2. DriveInv => UnfoldedIsSetting
  BY DEF DriveInv, OnlyAFoldReduces, FoldIsShown, UnfoldedIsSetting
<1> QED BY <1>1, <1>2, DriveKept, PTL DEF Spec

-----------------------------------------------------------------------------
(* Typing.                                                                 *)

\* The floor of the fold is a level that can be set, and not silence.
LEMMA FloorType == Floor \in 1 .. Full
<1>1. Full \in Nat \ {0} /\ FoldMinDrivePct \in 1 .. 90
  BY TxDriveAssumption
<1>2. Full * FoldMinDrivePct \in Nat
  BY <1>1
<1>3. Full * FoldMinDrivePct <= Full * 100
  BY <1>1
<1>4. \A x \in Nat : x <= Full * 100 => x \div 100 \in 0 .. Full
  BY <1>1
<1>5. (Full * FoldMinDrivePct) \div 100 \in 0 .. Full
  BY <1>2, <1>3, <1>4
<1> QED BY <1>1, <1>5 DEF Floor

\* A fold above the floor gives a smaller level that can be set.
LEMMA FoldedType ==
    ASSUME NEW d \in Level, d > Floor
    PROVE  Folded(d) \in Level /\ Folded(d) < d
BY FloorType, TxDriveAssumption DEF Folded, Level

\* A dwell counter stays below its dwell.
LEMMA NextTyped ==
    ASSUME NEW n \in 0 .. Dwell - 1, NEW over
    PROVE  Next1(n, over) \in 0 .. Dwell - 1
BY TxDriveAssumption DEF Next1

\* Saving a level keeps the band memory's type.
LEMMA SavedType ==
    ASSUME TypeOK, NEW level \in Level
    PROVE  Saved(level) \in [Bands -> Level \union {None}]
BY DEF TypeOK, Saved

\* The level stored by a change is a level.
LEMMA StoredType ==
    ASSUME TypeOK, NEW level \in Level PROVE StoredBy(level) \in Level
BY DEF TypeOK, StoredBy

\* A remembered drive is a level.
LEMMA RememberedType ==
    ASSUME TypeOK, NEW b \in Bands PROVE Remembered(b) \in Level
<1>1. memory[b] \in Level \union {None} /\ 0 \in Level
  BY TxDriveAssumption DEF TypeOK, Level
<1> QED BY <1>1 DEF Remembered

\* The funnel keeps its types whoever calls it.
LEMMA FunnelTyped ==
    ASSUME FunnelType, UNCHANGED locks,
           \/ UNCHANGED funnel \/ Chain
           \/ \E on \in BOOLEAN : Request(on, Manual)
    PROVE  FunnelType'
<1>1. CASE UNCHANGED funnel
  BY <1>1 DEF FunnelType, funnel
<1>2. CASE Chain
  BY <1>2, ManualAssumption
     DEF FunnelType, Chain, Started, Stage, KeydownPostMox, KeydownSettled,
         KeyupPostSpace, KeyupTxOff, KeyupSettled
<1>3. ASSUME NEW on \in BOOLEAN, Request(on, Manual) PROVE FunnelType'
  BY <1>3, ManualAssumption DEF FunnelType, Request, funnel, Started, Stage
<1> QED BY <1>1, <1>2, <1>3

\* What the writers have in common: levels are levels, the band is a band.
LevelsTyped ==
    /\ drive \in Level /\ stored \in Level /\ band \in Bands
    /\ memory \in [Bands -> Level \union {None}] /\ stash \in Level \union {None}

\* A change of the slider keeps the types of the levels.
LEMMA SetDriveTyped ==
    ASSUME TypeOK, NEW level \in Level, SetDrive(level), UNCHANGED band,
           stash' \in {stash, None}
    PROVE  LevelsTyped'
<1>1. drive' \in Level /\ stored' \in Level
  BY StoredType DEF SetDrive
<1>2. memory' \in [Bands -> Level \union {None}]
  BY SavedType DEF SetDrive
<1> QED BY <1>1, <1>2 DEF LevelsTyped, TypeOK

\* So does a level applied by a fold, a tune or the band memory.
LEMMA ApplyDriveTyped ==
    ASSUME TypeOK, NEW level \in Level, ApplyDrive(level), UNCHANGED <<band, stash>>
    PROVE  LevelsTyped'
<1>1. memory' \in [Bands -> Level \union {None}]
  BY SavedType DEF ApplyDrive
<1> QED BY <1>1 DEF LevelsTyped, TypeOK, ApplyDrive

\* So does starting a tune.
LEMMA TuneOnTyped ==
    ASSUME TypeOK, NEW level \in TuneLevels \union {None}, TuneOn(level), UNCHANGED band
    PROVE  LevelsTyped'
<1> DEFINE pushed == IF level = None THEN drive ELSE level
<1>1. pushed \in Level
  BY TxDriveAssumption DEF TypeOK, Level
<1>2. /\ stash' = IF level = None THEN None ELSE IF stash = None THEN drive ELSE stash
      /\ stored' = StoredBy(pushed)
      /\ drive' = IF active THEN AfterRestore(pushed, stored') ELSE pushed
      /\ memory' = Saved(drive')
  BY DEF TuneOn
<1> HIDE DEF pushed
<1>3. stored' \in Level
  BY <1>1, <1>2, StoredType
<1>4. drive' \in Level
  BY <1>1, <1>2, <1>3 DEF AfterRestore
<1>5. memory' \in [Bands -> Level \union {None}]
  BY <1>2, <1>4, SavedType
<1>6. stash' \in Level \union {None}
  BY <1>2 DEF TypeOK
<1> QED BY <1>3, <1>4, <1>5, <1>6 DEF LevelsTyped, TypeOK

\* So do the timers.
LEMMA TimersTyped ==
    ASSUME TypeOK, Timers PROVE LevelsTyped'
<1>1. CASE active' = active
  BY <1>1 DEF Timers, levels, LevelsTyped, TypeOK
<1>2. CASE Arm /\ UNCHANGED band
  <2>1. AfterRestore(drive, stored) \in Level
    BY DEF AfterRestore, TypeOK
  <2> QED BY <1>2, <2>1, ApplyDriveTyped DEF Arm
<1>3. CASE Disarm /\ UNCHANGED band
  <2>1. CASE tune /\ stash # None
    <3>1. stash \in Level /\ SetDrive(stash) /\ stash' = None
      BY <1>3, <2>1 DEF Disarm, TypeOK
    <3> QED BY <1>3, <3>1, SetDriveTyped
  <2>2. CASE ~(tune /\ stash # None)
    BY <1>3, <2>2 DEF Disarm, LevelsTyped, TypeOK
  <2> QED BY <2>1, <2>2
<1> QED BY <1>1, <1>2, <1>3 DEF Timers

\* An evaluation keeps the types, and releases the key or leaves it.
LEMMA EvalTyped ==
    ASSUME TypeOK, NEW gross \in BOOLEAN, EvalTick(gross)
    PROVE  /\ LevelsTyped'
           /\ UNCHANGED funnel \/ Request(FALSE, Manual)
           /\ folded' \in BOOLEAN /\ tripped' \in BOOLEAN /\ eval' \in BOOLEAN
<1>0. UNCHANGED <<band, stash>>
  BY DEF EvalTick
<1>1. CASE Fold /\ ~AtFloor
  <2>1. drive > Floor /\ drive \in Level
    BY <1>1, FloorType, TxDriveAssumption DEF AtFloor, TypeOK, Level
  <2>2. ApplyDrive(Folded(drive)) /\ Folded(drive) \in Level
    BY <1>1, <2>1, FoldedType DEF Fold
  <2> QED BY <1>0, <1>1, <2>2, ApplyDriveTyped DEF Fold, TypeOK
<1>2. CASE Fold /\ AtFloor
  BY <1>0, <1>2 DEF Fold, Cut, LevelsTyped, TypeOK
<1>3. CASE Cut /\ UNCHANGED folded
  BY <1>0, <1>3 DEF Cut, LevelsTyped, TypeOK
<1>4. CASE Quiet
  BY <1>0, <1>4 DEF Quiet, LevelsTyped, TypeOK
<1> QED BY <1>1, <1>2, <1>3, <1>4, TickOutcome

Counts == [ticks : 0 .. Blank, swr : 0 .. Dwell - 1, watts : 0 .. Dwell - 1]

\* An evaluation keeps its dwell counters in range.
LEMMA CountsTyped ==
    ASSUME TypeOK, NEW gross \in BOOLEAN, EvalTick(gross) PROVE counts' \in Counts
<1> DEFINE ticks == IF counts.ticks < Blank THEN counts.ticks + 1 ELSE Blank
<1>0. counts \in Counts
  BY DEF TypeOK, Counts
<1>1. ticks \in 0 .. Blank
  BY <1>0, TxDriveAssumption DEF Counts
<1>2. \/ counts' = [counts EXCEPT !.ticks = ticks]
      \/ \E x, y : /\ counts' = [ticks |-> ticks, watts |-> Next1(counts.watts, x),
                                 swr |-> counts.swr]
                   \/ counts' = [ticks |-> ticks, watts |-> Next1(counts.watts, x),
                                 swr |-> Next1(counts.swr, y)]
  BY DEF EvalTick
<1> HIDE DEF ticks
<1>3. CASE counts' = [counts EXCEPT !.ticks = ticks]
  BY <1>0, <1>1, <1>3 DEF Counts
<1>4. ASSUME NEW x, NEW y,
             \/ counts' = [ticks |-> ticks, watts |-> Next1(counts.watts, x),
                           swr |-> counts.swr]
             \/ counts' = [ticks |-> ticks, watts |-> Next1(counts.watts, x),
                           swr |-> Next1(counts.swr, y)]
      PROVE  counts' \in Counts
  <2>1. /\ Next1(counts.watts, x) \in 0 .. Dwell - 1
        /\ Next1(counts.swr, y) \in 0 .. Dwell - 1 /\ counts.swr \in 0 .. Dwell - 1
    BY <1>0, NextTyped DEF Counts
  <2> QED BY <1>1, <1>4, <2>1 DEF Counts
<1> QED BY <1>2, <1>3, <1>4

\* Every step keeps the types.
LEMMA TypeKept == TypeOK /\ [Next]_dvars => TypeOK'
<1> SUFFICES ASSUME TypeOK, [Next]_dvars PROVE TypeOK'
  OBVIOUS
<1>1. FunnelType'
  <2>0. FALSE \in BOOLEAN /\ TRUE \in BOOLEAN
    OBVIOUS
  <2>1. CASE Crash
    BY <2>1, ManualAssumption DEF Crash, TypeOK, FunnelType, Stage
  <2>2. CASE ~Crash
    <3>1. UNCHANGED locks
      BY <2>2 DEF Next, OperatorDrive, ChangeBand, TuneClick, TuneSlider, Timers,
                  EvalTick, Key, SetSwrProtect, Antenna, dvars
    <3>2. \/ UNCHANGED funnel \/ Chain
          \/ \E on \in BOOLEAN : Request(on, Manual)
      <4>1. ASSUME NEW gross \in BOOLEAN, EvalTick(gross)
            PROVE  UNCHANGED funnel \/ Request(FALSE, Manual)
        BY <4>1, EvalTyped
      <4>2. \/ UNCHANGED funnel \/ Timers
            \/ \E gross \in BOOLEAN : EvalTick(gross)
            \/ \E on \in BOOLEAN : Key(on)
            \/ \E l \in TuneLevels \union {None} : TuneClick(l)
        BY <2>2 DEF Next, OperatorDrive, ChangeBand, TuneSlider, SetSwrProtect,
                    Antenna, dvars
      <4> QED BY <2>0, <4>1, <4>2 DEF Timers, Key, TuneClick
    <3> QED BY <3>1, <3>2, FunnelTyped DEF TypeOK
  <2> QED BY <2>1, <2>2
<1>2. LevelsTyped'
  <2>0. LevelsTyped
    BY DEF TypeOK, LevelsTyped
  <2>1. ASSUME NEW l \in Levels \union TuneLevels, OperatorDrive(l) \/ TuneSlider(l)
        PROVE  LevelsTyped'
    <3>1. l \in Level /\ SetDrive(l) /\ UNCHANGED <<band, stash>>
      BY <2>1, TxDriveAssumption DEF OperatorDrive, TuneSlider, Level
    <3> QED BY <3>1, SetDriveTyped
  <2>2. ASSUME NEW b \in Bands, ChangeBand(b) PROVE LevelsTyped'
    <3>1. Remembered(b) \in Level /\ StoredBy(Remembered(b)) \in Level
      BY RememberedType, StoredType
    <3> QED BY <2>2, <3>1, <2>0 DEF ChangeBand, LevelsTyped
  <2>3. ASSUME NEW l \in TuneLevels \union {None}, TuneClick(l) PROVE LevelsTyped'
    <3>1. CASE tune
      BY <2>0, <2>3, <3>1 DEF TuneClick, levels, LevelsTyped
    <3>2. CASE ~tune
      BY <2>3, <3>2, TuneOnTyped DEF TuneClick
    <3> QED BY <3>1, <3>2
  <2>4. CASE Timers
    BY <2>4, TimersTyped
  <2>5. ASSUME NEW gross \in BOOLEAN, EvalTick(gross) PROVE LevelsTyped'
    BY <2>5, EvalTyped
  <2>6. CASE Crash
    <3>1. Remembered(band) \in Level
      BY RememberedType DEF TypeOK
    <3> QED BY <2>0, <2>6, <3>1 DEF Crash, LevelsTyped
  <2>7. CASE SetSwrProtect \/ Antenna \/ UNCHANGED dvars \/ \E on \in BOOLEAN : Key(on)
    BY <2>0, <2>7 DEF SetSwrProtect, Antenna, Key, dvars, levels, LevelsTyped
  <2> QED BY <2>1, <2>2, <2>3, <2>4, <2>5, <2>6, <2>7 DEF Next
<1>3. folded' \in BOOLEAN /\ tripped' \in BOOLEAN /\ eval' \in BOOLEAN
  <2>1. ASSUME NEW l, TuneClick(l)
        PROVE  folded' \in BOOLEAN /\ tripped' \in BOOLEAN /\ eval' \in BOOLEAN
    <3>1. (folded /\ ~active) \in BOOLEAN /\ (tripped /\ ~active) \in BOOLEAN
      OBVIOUS
    <3> QED BY <2>1, <3>1, Zenon DEF TuneClick, TuneOn, TypeOK
  <2>2. CASE Timers
    BY <2>2, Zenon DEF Timers, Arm, Disarm, protection, TypeOK
  <2>3. ASSUME NEW gross \in BOOLEAN, EvalTick(gross)
        PROVE  folded' \in BOOLEAN /\ tripped' \in BOOLEAN /\ eval' \in BOOLEAN
    BY <2>3, EvalTyped
  <2>4. CASE SetSwrProtect
    <3>1. (~settings.enabled) \in BOOLEAN
      OBVIOUS
    <3> QED BY <2>4, <3>1, Zenon DEF SetSwrProtect, TypeOK
  <2>5. CASE Crash
    BY <2>5 DEF Crash
  <2>6. \/ UNCHANGED <<folded, tripped, eval>> \/ Timers \/ SetSwrProtect \/ Crash
        \/ \E l : TuneClick(l)
        \/ \E gross \in BOOLEAN : EvalTick(gross)
    BY DEF Next, OperatorDrive, ChangeBand, TuneSlider, Key, Antenna, dvars, protection
  <2> QED BY <2>1, <2>2, <2>3, <2>4, <2>5, <2>6 DEF TypeOK
<1>4. counts' \in Counts
  <2>0. counts \in Counts /\ Zero \in Counts
    BY TxDriveAssumption DEF TypeOK, Counts, Zero
  <2>1. ASSUME NEW gross \in BOOLEAN, EvalTick(gross) PROVE counts' \in Counts
    BY <2>1, CountsTyped
  <2>2. CASE SetSwrProtect
    <3>1. UNCHANGED counts \/ counts' = [counts EXCEPT !.ticks = 0, !.swr = 0]
      BY <2>2 DEF SetSwrProtect
    <3>2. CASE counts' = [counts EXCEPT !.ticks = 0, !.swr = 0]
      <4>1. 0 \in 0 .. Blank /\ 0 \in 0 .. Dwell - 1
        BY TxDriveAssumption
      <4> QED BY <2>0, <3>2, <4>1 DEF Counts
    <3> QED BY <2>0, <3>1, <3>2
  <2>3. counts' \in {counts, Zero} \/ SetSwrProtect \/ \E gross \in BOOLEAN : EvalTick(gross)
    BY DEF Next, OperatorDrive, ChangeBand, TuneClick, TuneSlider, Timers, Arm,
           Disarm, Key, Antenna, Crash, dvars, protection
  <2> QED BY <2>0, <2>1, <2>2, <2>3
<1>5. settings' \in Settings /\ badSwr' \in BOOLEAN /\ tune' \in BOOLEAN
  <2>1. tune' \in {tune, TRUE, FALSE}
    BY DEF Next, OperatorDrive, ChangeBand, TuneClick, TuneSlider, Timers, Arm,
           Disarm, EvalTick, Key, SetSwrProtect, Antenna, Crash, dvars
  <2>2. UNCHANGED badSwr \/ badSwr' = ~badSwr
    BY DEF Next, OperatorDrive, ChangeBand, TuneClick, TuneSlider, Timers,
           EvalTick, Key, SetSwrProtect, Antenna, Crash, dvars
  <2>3. UNCHANGED settings \/ settings' = [settings EXCEPT !.enabled = ~@]
    BY DEF Next, OperatorDrive, ChangeBand, TuneClick, TuneSlider, Timers,
           EvalTick, Key, SetSwrProtect, Antenna, Crash, dvars
  <2>4. (~settings.enabled) \in BOOLEAN /\ (~badSwr) \in BOOLEAN
    OBVIOUS
  <2>5. settings' \in Settings
    <3>1. CASE settings' = [settings EXCEPT !.enabled = ~@]
      <4> DEFINE flipped == ~settings.enabled
      <4>1. flipped \in BOOLEAN /\ settings' = [settings EXCEPT !.enabled = flipped]
        BY <2>4, <3>1, Zenon
      <4>2. settings \in Settings
        BY DEF TypeOK
      <4> HIDE DEF flipped
      <4> QED BY <4>1, <4>2 DEF Settings
    <3> QED BY <2>3, <3>1 DEF TypeOK
  <2> QED BY <2>1, <2>2, <2>4, <2>5, Zenon DEF TypeOK
<1> QED BY <1>1, <1>2, <1>3, <1>4, <1>5 DEF TypeOK, LevelsTyped, Counts

\* Type correctness for every range of levels and every protection setting;
\* no fold leaves the range of the slider.
THEOREM TxDriveTyped == Spec => []TypeOK
<1>1. ASSUME Init PROVE TypeOK
  <2>1. FunnelType
    BY <1>1, ManualAssumption DEF Init, FunnelInit, FunnelType, Lock, Stage
  <2>2. 0 \in Level /\ counts \in Counts /\ settings \in Settings
    BY <1>1, TxDriveAssumption DEF Init, Level, Zero, Counts
  <2> QED BY <1>1, <2>1, <2>2 DEF Init, TypeOK, Counts
<1> QED BY <1>1, TypeKept, PTL DEF Spec

-----------------------------------------------------------------------------
(* Reduction.                                                              *)

\* Protection only ever reduces: no order of folds, restores, tune levels and
\* changes of band leaves the level above the stored setting.
THEOREM ProtectionOnlyReduces == Spec => []NeverAboveSetting
<1>1. Init => NeverAboveSetting
  BY DEF Init, NeverAboveSetting
<1>2. TypeOK /\ TypeOK' /\ NeverAboveSetting /\ [Next]_dvars => NeverAboveSetting'
  <2> SUFFICES ASSUME TypeOK, TypeOK', NeverAboveSetting, [Next]_dvars
               PROVE  NeverAboveSetting'
    OBVIOUS
  <2>0. /\ drive \in Nat /\ stored \in Nat /\ drive' \in Nat /\ stored' \in Nat
        /\ drive <= stored
    BY TxDriveAssumption DEF TypeOK, Level, NeverAboveSetting
  <2>1. ASSUME NEW level, drive' = level, stored' = StoredBy(level)
        PROVE  NeverAboveSetting'
    BY <2>0, <2>1 DEF NeverAboveSetting, StoredBy
  <2>2. CASE UNCHANGED <<drive, stored>>
    BY <2>0, <2>2 DEF NeverAboveSetting
  <2>3. ASSUME NEW l, OperatorDrive(l) \/ TuneSlider(l) PROVE NeverAboveSetting'
    BY <2>1, <2>3 DEF OperatorDrive, TuneSlider, SetDrive
  <2>4. ASSUME NEW b, ChangeBand(b) PROVE NeverAboveSetting'
    BY <2>1, <2>4 DEF ChangeBand
  <2>5. ASSUME NEW l, TuneClick(l) PROVE NeverAboveSetting'
    <3> DEFINE pushed == IF l = None THEN drive ELSE l
    <3>1. CASE tune
      BY <2>2, <2>5, <3>1 DEF TuneClick, levels
    <3>2. CASE ~tune
      <4>1. /\ stored' = StoredBy(pushed)
            /\ drive' = IF active THEN AfterRestore(pushed, stored') ELSE pushed
        BY <2>5, <3>2 DEF TuneClick, TuneOn
      <4> HIDE DEF pushed
      <4>2. drive' = pushed \/ drive' = stored'
        BY <4>1 DEF AfterRestore
      <4> QED BY <2>0, <2>1, <4>1, <4>2 DEF NeverAboveSetting
    <3> QED BY <3>1, <3>2
  <2>6. CASE Timers
    <3>1. CASE Arm
      <4>1. drive' = AfterRestore(drive, stored) /\ UNCHANGED stored
        BY <3>1 DEF Arm, ApplyDrive
      <4> QED BY <2>0, <4>1 DEF AfterRestore, NeverAboveSetting
    <3>2. CASE Disarm
      BY <2>1, <2>2, <3>2 DEF Disarm, SetDrive
    <3> QED BY <2>2, <2>6, <3>1, <3>2 DEF Timers, levels
  <2>7. ASSUME NEW gross \in BOOLEAN, EvalTick(gross) PROVE NeverAboveSetting'
    <3>1. CASE Fold /\ ~AtFloor
      <4>1. drive > Floor /\ drive \in Level
        BY <2>0, <3>1, FloorType DEF AtFloor, TypeOK
      <4>2. drive' = Folded(drive) /\ UNCHANGED stored
        BY <3>1 DEF Fold, ApplyDrive
      <4> QED BY <2>0, <4>1, <4>2, FoldedType DEF NeverAboveSetting
    <3>2. CASE Fold /\ AtFloor
      BY <2>2, <3>2 DEF Fold, Cut
    <3>3. CASE (Cut /\ UNCHANGED folded) \/ Quiet
      BY <2>2, <3>3 DEF Cut, Quiet
    <3> QED BY <2>7, <3>1, <3>2, <3>3, TickOutcome
  <2>8. CASE SetSwrProtect \/ Antenna \/ UNCHANGED dvars \/ \E on \in BOOLEAN : Key(on)
    BY <2>2, <2>8 DEF SetSwrProtect, Antenna, Key, dvars, levels
  <2>9. CASE Crash
    BY <2>0, <2>9 DEF Crash, NeverAboveSetting
  <2> QED BY <2>3, <2>4, <2>5, <2>6, <2>7, <2>8, <2>9 DEF Next
<1> QED BY <1>1, <1>2, TxDriveTyped, PTL DEF Spec
=============================================================================
