------------------------------ MODULE TxDrive -------------------------------
(***************************************************************************)
(* Who decides the TX drive.  One level (txDriveLevel_) is written by the  *)
(* operator, by the SWR and watts protection that folds it back or cuts    *)
(* the transmission (HL2Stream), by the TUN button that borrows it for a   *)
(* tune level (the orchestrator in main.cpp) and by the band memory        *)
(* (BandMemory) on a change of band.  Each keeps a copy of "the drive the  *)
(* operator wants": the stored setting, the stash of TUN, the memory of    *)
(* every band.                                                             *)
(*                                                                         *)
(* The watts cap is armed at a value no smaller than Full Output, so that  *)
(* its ceiling is open and its servo idle and only its fold acts; the      *)
(* Max-drive limit is pinned open by the constructor.                      *)
(***************************************************************************)
EXTENDS KeyFunnel, Integers

CONSTANTS
    Bands,
    None,             \* nothing remembered, nothing stashed, or no tune level
    Full,             \* the highest drive level
    Levels,           \* what the operator sets
    TuneLevels,       \* the tune drive preferences
    FoldMinDrivePct,  \* foldMinDrivePct_
    Blank, Dwell,     \* swrBlankMs_ and swrDwellMs_ in ticks
    Configured        \* the stored settings of the protection

Settings == [enabled : BOOLEAN, duringTune : BOOLEAN, fold : BOOLEAN]

ASSUME TxDriveAssumption ==
    /\ Full \in Nat \ {0} /\ Levels \subseteq 0 .. Full
    /\ TuneLevels \subseteq 0 .. Full /\ None \notin Int
    /\ FoldMinDrivePct \in 1 .. 90
    /\ Blank \in Nat \ {0} /\ Dwell \in Nat \ {0}
    /\ Configured \subseteq Settings

VARIABLES
    drive,      \* txDriveLevel_
    stored,     \* the setting tx/driveLevel
    band,       \* currentBand_
    memory,     \* the drive remembered for each band
    stash,      \* savedDrive of the TUN orchestrator
    tune,       \* tuneEnabled_
    folded,     \* swrFolded_
    tripped,    \* swrProtectTripped_, the PROT lamp
    eval,       \* swrEvalTimer_ runs
    counts,     \* swrTicks_, swrOverTicks_, wattsOverTicks_
    settings,   \* swrProtectEnabled_, swrProtectDuringTune_, swrProtectAction_
    badSwr      \* the antenna reflects more than the limit allows

levels == <<drive, stored, band, memory, stash>>
protection == <<folded, tripped, eval, counts>>
dvars == <<funnel, locks, levels, tune, protection, settings, badSwr>>

Level == 0 .. Full

TypeOK ==
    /\ FunnelType
    /\ drive \in Level /\ stored \in Level /\ band \in Bands
    /\ memory \in [Bands -> Level \union {None}] /\ stash \in Level \union {None}
    /\ tune \in BOOLEAN /\ folded \in BOOLEAN /\ tripped \in BOOLEAN
    /\ eval \in BOOLEAN
    /\ counts \in [ticks : 0 .. Blank, swr : 0 .. Dwell - 1, watts : 0 .. Dwell - 1]
    /\ settings \in Settings /\ badSwr \in BOOLEAN

Zero == [ticks |-> 0, swr |-> 0, watts |-> 0]

Init ==
    /\ FunnelInit /\ locks = {}
    /\ band \in Bands /\ memory = [b \in Bands |-> None]
    /\ drive = 0 /\ stored = 0 /\ stash = None /\ tune = FALSE
    /\ folded = FALSE /\ tripped = FALSE /\ eval = FALSE /\ counts = Zero
    /\ settings \in Configured /\ badSwr \in BOOLEAN

-----------------------------------------------------------------------------
(* The level and its copies.                                               *)

\* What setTxDriveLevel(level) stores: an unchanged level is not stored.
StoredBy(level) == IF level = drive THEN stored ELSE level

\* Every change is announced, and the band memory saves what is announced.
Saved(level) == IF level = drive THEN memory ELSE [memory EXCEPT ![band] = level]

\* setTxDriveLevel(level)
SetDrive(level) ==
    /\ drive' = level /\ stored' = StoredBy(level) /\ memory' = Saved(level)

\* applyDriveLevelNoPersist(level)
ApplyDrive(level) == drive' = level /\ memory' = Saved(level) /\ UNCHANGED stored

OperatorDrive(level) ==
    /\ SetDrive(level)
    /\ UNCHANGED <<funnel, locks, band, stash, tune, protection, settings, badSwr>>

Remembered(b) == IF memory[b] = None THEN 0 ELSE memory[b]

\* BandMemory::applyBand, whose own change is not saved.
ChangeBand(b) ==
    /\ b # band /\ band' = b
    /\ drive' = Remembered(b) /\ stored' = StoredBy(Remembered(b))
    /\ UNCHANGED <<funnel, locks, memory, stash, tune, protection, settings, badSwr>>

-----------------------------------------------------------------------------
(* TUN.                                                                    *)

\* Mutant: the fold is forgotten with the reduced drive left in place.
AfterRestoreForgetting(d, s) == d

\* restoreFoldedDriveSafely_: the drive after it, given drive and setting.
AfterRestore(d, s) == IF folded THEN s ELSE d

\* setTuneEnabled(true) with its listener: the tune level, or None in slider
\* mode; over a fold on air the setting comes back and the lamp goes out.
TuneOn(level) ==
    LET pushed == IF level = None THEN drive ELSE level IN
    /\ stash' = IF level = None THEN None ELSE IF stash = None THEN drive ELSE stash
    /\ stored' = StoredBy(pushed)
    /\ drive' = IF active THEN AfterRestore(pushed, stored') ELSE pushed
    /\ memory' = Saved(drive')
    /\ folded' = (folded /\ ~active) /\ tripped' = (tripped /\ ~active)

\* The TUN button.
TuneClick(level) ==
    /\ IF tune
       THEN Request(FALSE, Manual) /\ UNCHANGED <<levels, tune, folded, tripped>>
       ELSE TuneOn(level) /\ tune' = TRUE /\ Request(TRUE, Manual)
                          /\ UNCHANGED band
    /\ UNCHANGED <<locks, eval, counts, settings, badSwr>>

\* liveFollow: the tune slider moves while TUN is armed.
TuneSlider(level) ==
    /\ tune /\ SetDrive(level)
    /\ UNCHANGED <<funnel, locks, band, stash, tune, protection, settings, badSwr>>

-----------------------------------------------------------------------------
(* On-air edges.                                                           *)

\* armSwrProtect
Arm ==
    /\ tripped' = FALSE /\ folded' = FALSE
    /\ ApplyDrive(AfterRestore(drive, stored))
    /\ counts' = Zero /\ eval' = TRUE
    /\ UNCHANGED <<tune, stash>>

\* TUN is disarmed and gives back what it borrowed; disarmSwrProtect.
Disarm ==
    /\ tune' = FALSE
    /\ IF tune /\ stash # None
       THEN SetDrive(stash) /\ stash' = None
       ELSE UNCHANGED <<drive, stored, memory, stash>>
    /\ eval' = FALSE /\ UNCHANGED <<folded, tripped, counts>>

Timers ==
    /\ Chain
    /\ IF active' = active THEN UNCHANGED <<levels, tune, protection>>
       ELSE (IF active' THEN Arm ELSE Disarm) /\ UNCHANGED band
    /\ UNCHANGED <<locks, settings, badSwr>>

-----------------------------------------------------------------------------
(* The evaluator, every 50 ms while the timer runs.                        *)

Floor == IF (Full * FoldMinDrivePct) \div 100 < 1 THEN 1
         ELSE (Full * FoldMinDrivePct) \div 100

Folded(d) == IF d \div 2 < Floor THEN Floor ELSE d \div 2

\* Mutant: the fold stays at its floor.
AtFloorNever == FALSE

AtFloor == drive <= Floor

\* tripSwrProtect
Cut ==
    /\ tripped' = TRUE /\ eval' = FALSE
    /\ Request(FALSE, Manual)
    /\ UNCHANGED <<drive, stored, memory>>

\* foldSwrProtect, foldWattsProtect: halve, or cut at the floor.
Fold ==
    /\ folded' = TRUE
    /\ IF AtFloor THEN Cut
       ELSE /\ ApplyDrive(Folded(drive))
            /\ tripped' = TRUE
            /\ UNCHANGED <<funnel, eval>>

Quiet == UNCHANGED <<funnel, drive, stored, memory, folded, tripped, eval>>

\* Mutant: one tick too many.
Next1Late(n, over) == IF ~over \/ n + 1 > Dwell THEN 0 ELSE n + 1

\* A check that held for Dwell ticks acts and starts over.
Next1(n, over) == IF ~over \/ n + 1 >= Dwell THEN 0 ELSE n + 1

SwrChecked == settings.enabled /\ (tune => settings.duringTune)

\* evalSwrProtect; gross: the calibrated power is far over the cap.  While
\* nothing is emitted both readings are below their floors.
EvalTick(gross) ==
    /\ eval /\ (gross => drive > 0)
    /\ LET wattsOver == gross /\ ~tune
           wattsActs == wattsOver /\ counts.watts + 1 >= Dwell
           swrOver   == badSwr /\ drive > 0
           swrActs   == SwrChecked /\ swrOver /\ counts.swr + 1 >= Dwell
           ticks     == IF counts.ticks < Blank THEN counts.ticks + 1 ELSE Blank
       IN IF ticks < Blank
          THEN counts' = [counts EXCEPT !.ticks = ticks] /\ Quiet
          ELSE /\ counts' = [ticks |-> ticks,
                             watts |-> Next1(counts.watts, wattsOver),
                             swr   |-> IF wattsActs \/ ~SwrChecked THEN counts.swr
                                       ELSE Next1(counts.swr, swrOver)]
               /\ IF wattsActs \/ (swrActs /\ settings.fold) THEN Fold
                  ELSE IF swrActs THEN Cut /\ UNCHANGED folded
                  ELSE Quiet
    /\ UNCHANGED <<locks, band, stash, tune, settings, badSwr>>

-----------------------------------------------------------------------------
(* Settings, keys, the antenna, and a restart of the program.              *)

\* setSwrProtectEnabled
SetSwrProtect ==
    /\ settings' = [settings EXCEPT !.enabled = ~@]
    /\ eval' = IF mox THEN ~settings.enabled ELSE eval
    /\ counts' = IF mox /\ ~settings.enabled
                 THEN [counts EXCEPT !.ticks = 0, !.swr = 0] ELSE counts
    /\ UNCHANGED <<funnel, locks, levels, tune, folded, tripped, badSwr>>

Key(on) ==
    /\ Request(on, Manual)
    /\ UNCHANGED <<locks, levels, tune, protection, settings, badSwr>>

Antenna ==
    /\ badSwr' = ~badSwr
    /\ UNCHANGED <<funnel, locks, levels, tune, protection, settings>>

\* The settings survive; the band memory is applied at startup.
Crash ==
    /\ requested' = FALSE /\ mox' = FALSE /\ active' = FALSE
    /\ pttSource' = Manual /\ stage' = "rest"
    /\ drive' = Remembered(band) /\ stored' = Remembered(band)
    /\ stash' = None /\ tune' = FALSE
    /\ folded' = FALSE /\ tripped' = FALSE /\ eval' = FALSE /\ counts' = Zero
    /\ UNCHANGED <<locks, band, memory, settings, badSwr>>

Next ==
    \/ \E l \in Levels : OperatorDrive(l)
    \/ \E b \in Bands : ChangeBand(b)
    \/ \E l \in TuneLevels \union {None} : TuneClick(l)
    \/ \E l \in TuneLevels : TuneSlider(l)
    \/ Timers
    \/ \E gross \in BOOLEAN : EvalTick(gross)
    \/ \E on \in BOOLEAN : Key(on)
    \/ SetSwrProtect \/ Antenna \/ Crash

Spec == Init /\ [][Next]_dvars

\* The evaluation timer ticks while it runs.
FairSpec == Spec /\ WF_dvars(\E gross \in BOOLEAN : EvalTick(gross))

-----------------------------------------------------------------------------
(* What protection guarantees.                                             *)

\* A transmission that no protection has touched runs at the operator's
\* setting: every reduction, by whichever check, in this over or an earlier
\* one, before or after a TUN, a change of band or a restart, has been undone
\* by the time the lamp is out.
UnfoldedIsSetting == active /\ ~tripped => drive = stored

\* Protection only ever reduces: the level on the air is at no time above the
\* stored setting, whoever wrote either last.
NeverAboveSetting == drive <= stored

\* A transmission into a bad antenna does not go on for ever while the
\* evaluator runs and looks at the SWR, whatever the watts check does in
\* between, unless the drive is raised again and again.
SustainedFaultIsCut ==
    ~(/\ <>[](active /\ eval /\ SwrChecked /\ badSwr /\ drive > 0)
      /\ <>[][drive' <= drive]_drive)

-----------------------------------------------------------------------------
(* What comments of the code say and the code does not do.                 *)

\* "never carry a previous band's setting into a band the operator hasn't yet
\* validated" (BandMemory::applyBand): in a band with nothing remembered the
\* drive rises from 0 by the hand of the operator or for TUN, by nothing else.
UnvalidatedBandIsSilent ==
    [][band' = band /\ memory[band] = None /\ drive' > drive =>
           \/ \E l \in Levels : OperatorDrive(l)
           \/ \E l \in TuneLevels \union {None} : TuneClick(l)
           \/ \E l \in TuneLevels : TuneSlider(l)]_dvars

\* "every set is the operator" (BandMemory): the memory of a band changes by
\* the hand of the operator only.
MemoryIsOperators ==
    [][memory' # memory =>
           \/ \E l \in Levels : OperatorDrive(l)
           \/ \E l \in TuneLevels : TuneSlider(l)]_dvars

\* "clears only on the next key-down" (tripSwrProtect): whoever is on air
\* without an evaluator is told so by the lamp.
LampCoversNoEvaluator == active /\ settings.enabled /\ ~eval => tripped
=============================================================================
