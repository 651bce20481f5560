----------------------------- MODULE KeySources -----------------------------
(***************************************************************************)
(* The sources that key the radio without the operator's hand on the MOX   *)
(* button: foot switch and VOX (polled by one 50 ms timer of HL2Stream),   *)
(* the serial PTT line (cat/SerialPtt.cpp) and the voice keyer             *)
(* (tx/ClipRecorderPlayer.cpp).  All share the funnel, which has no owner: *)
(* a release ends the transmission whoever pressed.  Each source keeps its *)
(* own notion of "I am holding the key", and that is what can go stale.    *)
(*                                                                         *)
(* Everything runs on the main thread but the end of a clip: the wire      *)
(* thread pulls the samples and calls the funnel when they run out.  Both  *)
(* threads call the funnel after dropping the player's lock, so the other  *)
(* thread can step in between.  Levels (pedal, microphone, serial line)    *)
(* are read afresh by every poll: they are its parameter.                  *)
(***************************************************************************)
EXTENDS KeyFunnel, Naturals

CONSTANT
    DebounceSamples,  \* SerialPtt::kDebounceSamples
    ShortClips        \* clips may run out while play() still calls the funnel

ASSUME KeySourcesAssumption ==
    /\ {"HwPtt", "Serial", "Vox", "Keyer"} \subseteq Sources \ {Manual}
    /\ DebounceSamples \in Nat \ {0} /\ ShortClips \in BOOLEAN

VARIABLES
    cw,      \* txMode_ is CWL or CWU; cwFwKeyer_ is constant, TRUE
    hw,      \* hwPttEnabled_, lastHwPttLevel_
    vox,     \* voxEnabled_, voxOwnsKey_
    serial,  \* a port is open, active_, candidateCount_
    keyer,   \* state_ and keyHeld_, and the release the wire thread owes
    mainAt   \* what the main thread is in the middle of

sources == <<cw, hw, vox, serial, keyer>>
kvars == <<funnel, locks, sources, mainAt>>

TypeOK ==
    /\ FunnelType /\ cw \in BOOLEAN
    /\ hw \in [enabled : BOOLEAN, last : BOOLEAN]
    /\ vox \in [enabled : BOOLEAN, owns : BOOLEAN]
    /\ serial \in [open : BOOLEAN, active : BOOLEAN,
                   count : 0 .. DebounceSamples - 1]
    /\ keyer \in [state : {"Idle", "Playing", "Draining"}, held : BOOLEAN,
                  owed : BOOLEAN]
    /\ mainAt \in {"events", "vox", "press", "release"}

Init ==
    /\ FunnelInit /\ cw \in BOOLEAN
    /\ hw \in [enabled : BOOLEAN, last : BOOLEAN]
    /\ vox \in [enabled : BOOLEAN, owns : {FALSE}]
    /\ serial = [open |-> FALSE, active |-> FALSE, count |-> 0]
    /\ keyer = [state |-> "Idle", held |-> FALSE, owed |-> FALSE]
    /\ mainAt = "events"

Main == mainAt = "events"  \* the event loop can deliver the next event

-----------------------------------------------------------------------------
(* The operator, CAT and the settings.                                     *)

\* MOX button, CAT TX and RX, safety timer and SWR trip.
ManualKey(on) ==
    Main /\ Request(on, Manual) /\ UNCHANGED <<locks, sources, mainAt>>

LockOrUnlock(l) ==
    Main /\ (Engage(l) \/ Disengage(l)) /\ UNCHANGED <<sources, mainAt>>

SetTxMode ==
    Main /\ cw' = ~cw /\ UNCHANGED <<funnel, locks, hw, vox, serial, keyer, mainAt>>

-----------------------------------------------------------------------------
(* Foot switch.                                                            *)

\* onHwPttPoll; the same timer calls onVoxPoll next.
HwPttPoll(level) ==
    /\ Main /\ mainAt' = "vox"
    /\ hw' = [hw EXCEPT !.last = level]
    /\ IF hw.enabled /\ ~cw /\ level # hw.last
       THEN Request(level, "HwPtt") ELSE UNCHANGED funnel
    /\ UNCHANGED <<locks, cw, vox, serial, keyer>>

\* setHwPttEnabled: a key that the pedal holds is left alone.
SetHwPtt ==
    /\ Main /\ hw' = [hw EXCEPT !.enabled = ~@]
    /\ UNCHANGED <<funnel, locks, cw, vox, serial, keyer, mainAt>>

-----------------------------------------------------------------------------
(* VOX.                                                                    *)

\* Mutant: the reconcile block is gone.
OwnedBelieved == vox.owns

\* The reconcile block of onVoxPoll: a key that vanished is not owned.
Owned == vox.owns /\ mox /\ pttSource = "Vox"

\* onVoxPoll, with the answer of the detector to microphone and anti-VOX level.
VoxPoll(want) ==
    /\ mainAt = "vox" /\ mainAt' = "events"
    /\ LET open  == vox.enabled /\ ~cw /\ "inhibit" \notin locks
           takes == open /\ want /\ ~Owned /\ ~mox /\ ~requested
           drops == Owned /\ ~(open /\ want)
       IN /\ vox' = [vox EXCEPT !.owns = takes \/ (Owned /\ ~drops)]
          /\ IF takes \/ drops THEN Request(takes, "Vox") ELSE UNCHANGED funnel
    /\ UNCHANGED <<locks, cw, hw, serial, keyer>>

\* setVoxEnabled; ownership is dropped with the key or without it.
SetVox ==
    /\ Main /\ vox' = [enabled |-> ~vox.enabled, owns |-> FALSE]
    /\ IF vox.enabled /\ Owned THEN Request(FALSE, "Vox") ELSE UNCHANGED funnel
    /\ UNCHANGED <<locks, cw, hw, serial, keyer, mainAt>>

-----------------------------------------------------------------------------
(* Serial PTT line.                                                        *)

\* start(): the port opened.
SerialStart ==
    /\ Main /\ ~serial.open
    /\ serial' = [open |-> TRUE, active |-> FALSE, count |-> 0]
    /\ UNCHANGED <<funnel, locks, cw, hw, vox, keyer, mainAt>>

\* Mutant: the port is closed under a held key.
SerialStopHolding ==
    /\ Main /\ serial.open
    /\ serial' = [serial EXCEPT !.open = FALSE, !.active = FALSE]
    /\ UNCHANGED <<funnel, locks, cw, hw, vox, keyer, mainAt>>

\* stop(): disabled, another port, or quitting.
SerialStop ==
    /\ Main /\ serial.open
    /\ serial' = [serial EXCEPT !.open = FALSE, !.active = FALSE]
    /\ IF serial.active THEN Request(FALSE, "Serial") ELSE UNCHANGED funnel
    /\ UNCHANGED <<locks, cw, hw, vox, keyer, mainAt>>

\* Mutant: one sample too many.
DebouncedLate(raw) == raw # serial.active /\ serial.count >= DebounceSamples

\* The new level has been seen DebounceSamples times in a row.
Debounced(raw) == raw # serial.active /\ serial.count + 1 >= DebounceSamples

\* onPoll, also called by setWatchLine and setInvert.
SerialPoll(raw) ==
    /\ Main /\ serial.open
    /\ LET flips == Debounced(raw) IN
       /\ serial' = [serial EXCEPT
              !.active = IF flips THEN raw ELSE @,
              !.count = IF raw = serial.active \/ flips THEN 0 ELSE @ + 1]
       /\ IF flips THEN Request(raw, "Serial") ELSE UNCHANGED funnel
    /\ UNCHANGED <<locks, cw, hw, vox, keyer, mainAt>>

-----------------------------------------------------------------------------
(* Voice keyer.                                                            *)

\* The guard wired in MainWindow: on air for someone else.
Blocked == active /\ pttSource # "Keyer"

\* play(): a clip that does not go over the air asks nobody and holds no key.
Play(ota) ==
    /\ Main /\ keyer.state = "Idle" /\ (ota => ~Blocked)
    /\ keyer' = [keyer EXCEPT !.state = "Playing", !.held = ota]
    /\ mainAt' = IF ota THEN "press" ELSE "events"
    /\ UNCHANGED <<funnel, locks, cw, hw, vox, serial>>

Stop ==
    /\ Main /\ keyer.state # "Idle"
    /\ keyer' = [keyer EXCEPT !.state = "Idle", !.held = FALSE]
    /\ mainAt' = IF keyer.held THEN "release" ELSE "events"
    /\ UNCHANGED <<funnel, locks, cw, hw, vox, serial>>

\* The main thread calls the funnel outside the lock.
KeyFn ==
    /\ mainAt \in {"press", "release"} /\ mainAt' = "events"
    /\ Request(mainAt = "press", "Keyer")
    /\ UNCHANGED <<locks, sources>>

\* Mutant: the end of the clip forgets the key.
FinishedSilently == [keyer EXCEPT !.state = "Draining", !.held = FALSE]

\* The last sample went out: the key is to be released.
Finished == [keyer EXCEPT !.state = "Draining", !.held = FALSE, !.owed = keyer.held]

\* fillBlock on the wire thread, when it changes the state.
FillBlock ==
    /\ ~keyer.owed
    /\ \/ /\ keyer.state # "Idle" /\ Blocked
          /\ keyer' = [keyer EXCEPT !.state = "Idle", !.held = FALSE]
       \/ /\ keyer.state = "Playing" /\ ~Blocked
          /\ ShortClips \/ mainAt # "press"
          /\ keyer' = Finished
       \/ /\ keyer.state = "Draining" /\ ~Blocked
          /\ keyer' = [keyer EXCEPT !.state = "Idle"]
    /\ UNCHANGED <<funnel, locks, cw, hw, vox, serial, mainAt>>

\* The wire thread calls the funnel outside the lock.
WireKeyUp ==
    /\ keyer.owed /\ keyer' = [keyer EXCEPT !.owed = FALSE]
    /\ Request(FALSE, "Keyer")
    /\ UNCHANGED <<locks, cw, hw, vox, serial, mainAt>>

-----------------------------------------------------------------------------

Timers == Main /\ Chain /\ UNCHANGED <<locks, sources, mainAt>>

Next ==
    \/ Timers
    \/ \E b \in BOOLEAN : ManualKey(b) \/ HwPttPoll(b) \/ VoxPoll(b) \/ SerialPoll(b)
                          \/ Play(b)
    \/ \E l \in Lock : LockOrUnlock(l)
    \/ SetTxMode \/ SetHwPtt \/ SetVox \/ SerialStart \/ SerialStop
    \/ Stop \/ KeyFn \/ FillBlock \/ WireKeyUp

Spec == Init /\ [][Next]_kvars

-----------------------------------------------------------------------------
(* What the sources guarantee.                                             *)

\* A key the serial line pressed is held by an asserted line: whatever other
\* sources, lockouts, port changes and time do in between, it cannot be left
\* behind by a line that has gone or was released.
SerialKeyIsHeld == requested /\ pttSource = "Serial" => serial.active

\* A key the voice keyer pressed is held by a clip that will release it, or
\* the release is on its way on one of the two threads.
KeyerKeyIsHeld ==
    requested /\ pttSource = "Keyer" =>
        keyer.held \/ keyer.owed \/ mainAt = "release"

\* VOX releases no key but its own, however stale its belief of owning one.
VoxReleasesOwn ==
    [][requested /\ ~requested' /\ (SetVox \/ \E b \in BOOLEAN : VoxPoll(b))
           => pttSource = "Vox"]_kvars

-----------------------------------------------------------------------------
(* What comments of the code say and the code does not do.                 *)

\* "Turning VOX off must drop a VOX-held key immediately so the operator can't
\* be left keyed" (setVoxEnabled): no VOX key is held while VOX is off.
VoxOffReleases == ~vox.enabled /\ requested => pttSource # "Vox"

\* "releases only its own key" (PttSource::Keyer): no release of the voice
\* keyer takes the key from another source.
KeyerReleasesOwn ==
    [][requested /\ ~requested' /\ (WireKeyUp \/ KeyFn) => pttSource = "Keyer"]_kvars
=============================================================================
