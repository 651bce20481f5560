# Lyra SDR: a TLA+ model of the transmit path

Lyra is a Qt/C++ program that drives amateur-radio transceivers (Hermes Lite 2
and relatives over "Protocol 1", ANAN/Hermes boards over "Protocol 2").  What
can go wrong in a way that matters outside the computer is the transmit path: a
radio that stays keyed, an amplifier relay switched under power, a receiver
front end left unprotected, a stuck tone.  This directory models that path.

## Inventory

| part (src/src/...) | state | operations | hard because |
|---|---|---|---|
| MOX/PTT sequencer, `hl2_stream.cpp` | `requestedMox_`, `fsmRunning_`, `mox_`, `moxActive_`, saved attenuator, single-shot timers | `requestMox`, `fsmAdvance`, five `fsm...` steps | a press or release can arrive in any of five timed windows; the state a step reads was set by an earlier one |
| Lockouts and protection, `hl2_stream.cpp` | inhibit, conversion lockout, safety timer, SWR evaluator | setters, `onTxSafetyTimeout`, `tripSwrProtect` | they test flags that lag the request by up to two delays |
| TX drive, `hl2_stream.cpp`, `main.cpp`, `bandmemory.cpp` | the level, its stored copy, the TUN stash, the memory of each band, dwell counters | `setTxDriveLevel`, `evalSwrProtect`, fold, TUN, `applyBand` | four writers of one level, each with its own idea of what the operator wants |
| Stream open/close, `hl2_stream.cpp` | worker threads, wire globals (`XmitBit`) | `open`, `close` | the sequencer's timers are not cancelled and fire in the next session |
| Keying sources, `hl2_stream.cpp`, `cat/`, `tx/ClipRecorderPlayer.cpp` | poll state, VOX ownership, debounce, clip state | `onHwPttPoll`, `onVoxPoll`, `onPoll`, `play`, `fillBlock` | sources share one intent without an owner; one of them keys from the wire thread |
| Protocol 2 session, `wire/P2Session.cpp` | `open_`, `running_`, `txIntent_`, `txSafety_`, epoch, timers | open, close, HP tick, status, faults, re-prime | authorisation lives in two UDP packets; faults, deferred restarts and key requests race |
| Protocol 2 ring, `wire/P2TxFifo.cpp`, `P2TxWriter`, `P2TxPump`, `P2TxCmaster` | two atomic indices, overflow count | push, pop, reset | two threads without a lock, reset by a third party |
| Protocol 2 bridge, `wire/P2RxBridge.cpp` | copies of the session state | forwards keys, rejects key downs, arms | main thread and session thread talk through queued signals |
| Outbound rings and EP2 writer, `wire/ObBuffs.cpp`, `Network.cpp`, `NetworkProto1.cpp` | semaphores, gates, two halves of a packet | `OutBound`, `ob_main`, `sendOutbound`, destroy | three threads tied by four semaphores, torn down with sleeps |
| TCI server, `tci_server.cpp` | clients, owner of the TX audio path, open requests | trx, tune, audio frames, `onChronoTick` | a client can disappear while it owns the path or holds the key |
| CW keyer, `tx/CwKeyer.cpp`, `cat/SerialCwKey.cpp` | queues, abort flag, two wire bits | send, type, abort, straight key | a worker thread that unlocks around every callback |
| Inbound rings, mixer, `wire/CmBuffs.cpp`, `AAMix.cpp`, `ILV.cpp` | semaphore rings | inbound, destroy | shutdown relies on sleeps |
| Recorder, converter | worker threads, processes | start, abort | the converter locks the key out |
| DSP, UI, stores, feeds | | | left out, see PROJECT.json |

The main thread runs the sequencer, the keying sources and the user interface;
the session thread runs the Protocol 2 session with its pump and writer; the
ChannelMaster thread modulates; EP2/EP6 threads serve Protocol 1.  The parts meet
in `requestMox` (all keying), `moxActiveChanged` (everything that depends on
being on air), the two packets of Protocol 2, and the ring.

What makes each part correct is listed with its properties below; PROJECT.json
lists every component and every hazard with its line.

## Modules

| module | models | how |
|---|---|---|
| `MoxFsm` | the sequencer on an open stream, tone buttons, lockouts, safety timer, SWR evaluator, attenuator, filter board, modulator start/stop | one action per main-thread event; `pending[s]` counts the single shots that will call step `s`; a delay is the choice of when its shot fires |
| `StreamRestart` | `open()` and `close()` around it | EXTENDS `MoxFsm`; `Keying(A)` is a sequencer step, also of a single shot left over from a closed session |
| `KeyFunnel` | what a keying source sees of the sequencer: request, source, lockouts, one chain of steps | abstract; `MoxFsm` implements it (`ImplementsFunnel`) |
| `KeyedHost` | what a listener sees: a request, and edges that only follow it | abstract; `KeyFunnel` implements it (`ImplementsHost`) |
| `KeySources` | foot switch, VOX, serial PTT line, voice keyer, CAT and the operator | EXTENDS `KeyFunnel`; levels are parameters of the polls; `mainAt` and `keyer.owed` are the calls two threads make after dropping the player's lock |
| `TciServer` | TCI clients, ownership, audio pump, broadcasts | EXTENDS `KeyFunnel`; audio is counted in packets, time is "the answer time-out has passed" |
| `TxDrive` | the TX drive and its writers: operator, protection, TUN, band memory | EXTENDS `KeyFunnel`; a tick of the 50 ms evaluator is an action, what it measures its parameter |
| `P2Session` | the Protocol 2 session, the safety gate, the authorising fields of the General and HP packets | every method is an operator from a session record to a session record, so that a handler is the composition the code executes; an action applies one handler |
| `P2Port` | what the session promises its bridge: few fields, and the signals of each step | abstract; `P2Session` implements it (`ImplementsPort`) |
| `P2Bridge` | the bridge between `KeyedHost` and `P2Port`, with a queue of posted calls and one of posted signals | EXTENDS `P2Port`; the calls it posts replace the free calls of the port; `close()` blocks the main thread |
| `TxIqQueue` | the promise of the TX I/Q ring: a bounded queue, emptied between two streams | abstract; emptying it may spoil it (`intact`) until the next time |
| `P2TxFifo` | the ring, one shared access per action, with writer, prime target and re-prime reset | implements `TxIqQueue` through the refinement mapping `Held` |
| `Ep2Path` | the outbound rings, their threads, the EP2 writer, and the parts of `open()` and `close()` that make and destroy them | program counters per thread, a set of writers because a close that waited a second goes on without its own; a block is a token of the ring's semaphore; a wait without a handle returns at once |
| `CwKeyer` | the keyer thread, the calls of the main thread, the serial straight key | each unlocked point of the thread is a value of `pump`; an element ends at any time |
| `..._proofs` | theorems about the module they extend | TLAPS |
| `MC...` | small instances | constants for TLC |

So the transmit path is checked in pieces that meet in two interfaces.  On one
side `MoxFsm => KeyFunnel => KeyedHost`: the sources, the TCI server and the drive
are checked on top of the funnel, the bridge on top of the host.  On the other
`P2Session => P2Port`: the bridge talks to the port.  A promise of an interface
that the detailed module broke would fail the run of the detailed module.

### Abstractions

* `MoxFsm`: the relays, the attenuator and the modulator are flags; the wire
  carries `XmitBit`, which the code assigns apart from its host copy `mox_`.  The
  attenuator has levels 0 .. `MaxAtt` (31 dB in the code), ATT-on-TX is off (the most) or
  any of them, 0 included.  `leastAtt` and `staleTimer` are histories.  The
  SWR evaluator is nondeterministic: while it runs it may trip (`SwrTrip`) or fold
  (`SwrFold`); `TxDrive` takes it apart.
* `KeyFunnel`: attenuator, filter board, modulator and tones are gone, and a
  single shot is the one `stage`.  The inhibit and the conversion lockout are `locks`.
* `KeySources`: `ShortClips = FALSE` says that a clip does not run out while `play()`
  is still between its unlock and the funnel, a few instructions.  `TRUE` shows what
  happens otherwise (below).  The CW case of the foot switch is one flag: `cwFwKeyer_` is TRUE
  from its initialisation (`hl2_stream.h:2465`) and nothing assigns it.
* `TciServer`: the tx-audio frames of other clients than the owner are dropped by
  the code and are not actions; the reasons for which a frame of the owner is dropped are
  one choice (`AudioFrame(FALSE)`: it counts as an answer and queues nothing).  `tune` is `trx` plus a mark on the edge that follows.
* `TxDrive`: the watts cap is armed at a value no smaller than Full Output, so its
  ceiling is open and its servo idle; only its fold acts.  Levels are 0 .. `Full`.
* `P2Session`: time is an age of the last status (none, fresh, stale: one second)
  and timers that may fire; the FIFO is two flags (prime target reached,
  overflowed).  A prime tick below the target is reported the first time and then every
  `PrimeEmitEvery`-th time (8 in the code), by a counter no session resets.  Drive is "with drive" exactly when the PA is authorised, as in
  `P2TxSafetyGate::evaluate`.  `sessionRunning` equals `running_` and the watchdog
  input is never cleared by this code; neither is a field.  `producer` is the
  environment: no producer attached, attached but inactive, active; the bridge
  (de)activates it between two sessions.
* `P2Port`: a packet may or may not be pushed after a step, but an authorisation
  never outlives the gate (`Aired`), which is `NeverOnAirBlind` of the session.
* `P2TxFifo`: samples are numbered, so that order, loss and staleness show.  The
  index tests are written with the wrap of the unsigned difference.  Starting a stream
  waits for nobody: blocks the stopped pump has fed are pushed before, between and after
  the stores of `reset()`.  `FitsReset` bounds how many of them are pushed between those
  stores, a few instructions apart: no more than a ring of them.
* `Ep2Path`: the sleeps of `destroy_obbuffs` last long enough for what they wait
  for.  `open()` starts the threads before it makes the semaphores and `close()` gives the
  writer one second; both races are in the model, and `spoiled` marks a session in which
  one was lost.  `EER` mode, which keeps two more buffers, is left out.
* `CwKeyer`: durations are left out, a mark or a gap is one element.  An element knows
  whether it is the first of its text (`head`), which is history: `send` and the first
  typed character put no gap in front of it.

## Runs

Passing runs, one per component:

| run | shows | bounds |
|---|---|---|
| `MoxFsm` | one chain at a time; rest matches the intent; front end never attenuated less than was wanted since key down; generator shown by a button; a safety timer is not left over from another over; relay switched cold; a released key reaches receive, a held key reaches the wire; the funnel is implemented | 2 sources: enough to overwrite the first one's `pttSource_`; `MaxAtt` 1: ATT-on-TX off, nothing and all there is, and a level to tell saved from set; requests out of range are clamped |
| `StreamRestart` | a session is keyed only by its own requests; stale steps run down | `MaxStale` = 1 step of an older session still due at an open (the delays are shorter than an open takes); `MaxAtt` 0, the attenuator decides nothing here |
| `KeySources` | serial line and voice keyer leave no key behind; VOX releases its own only; on-air edges follow the request | all five sources, the code's debounce of 2 samples, no other bound |
| `TciServer` | no client is left believing the radio transmits; a starved owner is asked again | 2 clients (owner and rival), a target of 2 packets, a queue of 2 and at most 1 open request, so that the bound on requests is met before the target |
| `TxDrive` | an untouched transmission runs at the setting; a lasting fault is cut | 2 bands, `Full` = 4 with a floor of 1: two halvings lead from full to the floor; blanking 1 tick, dwell 2 ticks; one operator level and one tune level that differ |
| `P2Session` | the packets never authorise transmit blindly; PA follows the key; prime latch follows the writer; key-up order; keep-alive starts; silence unkeys; the port is implemented | `MaxEpoch` 4: open, close or replace, open again; `MaxRestarts` 2 re-primes in flight; General every 2 ticks and progress every 2 prime ticks instead of 8, the smallest cadence that has a tick without it |
| `P2Bridge` | the radio follows the host; the copies converge; a fault releases the host | `MaxDue` 1 deferred re-prime, the operator acts with fewer than 2 calls waiting and the session with at most 2 signals: a call in flight can cross a state in flight in both directions; any number of re-opens |
| `P2TxFifo` | FIFO refinement across resets that race the producer; packets of a stream are contiguous | ring of 4, blocks of 2, packets of 3: both straddle the end of the ring; indices up to 10, so the ring wraps twice; 2 blocks in flight, so that one is pushed and one waits when a reset comes; samples numbered modulo 7 |
| `Ep2Path` | packets are whole pairs; what is handed over is sent; the writer is awake when it is joined; a close ends | `MaxQueued` 1 block in a ring (a second one changes no guard of the other threads), 2 writers: the session's and one an earlier close left; any number of sessions |
| `CwKeyer` | silence at rest; marks of a text are spaced, texts appended to one another included | a one-mark and a two-mark character, 4 elements queued, 3 characters typed ahead |

Deadlock is checked where the system cannot stop.  `P2Session` stops at the epoch
bound with the session closed, `P2TxFifo` at the index bound, and `P2Bridge` where a
session step would exceed the bound on re-primes, so these runs say
`CHECK_DEADLOCK FALSE`.

Runs that end in a violation show a disagreement between the code and what its
own comments say; the finding in PROJECT.json quotes the line:

* `MoxFsm_rekey_rf`: press, release in rf_delay, press again in the space window: the
  sequencer rests with MOX on the wire but was never on air (no modulation, no
  safety timer, no SWR evaluator).
* `P2Bridge_lockout`: the radio reports an underflow in receive, the session latches
  a fault, and the bridge refuses the key down whose key up would clear it.

### Further disagreements

The modules state more such properties under the heading "What comments of the
code say and the code does not do".  TLC violates each when it takes the place of
the property in the cfg of its module; no run is spent on them.

| module | property | what happens |
|---|---|---|
| `MoxFsm` | `IdleReceiveIsOffAir` | a re-key in ptt_out_delay cancelled in mox_delay leaves "on air" reported for ever |
| | `InhibitStopsKeydown`, `ConvertExcludesTransmit` | a lockout engaged in mox_delay does not stop the key down in flight |
| | `ToneDisarmedInReceive` | a TUN click that never reaches the air leaves the tone armed |
| | `SafetyTimerStopsInReceive` | it "cancels on the MOX-off edge" (`hl2_stream.cpp:3702-3703`); the same cancelled re-key leaves it running in receive, until the next over starts it afresh or it releases nobody's key |
| | `AttenuatorRestored` | "restore the operator's pre-keydown step-att (today always 0)" (`hl2_stream.cpp:3673-3674`): the re-key in ptt_out_delay saves the transmit level, and receive keeps it |
| | `SafetyTimerCoversTransmission`, `EvaluatorCoversTransmission` | a re-key after the timer fired has none; SWR protection switched off in transmit takes the watts cap with it |
| | `FilterHoldsTransmit`, `AttenuatorFollowsSetting` | tuning in transmit puts the filter board into receive; a level set before the MOX bit is not sent |
| `StreamRestart` | `CloseStopsTransmit`, `MoxRisesCold`, `RestartGeneratorMatchesButton` | `close()` on air clears `mox_` and leaves `XmitBit` and the modulator; with TUN armed it leaves the generator |
| `P2Session` | `IdleTransportRecovers` | an idle stall, a key press before the deferred re-prime and a release leave the transport stopped |
| | `KeydownOrder`, `RunWaitsForHandshake` | a key held while priming raises HP transmit before the PA; a control change sends run=1 before the handshake shot |
| `P2TxFifo` | `ResetIsQuiescent`, `NeverTorn` | `reset()` documents that no producer call races its stores (`P2TxFifo.cpp:73-77`); the caller stops the pump and does not wait for the blocks it has fed.  A push that the first store falls into publishes its old index behind it |
| `KeySources` | `VoxOffReleases` | VOX switched off in mox_delay forgets a key that goes on to the air |
| | `KeyerReleasesOwn`, `KeyerKeyIsHeld` with `ShortClips = TRUE` | the end of a clip takes the key of whoever pressed meanwhile; a clip that ends before `play()` reaches the funnel leaves the key down |
| `TciServer` | `LostOwnerUnkeys`, `OwnershipEndsWithTx` | the owner of the path is pruned before its socket reports it and its key stays; ownership survives a key that was refused |
| | `HeardIsTrue`, `HeardTuneIsOnAir` | a refused client is told "off" while the radio is on; a client that asks `tune:0` on air hears "on" and is not told of the off edge |
| `TxDrive` | `UnvalidatedBandIsSilent`, `MemoryIsOperators` | the stash of TUN and the fold cross a change of band; the band memory saves folded and borrowed levels |
| | `LampCoversNoEvaluator` | a re-key after a trip transmits without evaluator and, after a TUN click, without lamp |
| `Ep2Path` | `NobodyIsLeftBehind`, `SemsAreFirst` | a ring thread waits on a handle that `close()` closes; a thread that outruns `open()`, "safe in practice", passes semaphores that do not exist yet, and a writer the close gave up on meets the next session |
| `CwKeyer` | `TextsAreSpaced` | a message appended to a running one (`CwKeyer.h:65-67`), or the first character typed behind one, begins without a gap: its first mark joins the last one |
| | `MessageHoldsPtt`, `LineIsTrue` | the straight key's release drops PTT inside a message; an abort leaves typed text on the display |

Met while reading, and not stated as properties: with auto-arm on, a manual disarm is
undone by the next state signal (`P2RxBridge.cpp:189-198`); a fault or a disarm in
mox_delay releases nothing, because it looks at `moxActive`; `requestMox` is called
from the wire thread although its comment says that all bookkeeping is on one
(`hl2_stream.cpp:3400-3403`); a poll of VOX with a mox_delay above 50 ms drops the
ownership it has just taken.

## Fairness

Each module assumes only that its own event loops and threads run:

* `MoxFsm`: a single shot that was started fires (weak fairness of each step):
  `QTimer::singleShot` on a running event loop.  `StreamRestart` needs less: while single
  shots are outstanding, one of them fires.
* `P2Session`: the same of the handshake shot, the HP tick, the deferred re-prime
  and the prime tick, and the ChannelMaster thread fills the ring while it is fed.
  The fairness of the HP tick and the re-prime is written out with their enabling
  condition, because TLC computes ENABLED of large handlers slowly; both handlers
  are deterministic, so the condition is "due, and would change the session".
* `P2Bridge`: a posted call and a posted signal are delivered (two event loops), and
  a deferred re-prime fires.
* `TciServer`: the 2 ms timer ticks while it runs, and time passes.
* `TxDrive`: the 50 ms evaluator ticks while it runs.
* `Ep2Path`: the three threads are scheduled, the main thread gets on with a close
  it has begun, and while a session is open the radio streams, so that both chains
  go on producing blocks.

Nothing is assumed of the operator, the clients, the radio's answers or the antenna.

## Proofs

Each module has its proofs in a module of its own, which EXTENDS it.  `KeySources_proofs`
extends `TciServer` too, and `MoxFsm_proofs` extends `StreamRestart`, because the
lemmas are shared.  `MoxFsm`'s type invariant is proved and not run: it is part of `IInv`.  Every safety property of a passing run is proved for every value
of the constants, and so are all refinements:

| theorem about | proved |
|---|---|
| `MoxFsm`, `StreamRestart` | type, `OneChain`, `IdleMatchesIntent`, `FrontEndProtected`, `GeneratorMatchesButton`, `SafetyTimerIsOfThisOver`, `RelaySwitchesCold`, `KeyedOnlyByThisSession`; `ImplementsFunnel` |
| `KeyFunnel`, `KeySources`, `TciServer` | types, `SerialKeyIsHeld`, `VoxReleasesOwn`, `KeyerKeyIsHeld`, `HeardTransmitIsOnAir`; `ImplementsHost`, of the funnel, the sources and the TCI server |
| `P2Session` | type, `NeverOnAirBlind`, `PaNeedsKey`, `PrimedIsLive`, `KeyupOrder`; `ImplementsPort` |
| `P2Bridge` | `RadioFollowsHost`, `CopiesConverge` |
| `P2TxFifo` | type (in `RingInv`), `NoGapOnAir`; `IsQueue` |
| `Ep2Path` | type, `PairIsWhole`, `WriterIsWoken` |
| `TxDrive` | type, `UnfoldedIsSetting`, `NeverAboveSetting` |
| `CwKeyer` | type, `SilentAtRest`, `WaitsSilently`, `MarksAreSpaced` |

`NeverAboveSetting` (the level is never above the stored setting) and `WaitsSilently`
(no mark while the keyer waits for the next keystroke) are stated for the proofs;
no run is spent on them.  Hardly any of these properties is inductive.  What each
proof adds, and why:

**`MoxFsm_proofs`.**  `IInv` says for each step what is true while its single shot
is outstanding: before `KeydownPostMox` the bit is off and the modulator stopped;
from there to `KeyupTxOff` the bit is on; `KeyupTxOff` and `KeyupSettled` are only
due with the modulator stopped; and at rest the wire matches the intent.  It is
needed because each step relies on what the one that scheduled it left behind, and
nothing in a step checks it.  That the attenuator is never below `leastAtt` is part of it:
who lowers what is wanted lowers the history too, and the level a re-key saves is never
applied before the bit is off.  The sum over single shots is avoided by stating that
two different outstanding steps are equal.  The same invariant gives the
refinement: the funnel's one `stage` is the step that is due.  `TimerInv` is what
`SafetyTimerIsOfThisOver` needs: a timer that outlived the MOX bit can run in receive,
but only while on air is still reported and the modulator is stopped, and the on-air edge
that lets it run starts the timer again.  `close()` breaks the
chain invariant, so `KeyedOnlyByThisSession` has one of its own: `QuietUntilAsked`
says that a session nobody has asked to key has neither the intent nor the MOX bit
standing, and a leftover step keys only while the intent stands.

**`KeySources_proofs`.**  The funnel has no owner, so each argument is about what a
release may find.  The serial line needs one addition: a line is asserted only
while its port is open (`LineNeedsPort`), or opening a port could forget a line
that holds the key.  The voice keyer needs `PressIsHeld`: while `play()` is on its
way to the funnel to key the radio, the clip plays on the air, holds the key, and nobody
else is on air, which is why the wire thread has no reason to end the clip first.  A TCI client is told "on"
on an edge and when it joins; `ListedHearTruth` says of every client the server still
lists that it believes so only while the radio is on air, because the broadcast of
the off edge is part of the step that makes the edge.

**`P2Session_proofs`.**  An event changes the inputs of the gate and only a packet
changes what the radio was told.  `SInv` ties the two: the transmit bit of the last
HP packet and the PA bit of the last General packet are covered by the gate's inputs
as they are now, and the flags of the transport follow the connection.  Handlers are
compositions of methods, so the proof has one lemma per method instead of one per
handler.  The fault path is entered with the transport half written; `Weak` is what
still holds there, and `FaultInv` shows that `latchTxFault` turns it into `SInv`,
because it pushes both packets itself.

The refinement of `P2Port` follows the same lines: `Seen` is what the port shows of
a session in the middle of a handler, one lemma per method says how the method moves
it (a field, a signal at the end of the queue, or nothing), and each handler then is
one action of the port.  What the last packet authorises is left open until the end
of the step, where `NeverOnAirBlind` gives `Aired`.  `Feeds` is the one addition: the
pump runs only on a running session, and the prime timer only while the pump has
not become a writer, or a pump fault and a prime tick would have no counterpart.

**`P2Bridge_proofs`.**  Calls and signals cross, so the invariant is about what is
on its way.  `EndIsComing`: off the air, every queued call that raises the intent,
and a raised intent, has its end queued behind it.  `RunKnown` and `StateKnown`: the
signals in the inbox, read in order, turn the copies into the state of the session.
`Shut`, `Waiting` and `AtRest` say what a close leaves.  Queues of any length are
handled by operators that quantify over positions and by lemmas about appending to
and taking from them.

**`P2TxFifo_proofs`.**  `RingInv` says that an index loaded earlier is still good:
the room a producer found only grows (`PushFits`), the samples a consumer found stay
(`PopFits`), and the writer is less than a ring ahead of `Oldest` (`IndicesInOrder`),
which is 0 from the first store of a reset on.  No step waits for the producer: a push
that begins after that store counts from 0 and is the head of the new stream, one that
ended before it is emptied with the ring, and one it falls into makes the ring `torn`, of
which nothing is claimed until the next reset.  That filled and copied slots are different
rests on arithmetic modulo a variable capacity, which no solver does by itself: the first
section proves that two indices less than a ring apart fall into different slots.
For `NoGapOnAir`, `NumberInv` numbers the stream across ring, block and the network;
`DropFillsRing` says that a block dropped during a pop leaves the ring full until the
pop is over, so the packet still being copied has no gap and the next one is not sent.
Between the stores of a reset the overflow counter is still the old stream's, so there
`FitsReset` (see the bounds) takes its place.

**`Ep2Path_proofs`.**  `Handshake` says that in an unspoiled open session each ring is in
one of four turns: its thread fills its half, it has handed it over, the writer has it, it
may be filled again.  The counts of both semaphores and the program counters of the
threads determine each other.  `Prepared` says that until the semaphores exist nobody has
used one, and `OneWriter` that a session begun without an older writer has only its own;
a session in which either fails is `spoiled` from then on.  `Woken` follows the two
releases of `close()`: a writer that waits has one of them after the first and both after
the second, because the writer looks at `io_keep_running` before it waits again.  The type
invariant needs `QueueRoom`: a ring is only over its bound by the token the close releases.

**`TxDrive_proofs`.**  Four writers share a level and a setting.  `OnlyAFoldReduces`:
whoever moves the level stores it as well, unless it folds.  `FoldIsShown`: the lamp
goes out only where the fold is undone.  That a fold stays within the slider is
integer division, done once as a lemma.

**`CwKeyer_proofs`.**  `SilenceInv` says at which points of the thread the two wire
bits are down while the straight key is up.  `SpacingInv` follows the gap between two
marks through the queue, the element in the air and the flag of the last one: a mark
stands behind a space or begins a text, and whatever is appended begins one or brings its
gap along.

Assumptions.  On constants, all evaluated by TLC on the runs of their modules:

* `Manual` and `Tci` are sources, the five sources of `KeySources` differ
  (`SourcesAssumption`, `ManualAssumption`, `TciAssumption`, `KeySourcesAssumption`);
* the attenuator has a greatest level (`AttAssumption`);
* sizes, periods and dwells are positive, and a packet and a block fit the ring
  (`RefreshAssumption`, `ThrottleAssumption`, `SizeAssumption`, `TxDriveAssumption`, `Ep2PathAssumption`);
* two marks of a Morse code have a gap between them (`CwKeyerAssumption`), as the
  code's table of elements has;
* bounds are natural numbers (`BoundAssumption`, `QueueAssumption`, `DueAssumption`,
  `MaxStaleAssumption`).

One switch is a hypothesis of a theorem and of the run that checks the same property:
`ShortClips = FALSE` (`KeyerKeyIsHeld`).  The code does not enforce it; "Further
disagreements" says what TLC finds without it.  Three properties name in their own text the
states they promise nothing for: `~torn` (`IsQueue`, `NoGapOnAir`), `~spoiled`
(`PairIsWhole`, `WriterIsWoken`, `HandedOverIsSent`) and the first mark of a text
(`MarksAreSpaced`).  The races that lead there are in the models and are explored; that
they happen is what `NeverTorn`, `SemsAreFirst` and `TextsAreSpaced` state and TLC shows.

Model-checked only: liveness, because TLAPS handles neither fairness with ENABLED
nor the arguments it needs.  These are `PressReachesWire`, `ReleaseReachesReceive`,
`RestartReachesReceive`, `CadenceStarts`, `SilenceUnkeys`, `FaultReleasesHost`,
`StarvedOwnerIsAsked`, `SustainedFaultIsCut` and `HandedOverIsSent`.  The properties
under "Further disagreements" are false and have no proofs.

What a recursive definition computes for every input would need induction over
data, which the installed provers cannot instantiate; the modules have none.

## Plan

The modules and the safety proofs are there.  What is left, in this order:

1. That `BridgeSpec` implements `KeyedHost` on its sequencer side, and that every
   handler of the bridge takes at most one step of `P2Port` per call it delivers, so
   that the two interfaces can be cited by name.
2. Safety parts of the liveness arguments: that every state in which a liveness
   property waits has a due single shot, tick or token (`OneChain` is that for
   `MoxFsm`; `Ep2Path` and `TciServer` have none stated).
3. Weaker forms of the disagreements that do hold, such as whose key a clip's end may
   take.

## Not modelled

* Signal processing (`dsp/`, `wdsp_engine.cpp`, the wdsp and CW-decoder code): floating
  point on arrays; its correctness is numerical, and TLC has no arithmetic for it.
* The user interface (`settingsdialog.cpp`, `mainwindow.cpp`, panels, widgets): setters
  that reach the components above appear there as actions; the rest is layout.
* Settings, profiles, stores, rig catalogue and feeds: values written and read back,
  with no protocol between steps.
* Packet layout, discovery and the receive paths (EP6, DDC): parsing without a state
  that outlives the packet, apart from the status handled in `P2Session`.
* Inbound rings, mixer, interleaver and virtual audio cable (`CmBuffs`, `AAMix`, `ILV`,
  `Ivac`): the ring is of the kind of `Ep2Path`, with the same teardown; not repeated.
  The microphone ring of the Protocol 2 bridge is left out with them.
* The router, the PureSignal stubs and the sequencing helpers: no caller keeps a state
  of theirs that the transmit path depends on.
* The recording converter: its lockout is an action of `MoxFsm` and `KeyFunnel`; the
  external process it waits for is not modelled.

Most of the repository's lines are in the first three groups, which is why the
modelled share of the lines is small although the transmit path is nearly whole.
