----------------------------- MODULE TciServer ------------------------------
(***************************************************************************)
(* Keying and TX audio over TCI (src/src/tci_server.cpp).  WebSocket       *)
(* clients key the radio (trx, tune), one of them at a time owns the TX    *)
(* audio path and is asked for audio at the pace the transmitter consumes  *)
(* it (TX_CHRONO), and all of them follow the radio by what they are told  *)
(* on its on-air edges.  Clients vanish without notice, other sources key  *)
(* and unkey, and answers get lost.                                        *)
(*                                                                         *)
(* The server is event driven on the main thread, above the funnel.  Audio *)
(* is counted in packets; the transmitter takes them from TciTxBridge.     *)
(***************************************************************************)
EXTENDS KeyFunnel, Integers

CONSTANTS
    Clients,
    Nobody,          \* no owner
    MaxOutstanding,  \* kTciTxMaxOutstanding
    Target,          \* targetQueuedSamples, in packets
    Cap              \* TciTxBridge::kCapSamples, in packets

ASSUME TciAssumption ==
    /\ "Tci" \in Sources /\ Nobody \notin Clients
    /\ MaxOutstanding \in Nat \ {0} /\ Target \in Nat \ {0}
    /\ Cap \in Nat /\ Cap >= Target

VARIABLES
    conn,         \* a client's socket: closed, live, or gone unnoticed
    heard,        \* the last trx a client was told
    heardTune,    \* the last tune a client was told
    owner,        \* txAudioOwner_
    chrono,       \* chronoTimer_ runs
    outstanding,  \* chronoOutstanding_
    quiet,        \* the answer time-out has passed since chronoLastInboundMs_
    queued,       \* packets in TciTxBridge
    micTci,       \* Prefs::micSource() is "tci"
    tciTune       \* tciTuneActive_

told == <<heard, heardTune>>
audio == <<owner, chrono, outstanding, quiet>>
tci == <<conn, told, audio, queued, micTci, tciTune>>
tvars == <<funnel, locks, tci>>

TciTypeOK ==
    /\ FunnelType
    /\ conn \in [Clients -> {"none", "live", "gone"}]
    /\ heard \in [Clients -> BOOLEAN] /\ heardTune \in [Clients -> BOOLEAN]
    /\ owner \in {c \in Clients : conn[c] # "none"} \union {Nobody}
    /\ chrono \in BOOLEAN /\ outstanding \in 0 .. MaxOutstanding
    /\ quiet \in BOOLEAN /\ queued \in 0 .. Cap
    /\ micTci \in BOOLEAN /\ tciTune \in BOOLEAN

TciInit ==
    /\ FunnelInit
    /\ conn = [c \in Clients |-> "none"]
    /\ heard = [c \in Clients |-> FALSE] /\ heardTune = heard
    /\ owner = Nobody /\ chrono = FALSE /\ outstanding = 0 /\ quiet = FALSE
    /\ queued = 0 /\ micTci \in BOOLEAN /\ tciTune = FALSE

Known == {c \in Clients : conn[c] # "none"}  \* clients_

-----------------------------------------------------------------------------
(* Ownership of the TX audio path.                                         *)

Acquire(c) ==
    IF owner = c THEN UNCHANGED audio
    ELSE owner' = c /\ chrono' = TRUE /\ outstanding' = 0 /\ quiet' = FALSE

Disown ==
    owner' = Nobody /\ chrono' = FALSE /\ outstanding' = 0 /\ UNCHANGED quiet

DisownIf(mine) == IF mine THEN Disown ELSE UNCHANGED audio

-----------------------------------------------------------------------------
(* Commands.                                                               *)

\* A client that wants to bring the audio is turned away while another does.
Denied(c, brings) == brings /\ owner \notin {c, Nobody}

\* trx:0,true with or without the ",tci" token.
TrxOn(c, token) ==
    /\ conn[c] = "live"
    /\ LET brings == token \/ micTci IN
       IF Denied(c, brings)
       THEN /\ heard' = [heard EXCEPT ![c] = FALSE]
            /\ UNCHANGED <<funnel, audio, micTci>>
       ELSE /\ IF brings THEN Acquire(c) ELSE UNCHANGED audio
            /\ micTci' = (micTci \/ token)
            /\ Request(TRUE, "Tci")
            /\ UNCHANGED heard
    /\ UNCHANGED <<locks, conn, heardTune, queued, tciTune>>

\* tune:0,true keys like trx and marks the edge that follows.
TuneOn(c) ==
    /\ conn[c] = "live"
    /\ IF Denied(c, micTci)
       THEN /\ heardTune' = [heardTune EXCEPT ![c] = FALSE]
            /\ UNCHANGED <<funnel, audio, tciTune>>
       ELSE /\ IF micTci THEN Acquire(c) ELSE UNCHANGED audio
            /\ tciTune' = TRUE
            /\ Request(TRUE, "Tci")
            /\ UNCHANGED heardTune
    /\ UNCHANGED <<locks, conn, heard, queued, micTci>>

\* trx:0,false and tune:0,false release any key, and the audio path if it is
\* the client's own.
Off(c) ==
    /\ conn[c] = "live"
    /\ DisownIf(owner = c)
    /\ Request(FALSE, "Tci")
    /\ UNCHANGED <<locks, conn, told, queued, micTci, tciTune>>

\* trx:0 and tune:0 ask; both are answered with the state of the radio.
Query(c) ==
    /\ conn[c] = "live"
    /\ \/ heard' = [heard EXCEPT ![c] = active] /\ UNCHANGED heardTune
       \/ heardTune' = [heardTune EXCEPT ![c] = active] /\ UNCHANGED heard
    /\ UNCHANGED <<funnel, locks, conn, audio, queued, micTci, tciTune>>

-----------------------------------------------------------------------------
(* On-air edges.                                                           *)

\* Mutant: only the owner hears of an edge.
ToOwner(f, on) == [c \in Clients |-> IF c = owner THEN on ELSE f[c]]

\* broadcastNow
ToAll(f, on) == [c \in Clients |-> IF c \in Known THEN on ELSE f[c]]

\* onMoxActiveChanged(on)
Edge(on) ==
    /\ heard' = ToAll(heard, on)
    /\ heardTune' = IF tciTune THEN ToAll(heardTune, on) ELSE heardTune
    /\ tciTune' = (tciTune /\ on)
    /\ DisownIf(~on /\ pttSource = "Tci")

TciTimers ==
    /\ Chain
    /\ IF active' # active THEN Edge(active')
                           ELSE UNCHANGED <<told, audio, tciTune>>
    /\ UNCHANGED <<locks, conn, queued, micTci>>

-----------------------------------------------------------------------------
(* Connections.                                                            *)

\* pruneDeadClients: forgotten without a release.  The owner pointer clears
\* itself when the socket object goes.
Pruned(f) == [c \in Clients |-> IF f[c] = "gone" THEN "none" ELSE f[c]]

OwnerLeft(f) == IF owner # Nobody /\ f[owner] = "none" THEN Nobody ELSE owner

\* onNewConnection, sendInit
Connect(c) ==
    /\ conn[c] = "none"
    /\ conn' = [Pruned(conn) EXCEPT ![c] = "live"]
    /\ owner' = OwnerLeft(Pruned(conn))
    /\ heard' = [heard EXCEPT ![c] = active]
    /\ heardTune' = [heardTune EXCEPT ![c] = FALSE]
    /\ UNCHANGED <<funnel, locks, chrono, outstanding, quiet, queued, micTci,
                   tciTune>>

MaintenanceTick ==
    /\ conn' = Pruned(conn) /\ owner' = OwnerLeft(conn')
    /\ UNCHANGED <<funnel, locks, told, chrono, outstanding, quiet, queued,
                   micTci, tciTune>>

\* The peer is gone; the server does not know yet.
PeerLost(c) ==
    /\ conn[c] = "live" /\ conn' = [conn EXCEPT ![c] = "gone"]
    /\ UNCHANGED <<funnel, locks, told, audio, queued, micTci, tciTune>>

\* onClientDisconnected
Disconnected(c) ==
    /\ conn[c] = "gone" /\ conn' = [conn EXCEPT ![c] = "none"]
    /\ DisownIf(owner = c)
    /\ IF owner = c THEN Request(FALSE, "Tci") ELSE UNCHANGED funnel
    /\ UNCHANGED <<locks, told, queued, micTci, tciTune>>

\* stop()
StopServer ==
    /\ conn' = [c \in Clients |-> "none"]
    /\ Disown /\ queued' = 0
    /\ IF owner # Nobody THEN Request(FALSE, "Tci") ELSE UNCHANGED funnel
    /\ UNCHANGED <<locks, told, micTci, tciTune>>

-----------------------------------------------------------------------------
(* TX audio.                                                               *)

\* Mutant: requests that were never answered count for ever.
WaitedForAlways == outstanding

\* Requests still believed to be on their way.
WaitedFor == IF quiet THEN 0 ELSE outstanding

AtMost(a, b) == IF a < b THEN a ELSE b

\* onChronoTick: ask for what is missing, or notice that the owner is gone.
ChronoTick ==
    /\ chrono /\ owner # Nobody /\ active
    /\ IF conn[owner] = "gone"
       THEN /\ owner' = Nobody /\ chrono' = FALSE
            /\ Request(FALSE, "Tci")
            /\ UNCHANGED <<outstanding, quiet>>
       ELSE /\ LET missing == Target - queued - WaitedFor
                   asked == IF missing <= 0 THEN 0
                            ELSE AtMost(missing, MaxOutstanding - WaitedFor)
               IN /\ outstanding' = WaitedFor + asked
                  /\ quiet' = (quiet /\ asked = 0)
            /\ UNCHANGED <<funnel, owner, chrono>>
    /\ UNCHANGED <<locks, conn, told, queued, micTci, tciTune>>

\* onBinaryMessage from the owner, asked for or not.  Every frame counts as an
\* answer; one without usable audio (too short, another type or format, not to
\* be resampled) is dropped after that.  The bridge keeps the newest packets.
AudioFrame(usable) ==
    /\ owner # Nobody /\ conn[owner] = "live"
    /\ outstanding' = IF outstanding > 0 THEN outstanding - 1 ELSE 0
    /\ quiet' = FALSE
    /\ queued' = IF usable THEN AtMost(queued + 1, Cap) ELSE queued
    /\ UNCHANGED <<funnel, locks, conn, told, owner, chrono, micTci, tciTune>>

\* The transmitter pump takes a packet.
Drain ==
    /\ queued > 0 /\ queued' = queued - 1
    /\ UNCHANGED <<funnel, locks, conn, told, audio, micTci, tciTune>>

TimePasses ==
    /\ owner # Nobody /\ ~quiet /\ quiet' = TRUE
    /\ UNCHANGED <<funnel, locks, conn, told, owner, chrono, outstanding, queued,
                   micTci, tciTune>>

-----------------------------------------------------------------------------
(* Everybody else.                                                         *)

OtherKey(on) == Request(on, Manual) /\ UNCHANGED <<locks, tci>>

Inhibit == (Engage("inhibit") \/ Disengage("inhibit")) /\ UNCHANGED tci

\* Prefs::setMicSource, from the settings or a profile.
SetMicSource ==
    /\ micTci' = ~micTci
    /\ UNCHANGED <<funnel, locks, conn, told, audio, queued, tciTune>>

TciNext ==
    \/ \E c \in Clients :
        \/ \E token \in BOOLEAN : TrxOn(c, token)
        \/ TuneOn(c) \/ Off(c) \/ Query(c)
        \/ Connect(c) \/ PeerLost(c) \/ Disconnected(c)
    \/ TciTimers \/ MaintenanceTick \/ StopServer
    \/ ChronoTick \/ Drain \/ TimePasses
    \/ \E usable \in BOOLEAN : AudioFrame(usable)
    \/ \E on \in BOOLEAN : OtherKey(on)
    \/ Inhibit \/ SetMicSource

TciSpec == TciInit /\ [][TciNext]_tvars

\* Time passes and the 2 ms timer keeps ticking while it runs.
FairTciSpec == TciSpec /\ WF_tvars(ChronoTick) /\ WF_tvars(TimePasses)

-----------------------------------------------------------------------------
(* What the server guarantees.                                             *)

\* No client believes the radio transmits when it receives: a logger or a
\* digital-mode program that missed an off edge would stay deaf, waiting in
\* transmit for ever.  Clients come and go and are refused at any moment.
HeardTransmitIsOnAir ==
    \A c \in Clients : conn[c] = "live" /\ heard[c] => active

\* An owner on air without audio is asked for it again and again, however many
\* requests or answers were lost, whoever owned the path before and however
\* that ended.
StarvedOwnerIsAsked ==
    <>[](owner # Nobody /\ active /\ queued = 0)
        => []<><<ChronoTick /\ ~quiet' /\ outstanding' > 0>>_tvars

-----------------------------------------------------------------------------
(* What comments of the code say and the code does not do.                 *)

\* "releases MOX via the source-tagged wrapper" (onClientDisconnected): the
\* audio path is never taken from an owner that is gone while its key stands.
LostOwnerUnkeys ==
    [][owner # Nobody /\ conn[owner] = "gone" /\ owner' = Nobody
           => ~requested']_tvars

\* "One trx per edge, from the true edge, only": a client knows when the radio
\* is on air.
HeardIsTrue == \A c \in Clients : conn[c] = "live" => heard[c] = active

\* The tune confirmation follows "the real wire edge": no client believes that
\* the radio tunes when it receives.
HeardTuneIsOnAir == \A c \in Clients : conn[c] = "live" /\ heardTune[c] => active

\* Ownership ends with the transmission it was acquired for.
OwnershipEndsWithTx == stage = "rest" /\ ~requested => owner = Nobody
=============================================================================
