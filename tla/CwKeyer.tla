------------------------------ MODULE CwKeyer ------------------------------
(***************************************************************************)
(* The software CW keyer: tx/CwKeyer.cpp with the operations of HL2Stream  *)
(* that feed it, and the serial straight key (cat/SerialCwKey.cpp) that    *)
(* drives the same two bits of the wire, cwx and cwx_ptt.                  *)
(*                                                                         *)
(* The keyer's thread drops its mutex around every callback and every      *)
(* wait; those are the points where the main thread's calls fall in        *)
(* between, and each is a value of "pump".  Durations are left out: an     *)
(* element ends, and a wait for the next keystroke runs out, at any time.  *)
(***************************************************************************)
EXTENDS Naturals, Sequences, SequencesExt

CONSTANTS
    Chars,      \* the characters that are keyed
    Code(_),    \* the elements of one: marks with spaces between them
    Blank,      \* the typed space
    MaxQueue,   \* bound: elements waiting
    MaxPending  \* bound: characters waiting

ASSUME CwKeyerAssumption ==
    /\ Blank \notin Chars
    /\ MaxQueue \in Nat /\ MaxPending \in Nat
    /\ \A c \in Chars :
         /\ Code(c) \in Seq({"mark", "space"})
         /\ \A i \in 1 .. Len(Code(c)) - 1 : "space" \in {Code(c)[i], Code(c)[i + 1]}

VARIABLES
    pump,      \* where the keyer's thread is
    run,       \* its locals: typeAhead, runFirst, aborted, the element e
    queue,     \* queue_
    pending,   \* pending_
    committed, \* committedText_ is not empty
    abort,     \* abort_
    shown,     \* what the last onText showed: committed and pending
    cw,        \* txMode_ is CWL or CWU
    serial,    \* SerialCwKey: active_; serialCwHangTimer_ runs
    cwx,       \* tx[0].cwx
    cwxPtt,    \* tx[0].cwx_ptt
    spaced     \* ghost: a space was held since the last mark of this run

texts == <<pending, committed, shown>>
line == <<cwx, cwxPtt>>
vars == <<pump, run, queue, texts, abort, cw, serial, line, spaced>>

\* An element of the queue.  Whether it is the "head" of its text is history:
\* the first element of a message, or of a character keyed without a gap.
Element(key, head) == [key |-> key, head |-> head]
Elements(code, head) == [i \in DOMAIN code |-> Element(code[i], head /\ i = 1)]

FreshRun == [typeAhead |-> FALSE, first |-> TRUE, aborted |-> FALSE,
             e |-> Element("space", FALSE)]

ElementType == [key : {"mark", "space"}, head : BOOLEAN]

TypeOK ==
    /\ pump \in {"idle", "begin", "loop", "release", "drained", "element",
                 "hold", "bridge", "end", "keyUp", "teardown"}
    /\ run \in [typeAhead : BOOLEAN, first : BOOLEAN, aborted : BOOLEAN,
                e : ElementType]
    /\ queue \in Seq(ElementType) /\ pending \in Seq(Chars \cup {Blank})
    /\ committed \in BOOLEAN /\ abort \in BOOLEAN
    /\ shown \in BOOLEAN \X Seq(Chars \cup {Blank})
    /\ cw \in BOOLEAN /\ serial \in [active : BOOLEAN, hang : BOOLEAN]
    /\ cwx \in BOOLEAN /\ cwxPtt \in BOOLEAN /\ spaced \in BOOLEAN

Init ==
    /\ pump = "idle" /\ run = FreshRun /\ queue = <<>> /\ pending = <<>>
    /\ committed = FALSE /\ abort = FALSE /\ shown = <<FALSE, <<>>>> /\ cw \in BOOLEAN
    /\ serial = [active |-> FALSE, hang |-> FALSE]
    /\ cwx = FALSE /\ cwxPtt = FALSE /\ spaced = TRUE

EmitText == shown' = <<committed', pending'>>

-----------------------------------------------------------------------------
(* The main thread: the keyer's public operations.                         *)

Idle == pump = "idle" /\ queue = <<>> /\ pending = <<>>

\* sendCw: the elements are appended to what is still playing, without a gap.
Send(text) ==
    /\ cw /\ Len(queue) + Len(text) <= MaxQueue
    /\ queue' = queue \o Elements(text, TRUE)
    /\ UNCHANGED <<pump, run, texts, abort, cw, serial, line, spaced>>

\* cwTypeAhead, one character.
PushChar(c) ==
    /\ cw /\ Len(pending) < MaxPending
    /\ pending' = Append(pending, c) /\ UNCHANGED committed /\ EmitText
    /\ UNCHANGED <<pump, run, queue, abort, cw, serial, line, spaced>>

BackspacePending ==
    /\ pending # <<>>
    /\ pending' = Front(pending) /\ UNCHANGED committed /\ EmitText
    /\ UNCHANGED <<pump, run, queue, abort, cw, serial, line, spaced>>

\* abortCw, CwMacroModel::stop, TCI's cw_macros_stop and HL2Stream::close.
Abort ==
    /\ abort' = TRUE /\ queue' = <<>> /\ pending' = <<>> /\ committed' = FALSE
    /\ IF committed THEN EmitText ELSE UNCHANGED shown
    /\ UNCHANGED <<pump, run, cw, serial, line, spaced>>

\* setTxMode between CW and another mode: the keyer is not told.
SetTxMode ==
    /\ cw' = ~cw
    /\ UNCHANGED <<pump, run, queue, texts, abort, serial, line, spaced>>

\* SerialCwKey::onPoll and stop(), with requestCwKeyFromSerial.
SerialDown ==
    /\ ~serial.active
    /\ IF cw THEN /\ serial' = [active |-> TRUE, hang |-> FALSE]
                  /\ cwx' = TRUE /\ cwxPtt' = TRUE
             ELSE serial' = [serial EXCEPT !.active = TRUE] /\ UNCHANGED line
    /\ UNCHANGED <<pump, run, queue, texts, abort, cw, spaced>>

\* Mutant: outside CW the release is ignored as the press is.
SerialUpInCw ==
    /\ serial.active /\ serial' = [active |-> FALSE, hang |-> cw]
    /\ IF cw THEN cwx' = FALSE /\ UNCHANGED cwxPtt ELSE UNCHANGED line
    /\ UNCHANGED <<pump, run, queue, texts, abort, cw, spaced>>

SerialUp ==
    /\ serial.active /\ serial' = [active |-> FALSE, hang |-> cw]
    /\ cwx' = FALSE /\ cwxPtt' = (cw /\ cwxPtt)
    /\ UNCHANGED <<pump, run, queue, texts, abort, cw, spaced>>

HangExpires ==
    /\ serial.hang /\ serial' = [serial EXCEPT !.hang = FALSE]
    /\ cwxPtt' = FALSE
    /\ UNCHANGED <<pump, run, queue, texts, abort, cw, cwx, spaced>>

-----------------------------------------------------------------------------
(* The keyer's thread.                                                     *)

\* cv_.wait returns: a fresh run begins.
Begin ==
    /\ pump = "idle" /\ (queue # <<>> \/ pending # <<>>)
    /\ pump' = "begin" /\ abort' = FALSE /\ committed' = FALSE /\ run' = FreshRun
    /\ spaced' = TRUE
    /\ UNCHANGED <<queue, pending, shown, cw, serial, line>>

PttOn ==
    /\ pump = "begin" /\ pump' = "loop" /\ cwxPtt' = TRUE
    /\ UNCHANGED <<run, queue, texts, abort, cw, serial, cwx, spaced>>

\* The top of the element walk.
Walk ==
    /\ pump = "loop"
    /\ IF abort \/ queue = <<>>
       THEN /\ pump' = IF abort THEN "end" ELSE "release"
            /\ UNCHANGED <<run, queue>>
       ELSE /\ pump' = "element" /\ run' = [run EXCEPT !.e = Head(queue)]
            /\ queue' = Tail(queue)
    /\ UNCHANGED <<texts, abort, cw, serial, line, spaced>>

\* keyFn: a mark goes down, a space comes up; the element is held.
Key ==
    /\ pump = "element" /\ pump' = "hold" /\ cwx' = (run.e.key = "mark")
    /\ spaced' = (run.e.key = "space")
    /\ UNCHANGED <<run, queue, texts, abort, cw, serial, cwxPtt>>

Hold ==
    /\ pump = "hold" /\ pump' = "loop"
    /\ UNCHANGED <<run, queue, texts, abort, cw, serial, line, spaced>>

\* Nothing queued: the key comes up before any wait.
Release ==
    /\ pump = "release" /\ pump' = "drained" /\ cwx' = FALSE
    /\ UNCHANGED <<run, queue, texts, abort, cw, serial, cwxPtt, spaced>>

\* Mutant: only the elements of the character are queued.
GapForgotten == <<>>

Gap == IF run.first THEN <<>> ELSE <<Element("space", FALSE)>>

\* One typed character is committed: a blank only widens the next gap.
Commit ==
    LET c == Head(pending) IN
    /\ pending' = Tail(pending) /\ committed' = TRUE /\ EmitText
    /\ IF c = Blank
       THEN run' = [run EXCEPT !.typeAhead = TRUE] /\ UNCHANGED queue
       ELSE /\ run' = [run EXCEPT !.typeAhead = TRUE, !.first = FALSE]
            /\ queue' = queue \o Gap \o Elements(Code(c), run.first)
    /\ pump' = "loop"

Drained ==
    /\ pump = "drained"
    /\ IF ~abort /\ pending # <<>>
       THEN Commit
       ELSE /\ pump' = IF run.typeAhead /\ ~abort THEN "bridge" ELSE "end"
            /\ UNCHANGED <<run, queue, texts>>
    /\ UNCHANGED <<abort, cw, serial, line, spaced>>

\* cv_.wait_for one inter-character space: woken, or timed out.
Bridge ==
    /\ pump = "bridge"
    /\ pump' \in (IF pending # <<>> /\ ~abort THEN {"loop"} ELSE {"end"})
    /\ UNCHANGED <<run, queue, texts, abort, cw, serial, line, spaced>>

\* keyFn(false), then pttFn(false); "aborted" was read before them.
KeyUp ==
    /\ pump = "end" /\ pump' = "keyUp" /\ cwx' = FALSE
    /\ run' = [run EXCEPT !.aborted = abort]
    /\ UNCHANGED <<queue, texts, abort, cw, serial, cwxPtt, spaced>>

PttOff ==
    /\ pump = "keyUp" /\ pump' = "teardown" /\ cwxPtt' = FALSE
    /\ UNCHANGED <<run, queue, texts, abort, cw, serial, cwx, spaced>>

\* After an abort the buffers are flushed again; a clean end resets the
\* display.  Characters typed meanwhile stay for the next run.
Teardown ==
    /\ pump = "teardown" /\ pump' = "idle" /\ abort' = FALSE
    /\ IF run.aborted
       THEN queue' = <<>> /\ pending' = <<>> /\ committed' = FALSE /\ UNCHANGED shown
       ELSE /\ UNCHANGED <<queue, pending>>
            /\ IF pending = <<>> /\ committed
               THEN committed' = FALSE /\ EmitText
               ELSE UNCHANGED <<committed, shown>>
    /\ UNCHANGED <<run, cw, serial, line, spaced>>

-----------------------------------------------------------------------------
Pump ==
    \/ Begin \/ PttOn \/ Walk \/ Key \/ Hold \/ Release \/ Drained
    \/ Bridge \/ KeyUp \/ PttOff \/ Teardown

Main ==
    \/ \E c \in Chars : Send(Code(c))
    \/ \E c \in Chars \cup {Blank} : PushChar(c)
    \/ BackspacePending \/ Abort \/ SetTxMode
    \/ SerialDown \/ SerialUp \/ HangExpires

Next == Pump \/ Main

Spec == Init /\ [][Next]_vars

-----------------------------------------------------------------------------
(* Properties.                                                             *)

\* With the keyer at rest and the straight key up, neither bit is on the wire,
\* however messages, aborts, mode changes and the two keys fell together
\* (CwKeyer.cpp, "ensure key released"; SerialCwKey.cpp, "never leave the key
\* stuck down").
SilentAtRest ==
    pump = "idle" /\ ~serial.active /\ ~serial.hang => ~cwx /\ ~cwxPtt

\* Two marks of a run meet without a space only where a text begins behind
\* another: a message appended to one that plays (CwKeyer.h, "continuous
\* send"), or the first typed character behind a message.  Inside a message,
\* inside a character and between typed characters every mark has its gap,
\* whatever was sent, erased, typed or aborted between two elements; without
\* it two marks would be one long mark on the air.
MarksAreSpaced == pump = "element" /\ run.e.key = "mark" => spaced \/ run.e.head

\* CwKeyer.cpp keys the first typed character without a gap because it is "the
\* run's first mark"; behind a message of the same run it is not.
TextsAreSpaced == pump = "element" /\ run.e.key = "mark" => spaced

\* The key is up whenever the keyer waits for a keystroke ("the carrier is
\* never held keyed-down while we wait"), unless the straight key is down.
WaitsSilently == pump = "bridge" /\ ~serial.active => ~cwx

\* cwx_ptt is held for the run (CwKeyer.h, "held for the message").
MessageHoldsPtt == pump \in {"loop", "element", "hold", "bridge"} => cwxPtt

\* The line at rest shows what the keyer holds (CwKeyer.cpp, abort(): "clear
\* the line").
LineIsTrue == Idle => shown = <<committed, pending>>
=============================================================================
