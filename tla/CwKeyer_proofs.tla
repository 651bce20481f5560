--------------------------- MODULE CwKeyer_proofs ---------------------------
(***************************************************************************)
(* Proofs about the CW keyer, for every alphabet, every code in which      *)
(* marks are separated, and every bound.                                   *)
(*                                                                         *)
(* The two bits of the wire have two writers that do not know each other,  *)
(* the keyer's thread and the straight key; silence at rest follows from   *)
(* what each point of the thread guarantees while the straight key is up.  *)
(* Spacing follows from the shape of the queue: a mark in it stands behind *)
(* a space, or begins a text.                                              *)
(***************************************************************************)
EXTENDS CwKeyer, TLAPS

Elem == ElementType

-----------------------------------------------------------------------------
(* Sequences of elements.                                                  *)

\* An element that may be keyed right behind a mark.
MayFollow(e) == e.key = "space" \/ e.head

\* Between two marks there is a space, unless the second begins a text.
Spaced(q) ==
    \A i \in 1 .. Len(q) - 1 : q[i].key = "space" \/ MayFollow(q[i + 1])

\* A queue that may be keyed behind a mark.
StartsOK(q) == q # <<>> => MayFollow(q[1])

\* The elements of a character are a spaced sequence, and one that begins a
\* text may be keyed behind a mark.
LEMMA CodeFacts ==
    ASSUME NEW c \in Chars, NEW h \in BOOLEAN
    PROVE  /\ Elements(Code(c), h) \in Seq(Elem)
           /\ Spaced(Elements(Code(c), h))
           /\ h => StartsOK(Elements(Code(c), h))
<1> DEFINE k == Code(c)
           q == Elements(Code(c), h)
<1>1. /\ k \in Seq({"mark", "space"})
      /\ \A i \in 1 .. Len(k) - 1 : "space" \in {k[i], k[i + 1]}
  BY CwKeyerAssumption
<1>2. /\ Len(k) \in Nat /\ DOMAIN k = 1 .. Len(k)
      /\ \A i \in 1 .. Len(k) : k[i] \in {"mark", "space"}
  BY <1>1
<1>3. q = [i \in 1 .. Len(k) |-> [key |-> k[i], head |-> h /\ i = 1]]
  BY <1>2 DEF Elements, Element
<1>4. \A i \in 1 .. Len(k) : q[i].key = k[i] /\ q[i].head = (h /\ i = 1)
  BY <1>3
<1>5. \A i \in 1 .. Len(k) : (h /\ i = 1) \in BOOLEAN
  OBVIOUS
<1>6. q \in Seq(Elem) /\ Len(q) = Len(k)
  <2>1. \A i \in 1 .. Len(k) :
          [key |-> k[i], head |-> h /\ i = 1] \in [key : {"mark", "space"}, head : BOOLEAN]
    BY <1>2, <1>5
  <2>2. q \in [1 .. Len(k) -> Elem]
    BY <1>3, <2>1 DEF Elem, ElementType
  <2> HIDE DEF q, k
  <2> QED BY <1>2, <2>2
<1> HIDE DEF q, k
<1>7. Spaced(q)
  BY <1>1, <1>2, <1>4, <1>6 DEF Spaced, MayFollow
<1>8. h => StartsOK(q)
  <2> SUFFICES ASSUME h, q # <<>> PROVE MayFollow(q[1])
    BY DEF StartsOK
  <2>1. 1 \in 1 .. Len(k)
    BY <1>2, <1>6
  <2> QED BY <1>4, <2>1 DEF MayFollow
<1> QED BY <1>6, <1>7, <1>8 DEF q, k

\* The elements of a message begin a text.
LEMMA MessageFacts ==
    ASSUME NEW c \in Chars
    PROVE  /\ Elements(Code(c), TRUE) \in Seq(Elem)
           /\ Spaced(Elements(Code(c), TRUE))
           /\ StartsOK(Elements(Code(c), TRUE))
<1>1. \A h \in BOOLEAN : /\ Elements(Code(c), h) \in Seq(Elem)
                         /\ Spaced(Elements(Code(c), h))
                         /\ h => StartsOK(Elements(Code(c), h))
  BY CodeFacts
<1>2. TRUE \in BOOLEAN
  OBVIOUS
<1> QED BY <1>1, <1>2, Zenon

\* Taking an element keeps the spacing, and what follows a mark may follow it.
LEMMA SpacedTail ==
    ASSUME NEW q \in Seq(Elem), Spaced(q), q # <<>>
    PROVE  /\ Head(q) \in Elem /\ Tail(q) \in Seq(Elem)
           /\ Spaced(Tail(q))
           /\ Head(q).key = "mark" => StartsOK(Tail(q))
           /\ Head(q) = q[1]
<1>1. /\ Len(Tail(q)) = Len(q) - 1 /\ Len(q) \in Nat
      /\ \A i \in 1 .. Len(Tail(q)) : Tail(q)[i] = q[i + 1]
      /\ Head(q) = q[1] /\ Head(q) \in Elem /\ Tail(q) \in Seq(Elem)
  OBVIOUS
<1>2. Spaced(Tail(q))
  BY <1>1 DEF Spaced
<1>3. Head(q).key = "mark" => StartsOK(Tail(q))
  <2> SUFFICES ASSUME q[1].key = "mark", Tail(q) # <<>>
               PROVE  MayFollow(Tail(q)[1])
    BY <1>1 DEF StartsOK
  <2> DEFINE t == Tail(q)
  <2>0. t \in Seq(Elem) /\ t # <<>>
    BY <1>1
  <2> HIDE DEF t
  <2>2. Len(t) \in Nat /\ Len(t) # 0
    BY <2>0
  <2>1. 1 \in 1 .. Len(q) - 1 /\ Tail(q)[1] = q[2]
    BY <1>1, <2>2 DEF t
  <2> QED BY <2>1 DEF Spaced
<1> QED BY <1>1, <1>2, <1>3

\* Queueing a spaced sequence that may follow a mark keeps the spacing.
LEMMA SpacedConcat ==
    ASSUME NEW q \in Seq(Elem), Spaced(q), NEW r \in Seq(Elem), Spaced(r), StartsOK(r)
    PROVE  /\ q \o r \in Seq(Elem) /\ Spaced(q \o r)
           /\ StartsOK(q) => StartsOK(q \o r)
<1> DEFINE s == q \o r
<1>1. /\ Len(q) \in Nat /\ Len(r) \in Nat /\ Len(s) = Len(q) + Len(r)
      /\ s \in Seq(Elem)
      /\ \A i \in 1 .. Len(s) : s[i] = IF i <= Len(q) THEN q[i] ELSE r[i - Len(q)]
  OBVIOUS
<1>2. s # <<>> => Len(s) > 0
  BY <1>1
<1> HIDE DEF s
<1>3. Spaced(s)
  <2> SUFFICES ASSUME NEW i \in 1 .. Len(s) - 1
               PROVE  s[i].key = "space" \/ MayFollow(s[i + 1])
    BY DEF Spaced
  <2>1. CASE i < Len(q)
    <3>1. s[i] = q[i] /\ s[i + 1] = q[i + 1] /\ i \in 1 .. Len(q) - 1
      BY <1>1, <2>1
    <3> QED BY <3>1 DEF Spaced
  <2>2. CASE i = Len(q)
    <3>1. s[i + 1] = r[1] /\ r # <<>>
      BY <1>1, <2>2
    <3> QED BY <3>1 DEF StartsOK
  <2>3. CASE i > Len(q)
    <3> DEFINE j == i - Len(q)
    <3>1. j \in 1 .. Len(r) - 1 /\ s[i] = r[j] /\ s[i + 1] = r[j + 1]
      BY <1>1, <2>3
    <3> HIDE DEF j
    <3> QED BY <3>1 DEF Spaced
  <2> QED BY <1>1, <2>1, <2>2, <2>3
<1>4. StartsOK(q) => StartsOK(s)
  <2> SUFFICES ASSUME StartsOK(q), s # <<>> PROVE MayFollow(s[1])
    BY DEF StartsOK
  <2>1. CASE q = <<>>
    BY <1>1, <1>2, <2>1 DEF StartsOK
  <2>2. CASE q # <<>>
    <3>1. Len(q) > 0
      BY <2>2
    <3> QED BY <1>1, <2>2, <3>1 DEF StartsOK
  <2> QED BY <2>1, <2>2
<1> QED BY <1>1, <1>3, <1>4 DEF s

\* An empty queue is spaced.
LEMMA EmptyIsSpaced == <<>> \in Seq(Elem) /\ Spaced(<<>>) /\ StartsOK(<<>>)
BY DEF Spaced, StartsOK

-----------------------------------------------------------------------------
(* Typing.                                                                 *)

Text == Seq(Chars \cup {Blank})

\* Typing one more character and taking or erasing one leave a text.
LEMMA CharsOfText ==
    ASSUME NEW p \in Text
    PROVE  /\ \A c \in Chars \cup {Blank} : Append(p, c) \in Text
           /\ p # <<>> => /\ Head(p) \in Chars \cup {Blank} /\ Tail(p) \in Text
                          /\ Front(p) \in Text
BY DEF Text, Front

\* No step leaves the steps of the pump or the locals of a run.
LEMMA RunTyped ==
    ASSUME TypeOK, [Next]_vars
    PROVE  /\ pump' \in {"idle", "begin", "loop", "release", "drained", "element",
                         "hold", "bridge", "end", "keyUp", "teardown"}
           /\ run' \in [typeAhead : BOOLEAN, first : BOOLEAN, aborted : BOOLEAN,
                        e : Elem]
<1> USE DEF Elem
<1>1. CASE Begin
  <2>1. FreshRun \in [typeAhead : BOOLEAN, first : BOOLEAN, aborted : BOOLEAN,
                      e : Elem]
    BY DEF FreshRun, Element, ElementType
  <2>2. pump' = "begin" /\ run' = FreshRun
    BY <1>1, Zenon DEF Begin
  <2> QED BY <2>1, <2>2
<1>2. CASE Walk
  <2>1. UNCHANGED run \/ (queue # <<>> /\ run' = [run EXCEPT !.e = Head(queue)])
    BY <1>2 DEF Walk
  <2>2. queue # <<>> => Head(queue) \in Elem
    BY DEF TypeOK
  <2>3. run' \in [typeAhead : BOOLEAN, first : BOOLEAN, aborted : BOOLEAN, e : Elem]
    BY <2>1, <2>2 DEF TypeOK
  <2> QED BY <1>2, <2>3 DEF Walk
<1>3. CASE Drained
  <2>1. \/ UNCHANGED run
        \/ run' = [run EXCEPT !.typeAhead = TRUE]
        \/ run' = [run EXCEPT !.typeAhead = TRUE, !.first = FALSE]
    BY <1>3 DEF Drained, Commit
  <2>2. run' \in [typeAhead : BOOLEAN, first : BOOLEAN, aborted : BOOLEAN, e : Elem]
    BY <2>1 DEF TypeOK
  <2>3. pump' \in {"loop", "bridge", "end"}
    BY <1>3 DEF Drained, Commit
  <2> QED BY <2>2, <2>3
<1>4. CASE KeyUp
  <2>1. pump' = "keyUp" /\ run' = [run EXCEPT !.aborted = abort]
    BY <1>4 DEF KeyUp
  <2> QED BY <2>1 DEF TypeOK
<1>5. CASE PttOn \/ Key \/ Hold \/ Release \/ Bridge \/ PttOff \/ Teardown
  BY <1>5 DEF TypeOK, PttOn, Key, Hold, Release, Bridge, PttOff, Teardown
<1>6. CASE Main \/ UNCHANGED vars
  BY <1>6 DEF TypeOK, Main, Send, PushChar, BackspacePending, Abort, SetTxMode,
              SerialDown, SerialUp, HangExpires, vars
<1> QED BY <1>1, <1>2, <1>3, <1>4, <1>5, <1>6 DEF Next, Pump

\* What a typed character puts into the queue: its gap, then its elements; it
\* may be keyed behind a mark.
Typed(c) == Gap \o Elements(Code(c), run.first)

LEMMA TypedFacts ==
    ASSUME TypeOK, NEW c \in Chars
    PROVE  Typed(c) \in Seq(Elem) /\ Spaced(Typed(c)) /\ StartsOK(Typed(c))
<1> DEFINE q == Elements(Code(c), run.first)
           e == Element("space", FALSE)
           g == <<e>>
<1>1. run.first \in BOOLEAN
  BY DEF TypeOK
<1>2. q \in Seq(Elem) /\ Spaced(q) /\ (run.first => StartsOK(q))
  BY <1>1, CodeFacts
<1>3. e \in Elem /\ MayFollow(e) /\ e.key = "space"
  BY DEF Elem, ElementType, Element, MayFollow
<1> HIDE DEF q, e
<1>4. CASE run.first
  <2>1. Gap = <<>> /\ Typed(c) = <<>> \o q
    BY <1>4 DEF Gap, Typed, q
  <2>2. Typed(c) = q
    BY <1>2, <2>1
  <2> QED BY <1>2, <1>4, <2>2
<1>5. CASE ~run.first
  <2>1. Typed(c) = g \o q
    BY <1>5 DEF Gap, Typed, q, e
  <2> DEFINE s == g \o q
  <2>2. /\ Len(q) \in Nat /\ s \in Seq(Elem) /\ Len(s) = Len(q) + 1
        /\ s[1] = e
        /\ \A i \in 2 .. Len(s) : s[i] = q[i - 1]
    BY <1>2, <1>3
  <2> HIDE DEF s, g
  <2>3. Spaced(s)
    <3> SUFFICES ASSUME NEW i \in 1 .. Len(s) - 1
                 PROVE  s[i].key = "space" \/ MayFollow(s[i + 1])
      BY DEF Spaced
    <3>1. CASE i = 1
      BY <1>3, <2>2, <3>1
    <3>2. CASE i # 1
      <4>1. i - 1 \in 1 .. Len(q) - 1 /\ s[i] = q[i - 1] /\ s[i + 1] = q[(i - 1) + 1]
        BY <2>2, <3>2
      <4> QED BY <1>2, <4>1 DEF Spaced
    <3> QED BY <3>1, <3>2
  <2>4. StartsOK(s)
    BY <1>3, <2>2 DEF StartsOK
  <2> QED BY <2>1, <2>2, <2>3, <2>4 DEF s
<1> QED BY <1>4, <1>5

\* Queueing it is appending Typed(c).
LEMMA QueuesTyped ==
    ASSUME TypeOK, NEW c \in Chars
    PROVE  queue \o Gap \o Elements(Code(c), run.first) = queue \o Typed(c)
<1> DEFINE q == Elements(Code(c), run.first)
<1>1. run.first \in BOOLEAN /\ queue \in Seq(Elem)
  BY DEF TypeOK, Elem
<1>2. q \in Seq(Elem)
  BY <1>1, CodeFacts
<1>3. Gap \in Seq(Elem)
  <2> DEFINE e == Element("space", FALSE)
  <2>1. e \in Elem
    BY DEF Elem, ElementType, Element
  <2> HIDE DEF e
  <2>2. <<>> \in Seq(Elem) /\ <<e>> \in Seq(Elem)
    BY <2>1
  <2> QED BY <2>2, Zenon DEF Gap, e
<1> HIDE DEF q
<1>4. (queue \o Gap) \o q = queue \o (Gap \o q)
  BY <1>1, <1>2, <1>3
<1> QED BY <1>4 DEF Typed, q

\* No step queues anything but elements.
LEMMA QueueTyped ==
    ASSUME TypeOK, [Next]_vars PROVE queue' \in Seq(Elem)
<1>0. queue \in Seq(Elem) /\ <<>> \in Seq(Elem)
  BY DEF TypeOK, Elem
<1>1. ASSUME NEW c \in Chars, Send(Code(c)) PROVE queue' \in Seq(Elem)
  <2> DEFINE r == Elements(Code(c), TRUE)
  <2>1. queue' = queue \o r
    BY <1>1, Zenon DEF Send
  <2>2. r \in Seq(Elem)
    BY MessageFacts
  <2> HIDE DEF r
  <2> QED BY <1>0, <2>1, <2>2
<1>2. CASE Walk
  <2>1. UNCHANGED queue \/ (queue # <<>> /\ queue' = Tail(queue))
    BY <1>2 DEF Walk
  <2> QED BY <1>0, <2>1
<1>3. CASE Drained /\ ~abort /\ pending # <<>> /\ Head(pending) # Blank
  <2> DEFINE c == Head(pending)
  <2>1. queue' = queue \o Gap \o Elements(Code(c), run.first)
    BY <1>3, Zenon DEF Drained, Commit
  <2>2. c \in Chars
    BY <1>3, CharsOfText DEF TypeOK, Text
  <2> HIDE DEF c
  <2>3. queue' = queue \o Typed(c) /\ Typed(c) \in Seq(Elem)
    BY <2>1, <2>2, QueuesTyped, TypedFacts
  <2> QED BY <1>0, <2>3
<1>4. CASE Drained /\ ~(~abort /\ pending # <<>> /\ Head(pending) # Blank)
  BY <1>0, <1>4 DEF Drained, Commit
<1>5. CASE Abort \/ Teardown
  <2>1. queue' \in {queue, <<>>}
    BY <1>5, Zenon DEF Abort, Teardown
  <2> QED BY <1>0, <2>1
<1>6. \/ UNCHANGED queue \/ Walk \/ Drained \/ Abort \/ Teardown
      \/ \E c \in Chars : Send(Code(c))
  BY DEF Next, Pump, Main, Begin, PttOn, Key, Hold, Release, Bridge, KeyUp,
         PttOff, PushChar, BackspacePending, SetTxMode, SerialDown, SerialUp,
         HangExpires, vars
<1> QED BY <1>0, <1>1, <1>2, <1>3, <1>4, <1>5, <1>6

\* No step leaves the type-ahead texts.
LEMMA TextTyped ==
    ASSUME TypeOK, [Next]_vars
    PROVE  pending' \in Text /\ committed' \in BOOLEAN /\ shown' \in BOOLEAN \X Text
<1>1. pending \in Text /\ committed \in BOOLEAN /\ shown \in BOOLEAN \X Text
  BY DEF TypeOK, Text
<1>2. <<>> \in Text
  BY DEF Text
<1>3. pending' \in Text
  <2>1. \/ UNCHANGED pending \/ pending' = <<>>
        \/ pending # <<>> /\ pending' \in {Tail(pending), Front(pending)}
        \/ \E c \in Chars \cup {Blank} : pending' = Append(pending, c)
    BY DEF Next, Pump, Main, Begin, PttOn, Walk, Key, Hold, Release, Drained,
           Commit, Bridge, KeyUp, PttOff, Teardown, Send, PushChar,
           BackspacePending, Abort, SetTxMode, SerialDown, SerialUp,
           HangExpires, vars, texts
  <2> QED BY <1>1, <1>2, <2>1, CharsOfText
<1>4. committed' \in {committed, TRUE, FALSE}
  BY DEF Next, Pump, Main, Begin, PttOn, Walk, Key, Hold, Release, Drained,
         Commit, Bridge, KeyUp, PttOff, Teardown, Send, PushChar,
         BackspacePending, Abort, SetTxMode, SerialDown, SerialUp,
         HangExpires, vars, texts
<1>5. UNCHANGED shown \/ shown' = <<committed', pending'>>
  BY DEF Next, Pump, Main, Begin, PttOn, Walk, Key, Hold, Release, Drained,
         Commit, Bridge, KeyUp, PttOff, Teardown, Send, PushChar, EmitText,
         BackspacePending, Abort, SetTxMode, SerialDown, SerialUp,
         HangExpires, vars, texts
<1>6. committed' \in BOOLEAN
  BY <1>1, <1>4
<1> QED BY <1>1, <1>3, <1>5, <1>6

\* The wire, the straight key and the flags.
LEMMA WireTyped ==
    ASSUME TypeOK, [Next]_vars
    PROVE  /\ abort' \in BOOLEAN /\ cw' \in BOOLEAN /\ spaced' \in BOOLEAN
           /\ serial' \in [active : BOOLEAN, hang : BOOLEAN]
           /\ cwx' \in BOOLEAN /\ cwxPtt' \in BOOLEAN
<1>1. CASE Pump
  <2>1. UNCHANGED <<cw, serial>> /\ abort' \in {abort, FALSE}
    BY <1>1 DEF Pump, Begin, PttOn, Walk, Key, Hold, Release, Drained,
                Bridge, KeyUp, PttOff, Teardown
  <2>2. /\ cwx' \in {cwx, FALSE, run.e.key = "mark"} /\ cwxPtt' \in {cwxPtt, TRUE, FALSE}
        /\ spaced' \in {spaced, TRUE, run.e.key = "space"}
    BY <1>1 DEF Pump, Begin, PttOn, Walk, Key, Hold, Release, Drained,
                Bridge, KeyUp, PttOff, Teardown, line
  <2>3. (run.e.key = "mark") \in BOOLEAN /\ (run.e.key = "space") \in BOOLEAN
    OBVIOUS
  <2> HIDE DEF Pump
  <2> QED BY <2>1, <2>2, <2>3, Zenon DEF TypeOK
<1>2. CASE SerialDown
  <2>1. \/ serial' = [active |-> TRUE, hang |-> FALSE]
        \/ serial' = [serial EXCEPT !.active = TRUE]
    BY <1>2, Zenon DEF SerialDown
  <2>2. serial \in [active : BOOLEAN, hang : BOOLEAN]
    BY DEF TypeOK
  <2>4. serial' \in [active : BOOLEAN, hang : BOOLEAN]
    <3>1. CASE serial' = [active |-> TRUE, hang |-> FALSE]
      BY <3>1
    <3>2. CASE serial' = [serial EXCEPT !.active = TRUE]
      BY <2>2, <3>2
    <3> QED BY <2>1, <3>1, <3>2
  <2>3. /\ UNCHANGED <<abort, cw, spaced>>
        /\ cwx' \in {cwx, TRUE} /\ cwxPtt' \in {cwxPtt, TRUE}
    BY <1>2, Zenon DEF SerialDown, line
  <2> QED BY <2>3, <2>4 DEF TypeOK
<1>3. CASE SerialUp
  <2>1. (cw /\ cwxPtt) \in BOOLEAN
    OBVIOUS
  <2>2. /\ UNCHANGED <<abort, cw, spaced>> /\ cwx' = FALSE
        /\ cwxPtt' \in BOOLEAN /\ serial' = [active |-> FALSE, hang |-> cw]
    BY <1>3, <2>1, Zenon DEF SerialUp
  <2> QED BY <2>2 DEF TypeOK
<1>4. CASE HangExpires
  <2>1. /\ UNCHANGED <<abort, cw, spaced, cwx>> /\ cwxPtt' = FALSE
        /\ serial' = [serial EXCEPT !.hang = FALSE]
    BY <1>4, Zenon DEF HangExpires
  <2> QED BY <2>1 DEF TypeOK
<1>5. CASE SetTxMode
  <2>1. (~cw) \in BOOLEAN
    OBVIOUS
  <2> QED BY <1>5, <2>1, Zenon DEF SetTxMode, TypeOK, line
<1>6. CASE Abort
  BY <1>6 DEF Abort, TypeOK, line
<1>7. CASE \/ \E c \in Chars : Send(Code(c))
           \/ \E c \in Chars \cup {Blank} : PushChar(c)
           \/ BackspacePending \/ UNCHANGED vars
  BY <1>7 DEF Send, PushChar, BackspacePending, vars, TypeOK, line
<1> QED BY <1>1, <1>2, <1>3, <1>4, <1>5, <1>6, <1>7 DEF Next, Main

\* Type correctness of both threads' state.
THEOREM CwKeyerTyped == Spec => []TypeOK
<1>1. ASSUME Init PROVE TypeOK
  <2>1. run \in [typeAhead : BOOLEAN, first : BOOLEAN, aborted : BOOLEAN, e : Elem]
    BY <1>1 DEF Init, FreshRun, Element, ElementType, Elem
  <2>2. <<>> \in Seq(Elem) /\ <<>> \in Text
    BY DEF Text
  <2>3. <<FALSE, <<>>>> \in BOOLEAN \X Text
    BY <2>2
  <2>4. serial \in [active : BOOLEAN, hang : BOOLEAN]
    BY <1>1 DEF Init
  <2> QED BY <1>1, <2>1, <2>2, <2>3, <2>4, Zenon DEF Init, TypeOK, Text, Elem
<1>2. TypeOK /\ [Next]_vars => TypeOK'
  BY RunTyped, QueueTyped, TextTyped, WireTyped DEF TypeOK, Text, Elem
<1> QED BY <1>1, <1>2, PTL DEF Spec

-----------------------------------------------------------------------------
(* Silence.                                                                *)

\* What each point of the keyer's thread knows of the two bits while the
\* straight key is up and, for PTT, its hang time is over.
KeyIsUp ==
    pump \in {"idle", "begin", "drained", "bridge", "keyUp", "teardown"}
        /\ ~serial.active => ~cwx

PttIsUp ==
    pump \in {"idle", "begin", "teardown"}
        /\ ~serial.active /\ ~serial.hang => ~cwxPtt

SilenceInv == KeyIsUp /\ PttIsUp

\* Every step of the keyer keeps SilenceInv.
LEMMA SilenceKept == TypeOK /\ SilenceInv /\ [Next]_vars => SilenceInv'
<1> SUFFICES ASSUME TypeOK, SilenceInv, [Next]_vars PROVE SilenceInv'
  OBVIOUS
<1> USE DEF SilenceInv, KeyIsUp, PttIsUp
<1>1. CASE \/ Begin \/ PttOn \/ Walk \/ Key \/ Hold \/ Release \/ Bridge
           \/ KeyUp \/ PttOff \/ Teardown
  BY <1>1 DEF Begin, PttOn, Walk, Key, Hold, Release, Bridge, KeyUp, PttOff,
              Teardown, line
<1>2. CASE Drained
  BY <1>2 DEF Drained, Commit, line
<1>3. CASE \/ \E c \in Chars : Send(Code(c))
           \/ \E c \in Chars \cup {Blank} : PushChar(c)
           \/ BackspacePending \/ Abort \/ SetTxMode
  <2>1. UNCHANGED <<pump, serial, line>>
    BY <1>3, Zenon DEF Send, PushChar, BackspacePending, Abort, SetTxMode
  <2> QED BY <2>1 DEF line
<1>4. CASE SerialDown
  <2>1. serial'.active
    BY <1>4 DEF SerialDown, TypeOK
  <2> QED BY <2>1
<1>5. CASE SerialUp
  BY <1>5 DEF SerialUp, TypeOK
<1>6. CASE HangExpires
  BY <1>6 DEF HangExpires, TypeOK
<1>7. CASE UNCHANGED vars
  BY <1>7 DEF vars, line
<1> QED BY <1>1, <1>2, <1>3, <1>4, <1>5, <1>6, <1>7 DEF Next, Pump, Main

\* So SilenceInv always holds.
LEMMA Silence == Spec => []SilenceInv
<1>1. Init => SilenceInv
  BY DEF Init, SilenceInv, KeyIsUp, PttIsUp
<1> QED BY <1>1, SilenceKept, CwKeyerTyped, PTL DEF Spec

\* With the keyer at rest and the straight key up neither bit is on the wire,
\* whatever messages, aborts, mode changes and the two keys did before.
THEOREM AlwaysSilentAtRest == Spec => []SilentAtRest
<1>1. SilenceInv => SilentAtRest
  BY DEF SilenceInv, KeyIsUp, PttIsUp, SilentAtRest
<1> QED BY <1>1, Silence, PTL

\* The wait for the next keystroke is silent too.
THEOREM AlwaysWaitsSilently == Spec => []WaitsSilently
<1>1. SilenceInv => WaitsSilently
  BY DEF SilenceInv, KeyIsUp, WaitsSilently
<1> QED BY <1>1, Silence, PTL

-----------------------------------------------------------------------------
(* Spacing.                                                                *)

\* Between two elements the queue may be keyed behind the last one; a mark
\* about to be keyed may be, and the queue behind it.
SpacingInv ==
    /\ Spaced(queue)
    /\ pump # "element" /\ ~spaced => StartsOK(queue)
    /\ pump = "element" /\ run.e.key = "mark" =>
         (spaced \/ run.e.head) /\ StartsOK(queue)

\* Emptying the queue, and queueing what may follow a mark, keep it.
LEMMA SpacingQueued ==
    ASSUME TypeOK, SpacingInv, UNCHANGED <<pump, run, spaced>>,
           \/ queue' = <<>>
           \/ \E r \in Seq(Elem) : Spaced(r) /\ StartsOK(r) /\ queue' = queue \o r
    PROVE  SpacingInv'
<1>1. CASE queue' = <<>>
  BY <1>1, EmptyIsSpaced DEF SpacingInv
<1>2. CASE \E r \in Seq(Elem) : Spaced(r) /\ StartsOK(r) /\ queue' = queue \o r
  <2>1. PICK r \in Seq(Elem) : Spaced(r) /\ StartsOK(r) /\ queue' = queue \o r
    BY <1>2
  <2>2. queue \in Seq(Elem) /\ Spaced(queue)
    BY DEF TypeOK, Elem, SpacingInv
  <2>3. Spaced(queue') /\ (StartsOK(queue) => StartsOK(queue'))
    BY <2>1, <2>2, SpacedConcat
  <2> QED BY <2>3 DEF SpacingInv
<1> QED BY <1>1, <1>2

\* The walk takes the head of the queue.
LEMMA WalkSpacing ==
    ASSUME TypeOK, SpacingInv, Walk PROVE SpacingInv'
<1>0. pump = "loop" /\ UNCHANGED spaced
  BY DEF Walk
<1>1. CASE abort \/ queue = <<>>
  <2>1. pump' \in {"end", "release"} /\ UNCHANGED queue
    BY <1>1 DEF Walk
  <2> QED BY <1>0, <2>1 DEF SpacingInv
<1>2. CASE ~abort /\ queue # <<>>
  <2>1. /\ pump' = "element" /\ queue' = Tail(queue)
        /\ run' = [run EXCEPT !.e = Head(queue)]
    BY <1>2, Zenon DEF Walk
  <2>2. run'.e = Head(queue)
    BY <2>1 DEF TypeOK
  <2>3. /\ Spaced(queue') /\ Head(queue) = queue[1]
        /\ Head(queue).key = "mark" => StartsOK(queue')
    BY <1>2, <2>1, SpacedTail DEF TypeOK, SpacingInv, Elem
  <2>4. Head(queue).key = "mark" => spaced \/ Head(queue).head
    BY <1>0, <1>2, <2>3 DEF SpacingInv, StartsOK, MayFollow
  <2> QED BY <1>0, <2>1, <2>2, <2>3, <2>4 DEF SpacingInv
<1> QED BY <1>1, <1>2

\* A typed character brings its gap with it, or begins the typed text.
LEMMA DrainedSpacing ==
    ASSUME TypeOK, SpacingInv, Drained PROVE SpacingInv'
<1>0. /\ pump = "drained" /\ UNCHANGED spaced
      /\ queue \in Seq(Elem) /\ Spaced(queue) /\ (~spaced => StartsOK(queue))
  BY DEF Drained, SpacingInv, TypeOK, Elem
<1>1. CASE UNCHANGED queue
  <2>1. pump' \in {"bridge", "end", "loop"}
    BY DEF Drained, Commit
  <2> QED BY <1>0, <1>1, <2>1 DEF SpacingInv
<1>2. CASE ~UNCHANGED queue
  <2> DEFINE c == Head(pending)
  <2>1. /\ pending # <<>> /\ c # Blank /\ pump' = "loop"
        /\ queue' = queue \o Gap \o Elements(Code(c), run.first)
    BY <1>2, Zenon DEF Drained, Commit
  <2>2. c \in Chars
    BY <2>1, CharsOfText DEF TypeOK, Text
  <2> HIDE DEF c
  <2>3. queue' = queue \o Typed(c)
    BY <2>1, <2>2, QueuesTyped
  <2>4. Typed(c) \in Seq(Elem) /\ Spaced(Typed(c)) /\ StartsOK(Typed(c))
    BY <2>2, TypedFacts
  <2>5. Spaced(queue') /\ (~spaced => StartsOK(queue'))
    BY <1>0, <2>3, <2>4, SpacedConcat
  <2> QED BY <1>0, <2>1, <2>5 DEF SpacingInv
<1> QED BY <1>1, <1>2

\* Two marks meet without a space only where a text begins behind another,
\* for every interleaving of messages, typing, erasing and aborts.
THEOREM MarksAlwaysSpaced == Spec => []MarksAreSpaced
<1>1. Init => SpacingInv
  BY EmptyIsSpaced DEF Init, SpacingInv
<1>2. TypeOK /\ SpacingInv /\ [Next]_vars => SpacingInv'
  <2> SUFFICES ASSUME TypeOK, SpacingInv, [Next]_vars PROVE SpacingInv'
    OBVIOUS
  <2>1. CASE Begin
    <3>1. pump' = "begin" /\ spaced' = TRUE /\ UNCHANGED queue
      BY <2>1, Zenon DEF Begin
    <3> QED BY <3>1 DEF SpacingInv
  <2>2. CASE Walk
    BY <2>2, WalkSpacing
  <2>3. CASE Key
    <3>1. /\ pump = "element" /\ pump' = "hold" /\ spaced' = (run.e.key = "space")
          /\ UNCHANGED queue
      BY <2>3, Zenon DEF Key
    <3>2. ~spaced' => run.e.key = "mark"
      BY <3>1 DEF TypeOK, ElementType
    <3> QED BY <3>1, <3>2 DEF SpacingInv
  <2>4. CASE PttOn \/ Hold \/ Release \/ Bridge \/ KeyUp \/ PttOff
    <3>1. pump # "element" /\ pump' # "element" /\ UNCHANGED <<queue, spaced>>
      BY <2>4 DEF PttOn, Hold, Release, Bridge, KeyUp, PttOff
    <3> QED BY <3>1 DEF SpacingInv
  <2>5. CASE Drained
    BY <2>5, DrainedSpacing
  <2>6. CASE Teardown
    <3>1. /\ pump = "teardown" /\ pump' = "idle" /\ queue' \in {queue, <<>>}
          /\ UNCHANGED spaced
      BY <2>6, Zenon DEF Teardown
    <3> QED BY <3>1, EmptyIsSpaced DEF SpacingInv
  <2>7. ASSUME NEW c \in Chars, Send(Code(c)) PROVE SpacingInv'
    <3> DEFINE r == Elements(Code(c), TRUE)
    <3>1. queue' = queue \o r /\ UNCHANGED <<pump, run, spaced>>
      BY <2>7, Zenon DEF Send
    <3>2. r \in Seq(Elem) /\ Spaced(r) /\ StartsOK(r)
      BY MessageFacts
    <3> HIDE DEF r
    <3> QED BY <3>1, <3>2, SpacingQueued
  <2>8. CASE Abort
    <3>1. queue' = <<>> /\ UNCHANGED <<pump, run, spaced>>
      BY <2>8, Zenon DEF Abort
    <3> QED BY <3>1, SpacingQueued
  <2>9. CASE \/ \E c \in Chars \cup {Blank} : PushChar(c)
             \/ BackspacePending \/ SetTxMode \/ SerialDown \/ SerialUp
             \/ HangExpires \/ UNCHANGED vars
    <3>1. UNCHANGED <<pump, run, queue, spaced>>
      BY <2>9 DEF PushChar, BackspacePending, SetTxMode, SerialDown, SerialUp,
                  HangExpires, vars
    <3> QED BY <3>1 DEF SpacingInv
  <2> QED BY <2>1, <2>2, <2>3, <2>4, <2>5, <2>6, <2>7, <2>8, <2>9
          DEF Next, Pump, Main
<1>3. SpacingInv => MarksAreSpaced
  BY DEF SpacingInv, MarksAreSpaced
<1> QED BY <1>1, <1>2, <1>3, CwKeyerTyped, PTL DEF Spec
=============================================================================
