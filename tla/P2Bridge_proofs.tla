-------------------------- MODULE P2Bridge_proofs --------------------------
(***************************************************************************)
(* Proofs about the Protocol 2 bridge, for queues of every length and any  *)
(* number of deferred restarts: the bridge may decide on a copy that is    *)
(* old by any number of signals, and be heard after any number of calls.   *)
(*                                                                         *)
(* The session is P2Port, so nothing here looks into P2Session.            *)
(***************************************************************************)
EXTENDS P2Bridge, TLAPS

-----------------------------------------------------------------------------
(* What a queue of signals will have told once it is delivered.            *)

Silent(q, kinds) == \A i \in 1 .. Len(q) : q[i].kind \notin kinds

\* The last signal of these kinds is m.
Told(q, kinds, m) ==
    /\ m.kind \in kinds
    /\ \E i \in 1 .. Len(q) :
         /\ q[i] = m
         /\ \A j \in 1 .. Len(q) : j > i => q[j].kind \notin kinds

\* A message of these kinds put last is the one that is told last.
LEMMA AppendTells ==
    ASSUME NEW S, NEW q \in Seq(S), NEW m \in S, NEW kinds, m.kind \in kinds
    PROVE  Told(Append(q, m), kinds, m)
BY DEF Told

\* A message of other kinds put last changes nothing that is told.
LEMMA AppendKeeps ==
    ASSUME NEW S, NEW q \in Seq(S), NEW x \in S, NEW kinds, x.kind \notin kinds
    PROVE  /\ Silent(q, kinds) => Silent(Append(q, x), kinds)
           /\ \A m : Told(q, kinds, m) => Told(Append(q, x), kinds, m)
BY DEF Told, Silent

\* The second of two sequences is told last, if it says anything.
LEMMA ConcatTells ==
    ASSUME NEW S, NEW a \in Seq(S), NEW b \in Seq(S), NEW kinds
    PROVE  /\ \A m : Told(b, kinds, m) => Told(a \o b, kinds, m)
           /\ Silent(b, kinds) => \A m : Told(a, kinds, m) => Told(a \o b, kinds, m)
           /\ Silent(a, kinds) /\ Silent(b, kinds) => Silent(a \o b, kinds)
<1>0. /\ a \o b \in Seq(S) /\ Len(a \o b) = Len(a) + Len(b)
      /\ \A i \in 1 .. Len(a) : (a \o b)[i] = a[i]
      /\ \A i \in 1 .. Len(b) : (a \o b)[Len(a) + i] = b[i]
      /\ Len(a) \in Nat /\ Len(b) \in Nat
      /\ \A i \in 1 .. Len(a) + Len(b) : i > Len(a) => i - Len(a) \in 1 .. Len(b)
  OBVIOUS
<1>1. \A i \in 1 .. Len(a \o b) :
        (a \o b)[i] = IF i <= Len(a) THEN a[i] ELSE b[i - Len(a)]
  BY <1>0
<1>2. ASSUME NEW m, Told(b, kinds, m) PROVE Told(a \o b, kinds, m)
  <2>1. PICK i \in 1 .. Len(b) :
          b[i] = m /\ \A j \in 1 .. Len(b) : j > i => b[j].kind \notin kinds
    BY <1>2 DEF Told
  <2>2. Len(a) + i \in 1 .. Len(a \o b) /\ (a \o b)[Len(a) + i] = m
    BY <1>0, <2>1
  <2>3. ASSUME NEW j \in 1 .. Len(a \o b), j > Len(a) + i
        PROVE  (a \o b)[j].kind \notin kinds
    <3>1. j - Len(a) \in 1 .. Len(b) /\ j - Len(a) > i /\ (a \o b)[j] = b[j - Len(a)]
      BY <1>0, <1>1, <2>3
    <3> QED BY <2>1, <3>1
  <2> QED BY <1>2, <2>2, <2>3 DEF Told
<1>3. ASSUME Silent(b, kinds), NEW m, Told(a, kinds, m) PROVE Told(a \o b, kinds, m)
  <2>1. PICK i \in 1 .. Len(a) :
          a[i] = m /\ \A j \in 1 .. Len(a) : j > i => a[j].kind \notin kinds
    BY <1>3 DEF Told
  <2>2. i \in 1 .. Len(a \o b) /\ (a \o b)[i] = m
    BY <1>0, <2>1
  <2>3. ASSUME NEW j \in 1 .. Len(a \o b), j > i PROVE (a \o b)[j].kind \notin kinds
    <3>1. CASE j <= Len(a)
      BY <1>1, <2>1, <2>3, <3>1
    <3>2. CASE j > Len(a)
      BY <1>0, <1>1, <1>3, <3>2 DEF Silent
    <3> QED BY <1>0, <3>1, <3>2
  <2> QED BY <1>3, <2>2, <2>3 DEF Told
<1>4. ASSUME Silent(a, kinds), Silent(b, kinds) PROVE Silent(a \o b, kinds)
  BY <1>0, <1>1, <1>4 DEF Silent
<1> QED BY <1>2, <1>3, <1>4

\* Taking the head leaves what is told last, unless the head was it.
LEMMA TailTells ==
    ASSUME NEW S, NEW q \in Seq(S), q # <<>>, NEW kinds
    PROVE  /\ Silent(q, kinds) => Silent(Tail(q), kinds) /\ Head(q).kind \notin kinds
           /\ \A m : Told(q, kinds, m) =>
                Told(Tail(q), kinds, m) \/ (Silent(Tail(q), kinds) /\ Head(q) = m)
<1>0. /\ Len(q) \in Nat \ {0} /\ Head(q) = q[1] /\ Len(Tail(q)) = Len(q) - 1
      /\ \A i \in 1 .. Len(q) - 1 : Tail(q)[i] = q[i + 1]
  OBVIOUS
<1>1. ASSUME Silent(q, kinds)
      PROVE  Silent(Tail(q), kinds) /\ Head(q).kind \notin kinds
  BY <1>0, <1>1 DEF Silent
<1>2. ASSUME NEW m, Told(q, kinds, m)
      PROVE  Told(Tail(q), kinds, m) \/ (Silent(Tail(q), kinds) /\ Head(q) = m)
  <2>1. PICK i \in 1 .. Len(q) :
          q[i] = m /\ \A j \in 1 .. Len(q) : j > i => q[j].kind \notin kinds
    BY <1>2 DEF Told
  <2>2. CASE i = 1
    BY <1>0, <2>1, <2>2 DEF Silent
  <2>3. CASE i > 1
    <3>1. i - 1 \in 1 .. Len(Tail(q)) /\ Tail(q)[i - 1] = m
      BY <1>0, <2>1, <2>3
    <3>2. \A j \in 1 .. Len(Tail(q)) : j > i - 1 => Tail(q)[j].kind \notin kinds
      BY <1>0, <2>1
    <3> QED BY <1>2, <3>1, <3>2 DEF Told
  <2> QED BY <2>2, <2>3
<1> QED BY <1>1, <1>2

-----------------------------------------------------------------------------
(* The session.  s is where a step starts, with nothing said yet; t is how *)
(* far the step has come.                                                  *)

Runs == {"started", "stopped"}
States == {"state"}

\* A session in the middle of a step may hold one deferred restart too many.
Wide == [open : BOOLEAN, running : BOOLEAN, fresh : BOOLEAN, intent : BOOLEAN,
         armed : BOOLEAN, fault : BOOLEAN, stage : Stage, due : Nat,
         onAir : BOOLEAN, signals : Seq(Signal)]

\* What a listener with these copies knows once he has heard q.
KnowsRun(q, copy, t) ==
    \/ Silent(q, Runs) /\ copy = t.running
    \/ \E m \in Signal : Told(q, Runs, m) /\ (m.kind = "started") = t.running

Reported(q, t) ==
    \E m \in Signal : Told(q, States, m) /\ m.armed = t.armed /\ m.fault = t.fault

KnowsState(q, armed, fault, t) ==
    \/ Silent(q, States) /\ armed = t.armed /\ fault = t.fault
    \/ Reported(q, t)

\* What every step keeps, in the middle too: nothing opens a session or raises
\* the intent, and nobody is misled about running.
Sound(s, t) ==
    /\ t \in Wide
    /\ t.running => t.open
    /\ t.open => s.open
    /\ t.intent => s.intent
    /\ KnowsRun(t.signals, s.running, t)

\* And nobody who heard the session out is misled about armed and fault.
Honest(s, t) == Sound(s, t) /\ KnowsState(t.signals, s.armed, s.fault, t)

\* Reporting the state appends one signal with the port's armed and fault flags.
LEMMA StateIs ==
    ASSUME NEW t \in Wide
    PROVE  \E ready \in BOOLEAN :
             LET m == [kind |-> "state", ready |-> ready, armed |-> t.armed,
                       fault |-> t.fault]
             IN m \in Signal /\ State(t) = [t EXCEPT !.signals = Append(@, m)]
<1> DEFINE ready == t.stage = "live" /\ ~t.fault
           m == [kind |-> "state", ready |-> ready, armed |-> t.armed,
                 fault |-> t.fault]
<1>1. ready \in BOOLEAN
  OBVIOUS
<1>2. State(t) = [t EXCEPT !.signals = Append(@, m)]
  BY Zenon DEF State, Emit
<1> HIDE DEF ready
<1>3. m \in Signal
  BY <1>1 DEF Signal, Wide
<1> QED BY <1>1, <1>2, <1>3

\* A step that ends in txStateChanged is honest whatever it did before.
LEMMA StateHonest ==
    ASSUME NEW s, NEW t, Sound(s, t)
    PROVE  /\ Honest(s, State(t)) /\ Reported(State(t).signals, State(t))
           /\ State(t).open = t.open /\ State(t).intent = t.intent
           /\ State(t).stage = t.stage
<1>0. t \in Wide /\ t.signals \in Seq(Signal)
  BY DEF Sound, Wide
<1>1. PICK ready \in BOOLEAN :
        LET m == [kind |-> "state", ready |-> ready, armed |-> t.armed,
                  fault |-> t.fault]
        IN m \in Signal /\ State(t) = [t EXCEPT !.signals = Append(@, m)]
  BY <1>0, StateIs
<1> DEFINE m == [kind |-> "state", ready |-> ready, armed |-> t.armed,
                 fault |-> t.fault]
           u == State(t)
<1>2. m \in Signal /\ u = [t EXCEPT !.signals = Append(@, m)]
  BY <1>1
<1>3. m.kind = "state" /\ m.armed = t.armed /\ m.fault = t.fault
  OBVIOUS
<1> HIDE DEF m, u
<1>4. Append(t.signals, m) \in Seq(Signal)
  BY <1>0, <1>2
<1>5. /\ u \in Wide /\ u.signals = Append(t.signals, m)
      /\ u.running = t.running /\ u.open = t.open /\ u.intent = t.intent
      /\ u.armed = t.armed /\ u.fault = t.fault /\ u.stage = t.stage
  BY <1>0, <1>2, <1>4 DEF Wide
<1>6. Told(u.signals, States, m)
  BY <1>0, <1>2, <1>3, <1>5, AppendTells DEF States
<1>7. KnowsRun(u.signals, s.running, u)
  <2>1. "state" \notin Runs
    BY DEF Runs
  <2>2. /\ Silent(t.signals, Runs) => Silent(u.signals, Runs)
        /\ \A x : Told(t.signals, Runs, x) => Told(u.signals, Runs, x)
    BY <1>0, <1>2, <1>3, <1>5, <2>1, AppendKeeps
  <2>3. KnowsRun(t.signals, s.running, t)
    BY DEF Sound
  <2> QED BY <1>5, <2>2, <2>3 DEF KnowsRun
<1>8. Reported(u.signals, u)
  BY <1>2, <1>3, <1>5, <1>6 DEF Reported
<1> QED BY <1>5, <1>7, <1>8 DEF Sound, Honest, KnowsState, u

\* Fields no signal is about.
LEMMA QuietSound ==
    ASSUME NEW s, NEW t, Sound(s, t), NEW u \in Wide,
           u.signals = t.signals, u.running = t.running, u.open = t.open,
           u.intent => t.intent
    PROVE  /\ Sound(s, u)
           /\ u.armed = t.armed /\ u.fault = t.fault /\ Honest(s, t) => Honest(s, u)
BY DEF Sound, Honest, KnowsRun, KnowsState, Reported

\* Latching a fault reports it.
LEMMA LatchHonest ==
    ASSUME NEW s, NEW t, Sound(s, t) PROVE Honest(s, Latch(t))
<1> DEFINE u == [t EXCEPT !.stage = "off", !.intent = FALSE, !.fault = TRUE]
<1>1. t \in Wide
  BY DEF Sound
<1>2. /\ u \in Wide /\ u.signals = t.signals /\ u.running = t.running
      /\ u.open = t.open /\ u.intent = FALSE
  BY <1>1 DEF Wide, Stage
<1> HIDE DEF u
<1>3. Sound(s, u)
  BY <1>2, QuietSound
<1> QED BY <1>3, StateHonest DEF Latch, u

\* A cadence fault reports what it latches.
LEMMA CadenceHonest ==
    ASSUME NEW s, NEW t, Sound(s, t)
    PROVE  /\ Sound(s, CadenceFault(t))
           /\ Honest(s, t) => Honest(s, CadenceFault(t))
<1> DEFINE u == [t EXCEPT !.stage = "off", !.due = @ + 1]
<1>1. t \in Wide
  BY DEF Sound
<1>2. /\ u \in Wide /\ u.signals = t.signals /\ u.running = t.running
      /\ u.open = t.open /\ u.intent = t.intent
      /\ u.armed = t.armed /\ u.fault = t.fault
  <2>1. "off" \in Stage /\ t.due + 1 \in Nat
    BY <1>1 DEF Wide, Stage
  <2> QED BY <1>1, <2>1 DEF Wide
<1> HIDE DEF u
<1>3. Sound(s, u) /\ (Honest(s, t) => Honest(s, u))
  BY <1>2, QuietSound
<1>4. Honest(s, Latch(t)) /\ Sound(s, Latch(t))
  BY LatchHonest DEF Honest
<1>5. CadenceFault(t) \in {t, u, Latch(t)}
  BY DEF CadenceFault, u
<1> QED BY <1>3, <1>4, <1>5

\* A start that does nothing says nothing.
LEMMA StartHonest ==
    ASSUME NEW s, NEW t, Sound(s, t), NEW v \in Start(t)
    PROVE  Sound(s, v) /\ (v = t \/ Honest(s, v))
<1> DEFINE u == [State(t) EXCEPT !.stage = "priming"]
<1>1. Honest(s, State(t)) /\ State(t) \in Wide
  BY StateHonest DEF Honest, Sound
<1>2. /\ u \in Wide /\ u.signals = State(t).signals /\ u.running = State(t).running
      /\ u.open = State(t).open /\ u.intent = State(t).intent
      /\ u.armed = State(t).armed /\ u.fault = State(t).fault
  BY <1>1 DEF Wide, Stage
<1> HIDE DEF u
<1>3. Honest(s, u)
  BY <1>1, <1>2, QuietSound DEF Honest
<1>4. Honest(s, Latch(CadenceFault(State(t))))
  BY <1>1, CadenceHonest, LatchHonest DEF Honest
<1>5. v \in {t, State(t), Latch(CadenceFault(State(t))), u, State(u)}
  BY DEF Start, u
<1>6. Honest(s, State(u))
  BY <1>3, StateHonest DEF Honest
<1> QED BY <1>1, <1>3, <1>4, <1>5, <1>6 DEF Honest

\* The prime target met, missed or still awaited is reported.
LEMMA PrimeTickHonest ==
    ASSUME NEW s, NEW t, Sound(s, t), NEW v \in PrimeTick(t) PROVE Honest(s, v)
<1> DEFINE u == [t EXCEPT !.stage = "live"]
<1>1. t \in Wide
  BY DEF Sound
<1>2. /\ u \in Wide /\ u.signals = t.signals /\ u.running = t.running
      /\ u.open = t.open /\ u.intent = t.intent
  BY <1>1 DEF Wide, Stage
<1> HIDE DEF u
<1>3. Honest(s, State(u))
  BY <1>2, QuietSound, StateHonest
<1>4. Honest(s, Latch(t)) /\ Honest(s, Latch(CadenceFault(t)))
  BY LatchHonest, CadenceHonest
<1>5. v \in {State(t), State(u), Latch(t), Latch(CadenceFault(t))}
  BY DEF PrimeTick, u
<1>6. Honest(s, State(t))
  BY StateHonest
<1> QED BY <1>3, <1>4, <1>5, <1>6

\* A restart clears the fault and says so last, whatever its start says before.
LEMMA RestartHonest ==
    ASSUME NEW s, NEW t, Honest(s, t), NEW v \in Restart(t) PROVE Honest(s, v)
<1> DEFINE r == [t EXCEPT !.due = @ - 1]
           c == [r EXCEPT !.stage = "off", !.fault = FALSE]
<1>1. t \in Wide /\ t.due # 0 /\ Sound(s, t)
  BY DEF Honest, Sound, Restart
<1>2. /\ r \in Wide /\ r.signals = t.signals /\ r.running = t.running
      /\ r.open = t.open /\ r.intent = t.intent
      /\ r.armed = t.armed /\ r.fault = t.fault
  BY <1>1 DEF Wide
<1>3. v = r \/ \E u \in Start(c) : v = State(u)
  BY DEF Restart
<1> HIDE DEF r
<1>4. /\ c \in Wide /\ c.signals = r.signals /\ c.running = r.running
      /\ c.open = r.open /\ c.intent = r.intent
  BY <1>2 DEF Wide, Stage
<1> HIDE DEF c
<1>5. Honest(s, r)
  BY <1>1, <1>2, QuietSound
<1>6. Sound(s, c)
  BY <1>4, <1>5, QuietSound DEF Honest
<1> QED BY <1>3, <1>5, <1>6, StartHonest, StateHonest

\* A status packet reports whatever it changes.
LEMMA AnswerHonest ==
    ASSUME NEW s, NEW t, Honest(s, t), NEW v \in Answer(t) PROVE Honest(s, v)
<1> DEFINE r == [t EXCEPT !.fresh = TRUE, !.running = TRUE]
           m == [kind |-> "started"]
           e == Emit(r, m)
           up == IF t.running THEN {r} ELSE Start(e)
<1>1. t \in Wide /\ t.open /\ s.open
  BY DEF Honest, Sound, Answer
<1>2. v \in up \/ \E u \in up : v = Latch(u)
  BY <1>1 DEF Answer
<1>3. /\ r \in Wide /\ r.signals = t.signals /\ r.running = TRUE
      /\ r.open = t.open /\ r.intent = t.intent
      /\ r.armed = t.armed /\ r.fault = t.fault
  BY <1>1 DEF Wide
<1>4. e = [r EXCEPT !.signals = Append(@, m)]
  BY DEF Emit
<1>5. m \in Signal /\ m.kind = "started"
  BY DEF Signal
<1>6. CASE t.running
  <2>1. t.running = TRUE
    BY <1>1, <1>6 DEF Wide
  <2>2. Honest(s, r)
    BY <1>3, <2>1, QuietSound DEF Honest
  <2>3. v = r \/ v = Latch(r)
    BY <1>2, <1>6
  <2> QED BY <2>2, <2>3, LatchHonest DEF Honest
<1>7. CASE ~t.running
  <2>1. v \in Start(e) \/ \E u \in Start(e) : v = Latch(u)
    BY <1>2, <1>7
  <2> HIDE DEF r, m, e
  <2>2. r.signals \in Seq(Signal) /\ Append(r.signals, m) \in Seq(Signal)
    BY <1>3, <1>5 DEF Wide
  <2>3. /\ e \in Wide /\ e.signals = Append(r.signals, m) /\ e.running = TRUE
        /\ e.open = t.open /\ e.intent = t.intent
        /\ e.armed = t.armed /\ e.fault = t.fault
    BY <1>3, <1>4, <2>2 DEF Wide
  <2>4. Told(e.signals, Runs, m)
    BY <1>5, <2>2, <2>3, AppendTells DEF Runs
  <2>5. KnowsRun(e.signals, s.running, e)
    <3>1. (m.kind = "started") = e.running
      BY <1>5, <2>3
    <3> QED BY <1>5, <2>4, <3>1 DEF KnowsRun
  <2>6. Sound(s, e)
    BY <1>1, <2>3, <2>5 DEF Sound, Honest
  <2>7. KnowsState(e.signals, s.armed, s.fault, e)
    <3>1. m.kind \notin States
      BY <1>5 DEF States
    <3>2. /\ Silent(t.signals, States) => Silent(e.signals, States)
          /\ \A x : Told(t.signals, States, x) => Told(e.signals, States, x)
      BY <1>3, <1>5, <2>2, <2>3, <3>1, AppendKeeps
    <3>3. KnowsState(t.signals, s.armed, s.fault, t)
      BY DEF Honest
    <3> QED BY <2>3, <3>2, <3>3 DEF KnowsState, Reported
  <2> QED BY <2>1, <2>6, <2>7, StartHonest, LatchHonest DEF Honest
<1> QED BY <1>6, <1>7

\* No event of the session misleads its listener, opens it or keys it.
LEMMA EventsHonest ==
    ASSUME NEW s, NEW t, Honest(s, t), NEW v \in Events(t) PROVE Honest(s, v)
<1>1. Sound(s, t) /\ t \in Wide
  BY DEF Honest, Sound
<1>2. ASSUME v \in Age(t) PROVE Honest(s, v)
  <2> DEFINE u == [t EXCEPT !.fresh = FALSE]
  <2>1. v = u
    BY <1>2 DEF Age
  <2>2. /\ u \in Wide /\ u.signals = t.signals /\ u.running = t.running
        /\ u.open = t.open /\ u.intent = t.intent
        /\ u.armed = t.armed /\ u.fault = t.fault
    BY <1>1 DEF Wide
  <2> HIDE DEF u
  <2> QED BY <1>1, <2>1, <2>2, QuietSound
<1>3. ASSUME v \in Silence(t) \union StreamFails(t) PROVE Honest(s, v)
  <2>1. v \in {Latch(t), CadenceFault(t)}
    BY <1>3 DEF Silence, StreamFails
  <2> QED BY <1>1, <2>1, LatchHonest, CadenceHonest
<1> QED BY <1>1, <1>2, <1>3, PrimeTickHonest, RestartHonest, AnswerHonest DEF Events

-----------------------------------------------------------------------------
(* The session's work for a posted call.                                   *)

\* A reset or a parameter that no signal is about.
LEMMA IntentHonest ==
    ASSUME NEW s, NEW on \in BOOLEAN, Honest(s, s)
    PROVE  LET t == SetIntent(s, on) IN
           /\ t \in Wide /\ (t.running => t.open) /\ (t.open => s.open)
           /\ KnowsRun(t.signals, s.running, t) /\ Reported(t.signals, t)
           /\ ~on => ~t.intent
<1> DEFINE d == IF ~on /\ s.fault THEN s.due + 1 ELSE s.due
           u == [s EXCEPT !.intent = on, !.due = IF ~on /\ s.fault THEN @ + 1 ELSE @]
           z == [s EXCEPT !.intent = TRUE]
<1>1. s \in Wide /\ Sound(s, s)
  BY DEF Honest, Sound
<1>2. d \in Nat
  BY <1>1 DEF Wide
<1>3. u = [s EXCEPT !.intent = on, !.due = d]
  OBVIOUS
<1> HIDE DEF d
<1>4. /\ u \in Wide /\ u.signals = s.signals /\ u.running = s.running
      /\ u.open = s.open /\ u.intent = on
  BY <1>1, <1>2, <1>3 DEF Wide
<1>5. /\ z \in Wide /\ z.signals = s.signals /\ z.running = s.running
      /\ z.open = s.open /\ z.intent = TRUE
  BY <1>1 DEF Wide
<1>6. /\ SetIntent(s, on) \in {Latch(s), State(u)}
      /\ ~on => SetIntent(s, on) = State(u)
  BY DEF SetIntent
<1> HIDE DEF u, z
<1>7. Sound(z, u)
  BY <1>1, <1>4, <1>5 DEF Sound, KnowsRun
<1>8. Honest(z, State(u)) /\ Reported(State(u).signals, State(u)) /\ State(u).intent = on
  BY <1>4, <1>7, StateHonest
<1>9. Honest(s, Latch(s)) /\ Reported(Latch(s).signals, Latch(s))
  <2> DEFINE c == [s EXCEPT !.stage = "off", !.intent = FALSE, !.fault = TRUE]
  <2>1. /\ c \in Wide /\ c.signals = s.signals /\ c.running = s.running
        /\ c.open = s.open /\ c.intent = FALSE
    BY <1>1 DEF Wide, Stage
  <2>2. Latch(s) = State(c)
    BY DEF Latch
  <2> HIDE DEF c
  <2>3. Sound(s, c)
    BY <1>1, <2>1, QuietSound
  <2> QED BY <2>2, <2>3, StateHonest
<1> QED BY <1>5, <1>6, <1>8, <1>9 DEF Honest, Sound

\* Arming and disarming are reported, and disarming leaves no intent.
LEMMA ArmHonest ==
    ASSUME NEW s, NEW on \in BOOLEAN, Honest(s, s)
    PROVE  LET t == SetArmed(s, on) IN
           /\ Honest(s, t) /\ Reported(t.signals, t) /\ (~on => ~t.intent)
<1> DEFINE i == on /\ s.intent
           u == [s EXCEPT !.armed = on, !.intent = on /\ @]
<1>1. s \in Wide /\ Sound(s, s)
  BY DEF Honest, Sound
<1>2. i \in BOOLEAN /\ (i => s.intent) /\ (~on => ~i)
  BY <1>1 DEF Wide
<1>3. u = [s EXCEPT !.armed = on, !.intent = i]
  BY Zenon
<1> HIDE DEF i
<1>4. /\ u \in Wide /\ u.signals = s.signals /\ u.running = s.running
      /\ u.open = s.open /\ u.intent = i
  BY <1>1, <1>2, <1>3 DEF Wide
<1>5. SetArmed(s, on) = State(u)
  BY DEF SetArmed
<1> HIDE DEF u
<1>6. Sound(s, u)
  BY <1>1, <1>2, <1>4, QuietSound
<1> QED BY <1>2, <1>4, <1>5, <1>6, StateHonest

\* A rate change needs no report.
LEMMA RateHonest ==
    ASSUME NEW s, Honest(s, s) PROVE Honest(s, RateChange(s))
<1> DEFINE u == [s EXCEPT !.due = @ + 1]
<1>1. s \in Wide /\ Sound(s, s)
  BY DEF Honest, Sound
<1>2. /\ u \in Wide /\ u.signals = s.signals /\ u.running = s.running
      /\ u.open = s.open /\ u.intent = s.intent
      /\ u.armed = s.armed /\ u.fault = s.fault
  <2>1. s.due + 1 \in Nat
    BY <1>1 DEF Wide
  <2> QED BY <1>1, <2>1 DEF Wide
<1> HIDE DEF u
<1> QED BY <1>1, <1>2, QuietSound DEF RateChange, u

\* A closed port has no intent, no arming and no fault.
LEMMA ClosedIs ==
    ASSUME NEW s, Sound(s, s)
    PROVE  /\ Sound(s, Closed(s)) /\ ~Closed(s).intent /\ ~Closed(s).armed
           /\ ~Closed(s).fault
<1>1. s \in Wide
  BY DEF Sound
<1>2. LET u == Closed(s) IN
      /\ u \in Wide /\ u.signals = s.signals /\ u.running = s.running
      /\ u.open = s.open /\ u.intent = FALSE /\ u.armed = FALSE /\ u.fault = FALSE
  BY <1>1 DEF Closed, Wide, Stage
<1> QED BY <1>2, QuietSound

\* A close leaves a session that is shut, and tells everybody that it stopped.
LEMMA CloseHonest ==
    ASSUME NEW s, Honest(s, s)
    PROVE  Sound(s, Close(s)) /\ ~Close(s).open
<1> DEFINE c == State(Closed(s))
           u == [c EXCEPT !.open = FALSE, !.running = FALSE]
           m == [kind |-> "stopped"]
           e == Emit(u, m)
<1>1. s \in Wide /\ Sound(s, s)
  BY DEF Honest, Sound
<1>2. CASE ~s.open
  BY <1>1, <1>2 DEF Close
<1>3. CASE s.open
  <2>1. c \in Wide /\ Honest(s, c) /\ ~c.intent
    BY <1>1, ClosedIs, StateHonest DEF Honest, Sound
  <2>2. Close(s) = e
    BY <1>3 DEF Close
  <2> HIDE DEF c
  <2>3. /\ u \in Wide /\ u.signals = c.signals /\ u.running = FALSE
        /\ u.open = FALSE /\ u.intent = c.intent
    BY <2>1 DEF Wide
  <2>4. m \in Signal /\ m.kind = "stopped" /\ e = [u EXCEPT !.signals = Append(@, m)]
    BY DEF Signal, Emit
  <2> HIDE DEF u, m, e
  <2>5. u.signals \in Seq(Signal) /\ Append(u.signals, m) \in Seq(Signal)
    BY <2>3, <2>4 DEF Wide
  <2>6. /\ e \in Wide /\ e.signals = Append(u.signals, m) /\ e.running = FALSE
        /\ e.open = FALSE /\ e.intent = c.intent
    BY <2>3, <2>4, <2>5 DEF Wide
  <2>7. KnowsRun(e.signals, s.running, e)
    <3>1. Told(e.signals, Runs, m) /\ (m.kind = "started") = e.running
      BY <2>4, <2>5, <2>6, AppendTells DEF Runs
    <3> QED BY <2>4, <3>1 DEF KnowsRun
  <2> QED BY <2>1, <2>2, <2>6, <2>7 DEF Sound
<1> QED BY <1>1, <1>2, <1>3 DEF Wide

\* An open that succeeds reports a session at rest; one that fails leaves none.
LEMMA OpenHonest ==
    ASSUME NEW s, Honest(s, s), NEW t \in Open(s)
    PROVE  /\ t \in Wide /\ (t.running => t.open)
           /\ KnowsRun(t.signals, s.running, t)
           /\ t.open => ~t.intent /\ Reported(t.signals, t)
<1> DEFINE c == Close(s)
           k == Closed(c)
           u == [k EXCEPT !.open = TRUE, !.running = FALSE, !.fresh = FALSE]
           z == [s EXCEPT !.open = TRUE]
<1>1. Sound(s, c) /\ ~c.open /\ c \in Wide /\ ~c.running
  BY CloseHonest DEF Sound
<1>2. t = c \/ t = State(u)
  BY DEF Open
<1>3. s \in Wide
  BY DEF Honest, Sound
<1>4. /\ k \in Wide /\ k.signals = c.signals /\ k.intent = FALSE
  BY <1>1 DEF Closed, Wide, Stage
<1> HIDE DEF c, k
<1>5. /\ u \in Wide /\ u.signals = c.signals /\ u.running = FALSE /\ u.open = TRUE
      /\ u.intent = FALSE
  BY <1>4 DEF Wide
<1>6. z \in Wide /\ z.open = TRUE /\ z.running = s.running
  BY <1>3 DEF Wide
<1> HIDE DEF u, z
<1>7. Sound(z, u)
  <2>1. c.running = FALSE
    BY <1>1 DEF Wide
  <2> QED BY <1>1, <1>5, <1>6, <2>1 DEF Sound, KnowsRun
<1>8. /\ Honest(z, State(u)) /\ Reported(State(u).signals, State(u))
      /\ State(u).intent = FALSE
  BY <1>5, <1>7, StateHonest
<1> QED BY <1>1, <1>2, <1>6, <1>8 DEF Sound, Honest

-----------------------------------------------------------------------------
(* The queue of posted calls.                                              *)

Raises(c) == c.call = "intent" /\ c.on

\* A call behind the k-th ends the transmission.
EndsAfter(q, k) == \E j \in 1 .. Len(q) : j > k /\ q[j] \in TakesOff

\* No call that raises the intent has the last word.
Ends(q) == \A i \in 1 .. Len(q) : Raises(q[i]) => EndsAfter(q, i)

\* A close is posted by a main thread that waits for it, and posts no more.
CloseIsLast(q, waiting) ==
    /\ \A i \in 1 .. Len(q) : q[i].call = "close" => i = Len(q) /\ waiting # "no"
    /\ waiting # "no" => q # <<>> /\ q[Len(q)].call = "close"

OnlyArms(q) == \A i \in 1 .. Len(q) : q[i].call = "arm"

\* Nothing is posted that changes what the copies are copies of.
Settled(q) == \A i \in 1 .. Len(q) : q[i].call \in {"intent", "rate"}

\* The commands that take the radio off the air raise nothing.
LEMMA TakesOffFacts ==
    /\ TakesOff \subseteq Command
    /\ \A c \in TakesOff : /\ ~Raises(c)
                           /\ c.call = "arm" => ~c.on
                           /\ c.call \in {"intent", "arm", "close"}
BY DEF TakesOff, Command, Raises

\* What posting a command to the session thread keeps of its queue.
LEMMA PostFacts ==
    ASSUME NEW q \in Seq(Command), NEW c \in Command
    PROVE  LET p == Append(q, c) IN
           /\ p \in Seq(Command)
           /\ ~Raises(c) /\ Ends(q) => Ends(p)
           /\ EndsAfter(q, 0) => EndsAfter(p, 0)
           /\ c \in TakesOff => Ends(p) /\ EndsAfter(p, 0)
           /\ CloseIsLast(q, "no") /\ c.call # "close" => CloseIsLast(p, "no")
           /\ \A w : CloseIsLast(q, "no") /\ c.call = "close" /\ w # "no"
                        => CloseIsLast(p, w)
           /\ Settled(p) => Settled(q) /\ c.call \in {"intent", "rate"}
           /\ OnlyArms(q) /\ c.call = "arm" => OnlyArms(p)
<1> DEFINE p == Append(q, c)
<1>1. /\ p \in Seq(Command) /\ Len(p) = Len(q) + 1 /\ p[Len(p)] = c /\ Len(q) \in Nat
      /\ \A i \in 1 .. Len(q) : p[i] = q[i]
  OBVIOUS
<1> HIDE DEF p
<1>2. \A i \in 1 .. Len(p) : i \in 1 .. Len(q) \/ (i = Len(p) /\ p[i] = c)
  BY <1>1
<1>3. ASSUME NEW k \in Nat, EndsAfter(q, k) PROVE EndsAfter(p, k)
  BY <1>1, <1>3 DEF EndsAfter
<1>4. ~Raises(c) /\ Ends(q) => Ends(p)
  BY <1>1, <1>2, <1>3 DEF Ends
<1>5. ASSUME c \in TakesOff PROVE Ends(p) /\ EndsAfter(p, 0)
  <2>1. ~Raises(c)
    BY <1>5, TakesOffFacts
  <2> QED BY <1>1, <1>2, <1>5, <2>1 DEF Ends, EndsAfter
<1>6. CloseIsLast(q, "no") =>
        /\ c.call # "close" => CloseIsLast(p, "no")
        /\ \A w : c.call = "close" /\ w # "no" => CloseIsLast(p, w)
  BY <1>1, <1>2 DEF CloseIsLast
<1>7. /\ Settled(p) => Settled(q) /\ c.call \in {"intent", "rate"}
      /\ OnlyArms(q) /\ c.call = "arm" => OnlyArms(p)
  BY <1>1, <1>2 DEF Settled, OnlyArms
<1> QED BY <1>1, <1>3, <1>4, <1>5, <1>6, <1>7 DEF p

\* What taking the oldest command leaves of the queue.
LEMMA ServeFacts ==
    ASSUME NEW q \in Seq(Command), q # <<>>
    PROVE  LET p == Tail(q)
               c == Head(q)
           IN
           /\ p \in Seq(Command) /\ c \in Command
           /\ Ends(q) => Ends(p) /\ (Raises(c) => EndsAfter(p, 0))
           /\ EndsAfter(q, 0) => EndsAfter(p, 0) \/ c \in TakesOff
           /\ \A w : CloseIsLast(q, w) =>
                /\ c.call = "close" => p = <<>> /\ w # "no"
                /\ c.call # "close" => CloseIsLast(p, w)
           /\ Settled(p) /\ c.call \in {"intent", "rate"} => Settled(q)
           /\ OnlyArms(q) => OnlyArms(p) /\ c.call = "arm"
<1> DEFINE p == Tail(q)
           c == Head(q)
<1>1. /\ p \in Seq(Command) /\ c \in Command /\ Len(q) \in Nat \ {0}
      /\ Len(p) = Len(q) - 1 /\ c = q[1]
      /\ \A i \in 1 .. Len(q) - 1 : p[i] = q[i + 1]
  OBVIOUS
<1> HIDE DEF p, c
<1>2. ASSUME NEW k \in Nat, EndsAfter(q, k + 1) PROVE EndsAfter(p, k)
  <2>1. PICK j \in 1 .. Len(q) : j > k + 1 /\ q[j] \in TakesOff
    BY <1>2 DEF EndsAfter
  <2>2. j - 1 \in 1 .. Len(p) /\ j - 1 > k /\ p[j - 1] = q[j]
    BY <1>1, <2>1
  <2> QED BY <2>1, <2>2 DEF EndsAfter
<1>3. ASSUME Ends(q) PROVE Ends(p)
  <2>1. ASSUME NEW i \in 1 .. Len(p), Raises(p[i]) PROVE EndsAfter(p, i)
    <3>1. i + 1 \in 1 .. Len(q) /\ q[i + 1] = p[i] /\ i \in Nat
      BY <1>1
    <3>2. EndsAfter(q, i + 1)
      BY <1>3, <2>1, <3>1 DEF Ends
    <3> QED BY <1>2, <3>1, <3>2
  <2> QED BY <2>1 DEF Ends
<1>4. Ends(q) /\ Raises(c) => EndsAfter(p, 0)
  <2>1. Ends(q) /\ Raises(c) => EndsAfter(q, 0 + 1)
    BY <1>1 DEF Ends
  <2> QED BY <1>2, <2>1
<1>5. EndsAfter(q, 0) => EndsAfter(p, 0) \/ c \in TakesOff
  <2>1. EndsAfter(q, 0) => EndsAfter(q, 0 + 1) \/ c \in TakesOff
    BY <1>1 DEF EndsAfter
  <2> QED BY <1>2, <2>1
<1>6. ASSUME NEW w, CloseIsLast(q, w)
      PROVE  /\ c.call = "close" => p = <<>> /\ w # "no"
             /\ c.call # "close" => CloseIsLast(p, w)
  <2>1. ASSUME c.call = "close" PROVE p = <<>> /\ w # "no"
    <3>1. Len(q) = 1 /\ w # "no"
      BY <1>1, <1>6, <2>1 DEF CloseIsLast
    <3> QED BY <1>1, <3>1
  <2>2. ASSUME c.call # "close" PROVE CloseIsLast(p, w)
    <3>1. \A i \in 1 .. Len(p) : p[i].call = "close" => i = Len(p) /\ w # "no"
      BY <1>1, <1>6 DEF CloseIsLast
    <3>2. w # "no" => p # <<>> /\ p[Len(p)].call = "close"
      BY <1>1, <1>6, <2>2 DEF CloseIsLast
    <3> QED BY <3>1, <3>2 DEF CloseIsLast
  <2> QED BY <2>1, <2>2
<1>7. /\ Settled(p) /\ c.call \in {"intent", "rate"} => Settled(q)
      /\ OnlyArms(q) => OnlyArms(p) /\ c.call = "arm"
  <2>1. \A i \in 1 .. Len(q) : i = 1 \/ (i - 1 \in 1 .. Len(p) /\ p[i - 1] = q[i])
    BY <1>1
  <2>2. \A i \in 1 .. Len(p) : i + 1 \in 1 .. Len(q) /\ p[i] = q[i + 1]
    BY <1>1
  <2> QED BY <1>1, <2>1, <2>2 DEF Settled, OnlyArms
<1> QED BY <1>1, <1>3, <1>4, <1>5, <1>6, <1>7 DEF p, c

-----------------------------------------------------------------------------
(* The inductive invariant.                                                *)

\* Between two steps a session has nothing left to say, and its last packet
\* authorised transmit only if its gate is still open.
AtRest ==
    /\ port.signals = <<>>
    /\ port.running => port.open
    /\ port.onAir => Authorised(port)

\* A bridge that is shut has left its session, and posts at most an arm call,
\* for a copy that a late signal brought back.
Shut ==
    ~bridge.open =>
        /\ ~port.open /\ ~bridge.running /\ ~bridge.supported
        /\ OnlyArms(commands)

\* Only an open bridge closes, and whoever waits has posted the close.
Waiting ==
    /\ CloseIsLast(commands, bridge.waiting)
    /\ bridge.waiting # "no" => bridge.open

\* Off the air the end of the transmission is on its way behind every call
\* that raises the intent, and behind the intent itself.
EndIsComing ==
    ~active => /\ Ends(commands)
               /\ port.open /\ port.intent => EndsAfter(commands, 0)

\* The copies, with what the inbox will make of them.
RunKnown == KnowsRun(inbox, bridge.running, port)
StateKnown ==
    bridge.open /\ port.open /\ Settled(commands)
        => KnowsState(inbox, bridge.armed, bridge.fault, port)

BridgeInv ==
    /\ BridgeTypeOK /\ AtRest /\ Shut /\ Waiting
    /\ EndIsComing /\ RunKnown /\ StateKnown

\* Nothing is told, and nothing asked, by an empty queue.
LEMMA EmptyQueue ==
    /\ Silent(<<>>, Runs) /\ Silent(<<>>, States)
    /\ Ends(<<>>) /\ OnlyArms(<<>>) /\ CloseIsLast(<<>>, "no")
    /\ <<>> \in Seq(Signal) /\ <<>> \in Seq(Command)
BY DEF Silent, Ends, OnlyArms, CloseIsLast

\* The session between two steps is where an honest step may start.
LEMMA RestHonest ==
    ASSUME BridgeInv PROVE Honest(port, port)
<1>1. /\ port \in Wide /\ (port.running => port.open) /\ port.signals = <<>>
      /\ port.running \in BOOLEAN /\ port.armed \in BOOLEAN /\ port.fault \in BOOLEAN
  BY DueAssumption DEF BridgeInv, BridgeTypeOK, AtRest, Port, Wide
<1> QED BY <1>1, EmptyQueue DEF Honest, Sound, KnowsRun, KnowsState

-----------------------------------------------------------------------------
(* The operator's actions.  The session and its signals stay as they are.  *)

\* The call a host edge posts is an intent, and a key up takes the radio off.
LEMMA SyncIs ==
    ASSUME NEW on \in BOOLEAN
    PROVE  /\ SyncCall(on) \in Command /\ SyncCall(on).call = "intent"
           /\ ~on => SyncCall(on) \in TakesOff
<1> DEFINE x == on /\ bridge.supported
<1>1. x \in BOOLEAN /\ (~on => x = FALSE)
  OBVIOUS
<1>2. SyncCall(on) = [call |-> "intent", on |-> x]
  BY Zenon DEF SyncCall
<1> HIDE DEF x
<1> DEFINE c == [call |-> "intent", on |-> x]
<1>3. c \in Command /\ c.call = "intent"
  BY <1>1 DEF Command
<1>4. ~on => c \in TakesOff
  BY <1>1 DEF TakesOff
<1> HIDE DEF c
<1>5. SyncCall(on) = c
  BY <1>2 DEF c
<1> QED BY <1>3, <1>4, <1>5

\* A call on its way leaves what is known and what is coming as it was.
LEMMA PostKeeps ==
    ASSUME BridgeInv, UNCHANGED <<port, active, inbox>>, requested' \in BOOLEAN,
           NEW c \in Command, Post(c), c.call # "close", Raises(c) => active,
           bridge' \in BridgeState, bridge'.open, bridge.open,
           bridge.waiting = "no", bridge'.waiting = "no",
           bridge'.running = bridge.running,
           \/ c.call = "arm"
           \/ bridge'.armed = bridge.armed /\ bridge'.fault = bridge.fault
    PROVE  BridgeInv'
<1>1. commands \in Seq(Command) /\ commands' = Append(commands, c)
  BY DEF BridgeInv, BridgeTypeOK, Post
<1>2. /\ commands' \in Seq(Command)
      /\ ~Raises(c) /\ Ends(commands) => Ends(commands')
      /\ EndsAfter(commands, 0) => EndsAfter(commands', 0)
      /\ CloseIsLast(commands, "no") => CloseIsLast(commands', "no")
      /\ Settled(commands') => Settled(commands) /\ c.call \in {"intent", "rate"}
  BY <1>1, PostFacts
<1>3. BridgeTypeOK'
  BY <1>2 DEF BridgeInv, BridgeTypeOK
<1>4. AtRest' /\ Shut' /\ Waiting'
  BY <1>2 DEF BridgeInv, AtRest, Authorised, Shut, Waiting
<1>5. EndIsComing'
  BY <1>2 DEF BridgeInv, EndIsComing
<1>6. RunKnown' /\ StateKnown'
  BY <1>2 DEF BridgeInv, RunKnown, StateKnown
<1> QED BY <1>3, <1>4, <1>5, <1>6 DEF BridgeInv

\* A press or a release of the key keeps the invariant.
LEMMA KeyKeeps ==
    ASSUME BridgeInv, NEW on \in BOOLEAN, Key(on) PROVE BridgeInv'
<1>1. /\ requested' = (on /\ (bridge.open => Keyable(bridge)))
      /\ UNCHANGED <<port, active, bridge, commands, inbox>>
  BY DEF Key, Host!Request
<1>2. requested' \in BOOLEAN
  BY <1>1
<1>3. BridgeTypeOK'
  BY <1>1, <1>2 DEF BridgeInv, BridgeTypeOK
<1> QED BY <1>1, <1>3
        DEF BridgeInv, AtRest, Authorised, Shut, Waiting, EndIsComing, RunKnown, StateKnown

\* The host's MOX edge keeps it.
LEMMA HostEdgeKeeps ==
    ASSUME BridgeInv, NEW on \in BOOLEAN, HostEdge(on) PROVE BridgeInv'
<1> DEFINE c == SyncCall(on)
<1>1. /\ bridge.waiting = "no" /\ UNCHANGED <<port, bridge, inbox, requested>>
      /\ active' = on /\ Sync(on)
  BY DEF HostEdge, Host!OnAir, Host!OffAir
<1>2. c \in Command /\ c.call = "intent" /\ (~on => c \in TakesOff)
  BY SyncIs
<1>3. commands \in Seq(Command) /\ CloseIsLast(commands, "no")
  BY <1>1 DEF BridgeInv, BridgeTypeOK, Waiting
<1>4. CASE bridge.open
  <2>1. commands' = Append(commands, c)
    BY <1>1, <1>4 DEF Sync, Post
  <2> HIDE DEF c
  <2>2. /\ commands' \in Seq(Command) /\ CloseIsLast(commands', "no")
        /\ ~on => Ends(commands') /\ EndsAfter(commands', 0)
        /\ Settled(commands') => Settled(commands)
    BY <1>2, <1>3, <2>1, PostFacts
  <2>3. BridgeTypeOK'
    BY <1>1, <2>2 DEF BridgeInv, BridgeTypeOK
  <2> QED BY <1>1, <1>4, <2>2, <2>3
          DEF BridgeInv, AtRest, Authorised, Shut, Waiting, EndIsComing, RunKnown,
              StateKnown
<1>5. CASE ~bridge.open
  <2>1. UNCHANGED commands
    BY <1>1, <1>5 DEF Sync
  <2>2. BridgeTypeOK'
    BY <1>1, <2>1 DEF BridgeInv, BridgeTypeOK
  <2>3. Ends(commands) /\ ~port.open
    BY <1>5 DEF BridgeInv, Shut, OnlyArms, Ends, Raises
  <2> QED BY <1>1, <2>1, <2>2, <2>3
          DEF BridgeInv, AtRest, Authorised, Shut, Waiting, EndIsComing, RunKnown,
              StateKnown
<1> QED BY <1>4, <1>5

\* A drive change keeps it.
LEMMA DriveChangeKeeps == ASSUME BridgeInv, DriveChange PROVE BridgeInv'
<1>1. /\ bridge.waiting = "no" /\ bridge.open /\ active /\ Post(SyncCall(TRUE))
      /\ UNCHANGED <<port, active, bridge, inbox, requested>>
  BY DEF DriveChange, Operator, hostVars
<1>2. SyncCall(TRUE) \in Command /\ SyncCall(TRUE).call = "intent"
  BY SyncIs
<1> QED BY <1>1, <1>2, PostKeeps DEF BridgeInv, BridgeTypeOK

\* A rate change keeps it.
LEMMA SampleRateKeeps == ASSUME BridgeInv, SampleRate PROVE BridgeInv'
<1> DEFINE c == [call |-> "rate"]
<1>1. /\ bridge.waiting = "no" /\ bridge.running /\ Post(c)
      /\ UNCHANGED <<port, active, bridge, inbox, requested>>
  BY DEF SampleRate, Operator, hostVars
<1>2. c \in Command /\ c.call = "rate" /\ bridge.open
  BY <1>1 DEF Command, BridgeInv, Shut
<1> HIDE DEF c
<1> QED BY <1>1, <1>2, PostKeeps DEF BridgeInv, BridgeTypeOK, Raises

\* An arm call, also one of a bridge that is shut.
LEMMA ArmKeeps ==
    ASSUME BridgeInv, NEW on \in BOOLEAN, Post([call |-> "arm", on |-> on]),
           UNCHANGED <<port, active, inbox>>, requested' \in BOOLEAN,
           bridge' \in BridgeState, bridge.waiting = "no",
           bridge'.open = bridge.open, bridge'.waiting = bridge.waiting,
           bridge'.running = bridge.running, bridge'.supported = bridge.supported
    PROVE  BridgeInv'
<1> DEFINE c == [call |-> "arm", on |-> on]
<1>1. c \in Command /\ c.call = "arm" /\ Post(c)
  BY DEF Command
<1> HIDE DEF c
<1>2. CASE bridge.open
  BY <1>1, <1>2, PostKeeps DEF Raises
<1>3. CASE ~bridge.open
  <2>1. commands \in Seq(Command) /\ commands' = Append(commands, c) /\ ~Raises(c)
    BY <1>1 DEF BridgeInv, BridgeTypeOK, Post, Raises
  <2>2. /\ commands' \in Seq(Command)
        /\ Ends(commands) => Ends(commands')
        /\ CloseIsLast(commands, "no") => CloseIsLast(commands', "no")
        /\ OnlyArms(commands) => OnlyArms(commands')
    BY <1>1, <2>1, PostFacts
  <2>3. BridgeTypeOK'
    BY <2>2 DEF BridgeInv, BridgeTypeOK
  <2> QED BY <1>3, <2>2, <2>3
          DEF BridgeInv, AtRest, Authorised, Shut, Waiting, EndIsComing, RunKnown,
              StateKnown
<1> QED BY <1>2, <1>3 DEF BridgeInv, BridgeTypeOK, BridgeState

\* Arming from the bench panel keeps it.
LEMMA BenchArmKeeps ==
    ASSUME BridgeInv, NEW on \in BOOLEAN, BenchArm(on) PROVE BridgeInv'
<1>1. /\ bridge.waiting = "no" /\ Post([call |-> "arm", on |-> on])
      /\ bridge' = [bridge EXCEPT !.armed = on]
      /\ UNCHANGED <<port, active, inbox>>
  BY DEF BenchArm, Operator
<1>2. requested' \in BOOLEAN
  BY DEF BenchArm
<1>3. /\ bridge' \in BridgeState /\ bridge'.open = bridge.open
      /\ bridge'.waiting = bridge.waiting /\ bridge'.running = bridge.running
      /\ bridge'.supported = bridge.supported
  BY <1>1 DEF BridgeInv, BridgeTypeOK, BridgeState
<1> QED BY <1>1, <1>2, <1>3, ArmKeeps

\* Arming from the settings keeps it.
LEMMA AutoArmKeeps ==
    ASSUME BridgeInv, NEW on \in BOOLEAN, AutoArm(on) PROVE BridgeInv'
<1> DEFINE arms == on /\ ~bridge.armed /\ Armable(bridge)
           x == bridge.armed \/ arms
<1>1. /\ bridge.waiting = "no" /\ UNCHANGED <<port, active, inbox, requested>>
      /\ IF arms THEN Post([call |-> "arm", on |-> TRUE]) ELSE UNCHANGED commands
  BY DEF AutoArm, Operator, hostVars
<1>2. bridge' = [bridge EXCEPT !.autoArm = on, !.armed = x]
  BY Zenon DEF AutoArm
<1>3. bridge \in BridgeState /\ requested \in BOOLEAN
  BY DEF BridgeInv, BridgeTypeOK
<1>4. x \in BOOLEAN /\ (~arms => x = bridge.armed)
  BY <1>3 DEF BridgeState
<1> HIDE DEF x, arms
<1>5. /\ bridge' \in BridgeState /\ bridge'.open = bridge.open
      /\ bridge'.waiting = bridge.waiting /\ bridge'.running = bridge.running
      /\ bridge'.supported = bridge.supported /\ bridge'.fault = bridge.fault
      /\ ~arms => bridge'.armed = bridge.armed
  BY <1>2, <1>3, <1>4 DEF BridgeState
<1>6. CASE arms
  BY <1>1, <1>3, <1>5, <1>6, ArmKeeps
<1>7. CASE ~arms
  <2>1. BridgeTypeOK'
    BY <1>1, <1>5, <1>7 DEF BridgeInv, BridgeTypeOK
  <2> QED BY <1>1, <1>5, <1>7, <2>1
          DEF BridgeInv, AtRest, Authorised, Shut, Waiting, EndIsComing, RunKnown,
              StateKnown
<1> QED BY <1>6, <1>7

\* What open(ip) leaves of a bridge.
LEMMA OpenedIs ==
    ASSUME NEW b \in BridgeState, NEW supported \in BOOLEAN, NEW posted,
           Opened(b, supported, posted)
    PROVE  /\ bridge' \in BridgeState /\ bridge'.open = TRUE
           /\ bridge'.running = b.running /\ bridge'.waiting = b.waiting
           /\ commands' = Append(posted, [call |-> "open"])
<1>1. ResetTxUi(b) \in BridgeState /\ ResetTxUi(b).running = b.running
      /\ ResetTxUi(b).waiting = b.waiting
  BY DEF ResetTxUi, BridgeState
<1>2. bridge' = [ResetTxUi(b) EXCEPT !.supported = supported, !.open = TRUE]
      /\ commands' = Append(posted, [call |-> "open"])
  BY DEF Opened
<1> QED BY <1>1, <1>2 DEF BridgeState

\* Opening a radio keeps it.
LEMMA OpenRadioKeeps ==
    ASSUME BridgeInv, NEW supported \in BOOLEAN, OpenRadio(supported)
    PROVE  BridgeInv'
<1> DEFINE c == [call |-> "open"]
<1>1. /\ bridge.waiting = "no" /\ ~bridge.open
      /\ Opened(bridge, supported, commands)
      /\ UNCHANGED <<port, active, inbox, requested>>
  BY DEF OpenRadio, Operator, hostVars
<1>2. /\ bridge \in BridgeState /\ commands \in Seq(Command) /\ OnlyArms(commands)
      /\ ~port.open /\ CloseIsLast(commands, "no")
  BY <1>1 DEF BridgeInv, BridgeTypeOK, Shut, Waiting
<1>3. /\ bridge' \in BridgeState /\ bridge'.open /\ bridge'.running = bridge.running
      /\ bridge'.waiting = "no" /\ commands' = Append(commands, c)
  BY <1>1, <1>2, OpenedIs
<1>4. c \in Command /\ c.call = "open" /\ ~Raises(c)
  BY DEF Command, Raises
<1> HIDE DEF c
<1>5. /\ commands' \in Seq(Command) /\ CloseIsLast(commands', "no")
      /\ Ends(commands) => Ends(commands')
  BY <1>2, <1>3, <1>4, PostFacts
<1>6. BridgeTypeOK'
  BY <1>1, <1>3, <1>5 DEF BridgeInv, BridgeTypeOK
<1> QED BY <1>1, <1>2, <1>3, <1>5, <1>6
        DEF BridgeInv, AtRest, Authorised, Shut, Waiting, EndIsComing, RunKnown,
            StateKnown

\* Closing a radio keeps it, also to open the next one.
LEMMA CloseRadioKeeps ==
    ASSUME BridgeInv, NEW again \in BOOLEAN, CloseRadio(again) PROVE BridgeInv'
<1> DEFINE c == [call |-> "close"]
           w == IF again THEN "reopen" ELSE "close"
<1>1. /\ bridge.waiting = "no" /\ bridge.open /\ Post(c)
      /\ bridge' = [bridge EXCEPT !.waiting = w]
      /\ UNCHANGED <<port, active, inbox>>
  BY DEF CloseRadio, Operator
<1>2. requested' \in BOOLEAN
  BY DEF CloseRadio
<1>3. w \in {"close", "reopen"}
  OBVIOUS
<1> HIDE DEF w
<1>4. /\ bridge' \in BridgeState /\ bridge'.open /\ bridge'.running = bridge.running
      /\ bridge'.armed = bridge.armed /\ bridge'.fault = bridge.fault
      /\ bridge'.waiting = w
  BY <1>1, <1>3 DEF BridgeInv, BridgeTypeOK, BridgeState
<1>5. c \in Command /\ c.call = "close" /\ c \in TakesOff
  BY DEF Command, TakesOff
<1> HIDE DEF c
<1>6. commands \in Seq(Command) /\ commands' = Append(commands, c)
      /\ CloseIsLast(commands, "no")
  BY <1>1 DEF BridgeInv, BridgeTypeOK, Post, Waiting
<1>7. /\ commands' \in Seq(Command) /\ CloseIsLast(commands', w)
      /\ Ends(commands') /\ EndsAfter(commands', 0) /\ ~Settled(commands')
  BY <1>3, <1>5, <1>6, PostFacts
<1>8. BridgeTypeOK'
  BY <1>1, <1>2, <1>4, <1>7 DEF BridgeInv, BridgeTypeOK
<1> QED BY <1>1, <1>4, <1>7, <1>8
        DEF BridgeInv, AtRest, Authorised, Shut, Waiting, EndIsComing, RunKnown,
            StateKnown

-----------------------------------------------------------------------------
(* Signals.  Delivering one changes nothing about what is known in the end. *)

\* The kinds of signal and what a state signal carries.
LEMMA SignalKinds ==
    \A m \in Signal :
      /\ m.kind \in {"state", "started", "stopped"}
      /\ m.kind = "state" => /\ m.ready \in BOOLEAN /\ m.armed \in BOOLEAN
                             /\ m.fault \in BOOLEAN
BY DEF Signal

\* What the bridge writes when it hears a state signal, and what it may post.
LEMMA StateChangedIs ==
    ASSUME bridge \in BridgeState, NEW m \in Signal, m.kind = "state", StateChanged(m)
    PROVE  \E arms \in BOOLEAN :
             /\ bridge' \in BridgeState /\ requested' \in BOOLEAN
             /\ bridge'.open = bridge.open /\ bridge'.running = bridge.running
             /\ bridge'.supported = bridge.supported
             /\ bridge'.waiting = bridge.waiting /\ bridge'.fault = m.fault
             /\ arms => /\ bridge.supported
                        /\ Post([call |-> "arm", on |-> TRUE])
             /\ ~arms => UNCHANGED commands /\ bridge'.armed = m.armed
<1> DEFINE c == [bridge EXCEPT !.ready = m.ready, !.armed = m.armed, !.fault = m.fault]
           arms == c.autoArm /\ ~c.armed /\ Armable(c)
           x == c.armed \/ arms
<1>1. m.ready \in BOOLEAN /\ m.armed \in BOOLEAN /\ m.fault \in BOOLEAN
  BY SignalKinds
<1>2. /\ c \in BridgeState /\ c.open = bridge.open /\ c.running = bridge.running
      /\ c.supported = bridge.supported /\ c.waiting = bridge.waiting
      /\ c.fault = m.fault /\ c.armed = m.armed
  BY <1>1 DEF BridgeState
<1>3. bridge' = [c EXCEPT !.armed = x]
  BY Zenon DEF StateChanged
<1>4. IF arms THEN Post([call |-> "arm", on |-> TRUE]) ELSE UNCHANGED commands
  BY DEF StateChanged
<1>5. requested' \in BOOLEAN
  BY DEF StateChanged
<1> HIDE DEF c
<1>6. x \in BOOLEAN /\ arms \in BOOLEAN /\ (arms => c.supported) /\ (~arms => x = c.armed)
  BY <1>2 DEF BridgeState, Armable
<1> HIDE DEF x, arms
<1>7. /\ bridge' \in BridgeState /\ bridge'.open = c.open /\ bridge'.running = c.running
      /\ bridge'.supported = c.supported /\ bridge'.waiting = c.waiting
      /\ bridge'.fault = c.fault /\ bridge'.armed = x
  BY <1>2, <1>3, <1>6 DEF BridgeState
<1> QED BY <1>2, <1>4, <1>5, <1>6, <1>7

\* An arm call posted for a copy of an open session.
LEMMA PostedArmKeeps ==
    ASSUME commands \in Seq(Command), Post([call |-> "arm", on |-> TRUE])
    PROVE  /\ commands' \in Seq(Command) /\ ~Settled(commands')
           /\ Ends(commands) => Ends(commands')
           /\ EndsAfter(commands, 0) => EndsAfter(commands', 0)
           /\ CloseIsLast(commands, "no") => CloseIsLast(commands', "no")
<1> DEFINE c == [call |-> "arm", on |-> TRUE]
<1>1. c \in Command /\ c.call = "arm" /\ commands' = Append(commands, c)
  BY DEF Command, Post
<1> HIDE DEF c
<1> QED BY <1>1, PostFacts DEF Raises

\* Hearing a signal of the session keeps the invariant.
LEMMA ReceiveKeeps == ASSUME BridgeInv, Receive PROVE BridgeInv'
<1> DEFINE m == Head(inbox)
<1>1. /\ inbox \in Seq(Signal) /\ inbox # <<>> /\ inbox' = Tail(inbox)
      /\ bridge.waiting = "no" /\ UNCHANGED <<port, active>>
      /\ bridge \in BridgeState /\ commands \in Seq(Command) /\ requested \in BOOLEAN
  BY DEF BridgeInv, BridgeTypeOK, Receive
<1>2. m \in Signal /\ inbox' \in Seq(Signal)
  BY <1>1
<1>3. /\ \/ m.kind = "state" /\ StateChanged(m)
         \/ m.kind = "started" /\ bridge' = Started(bridge) /\ UNCHANGED <<requested, commands>>
         \/ m.kind = "stopped" /\ bridge' = Stopped(bridge) /\ UNCHANGED <<requested, commands>>
  BY DEF Receive
<1>4. \A kinds :
        /\ Silent(inbox, kinds) => Silent(inbox', kinds) /\ m.kind \notin kinds
        /\ \A n : Told(inbox, kinds, n) =>
             Told(inbox', kinds, n) \/ (Silent(inbox', kinds) /\ m = n)
  BY <1>1, TailTells
<1> HIDE DEF m
<1>5. port.running \in BOOLEAN /\ (port.running => port.open)
  BY DEF BridgeInv, BridgeTypeOK, AtRest, Port
<1>6. ASSUME m.kind = "state", StateChanged(m) PROVE BridgeInv'
  <2>1. PICK arms \in BOOLEAN :
             /\ bridge' \in BridgeState /\ requested' \in BOOLEAN
             /\ bridge'.open = bridge.open /\ bridge'.running = bridge.running
             /\ bridge'.supported = bridge.supported
             /\ bridge'.waiting = bridge.waiting /\ bridge'.fault = m.fault
             /\ arms => /\ bridge.supported
                        /\ Post([call |-> "arm", on |-> TRUE])
             /\ ~arms => UNCHANGED commands /\ bridge'.armed = m.armed
    BY <1>1, <1>2, <1>6, StateChangedIs
  <2>2. RunKnown'
    <3>1. m.kind \notin Runs
      BY <1>6 DEF Runs
    <3>2. \A n : Told(inbox, Runs, n) => Told(inbox', Runs, n)
      BY <1>4, <3>1 DEF Told
    <3> QED BY <1>1, <1>4, <2>1, <3>2 DEF BridgeInv, RunKnown, KnowsRun
  <2>3. CASE arms
    <3>1. /\ commands' \in Seq(Command) /\ ~Settled(commands')
          /\ Ends(commands) => Ends(commands')
          /\ EndsAfter(commands, 0) => EndsAfter(commands', 0)
          /\ CloseIsLast(commands, "no") => CloseIsLast(commands', "no")
      BY <1>1, <2>1, <2>3, PostedArmKeeps
    <3>2. bridge.open
      BY <2>1, <2>3 DEF BridgeInv, Shut
    <3>3. BridgeTypeOK'
      BY <1>1, <1>2, <2>1, <3>1 DEF BridgeInv, BridgeTypeOK
    <3> QED BY <1>1, <2>1, <2>2, <3>1, <3>2, <3>3
            DEF BridgeInv, AtRest, Authorised, Shut, Waiting, EndIsComing, StateKnown
  <2>4. CASE ~arms
    <3>1. StateKnown'
      <4>1. ASSUME bridge.open, port.open, Settled(commands)
            PROVE  KnowsState(inbox', m.armed, m.fault, port)
        <5>1. m.kind \in States
          BY <1>6 DEF States
        <5>2. ~Silent(inbox, States)
          BY <1>4, <5>1
        <5>3. PICK n \in Signal : /\ Told(inbox, States, n)
                                  /\ n.armed = port.armed /\ n.fault = port.fault
          BY <4>1, <5>2 DEF BridgeInv, StateKnown, KnowsState, Reported
        <5> QED BY <1>4, <5>3 DEF KnowsState, Reported
      <4> QED BY <1>1, <2>1, <2>4, <4>1 DEF StateKnown
    <3>2. BridgeTypeOK'
      BY <1>1, <1>2, <2>1, <2>4 DEF BridgeInv, BridgeTypeOK
    <3> QED BY <1>1, <2>1, <2>2, <2>4, <3>1, <3>2
            DEF BridgeInv, AtRest, Authorised, Shut, Waiting, EndIsComing
  <2> QED BY <2>3, <2>4
<1>7. ASSUME m.kind \in Runs, UNCHANGED <<requested, commands>>,
             bridge' = IF m.kind = "started" THEN Started(bridge) ELSE Stopped(bridge)
      PROVE  BridgeInv'
  <2>1. PICK n \in Signal : Told(inbox, Runs, n) /\ (n.kind = "started") = port.running
    BY <1>4, <1>7 DEF BridgeInv, RunKnown, KnowsRun
  <2>2. Told(inbox', Runs, n) \/ (Silent(inbox', Runs) /\ m = n)
    BY <1>4, <2>1
  <2>3. m = n => bridge.open \/ m.kind # "started"
    BY <1>5, <2>1 DEF BridgeInv, Shut
  <2>4. /\ bridge' \in BridgeState /\ bridge'.open = bridge.open
        /\ bridge'.supported = bridge.supported /\ bridge'.waiting = bridge.waiting
        /\ bridge'.armed = bridge.armed /\ bridge'.fault = bridge.fault
        /\ ~bridge.open /\ ~bridge.running => ~bridge'.running
        /\ bridge.open \/ m.kind # "started" => bridge'.running = (m.kind = "started")
    BY <1>1, <1>7 DEF Started, Stopped, BridgeState
  <2>5. RunKnown'
    BY <1>1, <2>1, <2>2, <2>3, <2>4 DEF RunKnown, KnowsRun
  <2>6. StateKnown'
    <3>1. m.kind \notin States
      BY <1>7 DEF States, Runs
    <3>2. \A x : Told(inbox, States, x) => Told(inbox', States, x)
      BY <1>4, <3>1 DEF Told
    <3> QED BY <1>1, <1>4, <1>7, <2>4, <3>2
            DEF BridgeInv, StateKnown, KnowsState, Reported
  <2>7. BridgeTypeOK'
    BY <1>1, <1>2, <1>7, <2>4 DEF BridgeInv, BridgeTypeOK
  <2> QED BY <1>1, <1>7, <2>4, <2>5, <2>6, <2>7
          DEF BridgeInv, AtRest, Authorised, Shut, Waiting, EndIsComing
<1> QED BY <1>3, <1>6, <1>7 DEF Runs

-----------------------------------------------------------------------------
(* The session thread.                                                     *)

\* A step ends with its packet and with its signals on their way.
LEMMA ReachesIs ==
    ASSUME BridgeInv, NEW t \in Wide, t.running => t.open, Reaches(t)
    PROVE  /\ port' \in Port /\ AtRest'
           /\ port'.open = t.open /\ port'.running = t.running
           /\ port'.intent = t.intent /\ port'.armed = t.armed
           /\ port'.fault = t.fault
           /\ inbox' = inbox \o t.signals /\ inbox' \in Seq(Signal)
<1>1. t.due <= MaxDue /\ inbox' = inbox \o t.signals
  BY DEF Reaches
<1>2. PICK u \in Aired(t) : port' = [u EXCEPT !.signals = <<>>]
  BY DEF Reaches
<1> DEFINE gate == Authorised(t)
<1>3. gate \in BOOLEAN
  BY DEF Authorised
<1>4. u = [t EXCEPT !.onAir = FALSE] \/ u = [t EXCEPT !.onAir = gate]
  BY <1>2 DEF Aired
<1> HIDE DEF gate
<1>5. \E x \in BOOLEAN : u = [t EXCEPT !.onAir = x] /\ (x => gate)
  BY <1>3, <1>4
<1>6. PICK x \in BOOLEAN : u = [t EXCEPT !.onAir = x] /\ (x => gate)
  BY <1>5
<1>7. /\ u \in Wide /\ u.onAir = x /\ u.open = t.open /\ u.running = t.running
      /\ u.intent = t.intent /\ u.armed = t.armed /\ u.fault = t.fault
      /\ u.stage = t.stage /\ u.due = t.due
  BY <1>6 DEF Wide
<1>8. /\ port' \in Wide /\ port'.signals = <<>> /\ port'.onAir = x
      /\ port'.open = t.open /\ port'.running = t.running
      /\ port'.intent = t.intent /\ port'.armed = t.armed
      /\ port'.fault = t.fault /\ port'.stage = t.stage /\ port'.due = t.due
  BY <1>2, <1>7, EmptyQueue DEF Wide
<1>9. port' \in Port
  BY <1>1, <1>8, DueAssumption DEF Wide, Port
<1>10. AtRest'
  BY <1>6, <1>8 DEF AtRest, Authorised, gate
<1>11. inbox' \in Seq(Signal)
  BY <1>1 DEF BridgeInv, BridgeTypeOK, Wide
<1> QED BY <1>1, <1>8, <1>9, <1>10, <1>11

\* The inbox and the signals of a step together tell what both told.
LEMMA ReachesTells ==
    ASSUME BridgeInv, NEW t \in Wide, t.running => t.open, Reaches(t)
    PROVE  /\ KnowsRun(t.signals, port.running, t)
                => KnowsRun(inbox', bridge.running, port')
           /\ Reported(t.signals, t) => Reported(inbox', port')
           /\ \A a, f : /\ KnowsState(t.signals, port.armed, port.fault, t)
                        /\ KnowsState(inbox, a, f, port)
                        => KnowsState(inbox', a, f, port')
<1>1. /\ port'.running = t.running /\ port'.armed = t.armed /\ port'.fault = t.fault
      /\ inbox' = inbox \o t.signals
  BY ReachesIs
<1>2. inbox \in Seq(Signal) /\ t.signals \in Seq(Signal)
  BY DEF BridgeInv, BridgeTypeOK, Wide
<1>3. \A kinds :
        /\ \A m : Told(t.signals, kinds, m) => Told(inbox', kinds, m)
        /\ Silent(t.signals, kinds) =>
             \A m : Told(inbox, kinds, m) => Told(inbox', kinds, m)
        /\ Silent(inbox, kinds) /\ Silent(t.signals, kinds) => Silent(inbox', kinds)
  BY <1>1, <1>2, ConcatTells
<1>4. ASSUME KnowsRun(t.signals, port.running, t)
      PROVE  KnowsRun(inbox', bridge.running, port')
  <2>1. KnowsRun(inbox, bridge.running, port)
    BY DEF BridgeInv, RunKnown
  <2>2. CASE \E m \in Signal : Told(t.signals, Runs, m) /\ (m.kind = "started") = t.running
    BY <1>1, <1>3, <2>2 DEF KnowsRun
  <2>3. CASE Silent(t.signals, Runs) /\ port.running = t.running
    BY <1>1, <1>3, <2>1, <2>3 DEF KnowsRun
  <2> QED BY <1>4, <2>2, <2>3 DEF KnowsRun
<1>5. Reported(t.signals, t) => Reported(inbox', port')
  BY <1>1, <1>3 DEF Reported
<1>6. ASSUME NEW a, NEW f, KnowsState(t.signals, port.armed, port.fault, t),
             KnowsState(inbox, a, f, port)
      PROVE  KnowsState(inbox', a, f, port')
  BY <1>1, <1>3, <1>5, <1>6 DEF KnowsState, Reported
<1> QED BY <1>4, <1>5, <1>6

\* An event on the session thread keeps it.
LEMMA SessionEventKeeps == ASSUME BridgeInv, SessionEvent PROVE BridgeInv'
<1>1. UNCHANGED <<requested, active, bridge, commands>>
  BY DEF SessionEvent, hostVars
<1>2. PICK t \in Events(port) : Reaches(t)
  BY DEF SessionEvent
<1>3. Honest(port, t)
  BY RestHonest, EventsHonest
<1>4. /\ t \in Wide /\ (t.running => t.open) /\ (t.open => port.open)
      /\ (t.intent => port.intent)
      /\ KnowsRun(t.signals, port.running, t)
      /\ KnowsState(t.signals, port.armed, port.fault, t)
  BY <1>3 DEF Honest, Sound
<1>5. /\ port' \in Port /\ AtRest' /\ inbox' \in Seq(Signal)
      /\ port'.open = t.open /\ port'.intent = t.intent
  BY <1>2, <1>4, ReachesIs
<1>6. /\ KnowsRun(inbox', bridge.running, port')
      /\ \A a, f : KnowsState(inbox, a, f, port) => KnowsState(inbox', a, f, port')
  BY <1>2, <1>4, ReachesTells
<1>7. BridgeTypeOK'
  BY <1>1, <1>5 DEF BridgeInv, BridgeTypeOK
<1> QED BY <1>1, <1>4, <1>5, <1>6, <1>7
        DEF BridgeInv, Shut, Waiting, EndIsComing, RunKnown, StateKnown

\* What the session makes of a call that is served.
LEMMA ServedHonest ==
    ASSUME BridgeInv, NEW c \in Command, NEW t \in Served(c)
    PROVE  /\ t \in Wide /\ (t.running => t.open)
           /\ KnowsRun(t.signals, port.running, t)
           /\ t.open => \/ Reported(t.signals, t)
                        \/ c.call = "rate" /\ Honest(port, t)
           /\ t.open /\ t.intent => port.open /\ (port.intent \/ Raises(c))
           /\ t.open /\ t.intent => c \notin TakesOff
           /\ t.open => port.open \/ c.call = "open"
           /\ c.call = "close" => ~t.open
<1>0. Honest(port, port)
  BY RestHonest
<1>1. /\ c.call \in {"arm", "intent", "open", "close", "rate"}
      /\ c.call \in {"arm", "intent"} => c.on \in BOOLEAN
  BY DEF Command
<1>2. c \in TakesOff => \/ c.call \in {"arm", "intent"} /\ c.on = FALSE
                        \/ c.call = "close"
  BY DEF TakesOff
<1>3. CASE c.call = "arm"
  <2>1. t = SetArmed(port, c.on)
    BY <1>3 DEF Served
  <2> QED BY <1>0, <1>1, <1>2, <1>3, <2>1, ArmHonest DEF Honest, Sound
<1>4. CASE c.call = "intent"
  <2>1. t = SetIntent(port, c.on)
    BY <1>4 DEF Served
  <2>2. /\ t \in Wide /\ (t.running => t.open) /\ (t.open => port.open)
        /\ KnowsRun(t.signals, port.running, t) /\ Reported(t.signals, t)
        /\ ~c.on => ~t.intent
    BY <1>0, <1>1, <1>4, <2>1, IntentHonest
  <2> QED BY <1>1, <1>2, <1>4, <2>2 DEF Raises
<1>5. CASE c.call = "rate"
  <2>1. t = RateChange(port)
    BY <1>5 DEF Served
  <2>2. Honest(port, t)
    BY <1>0, <2>1, RateHonest
  <2> QED BY <1>2, <1>5, <2>2 DEF Honest, Sound
<1>6. CASE c.call = "open"
  <2>1. t \in Open(port)
    BY <1>6 DEF Served
  <2>2. /\ t \in Wide /\ (t.running => t.open)
        /\ KnowsRun(t.signals, port.running, t)
        /\ t.open => ~t.intent /\ Reported(t.signals, t)
    BY <1>0, <2>1, OpenHonest
  <2> QED BY <1>6, <2>2
<1>7. CASE c.call = "close"
  <2>1. t = Close(port)
    BY <1>7 DEF Served
  <2> QED BY <1>0, <2>1, CloseHonest DEF Sound
<1> QED BY <1>1, <1>3, <1>4, <1>5, <1>6, <1>7

\* The main thread comes back from close(), or goes on in open(another ip).
LEMMA WakeUpIs ==
    ASSUME bridge \in BridgeState, NEW rest, WakeUp(rest)
    PROVE  /\ bridge' \in BridgeState /\ bridge'.waiting = "no" /\ ~bridge'.running
           /\ \/ ~bridge'.open /\ ~bridge'.supported /\ commands' = rest
              \/ bridge'.open /\ commands' = Append(rest, [call |-> "open"])
<1> DEFINE a == [bridge EXCEPT !.open = FALSE, !.running = FALSE, !.waiting = "no"]
           b == ResetTxUi(a)
<1>1. a \in BridgeState /\ a.open = FALSE /\ a.running = FALSE /\ a.waiting = "no"
  BY DEF BridgeState
<1>2. \/ bridge' = b /\ commands' = rest
      \/ \E supported \in BOOLEAN : Opened(b, supported, rest)
  BY DEF WakeUp
<1> HIDE DEF a
<1>3. /\ b \in BridgeState /\ b.open = FALSE /\ b.running = FALSE
      /\ b.waiting = "no" /\ b.supported = FALSE
  BY <1>1 DEF ResetTxUi, BridgeState
<1> HIDE DEF b
<1> QED BY <1>2, <1>3, OpenedIs

\* Serving a command on the session thread keeps it.
LEMMA ServeKeeps == ASSUME BridgeInv, Serve PROVE BridgeInv'
<1> DEFINE c == Head(commands)
           rest == Tail(commands)
<1>1. /\ commands \in Seq(Command) /\ commands # <<>> /\ bridge \in BridgeState
      /\ UNCHANGED <<requested, active>>
  BY DEF BridgeInv, BridgeTypeOK, Serve, hostVars
<1>2. /\ rest \in Seq(Command) /\ c \in Command
      /\ Ends(commands) => Ends(rest) /\ (Raises(c) => EndsAfter(rest, 0))
      /\ EndsAfter(commands, 0) => EndsAfter(rest, 0) \/ c \in TakesOff
      /\ \A w : CloseIsLast(commands, w) =>
           /\ c.call = "close" => rest = <<>> /\ w # "no"
           /\ c.call # "close" => CloseIsLast(rest, w)
      /\ Settled(rest) /\ c.call \in {"intent", "rate"} => Settled(commands)
      /\ OnlyArms(commands) => OnlyArms(rest) /\ c.call = "arm"
  BY <1>1, ServeFacts
<1>3. PICK t \in Served(c) : Reaches(t)
  BY DEF Serve
<1>4. IF c.call = "close" THEN WakeUp(rest)
      ELSE commands' = rest /\ UNCHANGED bridge
  BY DEF Serve
<1> HIDE DEF c, rest
<1>5. /\ t \in Wide /\ (t.running => t.open)
      /\ KnowsRun(t.signals, port.running, t)
      /\ t.open => Reported(t.signals, t) \/ (c.call = "rate" /\ Honest(port, t))
      /\ t.open /\ t.intent => port.open /\ (port.intent \/ Raises(c))
      /\ t.open /\ t.intent => c \notin TakesOff
      /\ t.open => port.open \/ c.call = "open"
      /\ c.call = "close" => ~t.open
  BY <1>2, <1>3, ServedHonest
<1>6. /\ port' \in Port /\ AtRest' /\ inbox' \in Seq(Signal)
      /\ port'.open = t.open /\ port'.intent = t.intent /\ port'.running = t.running
  BY <1>3, <1>5, ReachesIs
<1>7. /\ KnowsRun(inbox', bridge.running, port')
      /\ Reported(t.signals, t) => Reported(inbox', port')
      /\ \A a, f : /\ KnowsState(t.signals, port.armed, port.fault, t)
                   /\ KnowsState(inbox, a, f, port)
                   => KnowsState(inbox', a, f, port')
  BY <1>3, <1>5, ReachesTells
<1>8. CASE c.call # "close"
  <2>1. commands' = rest /\ bridge' = bridge
    BY <1>4, <1>8
  <2>2. BridgeTypeOK'
    BY <1>1, <1>2, <1>6, <2>1 DEF BridgeInv, BridgeTypeOK
  <2>3. Shut' /\ Waiting'
    BY <1>2, <1>5, <1>6, <1>8, <2>1 DEF BridgeInv, Shut, Waiting
  <2>4. EndIsComing'
    BY <1>1, <1>2, <1>5, <1>6, <2>1 DEF BridgeInv, EndIsComing
  <2>5. StateKnown'
    <3>1. CASE c.call = "rate" /\ Honest(port, t)
      <4>1. KnowsState(t.signals, port.armed, port.fault, t) /\ (t.open => port.open)
        BY <3>1 DEF Honest, Sound
      <4> QED BY <1>2, <1>6, <1>7, <2>1, <3>1, <4>1 DEF BridgeInv, StateKnown
    <3>2. CASE Reported(t.signals, t)
      BY <1>7, <3>2 DEF StateKnown, KnowsState
    <3>3. CASE ~t.open
      BY <1>6, <3>3 DEF StateKnown
    <3> QED BY <1>5, <3>1, <3>2, <3>3
  <2> QED BY <1>6, <1>7, <2>1, <2>2, <2>3, <2>4, <2>5 DEF BridgeInv, RunKnown
<1>9. CASE c.call = "close"
  <2>1. rest = <<>> /\ ~port'.open /\ ~port'.running
    BY <1>2, <1>5, <1>6, <1>9 DEF BridgeInv, Waiting
  <2>2. /\ bridge' \in BridgeState /\ bridge'.waiting = "no" /\ ~bridge'.running
        /\ \/ ~bridge'.open /\ ~bridge'.supported /\ commands' = rest
           \/ bridge'.open /\ commands' = Append(rest, [call |-> "open"])
    BY <1>1, <1>4, <1>9, WakeUpIs
  <2>3. /\ commands' \in Seq(Command) /\ Ends(commands')
        /\ CloseIsLast(commands', "no") /\ (~bridge'.open => OnlyArms(commands'))
    <3> DEFINE o == [call |-> "open"]
    <3>1. o \in Command /\ o.call = "open" /\ ~Raises(o)
      BY DEF Command, Raises
    <3>2. bridge'.open => commands' = Append(<<>>, o)
      BY <2>1, <2>2
    <3> HIDE DEF o
    <3>3. LET p == Append(<<>>, o) IN
          p \in Seq(Command) /\ Ends(p) /\ CloseIsLast(p, "no")
      BY <3>1, EmptyQueue, PostFacts
    <3> QED BY <2>1, <2>2, <3>2, <3>3, EmptyQueue
  <2>4. RunKnown'
    <3>1. bridge'.running = FALSE /\ port'.running = FALSE
      BY <1>6, <2>1, <2>2 DEF BridgeState, Port
    <3> QED BY <1>7, <3>1 DEF RunKnown, KnowsRun
  <2>5. BridgeTypeOK'
    BY <1>1, <1>6, <2>2, <2>3 DEF BridgeInv, BridgeTypeOK
  <2> QED BY <1>6, <2>1, <2>2, <2>3, <2>4, <2>5
          DEF BridgeInv, Shut, Waiting, EndIsComing, StateKnown
<1> QED BY <1>8, <1>9

-----------------------------------------------------------------------------
(* Theorems.                                                               *)

\* Every step of the bridge and its session keeps the invariant.
LEMMA BridgeInvKept == ASSUME BridgeInv, [BridgeNext]_bvars PROVE BridgeInv'
<1>1. CASE UNCHANGED bvars
  BY <1>1 DEF bvars, hostVars, BridgeInv, BridgeTypeOK, AtRest, Authorised, Shut,
              Waiting, EndIsComing, RunKnown, StateKnown
<1> QED BY <1>1, KeyKeeps, HostEdgeKeeps, BenchArmKeeps, AutoArmKeeps,
           DriveChangeKeeps, SampleRateKeeps, OpenRadioKeeps, CloseRadioKeeps,
           ReceiveKeeps, SessionEventKeeps, ServeKeeps DEF BridgeNext

\* A constructed bridge satisfies it.
LEMMA InitBridgeInv == ASSUME BridgeInit PROVE BridgeInv
<1>1. /\ port.signals = <<>> /\ ~port.running /\ ~port.open /\ ~port.onAir
      /\ port.running = FALSE /\ port \in Port
  BY EmptyQueue, DueAssumption DEF BridgeInit, Init, Port, Stage
<1>2. /\ bridge \in BridgeState /\ bridge.open = FALSE /\ bridge.running = FALSE
      /\ bridge.supported = FALSE /\ bridge.waiting = "no"
      /\ commands = <<>> /\ inbox = <<>>
      /\ requested = FALSE /\ active = FALSE
  BY DEF BridgeInit, Host!Init, BridgeState
<1> QED BY <1>1, <1>2, EmptyQueue
        DEF BridgeInv, BridgeTypeOK, AtRest, Shut, Waiting, EndIsComing, RunKnown,
            StateKnown, KnowsRun

\* The invariant of the bridge: both queues tell, in the end, what the other side
\* must know, whatever interleaving of the two threads filled them.
THEOREM BridgeInvariant == BridgeSpec => []BridgeInv
BY InitBridgeInv, BridgeInvKept, PTL DEF BridgeSpec

\* No interleaving of edges, re-opens, faults and arming loses a key up, however
\* long the queues get: whenever the radio transmits or means to, the host is on
\* air or the call that ends it is posted.
THEOREM RadioAlwaysFollowsHost == BridgeSpec => []RadioFollowsHost
<1>1. BridgeInv => RadioFollowsHost
  BY DEF BridgeInv, BridgeTypeOK, AtRest, Authorised, EndIsComing, EndsAfter,
         RadioFollowsHost
<1> QED BY <1>1, BridgeInvariant, PTL

\* A stale signal never has the last word about running, armed or fault, however
\* many signals of a session that was left are still in the queue.
THEOREM CopiesAlwaysConverge == BridgeSpec => []CopiesConverge
<1>1. ASSUME BridgeInv, commands = <<>>, inbox = <<>>, bridge.open, port.open
      PROVE  /\ bridge.running = port.running /\ bridge.armed = port.armed
             /\ bridge.fault = port.fault
  <2>1. \A kinds, m : ~Told(<<>>, kinds, m)
    BY DEF Told
  <2>2. Settled(commands)
    BY <1>1 DEF Settled
  <2> QED BY <1>1, <2>1, <2>2
          DEF BridgeInv, RunKnown, StateKnown, KnowsRun, KnowsState, Reported
<1>2. BridgeInv => CopiesConverge
  BY <1>1 DEF CopiesConverge
<1> QED BY <1>2, BridgeInvariant, PTL
=============================================================================
