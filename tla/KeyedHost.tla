----------------------------- MODULE KeyedHost ------------------------------
(***************************************************************************)
(* What the MOX sequencer promises the rest of the program: a request,     *)
(* taken at any time, and an on-air edge that only ever moves towards the  *)
(* request of the moment.  MoxFsm implements it; P2Bridge is written       *)
(* against it.  Nothing promises that an edge comes: a request cancelled   *)
(* in time has none.                                                       *)
(***************************************************************************)
VARIABLES requested,  \* requestedMox_
          active      \* moxActive_

Init == requested = FALSE /\ active = FALSE

\* requestMox(true), which the listeners of moxIntentPulse may revoke before
\* it returns, and requestMox(false).
Request(on) == requested' = on /\ UNCHANGED active

\* moxActiveChanged(true) and moxActiveChanged(false).
OnAir  == requested /\ ~active /\ active' = TRUE /\ UNCHANGED requested
OffAir == ~requested /\ active /\ active' = FALSE /\ UNCHANGED requested

Next == OnAir \/ OffAir \/ \E on \in BOOLEAN : Request(on)

Spec == Init /\ [][Next]_<<requested, active>>
=============================================================================
