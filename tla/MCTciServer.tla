---------------------------- MODULE MCTciServer -----------------------------
(* Two TCI clients.  The transmitter wants two packets queued, which is    *)
(* more than may be asked for at once.                                     *)
EXTENDS TciServer

MCSources == {"Manual", "Tci"}
=============================================================================
