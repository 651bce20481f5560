---------------------------- MODULE MCKeySources ----------------------------
(* An instance of KeySources with every source and the code's debounce.    *)
EXTENDS KeySources

MCSources == {"Manual", "HwPtt", "Serial", "Vox", "Keyer"}
=============================================================================
