---------------------------- MODULE MCEventLoop -----------------------------
(* EventLoop for TLC: a timer of each type, and a descriptor.               *)
EXTENDS EventLoop

CONSTANTS b1, t1, io1

OneBlock   == {b1}
OneNoBlock == {t1}
OneIo      == {io1}
=============================================================================
