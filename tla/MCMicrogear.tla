---------------------------- MODULE MCMicrogear ----------------------------
(* Small instances of Microgear for TLC.                                    *)
EXTENDS Microgear

FdOne == {0}
FdTwo == {0, 1}
OneRequest == {"PSQ_SUBSCRIBE"}
=============================================================================
