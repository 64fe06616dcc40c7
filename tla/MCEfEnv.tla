------------------------------ MODULE MCEfEnv -------------------------------
(* Small instances of EfEnv for TLC.                                        *)
EXTENDS EfEnv, TLC

CONSTANTS k1, k2, short, long, t1

MCKeys == {k1, k2}
MCValues == {short, long}
MCWords == (short :> 1) @@ (long :> 2)
MCDefault == k1 :> short
OneThread == {t1}
AllOps == {"set", "del", "save", "reset"}
NoReset == {"set", "del", "save"}
=============================================================================
