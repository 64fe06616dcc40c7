----------------------------- MODULE MCSession ------------------------------
(* Small instances of Session for TLC.                                      *)
EXTENDS Session

Frame(m, n, c, l, o) == [method |-> m, len |-> n, cmd |-> c, line |-> l, on |-> o]

Heart   == Frame("heart", 4, "none", 0, FALSE)
Probe   == Frame("probe", 5, "none", 0, FALSE)
Unknown == Frame("other", 5, "none", 0, FALSE)
Odd     == Frame("uart", 8, "none", 0, FALSE)
Query   == Frame("uart", 12, "query", 0, FALSE)
Stub    == Frame("other", 3, "none", 0, FALSE)
On(l)   == Frame("uart", 12, "line", l, TRUE)
AllOn   == Frame("uart", 12, "batch", 0, TRUE)

\* Every kind of frame, and one of less than a head; line NLines + 1 does not
\* exist, and 0 is the one before the first.
AllTraffic == {Heart, Probe, Unknown, Stub, Odd, Query, On(0), On(1), On(NLines + 1), AllOn}
TinyTraffic == {Heart, Probe}
ProbeTraffic == {Probe}
=============================================================================
