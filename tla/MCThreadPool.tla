----------------------------- MODULE MCThreadPool -----------------------------
(* A pool of two workers, two submitting threads and four tasks: two plain and *)
(* two checked ones, one of each throwing.                                     *)
EXTENDS ThreadPool

CONSTANTS w1, w2, s1, s2, p1, p2, c1, c2

MCWorkers == {w1, w2}
MCSubmitters == {s1, s2}
MCPlain == {p1, p2}
MCChecked == {c1, c2}
MCThrowing == {p2, c2}

==============================================================================
