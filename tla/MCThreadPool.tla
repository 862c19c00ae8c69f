---------------------------- MODULE MCThreadPool ----------------------------
EXTENDS ThreadPool

CONSTANTS q1, q2, a, b, c, p1

\* One pusher pushes two tasks and the others' tasks are pushed by the other.
MCTasksOf == [p \in Pushers |-> Tasks \cap (IF p = p1 THEN {a, b} ELSE {c})]

\* The first task may go to either queue, the keys of b and c lead to the same one:
\* over its limit, both pushers wait for it, the one of c with a timeout.
MCCandidates == [t \in Tasks |-> IF t = a THEN {q1, q2} ELSE {q1}]
=============================================================================
