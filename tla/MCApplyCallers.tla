--------------------------- MODULE MCApplyCallers ---------------------------
EXTENDS ApplyCallers

CONSTANTS q1, q2, job, v1, v2, r1, r2

MCVhosts == {v1, v2}
MCRest == {r1, r2}
\* A vhost bound to a policy that the other tables do not hold (yet).
MCBroken == {[vhosts |-> v2, rest |-> r1]}

MCRequest == {q1, q2}
MCJob == {job}
=============================================================================
