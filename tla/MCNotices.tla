----------------------------- MODULE MCNotices -----------------------------
EXTENDS Notices_proofs, TLC

\* Four and two in the code; two tries are enough to lose a race.
MCTries == [a \in Asker |-> 2]
=============================================================================
