-------------------------- MODULE MCBufferManager --------------------------
EXTENDS BufferManager

CONSTANTS self, p, f

\* Three validators of voting power 2, 3 and 2: a quorum is 5, and the faulty
\* one holds no more than the third the protocol tolerates.
MCValidator == {self, p, f}
MCQuorum == {{self, p}, {p, f}, {self, p, f}}
MCFaultyVote == {[author |-> f, round |-> 2, kind |-> "badsig"],
                 [author |-> f, round |-> 2, kind |-> "mismatch"]}

\* Longer chains without faults, shorter ones with one or two:
\* a state sync fails and is tried again.
MCScenario ==
  [rounds : {3}, epoch_end : {0}, voted : {{1, 3}, {2, 3}}, faults : {0}]
    \cup [rounds : {3}, epoch_end : {2}, voted : {{2}}, faults : {0}]
    \cup [rounds : {2}, epoch_end : {0}, voted : {{1}, {2}}, faults : {1}]
    \cup [rounds : {1}, epoch_end : {0}, voted : {{1}}, faults : {2}]
    \cup [rounds : {2}, epoch_end : {0}, voted : {{}}, faults : {2}]
=============================================================================
