\* One job, two workers that may crash, and four faults.
SPECIFICATION FairSpec
CONSTANTS
    Jobs = {j1}
    Workers = {w1, w2}
    NoWorker = NoWorker
    MaxFaults = 4
CHECK_DEADLOCK FALSE
INVARIANTS
    NoLoss
    SingleSender
    SendsBounded
PROPERTIES
    PromiseSpec
    Settles
