SPECIFICATION Spec
CONSTANTS
    Keys <- MCKeys
    MaxWeight = 3
    MaxKeys = 3
    Deployments <- MCDeployments
    Txs <- MCTxs
    Signatures <- MCSignatures
    DirectCalls <- MCCallbacks
    MaxNonce = 4
INVARIANTS
    LiveWeightIsListed
    ValidationIsQuorum
PROPERTIES
    QuorumRule
\* The model stops once MaxNonce transactions have run, and the contract
\* itself stops when no set of owners reaches the threshold any more.
CHECK_DEADLOCK FALSE
