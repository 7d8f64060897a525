SPECIFICATION FairChainSpec
CONSTANTS
    b1 = b1
    b2 = b2
    b3 = b3
    b4 = b4
    head = head
    null = null
    Descriptors <- MCDescriptors
    B_CHAIN = head
    Null = null
INVARIANTS LinksTypeOK ChainComplete ChainIsOrder
PROPERTY LoopEnds
