\* Two receivers on hosts of different byte orders, a collection that
\* overflows, insertions that fail, and crashes.
SPECIFICATION MessageSpec
CONSTANTS
    rfserver = rfserver
    peer = peer
    NULL = NULL
    Receiver <- MCReceiver
    HostOrder <- MCHostOrder
    Outbox <- MCOutbox
    CC_SIZE = 3
    PENDINGLIMIT = 2
    MaxSends = 5
    MaxCrashes = 2
    MaxLosses = 1
INVARIANTS
    ChannelTypeOK
    ReadIsProcessed
    NothingSkipped
    ReadAsSent
    NetworkOrder
PROPERTIES
    ImplementsMailbox
    EventuallyProcessed
CHECK_DEADLOCK FALSE
