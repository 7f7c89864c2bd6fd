\* The second 2 MB block holds the transports; the tree lists the first or the
\* last of them first. Memory held 3 where the drive's address goes.
CONSTANTS
    Cell = 16
    Nodes = 2
    Addresses = {16, 20}
    Before = 3
    Transports = 3
    Step = 2
    Block = 16
SPECIFICATION BootSpec
INVARIANTS RamIsMemory DriveIsFirstTransport LiveQueueIsOurs
PROPERTY FirstTransferServed
CHECK_DEADLOCK FALSE
