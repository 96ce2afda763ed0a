SPECIFICATION MCSpec
CONSTANTS
    Members = 2
    Slots = 2
    Bytes = 4
    SendSizes = {1, 2}
    ReceiveSizes = {0}
    Sources = {p, q}
    HeaderBytes = 1
    ReplyBytes = 1
    OutputPackets = 2
    BytesCopied = 4
    MaintenanceWork = 1
    InputPackets = 1
    MaxPackets = 2
    MaxBytes = 3
INVARIANTS RingsSound CreditIsKept ReaderWillWake WriterWillWake SendIsPolled
PROPERTIES MembersTakeTurns
