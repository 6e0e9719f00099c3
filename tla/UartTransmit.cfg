SPECIFICATION TransmitSpec
CONSTANTS
    N = 3
    Items = {1, 2, 3, 4, 5, 6, 7, 8}
    MaxChars = 8
    UART_FIFO_CAPACITY = 2
    MaxReceived = 2
    Uninit = Uninit
    None = None
    Ok = Ok
    Err = Err
CHECK_DEADLOCK FALSE
INVARIANTS
    RingConsistent
    OutputInOrder
    TransmitterArmed
PROPERTIES
    ImplementsFifo
    AllSent
