CONSTANTS
    Threads = {1, 2}
    First = 1
    rxbnotempty = rxbnotempty
    txbnotfull = txbnotfull
    Conditions = {rxbnotempty, txbnotfull}
    RBUFSZ = 1
    POSBITS = 1
    NoByte = NoByte
    MaxRead = 2
    MaxWrite = 2
    Byte = {b0}
    b0 = b0
SPECIFICATION FairSpec
INVARIANTS
    NoSleepingReader
    NoSleepingWriter
    ReceiveEnabled
    TransmitEnabled
PROPERTIES
    WriterWakes
    ReaderWakes
