CONSTANTS
    Threads = {1}
    First = 1
    rxbnotempty = rxbnotempty
    txbnotfull = txbnotfull
    Conditions = {rxbnotempty, txbnotfull}
    RBUFSZ = 2
    POSBITS = 2
    NoByte = NoByte
    MaxRead = 2
    MaxWrite = 2
    Byte = {b0, b1}
    b0 = b0
    b1 = b1
SPECIFICATION Spec
INVARIANTS
    TypeOK
PROPERTIES
    RxFifo
    TxFifo
