\* A chunk is KEY_SIZE - PKCS1_PADDING_LEN = 4 bytes.
CONSTANTS
    KEY_SIZE = 6
    PKCS1_PADDING_LEN = 2
    Text <- Texts
    Body <- Bodies
    ClientKey <- Keys
    MirrorKey <- RightKey
SPECIFICATION Spec
INVARIANTS
    RequestArrives
    ResponseArrives
    GoodRequestsAreServed
CHECK_DEADLOCK FALSE
