CONSTANTS
    MaxPackets = 3
    BufCap = 2
SPECIFICATION Spec
PROPERTY SendErrorEndsThread
