CONSTANTS
    MaxPackets = 3
    BufCap = 2
SPECIFICATION LSpec
INVARIANT LTypeOK
INVARIANT NmLeftAsFound
PROPERTY ForwarderSpec
PROPERTY PacketsForwarded
