CONSTANTS
    Parent = "wlan0"
    MonName = "wlan0mon"
    VifName = "cap0"
    Kismon <- MCKismon
SPECIFICATION Spec
INVARIANT UsableBackend
