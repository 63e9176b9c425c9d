\* Two keys in use and a new one; every command line that differs.
CONSTANTS
    Key = {k1, k2, k3}
    None = None
    Torn = Torn
    Config <- Configs
SPECIFICATION Spec
INVARIANTS
    TypeOK
    PublishedKeysAreKept
    KeysDifferOnlyIfRetired
    SelfSignedNeedsFlag
PROPERTIES
    ChannelComesUp
