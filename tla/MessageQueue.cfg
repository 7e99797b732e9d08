SPECIFICATION MCSpec
CONSTANTS
    Key = {k1, k2}
    PeerKey = {k1}
    BcstKey = {k2}
    ForwardKey = {f}
    HaveKey = {h}
    Provider = {p, q}
    MaxDebounce = 2
INVARIANTS
    SentIsTold
    RemoteAccounted
    HavesNotLost
PROPERTY WorkGoesOut
