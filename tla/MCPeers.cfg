SPECIFICATION Spec
CONSTANTS
    Host = {r, self}
    Self = self
    Addr = {r1, r2, home}
    HostOf <- MCHostOf
    Home = home
    Seed = {r1}
    Identity = {i, j, ours}
    Ours = ours
    Pinned = {i}
    Conn = {c1, c2}
    None = None
    MaxOutbound = 1
    MaxInbound = 1
    BanThreshold = 2
    MaxFailures = 1
SYMMETRY Symmetric
INVARIANTS IdentityHolds SlotsBounded NeverOurselves
CHECK_DEADLOCK FALSE
