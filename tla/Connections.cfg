SPECIFICATION Spec
CONSTANTS
    Names = {n1, n2}
    Default = n1
    Configs = {plain, ssh}
    Ssh = {ssh}
    None = None
    Handlers = {h1, h2}
    MaxTunnels = 3
INVARIANTS MapMatchesTable TunnelsAccountedFor
SYMMETRY Symmetry
CHECK_DEADLOCK FALSE
