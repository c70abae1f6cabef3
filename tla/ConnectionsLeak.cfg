SPECIFICATION Spec
CONSTANTS
    Names = {n1}
    Default = n1
    Configs = {ssh}
    Ssh = {ssh}
    None = None
    Handlers = {h1}
    MaxTunnels = 2
PROPERTY DeleteClosesTunnels
CHECK_DEADLOCK FALSE
