CONSTANTS
    b1 = b1  b2 = b2  p1 = p1  noExec = noExec  none = none
    Args = {}
    EnvNames = {1}
    EnvValues = {"own"}
    Names = {"secretreader"}
    Servers <- TwoServers
    Proxies = {""}
    Opaque <- TwoClusters
    Providers <- MCProviders
    NoExec = noExec
    Builders = {b1, b2}
    Profiles = {p1}
    Contents <- MCContents
    None = none
    Source = "hub"
    ClusterAt <- MCClusterAt
    Environment <- Pod
    MaxTokens <- Tokens
SPECIFICATION SpokeSpec
INVARIANTS NeverPanics NoForeignCredential
PROPERTY CallReturns
