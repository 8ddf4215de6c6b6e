SPECIFICATION Spec
CONSTANTS
    b1 = b1
    b2 = b2
    p1 = p1
    noExec = noExec
    none = none
    Builders = {b1, b2}
    Profiles = {p1}
    Args <- MCArgs
    EnvNames <- MCEnvNames
    EnvValues <- MCEnvValues
    Names <- MCNames
    Servers <- MCServers
    Proxies <- MCProxies
    Opaque <- MCOpaque
    Providers <- MCProviders
    NoExec <- noExec
    None <- none
    Contents <- AllContents
    Source = "memory"
INVARIANTS TypeOK ProviderConfigUntouched OneAuthenticatorPerAccessor
PROPERTY KeepsPromise
SYMMETRY BuilderSymmetry
CHECK_DEADLOCK FALSE
