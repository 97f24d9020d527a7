SPECIFICATION CertificatesSpec
CONSTANTS
    shop = shop
    blog = blog
    Default = Default
    Bad = Bad
    NoPem = NoPem
    NoRow = NoRow
    Domain <- MCDomain
    MaxCerts = 2
    MaxEdits = 3
    Life = 3
    BackendMayCrash = FALSE
    HaproxyMayRestart = FALSE
    GeoipReloads = FALSE
INVARIANTS
    EndsStartable
