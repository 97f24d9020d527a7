SPECIFICATION CertificatesSpec
CONSTANTS
    shop = shop
    blog = blog
    Default = Default
    Bad = Bad
    NoPem = NoPem
    NoRow = NoRow
    Domain <- MCDomain
    MaxCerts = 3
    MaxEdits = 2
    Life = 3
    BackendMayCrash = TRUE
    HaproxyMayRestart = TRUE
    GeoipReloads = TRUE
INVARIANTS
    RenewedInTime
