SPECIFICATION Spec
CONSTANTS
    Processes = {1, 2, 3, 4}
    Casts = {{1, 2, 4}, {2, 3, 4}, {1, 2, 3}}
    Role <- UpgradeRole
    Release <- UpgradeRelease
    WithProvider <- UpgradeProvider
    CacheOnly <- UpgradeCacheOnly
    PackOf <- MCPackOf
    Revoked <- MCRevoked
    OldCaches <- UpgradeCaches
    OldTargets = {1}
    Damageable = {"provider2"}
INVARIANT TreesAreWhole
INVARIANT DoctorVouchesForOneTree
PROPERTY InstalledOutlives
