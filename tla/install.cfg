\* Installs and removals with every fault, the daemon dying anywhere.
SPECIFICATION Spec
CONSTANTS
    Names = {"p"}
    Files = {"p.ssam", "x.ssam"}
    DestFile <- DestP
    Versions = {1, 2}
    Bundled <- BundledP
    Preinstalled <- Downloads
    Incoming <- NewFiles
    Faults <- InstallFaults
INVARIANTS
    TypeOK
    StoreMatchesDisk
    InstalledFileSurvives
    UserDataSurvives
    FailedUpgradeIsUndone
