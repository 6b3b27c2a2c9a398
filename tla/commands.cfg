SPECIFICATION FrontSpec
CONSTANTS
    k1 = k1 k2 = k2 k3 = k3
    Formulas = {1, 2, 3}
    Tags = {"x86_64_linux", "all", "arm64_linux"}
    PreferredTags <- MPreferred
    FallbackTags = {"x86_64_linux", "arm64_linux"}
    Docs <- MDocs Rows <- MRows Asks <- MAsks
    Packages = {k1, k2, k3} PackageKind <- MPackageKind UnsupportedCasks = {}
    NoPackage = NoPackage
    CommandFaults = {"plan", "copy", "item", "link", "db", "cask", "unlink", "remove", "brew"}
    ConfigFiles <- MConfigFiles
    Settings = {s1, s2} UserLines = {u1}
    BlockStart = BlockStart BlockEnd = BlockEnd NoSettings = NoSettings
    MaxLines = 3
    InitFaults = {"sudo", "mkdir", "open", "write", "clear"}
    Dialects = {"formula", "cask"} MaxTapLines = 8 NoParse = NoParse
    CaskPlatforms = {"x86_64_linux", "arm64_linux", "arm64_sonoma"}
    PreferredKeys <- MPreferredKeys NoCask = NoCask OnMacOS = FALSE
INVARIANTS FrontTypeOK PlanIsSound TextsAreReadRight FailuresLoseOneAtMost
PROPERTIES MigrationKeepsPackages ManagedBlockIsKept
CHECK_DEADLOCK FALSE
