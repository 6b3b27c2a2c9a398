SPECIFICATION PackagesSpec
CONSTANTS
    c1 = c1 c2 = c2 a1 = a1 a2 = a2 a3 = a3 a4 = a4 a5 = a5
    p1 = p1 p2 = p2 p3 = p3 o3 = o3
    m = m n = n al = al e1 = e1 e2 = e2 f1 = f1 f2 = f2
    x1 = x1 x2 = x2 x3 = x3 s1 = s1 t1 = t1 t2 = t2
    Casks = {c1, c2}
    Artifacts = {a1, a2, a3, a4, a5}
    CaskOf <- MCaskOf KindOf <- MKindOf TargetOf <- MTargetOf OtherTarget <- MOtherTarget
    Free = Free User = User
    CaskFaults = {"stage", "move", "run", "db", "remove", "crash"}
    Kegs <- MKegs Entries = {e1, e2} Files = {f1, f2} Holds <- MHolds
    AliasesOf <- MAliasesOf Private <- MPrivate
    Itself = Itself Nothing = Nothing UserFile = UserFile Directory = Directory
    SourceVersions = {1, 2} NoBuild = NoBuild
    BuildFaults = {"move", "build", "remove", "db", "link", "crash"}
    FileNames = {x1, x2, x3, s1, t1, t2} FileKind <- MFileKind TempOf <- MTempOf
    KegLayouts <- MKegLayouts NoInode = NoInode
    RelocateFaults = {"chmod", "read", "write", "elf", "tool"}
    CaskNames = {"a", "t/a", "b", "c", "d"} TokenOf <- MTokenOf
    DependsOnCasks <- MDependsOnCasks DependsOnFormulas = {"b", "d"}
    CaskRequests <- MCaskRequests
    Openers = {"q1", "q2", "q3"} Supports <- MSupports TablesOf <- MTablesOf
INVARIANTS PackagesTypeOK CasksAreWholeOrGone RecordedBuildSurvives RelocationIsComplete
    OpenDatabasesAreWhole
PROPERTIES UserFilesSurvive LinksAreKept DependenciesFirst
CHECK_DEADLOCK FALSE
