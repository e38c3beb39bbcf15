SPECIFICATION Spec
CONSTANTS
    hA = hA
    hB = hB
    supertab = supertab
    supertab2 = supertab2
    other = other
    broken = broken
    PathOnly = PathOnly
    NoHost = NoHost
    NoServer = NoServer
    Absent = Absent
    Blank = Blank
    BaseUrl = supertab
    Usages = {"train", "search"}
    Authority <- MCAuthority
    Documents <- MCDocuments
    Resources <- MCResources
INVARIANTS
    TypeOK
    ScanFindsBestMatch
    CredentialsStayHome
    PatternLanguage
    GrantedUsageIsFree
    NamespaceNeutral
CHECK_DEADLOCK FALSE
