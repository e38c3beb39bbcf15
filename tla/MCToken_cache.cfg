SPECIFICATION Spec
CONSTANTS
    t1 = t1
    t2 = t2
    t3 = t3
    loop1 = loop1
    loop2 = loop2
    c1 = c1
    c2 = c2
    hA = hA
    hB = hB
    supertab = supertab
    other = other
    PathOnly = PathOnly
    NoHost = NoHost
    NoServer = NoServer
    Absent = Absent
    Blank = Blank
    None = None
    Authority <- MCAuthority
    LoopOf <- MCLoopOf
    Tasks = {t1, t2, t3}
    Requests <- TwoClients
    Documents = {"on_supertab", "open_to_train"}
    XmlOf <- MCXmlOf
    XmlTTL = 1
    Margin = 1
    Lifetimes = {2}
    Flight = 1
    MaxTime = 1
SYMMETRY Symmetry
INVARIANTS
    TypeOK
    OneMintPerLoop
    TokenFitsCall
PROPERTIES
    NoRedundantMint
CHECK_DEADLOCK FALSE
