SPECIFICATION LibrarySpec
CONSTANTS
    LogThreads = {1, 2}
    NormalHandlers = {11}
    ExtendedHandlers = {12}
    DefaultHandler = 10
    LogModules = {1, 2}
    LogLevels = {1, 2}
    Elements = {1, 2, 3, 4, 5, 6, 7, 8}
    KeyOf <- SomeKey
    ListElements = {1, 2, 3, 4}
    ListKey <- SomeListKey
    VecValues = {1, 2, 3}
    MaxVec = 4
    TimeWidth = 4
    NS_IN_S = 4
    DOUBLE_EXACT = 16
    Multipliers <- SomeMultipliers
    UrlInputs <- SomeUrls
    B64Inputs <- SomeBytes
    B64Texts <- SomeB64Texts
    TokenTexts <- SomeTokenTexts
    Addresses <- SomeAddresses
    BYTE = 4
    WIDTH16 = 1
    WIDTH32 = 1
    WIDTH64 = 2
    Records <- SomeRecords
    Magic <- SomeMagic
    Versions = {0}
    MaxMemory = 6
    Infos <- SomeInfos
    MaxBlocks = 2
    LdCertInfos <- SomeCertInfos
    LdKeyInfos <- SomeKeyInfos
    LdMaxAllocs = 4
    DerData <- SomeDer
    PkiSizes = {0, 1, 2, 3, 5}
    Messages <- SomeMessages
    Forms <- SomeForms
    Damages <- SomeDamages
    UnitSuites <- SomeUnitSuites
    UnitArgs <- SomeUnitArgs
    UnitMocks = {1}
    MaxInvocations = 1
    MemSize = 2
    MemBytes <- SomeMemBytes
    MaxMem = 2
INVARIANT LogCorrect
INVARIANT RbtreeCorrect
INVARIANT ListsCorrect
INVARIANT VectorCorrect
INVARIANT TimeCorrect
INVARIANT UrlCorrect
INVARIANT CodecsCorrect
INVARIANT PersistenceCorrect
INVARIANT CryptoInfoCorrect
INVARIANT LoadersCorrect
INVARIANT PkiCorrect
INVARIANT UnitCorrect
