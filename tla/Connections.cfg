CONSTANTS
    STACK_BUFFER_SIZE = 2
    Contents <- SomeContents
    InputPlans <- SomeInputPlans
    OutputPlans <- SomeOutputPlans
    BufferSizes = {1, 4}
    ReadSizes = {0, 1, 3}
    MaxWritten = 4
    InSizes = {2, 3}
    OutSizes = {2}
    NbSizes = {0, 1, 3}
    SendPlans <- SomeSendPlans
    Segments = {1, 2}
    MaxTraffic = 3
    MinInput = 1
    Responses <- SomeResponses
    RecvSizes = {1, 3}
    CodingSizes = {1, 2}
    HbSizes = {0, 1, 3}
    HbSegments = {1, 4}
    MaxQueued = 2
    Issuer <- SomeIssuer
    MbConfigs <- SomeMbConfigs
    MbSizes = {0, 1, 2}
    MbMtus = {0, 4, 5, 8, 9, 13}
    MbHeaders = {5}
    MbPaddings = {0, 1, 4}
    MbRecords = {0, 1, 2}
    SendResults <- SomeSendResults
    UINT_MAX = 7
    OsConfigs <- SomeOsConfigs
    OsSizes = {1, 2}
    HANDSHAKE_EXCHANGES = 3
    TdKeys <- SomeTdKeys
    TdDatagrams <- SomeTdDatagrams
    TdSizes = {1, 2}
    TdMaxWire = 2
    ChainCerts = {1, 2, 3, 4}
    IssuerGraphs <- AllGraphs
    ConfiguredChains <- SomeChains
    Handles = {1, 2}
    MaxObjects = 3
    TlsaArrays <- SomeTlsaArrays
    MkCommands <- SomeMkCommands
    MkItems <- SomeMkItems
    MkSizes = {0, 1, 2}
    MaxScript = 2
    MaxCommands = 2
SPECIFICATION ConnectionsSpec
INVARIANT StreamsCorrect
INVARIANT NetbufCorrect
INVARIANT BodiesCorrect
INVARIANT MbedtlsCorrect
INVARIANT OpensslCorrect
INVARIANT TinydtlsCorrect
INVARIANT RebuildIsMaximal
INVARIANT SocketApiCorrect
INVARIANT MocksockCorrect
