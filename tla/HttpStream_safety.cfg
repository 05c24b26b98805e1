CONSTANTS
    URLs = {Plain, Secure}
    Plain = Plain
    Secure = Secure
    HttpsURLs = {Secure}
    FirstURL = Plain
    Credentials = TRUE
    HTTP_MOVE_LIMIT = 2
    BodySend = 1
    MaxBody = 3
    WriteSizes = {1, 2}
    Responses <- Usual
    EarlyResponses <- UsualEarly
    Informational = {100}
    SendsFail = FALSE
    ResetsOnError = TRUE
    NoURL = NoURL
    MaxWire = 2
SPECIFICATION Spec
INVARIANT StreamConsistent
INVARIANT CleanBeforeRequest
INVARIANT RequestsIntact
