CONSTANTS
    URLs = {Plain, Secure}
    Plain = Plain
    Secure = Secure
    HttpsURLs = {Secure}
    FirstURL = Secure
    Credentials = TRUE
    HTTP_MOVE_LIMIT = 1
    BodySend = 0
    MaxBody = 1
    WriteSizes = {1}
    Responses <- Faulty
    EarlyResponses <- FaultyEarly
    Informational = {100}
    SendsFail = TRUE
    ResetsOnError = FALSE
    NoURL = NoURL
    MaxWire = 1
SPECIFICATION FairSpec
INVARIANT CredentialsOnlyWhenAsked
PROPERTY CallsReturn
