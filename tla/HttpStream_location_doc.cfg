CONSTANTS
    URLs = {Plain, Secure}
    Plain = Plain
    Secure = Secure
    HttpsURLs = {Secure}
    FirstURL = Plain
    Credentials = TRUE
    HTTP_MOVE_LIMIT = 1
    BodySend = 1
    MaxBody = 2
    WriteSizes = {1, 2}
    Responses <- Nowhere
    EarlyResponses = {}
    Informational = {100}
    SendsFail = FALSE
    ResetsOnError = TRUE
    NoURL = NoURL
    MaxWire = 2
SPECIFICATION FairSpec
PROPERTY CallsReturn
