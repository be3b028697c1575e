\* Two exchanges with the same structures; calls of a buffered reader; strings, lines of a
\* head, base64, percent-encoding and URIs.
SPECIFICATION SequentialSpec
CONSTANTS
    Garbage = Garbage
    Messages <- MCMessages
    Names <- MCNames
    Chunk = 3
    MaxRead = 12
    ResponseNames <- MCNames
    ResponseValues <- MCResponseValues
    Statuses <- MCStatuses
    MaxBody = 2
    MaxExchanges = 2
    MaxOps = 2
    Inputs <- MCInputs
    SizeMax = 15
    Requests = {1, 2, 4}
    Limits = {0, 3}
    MaxCalls = 4
    Texts <- MCTexts
    Chars = {65, 97}
    MaxLength = 4
    MaxEdits = 2
    FirstLines <- MCRequestLines
    FieldLines <- MCHeaderLines
    Plain <- MCPlain
    Codes <- MCCodes
    Room = 9
    Unset = 256
    MaxCodings = 2
    PlainTexts <- MCPlainTexts
    MaxEscaped = 8
    FirstTexts <- MCFirstTexts
    UriTexts <- MCUriTexts
    PortLimit = 9
    IntLimit = 16
    LongLimit = 64
    MaxParses = 2
INVARIANTS
    SequentialTypeOK
    AcceptedIsWhole
    NeverWaitsForMore
    RejectedOnlyIfCut
    ContentLengthIsRight
    HeadersAreAsked
    ResponseIsFresh
    ReadGivesInput
    CopyIsExact
    StringsAreValues
    SearchesAreExact
    SplitIsExact
    LinesAreTakenApart
    DecoderIsExact
    EscapesAreExact
    ComponentsAreTheText
    PrintedParsesBack
PROPERTY WritesStayInside
