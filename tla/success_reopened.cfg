\* One worker and one PDF: "success" is reported, then withdrawn.
CONSTANTS
    Tasks = {t1}
    Requests = {pdf}
    PdfRequests = {pdf}
    Workers = {w1}
    Callers = {c1}
    PageCount = 2
    RangeSize = 2
    MaxQueue = 2
    NoTask = NoTask
    NoRequest = NoRequest
    NoWorker = NoWorker
SPECIFICATION Spec
PROPERTIES SuccessIsFinal
CHECK_DEADLOCK FALSE
