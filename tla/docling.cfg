\* One worker, or two; two callers, jobs, files, processes and addresses; three pages, two at a time.
CONSTANTS
    Parts = {"orchestrator", "twoWorkers", "registry", "evidence"}
    Tasks = {t1}
    pdf = pdf
    other = other
    Requests = {pdf, pdf2, other}
    PdfRequests = {pdf, pdf2}
    Workers = {w}
    Callers = {c1, c2}
    PageCount = 3
    RangeSize = 2
    MaxQueue = 2
    NoTask = NoTask
    NoRequest = NoRequest
    NoWorker = NoWorker
    None = None
    Pair = {c1, c2}
    Others = {w1, w2}
    Urls = {u1, u2}
SPECIFICATION SuiteSpec
SYMMETRY Symmetry
INVARIANTS OneWorkerKeepsTasks SuccessHasResult RecordsAgree
PROPERTIES RangesAdvance
CHECK_DEADLOCK FALSE
