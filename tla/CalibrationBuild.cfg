SPECIFICATION Spec
CONSTANTS
    wa = wa
    wb = wb
    wc = wc
    wd = wd
    we = we
    Word <- MCWord
    Special = Special
    Para = Para
    Line = Line
    None = None
    Error = Error
    Garbage = Garbage
    Role <- MCRole
    Schema <- MCSchema
    MinContent = 2
    MaxTokens = 3
    Shingle = 2
    Samples = 3
    Sketch = 2
    Hash <- MCHash
    Rows <- MCRows
    Domains <- MCDomains
    Args <- MCArgs
    Shuffles <- MCShuffles
    Strays <- MCStrays
INVARIANTS
    PublishedIsABuild
    HoldoutIsUnseen
    CurrentIsWhole
    ShortageIsReal
    FailuresAreOfTheInput
    ReportOfItsBuild
