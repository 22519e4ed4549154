\* What the delete dialog says of the bucket.
CONSTANTS
    d1 = d1  d2 = d2  d3 = d3  t1 = t1  t2 = t2  p1 = p1  p2 = p2  c1 = c1
    Docs = {d1, d2}
    Tabs = {t1, t2}
    PdfPaths = {p1}
    CoverPaths = {}
    Covers <- MCCovers
    NoPath = NoPath
    NoDoc = NoDoc
    Audio = FALSE
    MaxBatch = 1
    MaxStray = 1
    Reuse = TRUE
SPECIFICATION Spec
SYMMETRY Interchangeable
PROPERTY DeleteRemovesFiles
