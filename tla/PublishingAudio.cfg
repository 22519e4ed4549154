\* Batches of audio files, picked again while the files of an earlier pick
\* are live or half uploaded.
CONSTANTS
    d1 = d1  d2 = d2  d3 = d3  t1 = t1  t2 = t2  p1 = p1  p2 = p2  c1 = c1
    Docs = {d1, d2, d3}
    Tabs = {t1}
    PdfPaths = {p1, p2}
    CoverPaths = {}
    Covers <- MCCovers
    NoPath = NoPath
    NoDoc = NoDoc
    Audio = TRUE
    MaxBatch = 2
    MaxStray = 1
    Reuse = TRUE
SPECIFICATION Spec
SYMMETRY Interchangeable
INVARIANTS IntactOrShared EveryObjectAccounted
