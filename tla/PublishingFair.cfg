\* A tab that never uses a key twice, against the abstract catalogue, and in
\* which every request of an open tab settles.
CONSTANTS
    d1 = d1  d2 = d2  d3 = d3  t1 = t1  t2 = t2  p1 = p1  p2 = p2  c1 = c1
    Docs = {d1, d2}
    Tabs = {t1}
    PdfPaths = {p1, p2}
    CoverPaths = {c1}
    Covers <- MCCovers
    NoPath = NoPath
    NoDoc = NoDoc
    Audio = FALSE
    MaxBatch = 1
    MaxStray = 2
    Reuse = FALSE
SPECIFICATION FairSpec
PROPERTIES UploadEnds DeleteReachesBucket ImplementsCatalogue
