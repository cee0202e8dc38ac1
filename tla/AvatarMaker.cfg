\* Three names, two folders, three jobs of which two may wait: a request finds
\* the line full, or its name being made, and a name can be asked for again
\* after its first job was published, failed half-way, or was forgotten.
CONSTANTS
    Names = {n1, n2, n3}
    HandNames = {n1}
    HandFolders = {1}
    NumFolders = 2
    MaxQueue = 2
    MaxJobs = 3
    NoRequest = NoRequest
SPECIFICATION Spec
INVARIANTS TypeOK OneJobPerName WakeMatchesQueue DoneMeansPublished
PROPERTIES JobsEnd KeepsPromise
