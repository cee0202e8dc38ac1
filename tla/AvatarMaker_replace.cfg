\* The instance of AvatarMaker.cfg, asked whether a job sent without
\* Replace ever overwrites an avatar: it does.
CONSTANTS
    Names = {n1, n2, n3}
    HandNames = {n1}
    HandFolders = {1}
    NumFolders = 2
    MaxQueue = 1
    MaxJobs = 3
    NoRequest = NoRequest
SPECIFICATION Spec
PROPERTY NeverReplacesUnasked
