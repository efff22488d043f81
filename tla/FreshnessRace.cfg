SPECIFICATION RaceSpec
CONSTANTS
    doc = doc
    obs = obs
    scan = scan
    proj = proj
    old = old
    new = new
    w1 = w1
    w2 = w2
    NULL = NULL
    Keys = {doc, obs, scan, proj}
    Writer <- MCWriter
    Contents = {old, new}
    Split <- MCSplit
    Workers = {w1, w2}
    Batch = 1
    MaxRev = 3
CHECK_DEADLOCK FALSE
INVARIANT Guarantee
