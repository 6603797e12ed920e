SPECIFICATION Spec
CONSTANTS
    e1 = e1
    e2 = e2
    e3 = e3
    w1 = w1
    w2 = w2
    Edits = {e1, e2, e3}
    Sets <- SetsOf
    Clears <- ClearsOf
    Workers = {w1, w2}
    ContentType = "text_image"
SYMMETRY Symmetry
INVARIANTS TypeOK EditsMerge OnlyOverlapEmpties PublishedIsOneVersion
