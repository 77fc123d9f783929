CONSTANTS
    Procs = {p1, p2, p3}
    Files = {f1}
    Sizes = {1, 3}
    Limit = 2
    Owners <- MCOwners
    LinkTexts = {f1}
    Bodies <- MCBodies
    Retags = {"PATENT"}
    None = None
    Gone = Gone
SPECIFICATION Spec
SYMMETRY Symmetry
INVARIANTS UploadedIsStored ObjectHasRow LinkShowsUpload
CHECK_DEADLOCK FALSE
