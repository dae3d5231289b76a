SPECIFICATION Spec
CONSTANTS
    fileA = fileA
    fileB = fileB
    hidden = hidden
    top = top
    sub = sub
    Commands = {k1, k2}
    Files = {fileA, fileB, hidden}
    Dirs = {top, sub}
    Source = top
    Children <- MCChildren
    Hidden = {hidden}
    a = a
    b = b
    Blocks = {a, b}
    Contents <- MCContents
    MaxBlocks = 2
    PartSize = 1
    Changing = {fileA}
    Before <- MCBefore
    Uploaded <- MCUploaded
    Names = {n1}
    None = None
    MaxStarts = 2
    MaxChanges = 1
SYMMETRY Symmetry
INVARIANTS
    RootIsComplete
    ReadIsOneUpload
CHECK_DEADLOCK FALSE
