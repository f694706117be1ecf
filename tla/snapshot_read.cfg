\* Two inodes, files of up to three blocks against a limit of two, three changes
\* of the file system, one failing system call.
CONSTANTS
    Inode = {i1, i2}
    NoInode = NoInode
    Block = {x, y}
    Limit = 2
    MaxLen = 3
    MaxChanges = 3
    MaxFaults = 1
SYMMETRY Symmetric
SPECIFICATION Spec
INVARIANTS
    RetainedWithinLimit
PROPERTIES
    ImplementsAtomicRead
    ChangedIsReal
