\* One worker, an image that another program replaces by one beyond the byte limit.
CONSTANTS
    Worker = {w1}
    Repair = "reference"
    Written = {"damaged", "huge"}
    MaxChanges = 1
    MaxFaults = 0
SPECIFICATION Spec
INVARIANTS
    ChangeIsNotCorrupt
CHECK_DEADLOCK FALSE
