SPECIFICATION Spec
CONSTANTS
    t1 = t1
    t2 = t2
    draw1 = draw1
    flip1 = flip1
    job1 = job1
    idle1 = idle1
    Guests <- TwoGuests
    QueueCount = 2
    Submissions <- AllSubmissions
    Flips = {flip1}
    QueueOf <- AllRings
    Program <- AllStreams
    Labels <- AllLabels
    CpuLabels = {"d"}
    MaxDone = 2
SYMMETRY GuestSymmetry
INVARIANTS SubmissionsKept PacketsInOrder LabelsInOrder
PROPERTIES ReturnsFollowWork
CHECK_DEADLOCK FALSE
