SPECIFICATION BothSpec
CONSTANTS
    t1 = t1
    t2 = t2
    draw1 = draw1
    flip1 = flip1
    job1 = job1
    idle1 = idle1
    Guests <- TwoGuests
    QueueCount = 2
    Submissions <- FlipSubmissions
    Flips = {flip1}
    QueueOf <- FlipRings
    Program <- FlipStreams
    Labels <- AllLabels
    CpuLabels = {}
    MaxDone = 0
PROPERTIES CallersReturn StreamsResume ImplementsStream
CHECK_DEADLOCK FALSE
