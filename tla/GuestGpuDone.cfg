SPECIFICATION GameSpec
CONSTANTS
    t1 = t1
    t2 = t2
    draw1 = draw1
    flip1 = flip1
    job1 = job1
    idle1 = idle1
    Guests <- TwoGuests
    QueueCount = 2
    Submissions <- CrossSubmissions
    Flips = {}
    QueueOf <- CrossRings
    Program <- CrossStreams
    Labels <- AllLabels
    CpuLabels = {}
    MaxDone = 1
PROPERTIES ProducerResumes
CHECK_DEADLOCK FALSE
