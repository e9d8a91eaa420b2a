CONSTANTS
    Files = {f1}
    MaxTasks = 3
    Workers = 2
    Plans <- MCPlans
    Last = 2
    Window = 0
    MaxStarts = 2
    MaxUnacked = 3
    NoAnimation = none
SPECIFICATION FairSpec
INVARIANTS
    TypeOK
    OneChain
    WindowKept
PROPERTIES
    FramesInOrder
    ParkedAnimationResumes
    StartIsCarriedOut
    StoppedAnimationRests
CHECK_DEADLOCK FALSE
