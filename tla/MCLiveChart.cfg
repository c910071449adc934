CONSTANTS
    Lines = {m1, m2, total}
    Ticks = {t1, t2, t3}
    Axis = axis
    Duration = 3
SPECIFICATION FairSpec
INVARIANTS TypeOK OneTransition
PROPERTIES TicksHaveLeft RedrawsForever
