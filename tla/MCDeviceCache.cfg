\* Two points, so that one may be received and the other not, and two values, so
\* that a point changes and changes back.
CONSTANTS
    Points = {p1, p2}
    Values = {v1, v2}
    Absent = Absent
    CommLost = CommLost
    NoChange = NoChange
SYMMETRY Symmetry
SPECIFICATION Spec
INVARIANTS OnlineIsCurrent LossAnnounced
