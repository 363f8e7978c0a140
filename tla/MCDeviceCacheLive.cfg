\* One point is enough for progress: the signals of a read are independent.
CONSTANTS
    Points = {p1}
    Values = {v1, v2}
    Absent = Absent
    CommLost = CommLost
    NoChange = NoChange
SPECIFICATION LiveSpec
PROPERTIES ValueIsPublished SilenceIsAnnounced
