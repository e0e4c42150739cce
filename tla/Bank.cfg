SPECIFICATION MCSpec
CONSTANTS
    Options = {1, 2, 3}
    Self = 9
    Contents <- Some
    Unread <- NotRead
    None = None
    Unsure = Unsure
    Others = 4
    Players = {p1, p2}
    Reported = {q1, q2}
    Posts = {x1, x2}
    Reviewers = {v1, v2}
    MaxOpenReports = 1
    LastText = 3
    Former = Former
SYMMETRY Symmetric
INVARIANTS ReviewTypeOK ServedAsKept QueuesKeepWhatWaits
PROPERTIES ReviewersWorkSurvives
