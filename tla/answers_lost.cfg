\* One survey, one request at a time, one question.
CONSTANTS
    Post = {p1}
    Editor = {e1}
    List = {b1, b2}
    Place = {n1}
    Title = {t1}
    MaxAnswers = 1
SPECIFICATION Spec
INVARIANT AnswersCount
CHECK_DEADLOCK FALSE
