\* Two requests in flight over one announcement; three lists bound the requests
\* whose questions can be in the table or in flight at a time.
CONSTANTS
    Post = {p1}
    Editor = {e1, e2}
    List = {b1, b2, b3}
    Place = {n1, n2}
    Title = {t1, t2}
    MaxAnswers = 1
SPECIFICATION Spec
SYMMETRY Symmetry
INVARIANT TypeOK
INVARIANT WholeLists
INVARIANT OneListUnlessOverlapping
INVARIANT QuestionsFollowSurvey
INVARIANT SurveyComesWithPost
PROPERTY ImplementsQuestionnaire
PROPERTY LoneUpdateTakesEffect
\* Requests may run out of lists.
CHECK_DEADLOCK FALSE
