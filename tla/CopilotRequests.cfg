SPECIFICATION Spec
CONSTANTS
    p1 = p1
    p2 = p2
    a1 = a1
    a2 = a2
    f1 = f1
    f2 = f2
    t1 = t1
    t2 = t2
    ev = ev
    u1 = u1
    u2 = u2
    l1 = l1
    l2 = l2
    y1 = y1
    y2 = y2
    Panels = {p1}
    QuestionBound = 2
    Questions <- MCQuestions
    Replies <- MCReplies
    Citable = {f1, f2, t1, t2, ev}
    Analyses = {a1, a2}
    FindingsOf <- MCFindingsOf
    MappingsOf <- MCMappingsOf
    TextsOf <- MCTextsOf
    Confidence <- MCConfidence
    Title = u1
    Titles = {u1, u2}
    TitleBound = 2
    Suspected = {f2, u2, l1, y2}
CHECK_DEADLOCK FALSE
INVARIANT TypeOK
INVARIANT PointsAreGrounded
INVARIANT AnswersAreOnTrail
INVARIANT ConversationInOrder
PROPERTY EveryQuestionEnds
