CONSTANTS
    Layer = "ESP"
    Configs <- MCConfigs
    Groups <- MCGroups
    Answers <- MCAnswers
    Offers <- MCOffers
    KEGroups <- MCKEGroups
    Alternatives = 2
SPECIFICATION Spec
INVARIANT SelectionExact
INVARIANT AnswerNarrowsOffer
INVARIANT BestAnswer
CHECK_DEADLOCK FALSE
