SPECIFICATION Spec
INVARIANTS
    AnswersRuleOut CompletedIsWhole ReferredKnowingly
PROPERTY StagesSpec
