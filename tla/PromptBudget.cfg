SPECIFICATION Spec
CONSTANTS
    Call <- MCCall
    MaxParts = 3
INVARIANT AnswerHasItsRoom
INVARIANT KeepsTheLongestThatFits
