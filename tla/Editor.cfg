SPECIFICATION Spec
CONSTANTS
    Texts <- MCTexts
    Class <- MCClass
    Blank = "blank"
    NewLine = "newline"
    NL = "nl"
    Swap <- MCSwap
    Typed <- MCTyped
    Yanked <- MCYanked
    Editors <- MCEditors
    Counts = {1, 2}
    MaxSteps = 2
PROPERTIES
    WordsLikeVim
    NothingLost
    LinesStayWhole
CHECK_DEADLOCK FALSE
