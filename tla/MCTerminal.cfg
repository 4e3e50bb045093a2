SPECIFICATION Spec
CONSTANTS
    Height = 3
    Width = 10
    Characters <- MCCharacters
    Blank = " "
    Gap = 3
    Prompt <- MCPrompt
    Label <- MCLabel
    Offered <- MCChoices
    Pieces <- MCPieces
    Texts <- MCTexts
    MaxLines = 2
    MaxRows = 2
INVARIANTS
    TypeOK
    ScreenShown
    CursorShown
CHECK_DEADLOCK FALSE
