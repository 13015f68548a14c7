SPECIFICATION PatientSpec
CONSTANTS
    a = a
    b = b
    nul = nul
    space = space
    newline = newline
    backspace = backspace
    nochar = nochar
    p = p
    Width = 3
    Height = 2
    Nul <- nul
    Space <- space
    Newline <- newline
    Size = 4
    Chars <- MCOneChar
    Backspace <- backspace
    NoChar <- nochar
    QueueSize = 2
    Prompt <- MCPrompt
    Texts <- MCTexts
PROPERTY ReadLineEnds
