SPECIFICATION Spec
CONSTANTS
    a = a
    b = b
    nul = nul
    space = space
    newline = newline
    backspace = backspace
    nochar = nochar
    p = p
    Width = 3
    Height = 2
    Nul <- nul
    Space <- space
    Newline <- newline
    Size = 3
    Chars <- MCChars
    Backspace <- backspace
    NoChar <- nochar
    QueueSize = 2
    Prompt <- MCPrompt
    Texts <- MCTexts
INVARIANTS
    TypeOK
    LineFaithful
    LineReturned
    EchoMatches
SYMMETRY MCSymmetry
