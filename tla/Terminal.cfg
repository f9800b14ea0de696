\* A buffer of two characters, a line of three bytes, a screen of two rows of four
\* columns, and enough keys to go round all of them.
CONSTANTS
    KBD_BUFFER_SIZE = 3
    LineSize = 3
    DrainLimit = 2
    VGA_WIDTH = 4
    VGA_HEIGHT = 2
    TabSize = 2
    CharMax = 6
    Letters = {"a", "b"}
    Greeting <- MCGreeting
    Prompt <- MCPrompt
    Texts <- MCTexts
    MaxKeys = 5
    MaxWrites = 1
SPECIFICATION Spec
INVARIANTS ExecsWhatWasTyped EchoShowsLine
PROPERTIES ImplementsKeyQueue EveryKeyIsRead
