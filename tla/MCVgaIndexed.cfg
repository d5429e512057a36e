\* The screen has its real size.
SPECIFICATION Spec
CONSTANTS
    BUFFER_WIDTH = 80
    BUFFER_HEIGHT = 25
INVARIANT IndexNamesCell
