SPECIFICATION Spec
CONSTANTS
    BUFFER_WIDTH = 2
    BUFFER_HEIGHT = 3
    PromptLength = 1
    Keys = {"a", "control"}
    RawNames = {3}
    Outputs <- MCOutputs
    MaxTyped = 4
INVARIANTS ShellTypeOK BackspaceSparesPrompt
PROPERTIES PrintlnOutput ImplementsLineEditor
