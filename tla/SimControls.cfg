\* A bounded set of circuits, two inputs between frames.
CONSTANTS
    Circuits <- AllCircuits
    NoBuild = NoBuild
    Levels = {0, 1}
    MaxPending = 2
SPECIFICATION Spec
INVARIANTS TypeOK RunsWhatIsShown FreshAimTrue
PROPERTIES LastWordWins SwitchObeysClicks FrameSettles
