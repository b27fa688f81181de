SPECIFICATION SinkSpec
CONSTANTS
    AudioChoices = {TRUE, FALSE}
    MuteChoices = {TRUE, FALSE}
    MaxUnready = 1
    FrameSpan = 4
    MaxAdds = 3
    MaxResets = 1
PROPERTIES
    FramesContiguous
    NamedFirst
    TracksSettle
