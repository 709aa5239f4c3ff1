SPECIFICATION Spec
CONSTANTS
    Width = 2
    Height = 2
    Names <- MCNames
    DepthImages <- MCDepthImages
    Boxes <- MCBoxes
    Headers <- MCHeaders
    ClassConfigs <- MCClassConfigs
    HistorySpan = 1
    FrameMaxAge = 1
    MaxSamples = 10
    MaxNow = 2
INVARIANTS TypeOK PromptConsistent DepthIsMeasured FilterKept
