SPECIFICATION Spec
INVARIANT TypeOK
INVARIANT FrameMatchesSpec
INVARIANT FilenameMatchesSpec
INVARIANT RoundTrip
CHECK_DEADLOCK FALSE
