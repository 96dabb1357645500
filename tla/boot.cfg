SPECIFICATION Spec
CONSTANTS
  OtherIrqs = {12}
  Waits = {1, 2}
  Horizon = 4
  MaxKeys = 2
  Framebuffers <- MCFramebuffers
  Texts <- MCTexts
  TextOrigin = 1
  GlyphWidth = 2
  GlyphHeight = 2
  Font <- MCFont
INVARIANTS TypeOK ServiceExact KeysConserved ScreenExact
PROPERTIES PanicOnlyInDevices WaitLongEnough WaitReturns KeysTaken FramesGoOn
\* A panicked kernel has stopped: no step is left once the devices are quiet.
CHECK_DEADLOCK FALSE
