\* 0 is black, 1 a colour, 2 a black with its alpha byte set.
SPECIFICATION DeviceSpec
CONSTANTS
  Colors = {0, 1, 2}
  Lit = {1}
  Delays = {0, 1}
  Screens <- MCScreens
  NumCameras = 2
  MaxReport = 9
  Inputs <- MCInputs
  Reports <- MCReports
INVARIANTS LightsAreRight CameraIsSound FirstMatch GsvIsPartition
\* A search, and a report, are over when they are done.
CHECK_DEADLOCK FALSE
