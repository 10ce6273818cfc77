SPECIFICATION Spec
CONSTANTS
  Western = {FALSE}
  Degrees = {0, 31, 121}
  Minutes = {5, 51}
  Fractions = {0, 99, 100, 343286, 999999}
  Lengths = {6}
  Speeds = {0, 9, 153, 255, 256, 1000}
  Courses = {145}
INVARIANTS PositionAsReported
CHECK_DEADLOCK FALSE
