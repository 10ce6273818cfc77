SPECIFICATION Spec
CONSTANTS
  Western = {FALSE}
  Degrees = {31, 121}
  Minutes = {13, 21}
  Fractions = {86, 786, 4286, 34286, 343286}
  Lengths = {3, 4, 5, 6}
  Speeds = {153}
  Courses = {145}
INVARIANTS RecordAsDocumented
CHECK_DEADLOCK FALSE
