------------------------------ MODULE GpsRecord ------------------------------
(***************************************************************************)
(* A position on its way from the modem's line to the server: taken apart  *)
(* by updateGPSInfo and printed by GPSInfoToString (firmware/A7672E.c),    *)
(* read by recibir posicion (server/server.py).                            *)
(*                                                                         *)
(* Coordinates are degrees and minutes; the record holds them in units of  *)
(* 1/10000 of a minute of the number ddmm, the body prints them as         *)
(* dd.mmmmmm, and the server reads that number, here in millionths.        *)
(***************************************************************************)
EXTENDS Integers

CONSTANTS
  Western,    \* {TRUE}, {FALSE} or both: S and W, N and E
  Degrees,
  Minutes,
  Fractions,  \* what the text after the point of the minutes says, as a whole number
  Lengths,    \* how many digits that text has
  Speeds,     \* in tenths
  Courses

\* Assumed by the modules that instantiate this one.
InputsAssumption ==
  /\ Western \subseteq BOOLEAN /\ Degrees \subseteq 0..180 /\ Minutes \subseteq 0..59
  /\ Fractions \subseteq Nat /\ (\A f \in Fractions : f < 1000000) /\ Lengths \subseteq 1..6
  /\ Speeds \subseteq Nat /\ Courses \subseteq 0..359

\* 10^d, as a table: the provers know nothing of powers.
TenTo(d) == <<1, 10, 100, 1000, 10000, 100000, 1000000, 10000000>>[d + 1]

\* The modem prints six digits; the line that A7672E.c:764 makes up has as many as
\* rand() % 10000 has, and two more.
Coordinates == {c \in [west : Western, deg : Degrees, min : Minutes, frac : Fractions, digits : Lengths] :
                  c.frac < TenTo(c.digits)}
Lines == [lat : Coordinates, lon : Coordinates, speed : Speeds, course : Courses]
None == [none |-> TRUE]

VARIABLES
  line,    \* +CGPSINFO, as the modem has sent it
  info,    \* simcomObj.GPSInfo
  body,    \* postData
  answer,  \* the status code of the server, 0 before it
  shown    \* posicion_actual

vars == <<line, info, body, answer, shown>>

Init == line \in Lines /\ info = None /\ body = None /\ answer = 0 /\ shown = None

-----------------------------------------------------------------------------
Byte(n) == n % 256

Signed(c, n) == IF c.west THEN -n ELSE n

\* Mutant of Coordinate: five digits of the fraction are kept.
CoordinateTenths(c) == Signed(c, (c.deg * 100 + c.min) * 10000 + c.frac \div 10)

\* ddmm * 10000, the number after the point without its last two digits, however many
\* there were, and the sign of the hemisphere.
Coordinate(c) == Signed(c, (c.deg * 100 + c.min) * 10000 + c.frac \div 100)

\* uint8_t speed
Speed(s) == Byte(Byte((s \div 10) * 10) + (s % 10))

UpdateGPSInfo ==
  /\ info = None
  /\ info' = [lat |-> Coordinate(line.lat), lon |-> Coordinate(line.lon),
              speed |-> Speed(line.speed), course |-> line.course]
  /\ UNCHANGED <<line, body, answer, shown>>

\* / and % of C, which round towards 0.
Quotient(n, d) == IF n < 0 THEN -((-n) \div d) ELSE n \div d
Remainder(n, d) == n - d * Quotient(n, d)

\* The text "%d.%04d" of two numbers: how many digits the second one has, at least width.
Digits(n) == CHOOSE d \in 1..7 : n < TenTo(d) /\ (d = 1 \/ n >= TenTo(d - 1))
Text(whole, rest, width) ==
  [whole |-> whole, rest |-> rest,
   digits |-> IF rest >= 0 /\ Digits(rest) > width THEN Digits(rest) ELSE width]
DegreesText(n) == Text(Quotient(n, 1000000), Remainder(n, 1000000), 4)

GPSInfoToString ==
  /\ info # None /\ body = None
  /\ body' = [lat |-> DegreesText(info.lat), lon |-> DegreesText(info.lon),
              vel |-> Text(info.speed \div 10, info.speed % 10, 1), dir |-> info.course]
  /\ UNCHANGED <<line, info, answer, shown>>

-----------------------------------------------------------------------------
\* A number of JSON has one sign at most; its value in millionths.
IsNumber(text) == text.rest >= 0
Millionths(text) == text.whole * 1000000 + text.rest * TenTo(6 - text.digits)

\* A body that is no JSON is refused; the text is never longer than six digits.
RecibirPosicion ==
  /\ body # None /\ answer = 0
  /\ IF IsNumber(body.lat) /\ IsNumber(body.lon)
     THEN /\ answer' = 200
          /\ shown' = [lat |-> Millionths(body.lat), lon |-> Millionths(body.lon),
                       vel |-> Millionths(body.vel), dir |-> body.dir]
     ELSE answer' = 400 /\ UNCHANGED shown
  /\ UNCHANGED <<line, info, body>>

Next == UpdateGPSInfo \/ GPSInfoToString \/ RecibirPosicion

Spec == Init /\ [][Next]_vars

-----------------------------------------------------------------------------
(***************************************************************************)
(* Properties.                                                             *)
(***************************************************************************)
\* Types of the variables: the widths of the fields of SIMCOM_LAST_GPS_POSSITION.
TypeOK ==
  /\ line \in Lines /\ answer \in {0, 200, 400}
  /\ info # None => /\ {info.lat, info.lon} \subseteq -180600000..180600000
                    /\ info.speed \in 0..255 /\ info.course \in 0..65535

\* What the server shows is the position that the modem has reported, to four digits
\* of the minute.
Reading(c) == Signed(c, c.deg * 1000000 + c.min * 10000 + (c.frac * TenTo(6 - c.digits)) \div 100)
PositionAsReported ==
  answer = 200 => shown.lat = Reading(line.lat) /\ shown.lon = Reading(line.lon) /\ shown.dir = line.course

\* A line with all six digits of both fractions, as the modem sends them.
FullLine == line.lat.digits = 6 /\ line.lon.digits = 6

\* What the server shows is what the record holds.
RecordShown == answer = 200 => shown.lat = info.lat /\ shown.lon = info.lon

\* The record holds the number ddmm.mmmm times 10000, as A7672E.h:104 says of it, of
\* every line that it is made from.
RecordAsDocumented == info # None => info.lat = Reading(line.lat) /\ info.lon = Reading(line.lon)

\* The server understands every report.
NoRefusal == answer # 400

\* The speed, with its one decimal, is that of the line; as far as 25.5 it is kept.
SpeedAsReported == answer = 200 => shown.vel = line.speed * 100000
SlowSpeedKept == line.speed < 256 => SpeedAsReported
=============================================================================
