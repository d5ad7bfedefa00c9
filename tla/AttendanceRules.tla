---------------------------- MODULE AttendanceRules ----------------------------
(***************************************************************************)
(* The pure rules of internal/attendance: local dates, credited minutes,   *)
(* progress, the geofence verdict and the flag codes it leads to.          *)
(*                                                                         *)
(* Instants are natural numbers of clock ticks.  A fix is what the server  *)
(* knows of the client's GPS data once the haversine distance is computed: *)
(*   coords    whether both coordinates were sent,                         *)
(*   inBounds  whether they are a point of the globe,                      *)
(*   accuracy  the reported accuracy in metres, NULL when absent,          *)
(*   distance  metres to the site,                                         *)
(*   reason    whether a location exception reason was typed.              *)
(* strconv.ParseFloat also accepts "NaN" and "Inf".  NaN as an accuracy is *)
(* NaN or +Inf; -Inf is as any negative number.  A NaN coordinate fails no *)
(* comparison, so it is in bounds, and its distance is NaN; an infinite    *)
(* coordinate is out of bounds.                                            *)
(***************************************************************************)
EXTENDS Integers, FiniteSets

CONSTANTS
  NULL,             \* SQL NULL and Go nil
  NaN,              \* a float64 that is no number of metres
  TicksPerMinute,   \* clock resolution
  TicksPerDay,      \* length of a civil day
  TZOffset,         \* institution timezone: local time = UTC + TZOffset
  UnusualMinutes,   \* institution_settings.unusual_session_minutes
  LowAccuracyM,     \* institution_settings.low_accuracy_threshold_m
  RadiusM           \* ojt_sites.allowed_radius_m

ASSUME NullAssumption == NULL \notin Int
ASSUME NaNAssumption == NaN \notin Int \cup {NULL}
ASSUME ClockAssumption ==
  /\ TicksPerMinute \in Nat \ {0}
  /\ TicksPerDay \in Nat \ {0}
  /\ TZOffset \in Int
ASSUME ThresholdAssumption ==
  /\ UnusualMinutes \in Nat \ {0}
  /\ LowAccuracyM \in Nat \ {0}
  /\ RadiusM \in Nat

BreakTypes == {"none", "fixed_after_threshold"}
BreakRule == [type : BreakTypes, threshold : Nat, deduction : Nat]
Fix == [coords : BOOLEAN, inBounds : BOOLEAN, accuracy : Int \cup {NULL, NaN},
        distance : Nat \cup {NaN}, reason : BOOLEAN]
LocationStatuses == {"verified", "outside_radius", "low_accuracy", "unavailable"}
FlagCodes == {"outside_radius", "low_accuracy", "unavailable_location",
              "unusual_duration"}

-------------------------------------------------------------------------------
(* Local dates: the calendar day of an instant in the institution's zone.  *)

LocalDate(t) == (t + TZOffset) \div TicksPerDay

-------------------------------------------------------------------------------
(* Credited minutes.                                                       *)

ElapsedSwapped(tin, tout) == (tin - tout) \div TicksPerMinute

\* Whole minutes between two instants, never negative.
Elapsed(tin, tout) ==
  IF tout < tin THEN 0 ELSE (tout - tin) \div TicksPerMinute

\* Slips are kept beside what they distort, for the mutation of the model:
\* here, the threshold itself is not yet a break.
BreakAppliesStrictly(rule, elapsed) ==
  /\ rule.type = "fixed_after_threshold"
  /\ rule.threshold > 0
  /\ rule.deduction > 0
  /\ elapsed > rule.threshold

BreakApplies(rule, elapsed) ==
  /\ rule.type = "fixed_after_threshold"
  /\ rule.threshold > 0
  /\ rule.deduction > 0
  /\ elapsed >= rule.threshold

Deducted(rule, elapsed) ==
  IF ~BreakApplies(rule, elapsed) THEN 0
  ELSE IF rule.deduction < elapsed THEN rule.deduction ELSE elapsed

CreditedMinutes(tin, tout, rule) ==
  Elapsed(tin, tout) - Deducted(rule, Elapsed(tin, tout))

ProgressPercent(completed, required) ==
  IF required <= 0 THEN 0
  ELSE LET p == (completed * 100) \div required
       IN  IF p < 100 THEN p ELSE 100

-------------------------------------------------------------------------------
(* The geofence verdict and its flag codes.                                *)

AccuracyOK(fix) ==
  /\ fix.accuracy \notin {NULL, NaN}
  /\ fix.accuracy \in 0 .. LowAccuracyM

\* dist > radius, which NaN is not.
Outside(fix) == fix.distance # NaN /\ fix.distance > RadiusM

\* A plausible slip: the distance is judged before the accuracy.
EvaluateDistanceFirst(fix) ==
  CASE ~fix.coords \/ ~fix.inBounds -> "unavailable"
    [] fix.coords /\ fix.inBounds /\ Outside(fix) -> "outside_radius"
    [] OTHER -> IF AccuracyOK(fix) THEN "verified" ELSE "low_accuracy"

EvaluateLocation(fix) ==
  IF ~fix.coords \/ ~fix.inBounds THEN "unavailable"
  ELSE IF ~AccuracyOK(fix) THEN "low_accuracy"
  ELSE IF Outside(fix) THEN "outside_radius"
  ELSE "verified"

\* locationFor: an unavailable location needs a typed reason.
ReasonMissing(fix) == EvaluateLocation(fix) = "unavailable" /\ ~fix.reason

\* CHECK (gps_accuracy_m >= 0) of the evidence, which NULL and, in PostgreSQL,
\* NaN pass; a distance is never negative.
AccuracyStorable(fix) == fix.accuracy \in {NULL, NaN} \/ fix.accuracy >= 0

\* Accuracy and distance are numbers that JSON has; no point, no distance.
Encodable(fix) ==
  fix.accuracy # NaN /\ (EvaluateLocation(fix) # "unavailable" => fix.distance # NaN)

flagsFor(status) ==
  CASE status = "outside_radius" -> {"outside_radius"}
    [] status = "low_accuracy" -> {"low_accuracy"}
    [] status = "unavailable" -> {"unavailable_location"}
    [] OTHER -> {}

durationFlags(elapsed) ==
  IF elapsed >= UnusualMinutes THEN {"unusual_duration"} ELSE {}
================================================================================
