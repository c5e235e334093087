------------------------------- MODULE Payloads -------------------------------
(***************************************************************************)
(* What the service makes of the values a client sends: the DTOs that      *)
(* check their shape, the value objects that check their meaning, and the  *)
(* verdicts of a reading.  Operators only.                                 *)
(*                                                                         *)
(* A value is what the JSON body or the query string holds, reduced to     *)
(* what the checks tell apart: its kind, and n, the number it denotes (in  *)
(* hundredths), the instant it denotes (in seconds from the moment when it *)
(* is judged) or the length of the text it is.                             *)
(***************************************************************************)
EXTENDS Integers, Sequences

TextKinds == {"numeral", "date", "blank", "word", "phrase", "email", "uuid"}
Kinds == {"absent", "null", "bool", "number", "infinite", "NaN"} \cup TextKinds

\* The values of a JSON field that is read as a number or an instant: a text is a
\* "numeral" if Number() reads it, and a "date" if new Date() does.
Values == [kind : Kinds, n : Int]

\* The values of a field that is read as a text: n is the length of a text.  A
\* "numeral" or a "date" is then one spelt like an id (12345, 2026-07-23); texts
\* such as +5 or 10:30 are left out.
TextValues == {v \in Values : v.kind \in TextKinds => IF v.kind = "blank" THEN v.n >= 0 ELSE v.n > 0}

\* A query parameter and an environment variable are texts, if they are there.
Settings == [kind : {"absent"} \cup TextKinds, n : Int]

Value(kind, n) == [kind |-> kind, n |-> n]
Number(n) == Value("number", n)
Absent == Value("absent", 0)
Null == Value("null", 0)

\* An accepted value, and the first of the errors that several checks report.
Fine == "none"
FirstError(errors) ==
    LET reported == {i \in DOMAIN errors : errors[i] # Fine}
    IN  IF reported = {} THEN Fine ELSE errors[CHOOSE i \in reported : \A j \in reported : i <= j]

------------------------------------------------------------------------------
(* ValueValidator.                                                         *)

IsEmpty(v) == v.kind \in {"absent", "null", "blank"}
IsFiniteNumber(v) == v.kind = "number"
IsNumberInRange(v, min, max) == v.n >= min /\ v.n <= max
IsValidUUID(v) == v.kind = "uuid"
IsValidDeviceId(v) == v.kind \in {"word", "uuid", "numeral", "date"} /\ v.n \in 3..100
IsLatitude(v) == IsFiniteNumber(v) /\ IsNumberInRange(v, -9000, 9000)
IsLongitude(v) == IsFiniteNumber(v) /\ IsNumberInRange(v, -18000, 18000)
IsValidDate(v) == v.kind = "date"

------------------------------------------------------------------------------
(* class-transformer and class-validator, as the DTOs use them.            *)

\* @Type(() => Number) leaves null alone and applies Number() to all the rest.
ToNumber(v) ==
    CASE v.kind \in {"absent", "null", "number", "infinite"} -> v
      [] v.kind \in {"numeral", "bool"} -> Number(v.n)
      [] v.kind = "blank" -> Number(0)
      [] OTHER -> Value("NaN", 0)

\* @Type(() => Date) leaves null alone and applies new Date() to all the rest.
ToDate(v) ==
    CASE v.kind \in {"absent", "null", "date"} -> v
      [] v.kind \in {"number", "bool"} -> Value("date", v.n)
      [] OTHER -> Value("NaN", 0)

IsOptional(v) == v.kind \in {"absent", "null"}
IsNumber(v) == v.kind = "number"
IsInt(v) == v.kind = "number" /\ v.n % 100 = 0
IsString(v) == v.kind \in TextKinds
IsNotEmpty(v) == ~(IsOptional(v) \/ (v.kind = "blank" /\ v.n = 0))
HasLength(v, min, max) == IsString(v) /\ v.n \in min..max

\* MUTANT: @Type(() => Number) instead of the decorator.
CoerceAnything(v) == ToNumber(v)

\* A text that is a number becomes the number; every other value stays.
CoerceNumericString(v) == IF v.kind = "numeral" THEN Number(v.n) ELSE v

------------------------------------------------------------------------------
(* The request DTOs: what the ValidationPipe accepts, and what it makes of *)
(* it.  A body or a query may have a field that no DTO knows.              *)

DeviceStatusValue == {"OK", "FAULT", "UNKNOWN"}

AcceptsRecordTelemetry(body) ==
    /\ ~body.unknownField
    /\ \A v \in {body.battery, body.temperature} : IsNumber(CoerceNumericString(v))
    /\ \A v \in {body.lat, body.lng} : IsOptional(v) \/ IsNumber(CoerceNumericString(v))
    /\ body.status \in DeviceStatusValue \cup {"absent"}
    /\ IsValidDate(ToDate(body.timestamp))

OrNull(v) == IF IsOptional(v) THEN Null ELSE v

RecordTelemetryCommand(body) ==
    [id |-> body.id,
     battery |-> CoerceNumericString(body.battery),
     temperature |-> CoerceNumericString(body.temperature),
     lat |-> OrNull(CoerceNumericString(body.lat)),
     lng |-> OrNull(CoerceNumericString(body.lng)),
     status |-> body.status,
     recordedAt |-> ToDate(body.timestamp)]

AcceptsRegisterDevice(body) ==
    /\ ~body.unknownField
    /\ \A v \in {body.id, body.name} : IsString(v) /\ IsNotEmpty(v) /\ HasLength(v, 0, 100)

AcceptsDeviceHistory(filter) ==
    /\ ~filter.unknownField
    /\ \A v \in {filter.from, filter.to} : IsOptional(v) \/ IsValidDate(ToDate(v))
    /\ IsOptional(filter.offset) \/ (IsInt(ToNumber(filter.offset)) /\ ToNumber(filter.offset).n >= 0)
    /\ IsOptional(filter.limit) \/ (IsInt(ToNumber(filter.limit)) /\ IsNumberInRange(ToNumber(filter.limit), 100, 10000))

GetDeviceHistoryQuery(filter) ==
    [offset |-> IF IsOptional(filter.offset) THEN Number(0) ELSE ToNumber(filter.offset),
     limit |-> IF IsOptional(filter.limit) THEN Number(2000) ELSE ToNumber(filter.limit),
     from |-> ToDate(filter.from),
     to |-> ToDate(filter.to)]

\* The handler's check of the range.
IsInverted(query) == query.from.kind = "date" /\ query.to.kind = "date" /\ query.from.n > query.to.n

AcceptsRegister(body) ==
    /\ ~body.unknownField
    /\ body.email.kind = "email"
    /\ IsString(body.password) /\ body.password.n >= 5
    /\ \A v \in {body.firstName, body.lastName} : IsString(v) /\ IsNotEmpty(v)

AcceptsLogin(body) ==
    /\ ~body.unknownField
    /\ \A v \in {body.email, body.password} : IsString(v) /\ IsNotEmpty(v)

------------------------------------------------------------------------------
(* The value objects, each as the error that it throws or Fine.            *)

BatteryLevel(v) ==
    IF ~IsFiniteNumber(v) THEN "InvalidBatteryLevelError"
    ELSE IF ~IsNumberInRange(v, 0, 10000) THEN "BatteryLevelOutOfRangeError"
    ELSE Fine

Temperature(v) ==
    IF ~IsFiniteNumber(v) THEN "InvalidTemperatureError"
    ELSE IF ~IsNumberInRange(v, -27315, 100000) THEN "TemperatureOutOfRangeError"
    ELSE Fine

GeoCoordinates(lat, lng) ==
    IF ~IsLatitude(lat) THEN "InvalidLatitudeError"
    ELSE IF ~IsLongitude(lng) THEN "InvalidLongitudeError"
    ELSE Fine

DeviceStatus(status) ==
    IF status = "blank" THEN "EmptyDeviceStatusError"
    ELSE IF status \notin DeviceStatusValue THEN "InvalidDeviceStatusError"
    ELSE Fine

TelemetryTimestamp(v) ==
    IF ~IsValidDate(v) THEN "InvalidTelemetryTimestampError"
    ELSE IF v.n > 300 THEN "TelemetryTimestampInFutureError"
    ELSE Fine

DeviceId(v) ==
    IF IsEmpty(v) THEN "EmptyDeviceIdError"
    ELSE IF ~IsValidDeviceId(v) THEN "InvalidDeviceIdFormatError"
    ELSE Fine

DeviceName(v) ==
    IF IsEmpty(v) THEN "EmptyDeviceNameError"
    ELSE IF v.n < 2 THEN "DeviceNameTooShortError"
    ELSE IF v.n > 100 THEN "DeviceNameTooLongError"
    ELSE Fine

DeviceOwnerId(v) ==
    IF IsEmpty(v) THEN "EmptyDeviceOwnerIdError"
    ELSE IF ~IsValidUUID(v) THEN "InvalidDeviceOwnerIdFormatError"
    ELSE Fine

\* The ids that the service makes up are checked like any other.
GeneratedId == Value("uuid", 36)

TelemetryEventId(v) ==
    IF IsEmpty(v) THEN "EmptyTelemetryEventIdError"
    ELSE IF ~IsValidUUID(v) THEN "InvalidTelemetryEventIdFormatError"
    ELSE Fine

UserId(v) ==
    IF IsEmpty(v) THEN "EmptyUserIdError"
    ELSE IF ~IsValidUUID(v) THEN "InvalidUserIdFormatError"
    ELSE Fine

\* One kind for the DTO's IsEmail and the regular expression of the value object,
\* which differ in exotic addresses.
Email(v) == IF v.kind = "email" THEN Fine ELSE "InvalidEmailError"

Password(v) == IF v.n >= 5 THEN Fine ELSE "InvalidPasswordError"

\* The first name; the last name is checked likewise.
NamePart(v) ==
    IF ~IsNotEmpty(v) THEN "EmptyNameError"
    ELSE IF v.n < 2 THEN "NameTooShortError"
    ELSE IF v.n > 50 THEN "NameTooLongError"
    ELSE IF v.kind \notin {"word", "phrase", "blank"} THEN "InvalidNameFormatError"
    ELSE Fine

Name(first, last) == FirstError(<<NamePart(first), NamePart(last)>>)

------------------------------------------------------------------------------
(* The aggregates.                                                         *)

\* A reading has both coordinates or neither.
LocationFrom(lat, lng) ==
    CASE IsOptional(lat) /\ IsOptional(lng) -> Fine
      [] IsOptional(lat) # IsOptional(lng) -> "PartialGeoCoordinatesError"
      [] OTHER -> GeoCoordinates(lat, lng)

StatusOrUnknown(status) == IF status = "absent" THEN "UNKNOWN" ELSE status

\* The error that TelemetryReading.record throws.
RecordError(command) ==
    FirstError(<<TelemetryEventId(GeneratedId),
                 DeviceId(command.id),
                 BatteryLevel(command.battery),
                 Temperature(command.temperature),
                 LocationFrom(command.lat, command.lng),
                 DeviceStatus(StatusOrUnknown(command.status)),
                 TelemetryTimestamp(command.recordedAt)>>)

\* The row that TelemetryEventRepository.save stores.
TelemetryReading(command) ==
    [battery |-> command.battery.n,
     temperature |-> command.temperature.n,
     lat |-> command.lat,
     lng |-> command.lng,
     status |-> StatusOrUnknown(command.status),
     recordedAt |-> command.recordedAt.n]

RegisterDeviceError(id, name, ownerId) == FirstError(<<DeviceId(id), DeviceName(name), DeviceOwnerId(ownerId)>>)

CreateUserError(body) ==
    FirstError(<<UserId(GeneratedId), Email(body.email), Password(body.password), Name(body.firstName, body.lastName)>>)

------------------------------------------------------------------------------
(* The thresholds, from two settings that are texts, and the verdicts.     *)

\* MUTANT: a blank setting is the number 0.
BlankIsZero(raw, fallback) ==
    IF raw.kind # "absent" /\ ToNumber(raw).kind = "number" THEN ToNumber(raw).n ELSE fallback

\* What is not a number is the default.
NumberOrDefault(raw, fallback) ==
    IF ~IsEmpty(raw) /\ ToNumber(raw).kind = "number" THEN ToNumber(raw).n ELSE fallback

CurrentThresholds(settings) ==
    [minBattery |-> NumberOrDefault(settings.minBattery, 1500),
     maxTemperature |-> NumberOrDefault(settings.maxTemperature, 6000)]

TelemetryThresholds(thresholds) ==
    IF ~IsNumberInRange(Number(thresholds.minBattery), 0, 10000) THEN "InvalidBatteryThresholdError"
    ELSE IF ~IsNumberInRange(Number(thresholds.maxTemperature), -27315, 100000) THEN "InvalidTemperatureThresholdError"
    ELSE Fine

IsBelow(n, threshold) == n < threshold
IsAbove(n, threshold) == n > threshold

\* MUTANT: a value that equals its threshold breaches it.
BreachedAtTheLimit(reading, thresholds) ==
    {type \in {"LOW_BATTERY", "HIGH_TEMPERATURE"} :
        IF type = "LOW_BATTERY" THEN reading.battery <= thresholds.minBattery
                                ELSE reading.temperature >= thresholds.maxTemperature}

\* The rules that a reading breaches; it is told to satisfy the others.
Breached(reading, thresholds) ==
    {type \in {"LOW_BATTERY", "HIGH_TEMPERATURE"} :
        IF type = "LOW_BATTERY" THEN IsBelow(reading.battery, thresholds.minBattery)
                                ELSE IsAbove(reading.temperature, thresholds.maxTemperature)}
==============================================================================
